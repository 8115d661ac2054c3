---------------------------- MODULE MCMigration ----------------------------
(***************************************************************************)
(* The two tools of the migration, one at a time: the exporter on the      *)
(* legacy databases of MCPgExport, or the object transfer on the corpora   *)
(* of MCObjectCutover.  They share no state; the keys that both compute    *)
(* are those of ObjectKeys.                                                *)
(***************************************************************************)
EXTENDS MCPgExport, ObjectCutover

VARIABLE tool

\* The corpora do not depend on the set of corpora examined.
Legacy == INSTANCE MCObjectCutover WITH Corpora <- {}

LegacyCorpora == Legacy!AllCorpora
migrationVars == <<tool, vars, cutoverVars>>

\* The corpora examined are such as the proofs are about.
ASSUME CorporaAssumption == \A c \in Corpora : WellKept(c)

\* The tool that is not examined does not start.
MigrationInit ==
    /\ \/ tool = "export" /\ corpus = Legacy!Base
       \/ tool = "cutover" /\ source = "plain"
    /\ Init
    /\ CutoverInit

Export == tool = "export" /\ Next /\ UNCHANGED <<tool, cutoverVars>>
Transfer == tool = "cutover" /\ CutoverNext /\ UNCHANGED <<tool, vars>>
MigrationNext == Export \/ Transfer

\* A transfer goes on until it ends, and the operator starts every one.
Goes(r) == tool = "cutover" /\ step(r) /\ UNCHANGED <<tool, vars>>
MigrationSpec ==
    /\ MigrationInit
    /\ [][MigrationNext]_migrationVars
    /\ \A r \in Transfers : WF_migrationVars(Goes(r))

\* The property of reruns after a failure (object-cutover/README.md).
TransferCompletes == tool = "cutover" => RerunsComplete
=============================================================================
