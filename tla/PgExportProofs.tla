--------------------------- MODULE PgExportProofs ---------------------------
(***************************************************************************)
(* Theorems about PgExport, for every set of exporters and inventories,    *)
(* every legacy database and every number of I/O errors and crashes.       *)
(***************************************************************************)
EXTENDS PgExport, TLAPS

-----------------------------------------------------------------------------
(* The inductive invariant.                                                *)

Unpublished == {"idle", "open", "read", "sequences", "build", "publish",
                "blocked"}
Published == {"sealed", "rollback", "manifest", "synced", "done"}
Labels == Unpublished \cup Published \cup {"ready", "failed"}

\* The variables have their types; the source and what is found in it stay.
ExportTypes ==
    /\ source \in Sources
    /\ finds = Checks(Versions[source], Keys[source])
    /\ version \in Nat
    /\ pc \in [Runs -> Labels]
    /\ snap \in [Runs -> Nat] /\ seqs \in [Runs -> Nat]
    /\ verdict \in [Runs -> {None, "blocked", "error", "killed"}]
    /\ output \in Files \cup {None}
    /\ manifest \in Entries \cup {None}

\* Only export builds files, and only inventory ends with "ready".
Places ==
    \A r \in Runs :
        IF r \in Exporters THEN pc[r] # "ready"
        ELSE pc[r] \in {"idle", "open", "ready", "blocked", "done", "failed"}

\* The file at the path is that of the run that published it, from the moment
\* it does until it returns; a run that did not get there, or that failed after
\* it and was not killed, has none.
OwnOutput ==
    \A r \in Exporters :
        /\ pc[r] \in Published => output # None /\ output.by = r
        /\ pc[r] \in Unpublished \/ (pc[r] = "failed" /\ verdict[r] # "killed")
              => output = None \/ output.by # r

\* The manifest of a run that wrote it stays.
OwnManifest ==
    \A r \in Exporters :
        pc[r] \in {"synced", "done"} =>
            manifest # None /\ manifest.by = r /\ manifest.status = "complete"

\* A file says from which versions its run made it.
FilesDescribed ==
    /\ output # None => /\ output.by \in Exporters
                        /\ output.snap = snap[output.by]
                        /\ output.seqs = seqs[output.by]
    /\ manifest # None => /\ manifest.by \in Runs
                          /\ manifest.snap = snap[manifest.by]
                          /\ manifest.seqs = seqs[manifest.by]
                          /\ pc[manifest.by] \in {"synced", "done", "failed"}

\* What is called complete has passed every check.
Verified ==
    /\ \A r \in Exporters : pc[r] \in {"rollback", "manifest", "synced"} =>
          <<snap[r], seqs[r]>> \in finds.verified
    /\ manifest # None /\ manifest.status = "complete" =>
          <<manifest.snap, manifest.seqs>> \in finds.verified

ExportInv == /\ ExportTypes /\ Places /\ OwnOutput /\ OwnManifest
             /\ FilesDescribed /\ Verified

-----------------------------------------------------------------------------
(* The steps.                                                              *)

\* The place a run goes to.
LEMMA GoGives ==
    ASSUME ExportTypes, NEW r \in Runs, NEW l \in Labels, Go(r, l)
    PROVE  /\ pc' \in [Runs -> Labels] /\ pc'[r] = l
           /\ \A o \in Runs : o # r => pc'[o] = pc[o]
  BY DEF ExportTypes, Go

\* How a run that goes on changes what it knows of itself.
Locals(r) ==
    /\ pc' \in [Runs -> Labels] /\ snap' \in [Runs -> Nat] /\ seqs' \in [Runs -> Nat]
    /\ verdict' \in [Runs -> {None, "blocked", "error", "killed"}]
    /\ \A o \in Runs : o # r => /\ pc'[o] = pc[o] /\ verdict'[o] = verdict[o]
                                /\ snap'[o] = snap[o] /\ seqs'[o] = seqs[o]
    /\ UNCHANGED <<source, finds, version>>

\* The runs keep the snapshots they have; only open and read_sequences read.
SameReads(r) == snap'[r] = snap[r] /\ seqs'[r] = seqs[r]

\* Opening a snapshot, or reading the sequences, comes before there is a file.
Reads(r) == /\ pc[r] \in {"open", "sequences"}
            /\ r \in Exporters => pc'[r] \in Unpublished
            /\ r \notin Exporters => pc[r] = "open" /\ pc'[r] \in {"ready", "blocked"}
            /\ UNCHANGED <<output, manifest>>

\* A run that goes nowhere near the files.
Moves(r) ==
    /\ r \in Exporters => pc[r] \in Unpublished /\ pc'[r] \in Unpublished \cup {"failed"}
    /\ r \notin Exporters => pc[r] \in {"idle", "open", "ready", "blocked"}
                             /\ pc'[r] \in {"open", "ready", "blocked", "failed"}
    /\ SameReads(r) /\ UNCHANGED <<output, manifest>>

Publishes(r) ==
    /\ r \in Exporters
    /\ pc[r] = "publish" /\ pc'[r] = "sealed" /\ output = None
    /\ output' = [by |-> r, snap |-> snap[r], seqs |-> seqs[r]]
    /\ SameReads(r) /\ UNCHANGED manifest

\* The run that has its file in place goes on.
GoesOn(r) ==
    /\ r \in Exporters
    /\ \/ pc[r] = "sealed" /\ pc'[r] = "rollback" /\ <<snap[r], seqs[r]>> \in finds.verified
       \/ pc[r] = "rollback" /\ pc'[r] = "manifest"
       \/ pc[r] = "synced" /\ pc'[r] = "done"
    /\ SameReads(r) /\ UNCHANGED <<output, manifest>>

\* The run that has its file in place fails and removes it, or is killed.
TakesBack(r) ==
    /\ r \in Exporters
    /\ pc[r] \in {"sealed", "rollback", "manifest", "synced"}
    /\ pc'[r] = "failed" \/ (pc[r] = "sealed" /\ pc'[r] = "blocked")
    /\ \/ output' = None
       \/ pc'[r] = "failed" /\ verdict'[r] = "killed" /\ UNCHANGED output
    /\ SameReads(r) /\ UNCHANGED manifest

Completes(r) ==
    /\ r \in Exporters
    /\ pc[r] = "manifest" /\ pc'[r] = "synced"
    /\ manifest = None /\ manifest' = Entry(r, "complete")
    /\ SameReads(r) /\ UNCHANGED output

\* The manifest of a run that is blocked, or of an inventory.
Reports(r) ==
    /\ \/ pc[r] = "blocked" /\ pc'[r] = "failed"
       \/ r \notin Exporters /\ pc[r] = "ready" /\ pc'[r] \in {"done", "failed"}
    /\ \/ UNCHANGED manifest
       \/ manifest = None /\ \E st \in {"blocked", "ready"} : manifest' = Entry(r, st)
    /\ SameReads(r) /\ UNCHANGED output

\* What one step of a run is.
RunStep(r) == /\ Locals(r)
              /\ \/ Reads(r) \/ Moves(r) \/ Publishes(r) \/ GoesOn(r)
                 \/ TakesBack(r) \/ Completes(r) \/ Reports(r)

\* Refuse goes to "blocked" and changes the verdict only.
LEMMA RefuseGives ==
    ASSUME ExportTypes, NEW r \in Runs, Refuse(r), UNCHANGED <<source, finds, version>>
    PROVE  Locals(r) /\ SameReads(r) /\ pc'[r] = "blocked"
  BY GoGives DEF Refuse, Locals, SameReads, ExportTypes, Labels, Unpublished

\* Going on with the same locals.
LEMMA GoOnly ==
    ASSUME ExportTypes, NEW r \in Runs, NEW l \in Labels, Go(r, l),
           UNCHANGED <<source, finds, version, snap, seqs, verdict>>
    PROVE  Locals(r) /\ SameReads(r) /\ pc'[r] = l
  BY GoGives DEF Locals, SameReads, ExportTypes

\* Going on with a verdict.
LEMMA GoVerdict ==
    ASSUME ExportTypes, NEW r \in Runs, NEW l \in Labels, Go(r, l),
           NEW v \in {"blocked", "error", "killed"},
           verdict' = [verdict EXCEPT ![r] = v],
           UNCHANGED <<source, finds, version, snap, seqs>>
    PROVE  Locals(r) /\ SameReads(r) /\ pc'[r] = l /\ verdict'[r] = v
  BY GoGives DEF Locals, SameReads, ExportTypes

\* The labels.
LEMMA LabelFacts ==
    {"idle", "open", "read", "sequences", "build", "publish", "blocked", "sealed",
     "rollback", "manifest", "synced", "done", "ready", "failed"} = Labels
  BY DEF Labels, Unpublished, Published

\* Every action of a run is one of these steps.
LEMMA RunSteps ==
    ASSUME ExportTypes, Places, NEW r \in Runs, export(r) \/ fail(r) \/ crash(r)
    PROVE  RunStep(r)
  <1>0. r \in Exporters \/ pc[r] \in {"idle", "open", "ready", "blocked", "done", "failed"}
    BY DEF Places
  <1>1. CASE validate_private_output_path(r)
    <2>1. PICK l \in {"open", "failed"} : Go(r, l)
      BY <1>1 DEF validate_private_output_path
    <2>2. Locals(r) /\ SameReads(r) /\ pc'[r] = l
      BY <1>1, <2>1, GoOnly, LabelFacts DEF validate_private_output_path
    <2> QED BY <1>1, <2>2 DEF validate_private_output_path, RunStep, Moves, At, Unpublished
  <1>2. CASE open(r)
    <2>1. PICK l \in {"read", "ready", "blocked"} :
             /\ Go(r, l)
             /\ r \in Exporters => l # "ready"
             /\ r \notin Exporters => l # "read"
      BY <1>2 DEF open
    <2>2. verdict' = verdict \/ verdict' = [verdict EXCEPT ![r] = "blocked"]
      BY <1>2 DEF open
    <2>3. /\ pc' \in [Runs -> Labels] /\ pc'[r] = l
          /\ \A o \in Runs : o # r => pc'[o] = pc[o]
      BY <2>1, GoGives, LabelFacts
    <2>4. Locals(r)
      BY <1>2, <2>2, <2>3 DEF Locals, ExportTypes, open
    <2> QED BY <1>2, <2>1, <2>3, <2>4 DEF open, RunStep, Reads, At, Unpublished
  <1>3. CASE read_rows(r)
    <2>1. CASE Refuse(r)
      BY <1>0, <1>3, <2>1, RefuseGives DEF read_rows, RunStep, Moves, At, Unpublished
    <2>2. CASE Go(r, "sequences") /\ UNCHANGED <<snap, seqs, verdict>>
      BY <1>0, <1>3, <2>2, GoOnly, LabelFacts DEF read_rows, RunStep, Moves, At, Unpublished
    <2> QED BY <1>3, <2>1, <2>2 DEF read_rows
  <1>4. CASE read_sequences(r)
    <2>1. CASE Refuse(r)
      BY <1>0, <1>4, <2>1, RefuseGives DEF read_sequences, RunStep, Moves, At, Unpublished
    <2>2. CASE /\ Go(r, "build") /\ seqs' = [seqs EXCEPT ![r] = version]
               /\ UNCHANGED <<snap, verdict>>
      <3>1. /\ pc' \in [Runs -> Labels] /\ pc'[r] = "build"
            /\ \A o \in Runs : o # r => pc'[o] = pc[o]
        BY <2>2, GoGives, LabelFacts
      <3>2. Locals(r)
        BY <1>4, <2>2, <3>1 DEF Locals, ExportTypes, read_sequences
      <3> QED BY <1>0, <1>4, <3>1, <3>2 DEF read_sequences, RunStep, Reads, At, Unpublished
    <2> QED BY <1>4, <2>1, <2>2 DEF read_sequences
  <1>5. CASE build_artifact(r)
    <2>1. CASE Refuse(r)
      BY <1>0, <1>5, <2>1, RefuseGives DEF build_artifact, RunStep, Moves, At, Unpublished
    <2>2. CASE Go(r, "publish") /\ UNCHANGED <<snap, seqs, verdict>>
      BY <1>0, <1>5, <2>2, GoOnly, LabelFacts
      DEF build_artifact, RunStep, Moves, At, Unpublished
    <2> QED BY <1>5, <2>1, <2>2 DEF build_artifact
  <1>6. CASE persist(r)
    <2>1. CASE Refuse(r) /\ UNCHANGED output
      BY <1>0, <1>6, <2>1, RefuseGives DEF persist, RunStep, Moves, At, Unpublished
    <2>2. CASE /\ output = None /\ Go(r, "sealed") /\ UNCHANGED <<snap, seqs, verdict>>
               /\ output' = [by |-> r, snap |-> snap[r], seqs |-> seqs[r]]
      BY <1>0, <1>6, <2>2, GoOnly, LabelFacts DEF persist, RunStep, Publishes, At
    <2> QED BY <1>6, <2>1, <2>2 DEF persist
  <1>7. CASE verify(r)
    <2>1. CASE /\ <<snap[r], seqs[r]>> \in finds.verified
               /\ Go(r, "rollback") /\ UNCHANGED <<verdict, output>>
      BY <1>0, <1>7, <2>1, GoOnly, LabelFacts DEF verify, RunStep, GoesOn, At
    <2>2. CASE /\ Go(r, "blocked") /\ verdict' = [verdict EXCEPT ![r] = "blocked"]
               /\ output' = None
      BY <1>0, <1>7, <2>2, GoVerdict, LabelFacts DEF verify, RunStep, TakesBack, At
    <2> QED BY <1>7, <2>1, <2>2 DEF verify
  <1>8. CASE rollback(r) \/ finish(r)
    BY <1>0, <1>8, GoOnly, LabelFacts DEF rollback, finish, RunStep, GoesOn, At
  <1>9. CASE write_manifest(r)
    <2>1. CASE /\ manifest = None /\ manifest' = Entry(r, "complete")
               /\ Go(r, "synced") /\ UNCHANGED output
      BY <1>0, <1>9, <2>1, GoOnly, LabelFacts DEF write_manifest, RunStep, Completes, At
    <2>2. CASE Go(r, "failed") /\ output' = None /\ UNCHANGED manifest
      <3>1. Locals(r) /\ SameReads(r) /\ pc'[r] = "failed"
        BY <1>9, <2>2, GoOnly, LabelFacts DEF write_manifest
      <3>2. TakesBack(r)
        BY <1>0, <1>9, <2>2, <3>1 DEF write_manifest, TakesBack, At
      <3> QED BY <3>1, <3>2 DEF RunStep
    <2> QED BY <1>9, <2>1, <2>2 DEF write_manifest
  <1>10. CASE abort_export(r)
    BY <1>10, GoOnly, LabelFacts DEF abort_export, RunStep, Reports, At
  <1>11. CASE inventory(r)
    <2>1. r \notin Exporters /\ pc[r] = "ready"
      BY <1>11 DEF inventory, Places, At
    <2>2. PICK l \in {"done", "failed"} : Go(r, l)
      BY <1>11 DEF inventory
    <2>3. Locals(r) /\ SameReads(r) /\ pc'[r] = l
      BY <1>11, <2>2, GoOnly, LabelFacts DEF inventory
    <2> QED BY <1>11, <2>1, <2>3 DEF inventory, RunStep, Reports
  <1>12. CASE fail(r)
    <2>1. PICK l \in {"blocked", "failed"} :
             /\ Go(r, l)
             /\ l = "blocked" => pc[r] \in {"read", "sequences", "build", "publish", "sealed"}
      BY <1>12 DEF fail
    <2>2. Locals(r) /\ SameReads(r) /\ pc'[r] = l
      BY <1>12, <2>1, GoVerdict, LabelFacts DEF fail
    <2>3. CASE Removes(r)
      <3>1. TakesBack(r)
        BY <1>0, <1>12, <2>1, <2>2, <2>3 DEF fail, Removes, TakesBack
      <3> QED BY <2>2, <3>1 DEF RunStep
    <2>4. CASE ~Removes(r)
      <3>1. pc[r] \in Labels /\ pc[r] \notin {"idle", "done", "failed"}
        BY <1>12 DEF fail, ExportTypes
      <3>2. output' = output /\ manifest' = manifest
        BY <1>12, <2>4 DEF fail
      <3>3. r \in Exporters => pc[r] \in Unpublished
        BY <2>4, <3>1 DEF Removes, Labels, Unpublished, Published, Places
      <3> QED BY <1>0, <2>1, <2>2, <3>1, <3>2, <3>3 DEF RunStep, Moves, Unpublished
    <2> QED BY <2>3, <2>4
  <1>13. CASE crash(r)
    <2>1. Locals(r) /\ SameReads(r) /\ pc'[r] = "failed" /\ verdict'[r] = "killed"
      BY <1>13, GoVerdict, LabelFacts DEF crash
    <2>2. /\ pc[r] \in Labels /\ pc[r] \notin {"idle", "done", "failed"}
          /\ r \in Exporters => pc[r] # "ready"
      BY <1>13 DEF crash, ExportTypes, Places
    <2>3. CASE pc[r] \in {"sealed", "rollback", "manifest", "synced"}
      <3>1. TakesBack(r)
        BY <1>0, <1>13, <2>1, <2>3 DEF crash, TakesBack
      <3> QED BY <2>1, <3>1 DEF RunStep
    <2>4. CASE pc[r] \notin {"sealed", "rollback", "manifest", "synced"}
      BY <1>0, <1>13, <2>1, <2>2, <2>4
      DEF crash, RunStep, Moves, Labels, Unpublished, Published
    <2> QED BY <2>3, <2>4
  <1> QED BY <1>1, <1>2, <1>3, <1>4, <1>5, <1>6, <1>7, <1>8, <1>9, <1>10, <1>11,
             <1>12, <1>13 DEF export

\* The files a run puts in place are typed and describe it.
LEMMA FileGives ==
    ASSUME ExportTypes, NEW r \in Runs
    PROVE  /\ [by |-> r, snap |-> snap[r], seqs |-> seqs[r]] \in Files
           /\ \A st \in {"complete", "blocked", "ready"} :
                 /\ Entry(r, st) \in Entries
                 /\ Entry(r, st).by = r /\ Entry(r, st).status = st
                 /\ Entry(r, st).snap = snap[r] /\ Entry(r, st).seqs = seqs[r]
  BY DEF ExportTypes, Files, Entries, Entry

\* Every step of a run keeps the types.
LEMMA TypesKept ==
    ASSUME ExportTypes, NEW r \in Runs, RunStep(r)
    PROVE  ExportTypes'
  <1>1. Locals(r) /\ version' \in Nat /\ source' \in Sources
    BY DEF RunStep, Locals, ExportTypes
  <1>2. finds' = Checks(Versions[source], Keys[source])'
    <2>1. source' = source /\ finds' = finds
      BY DEF RunStep, Locals
    <2>2. Checks(Versions[source], Keys[source])' = Checks(Versions[source], Keys[source])
      BY <2>1
    <2> QED BY <2>1, <2>2 DEF ExportTypes
  <1>3. output' \in Files \cup {None}
    <2>1. \/ output' \in {output, None}
          \/ output' = [by |-> r, snap |-> snap[r], seqs |-> seqs[r]]
      BY DEF RunStep, Reads, Moves, Publishes, GoesOn, TakesBack, Completes, Reports
    <2> QED BY <2>1, FileGives DEF ExportTypes
  <1>4. manifest' \in Entries \cup {None}
    <2>1. CASE manifest' = manifest
      BY <2>1 DEF ExportTypes
    <2>2. CASE manifest' # manifest
      <3>1. PICK st \in {"complete", "blocked", "ready"} : manifest' = Entry(r, st)
        BY <2>2 DEF RunStep, Reads, Moves, Publishes, GoesOn, TakesBack, Completes,
           Reports
      <3> QED BY <3>1, FileGives
    <2> QED BY <2>1, <2>2
  <1> QED BY <1>1, <1>2, <1>3, <1>4 DEF ExportTypes, Locals

\* Every step of a run keeps the places its command can be at.
LEMMA PlacesKept ==
    ASSUME ExportTypes, Places, NEW r \in Runs, RunStep(r)
    PROVE  Places'
  <1> SUFFICES ASSUME NEW o \in Runs
               PROVE  IF o \in Exporters THEN pc'[o] # "ready"
                      ELSE pc'[o] \in {"idle", "open", "ready", "blocked", "done", "failed"}
    BY DEF Places
  <1>1. CASE o # r
    BY <1>1 DEF RunStep, Locals, Places
  <1>2. CASE o = r
    BY <1>2 DEF RunStep, Reads, Moves, Publishes, GoesOn, TakesBack, Completes,
       Reports, Places, Unpublished
  <1> QED BY <1>1, <1>2

\* Every step of a run leaves the file at the path to the run that put it there.
LEMMA OutputKept ==
    ASSUME ExportTypes, Places, OwnOutput, NEW r \in Runs, RunStep(r)
    PROVE  OwnOutput'
  <1> SUFFICES ASSUME NEW o \in Exporters
               PROVE  /\ pc'[o] \in Published => output' # None /\ output'.by = o
                      /\ pc'[o] \in Unpublished \/ (pc'[o] = "failed" /\ verdict'[o] # "killed")
                            => output' = None \/ output'.by # o
    BY DEF OwnOutput
  <1>0. o \in Runs
    BY DEF Runs
  <1>1. /\ pc[o] \in Published => output # None /\ output.by = o
        /\ pc[o] \in Unpublished \/ (pc[o] = "failed" /\ verdict[o] # "killed")
              => output = None \/ output.by # o
    BY DEF OwnOutput
  <1>2. o # r => pc'[o] = pc[o] /\ verdict'[o] = verdict[o]
    BY <1>0 DEF RunStep, Locals
  <1>3. CASE Reads(r) \/ Moves(r) \/ Completes(r) \/ Reports(r)
    <2>1. output' = output
      BY <1>3 DEF Reads, Moves, Completes, Reports
    <2>2. CASE o = r
      <3>1. CASE pc[r] \in Unpublished /\ pc'[r] \in Unpublished \cup {"failed"}
        BY <1>1, <2>1, <2>2, <3>1 DEF Unpublished, Published
      <3>2. CASE pc[r] = "manifest" /\ pc'[r] = "synced"
        BY <1>1, <2>1, <2>2, <3>2 DEF Unpublished, Published
      <3> QED BY <1>3, <2>2, <3>1, <3>2 DEF Reads, Moves, Completes, Reports, Unpublished
    <2> QED BY <1>1, <1>2, <2>1, <2>2
  <1>4. CASE Publishes(r)
    <2>1. output = None /\ output' # None /\ output'.by = r /\ pc'[r] = "sealed"
      BY <1>4, FileGives, NoFileAssumption DEF Publishes
    <2>2. CASE o = r
      BY <2>1, <2>2 DEF Published, Unpublished
    <2>3. CASE o # r
      BY <1>1, <1>2, <2>1, <2>3
    <2> QED BY <2>2, <2>3
  <1>5. CASE GoesOn(r)
    BY <1>1, <1>2, <1>5 DEF GoesOn, Published, Unpublished
  <1>6. CASE TakesBack(r)
    <2>1. output # None /\ output.by = r
      BY <1>6 DEF TakesBack, OwnOutput, Published
    <2>2. CASE o = r
      BY <1>6, <2>2 DEF TakesBack, Published, Unpublished
    <2>3. CASE o # r
      BY <1>1, <1>2, <1>6, <2>1, <2>3 DEF TakesBack
    <2> QED BY <2>2, <2>3
  <1> QED BY <1>3, <1>4, <1>5, <1>6 DEF RunStep

\* A manifest in place stays as it is.
LEMMA ManifestStays ==
    ASSUME NEW r \in Runs, RunStep(r), manifest # None
    PROVE  manifest' = manifest
  BY DEF RunStep, Reads, Moves, Publishes, GoesOn, TakesBack, Completes, Reports

\* Every step of a run keeps the manifest of a run that wrote it.
LEMMA ManifestKept ==
    ASSUME ExportTypes, OwnManifest, NEW r \in Runs, RunStep(r)
    PROVE  OwnManifest'
  <1> SUFFICES ASSUME NEW o \in Exporters, pc'[o] \in {"synced", "done"}
               PROVE  manifest' # None /\ manifest'.by = o /\ manifest'.status = "complete"
    BY DEF OwnManifest
  <1>1. CASE pc[o] \in {"synced", "done"}
    BY <1>1, ManifestStays DEF OwnManifest
  <1>2. CASE pc[o] \notin {"synced", "done"}
    <2>1. o = r
      BY <1>2 DEF RunStep, Locals, Runs
    <2>2. Completes(r)
      BY <1>2, <2>1 DEF RunStep, Reads, Moves, Publishes, GoesOn, TakesBack, Reports,
         Unpublished
    <2> QED BY <2>1, <2>2, FileGives, NoFileAssumption DEF Completes
  <1> QED BY <1>1, <1>2

\* Every step of a run keeps what the files say of their runs.
LEMMA DescribedKept ==
    ASSUME ExportTypes, Places, OwnOutput, FilesDescribed, NEW r \in Runs, RunStep(r)
    PROVE  FilesDescribed'
  <1>1. ASSUME output' # None
        PROVE  /\ output'.by \in Exporters
               /\ output'.snap = snap'[output'.by] /\ output'.seqs = seqs'[output'.by]
    <2>1. CASE Publishes(r)
      BY <2>1 DEF Publishes, SameReads
    <2>2. CASE ~Publishes(r)
      <3>1. output' = output
        BY <1>1, <2>2 DEF RunStep, Reads, Moves, GoesOn, TakesBack, Completes, Reports
      <3>2. /\ output.by \in Exporters
            /\ output.snap = snap[output.by] /\ output.seqs = seqs[output.by]
        BY <1>1, <3>1 DEF FilesDescribed
      <3>3. CASE output.by # r
        BY <3>1, <3>2, <3>3 DEF RunStep, Locals, Runs
      <3>4. CASE output.by = r
        <4>1. ~Reads(r)
          BY <1>1, <3>1, <3>2, <3>4 DEF Reads, OwnOutput, Unpublished
        <4>2. SameReads(r)
          BY <4>1 DEF RunStep, Moves, Publishes, GoesOn, TakesBack, Completes, Reports
        <4> QED BY <3>1, <3>2, <3>4, <4>2 DEF SameReads
      <3> QED BY <3>3, <3>4
    <2> QED BY <2>1, <2>2
  <1>2. ASSUME manifest' # None
        PROVE  /\ manifest'.by \in Runs
               /\ manifest'.snap = snap'[manifest'.by]
               /\ manifest'.seqs = seqs'[manifest'.by]
               /\ pc'[manifest'.by] \in {"synced", "done", "failed"}
    <2>1. CASE manifest = None
      <3>1. PICK st \in {"complete", "blocked", "ready"} : manifest' = Entry(r, st)
        BY <1>2, <2>1 DEF RunStep, Reads, Moves, Publishes, GoesOn, TakesBack,
           Completes, Reports
      <3>2. /\ manifest'.by = r /\ manifest'.snap = snap[r] /\ manifest'.seqs = seqs[r]
        BY <3>1, FileGives
      <3>3. Completes(r) \/ Reports(r)
        BY <1>2, <2>1 DEF RunStep, Reads, Moves, Publishes, GoesOn, TakesBack
      <3> QED BY <3>2, <3>3 DEF Completes, Reports, SameReads
    <2>2. CASE manifest # None
      <3>1. manifest' = manifest
        BY <2>2, ManifestStays
      <3>2. /\ manifest.by \in Runs
            /\ manifest.snap = snap[manifest.by] /\ manifest.seqs = seqs[manifest.by]
            /\ pc[manifest.by] \in {"synced", "done", "failed"}
        BY <2>2 DEF FilesDescribed
      <3>3. CASE manifest.by # r
        BY <3>1, <3>2, <3>3 DEF RunStep, Locals
      <3>4. CASE manifest.by = r
        <4>0. pc[r] \in {"synced", "done", "failed"}
          BY <3>2, <3>4
        <4>1. GoesOn(r) \/ TakesBack(r)
          BY <4>0 DEF RunStep, Reads, Moves, Publishes, Completes, Reports, Unpublished
        <4>2. /\ manifest' = manifest /\ pc'[r] \in {"done", "failed", "blocked"}
              /\ pc'[r] = "blocked" => pc[r] = "sealed"
              /\ SameReads(r)
          BY <3>1, <4>0, <4>1 DEF GoesOn, TakesBack
        <4> QED BY <3>2, <3>4, <4>0, <4>2 DEF SameReads
      <3> QED BY <3>3, <3>4
    <2> QED BY <2>1, <2>2
  <1> QED BY <1>1, <1>2 DEF FilesDescribed

\* Every step of a run calls complete only what has passed the checks.
LEMMA VerifiedKept ==
    ASSUME ExportTypes, Verified, NEW r \in Runs, RunStep(r)
    PROVE  Verified'
  <1>0. finds' = finds
    BY DEF RunStep, Locals
  <1>1. ASSUME NEW o \in Exporters, pc'[o] \in {"rollback", "manifest", "synced"}
        PROVE  <<snap'[o], seqs'[o]>> \in finds'.verified
    <2>1. CASE o # r
      BY <1>0, <1>1, <2>1 DEF RunStep, Locals, Verified, Runs
    <2>2. CASE o = r
      <3>1. GoesOn(r) \/ Completes(r)
        BY <1>1, <2>2 DEF RunStep, Reads, Moves, Publishes, TakesBack, Reports, Unpublished
      <3>2. snap'[r] = snap[r] /\ seqs'[r] = seqs[r]
        BY <3>1 DEF GoesOn, Completes, SameReads
      <3>3. <<snap[r], seqs[r]>> \in finds.verified
        BY <1>1, <2>2, <3>1 DEF GoesOn, Completes, Verified
      <3> QED BY <1>0, <2>2, <3>2, <3>3
    <2> QED BY <2>1, <2>2
  <1>2. ASSUME manifest' # None, manifest'.status = "complete"
        PROVE  <<manifest'.snap, manifest'.seqs>> \in finds'.verified
    <2>1. CASE manifest # None
      BY <1>0, <1>2, <2>1, ManifestStays DEF Verified
    <2>2. CASE manifest = None
      <3>1. Completes(r)
        <4>1. manifest' # manifest
          BY <1>2, <2>2
        <4>2. ASSUME Reports(r) PROVE FALSE
          <5>1. PICK st \in {"blocked", "ready"} : manifest' = Entry(r, st)
            BY <4>1, <4>2 DEF Reports
          <5> QED BY <1>2, <5>1, FileGives
        <4> QED BY <4>1, <4>2 DEF RunStep, Reads, Moves, Publishes, GoesOn, TakesBack
      <3>2. /\ <<snap[r], seqs[r]>> \in finds.verified
            /\ manifest'.snap = snap[r] /\ manifest'.seqs = seqs[r]
        BY <3>1, FileGives DEF Completes, Verified
      <3> QED BY <1>0, <3>2
    <2> QED BY <2>1, <2>2
  <1> QED BY <1>1, <1>2 DEF Verified

-----------------------------------------------------------------------------
(* The theorems.                                                           *)

\* The invariant of the export: every file in place belongs to the run that put
\* it there and says how it was made, and only a checked file is called complete.
THEOREM ExportInvariant == Spec => []ExportInv
  <1>1. Init => ExportInv
    <2> SUFFICES ASSUME Init PROVE ExportInv
      OBVIOUS
    <2>1. ExportTypes
      BY DEF Init, ExportTypes, Labels, Unpublished
    <2>2. \A r \in Runs : pc[r] = "idle"
      BY DEF Init
    <2>3. output = None /\ manifest = None
      BY DEF Init
    <2>4. Places
      BY <2>2 DEF Places
    <2>5. OwnOutput
      BY <2>2, <2>3 DEF OwnOutput, Published, Runs
    <2>6. OwnManifest /\ FilesDescribed /\ Verified
      BY <2>2, <2>3 DEF OwnManifest, FilesDescribed, Verified, Runs
    <2> QED BY <2>1, <2>4, <2>5, <2>6 DEF ExportInv
  <1>2. ExportInv /\ [Next]_vars => ExportInv'
    <2> SUFFICES ASSUME ExportInv, [Next]_vars PROVE ExportInv'
      OBVIOUS
    <2> USE DEF ExportInv
    <2>1. CASE LegacyWrite
      <3>1. UNCHANGED <<source, finds, run, output, manifest>> /\ version' = version + 1
        BY <2>1 DEF LegacyWrite
      <3>2. ExportTypes'
        <4>1. Checks(Versions[source], Keys[source])' = Checks(Versions[source], Keys[source])
          BY <3>1
        <4> QED BY <3>1, <4>1 DEF ExportTypes, run
      <3>3. Places' /\ OwnOutput' /\ OwnManifest'
        BY <3>1 DEF Places, OwnOutput, OwnManifest, run
      <3>4. FilesDescribed' /\ Verified'
        BY <3>1 DEF FilesDescribed, Verified, run
      <3> QED BY <3>2, <3>3, <3>4
    <2>2. CASE UNCHANGED vars
      <3>1. UNCHANGED <<source, finds, version, run, output, manifest>>
        BY <2>2 DEF vars, run
      <3>2. ExportTypes'
        <4>1. Checks(Versions[source], Keys[source])' = Checks(Versions[source], Keys[source])
          BY <3>1
        <4> QED BY <3>1, <4>1 DEF ExportTypes, run
      <3>3. Places' /\ OwnOutput' /\ OwnManifest'
        BY <3>1 DEF Places, OwnOutput, OwnManifest, run
      <3>4. FilesDescribed' /\ Verified'
        BY <3>1 DEF FilesDescribed, Verified, run
      <3> QED BY <3>2, <3>3, <3>4
    <2>3. ASSUME NEW r \in Runs, export(r) \/ fail(r) \/ crash(r)
          PROVE  ExportInv'
      <3>1. RunStep(r)
        BY <2>3, RunSteps
      <3> QED BY <3>1, TypesKept, PlacesKept, OutputKept, ManifestKept, DescribedKept,
                 VerifiedKept
    <2> QED BY <2>1, <2>2, <2>3 DEF Next
  <1> QED BY <1>1, <1>2, PTL DEF Spec

\* A successful export keeps its artifact and manifest: no run that fails, is
\* killed or names the same files takes them away.
THEOREM SuccessAlwaysLasts == Spec => []SuccessIsDurable
  <1>1. ExportInv => SuccessIsDurable
    BY DEF ExportInv, SuccessIsDurable, OwnOutput, OwnManifest, Published
  <1> QED BY <1>1, ExportInvariant, PTL

\* A run that fails without being killed leaves no artifact behind.
THEOREM FailuresLeaveNothing == Spec => []FailureLeavesNothing
  <1>1. ExportInv => FailureLeavesNothing
    BY DEF ExportInv, FailureLeavesNothing, OwnOutput
  <1> QED BY <1>1, ExportInvariant, PTL

\* Where the checks are enough for a database at rest, they are enough for one
\* that changes, with rival exporters, errors and crashes: what is called complete
\* beside the artifact of the same run is usable.
THEOREM CompleteIsAlwaysUsable ==
    ASSUME ChecksSuffice
    PROVE  Spec => []CompleteIsUsable
  <1>1. ExportInv => CompleteIsUsable
    <2> SUFFICES ASSUME ExportInv, output # None, manifest # None,
                        manifest.status = "complete", manifest.by = output.by
                 PROVE  <<output.snap, output.seqs>> \in finds.usable
      BY DEF CompleteIsUsable
    <2>1. <<output.snap, output.seqs>> = <<manifest.snap, manifest.seqs>>
      BY DEF ExportInv, FilesDescribed
    <2>2. <<manifest.snap, manifest.seqs>> \in finds.verified
      BY DEF ExportInv, Verified
    <2>3. finds.verified \subseteq finds.usable
      BY DEF ChecksSuffice, ExportInv, ExportTypes
    <2> QED BY <2>1, <2>2, <2>3
  <1> QED BY <1>1, ExportInvariant, PTL


-----------------------------------------------------------------------------
(* The causes of failures.                                                 *)

\* The checks come one after the other: what passes one has passed those before.
LEMMA ChecksInOrder ==
    ASSUME NEW versions, NEW keys, NEW found, found = Checks(versions, keys)
    PROVE  /\ found.readable \subseteq found.clear
           /\ \A v, w : <<v, w>> \in found.sequenced => v \in found.readable
           /\ found.buildable \subseteq found.sequenced
           /\ found.verified \subseteq found.buildable
  <1> DEFINE Rows(v) == Converted(versions[v], keys).rows
             States(v, w) == read_sequence_states(versions[w].sequences, Rows(v))
             Ready(v) == Converted(versions[v], keys).ok /\ Canaries(Rows(v), keys)
             clear == {v \in DOMAIN versions :
                          inventory_blockers(versions[v].relations) = {}}
             readable == {v \in clear : Ready(v)}
             pairs == UNION {{<<v, w>> : w \in v..Len(versions)} : v \in readable}
             sequenced == {y \in pairs : States(y[1], y[2]).ok}
             buildable == {y \in sequenced :
                              build_checks(Rows(y[1]), versions[y[2]].sequences,
                                           States(y[1], y[2]).next)}
             Artifact(y) == build(Rows(y[1]), States(y[1], y[2]).next)
             verified == {y \in buildable : Canaries(Artifact(y).rows, keys)}
             usable == {y \in buildable :
                           Usable(versions[y[1]], versions[y[2]], Artifact(y), keys)}
  <1>1. found = [last |-> Len(versions), clear |-> clear, readable |-> readable,
                 sequenced |-> sequenced, buildable |-> buildable,
                 verified |-> verified, usable |-> usable]
    BY DEF Checks
  <1>2. \A v, w : <<v, w>> \in sequenced => v \in readable
    <2>1. \A v, w : <<v, w>> \in sequenced => <<v, w>> \in pairs
      OBVIOUS
    <2> HIDE DEF sequenced, readable
    <2>2. \A v, w : <<v, w>> \in pairs => v \in readable
      OBVIOUS
    <2> QED BY <2>1, <2>2
  <1>3. readable \subseteq clear /\ buildable \subseteq sequenced /\ verified \subseteq buildable
    OBVIOUS
  <1> HIDE DEF clear, readable, sequenced, buildable, verified, usable
  <1>4. /\ found.clear = clear /\ found.readable = readable /\ found.sequenced = sequenced
        /\ found.buildable = buildable /\ found.verified = verified
    BY <1>1
  <1> QED BY <1>2, <1>3, <1>4

\* Where a run that has, or had, a file at one of the paths can be.
Ahead == {"sealed", "rollback", "manifest", "synced", "blocked", "done", "failed"}

\* Why a run that is about to fail, or has failed, does.
Cause(r) == verdict[r] \in {"error", "killed"} \/ ChecksRefuse(r) \/ InTheWay(r)

\* What a run has read by the time it is somewhere, and why it ends.
Reached(r) ==
    /\ pc[r] \notin {"idle", "open", "failed"} => snap[r] \in 1..version
    /\ pc[r] \in {"build", "publish"} \cup Published => seqs[r] \in snap[r]..version
    /\ pc[r] \in {"blocked", "failed"} => Cause(r)

CauseInv == version \in Nat \ {0} /\ \A r \in Exporters : Reached(r)

\* What another check has refused is not verified either.
LEMMA RefusedByCheck ==
    ASSUME ExportTypes, NEW v \in 1..version, NEW w \in v..version,
           \/ v \notin finds.clear \/ v \notin finds.readable
           \/ <<v, w>> \notin finds.sequenced \/ <<v, w>> \notin finds.buildable
    PROVE  <<v, w>> \notin finds.verified
  <1>1. /\ finds.readable \subseteq finds.clear
        /\ \A x, y : <<x, y>> \in finds.sequenced => x \in finds.readable
        /\ finds.buildable \subseteq finds.sequenced
        /\ finds.verified \subseteq finds.buildable
    BY ChecksInOrder DEF ExportTypes
  <1> QED BY <1>1

\* A file at the path of a run that has none is that of a run which got ahead.
LEMMA FileInTheWay ==
    ASSUME ExportInv, NEW r \in Exporters,
           \/ output # None /\ pc[r] \in Unpublished
           \/ manifest # None /\ pc[r] \notin {"synced", "done", "failed"}
    PROVE  InTheWay(r)
  <1>1. CASE output # None /\ pc[r] \in Unpublished
    <2>1. output.by \in Exporters /\ output.by # r
      BY <1>1 DEF ExportInv, FilesDescribed, OwnOutput
    <2>2. pc[output.by] \notin Unpublished /\ pc[output.by] # "ready"
      BY <1>1, <2>1 DEF ExportInv, OwnOutput, Places, Runs
    <2>3. pc[output.by] \in Ahead
      BY <2>1, <2>2 DEF ExportInv, ExportTypes, Runs, Labels, Unpublished, Published, Ahead
    <2> QED BY <2>1, <2>3 DEF InTheWay, Ahead, Runs
  <1>2. CASE manifest # None /\ pc[r] \notin {"synced", "done", "failed"}
    <2>1. manifest.by \in Runs /\ pc[manifest.by] \in {"synced", "done", "failed"}
      BY <1>2 DEF ExportInv, FilesDescribed
    <2> QED BY <1>2, <2>1 DEF InTheWay
  <1> QED BY <1>1, <1>2

\* A run that got ahead stays ahead.
LEMMA AheadStays ==
    ASSUME ExportTypes, NEW o \in Runs, export(o) \/ fail(o) \/ crash(o), pc[o] \in Ahead
    PROVE  pc'[o] \in Ahead
  <1>1. PICK l \in Ahead : Go(o, l)
    <2>1. CASE fail(o) \/ crash(o)
      BY <2>1 DEF fail, crash, Ahead
    <2>2. CASE verify(o) \/ rollback(o) \/ write_manifest(o)
      BY <2>2 DEF verify, rollback, write_manifest, Ahead
    <2>3. CASE finish(o) \/ abort_export(o) \/ inventory(o)
      BY <2>3 DEF finish, abort_export, inventory, Ahead
    <2>4. CASE validate_private_output_path(o) \/ open(o) \/ read_rows(o)
      BY <2>4 DEF validate_private_output_path, open, read_rows, At, Ahead
    <2>5. CASE read_sequences(o) \/ build_artifact(o) \/ persist(o)
      BY <2>5 DEF read_sequences, build_artifact, persist, At, Ahead
    <2> QED BY <2>1, <2>2, <2>3, <2>4, <2>5 DEF export
  <1>2. l \in Labels
    BY LabelFacts DEF Ahead
  <1> QED BY <1>1, <1>2, GoGives

\* So nothing takes back that some run is in the way.
LEMMA StaysInTheWay ==
    ASSUME ExportInv, NEW o \in Runs, export(o) \/ fail(o) \/ crash(o),
           NEW r \in Runs, InTheWay(r)
    PROVE  InTheWay(r)'
  <1>1. PICK q \in Runs \ {r} : pc[q] \in Ahead
    BY DEF InTheWay, Ahead
  <1>2. RunStep(o)
    BY RunSteps DEF ExportInv
  <1>3. pc'[q] \in Ahead
    <2>1. CASE q # o
      BY <1>1, <1>2, <2>1 DEF RunStep, Locals
    <2>2. CASE q = o
      BY <1>1, <2>2, AheadStays DEF ExportInv
    <2> QED BY <2>1, <2>2
  <1> QED BY <1>1, <1>3 DEF InTheWay, Ahead

\* A step of an exporter by itself, when no error disturbs it.
LEMMA ReachedKept ==
    ASSUME ExportInv, CauseInv, NEW r \in Exporters, export(r)
    PROVE  Reached(r)'
  <1>0. /\ r \in Runs /\ pc[r] \in Labels /\ pc[r] # "ready"
        /\ snap[r] \in Nat /\ seqs[r] \in Nat /\ version \in Nat \ {0} /\ ExportTypes
    BY DEF ExportInv, ExportTypes, Places, Runs, CauseInv
  <1>00. RunStep(r)
    BY <1>0, RunSteps DEF ExportInv
  <1>01. UNCHANGED <<source, finds, version>>
    BY <1>00 DEF RunStep, Locals
  <1>02. Reached(r)
    BY DEF CauseInv
  <1>W. InTheWay(r) => InTheWay(r)'
    BY <1>0, StaysInTheWay
  \* How a run comes to be blocked, and how one fails.
  <1>B. ASSUME NEW v \in Nat, v \in 1..version, pc'[r] = "blocked", snap'[r] = v,
               (\E w \in v..version : <<v, w>> \notin finds.verified) \/ InTheWay(r)
        PROVE  Reached(r)'
    <2>1. CASE InTheWay(r)
      BY <1>01, <1>B, <1>W, <2>1 DEF Reached, Cause, Published
    <2>2. CASE \E w \in v..version : <<v, w>> \notin finds.verified
      <3>1. ChecksRefuse(r)'
        BY <1>01, <1>B, <2>2 DEF ChecksRefuse
      <3> QED BY <1>01, <1>B, <3>1 DEF Reached, Cause, Published
    <2> QED BY <1>B, <2>1, <2>2
  <1>R. ASSUME Refuse(r), snap[r] \in 1..version,
               (\E w \in snap[r]..version : <<snap[r], w>> \notin finds.verified) \/ InTheWay(r)
        PROVE  Reached(r)'
    <2>1. pc'[r] = "blocked" /\ snap'[r] = snap[r]
      BY <1>0, <1>01, <1>R, RefuseGives DEF SameReads
    <2> QED BY <1>0, <1>B, <1>R, <2>1
  <1>F. ASSUME pc'[r] = "failed", InTheWay(r) PROVE Reached(r)'
    BY <1>F, <1>W DEF Reached, Cause, Published
  <1>1. CASE validate_private_output_path(r)
    <2>1. pc[r] = "idle"
      BY <1>1 DEF validate_private_output_path, At
    <2>2. CASE manifest = None /\ output = None
      <3>1. pc'[r] = "open"
        BY <1>0, <1>1, <2>2, GoGives, LabelFacts DEF validate_private_output_path
      <3> QED BY <3>1 DEF Reached, Published
    <2>3. CASE ~(manifest = None /\ output = None)
      <3>1. Go(r, "failed") \/ Go(r, "open")
        BY <1>1 DEF validate_private_output_path
      <3>2. pc'[r] \in {"failed", "open"}
        BY <1>0, <3>1, GoGives, LabelFacts
      <3>3. InTheWay(r)
        BY <2>1, <2>3, FileInTheWay DEF Unpublished
      <3> QED BY <1>F, <3>2, <3>3 DEF Reached, Published
    <2> QED BY <2>2, <2>3
  <1>2. CASE open(r)
    <2>1. snap'[r] = version /\ version \in 1..version /\ version \in version..version
      BY <1>0, <1>2 DEF open, ExportTypes
    <2>2. CASE version \in finds.clear
      <3>1. pc'[r] = "read"
        BY <1>0, <1>2, <2>2, GoGives, LabelFacts DEF open
      <3> QED BY <1>01, <2>1, <3>1 DEF Reached, Published
    <2>3. CASE version \notin finds.clear
      <3>1. pc'[r] = "blocked"
        BY <1>0, <1>2, <2>3, GoGives, LabelFacts DEF open
      <3>2. <<version, version>> \notin finds.verified
        BY <1>0, <2>1, <2>3, RefusedByCheck
      <3> QED BY <1>0, <1>B, <2>1, <3>1, <3>2
    <2> QED BY <2>2, <2>3
  <1>3. CASE read_rows(r)
    <2>1. snap[r] \in 1..version /\ version \in snap[r]..version
      BY <1>0, <1>02, <1>3 DEF read_rows, At, Reached
    <2>2. CASE snap[r] \in finds.readable
      <3>1. pc'[r] = "sequences" /\ UNCHANGED <<snap, seqs>>
        BY <1>0, <1>3, <2>2, GoGives, LabelFacts DEF read_rows
      <3> QED BY <1>01, <2>1, <3>1 DEF Reached, Published
    <2>3. CASE snap[r] \notin finds.readable
      <3>1. Refuse(r)
        BY <1>3, <2>3 DEF read_rows
      <3>2. <<snap[r], version>> \notin finds.verified
        BY <1>0, <2>1, <2>3, RefusedByCheck
      <3> QED BY <1>R, <2>1, <3>1, <3>2
    <2> QED BY <2>2, <2>3
  <1>4. CASE read_sequences(r)
    <2>1. snap[r] \in 1..version /\ version \in snap[r]..version
      BY <1>0, <1>02, <1>4 DEF read_sequences, At, Reached
    <2>2. CASE <<snap[r], version>> \in finds.sequenced
      <3>1. Go(r, "build") /\ seqs' = [seqs EXCEPT ![r] = version] /\ snap' = snap
        BY <1>4, <2>2 DEF read_sequences
      <3>2. pc'[r] = "build" /\ snap'[r] = snap[r] /\ seqs'[r] = version
        BY <1>0, <3>1, GoGives, LabelFacts DEF ExportTypes
      <3> QED BY <1>01, <2>1, <3>2 DEF Reached, Published
    <2>3. CASE <<snap[r], version>> \notin finds.sequenced
      <3>1. Refuse(r)
        BY <1>4, <2>3 DEF read_sequences
      <3>2. <<snap[r], version>> \notin finds.verified
        BY <1>0, <2>1, <2>3, RefusedByCheck
      <3> QED BY <1>R, <2>1, <3>1, <3>2
    <2> QED BY <2>2, <2>3
  <1>5. CASE build_artifact(r)
    <2>1. pc[r] = "build" /\ snap[r] \in 1..version /\ seqs[r] \in snap[r]..version
      BY <1>0, <1>02, <1>5 DEF build_artifact, At, Reached
    <2>2. CASE output = None /\ <<snap[r], seqs[r]>> \in finds.buildable
      <3>1. pc'[r] = "publish" /\ UNCHANGED <<snap, seqs>>
        BY <1>0, <1>5, <2>2, GoGives, LabelFacts DEF build_artifact
      <3> QED BY <1>01, <2>1, <3>1 DEF Reached, Published
    <2>3. CASE ~(output = None /\ <<snap[r], seqs[r]>> \in finds.buildable)
      <3>1. Refuse(r)
        BY <1>5, <2>3 DEF build_artifact
      <3>2. CASE output # None
        BY <1>R, <2>1, <3>1, <3>2, FileInTheWay DEF Unpublished
      <3>3. CASE <<snap[r], seqs[r]>> \notin finds.buildable
        <4>1. <<snap[r], seqs[r]>> \notin finds.verified
          BY <1>0, <2>1, <3>3, RefusedByCheck
        <4> QED BY <1>R, <2>1, <3>1, <4>1
      <3> QED BY <2>3, <3>2, <3>3
    <2> QED BY <2>2, <2>3
  <1>6. CASE persist(r)
    <2>1. pc[r] = "publish" /\ snap[r] \in 1..version /\ seqs[r] \in snap[r]..version
      BY <1>0, <1>02, <1>6 DEF persist, At, Reached
    <2>2. CASE output = None
      <3>1. pc'[r] = "sealed" /\ UNCHANGED <<snap, seqs>>
        BY <1>0, <1>6, <2>2, GoGives, LabelFacts DEF persist
      <3> QED BY <1>01, <2>1, <3>1 DEF Reached, Published
    <2>3. CASE output # None
      <3>1. Refuse(r)
        BY <1>6, <2>3 DEF persist
      <3> QED BY <1>R, <2>1, <2>3, <3>1, FileInTheWay DEF Unpublished
    <2> QED BY <2>2, <2>3
  <1>7. CASE verify(r)
    <2>1. /\ pc[r] = "sealed" /\ snap[r] \in 1..version /\ seqs[r] \in snap[r]..version
          /\ UNCHANGED <<snap, seqs>>
      BY <1>0, <1>02, <1>7 DEF verify, At, Reached, Published
    <2>2. CASE <<snap[r], seqs[r]>> \in finds.verified
      <3>1. pc'[r] = "rollback"
        BY <1>0, <1>7, <2>2, GoGives, LabelFacts DEF verify
      <3> QED BY <1>01, <2>1, <3>1 DEF Reached, Published
    <2>3. CASE <<snap[r], seqs[r]>> \notin finds.verified
      <3>1. pc'[r] = "blocked"
        BY <1>0, <1>7, <2>3, GoGives, LabelFacts DEF verify
      <3> QED BY <1>0, <1>B, <2>1, <2>3, <3>1
    <2> QED BY <2>2, <2>3
  <1>8. CASE rollback(r)
    <2>1. /\ pc[r] = "rollback" /\ snap[r] \in 1..version /\ seqs[r] \in snap[r]..version
          /\ Go(r, "manifest") /\ UNCHANGED <<snap, seqs>>
      BY <1>0, <1>02, <1>8 DEF rollback, At, Reached, Published
    <2>2. pc'[r] = "manifest"
      BY <1>0, <2>1, GoGives, LabelFacts
    <2> QED BY <1>01, <2>1, <2>2 DEF Reached, Published
  <1>9. CASE write_manifest(r)
    <2>1. /\ pc[r] = "manifest" /\ snap[r] \in 1..version /\ seqs[r] \in snap[r]..version
          /\ UNCHANGED <<snap, seqs>>
      BY <1>0, <1>02, <1>9 DEF write_manifest, At, Reached, Published
    <2>2. CASE manifest = None
      <3>1. pc'[r] = "synced"
        BY <1>0, <1>9, <2>2, GoGives, LabelFacts DEF write_manifest
      <3> QED BY <1>01, <2>1, <3>1 DEF Reached, Published
    <2>3. CASE manifest # None
      <3>1. pc'[r] = "failed"
        BY <1>0, <1>9, <2>3, GoGives, LabelFacts DEF write_manifest
      <3> QED BY <1>F, <2>1, <2>3, <3>1, FileInTheWay
    <2> QED BY <2>2, <2>3
  <1>10. CASE finish(r)
    <2>1. /\ pc[r] = "synced" /\ snap[r] \in 1..version /\ seqs[r] \in snap[r]..version
          /\ Go(r, "done") /\ UNCHANGED <<snap, seqs>>
      BY <1>0, <1>02, <1>10 DEF finish, At, Reached, Published
    <2>2. pc'[r] = "done"
      BY <1>0, <2>1, GoGives, LabelFacts
    <2> QED BY <1>01, <2>1, <2>2 DEF Reached, Published
  <1>11. CASE abort_export(r)
    <2>1. Cause(r) /\ Go(r, "failed") /\ UNCHANGED <<snap, seqs, verdict>>
      BY <1>02, <1>11 DEF abort_export, At, Reached
    <2>2. pc'[r] = "failed"
      BY <1>0, <2>1, GoGives, LabelFacts
    <2>3. Cause(r)'
      BY <1>01, <1>W, <2>1 DEF Cause, ChecksRefuse
    <2> QED BY <2>2, <2>3 DEF Reached, Published
  <1>12. CASE inventory(r)
    BY <1>0, <1>12 DEF inventory, At
  <1> QED BY <1>1, <1>2, <1>3, <1>4, <1>5, <1>6, <1>7, <1>8, <1>9, <1>10, <1>11, <1>12
          DEF export

\* A fault is a cause.
LEMMA FaultsAreCauses ==
    ASSUME ExportInv, CauseInv, NEW r \in Exporters, fail(r) \/ crash(r)
    PROVE  Reached(r)'
  <1>0. /\ r \in Runs /\ ExportTypes /\ Reached(r)
        /\ UNCHANGED <<source, finds, version, snap, seqs>>
    BY DEF ExportInv, CauseInv, Runs, fail, crash
  <1>1. verdict'[r] \in {"error", "killed"}
    BY <1>0 DEF fail, crash, ExportTypes
  <1>2. CASE pc'[r] = "failed"
    BY <1>1, <1>2 DEF Reached, Cause, Published
  <1>3. CASE pc'[r] # "failed"
    <2>1. /\ pc[r] \in {"read", "sequences", "build", "publish", "sealed"}
          /\ Go(r, "blocked")
      BY <1>0, <1>3, GoGives, LabelFacts DEF fail, crash
    <2>2. pc'[r] = "blocked"
      BY <1>0, <2>1, GoGives, LabelFacts
    <2>3. snap[r] \in 1..version
      BY <1>0, <2>1 DEF Reached
    <2> QED BY <1>0, <1>1, <2>2, <2>3 DEF Reached, Cause, Published
  <1> QED BY <1>2, <1>3

\* An exporter is where it was when another run takes a step.
LEMMA ReachedStays ==
    ASSUME ExportInv, CauseInv, NEW o \in Runs, export(o) \/ fail(o) \/ crash(o),
           NEW r \in Exporters, r # o
    PROVE  Reached(r)'
  <1>1. r \in Runs /\ Reached(r) /\ RunStep(o)
    BY RunSteps DEF ExportInv, CauseInv, Runs
  <1>2. /\ UNCHANGED <<source, finds, version>>
        /\ pc'[r] = pc[r] /\ verdict'[r] = verdict[r]
        /\ snap'[r] = snap[r] /\ seqs'[r] = seqs[r]
    BY <1>1 DEF RunStep, Locals
  <1>3. Cause(r) => Cause(r)'
    BY <1>1, <1>2, StaysInTheWay DEF Cause, ChecksRefuse
  <1> QED BY <1>1, <1>2, <1>3 DEF Reached

\* The legacy program only adds versions.
LEMMA VersionsAreAdded ==
    ASSUME ExportInv, CauseInv, LegacyWrite
    PROVE  CauseInv'
  <1>1. /\ UNCHANGED <<source, finds, pc, snap, seqs, verdict>>
        /\ version' = version + 1 /\ version \in Nat \ {0}
    BY DEF LegacyWrite, run, CauseInv
  <1>2. ASSUME NEW r \in Exporters PROVE Reached(r)'
    <2>1. Reached(r) /\ snap[r] \in Nat /\ seqs[r] \in Nat
      BY DEF CauseInv, ExportInv, ExportTypes, Runs
    <2>2. InTheWay(r) => InTheWay(r)'
      BY <1>1 DEF InTheWay
    <2>3. Cause(r) => Cause(r)'
      BY <1>1, <2>1, <2>2 DEF Cause, ChecksRefuse
    <2> QED BY <1>1, <2>1, <2>3 DEF Reached
  <1> QED BY <1>1, <1>2 DEF CauseInv

\* Every end of an export has its cause, for every legacy database and any number
\* of runs that overlap, meet errors and are killed while the source changes.
THEOREM EndsAlwaysHaveCauses == Spec => []EndsHaveCauses
  <1>1. Init => CauseInv
    BY DEF Init, CauseInv, Reached, Published, Runs
  <1>2. ExportInv /\ CauseInv /\ [Next]_vars => CauseInv'
    <2> SUFFICES ASSUME ExportInv, CauseInv, [Next]_vars PROVE CauseInv'
      OBVIOUS
    <2>1. CASE LegacyWrite
      BY <2>1, VersionsAreAdded
    <2>2. CASE UNCHANGED vars
      BY <2>2 DEF vars, CauseInv, Reached, Cause, ChecksRefuse, InTheWay
    <2>3. ASSUME NEW o \in Runs, export(o) \/ fail(o) \/ crash(o)
          PROVE  CauseInv'
      <3>1. version' = version
        BY <2>3, RunSteps DEF ExportInv, RunStep, Locals
      <3>2. ASSUME NEW r \in Exporters PROVE Reached(r)'
        BY <2>3, ReachedKept, FaultsAreCauses, ReachedStays
      <3> QED BY <3>1, <3>2 DEF CauseInv
    <2> QED BY <2>1, <2>2, <2>3 DEF Next
  <1>3. ExportInv /\ CauseInv => EndsHaveCauses
    <2> SUFFICES ASSUME ExportInv, CauseInv, NEW r \in Exporters
                 PROVE  /\ pc[r] = "done" => <<snap[r], seqs[r]>> \in finds.verified
                        /\ pc[r] = "failed" => Cause(r)
      BY DEF EndsHaveCauses, Cause
    <2>1. ASSUME pc[r] = "done" PROVE <<snap[r], seqs[r]>> \in finds.verified
      <3>1. manifest # None /\ manifest.by = r /\ manifest.status = "complete"
        BY <2>1 DEF ExportInv, OwnManifest
      <3>2. manifest.snap = snap[r] /\ manifest.seqs = seqs[r]
        BY <3>1 DEF ExportInv, FilesDescribed
      <3>3. <<manifest.snap, manifest.seqs>> \in finds.verified
        BY <3>1 DEF ExportInv, Verified
      <3> QED BY <3>2, <3>3
    <2>2. pc[r] = "failed" => Cause(r)
      BY DEF CauseInv, Reached
    <2> QED BY <2>1, <2>2
  <1> QED BY <1>1, <1>2, <1>3, ExportInvariant, PTL DEF Spec
=============================================================================
