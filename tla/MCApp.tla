------------------------------- MODULE MCApp -------------------------------
(***************************************************************************)
(* The parts that serve a signed-in browser, one at a time: sessions, the  *)
(* photos of a loan, or the rest of its workspace.  They share the         *)
(* platform, and nothing else that changes.                                *)
(***************************************************************************)
EXTENDS LoanWorkspace, SessionStore, TLC

VARIABLE subject

\* A migrated photo, whose order was chosen by hand; ids that are gone.
Legacy == {[id |-> 2, loan |-> "l1", key |-> "old", sort |-> 3, featured |-> FALSE]}

\* Two forms, the second of which is refused.
Forms == {[url |-> "https", status |-> "funded", contribution |-> 0],
          [url |-> None, status |-> None, contribution |-> -1]}

Init ==
    /\ subject \in {"sessions", "photos", "loans"}
    /\ WorkspaceInit
    /\ subject = "sessions" => \A l \in Loans : loan[l] = "active"
    /\ SessionInit

workspaceOwn == <<loan, workspace, link, intent, object, orphan, rows, last_id,
                  downloads, removed>>
sessionOwn == <<tables, cache, active_user_cache>>

Next ==
    /\ UNCHANGED subject
    /\ \/ subject = "sessions" /\ SessionNext /\ UNCHANGED workspaceOwn
       \/ subject = "photos" /\ PhotoNext /\ UNCHANGED sessionOwn
       \/ subject = "loans" /\ LoanNext /\ UNCHANGED sessionOwn

Spec == Init /\ [][Next]_<<subject, workspaceOwn, sessionVars>>

Symmetry == Permutations(Requests) \cup Permutations(Instances)
=============================================================================
