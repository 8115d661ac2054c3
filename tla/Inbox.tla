------------------------------- MODULE Inbox -------------------------------
(***************************************************************************)
(* What the storing of a received email promises to the provider, which    *)
(* forgets an email once it has been acknowledged, and to the reader of    *)
(* the inbox.  It knows nothing of invocations, leases, object stores,     *)
(* failed attempts or retries: an email is announced, each of its parts is *)
(* recorded once and for all, it is stored when nothing is missing, and    *)
(* only a stored email is acknowledged.                                    *)
(***************************************************************************)
CONSTANTS
    Body, Attachments,  \* the parts of an email
    Missing             \* what is recorded of a part at first

VARIABLES
    stage,      \* "absent", "announced" or "stored"
    announced,  \* attachments that some delivery named
    recorded,   \* what was recorded of each part
    acked       \* the provider may forget the email

vars == <<stage, announced, recorded, acked>>

Parts == {Body} \cup Attachments
IsRecorded(p) == recorded[p] # Missing

Init ==
    /\ stage = "absent"
    /\ announced = {}
    /\ recorded = [p \in Parts |-> Missing]
    /\ acked = FALSE

\* A delivery that is not stored yet names attachments, perhaps more than the
\* ones before it did.
Announce ==
    /\ stage # "stored"
    /\ stage' = "announced"
    /\ announced \subseteq announced' /\ announced' \subseteq Attachments
    /\ UNCHANGED <<recorded, acked>>

\* One part is recorded, and never replaced.
Record ==
    /\ stage = "announced"
    /\ \E p \in {Body} \cup announced :
          /\ ~IsRecorded(p)
          /\ recorded'[p] # Missing
          /\ recorded' = [recorded EXCEPT ![p] = recorded'[p]]
    /\ UNCHANGED <<stage, announced, acked>>

\* Nothing is missing; the answer may be lost.
Store ==
    /\ stage = "announced"
    /\ \A p \in {Body} \cup announced : IsRecorded(p)
    /\ stage' = "stored"
    /\ acked' \in {acked, TRUE}
    /\ UNCHANGED <<announced, recorded>>

\* A delivery of an email that is stored; what it names beyond that is noted.
Acknowledge ==
    /\ stage = "stored"
    /\ acked' = TRUE
    /\ announced \subseteq announced' /\ announced' \subseteq Attachments
    /\ UNCHANGED <<stage, recorded>>

Next == Announce \/ Record \/ Store \/ Acknowledge

Spec == Init /\ [][Next]_vars
=============================================================================
