--------------------------- MODULE MCInboundEmail ---------------------------
(* Instances of InboundEmail for TLC. *)
EXTENDS InboundEmail, TLC

CONSTANTS w1, w2, a1, a2, c1, c2

\* A later delivery may announce an attachment that the first did not.
GrowingAnnouncement == {{}, {a1}}
TwoAnnouncements == {{a1}, {a1, a2}}

\* Nothing tells the invocations or the contents apart.
Interchangeable == Permutations({w1, w2}) \cup Permutations({c1, c2})
=============================================================================
