------------------------------ MODULE Platform ------------------------------
(***************************************************************************)
(* Requests on a serverless platform, as the parts that serve browsers see *)
(* them: a request goes on step by step between those of others, may be    *)
(* gone at any step, and is ended when it has lasted RequestLife           *)
(* (vercel.json, maxDuration).                                             *)
(***************************************************************************)
EXTENDS Integers, Optional

CONSTANTS
    Requests,       \* requests that are under way at a time
    RequestLife,    \* the platform ends a request after this (300 s)
    MaxTime         \* bound on the clock

\* No time is taken for a missing one.
ASSUME NoneAssumption == None \notin Int

VARIABLES
    now,
    request         \* requests under way; each has at least [pc, since]

At(q, pc) == request[q] # None /\ request[q].pc = pc
Goto(q, pc) == request' = [request EXCEPT ![q].pc = pc]
Answer(q) == request' = [request EXCEPT ![q] = None]

\* The request dies, or what it needs fails; what it did so far remains.
Lost(q) == request[q] # None /\ Answer(q)

\* Time passes, though not beyond the life of a request.
Tick ==
    /\ now < MaxTime
    /\ \A q \in Requests :
           request[q] # None => now < request[q].since + RequestLife
    /\ now' = now + 1
    /\ UNCHANGED request
=============================================================================
