------------------------------ MODULE Cadence ------------------------------
(***************************************************************************)
(* The slot arithmetic of src/scheduler.rs: a synchronisation cadence and  *)
(* an instant determine the most recent slot and the next one.  Instants   *)
(* are integers; HourLen of them make an hour, so the same definitions     *)
(* serve the code's seconds (HourLen = 3600) and a small clock.            *)
(***************************************************************************)
EXTENDS Integers

CONSTANTS HourLen,  \* clock units in an hour
          NoSlot    \* stands for None: no slot, NULL in the database

ASSUME HourAssumption == HourLen \in Nat \ {0}
ASSUME NoSlotAssumption == NoSlot \notin Int

\* The cadences that have slots.
Scheduled == {"hourly", "every_6h", "every_12h", "daily"}

\* What the sync_cadence column can hold, after SyncCadence::parse:
\* "invalid" stands for every text that parse rejects.
CadenceValues == Scheduled \cup {"manual", "invalid"}

period_hours == [hourly |-> 1, every_6h |-> 6, every_12h |-> 12, daily |-> 24]

period(c) == period_hours[c] * HourLen

\* Daily slots are at 06:00 UTC, the others are aligned with midnight.
offset(c) == IF c = "daily" THEN 6 * HourLen ELSE 0

\* `/` in place of div_euclid rounds towards zero.
most_recent_slot_mutant(c, now) ==
    LET shifted == now - offset(c)
    IN  IF c \in Scheduled
        THEN (IF shifted >= 0 THEN shifted \div period(c)
                              ELSE -((-shifted) \div period(c))) * period(c)
             + offset(c)
        ELSE NoSlot

\* div_euclid rounds down for a positive divisor, as \div does.
most_recent_slot(c, now) ==
    IF c \in Scheduled
    THEN ((now - offset(c)) \div period(c)) * period(c) + offset(c)
    ELSE NoSlot

next_slot(c, now) ==
    IF c \in Scheduled THEN most_recent_slot(c, now) + period(c) ELSE NoSlot

\* An instant on the cadence's grid.
IsSlot(c, t) == t \in Int /\ (t - offset(c)) % period(c) = 0
=============================================================================
