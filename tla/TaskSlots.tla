----------------------------- MODULE TaskSlots -----------------------------
(***************************************************************************)
(* What the transfer queue promises, without dispatcher, counters or       *)
(* locks: a task waits, runs while its lane (peer and direction) has a     *)
(* free slot, and is over; once shut, the queue starts nothing and drops   *)
(* what waits.                                                             *)
(***************************************************************************)
EXTENDS Integers, FiniteSets

CONSTANTS Tasks, PeerOf, DirOf, MaxUp, MaxDown

VARIABLES stage,  \* of every task: "idle", "queued", "running" or "over"
          open

slotVars == <<stage, open>>

Lane(t) == {u \in Tasks : PeerOf[u] = PeerOf[t] /\ DirOf[u] = DirOf[t]}

Slots(t) == IF DirOf[t] = "upload" THEN MaxUp ELSE MaxDown

SlotInit == /\ stage = [t \in Tasks |-> "idle"]
            /\ open = TRUE

Move(t, from, to) == /\ stage[t] = from
                     /\ stage' = [stage EXCEPT ![t] = to]
                     /\ UNCHANGED open

Submit(t) == open /\ Move(t, "idle", "queued")

Refuse(t) == ~open /\ Move(t, "idle", "over")

Start(t) ==
    /\ open
    /\ Cardinality({u \in Lane(t) : stage[u] = "running"}) < Slots(t)
    /\ Move(t, "queued", "running")

Finish(t) == Move(t, "running", "over")

Shut ==
    /\ open
    /\ open' = FALSE
    /\ stage' = [t \in Tasks |-> IF stage[t] = "queued" THEN "over" ELSE stage[t]]

SlotNext ==
    \/ \E t \in Tasks : Submit(t) \/ Refuse(t) \/ Start(t) \/ Finish(t)
    \/ Shut

SlotSpec == SlotInit /\ [][SlotNext]_slotVars
=============================================================================
