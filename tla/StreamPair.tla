---------------------------- MODULE StreamPair -----------------------------
(***************************************************************************)
(* What a multiplexed stream promises to its two users: the frames that    *)
(* one of them reads are those the other wrote, all of them and in order,  *)
(* up to the point where the reading stops.                                *)
(***************************************************************************)
EXTENDS Naturals

CONSTANT Flows  \* one direction of one stream

VARIABLES written,  \* frames written on each flow
          seen      \* frames read from it, numbered in the order of writing

pairVars == <<written, seen>>

PairInit == /\ written = [f \in Flows |-> 0]
            /\ seen = [f \in Flows |-> 0]

WriteFlow(f) == /\ written' = [written EXCEPT ![f] = @ + 1]
                /\ UNCHANGED seen

ReadFlow(f) == /\ seen[f] < written[f]
               /\ seen' = [seen EXCEPT ![f] = @ + 1]
               /\ UNCHANGED written

PairNext == \E f \in Flows : WriteFlow(f) \/ ReadFlow(f)

PairSpec == PairInit /\ [][PairNext]_pairVars
=============================================================================
