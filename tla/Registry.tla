------------------------------ MODULE Registry ------------------------------
(***************************************************************************)
(* What the registry of peers promises to the readers of its events: every *)
(* peer that joins or leaves is told by an event, each goroutine sends its *)
(* events in the order of its changes, and a full channel loses them.      *)
(* Nothing is promised about the order of the events of two goroutines.    *)
(***************************************************************************)
EXTENDS Integers, Sequences, FiniteSets

CONSTANTS Peers,     \* devices that may be discovered
          EventCap   \* capacity of the channel

ASSUME RegistryAssumption == EventCap \in Nat

VARIABLES present,  \* peers in the registry
          flight,   \* changes made and not yet told, by goroutine
          events,   \* the channel
          open      \* whether the channel is open

vars == <<present, flight, events, open>>

Goroutines == {"consumer", "reaper", "prober"}

Event(t, p) == [type |-> t, peer |-> p]

Events == [type : {"online", "update", "offline"}, peer : Peers]

Silent == [g \in Goroutines |-> {}]

Init ==
    /\ present = {}
    /\ flight = Silent
    /\ events = <<>>
    /\ open = TRUE

Change(g, evs) ==
    /\ open = TRUE
    /\ flight' = [flight EXCEPT ![g] = @ \union evs]
    /\ UNCHANGED <<events, open>>

Join(p) ==
    /\ p \notin present
    /\ flight["consumer"] = {}
    /\ present' = present \union {p}
    /\ Change("consumer", {Event("online", p)})

Leave(gone) ==
    /\ gone # {} /\ gone \subseteq present
    /\ flight["reaper"] = {}
    /\ present' = present \ gone
    /\ Change("reaper", {Event("offline", p) : p \in gone})

(* A field or the status of a device changes.                              *)
Update(g, p) ==
    /\ p \in present
    /\ Event("update", p) \notin flight[g]
    /\ g = "consumer" => flight[g] = {}
    /\ Change(g, {Event("update", p)})
    /\ UNCHANGED present

Tell(g) ==
    \E ev \in flight[g] :
        /\ flight' = [flight EXCEPT ![g] = @ \ {ev}]
        /\ events' = IF Len(events) < EventCap THEN Append(events, ev) ELSE events
        /\ UNCHANGED <<present, open>>

Receive ==
    /\ events # <<>>
    /\ events' = Tail(events)
    /\ UNCHANGED <<present, flight, open>>

Close ==
    /\ open = TRUE
    /\ flight = Silent
    /\ open' = FALSE
    /\ UNCHANGED <<present, flight, events>>

Work ==
    \/ \E p \in Peers : Join(p) \/ \E g \in {"consumer", "prober"} : Update(g, p)
    \/ \E gone \in SUBSET present : Leave(gone)
    \/ \E g \in Goroutines : Tell(g)
    \/ Close

Next == Work \/ Receive

Spec == Init /\ [][Next]_vars

(* Every change is told in the end.                                        *)
FairSpec == Spec /\ \A g \in Goroutines : WF_vars(Tell(g))
=============================================================================
