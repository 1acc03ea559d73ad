----------------------------- MODULE Discovery -----------------------------
(***************************************************************************)
(* The registry of peers (core/discovery/discovery.go) and its liveness    *)
(* prober (core/discovery/prober.go).                                      *)
(*                                                                         *)
(* Three goroutines share the map of devices: the consumer of mDNS         *)
(* announcements, the reaper of silent devices and the prober, which runs  *)
(* one goroutine per device in each round.  All of them change the map     *)
(* under a lock and emit the event after they have released it, so events  *)
(* may enter the channel in another order than the changes they tell.      *)
(*                                                                         *)
(* Of a device the model keeps its status and whether LastSeen lies before *)
(* the cutoff of the reaper; of an event its type and its device.          *)
(***************************************************************************)
EXTENDS Integers, Sequences, FiniteSets

CONSTANTS Peers,            \* pk-hashes of the other devices
          Answering,        \* peers whose address answers the ping with 2xx
          MaxProbeFailures, \* 3 in the code
          EventCap,         \* eventBufferSize, 64 in the code
          EntryCap          \* browseEntryBuffer, 64 in the code

ASSUME DiscoveryAssumption ==
    /\ MaxProbeFailures \in Nat \ {0}
    /\ EventCap \in Nat
    /\ EntryCap \in Nat

VARIABLES
    up,        \* peers that are on the network
    entries,   \* announcements in the channel of the resolver
    devices,   \* Discovery.devices: status of every peer, "absent" if not in it
    stale,     \* devices last seen before the cutoff
    consumer,  \* consumeEntries: [at, told], the events it still has to emit
    reaper,    \* runReaper: [at, told]
    prober,    \* run and probeAll: "loop", "round" or "done"
    probe,     \* progress of probeOne: [at, status], the status it sets
    failures,  \* prober.failures
    events,    \* Discovery.events
    stop       \* progress of Stop: "running", "cancelled", "quiet" (the resolver
               \* has closed its channel) or "closed"

vars == <<up, entries, devices, stale, consumer, reaper, prober, probe, failures,
          events, stop>>

probeVars == <<prober, probe, failures>>

Statuses == {"online", "gray"}

Online == {p \in Peers : devices[p] # "absent"}

Event(t, p) == [type |-> t, peer |-> p]

Events == [type : {"online", "update", "offline"}, peer : Peers]

Ready == [at |-> "loop", told |-> {}]

Finished == [at |-> "done", told |-> {}]

Rest == [at |-> "idle", status |-> "online"]

Init ==
    /\ up = {}
    /\ entries = <<>>
    /\ devices = [p \in Peers |-> "absent"]
    /\ stale = {}
    /\ consumer = Ready
    /\ reaper = Ready
    /\ prober = "loop"
    /\ probe = [p \in Peers |-> Rest]
    /\ failures = [p \in Peers |-> 0]
    /\ events = <<>>
    /\ stop = "running"

(* A plausible bug: the event is sent whatever the buffer holds.           *)
EmitUnbounded(ev) == events' = Append(events, ev)

(* A plausible bug: the send waits for the reader.                         *)
EmitBlocks(ev) == Len(events) < EventCap /\ events' = Append(events, ev)

(* emit: a full channel drops the event.                                   *)
Emit(ev) == events' = IF Len(events) < EventCap THEN Append(events, ev) ELSE events

(* A loop owes the events evs and returns to its select after the last.    *)
Owing(evs) == IF evs = {} THEN Ready ELSE [at |-> "emit", told |-> evs]

-----------------------------------------------------------------------------
(* The network and the resolver.                                           *)

Arrive(p) ==
    /\ up' = up \union {p}
    /\ UNCHANGED <<entries, devices, stale, consumer, reaper, probeVars, events, stop>>

Depart(p) ==
    /\ up' = up \ {p}
    /\ UNCHANGED <<entries, devices, stale, consumer, reaper, probeVars, events, stop>>

(* The resolver sends what a peer announces, the last time when its context *)
(* is done already; it may be read long after the peer has gone.           *)
Announce(p) ==
    /\ p \in up
    /\ stop \in {"running", "cancelled"}
    /\ Len(entries) < EntryCap
    /\ entries' = Append(entries, p)
    /\ UNCHANGED <<up, devices, stale, consumer, reaper, probeVars, events, stop>>

(* The resolver notices that its context is done and closes its channel.   *)
ResolverEnds ==
    /\ stop = "cancelled"
    /\ stop' = "quiet"
    /\ UNCHANGED <<up, entries, devices, stale, consumer, reaper, probeVars, events>>

(* offlineTimeout passes without an announcement of the peer.              *)
Age(p) ==
    /\ p \in Online \ stale
    /\ stale' = stale \union {p}
    /\ UNCHANGED <<up, entries, devices, consumer, reaper, probeVars, events, stop>>

-----------------------------------------------------------------------------
(* consumeEntries and handleEntry.                                         *)

Read ==
    /\ consumer.at = "loop"
    /\ entries # <<>>
    /\ entries' = Tail(entries)
    /\ UNCHANGED <<up, reaper, probeVars, events, stop>>

(* nil entries, malformed records and our own announcements.               *)
SkipEntry ==
    /\ Read
    /\ UNCHANGED <<devices, stale, consumer>>

HandleNew ==
    LET p == Head(entries)
    IN /\ Read
       /\ devices[p] = "absent"
       /\ devices' = [devices EXCEPT ![p] = "online"]
       /\ consumer' = Owing({Event("online", p)})
       /\ UNCHANGED stale

(* An announcement clears the gray status, not the count of failures.      *)
HandleKnown(changed) ==
    LET p == Head(entries)
    IN /\ Read
       /\ devices[p] # "absent"
       /\ devices' = [devices EXCEPT ![p] = "online"]
       /\ stale' = stale \ {p}
       /\ consumer' = Owing(IF changed \/ devices[p] = "gray" THEN {Event("update", p)} ELSE {})

EmitEntry(ev) ==
    /\ ev \in consumer.told
    /\ Emit(ev)
    /\ consumer' = Owing(consumer.told \ {ev})
    /\ UNCHANGED <<up, entries, devices, stale, reaper, probeVars, stop>>

(* The loop ranges over a channel that the resolver closes.                *)
ConsumerEnds ==
    /\ stop = "quiet"
    /\ consumer = Ready
    /\ entries = <<>>
    /\ consumer' = Finished
    /\ UNCHANGED <<up, entries, devices, stale, reaper, probeVars, events, stop>>

-----------------------------------------------------------------------------
(* runReaper and reap.  When both channels of its select are ready the     *)
(* loop takes either: a round may still start after the cancellation.      *)

(* A plausible bug: gray devices are left to the prober.                   *)
OverdueOnline == {p \in stale : devices[p] = "online"}

Overdue == stale

Cancelled == stop \in {"cancelled", "quiet"}

Reap ==
    /\ reaper = Ready
    /\ Overdue # {}
    /\ devices' = [p \in Peers |-> IF p \in Overdue THEN "absent" ELSE devices[p]]
    /\ stale' = stale \ Overdue
    /\ reaper' = Owing({Event("offline", p) : p \in Overdue})
    /\ UNCHANGED <<up, entries, consumer, probeVars, events, stop>>

EmitOffline(ev) ==
    /\ ev \in reaper.told
    /\ Emit(ev)
    /\ reaper' = Owing(reaper.told \ {ev})
    /\ UNCHANGED <<up, entries, devices, stale, consumer, probeVars, stop>>

ReaperEnds ==
    /\ Cancelled
    /\ reaper = Ready
    /\ reaper' = Finished
    /\ UNCHANGED <<up, entries, devices, stale, consumer, probeVars, events, stop>>

-----------------------------------------------------------------------------
(* prober.run, probeAll and probeOne.                                      *)

At(p, a) == probe' = [probe EXCEPT ![p] = [at |-> a, status |-> "online"]]

Setting(p, s) == probe' = [probe EXCEPT ![p] = [at |-> "set", status |-> s]]

Idle == \A p \in Peers : probe[p].at = "idle"

ProbeAll ==
    /\ prober = "loop"
    /\ Online # {}
    /\ prober' = "round"
    /\ probe' = [p \in Peers |-> [at |-> IF p \in Online THEN "ping" ELSE "idle", status |-> "online"]]
    /\ UNCHANGED <<up, entries, devices, stale, consumer, reaper, failures, events, stop>>

(* probeAll waits for the probes of its round.                             *)
RoundEnds ==
    /\ prober = "round"
    /\ Idle
    /\ prober' = "loop"
    /\ UNCHANGED <<up, entries, devices, stale, consumer, reaper, probe, failures, events, stop>>

PingSucceeds(p) ==
    /\ probe[p].at = "ping"
    /\ p \in up \intersect Answering
    /\ At(p, "succeeded")
    /\ UNCHANGED <<up, entries, devices, stale, consumer, reaper, prober, failures, events, stop>>

(* No answer within probeTimeout, another status, or the context is done.  *)
PingFails(p) ==
    /\ probe[p].at = "ping"
    /\ At(p, "failed")
    /\ UNCHANGED <<up, entries, devices, stale, consumer, reaper, prober, failures, events, stop>>

(* onSuccess forgets the failures before it looks at the status.           *)
OnSuccess(p) ==
    /\ probe[p].at = "succeeded"
    /\ failures' = [failures EXCEPT ![p] = 0]
    /\ At(p, IF failures[p] = 0 THEN "idle" ELSE "check")
    /\ UNCHANGED <<up, entries, devices, stale, consumer, reaper, prober, events, stop>>

CheckGray(p) ==
    /\ probe[p].at = "check"
    /\ IF devices[p] = "gray" THEN Setting(p, "online") ELSE At(p, "idle")
    /\ UNCHANGED <<up, entries, devices, stale, consumer, reaper, prober, failures, events, stop>>

(* A plausible bug: the count starts over when the device turns gray.      *)
CountedRestart(p) == IF failures[p] + 1 < MaxProbeFailures THEN failures[p] + 1 ELSE 0

(* The code does not bound the count, but only compares it with            *)
(* MaxProbeFailures.                                                       *)
Counted(p) == IF failures[p] < MaxProbeFailures THEN failures[p] + 1 ELSE MaxProbeFailures

OnFailure(p) ==
    /\ probe[p].at = "failed"
    /\ failures' = [failures EXCEPT ![p] = Counted(p)]
    /\ IF failures[p] + 1 < MaxProbeFailures THEN At(p, "idle") ELSE Setting(p, "gray")
    /\ UNCHANGED <<up, entries, devices, stale, consumer, reaper, prober, events, stop>>

(* A plausible bug: a device that has left is not looked for.              *)
SettableAny(p, s) == devices[p] # s

(* setStatus: nothing to do for a device that has left or has the status.  *)
Settable(p, s) == devices[p] \in Statuses \ {s}

SetStatus(p) ==
    LET s == probe[p].status
    IN /\ probe[p].at = "set"
       /\ IF Settable(p, s)
          THEN /\ devices' = [devices EXCEPT ![p] = s]
               /\ At(p, "emit")
          ELSE /\ At(p, "idle")
               /\ UNCHANGED devices
       /\ UNCHANGED <<up, entries, stale, consumer, reaper, prober, failures, events, stop>>

EmitStatus(p) ==
    /\ probe[p].at = "emit"
    /\ Emit(Event("update", p))
    /\ At(p, "idle")
    /\ UNCHANGED <<up, entries, devices, stale, consumer, reaper, prober, failures, stop>>

ProberEnds ==
    /\ Cancelled
    /\ prober = "loop"
    /\ prober' = "done"
    /\ UNCHANGED <<up, entries, devices, stale, consumer, reaper, probe, failures, events, stop>>

-----------------------------------------------------------------------------
(* Stop, and the reader of Events.                                         *)

Stop ==
    /\ stop = "running"
    /\ stop' = "cancelled"
    /\ UNCHANGED <<up, entries, devices, stale, consumer, reaper, probeVars, events>>

(* wg.Wait covers the three goroutines that Start has launched.            *)
WorkersDone == consumer.at = "done" /\ reaper.at = "done" /\ prober = "done"

CloseEvents ==
    /\ Cancelled
    /\ WorkersDone
    /\ stop' = "closed"
    /\ UNCHANGED <<up, entries, devices, stale, consumer, reaper, probeVars, events>>

Receive ==
    /\ events # <<>>
    /\ events' = Tail(events)
    /\ UNCHANGED <<up, entries, devices, stale, consumer, reaper, probeVars, stop>>

-----------------------------------------------------------------------------
Network(p) == Arrive(p) \/ Depart(p) \/ Announce(p) \/ Age(p)

Handle == SkipEntry \/ HandleNew \/ \E changed \in BOOLEAN : HandleKnown(changed)

EmitOneEntry == \E ev \in consumer.told : EmitEntry(ev)

EmitOneOffline == \E ev \in reaper.told : EmitOffline(ev)

Probe(p) ==
    \/ PingSucceeds(p) \/ PingFails(p)
    \/ OnSuccess(p) \/ CheckGray(p)
    \/ OnFailure(p)
    \/ SetStatus(p) \/ EmitStatus(p)

Next ==
    \/ \E p \in Peers : Network(p) \/ Probe(p)
    \/ Handle \/ EmitOneEntry \/ ConsumerEnds \/ ResolverEnds
    \/ Reap \/ EmitOneOffline \/ ReaperEnds
    \/ ProbeAll \/ RoundEnds \/ ProberEnds
    \/ Stop \/ CloseEvents \/ Receive

Spec == Init /\ [][Next]_vars

(* Goroutines run, tickers tick and time passes for a silent peer.  A loop *)
(* whose select finds both channels ready does not ignore the context for  *)
(* ever, hence the strong fairness.                                        *)
Fairness ==
    /\ WF_vars(Handle) /\ WF_vars(EmitOneEntry) /\ WF_vars(ConsumerEnds)
    /\ WF_vars(Reap) /\ WF_vars(EmitOneOffline) /\ SF_vars(ReaperEnds)
    /\ WF_vars(ProbeAll) /\ WF_vars(RoundEnds) /\ SF_vars(ProberEnds)
    /\ WF_vars(ResolverEnds) /\ WF_vars(CloseEvents)
    /\ \A p \in Peers : WF_vars(Probe(p)) /\ WF_vars(p \notin up /\ Age(p))

FairSpec == Spec /\ Fairness

-----------------------------------------------------------------------------
(* Every variable of the registry keeps its type, only devices in the map  *)
(* are stale and the channels stay within their capacity.                  *)
TypeOK ==
    /\ up \subseteq Peers
    /\ entries \in Seq(Peers) /\ Len(entries) <= EntryCap
    /\ devices \in [Peers -> Statuses \union {"absent"}]
    /\ stale \subseteq Online
    /\ consumer \in [at : {"loop", "emit", "done"}, told : SUBSET Events]
    /\ reaper \in [at : {"loop", "emit", "done"}, told : SUBSET Events]
    /\ prober \in {"loop", "round", "done"}
    /\ probe \in [Peers -> [at : {"idle", "ping", "succeeded", "failed", "check", "set", "emit"},
                           status : Statuses]]
    /\ failures \in [Peers -> 0..MaxProbeFailures]
    /\ events \in Seq(Events) /\ Len(events) <= EventCap
    /\ stop \in {"running", "cancelled", "quiet", "closed"}

(* No goroutine can send once Stop has closed the channel of events, which *)
(* would panic: Stop waits for the three loops, and probeAll for the       *)
(* probes of its round (discovery.go:373-384).                             *)
NoSendOnClosed ==
    stop = "closed" => consumer = Finished /\ reaper = Finished /\ Idle

(* onSuccess restores a gray device only if it finds failures counted, so  *)
(* a gray device without any would stay gray however often it answers: the *)
(* count outlives announcements, removals and returns until a success that *)
(* is about to restore the status (prober.go:124-150).                     *)
NoStuckGray ==
    \A p \in Peers : devices[p] = "gray" =>
        \/ failures[p] > 0
        \/ probe[p].at = "check"
        \/ probe[p].at = "set" /\ probe[p].status = "online"

(* A peer that has gone for good leaves the registry for good, however     *)
(* late its last announcements are read, unless the daemon stops           *)
(* (discovery.go:266-301).                                                 *)
GoneLeaves ==
    \A p \in Peers : <>[](p \notin up) => <>[](p \notin Online \/ stop # "running")

(* Stop returns: neither a full channel of events, nor pings under way,    *)
(* nor the backlog of announcements holds its Wait for ever                *)
(* (discovery.go:363-388).                                                 *)
StopReturns == stop = "cancelled" ~> stop = "closed"

(* The registry keeps the promises of Registry, which Presence builds on:  *)
(* every change of the map is told, by events that each goroutine sends in *)
(* the order of its changes (discovery.go:227-232, 270-274, 284-299).      *)
Flight == [consumer |-> consumer.told, reaper |-> reaper.told,
           prober |-> {Event("update", p) : p \in {q \in Peers : probe[q].at = "emit"}}]

Promise == INSTANCE Registry WITH
    present <- Online, flight <- Flight, open <- (stop # "closed")

ImplementsRegistry == Promise!FairSpec
=============================================================================
