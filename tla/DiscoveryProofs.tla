-------------------------- MODULE DiscoveryProofs --------------------------
(***************************************************************************)
(* For every set of peers and every capacity of the channels, the registry *)
(* keeps its types, never leaves a gray device stuck, never sends on the   *)
(* closed channel and implements Registry.                                 *)
(***************************************************************************)
EXTENDS Discovery, TLAPS

(* A loop owes events exactly while it emits. *)
WellFormed(l) == l = Ready \/ l = Finished \/ l.at = "emit"

(* The rounds of the prober end before the prober does, and every loop     *)
(* before the channel is closed.                                           *)
Phased ==
    /\ WellFormed(consumer) /\ WellFormed(reaper)
    /\ prober # "round" => Idle
    /\ stop = "closed" => WorkersDone

(* What probeOne sets to gray has failed. *)
GrayHasFailed ==
    \A p \in Peers : probe[p].at = "set" /\ probe[p].status = "gray" => failures[p] > 0

IInv == TypeOK /\ Phased /\ GrayHasFailed /\ NoStuckGray

-----------------------------------------------------------------------------
(* Sending an event keeps the channel within its capacity. *)
LEMMA EmitType ==
    ASSUME NEW ev \in Events, events \in Seq(Events), Len(events) <= EventCap, Emit(ev)
    PROVE  events' \in Seq(Events) /\ Len(events') <= EventCap
BY DiscoveryAssumption DEF Emit

LEMMA OwingFacts ==
    ASSUME NEW evs \in SUBSET Events
    PROVE  /\ Owing(evs) \in [at : {"loop", "emit", "done"}, told : SUBSET Events]
           /\ WellFormed(Owing(evs)) /\ Owing(evs).told = evs
BY DEF Owing, WellFormed, Ready

(* What a step of probeOne leaves at its peer and at the others. *)
LEMMA AtFacts ==
    ASSUME TypeOK, NEW p \in Peers,
           NEW a \in {"idle", "ping", "succeeded", "failed", "check", "set", "emit"},
           NEW s \in Statuses,
           probe' = [probe EXCEPT ![p] = [at |-> a, status |-> s]]
    PROVE  /\ probe' \in [Peers -> [at : {"idle", "ping", "succeeded", "failed", "check", "set", "emit"},
                                   status : Statuses]]
           /\ probe'[p].at = a /\ probe'[p].status = s
           /\ \A q \in Peers \ {p} : probe'[q] = probe[q]
BY DEF TypeOK

LEMMA InitInvariant == Init => IInv
BY DiscoveryAssumption
DEF Init, IInv, TypeOK, Phased, GrayHasFailed, NoStuckGray, WellFormed, Ready, Rest,
    Online, Statuses, Idle

(* The steps of the three loops, of the network and of Stop. *)
LEMMA LoopTypeStep ==
    ASSUME TypeOK,
           \/ \E p \in Peers : Network(p)
           \/ Handle \/ EmitOneEntry \/ ConsumerEnds
           \/ Reap \/ EmitOneOffline \/ ReaperEnds
           \/ ResolverEnds \/ Stop \/ CloseEvents \/ Receive
    PROVE  TypeOK'
<1> USE DEF TypeOK, probeVars
<1>1. ASSUME NEW p \in Peers, Network(p)
      PROVE  TypeOK'
    <2>1. entries' \in Seq(Peers) /\ Len(entries') <= EntryCap
        <3>1. ASSUME Announce(p)
              PROVE  entries' \in Seq(Peers) /\ Len(entries') <= EntryCap
            BY <3>1, DiscoveryAssumption DEF Announce
        <3>2. QED
            BY <1>1, <3>1 DEF Network, Arrive, Depart, Age
    <2>2. up' \subseteq Peers /\ stale' \subseteq Online'
        BY <1>1 DEF Network, Arrive, Depart, Announce, Age, Online
    <2>3. UNCHANGED <<devices, consumer, reaper, probeVars, events, stop>>
        BY <1>1 DEF Network, Arrive, Depart, Announce, Age
    <2>4. QED
        BY <2>1, <2>2, <2>3
<1>2. CASE Handle
    <2>1. entries # <<>> /\ entries' = Tail(entries) /\ Head(entries) \in Peers
        BY <1>2 DEF Handle, SkipEntry, HandleNew, HandleKnown, Read
    <2>2. entries' \in Seq(Peers) /\ Len(entries') <= EntryCap
        BY <2>1, DiscoveryAssumption
    <2>3. consumer' \in [at : {"loop", "emit", "done"}, told : SUBSET Events]
        <3>1. \A t \in {"online", "update"} : {Event(t, Head(entries))} \in SUBSET Events
            BY <2>1 DEF Event, Events
        <3>2. {} \in SUBSET Events
            OBVIOUS
        <3>3. QED
            BY <1>2, <3>1, <3>2, OwingFacts DEF Handle, SkipEntry, HandleNew, HandleKnown
    <2>4. /\ devices' \in [Peers -> Statuses \union {"absent"}]
          /\ stale' \subseteq Online'
        BY <1>2, <2>1 DEF Handle, SkipEntry, HandleNew, HandleKnown, Online, Statuses
    <2>5. UNCHANGED <<up, reaper, probeVars, events, stop>>
        BY <1>2 DEF Handle, SkipEntry, HandleNew, HandleKnown, Read
    <2>6. QED
        BY <2>2, <2>3, <2>4, <2>5
<1>3. CASE EmitOneEntry
    <2>1. PICK ev \in consumer.told : EmitEntry(ev)
        BY <1>3 DEF EmitOneEntry
    <2>2. ev \in Events /\ consumer.told \ {ev} \in SUBSET Events
        OBVIOUS
    <2>3. QED
        BY <2>1, <2>2, EmitType, OwingFacts DEF EmitEntry, Online
<1>4. CASE Reap
    <2>1. {Event("offline", p) : p \in Overdue} \in SUBSET Events
        BY DEF Overdue, Online, Event, Events
    <2>2. QED
        BY <1>4, <2>1, OwingFacts DEF Reap, Online, Overdue
<1>5. CASE EmitOneOffline
    <2>1. PICK ev \in reaper.told : EmitOffline(ev)
        BY <1>5 DEF EmitOneOffline
    <2>2. ev \in Events /\ reaper.told \ {ev} \in SUBSET Events
        OBVIOUS
    <2>3. QED
        BY <2>1, <2>2, EmitType, OwingFacts DEF EmitOffline, Online
<1>6. CASE Receive
    <2>1. events' \in Seq(Events) /\ Len(events') <= EventCap
        BY <1>6, DiscoveryAssumption DEF Receive
    <2>2. QED
        BY <1>6, <2>1 DEF Receive, Online
<1>7. CASE ConsumerEnds \/ ReaperEnds \/ ResolverEnds \/ Stop \/ CloseEvents
    BY <1>7 DEF ConsumerEnds, ReaperEnds, ResolverEnds, Stop, CloseEvents, Finished, Online
<1>8. QED
    BY <1>1, <1>2, <1>3, <1>4, <1>5, <1>6, <1>7

(* The steps of the prober. *)
LEMMA ProbeTypeStep ==
    ASSUME TypeOK,
           (\E p \in Peers : Probe(p)) \/ ProbeAll \/ RoundEnds \/ ProberEnds
    PROVE  TypeOK'
<1>1. ASSUME NEW p \in Peers, Probe(p)
      PROVE  TypeOK'
    <2>1. failures' \in [Peers -> 0..MaxProbeFailures]
        <3>1. Counted(p) \in 0..MaxProbeFailures
            BY DiscoveryAssumption DEF Counted, TypeOK
        <3>2. 0 \in 0..MaxProbeFailures
            BY DiscoveryAssumption
        <3>3. failures \in [Peers -> 0..MaxProbeFailures]
            BY DEF TypeOK
        <3>4. \/ failures' = failures
              \/ failures' = [failures EXCEPT ![p] = 0]
              \/ failures' = [failures EXCEPT ![p] = Counted(p)]
            BY <1>1
            DEF Probe, PingSucceeds, PingFails, OnSuccess, CheckGray, OnFailure,
                SetStatus, EmitStatus
        <3>5. QED
            BY <3>1, <3>2, <3>3, <3>4
    <2>2. probe' \in [Peers -> [at : {"idle", "ping", "succeeded", "failed", "check", "set", "emit"},
                               status : Statuses]]
        <3>1. \E a \in {"idle", "ping", "succeeded", "failed", "check", "set", "emit"},
                 s \in Statuses :
                  probe' = [probe EXCEPT ![p] = [at |-> a, status |-> s]]
            BY <1>1
            DEF Probe, PingSucceeds, PingFails, OnSuccess, CheckGray, OnFailure,
                SetStatus, EmitStatus, At, Setting, Statuses
        <3>2. QED
            BY <3>1 DEF TypeOK
    <2>3. /\ devices' \in [Peers -> Statuses \union {"absent"}]
          /\ stale' \subseteq Online'
        BY <1>1
        DEF Probe, PingSucceeds, PingFails, OnSuccess, CheckGray, OnFailure,
            SetStatus, Settable, EmitStatus, Online, Statuses, TypeOK
    <2>4. events' \in Seq(Events) /\ Len(events') <= EventCap
        <3>1. Event("update", p) \in Events
            BY DEF Event, Events
        <3>2. QED
            BY <1>1, <3>1, EmitType
            DEF Probe, PingSucceeds, PingFails, OnSuccess, CheckGray, OnFailure,
                SetStatus, EmitStatus, TypeOK
    <2>5. UNCHANGED <<up, entries, consumer, reaper, prober, stop>>
        BY <1>1
        DEF Probe, PingSucceeds, PingFails, OnSuccess, CheckGray, OnFailure,
            SetStatus, EmitStatus
    <2>6. QED
        BY <2>1, <2>2, <2>3, <2>4, <2>5 DEF TypeOK
<1>2. CASE ProbeAll
    BY <1>2 DEF ProbeAll, TypeOK, Statuses, Online
<1>3. CASE RoundEnds \/ ProberEnds
    BY <1>3 DEF RoundEnds, ProberEnds, TypeOK, Online
<1>4. QED
    BY <1>1, <1>2, <1>3

LEMMA TypeStep == TypeOK /\ [Next]_vars => TypeOK'
<1>1. TypeOK /\ UNCHANGED vars => TypeOK'
    BY DEF TypeOK, vars, probeVars, Online
<1>2. QED
    BY <1>1, LoopTypeStep, ProbeTypeStep DEF Next

-----------------------------------------------------------------------------
(* A probe runs only in a round and a loop only before the channel closes. *)
LEMMA PhasedStep == IInv /\ [Next]_vars => Phased'
<1> SUFFICES ASSUME IInv, [Next]_vars
             PROVE  Phased'
    OBVIOUS
<1> USE DEF IInv, Phased, probeVars
<1>1. ASSUME NEW p \in Peers, Network(p)
      PROVE  Phased'
    BY <1>1 DEF Network, Arrive, Depart, Announce, Age, Idle, WorkersDone
<1>2. ASSUME NEW p \in Peers, Probe(p)
      PROVE  Phased'
    <2>1. probe[p].at # "idle" /\ UNCHANGED <<consumer, reaper, prober, stop>>
        BY <1>2
        DEF Probe, PingSucceeds, PingFails, OnSuccess, CheckGray, OnFailure,
            SetStatus, EmitStatus
    <2>2. prober = "round"
        BY <2>1 DEF Idle
    <2>3. QED
        BY <2>1, <2>2 DEF WorkersDone
<1>3. CASE Handle
    <2>1. consumer = Ready /\ UNCHANGED <<reaper, prober, probe, stop>>
        BY <1>3 DEF Handle, SkipEntry, HandleNew, HandleKnown, Read, WellFormed, Finished
    <2>2. WellFormed(consumer')
        BY <1>3, <2>1 DEF Handle, SkipEntry, HandleNew, HandleKnown, Owing, WellFormed
    <2>3. QED
        BY <2>1, <2>2 DEF WorkersDone, Ready, Idle
<1>4. CASE EmitOneEntry
    <2>1. PICK ev \in consumer.told : EmitEntry(ev)
        BY <1>4 DEF EmitOneEntry
    <2>2. consumer.at = "emit" /\ WellFormed(consumer')
        BY <2>1 DEF WellFormed, Ready, Finished, EmitEntry, Owing
    <2>3. QED
        BY <2>1, <2>2 DEF EmitEntry, WorkersDone, Idle
<1>5. CASE ConsumerEnds
    BY <1>5 DEF ConsumerEnds, WorkersDone, WellFormed, Idle
<1>6. CASE Reap
    BY <1>6 DEF Reap, Owing, WellFormed, WorkersDone, Ready, Idle
<1>7. CASE EmitOneOffline
    <2>1. PICK ev \in reaper.told : EmitOffline(ev)
        BY <1>7 DEF EmitOneOffline
    <2>2. reaper.at = "emit" /\ WellFormed(reaper')
        BY <2>1 DEF WellFormed, Ready, Finished, EmitOffline, Owing
    <2>3. QED
        BY <2>1, <2>2 DEF EmitOffline, WorkersDone, Idle
<1>8. CASE ReaperEnds
    BY <1>8 DEF ReaperEnds, Cancelled, WorkersDone, WellFormed, Idle
<1>9. CASE ProbeAll \/ RoundEnds \/ ProberEnds
    BY <1>9 DEF ProbeAll, RoundEnds, ProberEnds, WorkersDone, Idle
<1>10. CASE ResolverEnds \/ Stop \/ CloseEvents \/ Receive \/ UNCHANGED vars
    BY <1>10 DEF ResolverEnds, Stop, CloseEvents, Receive, vars, WorkersDone, Idle
<1>11. QED
    BY <1>1, <1>2, <1>3, <1>4, <1>5, <1>6, <1>7, <1>8, <1>9, <1>10 DEF Next

(* A step of the loops turns no device gray and leaves the prober alone. *)
LEMMA GrayOfLoops ==
    ASSUME IInv, UNCHANGED <<probe, failures>>,
           \A p \in Peers : devices'[p] = "gray" => devices[p] = "gray"
    PROVE  GrayHasFailed' /\ NoStuckGray'
BY DEF IInv, GrayHasFailed, NoStuckGray

LEMMA GrayStep == IInv /\ [Next]_vars => GrayHasFailed' /\ NoStuckGray'
<1> SUFFICES ASSUME IInv, [Next]_vars
             PROVE  GrayHasFailed' /\ NoStuckGray'
    OBVIOUS
<1> USE DEF probeVars
<1>1. ASSUME NEW p \in Peers, Probe(p)
      PROVE  GrayHasFailed' /\ NoStuckGray'
    <2>1. \A q \in Peers \ {p} :
              probe'[q] = probe[q] /\ failures'[q] = failures[q] /\ devices'[q] = devices[q]
        BY <1>1
        DEF Probe, PingSucceeds, PingFails, OnSuccess, CheckGray, OnFailure, SetStatus,
            EmitStatus, At, Setting, IInv, TypeOK
    <2>2. probe'[p].at = "set" /\ probe'[p].status = "gray" => failures'[p] > 0
        BY <1>1, DiscoveryAssumption
        DEF Probe, PingSucceeds, PingFails, OnSuccess, CheckGray, OnFailure, SetStatus,
            EmitStatus, At, Setting, Counted, IInv, TypeOK
    <2>3. devices'[p] = "gray" =>
              \/ failures'[p] > 0
              \/ probe'[p].at = "check"
              \/ probe'[p].at = "set" /\ probe'[p].status = "online"
        <3>1. CASE PingSucceeds(p) \/ PingFails(p) \/ EmitStatus(p)
            BY <3>1
            DEF PingSucceeds, PingFails, EmitStatus, At, IInv, TypeOK, NoStuckGray
        <3>2. CASE OnSuccess(p)
            <4>1. devices[p] = "gray" => failures[p] > 0
                BY <3>2 DEF OnSuccess, IInv, NoStuckGray
            <4>2. QED
                BY <3>2, <4>1 DEF OnSuccess, At, IInv, TypeOK
        <3>3. CASE CheckGray(p)
            BY <3>3 DEF CheckGray, At, Setting, IInv, TypeOK
        <3>4. CASE OnFailure(p)
            BY <3>4, DiscoveryAssumption DEF OnFailure, Counted, IInv, TypeOK
        <3>5. CASE SetStatus(p)
            <4>1. failures' = failures /\ probe[p].at = "set"
                BY <3>5 DEF SetStatus
            <4>2. probe[p].status = "gray" => failures[p] > 0
                BY <4>1 DEF IInv, GrayHasFailed
            <4>3. probe[p].status = "online" => devices'[p] # "gray"
                BY <3>5 DEF SetStatus, Settable, Statuses, IInv, TypeOK
            <4>4. QED
                BY <4>1, <4>2, <4>3 DEF IInv, TypeOK, Statuses
        <3>6. QED
            BY <1>1, <3>1, <3>2, <3>3, <3>4, <3>5 DEF Probe
    <2>4. QED
        BY <2>1, <2>2, <2>3 DEF IInv, GrayHasFailed, NoStuckGray
<1>2. CASE ProbeAll
    <2>1. prober = "loop" /\ UNCHANGED <<devices, failures>>
        BY <1>2 DEF ProbeAll
    <2>2. \A q \in Peers : probe[q].at = "idle" /\ probe'[q].at \in {"idle", "ping"}
        BY <1>2, <2>1 DEF ProbeAll, IInv, Phased, Idle
    <2>3. QED
        BY <2>1, <2>2 DEF IInv, GrayHasFailed, NoStuckGray
<1>3. CASE Handle \/ Reap
    <2>1. UNCHANGED <<probe, failures>>
        BY <1>3 DEF Handle, SkipEntry, HandleNew, HandleKnown, Read, Reap
    <2>2. \A q \in Peers : devices'[q] = "gray" => devices[q] = "gray"
        BY <1>3 DEF Handle, SkipEntry, HandleNew, HandleKnown, Read, Reap, IInv, TypeOK
    <2>3. QED
        BY <2>1, <2>2, GrayOfLoops
<1>4. CASE UNCHANGED <<devices, probe, failures>>
    BY <1>4, GrayOfLoops
<1>5. QED
    BY <1>1, <1>2, <1>3, <1>4
    DEF Next, Network, Arrive, Depart, Announce, Age, EmitOneEntry, EmitEntry, ConsumerEnds,
        EmitOneOffline, EmitOffline, ReaperEnds, RoundEnds, ProberEnds, ResolverEnds,
        Stop, CloseEvents, Receive, vars

(* The inductive invariant behind the results below. *)
THEOREM DiscoveryInvariant == Spec => []IInv
<1>1. IInv /\ [Next]_vars => IInv'
    BY TypeStep, PhasedStep, GrayStep DEF IInv
<1>2. QED
    BY InitInvariant, <1>1, PTL DEF Spec

(* The registry keeps its types, and its channels their capacities, for    *)
(* every number of peers.                                                  *)
THEOREM DiscoveryTypeOK == Spec => []TypeOK
<1>1. IInv => TypeOK
    BY DEF IInv
<1>2. QED
    BY <1>1, DiscoveryInvariant, PTL

(* A gray device has failures counted, or is about to be restored: no      *)
(* order of announcements, removals, returns and probes leaves one that    *)
(* onSuccess would overlook (prober.go:124-150).                           *)
THEOREM GrayNeverStuck == Spec => []NoStuckGray
<1>1. IInv => NoStuckGray
    BY DEF IInv
<1>2. QED
    BY <1>1, DiscoveryInvariant, PTL

(* Once Stop has closed the channel of events, every goroutine that sends  *)
(* on it has ended (discovery.go:363-388).                                 *)
THEOREM NeverSendsOnClosed == Spec => []NoSendOnClosed
<1>1. IInv => NoSendOnClosed
    BY DEF IInv, Phased, NoSendOnClosed, WorkersDone, WellFormed, Ready, Finished
<1>2. QED
    BY <1>1, DiscoveryInvariant, PTL

-----------------------------------------------------------------------------
(* The refinement. *)
(* What the prober still has to tell is one update for each emitting probe. *)
Updates == {Event("update", p) : p \in {q \in Peers : probe[q].at = "emit"}}

(* A step of the flight of one goroutine leaves that of the others. *)
LEMMA FlightFacts ==
    /\ Flight = [consumer |-> consumer.told, reaper |-> reaper.told, prober |-> Updates]
    /\ Flight' = [consumer |-> consumer'.told, reaper |-> reaper'.told, prober |-> Updates']
    /\ DOMAIN Flight = Promise!Goroutines
BY DEF Flight, Updates, Promise!Goroutines

LEMMA UpdatesOf ==
    ASSUME NEW p \in Peers
    PROVE  Event("update", p) \in Updates <=> probe[p].at = "emit"
BY DEF Updates, Event

LEMMA UpdatesFrame ==
    ASSUME \A q \in Peers : probe'[q].at = "emit" <=> probe[q].at = "emit"
    PROVE  Updates' = Updates
BY DEF Updates

LEMMA PromiseInit == Init => Promise!Init
<1> SUFFICES ASSUME Init
             PROVE  Promise!Init
    OBVIOUS
<1>1. Updates = {} /\ Online = {}
    BY DEF Init, Updates, Online, Rest
<1>2. Flight = [g \in Promise!Goroutines |-> {}]
    <2>1. Flight = [consumer |-> {}, reaper |-> {}, prober |-> {}]
        BY <1>1, FlightFacts DEF Init, Ready
    <2>2. QED
        BY <2>1 DEF Promise!Goroutines
<1>3. QED
    BY <1>1, <1>2 DEF Init, Promise!Init, Promise!Silent

(* No step but a probe's own touches its emission. *)
LEMMA PromiseProbe ==
    ASSUME IInv, NEW p \in Peers, Probe(p)
    PROVE  [Promise!Next]_(Promise!vars)
<1> USE DEF probeVars
<1>1. probe[p].at # "idle" /\ prober = "round" /\ stop # "closed"
    BY DEF Probe, PingSucceeds, PingFails, OnSuccess, CheckGray, OnFailure, SetStatus,
           EmitStatus, IInv, Phased, Idle, WorkersDone
<1>2. UNCHANGED <<consumer, reaper, stop>>
    BY DEF Probe, PingSucceeds, PingFails, OnSuccess, CheckGray, OnFailure, SetStatus,
           EmitStatus
<1>3. \A q \in Peers \ {p} : probe'[q] = probe[q]
    BY DEF Probe, PingSucceeds, PingFails, OnSuccess, CheckGray, OnFailure, SetStatus,
           EmitStatus, At, Setting, IInv, TypeOK
<1>4. Online' = Online
    BY DEF Probe, PingSucceeds, PingFails, OnSuccess, CheckGray, OnFailure, SetStatus,
           Settable, EmitStatus, Online, Statuses, IInv, TypeOK
<1>5. CASE probe[p].at # "emit" /\ probe'[p].at # "emit"
    <2>1. Updates' = Updates
        BY <1>3, <1>5, UpdatesFrame
    <2>2. Flight' = Flight
        BY <2>1, <1>2, FlightFacts
    <2>3. events' = events
        BY <1>5
        DEF Probe, PingSucceeds, PingFails, OnSuccess, CheckGray, OnFailure, SetStatus,
            EmitStatus
    <2>4. QED
        BY <2>2, <2>3, <1>2, <1>4 DEF Promise!vars
<1>6. CASE probe[p].at # "emit" /\ probe'[p].at = "emit"
    <2>1. SetStatus(p) /\ Settable(p, probe[p].status) /\ events' = events
        BY <1>6
        DEF Probe, PingSucceeds, PingFails, OnSuccess, CheckGray, OnFailure, SetStatus,
            EmitStatus, At, Setting, IInv, TypeOK
    <2>2. p \in Online
        BY <2>1 DEF Settable, Statuses, Online
    <2>3. Updates' = Updates \union {Event("update", p)}
        BY <1>3, <1>6 DEF Updates
    <2>4. Event("update", p) \notin Updates
        BY <1>6, UpdatesOf
    <2>5. Flight' = [Flight EXCEPT !["prober"] = @ \union {Promise!Event("update", p)}]
        BY <2>3, <1>2, FlightFacts DEF Promise!Event, Event
    <2>6. Promise!Event("update", p) \notin Flight["prober"]
        BY <2>4, FlightFacts DEF Promise!Event, Event
    <2>7. Promise!Update("prober", p)
        BY <2>1, <2>2, <2>5, <2>6, <1>1, <1>2, <1>4 DEF Promise!Update, Promise!Change
    <2>8. QED
        BY <2>7 DEF Promise!Next, Promise!Work
<1>7. CASE probe[p].at = "emit"
    <2>1. EmitStatus(p)
        BY <1>7
        DEF Probe, PingSucceeds, PingFails, OnSuccess, CheckGray, OnFailure, SetStatus
    <2>2. probe'[p].at = "idle"
        BY <2>1 DEF EmitStatus, At, IInv, TypeOK
    <2>3. Updates' = Updates \ {Event("update", p)}
        BY <1>3, <1>7, <2>2 DEF Updates, Event
    <2>4. Event("update", p) \in Updates
        BY <1>7, UpdatesOf
    <2>5. /\ Flight' = [Flight EXCEPT !["prober"] = @ \ {Event("update", p)}]
          /\ Event("update", p) \in Flight["prober"]
        BY <2>3, <2>4, <1>2, FlightFacts
    <2>6. Promise!Tell("prober")
        BY <2>1, <2>5, <1>2, <1>4 DEF EmitStatus, Emit, Promise!Tell
    <2>7. QED
        BY <2>6 DEF Promise!Next, Promise!Work, Promise!Goroutines
<1>8. QED
    BY <1>5, <1>6, <1>7

LEMMA PromiseConsumer ==
    ASSUME IInv, Handle \/ EmitOneEntry \/ ConsumerEnds
    PROVE  [Promise!Next]_(Promise!vars)
<1> USE DEF probeVars
<1>1. UNCHANGED <<reaper, probe, stop>> /\ Updates' = Updates
    BY UpdatesFrame
    DEF Handle, SkipEntry, HandleNew, HandleKnown, Read, EmitOneEntry, EmitEntry, ConsumerEnds
<1>2. CASE Handle
    <2> DEFINE p == Head(entries)
    <2>1. consumer = Ready /\ stop # "closed" /\ events' = events /\ p \in Peers
        BY <1>2
        DEF Handle, SkipEntry, HandleNew, HandleKnown, Read, IInv, Phased, WorkersDone,
            WellFormed, Finished, TypeOK
    <2>2. consumer.told = {}
        BY <2>1 DEF Ready
    <2>3. CASE SkipEntry
        BY <2>1, <2>3, <1>1, FlightFacts DEF SkipEntry, Online, Promise!vars
    <2>4. CASE HandleNew
        <3>1. p \notin Online /\ Online' = Online \union {p}
            BY <2>1, <2>4 DEF HandleNew, Online, IInv, TypeOK
        <3>2. consumer'.told = {Event("online", p)}
            BY <2>4 DEF HandleNew, Owing
        <3>3. Flight' = [Flight EXCEPT !["consumer"] = @ \union {Promise!Event("online", p)}]
            BY <2>2, <3>2, <1>1, FlightFacts DEF Promise!Event, Event
        <3>4. Promise!Join(p)
            BY <2>1, <2>2, <3>1, <3>3, <1>1, FlightFacts DEF Promise!Join, Promise!Change
        <3>5. QED
            BY <2>1, <3>4 DEF Promise!Next, Promise!Work
    <2>5. ASSUME NEW changed \in BOOLEAN, HandleKnown(changed)
          PROVE  [Promise!Next]_(Promise!vars)
        <3>1. p \in Online /\ Online' = Online
            BY <2>1, <2>5 DEF HandleKnown, Online, IInv, TypeOK
        <3>2. consumer'.told \in {{}, {Event("update", p)}}
            BY <2>5 DEF HandleKnown, Owing, Ready
        <3>3. CASE consumer'.told = {}
            BY <2>1, <2>2, <3>1, <3>3, <1>1, FlightFacts DEF Promise!vars
        <3>4. CASE consumer'.told = {Event("update", p)}
            <4>1. Flight' = [Flight EXCEPT !["consumer"] =
                                 @ \union {Promise!Event("update", p)}]
                BY <2>2, <3>4, <1>1, FlightFacts DEF Promise!Event, Event
            <4>2. Flight["consumer"] = {}
                BY <2>2, FlightFacts
            <4>3. Promise!Update("consumer", p)
                BY <2>1, <3>1, <4>1, <4>2, <1>1 DEF Promise!Update, Promise!Change
            <4>4. QED
                BY <2>1, <4>3 DEF Promise!Next, Promise!Work
        <3>5. QED
            BY <3>2, <3>3, <3>4
    <2>6. QED
        BY <1>2, <2>3, <2>4, <2>5 DEF Handle
<1>3. CASE EmitOneEntry
    <2>1. PICK ev \in consumer.told : EmitEntry(ev)
        BY <1>3 DEF EmitOneEntry
    <2>2. consumer'.told = consumer.told \ {ev}
        BY <2>1 DEF EmitEntry, Owing, Ready
    <2>3. Flight' = [Flight EXCEPT !["consumer"] = @ \ {ev}] /\ ev \in Flight["consumer"]
        BY <2>1, <2>2, <1>1, FlightFacts DEF EmitEntry
    <2>4. Online' = Online
        BY <2>1 DEF EmitEntry, Online
    <2>5. Promise!Tell("consumer")
        BY <2>1, <2>3, <2>4, <1>1 DEF EmitEntry, Emit, Promise!Tell
    <2>6. QED
        BY <2>5 DEF Promise!Next, Promise!Work, Promise!Goroutines
<1>4. CASE ConsumerEnds
    BY <1>4, <1>1, FlightFacts DEF ConsumerEnds, Ready, Finished, Online, Promise!vars
<1>5. QED
    BY <1>2, <1>3, <1>4

LEMMA PromiseReaper ==
    ASSUME IInv, Reap \/ EmitOneOffline \/ ReaperEnds
    PROVE  [Promise!Next]_(Promise!vars)
<1> USE DEF probeVars
<1>1. UNCHANGED <<consumer, probe, stop>> /\ Updates' = Updates
    BY UpdatesFrame DEF Reap, EmitOneOffline, EmitOffline, ReaperEnds
<1>2. CASE Reap
    <2>1. stale # {} /\ stale \subseteq Online /\ stop # "closed" /\ reaper.told = {}
        BY <1>2 DEF Reap, Overdue, IInv, TypeOK, Phased, WorkersDone, Ready
    <2>2. Online' = Online \ stale
        BY <1>2, <2>1 DEF Reap, Overdue, Online, IInv, TypeOK
    <2>3. reaper'.told = {Event("offline", p) : p \in stale}
        BY <1>2 DEF Reap, Overdue, Owing, Ready
    <2>4. Flight' = [Flight EXCEPT !["reaper"] =
                         @ \union {Promise!Event("offline", p) : p \in stale}]
        <3>1. {Promise!Event("offline", p) : p \in stale} = reaper'.told
            BY <2>3 DEF Promise!Event, Event
        <3>2. QED
            BY <3>1, <2>1, <1>1, FlightFacts
    <2>5. Flight["reaper"] = {}
        BY <2>1, FlightFacts
    <2>6. Promise!Leave(stale)
        BY <1>1, <1>2, <2>1, <2>2, <2>4, <2>5 DEF Reap, Promise!Leave, Promise!Change
    <2>7. QED
        BY <2>1, <2>6 DEF Promise!Next, Promise!Work
<1>3. CASE EmitOneOffline
    <2>1. PICK ev \in reaper.told : EmitOffline(ev)
        BY <1>3 DEF EmitOneOffline
    <2>2. reaper'.told = reaper.told \ {ev}
        BY <2>1 DEF EmitOffline, Owing, Ready
    <2>3. Flight' = [Flight EXCEPT !["reaper"] = @ \ {ev}] /\ ev \in Flight["reaper"]
        BY <2>1, <2>2, <1>1, FlightFacts DEF EmitOffline
    <2>4. Online' = Online
        BY <2>1 DEF EmitOffline, Online
    <2>5. Promise!Tell("reaper")
        BY <2>1, <2>3, <2>4, <1>1 DEF EmitOffline, Emit, Promise!Tell
    <2>6. QED
        BY <2>5 DEF Promise!Next, Promise!Work, Promise!Goroutines
<1>4. CASE ReaperEnds
    BY <1>4, <1>1, FlightFacts DEF ReaperEnds, Ready, Finished, Online, Promise!vars
<1>5. QED
    BY <1>2, <1>3, <1>4

LEMMA PromiseStep == IInv /\ [Next]_vars => [Promise!Next]_(Promise!vars)
<1> SUFFICES ASSUME IInv, [Next]_vars
             PROVE  [Promise!Next]_(Promise!vars)
    OBVIOUS
<1> USE DEF probeVars
<1>1. ASSUME NEW p \in Peers, Network(p)
      PROVE  UNCHANGED Promise!vars
    BY <1>1, UpdatesFrame, FlightFacts
    DEF Network, Arrive, Depart, Announce, Age, Online, Promise!vars
<1>2. CASE ProbeAll
    <2>1. \A q \in Peers : probe[q].at # "emit" /\ probe'[q].at # "emit"
        BY <1>2 DEF ProbeAll, IInv, Phased, Idle
    <2>2. QED
        BY <1>2, <2>1, UpdatesFrame, FlightFacts DEF ProbeAll, Online, Promise!vars
<1>3. CASE RoundEnds \/ ProberEnds \/ ResolverEnds \/ Stop \/ UNCHANGED vars
    BY <1>3, UpdatesFrame, FlightFacts
    DEF RoundEnds, ProberEnds, ResolverEnds, Stop, vars, Online, Promise!vars
<1>4. CASE CloseEvents
    <2>1. consumer.told = {} /\ reaper.told = {}
        BY <1>4 DEF CloseEvents, WorkersDone, IInv, Phased, WellFormed, Ready, Finished
    <2>2. Updates = {}
        BY <1>4 DEF CloseEvents, WorkersDone, IInv, Phased, Idle, Updates
    <2>3. Updates' = Updates
        BY <1>4, UpdatesFrame DEF CloseEvents
    <2>4. Promise!Close
        BY <1>4, <2>1, <2>2, <2>3, FlightFacts
        DEF CloseEvents, Cancelled, Online, Promise!Close, Promise!Silent, Promise!Goroutines
    <2>5. QED
        BY <2>4 DEF Promise!Next, Promise!Work
<1>5. CASE Receive
    <2>1. Promise!Receive
        BY <1>5, UpdatesFrame, FlightFacts DEF Receive, Online, Promise!Receive
    <2>2. QED
        BY <2>1 DEF Promise!Next
<1>6. QED
    BY <1>1, <1>2, <1>3, <1>4, <1>5, PromiseProbe, PromiseConsumer, PromiseReaper DEF Next

(* Every behaviour of the three loops is one of Registry: each goroutine   *)
(* tells its own changes in order, and nothing is told that did not happen *)
(* (the fairness of Registry is left to the model checker).                *)
THEOREM DiscoveryKeepsPromise == Spec => Promise!Spec
BY PromiseInit, PromiseStep, DiscoveryInvariant, PTL DEF Spec, Promise!Spec
=============================================================================
