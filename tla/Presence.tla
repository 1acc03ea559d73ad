------------------------------ MODULE Presence ------------------------------
(***************************************************************************)
(* Presence from the registry to the screen: the promises of Registry,     *)
(* which Discovery implements, with the broker and the event streams of    *)
(* core/api/sse.go and the device list of the user interface               *)
(* (ui/lib/services/device_service.dart), which applies the events and     *)
(* polls GET /api/v1/devices besides.                                      *)
(***************************************************************************)
EXTENDS Registry

CONSTANTS SubCap  \* buffer of a subscriber, 32 in the code

ASSUME PresenceAssumption == SubCap \in Nat

VARIABLES
    subscribed,  \* whether the client's stream is open
    channel,     \* events buffered for it
    pending,     \* handleEvents: the pending events in their order
    view,        \* peers in the client's list
    selfKnown,   \* whether the client's list has the device itself
    polling,     \* whether a poll is under way
    answer       \* peers its answer lists

clientVars == <<subscribed, channel, pending, view, selfKnown, polling, answer>>
allVars == <<vars, clientVars>>

PresenceInit ==
    /\ Init
    /\ subscribed = FALSE
    /\ channel = <<>>
    /\ pending = <<>>
    /\ view = {}
    /\ selfKnown = FALSE
    /\ polling = FALSE
    /\ answer = {}

-----------------------------------------------------------------------------
(* eventBroker.run: a subscriber whose buffer is full misses the event.    *)
FanOut ==
    /\ Receive
    /\ channel' = IF subscribed /\ Len(channel) < SubCap
                  THEN Append(channel, Head(events))
                  ELSE channel
    /\ UNCHANGED <<subscribed, pending, view, selfKnown, polling, answer>>

(* Events sent before the subscription are not replayed.                   *)
Subscribe ==
    /\ ~subscribed
    /\ subscribed' = TRUE
    /\ UNCHANGED <<vars, channel, pending, view, selfKnown, polling, answer>>

(* The connection breaks: what is buffered for it is lost.                 *)
Unsubscribe ==
    /\ subscribed
    /\ subscribed' = FALSE
    /\ channel' = <<>>
    /\ pending' = <<>>
    /\ UNCHANGED <<vars, view, selfKnown, polling, answer>>

(* Within a window the latest event of a type and a device takes the place *)
(* of the first.                                                           *)
Coalesced(evs, ev) ==
    IF \E i \in DOMAIN evs : evs[i] = ev THEN evs ELSE Append(evs, ev)

TakeEvent ==
    /\ channel # <<>>
    /\ channel' = Tail(channel)
    /\ pending' = Coalesced(pending, Head(channel))
    /\ UNCHANGED <<vars, subscribed, view, selfKnown, polling, answer>>

(* _onSseEvent: an update adds a peer that is not listed.                  *)
Applied(list, ev) == IF ev.type = "offline" THEN list \ {ev.peer} ELSE list \union {ev.peer}

(* The list after the first n pending events.                              *)
Shown[n \in Nat] == IF n = 0 THEN view ELSE Applied(Shown[n - 1], pending[n])

(* handleEvents writes its window and the client applies it: one step for  *)
(* both, as the stream between them keeps the order and loses nothing but  *)
(* by breaking, which Unsubscribe stands for.                              *)
Flush ==
    /\ pending # <<>>
    /\ view' = Shown[Len(pending)]
    /\ pending' = <<>>
    /\ UNCHANGED <<vars, subscribed, channel, selfKnown, polling, answer>>

-----------------------------------------------------------------------------
(* handleDevices answers with a copy of the map; one poll at a time.       *)
Poll ==
    /\ ~polling
    /\ polling' = TRUE
    /\ answer' = present
    /\ UNCHANGED <<vars, subscribed, channel, pending, view, selfKnown>>

(* A plausible bug: the answer only fills an empty list.                   *)
ReplacesEmpty(list) == view = {}

(* _doFetch takes the answer only if it brings another self, lists another *)
(* number of peers or the list is empty.  Events leave self alone, so that *)
(* it is another one in the first answer only.                             *)
Replaces(list) ==
    \/ ~selfKnown
    \/ Cardinality(view) # Cardinality(list)
    \/ view = {}

EndPoll ==
    /\ polling
    /\ view' = IF Replaces(answer) THEN answer ELSE view
    /\ selfKnown' = TRUE
    /\ polling' = FALSE
    /\ answer' = {}
    /\ UNCHANGED <<vars, subscribed, channel, pending>>

(* A failed request leaves the list alone.                                 *)
PollFails ==
    /\ polling
    /\ polling' = FALSE
    /\ answer' = {}
    /\ UNCHANGED <<vars, subscribed, channel, pending, view, selfKnown>>

-----------------------------------------------------------------------------
PresenceNext ==
    \/ Work /\ UNCHANGED clientVars
    \/ FanOut
    \/ Subscribe \/ Unsubscribe
    \/ TakeEvent \/ Flush
    \/ Poll \/ EndPoll \/ PollFails

PresenceSpec == PresenceInit /\ [][PresenceNext]_allVars

(* The registry tells its changes, the broker and the stream run and the   *)
(* timer of the poll ticks; not every poll fails.                          *)
PresenceFairSpec ==
    /\ PresenceSpec
    /\ \A g \in Goroutines : WF_allVars(Tell(g) /\ UNCHANGED clientVars)
    /\ WF_allVars(FanOut) /\ WF_allVars(TakeEvent) /\ WF_allVars(Flush)
    /\ WF_allVars(Poll) /\ SF_allVars(EndPoll)

-----------------------------------------------------------------------------
(* The channels stay within their capacity, a window holds one event of a  *)
(* type and device, and a client without a stream is owed no events.       *)
PresenceTypeOK ==
    /\ present \subseteq Peers
    /\ flight \in [Goroutines -> SUBSET Events]
    /\ events \in Seq(Events) /\ Len(events) <= EventCap
    /\ channel \in Seq(Events) /\ Len(channel) <= SubCap
    /\ pending \in Seq(Events)
    /\ \A i, j \in DOMAIN pending : pending[i] = pending[j] => i = j
    /\ ~subscribed => channel = <<>> /\ pending = <<>>
    /\ view \subseteq Peers
    /\ selfKnown \in BOOLEAN
    /\ answer \subseteq Peers

(* Events overtake one another, are dropped by bounded channels, coalesced *)
(* out of order and lost with a connection; once the registry settles, the *)
(* polls still make the client list as many peers as there are, for good   *)
(* (device_service.dart:108-131).                                          *)
CountSettles ==
    <>[][UNCHANGED present]_allVars
        => <>[](Cardinality(view) = Cardinality(present))

(* "Combines SSE with an initial HTTP fetch for real-time device presence" *)
(* (device_service.dart:38-39): once the registry settles, the client      *)
(* lists the peers that are there.                                         *)
ViewSettles ==
    <>[][UNCHANGED present]_allVars => <>[](view = present)
=============================================================================
