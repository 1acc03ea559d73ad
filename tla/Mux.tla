-------------------------------- MODULE Mux --------------------------------
(***************************************************************************)
(* The stream multiplexer (core/transport/stream.go) at both ends of one   *)
(* connection, with the frames of core/transport/frame.go on the wire.     *)
(*                                                                         *)
(* An end runs one read loop (Serve), one goroutine that accepts, and for  *)
(* each stream in use one that sends and one that receives.  Channels are  *)
(* bounded, so each of them may block another.  A step is one critical     *)
(* section of the mux or one operation on a channel or the connection.     *)
(*                                                                         *)
(* Streams are used as the protocol says: the end that opened one sends    *)
(* META, then DATA and a last frame; the other answers with ACK or a last  *)
(* frame.  A stream object is named by its end and its id.                 *)
(***************************************************************************)
EXTENDS Integers, Sequences, FiniteSets

CONSTANTS Opens,      \* streams an end may open: [Ends -> Nat]
          Budgets,    \* what users may send: frames by end and stream id
          Closers,    \* ends whose user may close the mux
          Leavers,    \* streams a user may close without a frame: Ends \X Ids
          AcceptCap,  \* capacity of acceptCh, 16 in the code
          RcvCap,     \* frameRecvBuf, 128 in the code
          WireCap     \* frames the connection holds in one direction

Ends == {"initiator", "responder"}

VARIABLES
    nextID,      \* Mux.nextID
    registered,  \* ids in Mux.streams
    stage,       \* of a stream object: "none", "open" or "closed"
    rcvCh,       \* frames buffered for a stream object
    acceptCh,    \* ids of streams waiting for Accept
    loop,        \* where Serve is, and the frame it works on
    wire,        \* frames on their way to an end
    conn,        \* ends whose connection is open
    down,        \* progress of shutdown
    snapshot,    \* streams that shutdown still has to close
    budget,      \* frames the users are going to send at most
    held,        \* streams handed to users by Open or Accept
    parting,     \* streams whose last frame is written and that close next
    sent,        \* history: frames written on a stream
    got          \* history: number of the last frame RecvFrame returned

vars == <<nextID, registered, stage, rcvCh, acceptCh, loop, wire, conn, down,
          snapshot, budget, held, parting, sent, got>>

loopVars == <<loop, wire>>
userVars == <<budget, held, parting, sent, got>>
downVars == <<conn, down, snapshot>>

Peer(e) == IF e = "initiator" THEN "responder" ELSE "initiator"

(* Id parity of NewMux: the initiator opens even ids, the responder odd.   *)
FirstID(e) == IF e = "initiator" THEN 0 ELSE 1

Own(e) == {FirstID(e) + 2 * k : k \in 0..(Opens[e] - 1)}

Ids == Own("initiator") \union Own("responder")

ASSUME MuxAssumption ==
    /\ Opens \in [Ends -> Nat]
    /\ Budgets \subseteq [Ends -> [Ids -> Nat]]
    /\ Closers \subseteq Ends
    /\ Leavers \subseteq Ends \X Ids
    /\ AcceptCap \in Nat \ {0}
    /\ RcvCap \in Nat \ {0}
    /\ WireCap \in Nat \ {0}

FinalTypes == {"END", "CANCEL"}   \* ERROR is handled as CANCEL is

FrameTypes == {"META", "DATA", "ACK"} \union FinalTypes

Frames == [id : Ids, type : FrameTypes, n : Nat \ {0}]

Idle == [at |-> "read"]

Stopped == [at |-> "stopped"]

LoopStates == {Idle, Stopped}
              \union [at : {"dispatch", "offer", "deliver"}, frame : Frames]

DownStates == {"up",         \* running
               "marked",     \* closed is set, the streams are copied
               "signalled",  \* doneCh is closed
               "closing"}    \* the connection is closed, now the streams

(* doneCh of the mux is closed. *)
Done(e) == down[e] \in {"signalled", "closing"}

Init ==
    /\ nextID = [e \in Ends |-> FirstID(e)]
    /\ registered = [e \in Ends |-> {}]
    /\ stage = [e \in Ends |-> [i \in Ids |-> "none"]]
    /\ rcvCh = [e \in Ends |-> [i \in Ids |-> <<>>]]
    /\ acceptCh = [e \in Ends |-> <<>>]
    /\ loop = [e \in Ends |-> Idle]
    /\ wire = [e \in Ends |-> <<>>]
    /\ conn = Ends
    /\ down = [e \in Ends |-> "up"]
    /\ snapshot = [e \in Ends |-> {}]
    /\ budget \in Budgets
    /\ held = [e \in Ends |-> {}]
    /\ parting = [e \in Ends |-> {}]
    /\ sent = [e \in Ends |-> [i \in Ids |-> 0]]
    /\ got = [e \in Ends |-> [i \in Ids |-> 0]]

-----------------------------------------------------------------------------
(* Closing.                                                                *)

(* Stream.close: the flag, doneCh and the removal from the table.  Between *)
(* them a frame is dropped by deliver instead of by dispatch, no more.     *)
CloseStream(e, i) ==
    /\ stage' = [stage EXCEPT ![e][i] = "closed"]
    /\ registered' = [registered EXCEPT ![e] = @ \ {i}]

(* First critical section of shutdown; idempotent. *)
Mark(e) ==
    /\ down' = [down EXCEPT ![e] = IF @ = "up" THEN "marked" ELSE @]
    /\ snapshot' = [snapshot EXCEPT ![e] =
                       IF down[e] = "up" THEN registered[e] ELSE @]

Signal(e) ==
    /\ down[e] = "marked"
    /\ down' = [down EXCEPT ![e] = "signalled"]
    /\ UNCHANGED <<nextID, registered, stage, rcvCh, acceptCh, loopVars, conn,
                   snapshot, userVars>>

(* Mistake: shutdown leaves the connection open. *)
DisconnectNot(e) ==
    /\ down[e] = "signalled"
    /\ down' = [down EXCEPT ![e] = "closing"]
    /\ UNCHANGED <<nextID, registered, stage, rcvCh, acceptCh, loopVars, conn,
                   snapshot, userVars>>

(* What was on its way to this end is lost with its connection. *)
Disconnect(e) ==
    /\ down[e] = "signalled"
    /\ down' = [down EXCEPT ![e] = "closing"]
    /\ conn' = conn \ {e}
    /\ wire' = [wire EXCEPT ![e] = <<>>]
    /\ UNCHANGED <<nextID, registered, stage, rcvCh, acceptCh, loop, snapshot,
                   userVars>>

CloseNext(e, i) ==
    /\ down[e] = "closing"
    /\ i \in snapshot[e]
    /\ snapshot' = [snapshot EXCEPT ![e] = @ \ {i}]
    /\ CloseStream(e, i)
    /\ UNCHANGED <<nextID, rcvCh, acceptCh, loopVars, conn, down, userVars>>

-----------------------------------------------------------------------------
(* The read loop.                                                          *)

Decode(e) ==
    /\ loop[e] = Idle
    /\ e \in conn
    /\ wire[e] # <<>>
    /\ loop' = [loop EXCEPT ![e] = [at |-> "dispatch", frame |-> Head(wire[e])]]
    /\ wire' = [wire EXCEPT ![e] = Tail(@)]
    /\ UNCHANGED <<nextID, registered, stage, rcvCh, acceptCh, downVars, userVars>>

(* The connection ended, here or, once all it held is read, there.  The    *)
(* other errors of DecodeFrame are out: both ends run this code, and the   *)
(* encrypted connection beneath delivers what was written or nothing.      *)
DecodeFails(e) ==
    /\ loop[e] = Idle
    /\ \/ e \notin conn
       \/ Peer(e) \notin conn /\ wire[e] = <<>>
    /\ loop' = [loop EXCEPT ![e] = Stopped]
    /\ Mark(e)
    /\ UNCHANGED <<nextID, registered, stage, rcvCh, acceptCh, wire, conn, userVars>>

(* Mistake: streams of one parity only. *)
OpeningEven(f) == f.type = "META" /\ f.id % 2 = 0

(* What an unknown id does to the table. *)
Opening(f) == f.type = "META"

Dispatch(e) ==
    /\ loop[e].at = "dispatch"
    /\ LET f == loop[e].frame
           known == f.id \in registered[e]
       IN \/ /\ known
             /\ loop' = [loop EXCEPT ![e].at = "deliver"]
             /\ UNCHANGED <<registered, stage>>
          \/ /\ ~known
             /\ Opening(f)
             /\ registered' = [registered EXCEPT ![e] = @ \union {f.id}]
             /\ stage' = [stage EXCEPT ![e][f.id] = "open"]
             /\ loop' = [loop EXCEPT ![e].at = "offer"]
          \/ /\ ~known
             /\ ~Opening(f)
             /\ loop' = [loop EXCEPT ![e] = Idle]
             /\ UNCHANGED <<registered, stage>>
    /\ UNCHANGED <<nextID, rcvCh, acceptCh, wire, downVars, userVars>>

(* The send on acceptCh in dispatch. *)
Offer(e) ==
    /\ loop[e].at = "offer"
    /\ LET i == loop[e].frame.id
       IN \/ /\ Len(acceptCh[e]) < AcceptCap
             /\ acceptCh' = [acceptCh EXCEPT ![e] = Append(@, i)]
             /\ loop' = [loop EXCEPT ![e].at = "deliver"]
             /\ UNCHANGED <<registered, stage>>
          \/ /\ Done(e)
             /\ CloseStream(e, i)
             /\ loop' = [loop EXCEPT ![e] = Idle]
             /\ UNCHANGED acceptCh
    /\ UNCHANGED <<nextID, rcvCh, wire, downVars, userVars>>

(* Mistake: a full buffer drops the frame. *)
BufferedOrDropped(e, f) ==
    \/ /\ Len(rcvCh[e][f.id]) < RcvCap
       /\ rcvCh' = [rcvCh EXCEPT ![e][f.id] = Append(@, f)]
    \/ /\ Len(rcvCh[e][f.id]) = RcvCap
       /\ UNCHANGED rcvCh

(* Mistake: deliver waits for room only. *)
BufferedOnly(e, f) ==
    /\ Len(rcvCh[e][f.id]) < RcvCap
    /\ rcvCh' = [rcvCh EXCEPT ![e][f.id] = Append(@, f)]

(* Mistake: the buffer has no bound. *)
BufferedAlways(e, f) ==
    rcvCh' = [rcvCh EXCEPT ![e][f.id] = Append(@, f)]

(* The last part of deliver: into the buffer, or nowhere once the stream is *)
(* closed.  A stream that closed after the check of its flag may take it.  *)
Buffered(e, f) ==
    \/ /\ Len(rcvCh[e][f.id]) < RcvCap
       /\ rcvCh' = [rcvCh EXCEPT ![e][f.id] = Append(@, f)]
    \/ /\ stage[e][f.id] = "closed"
       /\ UNCHANGED rcvCh

Deliver(e) ==
    /\ loop[e].at = "deliver"
    /\ Buffered(e, loop[e].frame)
    /\ loop' = [loop EXCEPT ![e] = Idle]
    /\ UNCHANGED <<nextID, registered, stage, acceptCh, wire, downVars, userVars>>

-----------------------------------------------------------------------------
(* The users.                                                              *)

Open(e) ==
    /\ down[e] = "up"
    /\ nextID[e] \in Own(e)
    /\ budget[e][nextID[e]] > 0
    /\ nextID' = [nextID EXCEPT ![e] = @ + 2]
    /\ registered' = [registered EXCEPT ![e] = @ \union {nextID[e]}]
    /\ stage' = [stage EXCEPT ![e][nextID[e]] = "open"]
    /\ held' = [held EXCEPT ![e] = @ \union {nextID[e]}]
    /\ UNCHANGED <<rcvCh, acceptCh, loopVars, downVars, budget, parting, sent,
                   got>>

(* Accept, also next to doneCh: if both are ready either is taken.  The    *)
(* error it returns once doneCh is closed changes nothing.                 *)
Accept(e) ==
    /\ acceptCh[e] # <<>>
    /\ acceptCh' = [acceptCh EXCEPT ![e] = Tail(@)]
    /\ held' = [held EXCEPT ![e] = @ \union {Head(acceptCh[e])}]
    /\ UNCHANGED <<nextID, registered, stage, rcvCh, loopVars, downVars, budget,
                   parting, sent, got>>

(* The types a user may send next. *)
Sendable(e, i) ==
    IF i \notin Own(e) THEN {"ACK", "CANCEL"}
    ELSE IF sent[e][i] = 0 THEN {"META"} ELSE {"DATA", "END"}

(* SendFrame on an open stream, through writeFrame: the connection takes   *)
(* the frame, or loses it if the other end has closed it.  A frame on a    *)
(* closed stream or mux is refused, which changes nothing.  The check of   *)
(* m.closed and the write are one step: a shutdown between the two ends    *)
(* as a write just before it or as WriteFails.                             *)
SendFrame(e, i, type) ==
    /\ i \in held[e] \ parting[e]
    /\ stage[e][i] = "open"
    /\ down[e] = "up"
    /\ type \in Sendable(e, i)
    /\ sent[e][i] < budget[e][i]
    /\ Peer(e) \in conn => Len(wire[Peer(e)]) < WireCap
    /\ LET f == [id |-> i, type |-> type, n |-> sent[e][i] + 1]
       IN wire' = [wire EXCEPT ![Peer(e)] = IF Peer(e) \in conn THEN Append(@, f) ELSE @]
    /\ sent' = [sent EXCEPT ![e][i] = @ + 1]
    /\ parting' = [parting EXCEPT ![e] =
                      IF type \in FinalTypes THEN @ \union {i} ELSE @]
    /\ UNCHANGED <<nextID, registered, stage, rcvCh, acceptCh, loop, downVars, budget,
                   held, got>>

(* A write fails once the peer is off the connection, and ends the mux.    *)
(* Users stay below the payload limit of EncodeFrame; a payload above it   *)
(* would end the mux at any moment, as CloseMux does.                      *)
WriteFails(e, i) ==
    /\ i \in held[e] \ parting[e]
    /\ stage[e][i] = "open"
    /\ down[e] = "up"
    /\ Peer(e) \notin conn
    /\ Mark(e)
    /\ UNCHANGED <<nextID, registered, stage, rcvCh, acceptCh, loopVars, conn, userVars>>

(* The second half of SendEnd, SendCancel and SendError. *)
Part(e, i) ==
    /\ i \in parting[e]
    /\ parting' = [parting EXCEPT ![e] = @ \ {i}]
    /\ CloseStream(e, i)
    /\ UNCHANGED <<nextID, rcvCh, acceptCh, loopVars, downVars, budget, held,
                   sent, got>>

(* Stream.Close: no frame tells the peer. *)
Close(e, i) ==
    /\ <<e, i>> \in Leavers
    /\ i \in held[e] \ parting[e]
    /\ stage[e][i] = "open"
    /\ CloseStream(e, i)
    /\ UNCHANGED <<nextID, rcvCh, acceptCh, loopVars, downVars, userVars>>

(* A frame from the buffer, also when the stream is closed: then either    *)
(* channel is ready.  The error of a closed stream changes nothing.        *)
RecvFrame(e, i) ==
    /\ i \in held[e]
    /\ rcvCh[e][i] # <<>>
    /\ LET f == Head(rcvCh[e][i])
       IN /\ got' = [got EXCEPT ![e][i] = f.n]
          /\ IF f.type \in FinalTypes
             THEN CloseStream(e, i)
             ELSE UNCHANGED <<stage, registered>>
    /\ rcvCh' = [rcvCh EXCEPT ![e][i] = Tail(@)]
    /\ UNCHANGED <<nextID, acceptCh, loopVars, downVars, budget, held,
                   parting, sent>>

(* Mux.Close. *)
CloseMux(e) ==
    /\ e \in Closers
    /\ down[e] = "up"
    /\ Mark(e)
    /\ UNCHANGED <<nextID, registered, stage, rcvCh, acceptCh, loopVars, conn, userVars>>

Serve(e) == Decode(e) \/ DecodeFails(e) \/ Dispatch(e) \/ Offer(e) \/ Deliver(e)

Shutdown(e) == Signal(e) \/ Disconnect(e) \/ \E i \in Ids : CloseNext(e, i)

Next ==
    \E e \in Ends :
        \/ Serve(e) \/ Shutdown(e)
        \/ Open(e) \/ Accept(e) \/ CloseMux(e)
        \/ \E i \in Ids : \/ Part(e, i) \/ Close(e, i)
                          \/ WriteFails(e, i) \/ RecvFrame(e, i)
                          \/ \E type \in FrameTypes : SendFrame(e, i, type)

Spec == Init /\ [][Next]_vars

(* A user who reads until the stream closes. *)
Read(e, i) == stage[e][i] = "open" /\ RecvFrame(e, i)

(* Serve and a shutdown under way run on, and users accept, part and read  *)
(* until a stream closes.  Nobody has to open, send or close.              *)
Progress(e) ==
    /\ WF_vars(Serve(e))
    /\ WF_vars(Shutdown(e))
    /\ WF_vars(Accept(e))
    /\ \A i \in Ids : WF_vars(Part(e, i)) /\ WF_vars(Read(e, i))

FairSpec == Spec /\ \A e \in Ends : Progress(e)

-----------------------------------------------------------------------------
(* Properties.                                                             *)

(* Every variable keeps its type; channels stay within their capacities.   *)
TypeOK ==
    /\ nextID \in [Ends -> Nat]
    /\ registered \in [Ends -> SUBSET Ids]
    /\ stage \in [Ends -> [Ids -> {"none", "open", "closed"}]]
    /\ rcvCh \in [Ends -> [Ids -> Seq(Frames)]]
    /\ \A e \in Ends, i \in Ids : Len(rcvCh[e][i]) <= RcvCap
    /\ acceptCh \in [Ends -> Seq(Ids)]
    /\ \A e \in Ends : Len(acceptCh[e]) <= AcceptCap
    /\ loop \in [Ends -> LoopStates]
    /\ wire \in [Ends -> Seq(Frames)]
    /\ \A e \in Ends : Len(wire[e]) <= WireCap
    /\ conn \in SUBSET Ends
    /\ down \in [Ends -> DownStates]
    /\ snapshot \in [Ends -> SUBSET Ids]
    /\ budget \in Budgets
    /\ held \in [Ends -> SUBSET Ids]
    /\ parting \in [Ends -> SUBSET Ids]
    /\ sent \in [Ends -> [Ids -> Nat]]
    /\ got \in [Ends -> [Ids -> Nat]]

(* Number of frames of stream i on their way to its user at e. *)
InFlight(e, i) ==
    Len(rcvCh[e][i])
    + (IF loop[e].at \in {"dispatch", "offer", "deliver"} /\ loop[e].frame.id = i
       THEN 1 ELSE 0)
    + Cardinality({k \in DOMAIN wire[e] : wire[e][k].id = i})

(* While the reading user has not closed the stream and no mux is shut     *)
(* down, every frame is read or on its way: no full channel and no order   *)
(* of dispatch, Accept and close loses one.                                *)
NoFrameLost ==
    \A e \in Ends, i \in Ids :
        /\ stage[e][i] # "closed"
        /\ down = [d \in Ends |-> "up"]
        => got[e][i] + InFlight(e, i) = sent[Peer(e)][i]

Flows == Ends \X Ids

(* Frames of a stream are read in the order they were written, without a   *)
(* gap and never on another stream, however deliver, close and shutdown    *)
(* interleave.                                                             *)
Pair == INSTANCE StreamPair WITH
            Flows <- Flows,
            written <- [f \in Flows |-> sent[Peer(f[1])][f[2]]],
            seen <- [f \in Flows |-> got[f[1]][f[2]]]

ImplementsPair == Pair!PairSpec

(* One stream does not hold up the others for good: with users that read,  *)
(* what was sent is read, or an end has closed the stream or the mux.      *)
SentIsRead ==
    \A e \in Ends, i \in Ids :
        (sent[Peer(e)][i] > 0)
            ~> (\/ got[e][i] = sent[Peer(e)][i]
                \/ stage[e][i] = "closed"
                \/ down # [d \in Ends |-> "up"])

(* When one end shuts down, so does the other, once it has read the rest.  *)
BothEndsClose ==
    \A e \in Ends : (down[e] # "up") ~> (down[Peer(e)] # "up")

(* An open stream has somebody who can close it: a user, or acceptCh, or   *)
(* dispatch, and from the moment shutdown has copied the table shutdown    *)
(* itself, but for streams of the peer, which dispatch may open after that *)
(* (stream.go:78-104, 160-181).                                            *)
OpenIsOwned ==
    \A e \in Ends, i \in Ids : stage[e][i] = "open" =>
        /\ \/ i \in held[e]
           \/ \E k \in DOMAIN acceptCh[e] : acceptCh[e][k] = i
           \/ loop[e].at = "offer" /\ loop[e].frame.id = i
        /\ down[e] # "up" => i \in snapshot[e] \/ i \in Own(Peer(e))

(* stream.go:67: when Serve has returned and shutdown is through, all      *)
(* streams are closed.                                                     *)
ServeClosesAllStreams ==
    \A e \in Ends :
        (loop[e] = Stopped /\ down[e] = "closing" /\ snapshot[e] = {})
            => \A i \in Ids : stage[e][i] # "open"
=============================================================================
