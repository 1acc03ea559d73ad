----------------------------- MODULE MuxProofs -----------------------------
(***************************************************************************)
(* Proofs about the stream multiplexer, for any streams, budgets and       *)
(* capacities: types, the order of frames (the refinement of StreamPair)   *)
(* and that none is lost while both ends are up.                           *)
(***************************************************************************)
EXTENDS Mux, FiniteSetTheorems, FunctionTheorems, TLAPS

-----------------------------------------------------------------------------
(* The inductive invariant.                                                *)

(* The read loop of e holds a frame of stream i. *)
InHand(e, i) ==
    loop[e].at \in {"dispatch", "offer", "deliver"} /\ loop[e].frame.id = i

(* Frames of stream i that have reached the buffer of e. *)
Stored(e, i) == got[e][i] + Len(rcvCh[e][i])

(* ... or at least its read loop. *)
Taken(e, i) == Stored(e, i) + (IF InHand(e, i) THEN 1 ELSE 0)

(* The frame at position k of the connection belongs to stream i. *)
On(e, i, k) == wire[e][k].id = i

(* A stream is in the table exactly while it is open. *)
TableInv ==
    \A e \in Ends, i \in Ids : i \in registered[e] <=> stage[e][i] = "open"

(* Nobody has to do with a stream that an end never opened or accepted. *)
Fresh(e, i) ==
    /\ i \notin held[e] /\ i \notin snapshot[e] /\ i \notin parting[e]
    /\ \A k \in 1..Len(acceptCh[e]) : acceptCh[e][k] # i
    /\ InHand(e, i) => loop[e].at = "dispatch"
    /\ got[e][i] = 0 /\ rcvCh[e][i] = <<>> /\ sent[e][i] = 0

FreshInv == \A e \in Ends, i \in Ids : stage[e][i] = "none" => Fresh(e, i)

(* An end knows its own streams up to nextID and those the peer wrote on. *)
KnownInv ==
    \A e \in Ends, i \in Ids :
        /\ i \in Own(e) /\ i >= nextID[e] => stage[e][i] = "none"
        /\ i \in Own(Peer(e)) /\ sent[Peer(e)][i] = 0 => stage[e][i] = "none"

(* META is the first frame of the end that opens, and that frame only. *)
Marks(e, f) ==
    /\ f.type = "META" =>
           f.id \in Own(Peer(e)) /\ f.n = 1 /\ stage[e][f.id] = "none"
    /\ f.n = 1 /\ f.id \in Own(Peer(e)) => f.type = "META"

MetaInv ==
    \A e \in Ends :
        /\ \A k \in 1..Len(wire[e]) : Marks(e, wire[e][k])
        /\ loop[e].at = "dispatch" => Marks(e, loop[e].frame)

(* The buffer continues what the user has read, without a gap. *)
Continues(e, i) ==
    \A k \in 1..Len(rcvCh[e][i]) : rcvCh[e][i][k].n = got[e][i] + k

(* The frame in hand continues the buffer, unless dispatch will drop it. *)
NextInHand(e, i) ==
    InHand(e, i) /\ (loop[e].at # "dispatch" \/ stage[e][i] # "closed")
        => loop[e].frame.n = Stored(e, i) + 1

(* Nothing is received that was not sent. *)
Received(e, i) ==
    /\ Stored(e, i) <= sent[Peer(e)][i]
    /\ InHand(e, i) => loop[e].frame.n <= sent[Peer(e)][i]
    /\ \A k \in 1..Len(wire[e]) : On(e, i, k) => wire[e][k].n <= sent[Peer(e)][i]

(* The connection holds the frames after those, in order and all of them. *)
Chain(e, i) ==
    /\ \A k \in 1..Len(wire[e]) : On(e, i, k) => wire[e][k].n > Taken(e, i)
    /\ \A k, l \in 1..Len(wire[e]) :
           On(e, i, k) /\ On(e, i, l) /\ k < l => wire[e][k].n < wire[e][l].n
    /\ e \in conn =>
           \A m \in (Taken(e, i) + 1)..sent[Peer(e)][i] :
               \E k \in 1..Len(wire[e]) : On(e, i, k) /\ wire[e][k].n = m

Flow(e, i) ==
    /\ Continues(e, i)
    /\ NextInHand(e, i)
    /\ Received(e, i)
    /\ stage[e][i] # "closed" => Chain(e, i)

FlowInv == \A e \in Ends, i \in Ids : Flow(e, i)

(* A closed connection carries nothing more. *)
LinkInv ==
    \A e \in Ends : e \notin conn => wire[e] = <<>> /\ down[e] = "closing"

IInv ==
    /\ TypeOK
    /\ TableInv
    /\ FreshInv
    /\ KnownInv
    /\ MetaInv
    /\ FlowInv
    /\ LinkInv

-----------------------------------------------------------------------------
(* The two ends and their ids.                                             *)

LEMMA EndFacts ==
    ASSUME NEW e \in Ends
    PROVE  /\ Peer(e) \in Ends /\ Peer(e) # e /\ Peer(Peer(e)) = e
           /\ Ends = {e, Peer(e)}
BY DEF Ends, Peer

(* Every id belongs to one of them: the initiator's are even. *)
LEMMA IdFacts ==
    ASSUME NEW e \in Ends, NEW i \in Ids
    PROVE  i \in Nat /\ (i \in Own(e) <=> i \notin Own(Peer(e)))
<1>1. Opens \in [Ends -> Nat] /\ e \in {"initiator", "responder"}
    BY MuxAssumption DEF Ends
<1>2. \A x \in Own("initiator") : x \in Nat /\ \E k \in Nat : x = 2 * k
    BY <1>1 DEF Own, FirstID, Ends
<1>3. \A x \in Own("responder") : x \in Nat /\ \E k \in Nat : x = 1 + 2 * k
    BY <1>1 DEF Own, FirstID, Ends
<1>4. \A x \in Own("initiator") : x \notin Own("responder")
    BY <1>2, <1>3
<1>5. QED
    BY <1>1, <1>2, <1>3, <1>4 DEF Ids, Peer

(* Sequences that grow at the end and shrink at the head. *)
LEMMA AppendNth ==
    ASSUME NEW S, NEW s \in Seq(S), NEW x \in S
    PROVE  /\ Append(s, x) \in Seq(S)
           /\ Len(Append(s, x)) = Len(s) + 1
           /\ \A k \in 1..Len(s) : Append(s, x)[k] = s[k]
           /\ Append(s, x)[Len(s) + 1] = x
OBVIOUS

LEMMA TailNth ==
    ASSUME NEW S, NEW s \in Seq(S), s # <<>>
    PROVE  /\ Len(s) >= 1 /\ Head(s) = s[1] /\ Head(s) \in S
           /\ Tail(s) \in Seq(S)
           /\ Len(Tail(s)) = Len(s) - 1
           /\ \A k \in 1..Len(Tail(s)) : Tail(s)[k] = s[k + 1]
OBVIOUS

(* One value of a function of two arguments is replaced. *)
LEMMA UpdateTwice ==
    ASSUME NEW S, NEW T, NEW V, NEW h \in [S -> [T -> V]],
           NEW x \in S, NEW y \in T, NEW v \in V
    PROVE  /\ [h EXCEPT ![x][y] = v] \in [S -> [T -> V]]
           /\ [h EXCEPT ![x][y] = v][x][y] = v
           /\ \A d \in S, j \in T :
                  d # x \/ j # y => [h EXCEPT ![x][y] = v][d][j] = h[d][j]
OBVIOUS

(* The types of what an end keeps for a stream. *)
LEMMA StreamTypes ==
    ASSUME TypeOK, NEW e \in Ends, NEW i \in Ids
    PROVE  /\ rcvCh \in [Ends -> [Ids -> Seq(Frames)]]
           /\ rcvCh[e][i] \in Seq(Frames) /\ Len(rcvCh[e][i]) \in Nat
           /\ Len(rcvCh[e][i]) <= RcvCap
           /\ sent \in [Ends -> [Ids -> Nat]] /\ sent[e][i] \in Nat
           /\ got \in [Ends -> [Ids -> Nat]] /\ got[e][i] \in Nat
<1>1. /\ rcvCh \in [Ends -> [Ids -> Seq(Frames)]]
      /\ Len(rcvCh[e][i]) <= RcvCap
      /\ sent \in [Ends -> [Ids -> Nat]]
      /\ got \in [Ends -> [Ids -> Nat]]
    BY DEF TypeOK
<1>2. rcvCh[e][i] \in Seq(Frames) /\ sent[e][i] \in Nat /\ got[e][i] \in Nat
    BY <1>1
<1>3. QED
    BY <1>1, <1>2

(* What the read loop works on. *)
LEMMA LoopFacts ==
    ASSUME TypeOK, NEW e \in Ends
    PROVE  /\ loop[e].at \in {"read", "stopped", "dispatch", "offer", "deliver"}
           /\ loop[e].at \in {"dispatch", "offer", "deliver"} =>
                  /\ loop[e].frame \in Frames
                  /\ \A a \in {"dispatch", "offer", "deliver"} :
                         [loop EXCEPT ![e].at = a]
                             = [loop EXCEPT ![e] = [at |-> a, frame |-> loop[e].frame]]
           /\ loop[e].at = "read" <=> loop[e] = Idle
           /\ loop[e].at = "stopped" <=> loop[e] = Stopped
<1>1. \/ loop[e] = Idle \/ loop[e] = Stopped
      \/ loop[e] \in [at : {"dispatch", "offer", "deliver"}, frame : Frames]
    BY DEF TypeOK, LoopStates
<1>2. ASSUME loop[e] \in [at : {"dispatch", "offer", "deliver"}, frame : Frames],
             NEW a \in {"dispatch", "offer", "deliver"}
      PROVE  [loop[e] EXCEPT !.at = a] = [at |-> a, frame |-> loop[e].frame]
    BY <1>2
<1>3. ASSUME NEW a \in {"dispatch", "offer", "deliver"}
      PROVE  [loop EXCEPT ![e].at = a] = [loop EXCEPT ![e] = [loop[e] EXCEPT !.at = a]]
    OBVIOUS
<1>4. /\ loop[e].at \in {"read", "stopped", "dispatch", "offer", "deliver"}
      /\ loop[e].at = "read" <=> loop[e] = Idle
      /\ loop[e].at = "stopped" <=> loop[e] = Stopped
    BY <1>1 DEF Idle, Stopped
<1>5. loop[e].at \in {"dispatch", "offer", "deliver"} =>
          loop[e] \in [at : {"dispatch", "offer", "deliver"}, frame : Frames]
    BY <1>1 DEF Idle, Stopped
<1>6. loop[e].at \in {"dispatch", "offer", "deliver"} => loop[e].frame \in Frames
    BY <1>5
<1>7. ASSUME loop[e].at \in {"dispatch", "offer", "deliver"},
             NEW a \in {"dispatch", "offer", "deliver"}
      PROVE  [loop EXCEPT ![e].at = a] = [loop EXCEPT ![e] = [at |-> a, frame |-> loop[e].frame]]
    BY <1>2, <1>3, <1>5, <1>7
<1>8. QED
    BY <1>4, <1>6, <1>7

-----------------------------------------------------------------------------
(* Types.                                                                  *)

(* Closing a stream and marking the mux keep the types. *)
LEMMA TypeClose ==
    ASSUME TypeOK, NEW e \in Ends, NEW i \in Ids, CloseStream(e, i)
    PROVE  /\ stage' \in [Ends -> [Ids -> {"none", "open", "closed"}]]
           /\ registered' \in [Ends -> SUBSET Ids]
BY DEF TypeOK, CloseStream

LEMMA TypeMark ==
    ASSUME TypeOK, NEW e \in Ends, Mark(e)
    PROVE  down' \in [Ends -> DownStates] /\ snapshot' \in [Ends -> SUBSET Ids]
BY DEF TypeOK, Mark, DownStates

LEMMA TypeServe ==
    ASSUME TypeOK, NEW e \in Ends, Serve(e)
    PROVE  TypeOK'
<1> USE DEF loopVars, userVars, downVars
<1>1. CASE Decode(e)
    <2>1. Head(wire[e]) \in Frames /\ Tail(wire[e]) \in Seq(Frames)
          /\ Len(Tail(wire[e])) <= WireCap
        BY <1>1, MuxAssumption DEF Decode, TypeOK
    <2>2. loop' \in [Ends -> LoopStates]
        BY <1>1, <2>1 DEF Decode, TypeOK, LoopStates
    <2>3. wire' \in [Ends -> Seq(Frames)] /\ \A d \in Ends : Len(wire'[d]) <= WireCap
        BY <1>1, <2>1 DEF Decode, TypeOK
    <2>4. QED
        BY <1>1, <2>2, <2>3 DEF Decode, TypeOK
<1>2. CASE DecodeFails(e)
    BY <1>2, TypeMark DEF DecodeFails, TypeOK, LoopStates
<1>3. CASE Dispatch(e)
    <2>1. loop[e].frame \in Frames
        BY <1>3, LoopFacts DEF Dispatch
    <2>2. loop' \in [Ends -> LoopStates]
        <3>1. \E x \in LoopStates : loop' = [loop EXCEPT ![e] = x]
            <4>1. \/ loop' = [loop EXCEPT ![e].at = "deliver"]
                  \/ loop' = [loop EXCEPT ![e].at = "offer"]
                  \/ loop' = [loop EXCEPT ![e] = Idle]
                BY <1>3 DEF Dispatch
            <4>2. \A a \in {"offer", "deliver"} : [at |-> a, frame |-> loop[e].frame] \in LoopStates
                BY <2>1 DEF LoopStates
            <4>3. QED
                BY <1>3, <4>1, <4>2, LoopFacts DEF Dispatch, LoopStates
        <3>2. QED
            BY <3>1 DEF TypeOK
    <2>3. /\ stage' \in [Ends -> [Ids -> {"none", "open", "closed"}]]
          /\ registered' \in [Ends -> SUBSET Ids]
        <3>1. loop[e].frame.id \in Ids
            BY <2>1 DEF Frames
        <3>2. CASE UNCHANGED <<registered, stage>>
            BY <3>2 DEF TypeOK
        <3>3. CASE /\ registered' = [registered EXCEPT ![e] = @ \union {loop[e].frame.id}]
                   /\ stage' = [stage EXCEPT ![e][loop[e].frame.id] = "open"]
            BY <3>1, <3>3 DEF TypeOK
        <3>4. QED
            BY <1>3, <3>2, <3>3 DEF Dispatch
    <2>4. QED
        BY <1>3, <2>2, <2>3 DEF Dispatch, TypeOK
<1>4. CASE Offer(e)
    <2>1. loop[e].frame \in Frames
        BY <1>4, LoopFacts DEF Offer
    <2>2. loop' \in [Ends -> LoopStates]
        <3>1. \E x \in LoopStates : loop' = [loop EXCEPT ![e] = x]
            <4>1. \/ loop' = [loop EXCEPT ![e].at = "deliver"]
                  \/ loop' = [loop EXCEPT ![e] = Idle]
                BY <1>4 DEF Offer
            <4>2. [at |-> "deliver", frame |-> loop[e].frame] \in LoopStates
                BY <2>1 DEF LoopStates
            <4>3. QED
                BY <1>4, <4>1, <4>2, LoopFacts DEF Offer, LoopStates
        <3>2. QED
            BY <3>1 DEF TypeOK
    <2>3. /\ stage' \in [Ends -> [Ids -> {"none", "open", "closed"}]]
          /\ registered' \in [Ends -> SUBSET Ids]
        BY <1>4, <2>1, TypeClose DEF Offer, TypeOK, Frames
    <2>4. acceptCh' \in [Ends -> Seq(Ids)] /\ \A d \in Ends : Len(acceptCh'[d]) <= AcceptCap
        <3>1. loop[e].frame.id \in Ids
            BY <2>1 DEF Frames
        <3>2. CASE UNCHANGED acceptCh
            BY <3>2 DEF TypeOK
        <3>3. CASE /\ Len(acceptCh[e]) < AcceptCap
                   /\ acceptCh' = [acceptCh EXCEPT ![e] = Append(@, loop[e].frame.id)]
            BY <3>1, <3>3, MuxAssumption DEF TypeOK
        <3>4. QED
            BY <1>4, <3>2, <3>3 DEF Offer
    <2>5. QED
        BY <1>4, <2>2, <2>3, <2>4 DEF Offer, TypeOK
<1>5. CASE Deliver(e)
    <2> DEFINE f == loop[e].frame
    <2>1. f \in Frames /\ f.id \in Ids
        BY <1>5, LoopFacts DEF Deliver, Frames
    <2>2. loop' \in [Ends -> LoopStates]
        BY <1>5 DEF Deliver, TypeOK, LoopStates
    <2>3. /\ rcvCh' \in [Ends -> [Ids -> Seq(Frames)]]
          /\ \A d \in Ends, i \in Ids : Len(rcvCh'[d][i]) <= RcvCap
        <3>1. CASE UNCHANGED rcvCh
            BY <3>1 DEF TypeOK
        <3>2. CASE Len(rcvCh[e][f.id]) < RcvCap
                   /\ rcvCh' = [rcvCh EXCEPT ![e][f.id] = Append(@, f)]
            <4>1. rcvCh[e][f.id] \in Seq(Frames)
                BY <2>1 DEF TypeOK
            <4>2. Append(rcvCh[e][f.id], f) \in Seq(Frames)
                  /\ Len(Append(rcvCh[e][f.id], f)) = Len(rcvCh[e][f.id]) + 1
                BY <2>1, <4>1
            <4>3. Len(rcvCh[e][f.id]) + 1 <= RcvCap
                BY <3>2, <4>1, MuxAssumption
            <4> HIDE DEF f
            <4>4. QED
                BY <2>1, <3>2, <4>2, <4>3, UpdateTwice DEF TypeOK
        <3>3. QED
            BY <1>5, <3>1, <3>2 DEF Deliver, Buffered
    <2>4. QED
        BY <1>5, <2>2, <2>3 DEF Deliver, TypeOK
<1>6. QED
    BY <1>1, <1>2, <1>3, <1>4, <1>5 DEF Serve

LEMMA TypeShutdown ==
    ASSUME TypeOK, NEW e \in Ends, Shutdown(e) \/ CloseMux(e)
    PROVE  TypeOK'
<1> USE DEF loopVars, userVars, downVars
<1>1. CASE Signal(e)
    BY <1>1 DEF Signal, TypeOK, DownStates
<1>2. CASE Disconnect(e)
    BY <1>2, MuxAssumption DEF Disconnect, TypeOK, DownStates
<1>3. ASSUME NEW i \in Ids, CloseNext(e, i)
      PROVE  TypeOK'
    BY <1>3, TypeClose DEF CloseNext, TypeOK
<1>4. CASE CloseMux(e)
    BY <1>4, TypeMark DEF CloseMux, TypeOK
<1>5. QED
    BY <1>1, <1>2, <1>3, <1>4 DEF Shutdown

LEMMA TypeUsers ==
    ASSUME TypeOK, NEW e \in Ends,
           \/ Open(e) \/ Accept(e)
           \/ \E i \in Ids : \/ Part(e, i) \/ Close(e, i)
                             \/ WriteFails(e, i) \/ RecvFrame(e, i)
                             \/ \E type \in FrameTypes : SendFrame(e, i, type)
    PROVE  TypeOK'
<1> USE DEF loopVars, userVars, downVars
<1>1. CASE Open(e)
    <2>1. nextID[e] \in Ids
        BY <1>1, EndFacts DEF Open, Ids, Ends
    <2>2. QED
        BY <1>1, <2>1 DEF Open, TypeOK
<1>2. CASE Accept(e)
    <2>1. /\ Head(acceptCh[e]) \in Ids /\ Tail(acceptCh[e]) \in Seq(Ids)
          /\ Len(Tail(acceptCh[e])) <= AcceptCap
        BY <1>2, MuxAssumption DEF Accept, TypeOK
    <2>2. QED
        BY <1>2, <2>1 DEF Accept, TypeOK
<1>3. ASSUME NEW i \in Ids, Part(e, i)
      PROVE  TypeOK'
    BY <1>3, TypeClose DEF Part, TypeOK
<1>4. ASSUME NEW i \in Ids, Close(e, i)
      PROVE  TypeOK'
    BY <1>4, TypeClose DEF Close, TypeOK
<1>5. ASSUME NEW i \in Ids, WriteFails(e, i)
      PROVE  TypeOK'
    BY <1>5, TypeMark DEF WriteFails, TypeOK
<1>6. ASSUME NEW i \in Ids, RecvFrame(e, i)
      PROVE  TypeOK'
    <2>1. /\ Head(rcvCh[e][i]) \in Frames /\ Tail(rcvCh[e][i]) \in Seq(Frames)
          /\ Len(Tail(rcvCh[e][i])) <= RcvCap
        <3>1. rcvCh[e][i] \in Seq(Frames) /\ rcvCh[e][i] # <<>> /\ Len(rcvCh[e][i]) <= RcvCap
            BY <1>6, StreamTypes DEF RecvFrame
        <3>2. QED
            BY <3>1, MuxAssumption, TailNth
    <2>2. /\ rcvCh' \in [Ends -> [Ids -> Seq(Frames)]]
          /\ \A d \in Ends, j \in Ids : Len(rcvCh'[d][j]) <= RcvCap
        <3>1. rcvCh' = [rcvCh EXCEPT ![e][i] = Tail(@)]
            BY <1>6 DEF RecvFrame
        <3>2. QED
            BY <2>1, <3>1, UpdateTwice DEF TypeOK
    <2>3. got' \in [Ends -> [Ids -> Nat]]
        BY <1>6, <2>1 DEF RecvFrame, TypeOK, Frames
    <2>4. /\ stage' \in [Ends -> [Ids -> {"none", "open", "closed"}]]
          /\ registered' \in [Ends -> SUBSET Ids]
        BY <1>6, TypeClose DEF RecvFrame, TypeOK
    <2>5. QED
        BY <1>6, <2>2, <2>3, <2>4 DEF RecvFrame, TypeOK
<1>7. ASSUME NEW i \in Ids, NEW type \in FrameTypes, SendFrame(e, i, type)
      PROVE  TypeOK'
    <2> DEFINE f == [id |-> i, type |-> type, n |-> sent[e][i] + 1]
    <2>1. f \in Frames /\ Peer(e) \in Ends
        <3>1. sent[e][i] \in Nat
            BY StreamTypes
        <3>2. sent[e][i] + 1 \in Nat \ {0}
            BY <3>1
        <3>3. f \in Frames
            BY <3>2 DEF Frames
        <3>4. QED
            BY <3>3, EndFacts
    <2>2. wire' \in [Ends -> Seq(Frames)] /\ \A d \in Ends : Len(wire'[d]) <= WireCap
        <3>1. CASE Peer(e) \in conn
            <4>1. wire' = [wire EXCEPT ![Peer(e)] = Append(@, f)]
                BY <1>7, <3>1 DEF SendFrame
            <4>2. QED
                <5>1. Len(wire[Peer(e)]) < WireCap
                    BY <1>7, <3>1 DEF SendFrame
                <5>2. \A g \in Frames : /\ Append(wire[Peer(e)], g) \in Seq(Frames)
                                       /\ Len(Append(wire[Peer(e)], g)) <= WireCap
                    BY <2>1, <5>1, MuxAssumption DEF TypeOK
                <5> HIDE DEF f
                <5>3. QED
                    BY <2>1, <4>1, <5>2 DEF TypeOK
        <3>2. CASE Peer(e) \notin conn
            BY <1>7, <3>2, <2>1 DEF SendFrame, TypeOK
        <3>3. QED
            BY <3>1, <3>2
    <2>3. /\ sent' \in [Ends -> [Ids -> Nat]]
          /\ parting' \in [Ends -> SUBSET Ids]
        BY <1>7 DEF SendFrame, TypeOK
    <2>4. QED
        BY <1>7, <2>2, <2>3 DEF SendFrame, TypeOK
<1>8. QED
    BY <1>1, <1>2, <1>3, <1>4, <1>5, <1>6, <1>7

LEMMA TypeStep == TypeOK /\ [Next]_vars => TypeOK'
<1> SUFFICES ASSUME TypeOK, [Next]_vars
             PROVE  TypeOK'
    OBVIOUS
<1>1. CASE UNCHANGED vars
    BY <1>1 DEF vars, TypeOK
<1>2. ASSUME NEW e \in Ends, Serve(e) \/ Shutdown(e) \/ CloseMux(e)
      PROVE  TypeOK'
    BY <1>2, TypeServe, TypeShutdown
<1>3. QED
    BY <1>1, <1>2, TypeUsers DEF Next

-----------------------------------------------------------------------------
(* How the stage of a stream changes.                                      *)

LEMMA CloseFacts ==
    ASSUME TypeOK, NEW e \in Ends, NEW i \in Ids, CloseStream(e, i),
           NEW d \in Ends, NEW j \in Ids
    PROVE  /\ stage'[d][j] = IF d = e /\ j = i THEN "closed" ELSE stage[d][j]
           /\ j \in registered'[d] <=> j \in registered[d] /\ ~(d = e /\ j = i)
BY DEF CloseStream, TypeOK

(* A frame that dispatch takes for an unknown stream opens it. *)
Admit(e) ==
    /\ Dispatch(e)
    /\ loop[e].frame.id \notin registered[e]
    /\ Opening(loop[e].frame)

Opens1(e, i) ==
    /\ stage' = [stage EXCEPT ![e][i] = "open"]
    /\ registered' = [registered EXCEPT ![e] = @ \union {i}]

LEMMA OpenFacts ==
    ASSUME TypeOK, NEW e \in Ends, NEW i \in Ids, Opens1(e, i),
           NEW d \in Ends, NEW j \in Ids
    PROVE  /\ stage'[d][j] = IF d = e /\ j = i THEN "open" ELSE stage[d][j]
           /\ j \in registered'[d] <=> j \in registered[d] \/ (d = e /\ j = i)
BY DEF Opens1, TypeOK

LEMMA StageCases ==
    ASSUME TypeOK, FreshInv, [Next]_vars
    PROVE  \/ UNCHANGED <<stage, registered>>
           \/ \E e \in Ends, i \in Ids : CloseStream(e, i) /\ stage[e][i] # "none"
           \/ \E e \in Ends : nextID[e] \in Ids /\ Open(e) /\ Opens1(e, nextID[e])
           \/ \E e \in Ends : /\ loop[e].frame.id \in Ids
                              /\ Admit(e) /\ Opens1(e, loop[e].frame.id)
<1>1. CASE UNCHANGED vars
    BY <1>1 DEF vars
<1>2. ASSUME NEW e \in Ends, Serve(e)
      PROVE  \/ UNCHANGED <<stage, registered>>
             \/ \E i \in Ids : CloseStream(e, i) /\ stage[e][i] # "none"
             \/ /\ loop[e].frame.id \in Ids
                /\ Admit(e) /\ Opens1(e, loop[e].frame.id)
    <2>1. CASE Decode(e) \/ DecodeFails(e) \/ Deliver(e)
        BY <2>1 DEF Decode, DecodeFails, Deliver
    <2>2. CASE Dispatch(e) \/ Offer(e)
        <3>1. loop[e].frame.id \in Ids
            BY <2>2, LoopFacts DEF Dispatch, Offer, Frames
        <3>2. CASE Dispatch(e)
            BY <3>1, <3>2 DEF Dispatch, Admit, Opens1
        <3>3. CASE Offer(e)
            BY <3>1, <3>3 DEF Offer, FreshInv, Fresh, InHand
        <3>4. QED
            BY <2>2, <3>2, <3>3
    <2>3. QED
        BY <1>2, <2>1, <2>2 DEF Serve
<1>3. ASSUME NEW e \in Ends, Shutdown(e) \/ Accept(e) \/ CloseMux(e)
      PROVE  \/ UNCHANGED <<stage, registered>>
             \/ \E i \in Ids : CloseStream(e, i) /\ stage[e][i] # "none"
    BY <1>3
    DEF Shutdown, Signal, Disconnect, CloseNext, Accept, CloseMux, FreshInv, Fresh
<1>4. ASSUME NEW e \in Ends, Open(e)
      PROVE  nextID[e] \in Ids /\ Opens1(e, nextID[e])
    BY <1>4 DEF Open, Opens1, Ids, Ends
<1>5. ASSUME NEW e \in Ends, NEW i \in Ids,
             \/ Part(e, i) \/ Close(e, i) \/ WriteFails(e, i) \/ RecvFrame(e, i)
             \/ \E type \in FrameTypes : SendFrame(e, i, type)
      PROVE  \/ UNCHANGED <<stage, registered>>
             \/ CloseStream(e, i) /\ stage[e][i] # "none"
    BY <1>5 DEF Part, Close, WriteFails, RecvFrame, SendFrame, FreshInv, Fresh
<1>6. QED
    BY <1>1, <1>2, <1>3, <1>4, <1>5 DEF Next

LEMMA TableStep ==
    ASSUME TypeOK, FreshInv, TableInv, [Next]_vars
    PROVE  TableInv'
<1> SUFFICES ASSUME NEW d \in Ends, NEW j \in Ids
             PROVE  j \in registered'[d] <=> stage'[d][j] = "open"
    BY DEF TableInv
<1>1. CASE UNCHANGED <<stage, registered>>
    BY <1>1 DEF TableInv
<1>2. ASSUME NEW e \in Ends, NEW i \in Ids, CloseStream(e, i)
      PROVE  j \in registered'[d] <=> stage'[d][j] = "open"
    BY <1>2, CloseFacts DEF TableInv
<1>3. ASSUME NEW e \in Ends, NEW i \in Ids, Opens1(e, i)
      PROVE  j \in registered'[d] <=> stage'[d][j] = "open"
    BY <1>3, OpenFacts DEF TableInv
<1>4. QED
    BY <1>1, <1>2, <1>3, StageCases

(* A stream that was never opened was not so before, and one that is not   *)
(* closed was not closed before.                                           *)
LEMMA StageMonotone ==
    ASSUME TypeOK, FreshInv, TableInv, KnownInv, MetaInv, [Next]_vars,
           NEW d \in Ends, NEW j \in Ids
    PROVE  /\ stage'[d][j] = "none" => stage[d][j] = "none"
           /\ stage'[d][j] # "closed" => stage[d][j] # "closed"
<1>1. CASE UNCHANGED <<stage, registered>>
    BY <1>1
<1>2. ASSUME NEW e \in Ends, NEW i \in Ids, CloseStream(e, i)
      PROVE  /\ stage'[d][j] = "none" => stage[d][j] = "none"
             /\ stage'[d][j] # "closed" => stage[d][j] # "closed"
    BY <1>2, CloseFacts
<1>3. ASSUME NEW e \in Ends, NEW i \in Ids, Opens1(e, i), stage[e][i] = "none"
      PROVE  /\ stage'[d][j] = "none" => stage[d][j] = "none"
             /\ stage'[d][j] # "closed" => stage[d][j] # "closed"
    BY <1>3, OpenFacts
<1>4. ASSUME NEW e \in Ends, Open(e), nextID[e] \in Ids
      PROVE  stage[e][nextID[e]] = "none"
    BY <1>4, IdFacts DEF Open, KnownInv
<1>5. ASSUME NEW e \in Ends, Admit(e), loop[e].frame.id \in Ids
      PROVE  stage[e][loop[e].frame.id] = "none"
    BY <1>5 DEF Admit, Dispatch, Opening, MetaInv, Marks
<1>6. QED
    BY <1>1, <1>2, <1>3, <1>4, <1>5, StageCases

-----------------------------------------------------------------------------
(* The inductive invariant, part by part.                                  *)

LEMMA InitInvariant == Init => IInv
<1> SUFFICES ASSUME Init
             PROVE  IInv
    OBVIOUS
<1>1. TypeOK
    <2>1. \A e \in Ends : FirstID(e) \in Nat
        BY DEF FirstID
    <2>2. QED
        BY <2>1, MuxAssumption DEF Init, TypeOK, LoopStates, DownStates, Ends
<1>2. TableInv /\ FreshInv /\ KnownInv
    BY EndFacts DEF Init, TableInv, FreshInv, Fresh, KnownInv, InHand, Idle
<1>3. MetaInv /\ LinkInv
    BY DEF Init, MetaInv, Idle, LinkInv
<1>4. FlowInv
    BY EndFacts
    DEF Init, FlowInv, Flow, Continues, NextInHand, Received, Chain, Stored,
        Taken, InHand, Idle
<1>5. QED
    BY <1>1, <1>2, <1>3, <1>4 DEF IInv

LEMMA FreshServe ==
    ASSUME TypeOK, NEW e \in Ends, Serve(e),
           NEW d \in Ends, NEW j \in Ids, Fresh(d, j), stage[d][j] = "none",
           stage'[d][j] = "none", TableInv
    PROVE  Fresh(d, j)'
<1> USE DEF loopVars, userVars, downVars
<1>1. CASE Decode(e)
    BY <1>1 DEF Decode, Fresh, InHand, TypeOK
<1>2. CASE DecodeFails(e)
    BY <1>2 DEF DecodeFails, Mark, Fresh, InHand, Stopped, TypeOK, TableInv
<1>3. CASE Dispatch(e)
    <2>1. CASE d # e
        BY <1>3, <2>1 DEF Dispatch, Fresh, InHand, TypeOK
    <2>2. CASE d = e
        <3>1. loop[e].frame.id \in Ids
            BY <1>3, LoopFacts DEF Dispatch, Frames
        <3>2. InHand(e, j)' => loop'[e].at = "dispatch"
            <4>1. CASE loop[e].frame.id \in registered[e] /\ stage' = stage
                <5>1. loop[e].frame.id # j
                    BY <2>2, <4>1, <3>1 DEF TableInv
                <5>2. loop' = [loop EXCEPT ![e] = [at |-> "deliver", frame |-> loop[e].frame]]
                      \/ loop' = [loop EXCEPT ![e] = Idle]
                    BY <1>3, <4>1, LoopFacts DEF Dispatch
                <5>3. QED
                    BY <5>1, <5>2 DEF InHand, TypeOK, Idle
            <4>2. CASE stage' = [stage EXCEPT ![e][loop[e].frame.id] = "open"]
                          /\ loop' = [loop EXCEPT ![e].at = "offer"]
                <5>1. loop[e].frame.id # j
                    BY <2>2, <4>2, <3>1 DEF TypeOK
                <5>2. loop' = [loop EXCEPT ![e] = [at |-> "offer", frame |-> loop[e].frame]]
                    BY <1>3, <4>2, LoopFacts DEF Dispatch
                <5>3. QED
                    BY <5>1, <5>2 DEF InHand, TypeOK
            <4>3. CASE loop' = [loop EXCEPT ![e] = Idle]
                BY <4>3 DEF InHand, TypeOK, Idle
            <4>4. QED
                BY <1>3, <4>1, <4>2, <4>3 DEF Dispatch
        <3>3. QED
            BY <1>3, <2>2, <3>2 DEF Dispatch, Fresh
    <2>3. QED
        BY <2>1, <2>2
<1>4. CASE Offer(e)
    <2>1. CASE d # e
        BY <1>4, <2>1 DEF Offer, Fresh, InHand, TypeOK
    <2>2. CASE d = e
        <3>1. loop[e].frame.id \in Ids /\ loop[e].frame.id # j
            BY <1>4, <2>2, LoopFacts DEF Offer, Frames, Fresh, InHand
        <3>2. /\ \/ loop' = [loop EXCEPT ![e] = [at |-> "deliver", frame |-> loop[e].frame]]
                 \/ loop' = [loop EXCEPT ![e] = Idle]
              /\ acceptCh' \in {acceptCh, [acceptCh EXCEPT ![e] = Append(@, loop[e].frame.id)]}
            BY <1>4, LoopFacts DEF Offer
        <3>3. \A k \in 1..Len(acceptCh'[e]) : acceptCh'[e][k] # j
            <4> DEFINE i == loop[e].frame.id
            <4>1. acceptCh'[e] \in {acceptCh[e], Append(acceptCh[e], i)}
                BY <3>2 DEF TypeOK
            <4>2. acceptCh[e] \in Seq(Ids) /\ \A k \in 1..Len(acceptCh[e]) : acceptCh[e][k] # j
                BY <2>2 DEF TypeOK, Fresh
            <4>3. \A k \in 1..Len(Append(acceptCh[e], i)) : k \in 1..Len(acceptCh[e]) \/ k = Len(acceptCh[e]) + 1
                BY <3>1, <4>2, AppendNth
            <4>4. \A k \in 1..Len(Append(acceptCh[e], i)) : Append(acceptCh[e], i)[k] # j
                BY <3>1, <4>2, <4>3, AppendNth
            <4>5. QED
                BY <4>1, <4>2, <4>4
        <3>4. ~InHand(e, j)'
            <4>1. DOMAIN loop = Ends
                BY DEF TypeOK
            <4>2. loop'[e] = Idle \/ loop'[e] = [at |-> "deliver", frame |-> loop[e].frame]
                BY <3>2, <4>1
            <4>3. QED
                BY <3>1, <4>2 DEF InHand, Idle
        <3>5. QED
            BY <1>4, <2>2, <3>3, <3>4 DEF Offer, Fresh
    <2>3. QED
        BY <2>1, <2>2
<1>5. CASE Deliver(e)
    <2>1. loop[e].frame.id \in Ids
        BY <1>5, LoopFacts DEF Deliver, Frames
    <2>2. d = e => loop[e].frame.id # j
        BY <1>5 DEF Deliver, Fresh, InHand
    <2>3. rcvCh'[d][j] = rcvCh[d][j]
        <3>1. \/ rcvCh' = rcvCh
              \/ rcvCh' = [rcvCh EXCEPT ![e][loop[e].frame.id] = Append(@, loop[e].frame)]
            BY <1>5 DEF Deliver, Buffered
        <3>2. rcvCh \in [Ends -> [Ids -> Seq(Frames)]]
            BY DEF TypeOK
        <3>3. QED
            BY <2>1, <2>2, <3>1, <3>2
    <2>4. InHand(d, j)' => d # e /\ InHand(d, j) /\ loop'[d] = loop[d]
        BY <1>5 DEF Deliver, InHand, Idle, TypeOK
    <2>5. QED
        BY <1>5, <2>3, <2>4 DEF Deliver, Fresh
<1>6. QED
    BY <1>1, <1>2, <1>3, <1>4, <1>5 DEF Serve

LEMMA FreshUsers ==
    ASSUME TypeOK, NEW e \in Ends, TableInv,
           \/ Shutdown(e) \/ CloseMux(e) \/ Open(e) \/ Accept(e)
           \/ \E i \in Ids : \/ Part(e, i) \/ Close(e, i)
                             \/ WriteFails(e, i) \/ RecvFrame(e, i)
                             \/ \E type \in FrameTypes : SendFrame(e, i, type),
           NEW d \in Ends, NEW j \in Ids, Fresh(d, j), stage[d][j] = "none",
           stage'[d][j] = "none"
    PROVE  Fresh(d, j)'
<1> USE DEF loopVars, userVars, downVars
<1>1. CASE Shutdown(e)
    <2>1. CASE Signal(e) \/ Disconnect(e)
        BY <2>1 DEF Signal, Disconnect, Fresh, InHand
    <2>2. ASSUME NEW i \in Ids, CloseNext(e, i)
          PROVE  Fresh(d, j)'
        <3>1. j \in snapshot'[d] => j \in snapshot[d]
            BY <2>2 DEF CloseNext, TypeOK
        <3>2. QED
            BY <2>2, <3>1 DEF CloseNext, Fresh, InHand
    <2>3. QED
        BY <1>1, <2>1, <2>2 DEF Shutdown
<1>2. CASE CloseMux(e) \/ \E i \in Ids : WriteFails(e, i)
    <2>1. Mark(e) /\ UNCHANGED <<rcvCh, acceptCh, loop, held, parting, sent, got>>
        BY <1>2 DEF CloseMux, WriteFails
    <2>2. j \in snapshot'[d] => j \in snapshot[d] \/ j \in registered[d]
        BY <2>1 DEF Mark, TypeOK
    <2>3. j \notin snapshot'[d]
        BY <2>2 DEF Fresh, TableInv
    <2>4. QED
        BY <2>1, <2>3 DEF Fresh, InHand
<1>3. CASE Open(e)
    <2>1. nextID[e] \in Ids
        BY <1>3 DEF Open, Ids, Ends
    <2>2. QED
        BY <1>3, <2>1 DEF Open, Fresh, InHand, TypeOK
<1>4. CASE Accept(e)
    <2>1. ASSUME d = e
          PROVE  Head(acceptCh[e]) # j /\ \A k \in 1..Len(acceptCh'[e]) : acceptCh'[e][k] # j
        <3>1. acceptCh[e] \in Seq(Ids) /\ acceptCh[e] # <<>> /\ acceptCh'[e] = Tail(acceptCh[e])
            BY <1>4 DEF Accept, TypeOK
        <3>2. \A k \in 1..Len(acceptCh[e]) : acceptCh[e][k] # j
            BY <2>1 DEF Fresh
        <3>3. \A k \in 1..Len(Tail(acceptCh[e])) : k + 1 \in 1..Len(acceptCh[e])
            BY <3>1, TailNth
        <3>4. 1 \in 1..Len(acceptCh[e])
            BY <3>1, TailNth
        <3>5. QED
            BY <3>1, <3>2, <3>3, <3>4, TailNth
    <2>2. QED
        BY <1>4, <2>1 DEF Accept, Fresh, InHand, TypeOK
<1>5. ASSUME NEW i \in Ids, Part(e, i) \/ Close(e, i)
      PROVE  Fresh(d, j)'
    <2>1. j \in parting'[d] => j \in parting[d]
        <3>1. parting' = parting \/ parting' = [parting EXCEPT ![e] = @ \ {i}]
            BY <1>5 DEF Part, Close
        <3>2. parting \in [Ends -> SUBSET Ids]
            BY DEF TypeOK
        <3>3. QED
            BY <3>1, <3>2
    <2>2. QED
        BY <1>5, <2>1 DEF Part, Close, Fresh, InHand
<1>6. ASSUME NEW i \in Ids, RecvFrame(e, i)
      PROVE  Fresh(d, j)'
    <2>1. ~(d = e /\ j = i)
        BY <1>6 DEF RecvFrame, Fresh
    <2>2. got'[d][j] = got[d][j] /\ rcvCh'[d][j] = rcvCh[d][j]
        BY <1>6, <2>1 DEF RecvFrame, TypeOK
    <2>3. QED
        BY <1>6, <2>2 DEF RecvFrame, Fresh, InHand
<1>7. ASSUME NEW i \in Ids, NEW type \in FrameTypes, SendFrame(e, i, type)
      PROVE  Fresh(d, j)'
    <2>1. ~(d = e /\ j = i)
        BY <1>7 DEF SendFrame, Fresh
    <2>2. sent'[d][j] = sent[d][j]
        <3>1. sent \in [Ends -> [Ids -> Nat]] /\ sent[e][i] + 1 \in Nat
            <4>1. sent \in [Ends -> [Ids -> Nat]] /\ sent[e][i] \in Nat
                BY StreamTypes
            <4>2. QED
                BY <4>1
        <3>2. sent' = [sent EXCEPT ![e][i] = sent[e][i] + 1]
            BY <1>7 DEF SendFrame
        <3>3. QED
            BY <2>1, <3>1, <3>2, UpdateTwice
    <2>3. j \in parting'[d] <=> j \in parting[d]
        <3>1. DOMAIN parting = Ends
            BY DEF TypeOK
        <3>2. parting' = [parting EXCEPT ![e] = parting[e] \union {i}] \/ parting' = [parting EXCEPT ![e] = parting[e]]
            BY <1>7 DEF SendFrame
        <3>3. QED
            BY <2>1, <3>1, <3>2
    <2>4. QED
        BY <1>7, <2>2, <2>3 DEF SendFrame, Fresh, InHand
<1>8. QED
    BY <1>1, <1>2, <1>3, <1>4, <1>5, <1>6, <1>7

LEMMA FreshStep ==
    ASSUME TypeOK, TableInv, FreshInv, KnownInv, MetaInv, [Next]_vars
    PROVE  FreshInv'
<1> SUFFICES ASSUME NEW d \in Ends, NEW j \in Ids, stage'[d][j] = "none"
             PROVE  Fresh(d, j)'
    BY DEF FreshInv
<1>1. stage[d][j] = "none" /\ Fresh(d, j)
    BY StageMonotone DEF FreshInv
<1>2. CASE UNCHANGED vars
    BY <1>1, <1>2 DEF vars, Fresh, InHand
<1>3. CASE Next
    BY <1>1, <1>3, FreshServe, FreshUsers DEF Next
<1>4. QED
    BY <1>2, <1>3

LEMMA GrowOnly ==
    ASSUME TypeOK, [Next]_vars, NEW d \in Ends
    PROVE  /\ nextID'[d] >= nextID[d]
           /\ \A j \in Ids : sent'[d][j] >= sent[d][j]
<1> USE DEF loopVars, userVars, downVars
<1>1. /\ nextID[d] \in Nat /\ nextID \in [Ends -> Nat]
      /\ \A j \in Ids : sent[d][j] \in Nat
      /\ sent \in [Ends -> [Ids -> Nat]]
    BY DEF TypeOK
<1>2. CASE UNCHANGED vars
    BY <1>1, <1>2 DEF vars
<1>3. ASSUME NEW e \in Ends, Serve(e) \/ Shutdown(e) \/ CloseMux(e) \/ Accept(e)
      PROVE  UNCHANGED <<nextID, sent>>
    BY <1>3 DEF Serve, Decode, DecodeFails, Dispatch, Offer, Deliver, Shutdown,
                Signal, Disconnect, CloseNext, CloseMux, Accept
<1>4. ASSUME NEW e \in Ends, Open(e)
      PROVE  nextID'[d] >= nextID[d] /\ sent' = sent
    BY <1>1, <1>4 DEF Open
<1>5. ASSUME NEW e \in Ends, NEW i \in Ids,
             Part(e, i) \/ Close(e, i) \/ WriteFails(e, i) \/ RecvFrame(e, i)
      PROVE  UNCHANGED <<nextID, sent>>
    BY <1>5 DEF Part, Close, WriteFails, RecvFrame
<1>6. ASSUME NEW e \in Ends, NEW i \in Ids, NEW type \in FrameTypes, SendFrame(e, i, type)
      PROVE  nextID' = nextID /\ \A j \in Ids : sent'[d][j] >= sent[d][j]
    BY <1>1, <1>6 DEF SendFrame
<1>7. QED
    BY <1>1, <1>2, <1>3, <1>4, <1>5, <1>6 DEF Next

LEMMA KnownStep ==
    ASSUME TypeOK, FreshInv, KnownInv, MetaInv, FlowInv, [Next]_vars
    PROVE  KnownInv'
<1> SUFFICES ASSUME NEW d \in Ends, NEW j \in Ids,
                    \/ j \in Own(d) /\ j >= nextID'[d]
                    \/ j \in Own(Peer(d)) /\ sent'[Peer(d)][j] = 0
             PROVE  stage'[d][j] = "none"
    BY DEF KnownInv
<1>1. \/ j \in Own(d) /\ j >= nextID[d]
      \/ j \in Own(Peer(d)) /\ sent[Peer(d)][j] = 0
    <2>1. j \in Nat /\ nextID[d] \in Nat /\ nextID'[d] \in Nat
          /\ sent[Peer(d)][j] \in Nat /\ Peer(d) \in Ends
        BY IdFacts, EndFacts, TypeStep DEF TypeOK
    <2>2. CASE j \in Own(d) /\ j >= nextID'[d]
        BY <2>1, <2>2, GrowOnly
    <2>3. CASE j \in Own(Peer(d)) /\ sent'[Peer(d)][j] = 0
        BY <2>1, <2>3, GrowOnly
    <2>4. QED
        BY <2>2, <2>3
<1>2. stage[d][j] = "none"
    BY <1>1 DEF KnownInv
<1>3. CASE UNCHANGED <<stage, registered>>
    BY <1>2, <1>3
<1>4. ASSUME NEW e \in Ends, NEW i \in Ids, CloseStream(e, i), stage[e][i] # "none"
      PROVE  stage'[d][j] = "none"
    BY <1>2, <1>4, CloseFacts
<1>5. ASSUME NEW e \in Ends, nextID[e] \in Ids, Open(e), Opens1(e, nextID[e])
      PROVE  stage'[d][j] = "none"
    <2>1. ~(d = e /\ j = nextID[e])
        <3>1. SUFFICES ASSUME d = e, j = nextID[e]
                       PROVE  FALSE
            OBVIOUS
        <3>2. j \in Own(d) /\ j \notin Own(Peer(d))
            BY <1>5, <3>1, IdFacts DEF Open
        <3>3. nextID'[e] = nextID[e] + 2 /\ nextID[e] \in Nat
            BY <1>5 DEF Open, TypeOK
        <3>4. QED
            BY <3>1, <3>2, <3>3
    <2>2. QED
        BY <1>2, <1>5, <2>1, OpenFacts
<1>6. ASSUME NEW e \in Ends, loop[e].frame.id \in Ids, Admit(e),
             Opens1(e, loop[e].frame.id)
      PROVE  stage'[d][j] = "none"
    <2> DEFINE x == loop[e].frame.id
    <2>1. loop[e].at = "dispatch" /\ loop[e].frame.type = "META"
        BY <1>6 DEF Admit, Dispatch, Opening
    <2>2. x \in Own(Peer(e)) /\ loop[e].frame.n = 1
        BY <2>1 DEF MetaInv, Marks
    <2>3. x \notin Own(e) /\ sent[Peer(e)][x] # 0
        <3>1. loop[e].frame.n <= sent[Peer(e)][x]
            BY <1>6, <2>1 DEF FlowInv, Flow, Received, InHand
        <3>2. QED
            BY <1>6, <2>2, <3>1, IdFacts
    <2>4. ~(d = e /\ j = x)
        BY <1>1, <2>3
    <2>5. QED
        BY <1>2, <1>6, <2>4, OpenFacts
<1>7. QED
    BY <1>3, <1>4, <1>5, <1>6, StageCases

LEMMA LinkStep ==
    ASSUME TypeOK, LinkInv, [Next]_vars
    PROVE  LinkInv'
<1> USE DEF loopVars, userVars, downVars
<1> SUFFICES ASSUME NEW d \in Ends, d \notin conn'
             PROVE  wire'[d] = <<>> /\ down'[d] = "closing"
    BY DEF LinkInv
<1>1. /\ wire \in [Ends -> Seq(Frames)] /\ down \in [Ends -> DownStates]
      /\ \A e \in Ends : Peer(e) \in Ends
      /\ d \notin conn => wire[d] = <<>> /\ down[d] = "closing"
    BY EndFacts DEF TypeOK, LinkInv
<1>2. CASE UNCHANGED vars
    BY <1>1, <1>2 DEF vars
<1>3. ASSUME NEW e \in Ends, Serve(e)
      PROVE  wire'[d] = <<>> /\ down'[d] = "closing"
    BY <1>1, <1>3
    DEF Serve, Decode, DecodeFails, Dispatch, Offer, Deliver, Mark
<1>4. ASSUME NEW e \in Ends, Shutdown(e) \/ CloseMux(e)
      PROVE  wire'[d] = <<>> /\ down'[d] = "closing"
    BY <1>1, <1>4 DEF Shutdown, Signal, Disconnect, CloseNext, CloseMux, Mark
<1>5. ASSUME NEW e \in Ends, NEW i \in Ids,
             Part(e, i) \/ Close(e, i) \/ WriteFails(e, i) \/ RecvFrame(e, i)
      PROVE  wire'[d] = <<>> /\ down'[d] = "closing"
    BY <1>1, <1>5 DEF Part, Close, WriteFails, RecvFrame, Mark
<1>6. ASSUME NEW e \in Ends, NEW i \in Ids, NEW type \in FrameTypes, SendFrame(e, i, type)
      PROVE  wire'[d] = <<>> /\ down'[d] = "closing"
    BY <1>1, <1>6 DEF SendFrame
<1>7. ASSUME NEW e \in Ends, Open(e) \/ Accept(e)
      PROVE  wire'[d] = <<>> /\ down'[d] = "closing"
    BY <1>1, <1>7 DEF Open, Accept
<1>8. QED
    BY <1>2, <1>3, <1>4, <1>5, <1>6, <1>7 DEF Next

-----------------------------------------------------------------------------
(* The steps seen from the end that receives a stream.                     *)

(* Nothing that a reader of stream i sees has changed. *)
Quiet(e, i) ==
    /\ rcvCh'[e][i] = rcvCh[e][i] /\ got'[e][i] = got[e][i]
    /\ loop'[e] = loop[e] /\ wire'[e] = wire[e]
    /\ sent'[Peer(e)][i] = sent[Peer(e)][i]
    /\ e \in conn' <=> e \in conn

LEMMA FlowCases ==
    ASSUME TypeOK, [Next]_vars, NEW e \in Ends, NEW i \in Ids
    PROVE  \/ Quiet(e, i)
           \/ Disconnect(e) \/ Serve(e) \/ RecvFrame(e, i)
           \/ \E j \in Ids, type \in FrameTypes : SendFrame(Peer(e), j, type)
<1> USE DEF loopVars, userVars, downVars
<1>1. /\ wire \in [Ends -> Seq(Frames)] /\ Peer(e) \in Ends
      /\ rcvCh \in [Ends -> [Ids -> Seq(Frames)]]
      /\ loop \in [Ends -> LoopStates]
      /\ got \in [Ends -> [Ids -> Nat]] /\ sent \in [Ends -> [Ids -> Nat]]
      /\ conn \in SUBSET Ends
      /\ Ends = {e, Peer(e)} /\ Peer(e) # e /\ Peer(Peer(e)) = e
    BY EndFacts DEF TypeOK
<1>2. CASE UNCHANGED vars
    BY <1>2 DEF vars, Quiet
<1>3. ASSUME NEW d \in Ends, Serve(d), d # e
      PROVE  Quiet(e, i)
    <2>1. CASE Decode(d) \/ DecodeFails(d)
        BY <1>1, <1>3, <2>1 DEF Decode, DecodeFails, Quiet
    <2>2. CASE Dispatch(d) \/ Offer(d)
        BY <1>1, <1>3, <2>2 DEF Dispatch, Offer, Quiet
    <2>3. CASE Deliver(d)
        <3>1. \/ rcvCh' = rcvCh
              \/ rcvCh' = [rcvCh EXCEPT ![d][loop[d].frame.id] = Append(@, loop[d].frame)]
            BY <2>3 DEF Deliver, Buffered
        <3>2. rcvCh'[e] = rcvCh[e]
            BY <1>1, <1>3, <3>1
        <3>3. QED
            BY <1>1, <1>3, <2>3, <3>2 DEF Deliver, Quiet
    <2>4. QED
        BY <1>3, <2>1, <2>2, <2>3 DEF Serve
<1>4. ASSUME NEW d \in Ends, Shutdown(d) \/ CloseMux(d)
      PROVE  Quiet(e, i) \/ Disconnect(e)
    <2>1. CASE Disconnect(d)
        BY <1>1, <2>1 DEF Disconnect, Quiet
    <2>2. CASE Signal(d) \/ CloseMux(d) \/ \E j \in Ids : CloseNext(d, j)
        BY <2>2 DEF Signal, CloseNext, CloseMux, Quiet
    <2>3. QED
        BY <1>4, <2>1, <2>2 DEF Shutdown
<1>5. ASSUME NEW d \in Ends, Open(d) \/ Accept(d)
      PROVE  Quiet(e, i)
    BY <1>5 DEF Open, Accept, Quiet
<1>6. ASSUME NEW d \in Ends, NEW j \in Ids,
             Part(d, j) \/ Close(d, j) \/ WriteFails(d, j)
      PROVE  Quiet(e, i)
    BY <1>6 DEF Part, Close, WriteFails, Quiet
<1>7. ASSUME NEW d \in Ends, NEW j \in Ids, RecvFrame(d, j)
      PROVE  Quiet(e, i) \/ RecvFrame(e, i)
    <2>1. CASE d = e /\ j = i
        BY <1>7, <2>1
    <2>2. CASE ~(d = e /\ j = i)
        <3>1. rcvCh'[e][i] = rcvCh[e][i] /\ got'[e][i] = got[e][i]
            BY <1>1, <1>7, <2>2 DEF RecvFrame
        <3>2. QED
            BY <1>7, <3>1 DEF RecvFrame, Quiet
    <2>3. QED
        BY <2>1, <2>2
<1>8. ASSUME NEW d \in Ends, NEW j \in Ids, NEW type \in FrameTypes,
             SendFrame(d, j, type), d # Peer(e)
      PROVE  Quiet(e, i)
    <2>1. d = e
        BY <1>1, <1>8
    <2>2. wire'[e] = wire[e] /\ sent'[Peer(e)][i] = sent[Peer(e)][i]
        BY <1>1, <1>8, <2>1 DEF SendFrame
    <2>3. QED
        BY <1>8, <2>2 DEF SendFrame, Quiet
<1>9. QED
    BY <1>2, <1>3, <1>4, <1>5, <1>6, <1>7, <1>8 DEF Next

(* The steps of the read loop, one by one. *)
LEMMA ServeCases ==
    ASSUME TypeOK, NEW e \in Ends, Serve(e)
    PROVE  \/ Decode(e)
           \/ DecodeFails(e)
           \/ /\ loop[e].at \in {"dispatch", "offer", "deliver"}
              /\ loop[e].frame \in Frames /\ loop[e].frame.id \in Ids
              /\ UNCHANGED <<wire, conn, sent, got>>
              /\ Dispatch(e) \/ Offer(e) \/ Deliver(e)
              /\ \/ loop'[e] = Idle
                 \/ /\ loop'[e] \in [at : {"offer", "deliver"}, frame : {loop[e].frame}]
                    /\ rcvCh' = rcvCh
<1> USE DEF loopVars, userVars, downVars
<1>1. CASE Decode(e) \/ DecodeFails(e)
    BY <1>1
<1>2. CASE Dispatch(e) \/ Offer(e)
    <2>1. /\ loop[e].at \in {"dispatch", "offer"} /\ UNCHANGED <<wire, conn, sent, got, rcvCh>>
          /\ \/ loop' = [loop EXCEPT ![e] = Idle]
             \/ \E a \in {"offer", "deliver"} : loop' = [loop EXCEPT ![e].at = a]
        BY <1>2 DEF Dispatch, Offer
    <2>2. \/ loop' = [loop EXCEPT ![e] = Idle]
          \/ \E a \in {"offer", "deliver"} :
                 loop' = [loop EXCEPT ![e] = [at |-> a, frame |-> loop[e].frame]]
        BY <2>1, LoopFacts
    <2>3. loop \in [Ends -> LoopStates]
        BY DEF TypeOK
    <2>4. \/ loop'[e] = Idle
          \/ loop'[e] \in [at : {"offer", "deliver"}, frame : {loop[e].frame}]
        BY <2>2, <2>3
    <2>5. QED
        BY <1>2, <2>1, <2>4, LoopFacts DEF Frames
<1>3. CASE Deliver(e)
    BY <1>3, LoopFacts DEF Deliver, Frames, TypeOK
<1>4. QED
    BY <1>1, <1>2, <1>3 DEF Serve

-----------------------------------------------------------------------------
(* One stream at its receiving end: the order of its frames.               *)

(* The types that the lemmas below compute with. *)
FlowTypes(e, i) ==
    /\ wire[e] \in Seq(Frames) /\ rcvCh[e][i] \in Seq(Frames)
    /\ got[e][i] \in Nat /\ sent[Peer(e)][i] \in Nat
    /\ InHand(e, i) => loop[e].frame \in Frames

LEMMA FlowTyped ==
    ASSUME TypeOK, NEW e \in Ends, NEW i \in Ids
    PROVE  FlowTypes(e, i)
<1>1. Peer(e) \in Ends
    BY EndFacts
<1>2. InHand(e, i) => loop[e].frame \in Frames
    BY LoopFacts DEF InHand
<1>3. /\ wire[e] \in Seq(Frames) /\ rcvCh[e][i] \in Seq(Frames)
      /\ got[e][i] \in Nat /\ sent[Peer(e)][i] \in Nat
    BY <1>1 DEF TypeOK
<1>4. QED
    BY <1>2, <1>3 DEF FlowTypes

LEMMA StoredNat ==
    ASSUME TypeOK, NEW e \in Ends, NEW i \in Ids
    PROVE  Stored(e, i) \in Nat /\ Taken(e, i) \in Nat
<1>1. got[e][i] \in Nat /\ Len(rcvCh[e][i]) \in Nat
    BY DEF TypeOK
<1>2. Stored(e, i) \in Nat
    BY <1>1 DEF Stored
<1>3. QED
    BY <1>2 DEF Taken

LEMMA QuietFlow ==
    ASSUME NEW e \in Ends, NEW i \in Ids, Flow(e, i), Quiet(e, i),
           stage'[e][i] # "closed" => stage[e][i] # "closed"
    PROVE  Flow(e, i)'
<1>1. /\ InHand(e, i)' <=> InHand(e, i)
      /\ Stored(e, i)' = Stored(e, i)
      /\ \A k : On(e, i, k)' <=> On(e, i, k)
    BY DEF Quiet, InHand, Stored, On
<1>2. Taken(e, i)' = Taken(e, i)
    BY <1>1 DEF Taken
<1>3. Continues(e, i)' /\ Received(e, i)'
    BY <1>1 DEF Flow, Continues, Received, Quiet
<1>4. NextInHand(e, i)'
    BY <1>1 DEF Flow, NextInHand, Quiet
<1>5. Chain(e, i) => Chain(e, i)'
    BY <1>1, <1>2 DEF Chain, Quiet
<1>6. QED
    BY <1>3, <1>4, <1>5 DEF Flow

LEMMA DisconnectFlow ==
    ASSUME TypeOK, NEW e \in Ends, NEW i \in Ids, Flow(e, i), Disconnect(e)
    PROVE  Flow(e, i)'
<1> USE DEF userVars
<1>1. /\ wire'[e] = <<>> /\ e \notin conn'
      /\ UNCHANGED <<rcvCh, got, loop, stage, sent>>
    BY DEF Disconnect, TypeOK
<1>2. (InHand(e, i)' <=> InHand(e, i)) /\ Stored(e, i)' = Stored(e, i)
    BY <1>1 DEF InHand, Stored
<1>3. Continues(e, i)' /\ NextInHand(e, i)'
    BY <1>1, <1>2 DEF Flow, Continues, NextInHand
<1>4. Received(e, i)' /\ Chain(e, i)'
    BY <1>1, <1>2 DEF Flow, Received, Chain
<1>5. QED
    BY <1>3, <1>4 DEF Flow

LEMMA DecodeFlow ==
    ASSUME TypeOK, NEW e \in Ends, NEW i \in Ids, Flow(e, i), Decode(e)
    PROVE  Flow(e, i)'
<1> USE DEF userVars, downVars
<1> DEFINE f == Head(wire[e])
<1>1. /\ loop[e] = Idle /\ e \in conn /\ wire[e] # <<>>
      /\ loop'[e] = [at |-> "dispatch", frame |-> f]
      /\ wire'[e] = Tail(wire[e])
      /\ UNCHANGED <<rcvCh, got, stage, sent, conn>>
    BY DEF Decode, TypeOK
<1>2. ~InHand(e, i) /\ (InHand(e, i)' <=> f.id = i)
    BY <1>1 DEF InHand, Idle
<1>3. Stored(e, i)' = Stored(e, i) /\ Taken(e, i) = Stored(e, i) + 0
    BY <1>1, <1>2 DEF Stored, Taken
<1>4. FlowTypes(e, i) /\ Stored(e, i) \in Nat
    BY FlowTyped, StoredNat
<1>5. /\ Len(wire[e]) >= 1 /\ f = wire[e][1] /\ f \in Frames
      /\ Len(wire'[e]) = Len(wire[e]) - 1 /\ Len(wire[e]) \in Nat
      /\ \A k \in 1..Len(wire'[e]) : wire'[e][k] = wire[e][k + 1]
    BY <1>1, <1>4, TailNth DEF FlowTypes
<1>6. \A k \in 1..Len(wire'[e]) :
          /\ k + 1 \in 1..Len(wire[e]) /\ 1 < k + 1
          /\ On(e, i, k)' <=> On(e, i, k + 1)
          /\ wire'[e][k].n = wire[e][k + 1].n
    BY <1>5 DEF On
<1>7. On(e, i, 1) <=> f.id = i
    BY <1>5 DEF On
<1>8. Received(e, i)'
    <2>1. f.id = i => f.n <= sent[Peer(e)][i]
        BY <1>5, <1>7 DEF Flow, Received
    <2>2. QED
        BY <1>1, <1>2, <1>3, <1>6, <2>1 DEF Flow, Received
<1>9. ASSUME Chain(e, i), f.id = i
      PROVE  f.n = Stored(e, i) + 1
    <2>1. 1 \in 1..Len(wire[e]) /\ On(e, i, 1)
        BY <1>5, <1>7, <1>9
    <2>2. f.n > Stored(e, i) + 0 /\ f.n <= sent[Peer(e)][i]
        BY <1>3, <1>5, <1>9, <2>1 DEF Chain, Flow, Received
    <2>3. f.n \in Nat /\ sent[Peer(e)][i] \in Nat
        BY <1>4, <1>5 DEF Frames, FlowTypes
    <2>4. Stored(e, i) + 1 \in (Taken(e, i) + 1)..sent[Peer(e)][i]
        BY <1>3, <1>4, <2>2, <2>3
    <2>5. PICK k \in 1..Len(wire[e]) : On(e, i, k) /\ wire[e][k].n = Stored(e, i) + 1
        BY <1>1, <1>9, <2>4 DEF Chain
    <2>6. k # 1 => 1 < k
        BY <1>5
    <2>7. k # 1 => f.n < Stored(e, i) + 1
        BY <1>5, <1>9, <2>1, <2>5, <2>6 DEF Chain
    <2>8. QED
        BY <1>4, <1>5, <2>2, <2>3, <2>5, <2>7
<1>10. NextInHand(e, i)'
    BY <1>1, <1>2, <1>3, <1>9 DEF NextInHand, Flow
<1>11. ASSUME Chain(e, i)
       PROVE  Chain(e, i)'
    <2>1. Taken(e, i)' = Stored(e, i) + (IF f.id = i THEN 1 ELSE 0)
        BY <1>2, <1>3 DEF Taken
    <2>2. f.id = i => Taken(e, i)' = f.n
        BY <1>9, <1>11, <2>1
    <2>3. f.id # i => Taken(e, i)' = Taken(e, i)
        BY <1>3, <2>1
    <2>4. \A k \in 1..Len(wire'[e]) : On(e, i, k)' => wire'[e][k].n > Taken(e, i)'
        <3>1. CASE f.id = i
            <4>1. \A k \in 1..Len(wire[e]) : On(e, i, k) /\ 1 < k => wire[e][1].n < wire[e][k].n
                BY <1>5, <1>7, <1>11, <3>1 DEF Chain
            <4>2. \A k \in 1..Len(wire'[e]) : On(e, i, k)' => f.n < wire'[e][k].n
                BY <1>5, <1>6, <4>1
            <4>3. \A k \in 1..Len(wire'[e]) : wire'[e][k].n \in Nat
                <5>1. \A k \in 1..Len(wire[e]) : wire[e][k] \in Frames
                    BY <1>4 DEF FlowTypes
                <5>2. QED
                    BY <1>6, <5>1 DEF Frames
            <4>4. QED
                BY <1>5, <2>2, <3>1, <4>2, <4>3 DEF Frames
        <3>2. CASE f.id # i
            BY <1>6, <1>11, <2>3, <3>2 DEF Chain
        <3>3. QED
            BY <3>1, <3>2
    <2>5. \A k, l \in 1..Len(wire'[e]) :
              On(e, i, k)' /\ On(e, i, l)' /\ k < l => wire'[e][k].n < wire'[e][l].n
        <3>1. \A k, l \in 1..Len(wire'[e]) : k < l => k + 1 < l + 1
            OBVIOUS
        <3>2. QED
            BY <1>6, <1>11, <3>1 DEF Chain
    <2>6. ASSUME NEW m \in (Taken(e, i)' + 1)..sent'[Peer(e)][i]
          PROVE  \E k \in 1..Len(wire'[e]) : On(e, i, k)' /\ wire'[e][k].n = m
        <3>1. m \in (Taken(e, i) + 1)..sent[Peer(e)][i]
            BY <1>1, <1>3, <1>4, <2>1, <2>6 DEF FlowTypes
        <3>2. PICK k \in 1..Len(wire[e]) : On(e, i, k) /\ wire[e][k].n = m
            BY <1>1, <1>11, <3>1 DEF Chain
        <3>3. k # 1
            <4>1. f.id = i => f.n # m
                BY <1>4, <1>5, <2>1, <2>2, <2>6 DEF Frames, FlowTypes
            <4>2. QED
                BY <1>5, <1>7, <3>2, <4>1
        <3>4. k - 1 \in 1..Len(wire'[e]) /\ (k - 1) + 1 = k
            BY <1>5, <3>3
        <3>5. On(e, i, k - 1)' /\ wire'[e][k - 1].n = m
            BY <1>6, <3>2, <3>4
        <3>6. QED
            BY <3>4, <3>5
    <2>7. QED
        BY <2>4, <2>5, <2>6 DEF Chain
<1>12. Continues(e, i)'
    BY <1>1 DEF Flow, Continues
<1>13. QED
    BY <1>1, <1>8, <1>10, <1>11, <1>12 DEF Flow

(* What reaches the buffer or the user no longer is on the connection. *)
LEMMA SameChain ==
    ASSUME NEW e \in Ends, NEW i \in Ids, Chain(e, i),
           Taken(e, i)' = Taken(e, i), wire'[e] = wire[e],
           sent'[Peer(e)][i] = sent[Peer(e)][i], e \in conn' <=> e \in conn
    PROVE  Chain(e, i)'
<1>1. \A k : On(e, i, k)' <=> On(e, i, k)
    BY DEF On
<1>2. QED
    BY <1>1 DEF Chain

(* A frame of another stream in hand is of no concern to this one. *)
LEMMA OtherFlow ==
    ASSUME NEW e \in Ends, NEW i \in Ids, Flow(e, i),
           ~InHand(e, i), ~InHand(e, i)',
           rcvCh'[e][i] = rcvCh[e][i], got'[e][i] = got[e][i], wire'[e] = wire[e],
           sent'[Peer(e)][i] = sent[Peer(e)][i], e \in conn' <=> e \in conn,
           stage'[e][i] # "closed" => stage[e][i] # "closed"
    PROVE  Flow(e, i)'
<1>1. Stored(e, i)' = Stored(e, i) /\ \A k : On(e, i, k)' <=> On(e, i, k)
    BY DEF Stored, On
<1>2. Taken(e, i)' = Taken(e, i)
    BY <1>1 DEF Taken
<1>3. Continues(e, i)' /\ NextInHand(e, i)' /\ Received(e, i)'
    BY <1>1 DEF Flow, Continues, NextInHand, Received
<1>4. QED
    BY <1>2, <1>3, SameChain DEF Flow

LEMMA DecodeFailsFlow ==
    ASSUME TypeOK, NEW e \in Ends, NEW i \in Ids, Flow(e, i), DecodeFails(e)
    PROVE  Flow(e, i)'
<1>1. /\ loop[e] = Idle /\ loop'[e] = Stopped
      /\ UNCHANGED <<rcvCh, got, stage, sent, wire, conn>>
    BY DEF DecodeFails, TypeOK, userVars
<1>2. ~InHand(e, i) /\ ~InHand(e, i)'
    BY <1>1 DEF InHand, Idle, Stopped
<1>3. QED
    BY <1>1, <1>2, OtherFlow

(* A frame that dispatch drops belongs to a stream that has been closed: it *)
(* cannot be one that is not known yet, since that begins with META.        *)
LEMMA DroppedIsClosed ==
    ASSUME TypeOK, TableInv, FreshInv, KnownInv, MetaInv, FlowInv,
           NEW e \in Ends, Dispatch(e), loop[e].frame.id \notin registered[e],
           ~Opening(loop[e].frame)
    PROVE  stage[e][loop[e].frame.id] = "closed"
<1> DEFINE f == loop[e].frame
           p == Peer(e)
<1>1. loop[e].at = "dispatch" /\ f \in Frames /\ f.id \in Ids
    BY LoopFacts DEF Dispatch, Frames
<1>2. InHand(e, f.id) /\ Flow(e, f.id)
    BY <1>1 DEF InHand, FlowInv
<1>3. p \in Ends /\ Peer(p) = e
    BY EndFacts
<1>4. stage[e][f.id] \in {"none", "open", "closed"} /\ stage[e][f.id] # "open"
    BY <1>1 DEF TypeOK, TableInv
<1>5. ASSUME stage[e][f.id] = "none"
      PROVE  FALSE
    <2>1. Fresh(e, f.id)
        BY <1>1, <1>5 DEF FreshInv
    <2>2. Stored(e, f.id) = 0
        BY <2>1 DEF Fresh, Stored
    <2>3. f.n = 1
        BY <1>2, <1>5, <2>2 DEF Flow, NextInHand
    <2>4. f.id \notin Own(p)
        BY <1>1, <2>3 DEF MetaInv, Marks, Opening
    <2>5. f.id \in Own(e)
        BY <1>1, <2>4, IdFacts
    <2>6. sent[e][f.id] = 0
        BY <2>1 DEF Fresh
    <2>7. stage[p][f.id] = "none"
        BY <1>1, <1>3, <2>5, <2>6 DEF KnownInv
    <2>8. sent[p][f.id] = 0
        BY <1>1, <1>3, <2>7 DEF FreshInv, Fresh
    <2>9. f.n <= sent[p][f.id]
        BY <1>2 DEF Flow, Received
    <2>10. QED
        BY <2>3, <2>8, <2>9
<1>6. QED
    BY <1>4, <1>5

LEMMA DispatchFlow ==
    ASSUME TypeOK, TableInv, FreshInv, KnownInv, MetaInv, FlowInv, [Next]_vars,
           NEW e \in Ends, NEW i \in Ids, Dispatch(e)
    PROVE  Flow(e, i)'
<1> DEFINE f == loop[e].frame
<1>1. /\ loop[e].at = "dispatch" /\ f \in Frames /\ f.id \in Ids
      /\ UNCHANGED <<rcvCh, got, wire, sent, conn>>
    BY LoopFacts DEF Dispatch, Frames, userVars, downVars
<1>2. /\ Flow(e, i) /\ (InHand(e, i) <=> f.id = i)
      /\ stage'[e][i] # "closed" => stage[e][i] # "closed"
    BY <1>1, StageMonotone DEF FlowInv, InHand
<1>3. Stored(e, i)' = Stored(e, i)
    BY <1>1 DEF Stored
<1>4. \/ f.id \in registered[e] /\ loop' = [loop EXCEPT ![e].at = "deliver"]
      \/ Opening(f) /\ loop' = [loop EXCEPT ![e].at = "offer"]
      \/ f.id \notin registered[e] /\ ~Opening(f) /\ UNCHANGED stage
         /\ loop' = [loop EXCEPT ![e] = Idle]
    BY DEF Dispatch
<1>5. CASE /\ f.id \in registered[e] \/ Opening(f)
           /\ \E a \in {"offer", "deliver"} : loop' = [loop EXCEPT ![e].at = a]
    <2>1. PICK a \in {"offer", "deliver"} :
              loop' = [loop EXCEPT ![e] = [at |-> a, frame |-> f]]
        BY <1>1, <1>5, LoopFacts
    <2>2. loop'[e] = [at |-> a, frame |-> f]
        BY <2>1 DEF TypeOK
    <2>3. InHand(e, i)' <=> f.id = i
        BY <2>2 DEF InHand
    <2>4. CASE f.id = i
        <3>1. stage[e][i] # "closed"
            BY <1>1, <1>5, <2>4 DEF TableInv, MetaInv, Marks, Opening
        <3>2. NextInHand(e, i)'
            BY <1>2, <1>3, <2>2, <2>4, <3>1 DEF Flow, NextInHand
        <3>3. Continues(e, i)' /\ Received(e, i)'
            BY <1>1, <1>2, <1>3, <2>2, <2>3, <2>4
            DEF Flow, Continues, Received, On
        <3>4. Taken(e, i)' = Taken(e, i)
            BY <1>2, <1>3, <2>3, <2>4 DEF Taken
        <3>5. QED
            BY <1>1, <1>2, <3>1, <3>2, <3>3, <3>4, SameChain DEF Flow
    <2>5. CASE f.id # i
        BY <1>1, <1>2, <2>3, <2>5, OtherFlow
    <2>6. QED
        BY <2>4, <2>5
<1>6. CASE /\ f.id \notin registered[e] /\ ~Opening(f) /\ UNCHANGED stage
           /\ loop' = [loop EXCEPT ![e] = Idle]
    <2>1. loop'[e] = Idle /\ ~InHand(e, i)'
        BY <1>6 DEF TypeOK, InHand, Idle
    <2>2. CASE f.id = i
        <3>1. stage'[e][i] = "closed"
            BY <1>6, <2>2, DroppedIsClosed
        <3>2. Continues(e, i)' /\ NextInHand(e, i)' /\ Received(e, i)'
            BY <1>1, <1>2, <1>3, <2>1
            DEF Flow, Continues, NextInHand, Received, On
        <3>3. QED
            BY <3>1, <3>2 DEF Flow
    <2>3. CASE f.id # i
        BY <1>1, <1>2, <2>1, <2>3, OtherFlow
    <2>4. QED
        BY <2>2, <2>3
<1>7. QED
    BY <1>4, <1>5, <1>6

LEMMA OfferFlow ==
    ASSUME TypeOK, TableInv, FreshInv, KnownInv, MetaInv, FlowInv, [Next]_vars,
           NEW e \in Ends, NEW i \in Ids, Offer(e)
    PROVE  Flow(e, i)'
<1> DEFINE f == loop[e].frame
<1>1. /\ loop[e].at = "offer" /\ f \in Frames /\ f.id \in Ids
      /\ UNCHANGED <<rcvCh, got, wire, sent, conn>>
    BY LoopFacts DEF Offer, Frames, userVars, downVars
<1>2. /\ Flow(e, i) /\ (InHand(e, i) <=> f.id = i)
      /\ stage'[e][i] # "closed" => stage[e][i] # "closed"
    BY <1>1, StageMonotone DEF FlowInv, InHand
<1>3. Stored(e, i)' = Stored(e, i)
    BY <1>1 DEF Stored
<1>4. CASE loop' = [loop EXCEPT ![e].at = "deliver"]
    <2>1. loop' = [loop EXCEPT ![e] = [at |-> "deliver", frame |-> f]]
        BY <1>1, <1>4, LoopFacts
    <2>2. loop'[e] = [at |-> "deliver", frame |-> f]
        BY <2>1 DEF TypeOK
    <2>3. InHand(e, i)' <=> f.id = i
        BY <2>2 DEF InHand
    <2>4. NextInHand(e, i)'
        BY <1>1, <1>2, <1>3, <2>2, <2>3 DEF Flow, NextInHand
    <2>5. Continues(e, i)' /\ Received(e, i)'
        BY <1>1, <1>2, <1>3, <2>2, <2>3 DEF Flow, Continues, Received, On
    <2>6. Taken(e, i)' = Taken(e, i)
        BY <1>2, <1>3, <2>3 DEF Taken
    <2>7. QED
        BY <1>1, <1>2, <2>4, <2>5, <2>6, SameChain DEF Flow
<1>5. CASE CloseStream(e, f.id) /\ loop' = [loop EXCEPT ![e] = Idle]
    <2>1. loop'[e] = Idle /\ ~InHand(e, i)'
        BY <1>5 DEF TypeOK, InHand, Idle
    <2>2. CASE f.id = i
        <3>1. stage'[e][i] = "closed"
            BY <1>5, <2>2, CloseFacts
        <3>2. Continues(e, i)' /\ NextInHand(e, i)' /\ Received(e, i)'
            BY <1>1, <1>2, <1>3, <2>1
            DEF Flow, Continues, NextInHand, Received, On
        <3>3. QED
            BY <3>1, <3>2 DEF Flow
    <2>3. CASE f.id # i
        BY <1>1, <1>2, <2>1, <2>3, OtherFlow
    <2>4. QED
        BY <2>2, <2>3
<1>6. QED
    BY <1>4, <1>5 DEF Offer

LEMMA DeliverFlow ==
    ASSUME TypeOK, NEW e \in Ends, NEW i \in Ids, Flow(e, i), Deliver(e)
    PROVE  Flow(e, i)'
<1> DEFINE f == loop[e].frame
<1>1. /\ loop[e].at = "deliver" /\ f \in Frames /\ f.id \in Ids
      /\ UNCHANGED <<got, wire, sent, conn, stage>>
    BY LoopFacts DEF Deliver, Frames, userVars, downVars
<1>2. loop'[e] = Idle /\ ~InHand(e, i)' /\ (InHand(e, i) <=> f.id = i)
    BY <1>1 DEF Deliver, TypeOK, InHand, Idle
<1>3. /\ rcvCh \in [Ends -> [Ids -> Seq(Frames)]]
      /\ \/ stage[e][f.id] = "closed" /\ rcvCh' = rcvCh
         \/ rcvCh' = [rcvCh EXCEPT ![e][f.id] = Append(@, f)]
    BY DEF Deliver, Buffered, TypeOK
<1>4. CASE f.id # i
    <2>1. rcvCh'[e][i] = rcvCh[e][i]
        BY <1>1, <1>3, <1>4
    <2>2. QED
        BY <1>1, <1>2, <1>4, <2>1, OtherFlow
<1>5. CASE f.id = i /\ stage[e][i] = "closed" /\ rcvCh' = rcvCh
    <2>1. Stored(e, i)' = Stored(e, i)
        BY <1>1, <1>5 DEF Stored
    <2>2. Continues(e, i)' /\ NextInHand(e, i)' /\ Received(e, i)'
        BY <1>1, <1>2, <1>5, <2>1
        DEF Flow, Continues, NextInHand, Received, On
    <2>3. QED
        BY <1>1, <1>5, <2>2 DEF Flow
<1>6. CASE f.id = i /\ rcvCh' = [rcvCh EXCEPT ![e][f.id] = Append(@, f)]
    <2>1. rcvCh'[e][i] = Append(rcvCh[e][i], f) /\ rcvCh[e][i] \in Seq(Frames)
        BY <1>1, <1>3, <1>6
    <2>2. /\ Len(rcvCh'[e][i]) = Len(rcvCh[e][i]) + 1 /\ Len(rcvCh[e][i]) \in Nat
          /\ \A k \in 1..Len(rcvCh[e][i]) : rcvCh'[e][i][k] = rcvCh[e][i][k]
          /\ rcvCh'[e][i][Len(rcvCh[e][i]) + 1] = f
        BY <1>1, <2>1, AppendNth
    <2>3. got[e][i] \in Nat /\ got'[e][i] = got[e][i]
        BY <1>1 DEF TypeOK
    <2>4. Stored(e, i)' = Stored(e, i) + 1 /\ Stored(e, i) \in Nat
        <3> DEFINE l == Len(rcvCh[e][i])
                   g == got[e][i]
        <3>1. Stored(e, i)' = g + (l + 1) /\ Stored(e, i) = g + l
            BY <2>2, <2>3 DEF Stored
        <3>2. l \in Nat /\ g \in Nat
            BY <2>2, <2>3
        <3> HIDE DEF l, g
        <3>3. QED
            BY <3>1, <3>2
    <2>5. f.n = Stored(e, i) + 1
        BY <1>1, <1>2, <1>6 DEF Flow, NextInHand
    <2>6. Continues(e, i)'
        <3>1. \A k \in 1..Len(rcvCh'[e][i]) :
                  k \in 1..Len(rcvCh[e][i]) \/ k = Len(rcvCh[e][i]) + 1
            BY <2>2
        <3>2. f.n = got[e][i] + (Len(rcvCh[e][i]) + 1)
            BY <2>2, <2>3, <2>5 DEF Stored
        <3>3. QED
            BY <2>2, <2>3, <3>1, <3>2 DEF Flow, Continues
    <2>7. NextInHand(e, i)'
        BY <1>2 DEF NextInHand
    <2>8. Received(e, i)'
        BY <1>1, <1>2, <1>6, <2>4, <2>5 DEF Flow, Received, On
    <2>9. Taken(e, i)' = Taken(e, i)
        BY <1>2, <1>6, <2>4 DEF Taken
    <2>10. QED
        BY <1>1, <2>6, <2>7, <2>8, <2>9, SameChain DEF Flow
<1>7. QED
    BY <1>3, <1>4, <1>5, <1>6

LEMMA RecvFacts ==
    ASSUME TypeOK, NEW e \in Ends, NEW i \in Ids, Flow(e, i), RecvFrame(e, i)
    PROVE  /\ got'[e][i] = got[e][i] + 1
           /\ rcvCh'[e][i] = Tail(rcvCh[e][i])
           /\ rcvCh[e][i] # <<>>
           /\ UNCHANGED <<loop, wire, sent, conn>>
<1>1. /\ rcvCh[e][i] # <<>> /\ rcvCh[e][i] \in Seq(Frames)
      /\ rcvCh' = [rcvCh EXCEPT ![e][i] = Tail(@)]
      /\ got' = [got EXCEPT ![e][i] = Head(rcvCh[e][i]).n]
      /\ UNCHANGED <<loop, wire, sent, conn>>
    BY DEF RecvFrame, loopVars, downVars, TypeOK
<1>2. 1 \in 1..Len(rcvCh[e][i]) /\ Head(rcvCh[e][i]) = rcvCh[e][i][1]
    BY <1>1, TailNth
<1>3. Head(rcvCh[e][i]).n = got[e][i] + 1
    BY <1>2 DEF Flow, Continues
<1>4. rcvCh \in [Ends -> [Ids -> Seq(Frames)]] /\ got \in [Ends -> [Ids -> Nat]]
    BY DEF TypeOK
<1>5. QED
    BY <1>1, <1>3, <1>4

LEMMA RecvFlow ==
    ASSUME TypeOK, NEW e \in Ends, NEW i \in Ids, Flow(e, i), RecvFrame(e, i),
           stage'[e][i] # "closed" => stage[e][i] # "closed"
    PROVE  Flow(e, i)'
<1> DEFINE l == Len(rcvCh[e][i])
           g == got[e][i]
<1>1. /\ got'[e][i] = g + 1 /\ rcvCh'[e][i] = Tail(rcvCh[e][i]) /\ rcvCh[e][i] # <<>>
      /\ UNCHANGED <<loop, wire, sent, conn>>
    BY RecvFacts
<1>2. rcvCh[e][i] \in Seq(Frames) /\ g \in Nat /\ l \in Nat
    BY DEF TypeOK
<1>3. /\ l >= 1 /\ Len(rcvCh'[e][i]) = l - 1
      /\ \A k \in 1..Len(rcvCh'[e][i]) : rcvCh'[e][i][k] = rcvCh[e][i][k + 1]
    BY <1>1, <1>2, TailNth
<1>4. Stored(e, i)' = Stored(e, i)
    <2>1. Stored(e, i)' = (g + 1) + (l - 1) /\ Stored(e, i) = g + l
        BY <1>1, <1>3 DEF Stored
    <2> HIDE DEF l, g
    <2>2. QED
        BY <1>2, <2>1
<1>5. Continues(e, i)'
    <2>1. \A k \in 1..Len(rcvCh'[e][i]) : k + 1 \in 1..l
        BY <1>2, <1>3
    <2>2. ASSUME NEW k \in 1..Len(rcvCh'[e][i])
          PROVE  rcvCh'[e][i][k].n = g + (k + 1)
        BY <1>3, <2>1 DEF Flow, Continues
    <2> HIDE DEF g, l
    <2>3. \A k \in 1..Len(rcvCh'[e][i]) : k \in Int /\ g + (k + 1) = (g + 1) + k
        BY <1>2
    <2>4. \A k \in 1..Len(rcvCh'[e][i]) : rcvCh'[e][i][k].n = got'[e][i] + k
        BY <1>1, <2>2, <2>3
    <2>5. QED
        BY <2>4 DEF Continues
<1>6. (InHand(e, i)' <=> InHand(e, i)) /\ \A k : On(e, i, k)' <=> On(e, i, k)
    BY <1>1 DEF InHand, On
<1>7. NextInHand(e, i)' /\ Received(e, i)'
    BY <1>1, <1>4, <1>6 DEF Flow, NextInHand, Received
<1>8. Taken(e, i)' = Taken(e, i)
    BY <1>4, <1>6 DEF Taken
<1>9. QED
    BY <1>1, <1>5, <1>7, <1>8, SameChain DEF Flow

(* What a frame that is written does to the connection to its reader. *)
LEMMA SendFacts ==
    ASSUME TypeOK, NEW e \in Ends, NEW j \in Ids, NEW type \in FrameTypes,
           SendFrame(Peer(e), j, type), NEW i \in Ids
    PROVE  LET f == [id |-> j, type |-> type, n |-> sent[Peer(e)][j] + 1]
           IN /\ f \in Frames
              /\ wire'[e] = IF e \in conn THEN Append(wire[e], f) ELSE wire[e]
              /\ sent'[Peer(e)][i] = sent[Peer(e)][i] + (IF i = j THEN 1 ELSE 0)
              /\ UNCHANGED <<rcvCh, got, loop, stage, conn>>
<1> DEFINE f == [id |-> j, type |-> type, n |-> sent[Peer(e)][j] + 1]
<1>1. Peer(e) \in Ends /\ Peer(Peer(e)) = e
    BY EndFacts
<1>2. sent \in [Ends -> [Ids -> Nat]] /\ wire \in [Ends -> Seq(Frames)]
    BY DEF TypeOK
<1>3. f \in Frames
    BY <1>1, <1>2 DEF Frames
<1>4. /\ wire' = [wire EXCEPT ![e] = IF e \in conn THEN Append(@, f) ELSE @]
      /\ sent' = [sent EXCEPT ![Peer(e)][j] = @ + 1]
      /\ UNCHANGED <<rcvCh, got, loop, stage, conn>>
    BY <1>1 DEF SendFrame, downVars
<1>5. wire'[e] = IF e \in conn THEN Append(wire[e], f) ELSE wire[e]
    BY <1>2, <1>4
<1>6. sent'[Peer(e)][i] = sent[Peer(e)][i] + (IF i = j THEN 1 ELSE 0)
    BY <1>1, <1>2, <1>4
<1>7. QED
    BY <1>3, <1>4, <1>5, <1>6

LEMMA SendFlow ==
    ASSUME TypeOK, LinkInv, NEW e \in Ends, NEW i \in Ids, Flow(e, i),
           NEW j \in Ids, NEW type \in FrameTypes, SendFrame(Peer(e), j, type)
    PROVE  Flow(e, i)'
<1> DEFINE f == [id |-> j, type |-> type, n |-> sent[Peer(e)][j] + 1]
           s == sent[Peer(e)][i]
           w == wire[e]
<1>1. /\ f \in Frames
      /\ wire'[e] = IF e \in conn THEN Append(w, f) ELSE w
      /\ sent'[Peer(e)][i] = s + (IF i = j THEN 1 ELSE 0)
      /\ UNCHANGED <<rcvCh, got, loop, stage, conn>>
    BY SendFacts
<1>2. w \in Seq(Frames) /\ s \in Nat /\ sent'[Peer(e)][i] \in Nat /\ s <= sent'[Peer(e)][i]
    BY <1>1, FlowTyped DEF FlowTypes
<1>3. /\ (InHand(e, i)' <=> InHand(e, i)) /\ Stored(e, i)' = Stored(e, i)
      /\ Taken(e, i)' = Taken(e, i)
    BY <1>1 DEF InHand, Stored, Taken
<1>4. Stored(e, i) \in Nat /\ Taken(e, i) \in Nat
    BY StoredNat
<1>5. Continues(e, i)' /\ NextInHand(e, i)'
    BY <1>1, <1>3 DEF Flow, Continues, NextInHand
<1>6. f.id = j /\ f.n = sent[Peer(e)][j] + 1
    OBVIOUS
<1>7. InHand(e, i)' => loop'[e].frame.n <= sent'[Peer(e)][i]
    <2>1. InHand(e, i) => loop[e].frame.n \in Nat
        BY LoopFacts DEF InHand, Frames
    <2>2. InHand(e, i) => loop[e].frame.n <= s
        BY DEF Flow, Received
    <2>3. QED
        BY <1>1, <1>2, <1>3, <2>1, <2>2
<1>8. Stored(e, i)' <= sent'[Peer(e)][i] /\ \A k \in 1..Len(w) : On(e, i, k) => w[k].n <= s
    BY <1>2, <1>3, <1>4 DEF Flow, Received
<1> HIDE DEF f
<1>9. CASE e \notin conn
    <2>1. wire'[e] = <<>> /\ w = <<>>
        BY <1>1, <1>9 DEF LinkInv
    <2>2. Received(e, i)'
        BY <1>7, <1>8, <2>1 DEF Received
    <2>3. Chain(e, i)'
        BY <1>1, <1>9, <2>1 DEF Chain
    <2>4. QED
        BY <1>5, <2>2, <2>3 DEF Flow
<1>10. CASE e \in conn
    <2>1. /\ Len(wire'[e]) = Len(w) + 1 /\ Len(w) \in Nat
          /\ \A k \in 1..Len(w) : wire'[e][k] = w[k]
          /\ wire'[e][Len(w) + 1] = f
        BY <1>1, <1>2, <1>10, AppendNth
    <2>2. \A k \in 1..Len(wire'[e]) : k \in 1..Len(w) \/ k = Len(w) + 1
        BY <2>1
    <2>3. \A k \in 1..Len(w) : /\ k \in 1..Len(wire'[e]) /\ k < Len(w) + 1
                              /\ On(e, i, k)' <=> On(e, i, k)
        BY <2>1 DEF On
    <2>4. \A k \in 1..Len(w) : w[k].n \in Nat
        <3>1. \A k \in 1..Len(w) : w[k] \in Frames
            BY <1>2
        <3>2. QED
            BY <3>1 DEF Frames
    <2>5. w \in Seq(Frames) /\ s \in Nat /\ sent'[Peer(e)][i] \in Nat /\ s <= sent'[Peer(e)][i]
        BY <1>2
    <2>6. Received(e, i)'
        <3>1. ASSUME NEW k \in 1..Len(wire'[e]), On(e, i, k)'
              PROVE  wire'[e][k].n <= sent'[Peer(e)][i]
            <4>1. CASE k \in 1..Len(w)
                <5>1. wire'[e][k] = w[k] /\ w[k].n <= s /\ w[k].n \in Nat
                    BY <1>8, <2>1, <2>3, <2>4, <3>1, <4>1
                <5>2. QED
                    BY <2>5, <5>1
            <4>2. CASE k = Len(w) + 1
                <5>1. i = j /\ wire'[e][k].n = s + 1
                    BY <1>6, <2>1, <3>1, <4>2 DEF On
                <5>2. QED
                    BY <1>1, <2>5, <5>1
            <4>3. QED
                BY <2>2, <4>1, <4>2
        <3>2. QED
            BY <1>7, <1>8, <3>1 DEF Received
    <2>7. ASSUME stage[e][i] # "closed"
          PROVE  Chain(e, i)'
        <3>1. Chain(e, i)
            BY <2>7 DEF Flow
        <3>2. Taken(e, i) <= s
            BY <1>2, <1>4, <2>7 DEF Flow, Received, NextInHand, Taken
        <3>3. ASSUME NEW k \in 1..Len(wire'[e]), On(e, i, k)'
              PROVE  wire'[e][k].n > Taken(e, i)'
            <4>1. CASE k \in 1..Len(w)
                BY <1>3, <2>1, <2>3, <3>1, <3>3, <4>1 DEF Chain
            <4>2. CASE k = Len(w) + 1
                <5>1. i = j /\ wire'[e][k].n = s + 1
                    BY <1>6, <2>1, <3>3, <4>2 DEF On
                <5>2. QED
                    BY <1>3, <1>4, <2>5, <3>2, <5>1
            <4>3. QED
                BY <2>2, <4>1, <4>2
        <3>4. ASSUME NEW k \in 1..Len(wire'[e]), NEW l \in 1..Len(wire'[e]),
                     On(e, i, k)', On(e, i, l)', k < l
              PROVE  wire'[e][k].n < wire'[e][l].n
            <4>1. k \in 1..Len(w)
                BY <2>1, <3>4
            <4>2. CASE l \in 1..Len(w)
                BY <2>1, <2>3, <3>1, <3>4, <4>1, <4>2 DEF Chain
            <4>3. CASE l = Len(w) + 1
                <5>1. w[k].n <= s /\ w[k].n \in Nat
                    BY <2>3, <2>4, <3>4, <4>1 DEF Flow, Received
                <5>2. wire'[e][l].n = s + 1 /\ wire'[e][k] = w[k]
                    <6>1. wire'[e][l].n = s + 1
                        BY <1>6, <2>1, <3>4, <4>3 DEF On
                    <6>2. wire'[e][k] = w[k]
                        BY <2>1, <4>1
                    <6>3. QED
                        BY <6>1, <6>2
                <5>3. QED
                    BY <1>2, <5>1, <5>2
            <4>4. QED
                BY <2>2, <4>2, <4>3
        <3>5. ASSUME NEW m \in (Taken(e, i)' + 1)..sent'[Peer(e)][i]
              PROVE  \E k \in 1..Len(wire'[e]) : On(e, i, k)' /\ wire'[e][k].n = m
            <4>1. CASE m \in (Taken(e, i) + 1)..s
                <5>1. PICK k \in 1..Len(w) : On(e, i, k) /\ w[k].n = m
                    BY <1>10, <3>1, <4>1 DEF Chain
                <5>2. k \in 1..Len(wire'[e]) /\ On(e, i, k)' /\ wire'[e][k].n = m
                    BY <2>1, <2>3, <5>1
                <5>3. QED
                    BY <5>2
            <4>2. CASE i = j /\ m = s + 1
                <5>1. Len(w) + 1 \in 1..Len(wire'[e])
                    BY <2>1
                <5>2. f.id = i /\ f.n = m
                    BY <1>6, <4>2
                <5>3. PICK k \in 1..Len(wire'[e]) : wire'[e][k] = f
                    BY <2>1, <5>1
                <5>4. On(e, i, k)' /\ wire'[e][k].n = m
                    BY <5>2, <5>3 DEF On
                <5>5. QED
                    BY <5>4
            <4>3. m \in (Taken(e, i) + 1)..s \/ (i = j /\ m = s + 1)
                <5>1. m \in (Taken(e, i) + 1)..(s + (IF i = j THEN 1 ELSE 0))
                    BY <1>1, <1>3
                <5> HIDE DEF s
                <5>2. QED
                    BY <1>2, <1>4, <5>1
            <4>4. QED
                BY <4>1, <4>2, <4>3
        <3>6. QED
            BY <3>3, <3>4, <3>5 DEF Chain
    <2>8. QED
        BY <1>1, <1>5, <2>6, <2>7 DEF Flow
<1>11. QED
    BY <1>9, <1>10

LEMMA FlowStep ==
    ASSUME TypeOK, TableInv, FreshInv, KnownInv, MetaInv, FlowInv, LinkInv,
           [Next]_vars
    PROVE  FlowInv'
<1> SUFFICES ASSUME NEW e \in Ends, NEW i \in Ids
             PROVE  Flow(e, i)'
    BY DEF FlowInv
<1>1. Flow(e, i) /\ (stage'[e][i] # "closed" => stage[e][i] # "closed")
    BY StageMonotone DEF FlowInv
<1>2. CASE Quiet(e, i) \/ Disconnect(e) \/ RecvFrame(e, i)
    BY <1>1, <1>2, QuietFlow, DisconnectFlow, RecvFlow
<1>3. CASE Serve(e)
    BY <1>1, <1>3, DecodeFlow, DecodeFailsFlow, DispatchFlow, OfferFlow, DeliverFlow
    DEF Serve
<1>4. CASE \E j \in Ids, type \in FrameTypes : SendFrame(Peer(e), j, type)
    BY <1>1, <1>4, SendFlow
<1>5. QED
    BY <1>2, <1>3, <1>4, FlowCases

-----------------------------------------------------------------------------
(* META and the streams it opens.                                          *)

(* No second META of a stream is on the connection when the first opens it. *)
LEMMA AdmitFacts ==
    ASSUME TypeOK, MetaInv, FlowInv, NEW e \in Ends, Admit(e),
           NEW k \in 1..Len(wire[e]), wire[e][k].type = "META"
    PROVE  wire[e][k].id # loop[e].frame.id
<1> DEFINE f == loop[e].frame
<1>1. /\ loop[e].at = "dispatch" /\ f.id \in Ids /\ f.type = "META"
    BY LoopFacts DEF Admit, Dispatch, Opening, Frames
<1>2. stage[e][f.id] = "none" /\ wire[e][k].n = 1
    BY <1>1 DEF MetaInv, Marks
<1>3. SUFFICES ASSUME wire[e][k].id = f.id
               PROVE  FALSE
    OBVIOUS
<1>4. wire[e][k].n > Taken(e, f.id)
    BY <1>1, <1>2, <1>3 DEF FlowInv, Flow, Chain, On
<1>5. Taken(e, f.id) = Stored(e, f.id) + 1
    BY <1>1 DEF Taken, InHand
<1>6. Stored(e, f.id) \in Nat
    BY <1>1, StoredNat
<1>7. QED
    BY <1>2, <1>4, <1>5, <1>6

(* A frame keeps its marks as long as it does not open its stream. *)
LEMMA MarksKept ==
    ASSUME TypeOK, TableInv, FreshInv, KnownInv, MetaInv, FlowInv, [Next]_vars,
           NEW e \in Ends, NEW f \in Frames, Marks(e, f),
           f.type = "META" /\ Admit(e) => f.id # loop[e].frame.id
    PROVE  Marks(e, f)'
<1>1. f.id \in Ids
    BY DEF Frames
<1>2. SUFFICES ASSUME f.type = "META"
               PROVE  stage'[e][f.id] = "none"
    BY DEF Marks
<1>3. stage[e][f.id] = "none" /\ f.id \notin Own(e)
    BY <1>1, <1>2, IdFacts DEF Marks
<1>4. CASE UNCHANGED <<stage, registered>>
    BY <1>3, <1>4
<1>5. ASSUME NEW d \in Ends, NEW i \in Ids, CloseStream(d, i), stage[d][i] # "none"
      PROVE  stage'[e][f.id] = "none"
    BY <1>1, <1>3, <1>5, CloseFacts
<1>6. ASSUME NEW d \in Ends, nextID[d] \in Ids, Open(d), Opens1(d, nextID[d])
      PROVE  stage'[e][f.id] = "none"
    <2>1. ~(d = e /\ nextID[d] = f.id)
        BY <1>3, <1>6 DEF Open
    <2>2. QED
        BY <1>1, <1>3, <1>6, <2>1, OpenFacts
<1>7. ASSUME NEW d \in Ends, loop[d].frame.id \in Ids, Admit(d),
             Opens1(d, loop[d].frame.id)
      PROVE  stage'[e][f.id] = "none"
    BY <1>1, <1>2, <1>3, <1>7, OpenFacts
<1>8. QED
    BY <1>4, <1>5, <1>6, <1>7, StageCases

(* Where a frame that is on the connection or in hand came from. *)
LEMMA FrameOrigin ==
    ASSUME TypeOK, FlowInv, [Next]_vars, NEW e \in Ends, NEW f \in Frames,
           \/ \E k \in 1..Len(wire'[e]) : f = wire'[e][k]
           \/ loop'[e].at = "dispatch" /\ f = loop'[e].frame
    PROVE  \/ \E k \in 1..Len(wire[e]) : f = wire[e][k]
           \/ loop[e].at = "dispatch" /\ f = loop[e].frame /\ loop'[e] = loop[e]
           \/ \E j \in Ids, type \in FrameTypes :
                  /\ SendFrame(Peer(e), j, type)
                  /\ f = [id |-> j, type |-> type, n |-> sent[Peer(e)][j] + 1]
<1>1. f.id \in Ids /\ wire[e] \in Seq(Frames) /\ Flow(e, f.id)
    BY DEF Frames, TypeOK, FlowInv
<1>2. CASE Quiet(e, f.id)
    BY <1>2 DEF Quiet
<1>3. CASE Disconnect(e)
    BY <1>3 DEF Disconnect, TypeOK
<1>4. CASE RecvFrame(e, f.id)
    BY <1>4 DEF RecvFrame, loopVars
<1>5. CASE Decode(e)
    <2>1. /\ wire[e] # <<>> /\ wire'[e] = Tail(wire[e])
          /\ loop'[e].frame = Head(wire[e])
        BY <1>5 DEF Decode, TypeOK
    <2>2. /\ Len(wire[e]) >= 1 /\ Head(wire[e]) = wire[e][1]
          /\ \A k \in 1..Len(wire'[e]) : /\ k + 1 \in 1..Len(wire[e])
                                        /\ wire'[e][k] = wire[e][k + 1]
        BY <1>1, <2>1, TailNth
    <2>3. 1 \in 1..Len(wire[e])
        BY <1>1, <2>2
    <2>4. QED
        BY <2>1, <2>2, <2>3
<1>6. CASE DecodeFails(e)
    BY <1>6 DEF DecodeFails, TypeOK, Stopped
<1>7. CASE /\ UNCHANGED wire
           /\ loop'[e] = Idle \/ loop'[e] \in [at : {"offer", "deliver"}, frame : {loop[e].frame}]
    BY <1>7 DEF Idle
<1>8. ASSUME NEW j \in Ids, NEW type \in FrameTypes, SendFrame(Peer(e), j, type)
      PROVE  \/ \E k \in 1..Len(wire[e]) : f = wire[e][k]
             \/ loop[e].at = "dispatch" /\ f = loop[e].frame /\ loop'[e] = loop[e]
             \/ f = [id |-> j, type |-> type, n |-> sent[Peer(e)][j] + 1]
    <2> DEFINE g == [id |-> j, type |-> type, n |-> sent[Peer(e)][j] + 1]
    <2>1. /\ wire'[e] \in {wire[e], Append(wire[e], g)} /\ g \in Frames
          /\ loop' = loop
        BY <1>8, SendFacts
    <2> HIDE DEF g
    <2>2. ASSUME NEW k \in 1..Len(Append(wire[e], g))
          PROVE  \/ k \in 1..Len(wire[e]) /\ Append(wire[e], g)[k] = wire[e][k]
                 \/ Append(wire[e], g)[k] = g
        BY <1>1, <2>1, AppendNth
    <2>3. QED
        BY <2>1, <2>2 DEF g
<1>9. QED
    BY <1>1, <1>2, <1>3, <1>4, <1>5, <1>6, <1>7, <1>8, FlowCases, ServeCases

LEMMA MetaStep ==
    ASSUME TypeOK, TableInv, FreshInv, KnownInv, MetaInv, FlowInv, [Next]_vars
    PROVE  MetaInv'
<1>1. ASSUME NEW e \in Ends, NEW f \in Frames,
             \/ \E k \in 1..Len(wire'[e]) : f = wire'[e][k]
             \/ loop'[e].at = "dispatch" /\ f = loop'[e].frame
      PROVE  Marks(e, f)'
    <2>1. CASE \E k \in 1..Len(wire[e]) : f = wire[e][k]
        BY <2>1, AdmitFacts, MarksKept DEF MetaInv
    <2>2. CASE loop[e].at = "dispatch" /\ f = loop[e].frame /\ loop'[e] = loop[e]
        <3>1. ~Admit(e)
            <4>1. Admit(e) => loop' = [loop EXCEPT ![e].at = "offer"]
                BY DEF Admit, Dispatch
            <4>2. Admit(e) => loop' = [loop EXCEPT ![e] = [at |-> "offer", frame |-> loop[e].frame]]
                BY <2>2, <4>1, LoopFacts
            <4>3. Admit(e) => loop'[e].at = "offer"
                BY <4>2 DEF TypeOK
            <4>4. QED
                BY <2>2, <4>3
        <3>2. QED
            BY <2>2, <3>1, MarksKept DEF MetaInv
    <2>3. ASSUME NEW j \in Ids, NEW type \in FrameTypes,
                 SendFrame(Peer(e), j, type),
                 f = [id |-> j, type |-> type, n |-> sent[Peer(e)][j] + 1]
          PROVE  Marks(e, f)'
        <3>1. /\ type \in Sendable(Peer(e), j) /\ stage' = stage
              /\ f.id = j /\ f.type = type /\ f.n = sent[Peer(e)][j] + 1
            BY <2>3 DEF SendFrame
        <3>2. sent[Peer(e)][j] \in Nat
            BY EndFacts DEF TypeOK
        <3>3. type = "META" => j \in Own(Peer(e)) /\ sent[Peer(e)][j] = 0
            BY <3>1 DEF Sendable
        <3>4. j \in Own(Peer(e)) /\ sent[Peer(e)][j] = 0 => type = "META" /\ stage[e][j] = "none"
            BY <3>1 DEF Sendable, KnownInv
        <3>5. QED
            BY <3>1, <3>2, <3>3, <3>4 DEF Marks
    <2>4. QED
        BY <1>1, <2>1, <2>2, <2>3, FrameOrigin
<1>2. ASSUME NEW e \in Ends
      PROVE  /\ \A k \in 1..Len(wire'[e]) : wire'[e][k] \in Frames
             /\ loop'[e].at = "dispatch" => loop'[e].frame \in Frames
    <2>1. TypeOK'
        BY TypeStep
    <2>2. wire'[e] \in Seq(Frames) /\ loop'[e] \in LoopStates
        BY <2>1 DEF TypeOK
    <2>3. QED
        BY <2>2 DEF LoopStates, Idle, Stopped
<1>3. QED
    BY <1>1, <1>2 DEF MetaInv

LEMMA InvariantStep == IInv /\ [Next]_vars => IInv'
BY TypeStep, TableStep, FreshStep, KnownStep, MetaStep, FlowStep, LinkStep
DEF IInv

-----------------------------------------------------------------------------
(* The results.                                                            *)

(* The inductive invariant behind the results below. *)
THEOREM MuxInvariant == Spec => []IInv
BY InitInvariant, InvariantStep, PTL DEF Spec

(* Both ends keep their types and no channel of stream.go takes more than  *)
(* its capacity, for any streams, budgets and capacities.                  *)
THEOREM MuxTypeOK == Spec => []TypeOK
<1>1. IInv => TypeOK
    BY DEF IInv
<1>2. QED
    BY <1>1, MuxInvariant, PTL

(* What is taken was sent. *)
LEMMA TakenWasSent ==
    ASSUME TypeOK, NEW e \in Ends, NEW i \in Ids, Flow(e, i), stage[e][i] # "closed"
    PROVE  Taken(e, i) <= sent[Peer(e)][i]
<1>1. Stored(e, i) \in Nat /\ sent[Peer(e)][i] \in Nat
    BY StoredNat, FlowTyped DEF FlowTypes
<1>2. QED
    BY <1>1 DEF Flow, Received, NextInHand, Taken

(* The frames on an open connection are as many as were sent and not taken. *)
LEMMA WireCount ==
    ASSUME TypeOK, NEW e \in Ends, NEW i \in Ids, Flow(e, i),
           stage[e][i] # "closed", e \in conn
    PROVE  Cardinality({k \in DOMAIN wire[e] : wire[e][k].id = i})
               = sent[Peer(e)][i] - Taken(e, i)
<1> DEFINE S == {k \in DOMAIN wire[e] : wire[e][k].id = i}
           t == Taken(e, i)
           s == sent[Peer(e)][i]
           T == (t + 1)..s
           F == [k \in S |-> wire[e][k].n]
<1>1. wire[e] \in Seq(Frames) /\ s \in Nat /\ t \in Nat /\ t <= s
    BY FlowTyped, StoredNat, TakenWasSent DEF FlowTypes
<1>2. DOMAIN wire[e] = 1..Len(wire[e]) /\ Len(wire[e]) \in Nat
    BY <1>1
<1>3. Chain(e, i) /\ Received(e, i)
    BY DEF Flow
<1>4. S \subseteq 1..Len(wire[e]) /\ \A k \in S : On(e, i, k) /\ wire[e][k].n \in Nat
    <2>1. \A k \in 1..Len(wire[e]) : wire[e][k] \in Frames
        BY <1>1
    <2>2. QED
        BY <1>2, <2>1 DEF On, Frames
<1>5. IsFiniteSet(S)
    <2>1. IsFiniteSet(1..Len(wire[e]))
        BY <1>2, FS_Interval
    <2> HIDE DEF S
    <2>2. QED
        BY <1>4, <2>1, FS_Subset
<1>6. \A k \in S : F[k] \in T
    <2>1. \A k \in S : wire[e][k].n > t /\ wire[e][k].n <= s
        BY <1>3, <1>4 DEF Chain, Received
    <2>2. QED
        BY <1>1, <1>4, <2>1
<1>7. ASSUME NEW k \in S, NEW l \in S, F[k] = F[l]
      PROVE  k = l
    <2>1. k < l => wire[e][k].n < wire[e][l].n
        BY <1>3, <1>4 DEF Chain
    <2>2. l < k => wire[e][l].n < wire[e][k].n
        BY <1>3, <1>4 DEF Chain
    <2>3. k \in Nat /\ l \in Nat
        BY <1>2
    <2>4. QED
        BY <1>4, <1>7, <2>1, <2>2, <2>3
<1>8. \A m \in T : \E k \in S : F[k] = m
    BY <1>2, <1>3 DEF Chain, On
<1>9. ExistsBijection(S, T)
    <2> HIDE DEF S, T
    <2>1. F \in [S -> T]
        BY <1>6
    <2>2. F \in Bijection(S, T)
        BY <2>1, <1>7, <1>8, Fun_IsBij
    <2>3. QED
        BY <2>2, Fun_ExistsBij
<1>10. Cardinality(T) = Cardinality(S)
    BY <1>5, <1>9, FS_Bijection
<1>11. Cardinality(T) = s - t
    <2>1. t + 1 \in Int /\ s \in Int
        BY <1>1
    <2>2. Cardinality(T) = IF t + 1 > s THEN 0 ELSE s - (t + 1) + 1
        <3> HIDE DEF t, s
        <3>1. QED
            BY <2>1, FS_Interval
    <2> HIDE DEF t, s, T
    <2>3. QED
        BY <1>1, <2>2
<1>12. QED
    BY <1>10, <1>11

(* While the reading user has not closed the stream and both ends are up,  *)
(* every frame written is read or on its way: no full channel, no order of *)
(* dispatch, Accept and close loses one (stream.go:66-249).                *)
THEOREM MuxLosesNoFrame == Spec => []NoFrameLost
<1>1. ASSUME IInv, NEW e \in Ends, NEW i \in Ids, stage[e][i] # "closed",
             down = [d \in Ends |-> "up"]
      PROVE  got[e][i] + InFlight(e, i) = sent[Peer(e)][i]
    <2> DEFINE h == IF InHand(e, i) THEN 1 ELSE 0
               l == Len(rcvCh[e][i])
               g == got[e][i]
               s == sent[Peer(e)][i]
               c == Cardinality({k \in DOMAIN wire[e] : wire[e][k].id = i})
    <2>1. TypeOK /\ Flow(e, i) /\ e \in conn
        BY <1>1 DEF IInv, FlowInv, LinkInv
    <2>2. c = s - Taken(e, i)
        BY <1>1, <2>1, WireCount
    <2>3. InFlight(e, i) = l + h + c
        BY DEF InFlight, InHand
    <2>4. Taken(e, i) = g + l + h
        BY DEF Taken, Stored
    <2>5. s \in Nat /\ g \in Nat /\ l \in Nat /\ h \in Nat
        BY <2>1, FlowTyped DEF FlowTypes
    <2>6. g + InFlight(e, i) = s
        <3> HIDE DEF c, h, l, g, s
        <3>1. QED
            BY <2>2, <2>3, <2>4, <2>5
    <2>7. QED
        BY <2>6
<1>2. IInv => NoFrameLost
    BY <1>1 DEF NoFrameLost
<1>3. QED
    BY <1>2, MuxInvariant, PTL

-----------------------------------------------------------------------------
(* The refinement.                                                         *)

(* A step writes one frame, reads the next one of a stream, or neither. *)
LEMMA HistoryStep ==
    ASSUME TypeOK, FlowInv, [Next]_vars
    PROVE  \/ UNCHANGED <<sent, got>>
           \/ \E e \in Ends, i \in Ids :
                  /\ sent' = [sent EXCEPT ![e][i] = @ + 1]
                  /\ UNCHANGED got
           \/ \E e \in Ends, i \in Ids :
                  /\ got[e][i] < sent[Peer(e)][i]
                  /\ got' = [got EXCEPT ![e][i] = @ + 1]
                  /\ UNCHANGED sent
<1> USE DEF loopVars, userVars, downVars
<1>1. CASE UNCHANGED vars
    BY <1>1 DEF vars
<1>2. ASSUME NEW e \in Ends, Serve(e) \/ Shutdown(e) \/ Open(e) \/ Accept(e) \/ CloseMux(e)
      PROVE  UNCHANGED <<sent, got>>
    BY <1>2 DEF Serve, Decode, DecodeFails, Dispatch, Offer, Deliver, Shutdown,
                Signal, Disconnect, CloseNext, Open, Accept, CloseMux
<1>3. ASSUME NEW e \in Ends, NEW i \in Ids, Part(e, i) \/ Close(e, i) \/ WriteFails(e, i)
      PROVE  UNCHANGED <<sent, got>>
    BY <1>3 DEF Part, Close, WriteFails
<1>4. ASSUME NEW e \in Ends, NEW i \in Ids, NEW type \in FrameTypes, SendFrame(e, i, type)
      PROVE  sent' = [sent EXCEPT ![e][i] = @ + 1] /\ UNCHANGED got
    BY <1>4 DEF SendFrame
<1>5. ASSUME NEW e \in Ends, NEW i \in Ids, RecvFrame(e, i)
      PROVE  /\ got[e][i] < sent[Peer(e)][i]
             /\ got' = [got EXCEPT ![e][i] = @ + 1]
             /\ UNCHANGED sent
    <2>1. rcvCh[e][i] \in Seq(Frames) /\ rcvCh[e][i] # <<>> /\ Flow(e, i)
        BY <1>5 DEF RecvFrame, TypeOK, FlowInv
    <2>2. 1 \in 1..Len(rcvCh[e][i]) /\ Head(rcvCh[e][i]) = rcvCh[e][i][1]
        BY <2>1, TailNth
    <2>3. Head(rcvCh[e][i]).n = got[e][i] + 1
        BY <2>1, <2>2 DEF Flow, Continues
    <2>4. got[e][i] < sent[Peer(e)][i]
        <3>1. got[e][i] \in Nat /\ sent[Peer(e)][i] \in Nat /\ Len(rcvCh[e][i]) \in Nat
            BY <2>1, FlowTyped DEF FlowTypes
        <3>2. got[e][i] + Len(rcvCh[e][i]) <= sent[Peer(e)][i] /\ Len(rcvCh[e][i]) >= 1
            BY <2>1, TailNth DEF Flow, Received, Stored
        <3>3. QED
            BY <3>1, <3>2
    <2>5. got' = [got EXCEPT ![e][i] = got[e][i] + 1] /\ UNCHANGED sent
        BY <1>5, <2>3 DEF RecvFrame
    <2>6. QED
        BY <2>4, <2>5
<1>6. QED
    BY <1>1, <1>2, <1>3, <1>4, <1>5 DEF Next

(* The variables of StreamPair, as Mux maps them. *)
Written == [f \in Flows |-> sent[Peer(f[1])][f[2]]]

Seen == [f \in Flows |-> got[f[1]][f[2]]]

LEMMA FlowFacts ==
    ASSUME NEW f \in Flows
    PROVE  f[1] \in Ends /\ f[2] \in Ids /\ f = <<f[1], f[2]>>
BY DEF Flows

LEMMA PairInitHolds == Init => Pair!PairInit
<1> SUFFICES ASSUME Init
             PROVE  Pair!PairInit
    OBVIOUS
<1>1. \A f \in Flows : sent[Peer(f[1])][f[2]] = 0 /\ got[f[1]][f[2]] = 0
    BY FlowFacts, EndFacts DEF Init
<1>2. QED
    BY <1>1 DEF Pair!PairInit

LEMMA PairStep == IInv /\ [Next]_vars => [Pair!PairNext]_(Pair!pairVars)
<1> SUFFICES ASSUME IInv, [Next]_vars
             PROVE  [Pair!PairNext]_(Pair!pairVars)
    OBVIOUS
<1>1. /\ TypeOK /\ FlowInv
      /\ sent \in [Ends -> [Ids -> Nat]] /\ got \in [Ends -> [Ids -> Nat]]
    BY DEF IInv, TypeOK
<1>2. CASE UNCHANGED <<sent, got>>
    BY <1>2 DEF Pair!pairVars
<1>3. ASSUME NEW e \in Ends, NEW i \in Ids,
             sent' = [sent EXCEPT ![e][i] = @ + 1], UNCHANGED got
      PROVE  Pair!PairNext
    <2> DEFINE g == <<Peer(e), i>>
    <2>1. g \in Flows /\ Peer(g[1]) = e /\ g[2] = i
        BY EndFacts DEF Flows
    <2>2. ASSUME NEW f \in Flows
          PROVE  sent'[Peer(f[1])][f[2]] = sent[Peer(f[1])][f[2]] + (IF f = g THEN 1 ELSE 0)
        <3>1. f[1] \in Ends /\ f[2] \in Ids /\ f = <<f[1], f[2]>>
            BY FlowFacts
        <3>2. Peer(f[1]) \in Ends /\ (Peer(f[1]) = e <=> f[1] = Peer(e))
            BY <3>1, EndFacts
        <3>3. f = g <=> Peer(f[1]) = e /\ f[2] = i
            BY <3>1, <3>2
        <3>4. sent'[Peer(f[1])][f[2]]
                  = sent[Peer(f[1])][f[2]] + (IF Peer(f[1]) = e /\ f[2] = i THEN 1 ELSE 0)
            BY <1>1, <1>3, <3>1, <3>2
        <3>5. QED
            BY <3>3, <3>4
    <2>3. Written' = [Written EXCEPT ![g] = @ + 1]
        <3>1. \A f \in Flows : sent[Peer(f[1])][f[2]] \in Nat
            BY <1>1, FlowFacts, EndFacts
        <3>2. \A f \in Flows : sent'[Peer(f[1])][f[2]] = IF f = g THEN sent[Peer(f[1])][f[2]] + 1 ELSE sent[Peer(f[1])][f[2]]
            BY <2>2, <3>1
        <3>3. Written' = [f \in Flows |-> IF f = g THEN Written[f] + 1 ELSE Written[f]]
            BY <3>2 DEF Written
        <3>4. [Written EXCEPT ![g] = @ + 1]
                  = [f \in Flows |-> IF f = g THEN Written[f] + 1 ELSE Written[f]]
            BY <2>1 DEF Written
        <3>5. QED
            BY <3>3, <3>4
    <2>4. Seen' = Seen
        BY <1>3 DEF Seen
    <2>5. Pair!WriteFlow(g)
        BY <2>3, <2>4 DEF Pair!WriteFlow, Written, Seen
    <2>6. QED
        BY <2>1, <2>5 DEF Pair!PairNext
<1>4. ASSUME NEW e \in Ends, NEW i \in Ids, got[e][i] < sent[Peer(e)][i],
             got' = [got EXCEPT ![e][i] = @ + 1], UNCHANGED sent
      PROVE  Pair!PairNext
    <2> DEFINE g == <<e, i>>
    <2>1. g \in Flows /\ g[1] = e /\ g[2] = i
        BY DEF Flows
    <2>2. ASSUME NEW f \in Flows
          PROVE  got'[f[1]][f[2]] = got[f[1]][f[2]] + (IF f = g THEN 1 ELSE 0)
        <3>1. f[1] \in Ends /\ f[2] \in Ids /\ f = <<f[1], f[2]>>
            BY FlowFacts
        <3>2. f = g <=> f[1] = e /\ f[2] = i
            BY <3>1
        <3>3. got'[f[1]][f[2]] = got[f[1]][f[2]] + (IF f[1] = e /\ f[2] = i THEN 1 ELSE 0)
            BY <1>1, <1>4, <3>1
        <3>4. QED
            BY <3>2, <3>3
    <2>3. Seen' = [Seen EXCEPT ![g] = @ + 1]
        <3>1. \A f \in Flows : got[f[1]][f[2]] \in Nat
            BY <1>1, FlowFacts
        <3>2. \A f \in Flows : got'[f[1]][f[2]] = IF f = g THEN got[f[1]][f[2]] + 1 ELSE got[f[1]][f[2]]
            BY <2>2, <3>1
        <3>3. Seen' = [f \in Flows |-> IF f = g THEN Seen[f] + 1 ELSE Seen[f]]
            BY <3>2 DEF Seen
        <3>4. [Seen EXCEPT ![g] = @ + 1]
                  = [f \in Flows |-> IF f = g THEN Seen[f] + 1 ELSE Seen[f]]
            BY <2>1 DEF Seen
        <3>5. QED
            BY <3>3, <3>4
    <2>4. Written' = Written
        BY <1>4 DEF Written
    <2>5. Seen[g] < Written[g]
        BY <1>4, <2>1 DEF Seen, Written
    <2>6. Pair!ReadFlow(g)
        BY <2>3, <2>4, <2>5 DEF Pair!ReadFlow, Written, Seen
    <2>7. QED
        BY <2>1, <2>6 DEF Pair!PairNext
<1>5. QED
    BY <1>1, <1>2, <1>3, <1>4, HistoryStep

(* Every stream is read in the order in which it was written, without a    *)
(* gap, a repetition or a frame of another stream, whatever the two read   *)
(* loops, the users and the shutdowns do (stream.go:66-249).               *)
THEOREM MuxImplementsPair == Spec => ImplementsPair
<1>1. Spec => Pair!PairSpec
    BY PairInitHolds, PairStep, MuxInvariant, PTL DEF Spec, Pair!PairSpec
<1>2. QED
    BY <1>1 DEF ImplementsPair

-----------------------------------------------------------------------------
(* Who closes an open stream.                                              *)

Queued(e, i) == \E k \in DOMAIN acceptCh[e] : acceptCh[e][k] = i

Offered(e, i) == loop[e].at = "offer" /\ loop[e].frame.id = i

Owned(e, i) == i \in held[e] \/ Queued(e, i) \/ Offered(e, i)

Swept(e, i) == down[e] # "up" => i \in snapshot[e] \/ i \in Own(Peer(e))

(* A stream goes from dispatch to acceptCh to its user, never elsewhere.   *)
LEMMA OwnedKept ==
    ASSUME TypeOK, [Next]_vars, NEW d \in Ends, NEW j \in Ids, Owned(d, j),
           stage'[d][j] = "open"
    PROVE  Owned(d, j)'
<1> USE DEF loopVars, userVars, downVars
<1>1. /\ held \in [Ends -> SUBSET Ids] /\ acceptCh \in [Ends -> Seq(Ids)]
      /\ loop \in [Ends -> LoopStates]
    BY DEF TypeOK
<1>2. CASE UNCHANGED <<held, acceptCh, loop>>
    BY <1>2 DEF Owned, Queued, Offered
<1>3. ASSUME NEW e \in Ends, Decode(e) \/ DecodeFails(e) \/ Dispatch(e) \/ Deliver(e)
      PROVE  Owned(d, j)'
    <2>1. loop[e].at # "offer"
        BY <1>3 DEF Decode, DecodeFails, Dispatch, Deliver, Idle
    <2>2. d # e => loop'[d] = loop[d]
        BY <1>1, <1>3 DEF Decode, DecodeFails, Dispatch, Deliver
    <2>3. held' = held /\ acceptCh' = acceptCh
        BY <1>3 DEF Decode, DecodeFails, Dispatch, Deliver
    <2>4. QED
        BY <2>1, <2>2, <2>3 DEF Owned, Queued, Offered
<1>4. ASSUME NEW e \in Ends, Offer(e) PROVE Owned(d, j)'
    <2> DEFINE i == loop[e].frame.id
    <2>1. i \in Ids
        BY <1>4, LoopFacts DEF Offer, Frames
    <2>2. held' = held /\ (d # e => loop'[d] = loop[d] /\ acceptCh'[d] = acceptCh[d])
        BY <1>1, <1>4 DEF Offer
    <2>3. CASE acceptCh' = [acceptCh EXCEPT ![e] = Append(@, i)]
        <3>1. acceptCh[e] \in Seq(Ids) /\ acceptCh'[e] = Append(acceptCh[e], i)
            BY <1>1, <2>3
        <3>2. /\ \A k \in DOMAIN acceptCh[e] :
                     k \in DOMAIN acceptCh'[e] /\ acceptCh'[e][k] = acceptCh[e][k]
              /\ Len(acceptCh[e]) + 1 \in DOMAIN acceptCh'[e]
              /\ acceptCh'[e][Len(acceptCh[e]) + 1] = i
            BY <2>1, <3>1
        <3>3. QED
            BY <2>2, <3>2 DEF Owned, Queued, Offered
    <2>4. CASE CloseStream(e, i) /\ UNCHANGED acceptCh
        <3>1. ~(d = e /\ j = i)
            BY <2>1, <2>4, CloseFacts
        <3>2. QED
            BY <2>2, <2>4, <3>1 DEF Owned, Queued, Offered
    <2>5. QED
        BY <1>4, <2>3, <2>4 DEF Offer
<1>5. ASSUME NEW e \in Ends, Open(e) PROVE Owned(d, j)'
    BY <1>1, <1>5 DEF Open, Owned, Queued, Offered
<1>6. ASSUME NEW e \in Ends, Accept(e) PROVE Owned(d, j)'
    <2> DEFINE a == acceptCh[e]
    <2>1. /\ loop' = loop /\ (d # e => held'[d] = held[d] /\ acceptCh'[d] = acceptCh[d])
          /\ held[d] \subseteq held'[d]
        BY <1>1, <1>6 DEF Accept
    <2>2. a \in Seq(Ids) /\ a # <<>> /\ acceptCh'[e] = Tail(a) /\ Head(a) \in held'[e]
        BY <1>1, <1>6 DEF Accept
    <2>3. ASSUME NEW k \in DOMAIN a, k # 1
          PROVE  k - 1 \in DOMAIN acceptCh'[e] /\ acceptCh'[e][k - 1] = a[k]
        <3> HIDE DEF a
        <3>1. QED
            BY <2>2, <2>3
    <2>4. a[1] = Head(a)
        BY <2>2
    <2>5. QED
        BY <2>1, <2>2, <2>3, <2>4 DEF Owned, Queued, Offered
<1>7. ASSUME NEW e \in Ends, Shutdown(e) \/ CloseMux(e)
      PROVE  UNCHANGED <<held, acceptCh, loop>>
    BY <1>7 DEF Shutdown, Signal, Disconnect, CloseNext, CloseMux
<1>8. ASSUME NEW e \in Ends, NEW i \in Ids,
             \/ Part(e, i) \/ Close(e, i) \/ WriteFails(e, i) \/ RecvFrame(e, i)
             \/ \E type \in FrameTypes : SendFrame(e, i, type)
      PROVE  UNCHANGED <<held, acceptCh, loop>>
    BY <1>8 DEF Part, Close, WriteFails, RecvFrame, SendFrame
<1>9. UNCHANGED vars => UNCHANGED <<held, acceptCh, loop>>
    BY DEF vars
<1>10. QED
    BY <1>2, <1>3, <1>4, <1>5, <1>6, <1>7, <1>8, <1>9 DEF Next, Serve

(* From Mark to CloseNext, the copy of the table holds what was open.      *)
LEMMA SweptKept ==
    ASSUME TypeOK, TableInv, [Next]_vars, NEW d \in Ends, NEW j \in Ids,
           Swept(d, j), stage[d][j] = "open", stage'[d][j] = "open"
    PROVE  Swept(d, j)'
<1> USE DEF loopVars, userVars, downVars
<1>1. /\ down \in [Ends -> DownStates] /\ snapshot \in [Ends -> SUBSET Ids]
      /\ j \in registered[d]
    BY DEF TypeOK, TableInv
<1>2. CASE UNCHANGED <<down, snapshot>>
    BY <1>2 DEF Swept
<1>3. ASSUME NEW e \in Ends, Mark(e) PROVE Swept(d, j)'
    BY <1>1, <1>3 DEF Mark, Swept
<1>4. ASSUME NEW e \in Ends, Signal(e) \/ Disconnect(e) PROVE Swept(d, j)'
    BY <1>1, <1>4 DEF Signal, Disconnect, Swept
<1>5. ASSUME NEW e \in Ends, NEW i \in Ids, CloseNext(e, i) PROVE Swept(d, j)'
    <2>1. ~(d = e /\ j = i)
        BY <1>5, CloseFacts DEF CloseNext
    <2>2. QED
        BY <1>1, <1>5, <2>1 DEF CloseNext, Swept
<1>6. ASSUME NEW e \in Ends, Serve(e)
      PROVE  Mark(e) \/ UNCHANGED <<down, snapshot>>
    BY <1>6 DEF Serve, Decode, DecodeFails, Dispatch, Offer, Deliver
<1>7. ASSUME NEW e \in Ends, Open(e) \/ Accept(e) \/ CloseMux(e)
      PROVE  Mark(e) \/ UNCHANGED <<down, snapshot>>
    BY <1>7 DEF Open, Accept, CloseMux
<1>8. ASSUME NEW e \in Ends, NEW i \in Ids,
             \/ Part(e, i) \/ Close(e, i) \/ WriteFails(e, i) \/ RecvFrame(e, i)
             \/ \E type \in FrameTypes : SendFrame(e, i, type)
      PROVE  Mark(e) \/ UNCHANGED <<down, snapshot>>
    BY <1>8 DEF Part, Close, WriteFails, RecvFrame, SendFrame
<1>9. UNCHANGED vars => UNCHANGED <<down, snapshot>>
    BY DEF vars
<1>10. QED
    BY <1>2, <1>3, <1>4, <1>5, <1>6, <1>7, <1>8, <1>9 DEF Next, Shutdown

(* Streams that open: those of Open before shutdown, those of the peer at  *)
(* any time.                                                               *)
LEMMA OpensOwned ==
    ASSUME TypeOK, TableInv, FreshInv, MetaInv, [Next]_vars, NEW d \in Ends,
           NEW j \in Ids, stage[d][j] # "open", stage'[d][j] = "open"
    PROVE  Owned(d, j)' /\ Swept(d, j)'
<1> USE DEF loopVars, userVars, downVars
<1>1. CASE UNCHANGED <<stage, registered>>
    BY <1>1
<1>2. ASSUME NEW e \in Ends, NEW i \in Ids, CloseStream(e, i) PROVE FALSE
    BY <1>2, CloseFacts
<1>3. ASSUME NEW e \in Ends, nextID[e] \in Ids, Open(e), Opens1(e, nextID[e])
      PROVE  Owned(d, j)' /\ Swept(d, j)'
    <2>1. d = e /\ j = nextID[e]
        BY <1>3, OpenFacts
    <2>2. held'[d] = held[d] \union {j} /\ down'[d] = "up"
        BY <1>3, <2>1 DEF Open, TypeOK
    <2>3. QED
        BY <2>2 DEF Owned, Swept
<1>4. ASSUME NEW e \in Ends, loop[e].frame.id \in Ids, Admit(e),
             Opens1(e, loop[e].frame.id)
      PROVE  Owned(d, j)' /\ Swept(d, j)'
    <2>1. d = e /\ j = loop[e].frame.id
        BY <1>4, OpenFacts
    <2>2. j \in Own(Peer(d))
        BY <1>4, <2>1 DEF Admit, Dispatch, Opening, MetaInv, Marks
    <2>3. loop'[e].at = "offer" /\ loop'[e].frame = loop[e].frame
        <3>1. loop' = [loop EXCEPT ![e].at = "offer"]
            BY <1>4 DEF Admit, Dispatch
        <3>2. loop[e].at = "dispatch" /\ loop \in [Ends -> LoopStates]
            BY <1>4 DEF Admit, Dispatch, TypeOK
        <3>3. QED
            BY <3>1, <3>2 DEF LoopStates, Idle, Stopped
    <2>4. Own(Peer(d))' = Own(Peer(d))
        BY DEF Own, Peer, FirstID
    <2>5. QED
        BY <2>1, <2>2, <2>3, <2>4 DEF Owned, Offered, Swept
<1>5. QED
    BY <1>1, <1>2, <1>3, <1>4, StageCases

(* Every open stream has an owner, and once shutdown has copied the table  *)
(* of streams only the peer's can escape it (stream.go:83-104, 160-181).   *)
THEOREM MuxOwnsOpen == Spec => []OpenIsOwned
<1> DEFINE Held(e, i) == stage[e][i] = "open" => Owned(e, i) /\ Swept(e, i)
<1>1. OpenIsOwned <=> \A e \in Ends, i \in Ids : Held(e, i)
    BY DEF OpenIsOwned, Owned, Queued, Offered, Swept
<1>2. (OpenIsOwned <=> \A e \in Ends, i \in Ids : Held(e, i))'
    BY DEF OpenIsOwned, Owned, Queued, Offered, Swept
<1>3. Init => OpenIsOwned
    BY DEF Init, OpenIsOwned
<1>4. ASSUME IInv, OpenIsOwned, [Next]_vars PROVE OpenIsOwned'
    <2>1. ASSUME NEW d \in Ends, NEW j \in Ids, stage'[d][j] = "open"
          PROVE  Owned(d, j)' /\ Swept(d, j)'
        <3>1. CASE stage[d][j] = "open"
            <4>1. Owned(d, j) /\ Swept(d, j)
                BY <1>1, <1>4, <3>1
            <4>2. QED
                BY <1>4, <2>1, <3>1, <4>1, OwnedKept, SweptKept DEF IInv
        <3>2. CASE stage[d][j] # "open"
            BY <1>4, <2>1, <3>2, OpensOwned DEF IInv
        <3>3. QED
            BY <3>1, <3>2
    <2>2. QED
        BY <1>2, <2>1
<1>5. QED
    BY <1>3, <1>4, MuxInvariant, PTL DEF Spec

(* "On return all streams are closed" (stream.go:68) holds for the streams *)
(* that an end opened itself: when shutdown is through, none of them is    *)
(* open.                                                                   *)
THEOREM MuxClosesOwnStreams ==
    Spec => [](\A e \in Ends : \A i \in Own(e) :
                   down[e] = "closing" /\ snapshot[e] = {} => stage[e][i] # "open")
<1>1. OpenIsOwned =>
          \A e \in Ends : \A i \in Own(e) :
              down[e] = "closing" /\ snapshot[e] = {} => stage[e][i] # "open"
    <2>1. SUFFICES ASSUME OpenIsOwned, NEW e \in Ends, NEW i \in Own(e),
                          down[e] = "closing", snapshot[e] = {}
                   PROVE  stage[e][i] # "open"
        OBVIOUS
    <2>2. i \in Ids
        BY DEF Ids, Ends
    <2>3. i \notin Own(Peer(e))
        BY <2>2, IdFacts
    <2>4. QED
        BY <2>1, <2>2, <2>3 DEF OpenIsOwned
<1>2. QED
    BY <1>1, MuxOwnsOpen, PTL
=============================================================================
