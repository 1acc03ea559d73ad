----------------------------- MODULE SendProofs -----------------------------
(***************************************************************************)
(* What Send promises, for any transfers, calls, retries, limit and size   *)
(* of the file: final states, slots and completion, the bound on how far   *)
(* retries pass the limit, and the cancellation of every transfer that no  *)
(* second call was given.                                                  *)
(***************************************************************************)
EXTENDS Send, FiniteSetTheorems, TLAPS

(* Calls that work on a transfer. *)
Attached == {"register", "connect", "leave"} \cup Working

OwnInv ==
    \A k \in Calls :
        /\ call[k] \in Attached => of[k] \in Transfers
        /\ call[k] \in {"idle", "create"} => of[k] = None

SentInv ==
    \A k \in Calls :
        /\ call[k] = "write" => sent[k] # Chunks
        /\ call[k] = "complete" => sent[k] = Chunks

Base == TypeOK /\ OwnInv /\ SentInv

-----------------------------------------------------------------------------
(* The building blocks of the actions. *)

LEMMA GotoFacts ==
  ASSUME TypeOK, NEW k \in Calls, NEW pc \in CallStates, Goto(k, pc)
  PROVE  /\ call' \in [Calls -> CallStates]
         /\ call'[k] = pc
         /\ \A j \in Calls : j # k => call'[j] = call[j]
  BY DEF TypeOK, Goto

LEMMA UpdateStatusFacts ==
  ASSUME TypeOK, NEW t \in Transfers, NEW to \in Statuses, UpdateStatus(t, to)
  PROVE  /\ status' \in [Transfers -> Statuses]
         /\ \A u \in Transfers : u # t => status'[u] = status[u]
         /\ Updatable(t, to) => status'[t] = to
         /\ ~Updatable(t, to) => status'[t] = status[t]
<1>1. status \in [Transfers -> Statuses]
  BY DEF TypeOK
<1>2. CASE Updatable(t, to)
  BY <1>1, <1>2 DEF UpdateStatus
<1>3. CASE ~Updatable(t, to)
  BY <1>1, <1>3 DEF UpdateStatus
<1> QED
  BY <1>2, <1>3

(* The transitions of a status, row by row of defaultTransitions. *)
LEMMA Transitions ==
  ASSUME NEW to
  PROVE  /\ CanTransition("pending", to) <=> to \in {"connecting", "cancelled", "failed"}
         /\ CanTransition("connecting", to) <=>
               to \in {"transferring", "failed", "cancelled", "awaiting_resume"}
         /\ CanTransition("transferring", to) <=>
               to \in {"completed", "failed", "cancelled", "awaiting_resume"}
         /\ CanTransition("awaiting_resume", to) <=> to \in {"connecting", "cancelled", "failed"}
         /\ CanTransition("failed", to) <=> to = "connecting"
         /\ ~CanTransition("completed", to)
         /\ ~CanTransition("cancelled", to)
         /\ ~CanTransition(None, to)
  BY DEF CanTransition, defaultTransitions, Statuses, None

-----------------------------------------------------------------------------
(* Types, who works on what, and how much was sent.                        *)

LEMMA InitBase == Init => Base
  BY SendAssumption DEF Init, Base, TypeOK, OwnInv, SentInv, Statuses, CallStates,
     Attached, Working

(* What an action does to the variables, whatever it means. *)
LEMMA StepTypes == Base /\ [Next]_vars => TypeOK'
<1> SUFFICES ASSUME Base, [Next]_vars PROVE TypeOK'
  OBVIOUS
<1>1. TypeOK /\ OwnInv /\ SentInv
  BY DEF Base
<1>2. ASSUME NEW k \in Calls, call[k] \in Attached PROVE of[k] \in Transfers
  BY <1>1, <1>2 DEF OwnInv
<1>3. ASSUME NEW k \in Calls, NEW to \in Statuses, call[k] \in Attached,
             UpdateStatus(of[k], to)
      PROVE  status' \in [Transfers -> Statuses]
  BY <1>1, <1>2, <1>3, UpdateStatusFacts
<1>4. ASSUME NEW k \in Calls, NEW pc \in CallStates, Goto(k, pc)
      PROVE  call' \in [Calls -> CallStates]
  BY <1>1, <1>4, GotoFacts
<1>5. call' \in [Calls -> CallStates]
  BY <1>1, <1>4 DEF Next, vars, SendFile, ContextEnds, Break, FireCancel, Execute, PeerTakes,
     HeaderFails, CreateTransfer, Resend, Cancel, TakeEntry, Stat, Create, Register, Connect,
     Dial, StartTransferring, StreamFile, Complete, Leave, ConnectionFails, Fail, Handshake,
     SendHeader, Write, CallStates, TypeOK
<1>6. status' \in [Transfers -> Statuses]
  <2>1. ASSUME NEW t \in Transfers, NEW to \in Statuses, status' = [status EXCEPT ![t] = to]
        PROVE  status' \in [Transfers -> Statuses]
    BY <1>1, <2>1 DEF TypeOK
  <2>2. ASSUME NEW k \in Calls, Execute(k) \/ HeaderFails(k)
        PROVE  status' \in [Transfers -> Statuses]
    <3> USE DEF Statuses, Attached, Working
    <3>1. CASE Create(k)
      BY <1>1, <2>1, <3>1 DEF Create, TypeOK
    <3>2. CASE Connect(k) \/ StartTransferring(k) \/ Complete(k) \/ HeaderFails(k)
      BY <1>3, <3>2 DEF Connect, StartTransferring, Complete, HeaderFails
    <3>3. CASE Dial(k) \/ StreamFile(k) \/ ConnectionFails(k)
      BY <1>1, <1>3, <3>3 DEF Dial, StreamFile, ConnectionFails, Fail, TypeOK
    <3>4. CASE Stat(k) \/ Register(k) \/ Leave(k)
      BY <1>1, <3>4 DEF Stat, Register, Leave, TypeOK
    <3> QED
      BY <2>2, <3>1, <3>2, <3>3, <3>4 DEF Execute
  <2>3. ASSUME NEW t \in Transfers, NEW k \in Calls, CreateTransfer(k, t) \/ Resend(k, t)
        PROVE  status' \in [Transfers -> Statuses]
    BY <1>1, <2>1, <2>3 DEF CreateTransfer, Resend, TypeOK, Statuses
  <2>4. ASSUME NEW t \in Transfers, Cancel(t) \/ TakeEntry(t)
        PROVE  status' \in [Transfers -> Statuses]
    BY <1>1, <2>1, <2>4 DEF Cancel, TakeEntry, TypeOK, Statuses
  <2>5. ASSUME NEW k \in Calls,
               SendFile(k) \/ ContextEnds(k) \/ Break(k) \/ FireCancel(k) \/ PeerTakes(k)
        PROVE  status' \in [Transfers -> Statuses]
    BY <1>1, <2>5 DEF SendFile, ContextEnds, Break, FireCancel, PeerTakes, Handshake,
       SendHeader, Write, TypeOK
  <2> QED
    BY <1>1, <2>2, <2>3, <2>4, <2>5 DEF Next, vars, TypeOK
<1>7. of' \in [Calls -> Transfers \cup {None}] /\ entry' \in [Transfers -> Calls \cup {None}]
  <2>1. of \in [Calls -> Transfers \cup {None}] /\ entry \in [Transfers -> Calls \cup {None}]
    BY <1>1 DEF TypeOK
  <2>2. ASSUME NEW k \in Calls, Execute(k)
        PROVE  of' \in [Calls -> Transfers \cup {None}] /\ entry' \in [Transfers -> Calls \cup {None}]
    BY <1>2, <2>1, <2>2 DEF Execute, Stat, Create, Register, Connect, Dial, StartTransferring,
       StreamFile, Complete, Leave, ConnectionFails, Fail, HeaderFails, Attached, Working
  <2> QED
    BY <2>1, <2>2 DEF Next, vars, SendFile, ContextEnds, Break, FireCancel, PeerTakes,
       HeaderFails, CreateTransfer, Resend, Cancel, TakeEntry, Handshake, SendHeader, Write
<1>8. /\ ended' \in SUBSET Calls /\ broken' \in SUBSET Calls
      /\ cancelling' \in SUBSET Transfers /\ firing' \in SUBSET Calls
  <2>1. /\ ended \in SUBSET Calls /\ broken \in SUBSET Calls
        /\ cancelling \in SUBSET Transfers /\ firing \in SUBSET Calls
        /\ entry \in [Transfers -> Calls \cup {None}]
    BY <1>1 DEF TypeOK
  <2> QED
    BY <2>1 DEF Next, vars, SendFile, ContextEnds, Break, FireCancel, Execute, PeerTakes,
     HeaderFails, CreateTransfer, Resend, Cancel, TakeEntry, Stat, Create, Register, Connect,
     Dial, StartTransferring, StreamFile, Complete, Leave, ConnectionFails, Fail, Handshake,
     SendHeader, Write
<1>9. sent' \in [Calls -> 0 .. Chunks]
  <2>1. sent \in [Calls -> 0 .. Chunks] /\ Chunks \in Nat
    BY <1>1, SendAssumption DEF TypeOK
  <2>2. ASSUME NEW k \in Calls, Write(k) PROVE sent' \in [Calls -> 0 .. Chunks]
    <3>1. sent[k] \in 0 .. Chunks /\ sent[k] # Chunks
      BY <1>1, <2>1, <2>2 DEF Write, SentInv
    <3>2. sent[k] + 1 \in 0 .. Chunks
      BY <2>1, <3>1
    <3> QED
      BY <2>1, <2>2, <3>2 DEF Write
  <2>3. UNCHANGED sent \/ \E k \in Calls : Write(k)
    BY DEF Next, vars, SendFile, ContextEnds, Break, FireCancel, Execute, PeerTakes,
     HeaderFails, CreateTransfer, Resend, Cancel, TakeEntry, Stat, Create, Register, Connect,
     Dial, StartTransferring, StreamFile, Complete, Leave, ConnectionFails, Fail, Handshake,
     SendHeader
  <2> QED
    BY <2>1, <2>2, <2>3
<1> QED
  BY <1>5, <1>6, <1>7, <1>8, <1>9 DEF TypeOK

LEMMA StepOwn == Base /\ [Next]_vars => OwnInv'
<1> SUFFICES ASSUME Base, [Next]_vars PROVE OwnInv'
  OBVIOUS
<1>1. OwnInv /\ call \in [Calls -> CallStates] /\ of \in [Calls -> Transfers \cup {None}]
  BY DEF Base, TypeOK
<1>2. ASSUME NEW k \in Calls, NEW pc, UNCHANGED of, call' = [call EXCEPT ![k] = pc],
             pc \in Attached => of[k] \in Transfers,
             pc \in {"idle", "create"} => of[k] = None
      PROVE  OwnInv'
  BY <1>1, <1>2 DEF OwnInv
<1>3. ASSUME NEW k \in Calls, NEW t \in Transfers, NEW pc,
             of' = [of EXCEPT ![k] = t], call' = [call EXCEPT ![k] = pc],
             pc \notin {"idle", "create"}
      PROVE  OwnInv'
  BY <1>1, <1>3 DEF OwnInv
<1>4. ASSUME UNCHANGED <<of, call>> PROVE OwnInv'
  BY <1>1, <1>4 DEF OwnInv
<1>5. ASSUME NEW k \in Calls, NEW t \in Transfers, CreateTransfer(k, t) \/ Resend(k, t)
      PROVE  OwnInv'
  BY <1>3, <1>5 DEF CreateTransfer, Resend, Goto
<1>6. ASSUME NEW k \in Calls, SendFile(k) PROVE OwnInv'
  BY <1>2, <1>6 DEF SendFile, Goto, Attached, Working
<1>7. ASSUME NEW k \in Calls, Stat(k) PROVE OwnInv'
  <2>1. of[k] \in Transfers \cup {None}
    BY <1>1
  <2>2. call' = [call EXCEPT ![k] = IF of[k] = None THEN "create" ELSE "register"]
        \/ call' = [call EXCEPT ![k] = "returned"]
    BY <1>7 DEF Stat, Goto
  <2>3. CASE of[k] = None
    BY <1>2, <1>7, <2>2, <2>3 DEF Stat, Attached, Working
  <2>4. CASE of[k] # None
    BY <1>2, <1>7, <2>1, <2>2, <2>4 DEF Stat, Attached, Working
  <2> QED
    BY <2>3, <2>4
<1>8. ASSUME NEW k \in Calls, Create(k) PROVE OwnInv'
  <2>1. CASE UNCHANGED of /\ Goto(k, "returned")
    BY <1>2, <2>1 DEF Goto, Attached, Working
  <2>2. CASE \E t \in Transfers : of' = [of EXCEPT ![k] = t] /\ Goto(k, "register")
    BY <1>3, <2>2 DEF Goto
  <2> QED
    BY <1>8, <2>1, <2>2 DEF Create
<1>9. ASSUME NEW k \in Calls, call[k] \in Attached, UNCHANGED of,
             \E pc \in Attached \cup {"returned"} : Goto(k, pc)
      PROVE  OwnInv'
  <2>1. of[k] \in Transfers
    BY <1>1, <1>9 DEF OwnInv
  <2> QED
    BY <1>2, <1>9, <2>1 DEF Goto, Attached, Working
<1>10. ASSUME NEW k \in Calls, Execute(k) \/ PeerTakes(k) \/ HeaderFails(k)
       PROVE  OwnInv'
  <2>1. CASE Register(k) \/ Connect(k) \/ StartTransferring(k) \/ Complete(k) \/ Leave(k)
             \/ PeerTakes(k) \/ HeaderFails(k)
    BY <1>9, <2>1 DEF Register, Connect, StartTransferring, Complete, Leave, PeerTakes,
       Handshake, SendHeader, Write, HeaderFails, Attached, Working
  <2>2. CASE Dial(k) \/ StreamFile(k) \/ ConnectionFails(k)
    BY <1>9, <2>2 DEF Dial, StreamFile, ConnectionFails, Fail, Attached, Working
  <2> QED
    BY <1>7, <1>8, <1>10, <2>1, <2>2 DEF Execute
<1>11. ASSUME NEW k \in Calls, ContextEnds(k) \/ Break(k) \/ FireCancel(k) PROVE OwnInv'
  BY <1>4, <1>11 DEF ContextEnds, Break, FireCancel
<1>12. ASSUME NEW t \in Transfers, Cancel(t) \/ TakeEntry(t) PROVE OwnInv'
  BY <1>4, <1>12 DEF Cancel, TakeEntry
<1> QED
  BY <1>4, <1>5, <1>6, <1>10, <1>11, <1>12 DEF Next, vars

LEMMA StepSent == Base /\ [Next]_vars => SentInv'
<1> SUFFICES ASSUME Base, [Next]_vars PROVE SentInv'
  OBVIOUS
<1>1. SentInv /\ call \in [Calls -> CallStates] /\ sent \in [Calls -> 0 .. Chunks]
  BY DEF Base, TypeOK
<1>2. ASSUME NEW k \in Calls, NEW pc, UNCHANGED sent, Goto(k, pc),
             pc = "write" => sent[k] # Chunks, pc = "complete" => sent[k] = Chunks
      PROVE  SentInv'
  BY <1>1, <1>2 DEF SentInv, Goto
<1>3. ASSUME UNCHANGED <<sent, call>> PROVE SentInv'
  BY <1>1, <1>3 DEF SentInv
<1>4. ASSUME NEW k \in Calls, StreamFile(k) PROVE SentInv'
  <2>1. CASE Goto(k, "leave")
    BY <1>2, <1>4, <2>1 DEF StreamFile, Fail
  <2>2. CASE Goto(k, IF sent[k] = Chunks THEN "complete" ELSE "write")
    <3>1. CASE sent[k] = Chunks
      BY <1>2, <1>4, <2>2, <3>1 DEF StreamFile, Fail
    <3>2. CASE sent[k] # Chunks
      BY <1>2, <1>4, <2>2, <3>2 DEF StreamFile, Fail
    <3> QED
      BY <3>1, <3>2
  <2> QED
    BY <1>4, <2>1, <2>2 DEF StreamFile, Fail
<1>5. ASSUME NEW k \in Calls, Write(k) PROVE SentInv'
  BY <1>1, <1>5 DEF Write, Goto, SentInv
<1>6. ASSUME NEW k \in Calls, NEW t \in Transfers, CreateTransfer(k, t) \/ Resend(k, t)
      PROVE  SentInv'
  BY <1>2, <1>6 DEF CreateTransfer, Resend
<1>7. ASSUME NEW k \in Calls, SendFile(k) \/ Handshake(k) \/ SendHeader(k) \/ HeaderFails(k)
                              \/ ConnectionFails(k)
      PROVE  SentInv'
  BY <1>2, <1>7 DEF SendFile, Handshake, SendHeader, HeaderFails, ConnectionFails, Fail
<1>8. ASSUME NEW k \in Calls, Create(k) \/ Register(k) \/ Dial(k) \/ StartTransferring(k)
                              \/ Complete(k) \/ Leave(k)
      PROVE  SentInv'
  BY <1>2, <1>8 DEF Create, Register, Dial, StartTransferring, Complete, Leave, Fail
<1>9. ASSUME NEW k \in Calls, Stat(k) \/ Connect(k) PROVE SentInv'
  BY <1>2, <1>9 DEF Stat, Connect
<1>10. ASSUME NEW k \in Calls, ContextEnds(k) \/ Break(k) \/ FireCancel(k) PROVE SentInv'
  BY <1>3, <1>10 DEF ContextEnds, Break, FireCancel
<1>11. ASSUME NEW t \in Transfers, Cancel(t) \/ TakeEntry(t) PROVE SentInv'
  BY <1>3, <1>11 DEF Cancel, TakeEntry
<1> QED
  BY <1>3, <1>4, <1>5, <1>6, <1>7, <1>8, <1>9, <1>10, <1>11 DEF Next, Execute, PeerTakes, vars

(* The part of the invariant every theorem uses. *)
THEOREM SendBase == Spec => []Base
<1>1. Base /\ [Next]_vars => Base'
  BY StepTypes, StepOwn, StepSent DEF Base
<1> QED
  BY <1>1, InitBase, PTL DEF Spec

(* Every variable keeps its type; no call writes more than the file. *)
THEOREM SendTypeOK == Spec => []TypeOK
<1>1. Base => TypeOK
  BY DEF Base
<1> QED
  BY <1>1, SendBase, PTL

-----------------------------------------------------------------------------
(* How a step changes a status.                                            *)

(* A status changes by creation or by a transition of the state machine,   *)
(* and then only that of one transfer.                                     *)
Moves(t, to) ==
    /\ (status[t] = None /\ to = "pending") \/ CanTransition(status[t], to)
    /\ status' = [status EXCEPT ![t] = to]

LEMMA UpdateMoves ==
  ASSUME TypeOK, NEW t \in Transfers, NEW to \in Statuses, UpdateStatus(t, to)
  PROVE  UNCHANGED status \/ Moves(t, to)
<1>1. CASE status[t] = to
  BY <1>1 DEF UpdateStatus, TypeOK
<1>2. CASE status[t] # to
  BY <1>2 DEF UpdateStatus, Updatable, Moves
<1> QED
  BY <1>1, <1>2

LEMMA StatusMoves ==
  ASSUME Base, [Next]_vars
  PROVE  UNCHANGED status \/ \E t \in Transfers, to \in Statuses : Moves(t, to)
<1>1. TypeOK /\ OwnInv
  BY DEF Base
<1>2. ASSUME NEW k \in Calls, NEW to \in Statuses, call[k] \in Attached,
             UpdateStatus(of[k], to)
      PROVE  UNCHANGED status \/ \E t \in Transfers, u \in Statuses : Moves(t, u)
  BY <1>1, <1>2, UpdateMoves DEF OwnInv
<1>3. ASSUME NEW k \in Calls, Connect(k) \/ StartTransferring(k) \/ Complete(k) \/ HeaderFails(k)
      PROVE  UNCHANGED status \/ \E t \in Transfers, u \in Statuses : Moves(t, u)
  BY <1>2, <1>3 DEF Connect, StartTransferring, Complete, HeaderFails, Statuses, Attached, Working
<1>4. ASSUME NEW k \in Calls, Dial(k) \/ StreamFile(k) \/ ConnectionFails(k)
      PROVE  UNCHANGED status \/ \E t \in Transfers, u \in Statuses : Moves(t, u)
  BY <1>2, <1>4 DEF Dial, StreamFile, ConnectionFails, Fail, Statuses, Attached, Working
<1>5. ASSUME NEW k \in Calls, Create(k)
      PROVE  UNCHANGED status \/ \E t \in Transfers, u \in Statuses : Moves(t, u)
  BY <1>5 DEF Create, CanCreate, Moves, Statuses
<1>6. ASSUME NEW k \in Calls, NEW t \in Transfers, CreateTransfer(k, t)
      PROVE  UNCHANGED status \/ \E u \in Transfers, to \in Statuses : Moves(u, to)
  BY <1>6 DEF CreateTransfer, CanCreate, Moves, Statuses
<1>7. ASSUME NEW t \in Transfers, Cancel(t)
      PROVE  UNCHANGED status \/ \E u \in Transfers, to \in Statuses : Moves(u, to)
  BY <1>7 DEF Cancel, Moves, Statuses
<1> QED
  BY <1>3, <1>4, <1>5, <1>6, <1>7
     DEF Next, vars, Execute, PeerTakes, SendFile, ContextEnds, Break, FireCancel,
         Resend, TakeEntry, Stat, Register, Leave, Handshake, SendHeader, Write

(* No late answer of a call, no cancellation and no retry takes a transfer *)
(* out of completed or cancelled.                                          *)
THEOREM SendFinal == Spec => TerminalIsFinal
<1>1. ASSUME Base, [Next]_vars
      PROVE  \A t \in Transfers :
                 status[t] \in {"completed", "cancelled"} => status'[t] = status[t]
  <2>1. status \in [Transfers -> Statuses]
    BY <1>1 DEF Base, TypeOK
  <2>2. ASSUME NEW t \in Transfers, NEW to \in Statuses, Moves(t, to)
        PROVE  /\ status[t] \notin {"completed", "cancelled"}
               /\ \A u \in Transfers : u # t => status'[u] = status[u]
    BY <2>1, <2>2, Transitions DEF Moves, None
  <2> QED
    BY <1>1, <2>2, StatusMoves
<1>2. Base /\ [Next]_vars
        => [\A t \in Transfers :
               status[t] \in {"completed", "cancelled"} => status'[t] = status[t]]_vars
  BY <1>1
<1> QED
  BY <1>2, SendBase, PTL DEF Spec, TerminalIsFinal

-----------------------------------------------------------------------------
(* Slots and completion.                                                   *)

(* The stretch of Execute in which a call found its transfer connecting.   *)
Early == {"dial", "handshake", "transferring"}

Occupying == {"connecting", "transferring"}

SlotInv ==
    \A t \in Transfers :
        /\ status[t] = "connecting" => \E k \in Calls : of[k] = t /\ call[k] \in Early
        /\ status[t] = "transferring" => \E k \in Calls : of[k] = t /\ call[k] \in Working

CompletedInv ==
    \A t \in Transfers :
        status[t] = "completed" =>
            \E k \in Calls : of[k] = t /\ sent[k] = Chunks /\ call[k] \in {"leave", "returned"}

(* A call goes on, and no transfer begins to occupy a slot. *)
LEMMA SlotGoesOn ==
  ASSUME Base, SlotInv, NEW k \in Calls, NEW pc \in CallStates, Goto(k, pc),
         call[k] \in Early => pc \in Early,
         call[k] \in Working => pc \in Working,
         \A j \in Calls : call[j] \in Working => of'[j] = of[j],
         \A t \in Transfers : status'[t] \in Occupying => status'[t] = status[t]
  PROVE  SlotInv'
<1>1. TypeOK
  BY DEF Base
<1>2. \A j \in Calls : /\ call[j] \in Early => call'[j] \in Early
                       /\ call[j] \in Working => call'[j] \in Working
  BY <1>1, GotoFacts
<1>3. Early \subseteq Working
  BY DEF Early, Working
<1> QED
  BY <1>2, <1>3 DEF SlotInv, Occupying

(* A call gives the transfer up: nobody occupies its slot any more. *)
LEMMA SlotGivenUp ==
  ASSUME Base, SlotInv, NEW k \in Calls, call[k] \in Working, NEW to \in Statuses,
         UpdateStatus(of[k], to), Goto(k, "leave"), UNCHANGED of,
         \/ to \in {"failed", "cancelled"}
         \/ to = "completed" /\ call[k] \notin Early
  PROVE  SlotInv'
<1>1. TypeOK /\ of[k] \in Transfers /\ "leave" \in CallStates
  BY DEF Base, OwnInv, Attached, CallStates
<1>2. \A j \in Calls : j # k => call'[j] = call[j]
  BY <1>1, GotoFacts
<1>3. /\ \A u \in Transfers : u # of[k] => status'[u] = status[u]
      /\ status'[of[k]] \in {to, status[of[k]]}
      /\ Updatable(of[k], to) => status'[of[k]] = to
  BY <1>1, UpdateStatusFacts
<1>4. ASSUME NEW t \in Transfers, t # of[k]
      PROVE  /\ status'[t] = "connecting" => \E j \in Calls : of'[j] = t /\ call'[j] \in Early
             /\ status'[t] = "transferring" => \E j \in Calls : of'[j] = t /\ call'[j] \in Working
  BY <1>2, <1>3, <1>4 DEF SlotInv
<1>5. CASE to \in {"failed", "cancelled"}
  <2>1. status'[of[k]] \notin Occupying
    BY <1>3, <1>5, Transitions DEF Updatable, Occupying
  <2> QED
    BY <1>4, <2>1 DEF SlotInv, Occupying
<1>6. CASE to = "completed" /\ call[k] \notin Early
  <2>1. status'[of[k]] # "transferring"
    BY <1>3, <1>6, Transitions DEF Updatable
  <2>2. status'[of[k]] = "connecting" => status[of[k]] = "connecting"
    BY <1>3, <1>6
  <2>3. status'[of[k]] = "connecting" =>
            \E j \in Calls : of'[j] = of[k] /\ call'[j] \in Early
    BY <1>1, <1>2, <1>6, <2>2 DEF SlotInv
  <2> QED
    BY <1>4, <2>1, <2>3 DEF SlotInv
<1> QED
  BY <1>5, <1>6

LEMMA StepSlot ==
  ASSUME Base, SlotInv, [Next]_vars
  PROVE  SlotInv'
<1>1. TypeOK /\ OwnInv /\ SentInv
  BY DEF Base
<1>2. ASSUME UNCHANGED <<call, of>>,
             \A t \in Transfers : status'[t] \in Occupying => status'[t] = status[t]
      PROVE  SlotInv'
  BY <1>2 DEF SlotInv, Occupying
<1>3. ASSUME NEW t \in Transfers, NEW to \in {"pending", "cancelled"},
             status' = [status EXCEPT ![t] = to]
      PROVE  \A u \in Transfers : status'[u] \in Occupying => status'[u] = status[u]
  BY <1>1, <1>3 DEF TypeOK, Occupying
<1>4. ASSUME NEW t \in Transfers, Cancel(t) \/ TakeEntry(t) PROVE SlotInv'
  BY <1>2, <1>3, <1>4 DEF Cancel, TakeEntry
<1>5. ASSUME NEW k \in Calls, ContextEnds(k) \/ Break(k) \/ FireCancel(k) PROVE SlotInv'
  BY <1>2, <1>5 DEF ContextEnds, Break, FireCancel
<1>6. ASSUME NEW k \in Calls, NEW t \in Transfers, CreateTransfer(k, t) \/ Resend(k, t)
      PROVE  SlotInv'
  <2>1. \A u \in Transfers : status'[u] \in Occupying => status'[u] = status[u]
    BY <1>3, <1>6 DEF CreateTransfer, Resend
  <2>2. \A j \in Calls : call[j] \in Working => of'[j] = of[j]
    BY <1>1, <1>6 DEF CreateTransfer, Resend, TypeOK, Working
  <2> QED
    BY <1>6, <2>1, <2>2, SlotGoesOn DEF CreateTransfer, Resend, CallStates, Early, Working
<1>7. ASSUME NEW k \in Calls, SendFile(k) PROVE SlotInv'
  BY <1>7, SlotGoesOn DEF SendFile, CallStates, Early, Working
<1>8. ASSUME NEW k \in Calls, Stat(k) PROVE SlotInv'
  BY <1>8, SlotGoesOn DEF Stat, CallStates, Early, Working
<1>9. ASSUME NEW k \in Calls, Create(k) PROVE SlotInv'
  <2>1. \A u \in Transfers : status'[u] \in Occupying => status'[u] = status[u]
    BY <1>3, <1>9 DEF Create
  <2>2. \A j \in Calls : call[j] \in Working => of'[j] = of[j]
    BY <1>1, <1>9 DEF Create, TypeOK, Working
  <2> QED
    BY <1>9, <2>1, <2>2, SlotGoesOn DEF Create, CallStates, Early, Working
<1>10. ASSUME NEW k \in Calls, Register(k) \/ Handshake(k) \/ SendHeader(k) \/ Write(k) \/ Leave(k)
       PROVE  SlotInv'
  BY <1>10, SlotGoesOn DEF Register, Handshake, SendHeader, Write, Leave, CallStates, Early, Working
<1>11. ASSUME NEW k \in Calls, Connect(k) PROVE SlotInv'
  <2>1. of[k] \in Transfers /\ "connecting" \in Statuses
    BY <1>1, <1>11 DEF OwnInv, Connect, Attached, Statuses
  <2>2. CASE Updatable(of[k], "connecting")
    <3>1. /\ status'[of[k]] = "connecting"
          /\ \A u \in Transfers : u # of[k] => status'[u] = status[u]
      BY <1>1, <1>11, <2>1, <2>2, UpdateStatusFacts DEF Connect
    <3>2. /\ call'[k] = "dial"
          /\ \A j \in Calls : j # k => call'[j] = call[j]
      BY <1>1, <1>11, <2>2, GotoFacts DEF Connect, CallStates
    <3>3. call[k] \notin Working /\ Early \subseteq Working /\ "dial" \in Early
      BY <1>11 DEF Connect, Working, Early
    <3> QED
      BY <1>11, <2>1, <3>1, <3>2, <3>3 DEF SlotInv, Connect
  <2>3. CASE ~Updatable(of[k], "connecting")
    <3>1. Goto(k, "leave") /\ UNCHANGED status
      BY <1>11, <2>3 DEF Connect, UpdateStatus
    <3> QED
      BY <1>11, <3>1, SlotGoesOn DEF Connect, CallStates, Early, Working
  <2> QED
    BY <2>2, <2>3
<1>12. ASSUME NEW k \in Calls, Dial(k) \/ StreamFile(k) \/ ConnectionFails(k) PROVE SlotInv'
  <2>1. CASE Fail(k)
    BY <1>12, <2>1, SlotGivenUp DEF Fail, Dial, StreamFile, ConnectionFails, Working, Statuses
  <2>2. CASE \E pc \in {"handshake", "complete", "write"} :
                /\ Goto(k, pc) /\ UNCHANGED <<status, of>>
                /\ (call[k] = "dial" /\ pc = "handshake") \/ call[k] = "stream"
    BY <2>2, SlotGoesOn DEF CallStates, Early, Working
  <2> QED
    BY <1>12, <2>1, <2>2 DEF Dial, StreamFile, ConnectionFails
<1>13. ASSUME NEW k \in Calls, HeaderFails(k) \/ Complete(k) PROVE SlotInv'
  BY <1>13, SlotGivenUp DEF HeaderFails, Complete, Working, Early, Statuses
<1>14. ASSUME NEW k \in Calls, StartTransferring(k) PROVE SlotInv'
  <2>1. of[k] \in Transfers /\ "transferring" \in Statuses /\ call[k] \in Working
    BY <1>1, <1>14 DEF OwnInv, StartTransferring, Attached, Working, Statuses
  <2>2. /\ \A u \in Transfers : u # of[k] => status'[u] = status[u]
        /\ Updatable(of[k], "transferring") => status'[of[k]] = "transferring"
        /\ ~Updatable(of[k], "transferring") => status'[of[k]] = status[of[k]]
    BY <1>1, <1>14, <2>1, UpdateStatusFacts DEF StartTransferring
  <2>3. status'[of[k]] # "connecting"
    BY <2>2, Transitions DEF Updatable
  <2>4. /\ call'[k] \in Working
        /\ \A j \in Calls : j # k => call'[j] = call[j]
    BY <1>1, <1>14, GotoFacts DEF StartTransferring, CallStates, Working
  <2> QED
    BY <1>14, <2>1, <2>2, <2>3, <2>4 DEF SlotInv, StartTransferring
<1>15. CASE UNCHANGED vars
  BY <1>2, <1>15 DEF vars
<1> QED
  BY <1>4, <1>5, <1>6, <1>7, <1>8, <1>9, <1>10, <1>11, <1>12, <1>13, <1>14, <1>15
     DEF Next, Execute, PeerTakes

(* A transfer becomes completed by Complete alone. *)
LEMMA OnlyCompleteCompletes ==
  ASSUME Base, [Next]_vars, NEW t \in Transfers, status'[t] = "completed"
  PROVE  status[t] = "completed" \/ \E k \in Calls : Complete(k) /\ of[k] = t
<1>1. TypeOK /\ OwnInv
  BY DEF Base
<1>2. ASSUME NEW u \in Transfers, NEW to \in Statuses \ {"completed"},
             UpdateStatus(u, to) \/ status' = [status EXCEPT ![u] = to]
      PROVE  status[t] = "completed"
  BY <1>1, <1>2, UpdateStatusFacts DEF TypeOK
<1>3. ASSUME NEW k \in Calls, NEW to \in Statuses \ {"completed"}, call[k] \in Attached,
             UpdateStatus(of[k], to)
      PROVE  status[t] = "completed"
  BY <1>1, <1>2, <1>3 DEF OwnInv
<1>4. ASSUME NEW k \in Calls, Connect(k) \/ StartTransferring(k) \/ HeaderFails(k)
      PROVE  status[t] = "completed"
  BY <1>3, <1>4 DEF Connect, StartTransferring, HeaderFails, Statuses, Attached, Working
<1>5. ASSUME NEW k \in Calls, Dial(k) \/ StreamFile(k) \/ ConnectionFails(k)
      PROVE  status[t] = "completed"
  BY <1>3, <1>5 DEF Dial, StreamFile, ConnectionFails, Fail, Statuses, Attached, Working
<1>6. ASSUME NEW k \in Calls, Create(k)
      PROVE  status[t] = "completed"
  BY <1>2, <1>6 DEF Create, Statuses
<1>7. ASSUME NEW k \in Calls, NEW u \in Transfers, CreateTransfer(k, u)
      PROVE  status[t] = "completed"
  BY <1>2, <1>7 DEF CreateTransfer, Statuses
<1>8. ASSUME NEW u \in Transfers, Cancel(u)
      PROVE  status[t] = "completed"
  BY <1>2, <1>8 DEF Cancel, Statuses
<1>9. ASSUME NEW k \in Calls, Complete(k), of[k] # t
      PROVE  status[t] = "completed"
  <2>1. of[k] \in Transfers
    BY <1>1, <1>9 DEF Complete, OwnInv, Attached, Working
  <2> QED
    BY <1>1, <1>9, <2>1, UpdateStatusFacts DEF Complete, Statuses
<1> QED
  BY <1>4, <1>5, <1>6, <1>7, <1>8, <1>9
     DEF Next, vars, Execute, PeerTakes, SendFile, ContextEnds, Break, FireCancel,
         Resend, TakeEntry, Stat, Register, Leave, Handshake, SendHeader, Write

(* A call that is over keeps its transfer and what it sent. *)
LEMMA OverStays ==
  ASSUME Base, [Next]_vars, NEW k \in Calls, call[k] \in {"leave", "returned"}
  PROVE  call'[k] \in {"leave", "returned"} /\ of'[k] = of[k] /\ sent'[k] = sent[k]
  BY DEF Base, TypeOK, Next, vars, SendFile, ContextEnds, Break, FireCancel, Execute, PeerTakes,
     HeaderFails, CreateTransfer, Resend, Cancel, TakeEntry, Stat, Create, Register, Connect,
     Dial, StartTransferring, StreamFile, Complete, Leave, ConnectionFails, Fail, Handshake,
     SendHeader, Write, Goto

LEMMA StepCompleted ==
  ASSUME Base, CompletedInv, [Next]_vars
  PROVE  CompletedInv'
<1> SUFFICES ASSUME NEW t \in Transfers, status'[t] = "completed"
             PROVE  \E k \in Calls : of'[k] = t /\ sent'[k] = Chunks
                                     /\ call'[k] \in {"leave", "returned"}
  BY DEF CompletedInv
<1>1. CASE status[t] = "completed"
  BY <1>1, OverStays DEF CompletedInv
<1>2. CASE \E k \in Calls : Complete(k) /\ of[k] = t
  <2>1. PICK k \in Calls : Complete(k) /\ of[k] = t
    BY <1>2
  <2>2. sent[k] = Chunks
    BY <2>1 DEF Base, SentInv, Complete
  <2>3. call'[k] = "leave"
    BY <2>1, GotoFacts DEF Complete, Base, CallStates
  <2> QED
    BY <2>1, <2>2, <2>3 DEF Complete
<1> QED
  BY <1>1, <1>2, OnlyCompleteCompletes

(* A transfer that occupies a slot has a call at work. *)
THEOREM SendSlots == Spec => []SlotsHaveCalls
<1>1. Init => SlotInv
  BY DEF Init, SlotInv, None
<1>2. Base /\ SlotInv /\ [Next]_vars => SlotInv'
  BY StepSlot
<1>3. SlotInv => SlotsHaveCalls
  BY DEF SlotInv, SlotsHaveCalls, Early, Working
<1> QED
  BY <1>1, <1>2, <1>3, SendBase, PTL DEF Spec

(* A transfer reported completed was written by one call, to the end. *)
THEOREM SendCompleted == Spec => []CompletedWasSent
<1>1. Init => CompletedInv
  BY DEF Init, CompletedInv, None
<1>2. Base /\ CompletedInv /\ [Next]_vars => CompletedInv'
  BY StepCompleted
<1>3. CompletedInv => CompletedWasSent
  BY DEF CompletedInv, CompletedWasSent
<1> QED
  BY <1>1, <1>2, <1>3, SendBase, PTL DEF Spec

-----------------------------------------------------------------------------
(* The limit and the cancellation.  A transfer that is not retried has at  *)
(* most one call, which sets it connecting at most once; both go wrong for *)
(* the others, and those the properties name.                              *)

(* A call that has not yet set its transfer connecting. *)
Waiting(k) ==
    \/ call[k] \in {"register", "connect"}
    \/ call[k] = "stat" /\ of[k] \in Transfers

SoleInv ==
    /\ \A j, k \in Calls : of[j] = of[k] /\ of[j] \in Transfers \ Retried => j = k
    /\ \A k \in Calls : of[k] \in Transfers => status[of[k]] # None
    /\ \A k \in Calls :
          Waiting(k) /\ of[k] \notin Retried => status[of[k]] \in {"pending", "cancelled"}

(* A transfer is created within the limit, as the one of a call without. *)
Begins(k, t) ==
    /\ status[t] = None /\ Cardinality(Counted) < MaxActive
    /\ status' = [status EXCEPT ![t] = "pending"]
    /\ of[k] = None
    /\ of' = [of EXCEPT ![k] = t]

(* A call without a transfer is given one that exists. *)
Retries(k, t) ==
    /\ k \in Resends
    /\ status[t] # None
    /\ of[k] = None
    /\ of' = [of EXCEPT ![k] = t]

(* A call past Register moves the status of its transfer: to connecting    *)
(* before it works, to cancelled when it gives up.                         *)
WorksOn(k, to) ==
    /\ call[k] \in Working \cup {"connect"}
    /\ call'[k] \in Working \cup {"leave"}
    /\ to = "connecting" => call[k] = "connect"
    /\ to = "cancelled" => call'[k] = "leave"
    /\ Moves(of[k], to)

LEMMA WhoMoves ==
  ASSUME Base, [Next]_vars
  PROVE  \/ UNCHANGED <<status, of>>
         \/ UNCHANGED status /\ \E k \in Calls, t \in Transfers : Retries(k, t)
         \/ \E k \in Calls, t \in Transfers : Begins(k, t)
         \/ UNCHANGED of /\ \E t \in Transfers : Cancel(t)
         \/ UNCHANGED of /\ \E k \in Calls, to \in Statuses \ {None, "pending"} : WorksOn(k, to)
<1>1. TypeOK /\ OwnInv
  BY DEF Base
<1> DEFINE Goal ==
         \/ UNCHANGED <<status, of>>
         \/ UNCHANGED status /\ \E k \in Calls, t \in Transfers : Retries(k, t)
         \/ \E k \in Calls, t \in Transfers : Begins(k, t)
         \/ UNCHANGED of /\ \E t \in Transfers : Cancel(t)
         \/ UNCHANGED of /\ \E k \in Calls, to \in Statuses \ {None, "pending"} : WorksOn(k, to)
<1>2. ASSUME NEW k \in Calls, NEW to \in Statuses \ {None, "pending"},
             NEW pc \in Working \cup {"leave"},
             call[k] \in Working \cup {"connect"}, to = "connecting" => call[k] = "connect",
             to = "cancelled" => pc = "leave",
             UpdateStatus(of[k], to), Goto(k, pc), UNCHANGED of
      PROVE  Goal
  <2>1. of[k] \in Transfers
    BY <1>1, <1>2 DEF OwnInv, Attached
  <2>2. UNCHANGED status \/ Moves(of[k], to)
    BY <1>1, <1>2, <2>1, UpdateMoves
  <2>3. call'[k] = pc
    BY <1>1, <1>2, GotoFacts DEF Working, CallStates
  <2> QED
    BY <1>2, <2>2, <2>3 DEF WorksOn
<1>3. ASSUME NEW k \in Calls, Connect(k) \/ StartTransferring(k) \/ Complete(k) \/ HeaderFails(k)
      PROVE  Goal
  <2>1. CASE Connect(k)
    <3>1. \E pc \in Working \cup {"leave"} : Goto(k, pc)
      BY <2>1 DEF Connect, Working
    <3> QED
      BY <1>2, <2>1, <3>1 DEF Connect, Statuses, None
  <2>2. CASE StartTransferring(k) \/ Complete(k) \/ HeaderFails(k)
    BY <1>2, <2>2 DEF StartTransferring, Complete, HeaderFails, Statuses, None, Working
  <2> QED
    BY <1>3, <2>1, <2>2
<1>4. ASSUME NEW k \in Calls, Dial(k) \/ StreamFile(k) \/ ConnectionFails(k)
      PROVE  Goal
  <2>1. CASE Fail(k) /\ call[k] \in Working
    BY <1>2, <2>1 DEF Fail, Statuses, None, Working
  <2> QED
    BY <1>4, <2>1 DEF Dial, StreamFile, ConnectionFails, Working
<1>5. ASSUME NEW k \in Calls, Create(k)
      PROVE  Goal
  <2>1. of[k] = None
    BY <1>1, <1>5 DEF Create, OwnInv
  <2> QED
    BY <1>5, <2>1 DEF Create, CanCreate, Begins
<1>6. ASSUME NEW k \in Calls, NEW t \in Transfers, CreateTransfer(k, t)
      PROVE  Goal
  <2>1. of[k] = None
    BY <1>1, <1>6 DEF CreateTransfer, OwnInv
  <2> QED
    BY <1>6, <2>1 DEF CreateTransfer, CanCreate, Begins
<1>7. ASSUME NEW t \in Transfers, Cancel(t)
      PROVE  Goal
  BY <1>7 DEF Cancel
<1>8. ASSUME NEW k \in Calls, NEW t \in Transfers, Resend(k, t)
      PROVE  Goal
  <2>1. of[k] = None
    BY <1>1, <1>8 DEF Resend, OwnInv
  <2> QED
    BY <1>8, <2>1 DEF Resend, Retries
<1> QED
  BY <1>3, <1>4, <1>5, <1>6, <1>7, <1>8
     DEF Next, vars, Execute, PeerTakes, SendFile, ContextEnds, Break, FireCancel,
         TakeEntry, Stat, Register, Leave, Handshake, SendHeader, Write

(* A call that waits waited before, or has just got its transfer. *)
LEMMA WaitingBefore ==
  ASSUME Base, [Next]_vars, NEW k \in Calls, Waiting(k)'
  PROVE  Waiting(k) \/ of'[k] # of[k]
<1>1. TypeOK /\ OwnInv /\ None \notin Transfers
  BY NoneAssumption DEF Base
<1> SUFFICES ASSUME of'[k] = of[k] PROVE Waiting(k)
  OBVIOUS
<1>2. CASE call'[k] = call[k]
  BY <1>2 DEF Waiting
<1>3. CASE SendFile(k)
  BY <1>1, <1>3 DEF Waiting, SendFile, Goto, OwnInv, TypeOK
<1>4. CASE Stat(k) \/ Register(k)
  <2>1. CASE of[k] = None
    BY <1>1, <1>4, <2>1 DEF Waiting, Stat, Register, Goto, TypeOK
  <2>2. CASE of[k] # None
    BY <1>1, <1>4, <2>2 DEF Waiting, Stat, Register, TypeOK
  <2> QED
    BY <2>1, <2>2
<1>5. CASE Connect(k) \/ Dial(k) \/ StartTransferring(k) \/ StreamFile(k) \/ Complete(k)
           \/ Leave(k) \/ ConnectionFails(k) \/ PeerTakes(k) \/ HeaderFails(k)
  BY <1>1, <1>5 DEF Waiting, Connect, Dial, StartTransferring, StreamFile, Complete, Leave,
     ConnectionFails, PeerTakes, HeaderFails, Fail, Goto, Handshake, SendHeader, Write, TypeOK
<1>6. CASE Create(k)
  BY <1>1, <1>6 DEF Waiting, Create, Goto, TypeOK, OwnInv
<1>7. CASE \E t \in Transfers : CreateTransfer(k, t) \/ Resend(k, t)
  BY <1>1, <1>7 DEF CreateTransfer, Resend, TypeOK, OwnInv
<1>8. call'[k] # call[k] =>
        \/ SendFile(k) \/ Execute(k) \/ PeerTakes(k) \/ HeaderFails(k)
        \/ \E t \in Transfers : CreateTransfer(k, t) \/ Resend(k, t)
  BY <1>1 DEF Next, vars, SendFile, ContextEnds, Break, FireCancel, Execute, PeerTakes,
     HeaderFails, CreateTransfer, Resend, Cancel, TakeEntry, Stat, Create, Register, Connect,
     Dial, StartTransferring, StreamFile, Complete, Leave, ConnectionFails, Fail, Handshake,
     SendHeader, Write, Goto, TypeOK
<1> QED
  BY <1>2, <1>3, <1>4, <1>5, <1>6, <1>7, <1>8 DEF Execute

(* Once retried, a transfer stays so. *)
LEMMA RetriedStays ==
  ASSUME Base, [Next]_vars
  PROVE  Retried \subseteq Retried'
<1>1. of \in [Calls -> Transfers \cup {None}] /\ None \notin Transfers
  BY NoneAssumption DEF Base, TypeOK
<1>2. CASE UNCHANGED of
  BY <1>2 DEF Retried
<1>3. ASSUME NEW k \in Calls, NEW t \in Transfers, Begins(k, t) \/ Retries(k, t)
      PROVE  Retried \subseteq Retried'
  BY <1>1, <1>3, SendAssumption DEF Begins, Retries, Retried
<1> QED
  BY <1>2, <1>3, WhoMoves

LEMMA StepSole ==
  ASSUME Base, SoleInv, [Next]_vars
  PROVE  SoleInv'
<1>1. TypeOK /\ OwnInv /\ None \notin Transfers /\ Retried \subseteq Retried'
  BY NoneAssumption, RetriedStays DEF Base
<1>9. \A j \in Calls : Waiting(j) => of[j] \in Transfers
  BY <1>1 DEF Waiting, OwnInv, Attached
<1>2. CASE UNCHANGED <<status, of>>
  BY <1>1, <1>2, WaitingBefore DEF SoleInv
<1>3. ASSUME NEW k \in Calls, NEW t \in Transfers, Begins(k, t) PROVE SoleInv'
  <2>1. of'[k] = t /\ \A j \in Calls : j # k => of'[j] = of[j]
    BY <1>1, <1>3 DEF Begins, TypeOK
  <2>2. status'[t] = "pending" /\ \A u \in Transfers : u # t => status'[u] = status[u]
    BY <1>1, <1>3 DEF Begins, TypeOK
  <2>3. \A j \in Calls : of[j] # t
    BY <1>3 DEF Begins, SoleInv
  <2>4. \A j \in Calls : j # k /\ Waiting(j)' /\ of'[j] \notin Retried'
            => status'[of'[j]] \in {"pending", "cancelled"}
    BY <1>1, <1>9, <2>1, <2>2, <2>3, WaitingBefore DEF SoleInv
  <2> QED
    BY <1>1, <2>1, <2>2, <2>3, <2>4 DEF SoleInv, None
<1>4. ASSUME NEW t \in Transfers, Cancel(t), UNCHANGED of PROVE SoleInv'
  <2>1. status'[t] = "cancelled" /\ \A u \in Transfers : u # t => status'[u] = status[u]
    BY <1>1, <1>4 DEF Cancel, TypeOK
  <2> QED
    BY <1>1, <1>4, <1>9, <2>1, WaitingBefore DEF SoleInv, None
<1>5. ASSUME NEW k \in Calls, NEW to \in Statuses \ {None, "pending"}, WorksOn(k, to), UNCHANGED of
      PROVE  SoleInv'
  <2>1. of[k] \in Transfers
    BY <1>1, <1>5 DEF WorksOn, OwnInv, Attached
  <2>2. status'[of[k]] = to /\ \A u \in Transfers : u # of[k] => status'[u] = status[u]
    BY <1>1, <1>5, <2>1 DEF WorksOn, Moves, TypeOK
  <2>3. ~Waiting(k)'
    BY <1>5 DEF WorksOn, Waiting, Working
  <2>4. \A j \in Calls : of[j] \in Transfers /\ of[j] \notin Retried' /\ of[j] = of[k] => j = k
    BY <1>1 DEF SoleInv
  <2>5. \A j \in Calls : Waiting(j)' /\ of'[j] \notin Retried'
            => status'[of'[j]] \in {"pending", "cancelled"}
    BY <1>1, <1>5, <1>9, <2>2, <2>3, <2>4, WaitingBefore DEF SoleInv
  <2> QED
    BY <1>1, <1>5, <2>1, <2>2, <2>5 DEF SoleInv
<1>6. ASSUME NEW k \in Calls, NEW t \in Transfers, Retries(k, t), UNCHANGED status
      PROVE  SoleInv'
  <2>1. of'[k] = t /\ \A j \in Calls : j # k => of'[j] = of[j]
    BY <1>1, <1>6 DEF Retries, TypeOK
  <2>2. t \in Retried'
    BY <1>6, <2>1 DEF Retries, Retried
  <2>3. \A j \in Calls : j # k /\ Waiting(j)' /\ of'[j] \notin Retried'
            => status'[of'[j]] \in {"pending", "cancelled"}
    BY <1>1, <1>6, <1>9, <2>1, WaitingBefore DEF SoleInv
  <2> QED
    BY <1>1, <1>6, <2>1, <2>2, <2>3 DEF SoleInv, Retries
<1> QED
  BY <1>2, <1>3, <1>4, <1>5, <1>6, WhoMoves

(* Transfers that hold a slot which Create granted: those no call was      *)
(* started for yet, and those without a retry.  Create counts more than    *)
(* these, so there are never more of them than the limit.                  *)
Granted == {t \in Counted : status[t] = "pending" \/ t \notin Retried}

GrantInv == Cardinality(Granted) <= MaxActive

(* The transfers that count are finitely many. *)
LEMMA CountedFinite ==
  /\ IsFiniteSet(Counted) /\ Cardinality(Counted) \in Nat
  /\ IsFiniteSet(Granted) /\ Cardinality(Granted) \in Nat
  /\ Cardinality(Granted) <= Cardinality(Counted)
<1>1. IsFiniteSet(Counted)
  BY SendAssumption, FS_Subset DEF Counted
<1>2. Granted \subseteq Counted
  BY DEF Granted
<1> QED
  BY <1>1, <1>2, FS_Subset, FS_CardinalityType

LEMMA StepGrant ==
  ASSUME Base, SoleInv, GrantInv, [Next]_vars
  PROVE  GrantInv'
<1>1. TypeOK /\ OwnInv /\ MaxActive \in Nat /\ Retried \subseteq Retried'
  BY SendAssumption, RetriedStays DEF Base
<1>2. ASSUME Granted' \subseteq Granted PROVE GrantInv'
  <2>1. IsFiniteSet(Granted') /\ Cardinality(Granted') <= Cardinality(Granted)
    BY <1>2, CountedFinite, FS_Subset
  <2>2. Cardinality(Granted') \in Nat /\ Cardinality(Granted) \in Nat
    BY <2>1, CountedFinite, FS_CardinalityType
  <2> QED
    BY <1>1, <2>1, <2>2 DEF GrantInv
<1>3. ASSUME UNCHANGED status PROVE GrantInv'
  <2>1. Granted' \subseteq Granted
    BY <1>1, <1>3 DEF Granted, Counted
  <2> QED
    BY <1>2, <2>1
<1>4. ASSUME NEW k \in Calls, NEW t \in Transfers, Begins(k, t) PROVE GrantInv'
  <2>1. Granted' \subseteq Granted \cup {t}
    BY <1>1, <1>4 DEF Begins, Granted, Counted, TypeOK
  <2>2. /\ IsFiniteSet(Granted \cup {t})
        /\ Cardinality(Granted \cup {t}) <= Cardinality(Granted) + 1
        /\ Cardinality(Granted \cup {t}) \in Nat
    <3>1. CASE t \in Granted
      <4>1. Granted \cup {t} = Granted
        BY <3>1
      <4> QED
        BY <4>1, CountedFinite
    <3>2. CASE t \notin Granted
      BY <3>2, CountedFinite, FS_AddElement
    <3> QED
      BY <3>1, <3>2
  <2>3. Cardinality(Granted') \in Nat /\ Cardinality(Granted') <= Cardinality(Granted \cup {t})
    BY <2>1, <2>2, FS_Subset, FS_CardinalityType
  <2>4. Cardinality(Granted) < MaxActive
    <3>1. Cardinality(Counted) < MaxActive
      BY <1>4 DEF Begins
    <3> QED
      BY <1>1, <3>1, CountedFinite
  <2> QED
    BY <1>1, <2>2, <2>3, <2>4, CountedFinite DEF GrantInv
<1>5. ASSUME NEW t \in Transfers, Cancel(t) PROVE GrantInv'
  <2>1. Granted' \subseteq Granted
    BY <1>1, <1>5 DEF Cancel, Granted, Counted, TypeOK
  <2> QED
    BY <1>2, <2>1
<1>6. ASSUME NEW k \in Calls, NEW to \in Statuses \ {None, "pending"}, WorksOn(k, to)
      PROVE  GrantInv'
  <2>1. of[k] \in Transfers
    BY <1>1, <1>6 DEF WorksOn, OwnInv, Attached
  <2>2. status'[of[k]] = to /\ \A u \in Transfers : u # of[k] => status'[u] = status[u]
    BY <1>1, <1>6, <2>1 DEF WorksOn, Moves, TypeOK
  <2>3. CanTransition(status[of[k]], to) /\ status[of[k]] \in Statuses
    BY <1>1, <1>6, <2>1 DEF WorksOn, Moves, SoleInv, TypeOK
  <2>4. to = "connecting" /\ of[k] \notin Retried => status[of[k]] = "pending"
    BY <1>6, <2>3, Transitions DEF WorksOn, SoleInv, Waiting
  <2>5. to = "transferring" => status[of[k]] = "connecting"
    BY <2>3, Transitions DEF Statuses
  <2>6. Granted' \subseteq Granted
    BY <1>1, <2>2, <2>4, <2>5 DEF Granted, Counted
  <2> QED
    BY <1>2, <2>6
<1> QED
  BY <1>3, <1>4, <1>5, <1>6, WhoMoves

(* What counts beyond the granted slots is retaken: it is connecting or    *)
(* transferring, so some call is at work on it.                            *)
LEMMA OverrunIsRetaken ==
  ASSUME GrantInv, SlotInv
  PROVE  LimitOverrun
<1>1. Retaken \subseteq Transfers /\ Early \subseteq Working
  BY DEF Retaken, Retried, Early, Working
<1>2. IsFiniteSet(Retaken) /\ Cardinality(Retaken) \in Nat
  BY <1>1, SendAssumption, FS_Subset, FS_CardinalityType
<1>3. Counted \subseteq Granted \cup Retaken
  BY <1>1 DEF Counted, Granted, Retaken, SlotInv
<1>4. /\ IsFiniteSet(Granted \cup Retaken)
      /\ Cardinality(Granted \cup Retaken) <= Cardinality(Granted) + Cardinality(Retaken)
  <2>1. Cardinality(Granted \cap Retaken) \in Nat
    BY <1>2, FS_Subset, FS_CardinalityType
  <2>2. /\ IsFiniteSet(Granted \cup Retaken)
        /\ Cardinality(Granted \cup Retaken) =
              Cardinality(Granted) + Cardinality(Retaken) - Cardinality(Granted \cap Retaken)
    <3>1. IsFiniteSet(Granted)
      BY CountedFinite
    <3> QED
      BY <1>2, <3>1, FS_Union
  <2> QED
    BY <1>2, <2>1, <2>2, CountedFinite
<1>5. Cardinality(Granted \cup Retaken) \in Nat
  BY <1>4, FS_CardinalityType
<1>6. Cardinality(Counted) <= Cardinality(Granted \cup Retaken)
  BY <1>3, <1>4, FS_Subset
<1> QED
  BY <1>2, <1>4, <1>5, <1>6, CountedFinite, SendAssumption DEF GrantInv, LimitOverrun

(* A call past Register can be reached: its cancel func is in the registry *)
(* or on its way, unless a retry took its place. One that works on a       *)
(* cancelled transfer will be reached.                                     *)
Reached(k) == k \in ended \cup firing

CancelInv ==
    \A k \in Calls : of[k] \notin Retried =>
        /\ call[k] \in Working \cup {"connect"} => entry[of[k]] = k \/ Reached(k)
        /\ call[k] \in Working \ {"complete"} /\ status[of[k]] = "cancelled"
           => of[k] \in cancelling \/ Reached(k)

LEMMA ReachedStays ==
  ASSUME [Next]_vars, NEW k \in Calls, Reached(k)
  PROVE  Reached(k)'
  BY DEF Next, vars, SendFile, ContextEnds, Break, FireCancel, Execute, PeerTakes,
     HeaderFails, CreateTransfer, Resend, Cancel, TakeEntry, Stat, Create, Register, Connect,
     Dial, StartTransferring, StreamFile, Complete, Leave, ConnectionFails, Fail, Handshake,
     SendHeader, Write, Reached

(* How the registry changes. *)
LEMMA RegistryMoves ==
  ASSUME Base, [Next]_vars
  PROVE  \/ UNCHANGED <<entry, cancelling>>
         \/ \E t \in Transfers : Cancel(t)
         \/ \E t \in Transfers : TakeEntry(t)
         \/ \E k \in Calls : Register(k) \/ Leave(k)
  BY DEF Next, vars, SendFile, ContextEnds, Break, FireCancel, Execute, PeerTakes,
     HeaderFails, CreateTransfer, Resend, Stat, Create, Connect,
     Dial, StartTransferring, StreamFile, Complete, ConnectionFails, Fail, Handshake,
     SendHeader, Write

(* The entry of a call past Register stays until it is taken out to fire.  *)
LEMMA EntryStays ==
  ASSUME Base, SoleInv, [Next]_vars, NEW k \in Calls,
         call[k] \in Working \cup {"connect"}, entry[of[k]] = k, of[k] \notin Retried
  PROVE  entry'[of[k]] = k \/ Reached(k)'
<1>1. of[k] \in Transfers /\ TypeOK /\ OwnInv
  BY DEF Base, OwnInv, Attached
<1>2. ASSUME NEW t \in Transfers, TakeEntry(t)
      PROVE  entry'[of[k]] = k \/ Reached(k)'
  <2>1. CASE t = of[k]
    BY <1>1, <1>2, <2>1, NoneAssumption DEF TakeEntry, Reached
  <2>2. CASE t # of[k]
    BY <1>1, <1>2, <2>2 DEF TakeEntry, TypeOK
  <2> QED
    BY <2>1, <2>2
<1>3. ASSUME NEW j \in Calls, Register(j) \/ Leave(j)
      PROVE  entry'[of[k]] = k
  <2>1. j # k
    BY <1>3 DEF Register, Leave, Working
  <2>2. of[j] \in Transfers /\ of[j] # of[k]
    BY <1>1, <1>3, <2>1 DEF Register, Leave, OwnInv, Attached, SoleInv
  <2> QED
    BY <1>1, <1>3, <2>2 DEF Register, Leave, TypeOK
<1> QED
  BY <1>2, <1>3, RegistryMoves DEF Cancel

(* A call past Register was there before, or has just registered. *)
LEMMA RegisteredBefore ==
  ASSUME Base, [Next]_vars, NEW k \in Calls, call'[k] \in Working \cup {"connect"}
  PROVE  /\ of'[k] = of[k]
         /\ call[k] \in Working \cup {"connect"} \/ Register(k)
         /\ call'[k] \in Working \ {"complete"} =>
                \/ call[k] \in Working \ {"complete"}
                \/ call[k] = "connect" /\ Connect(k) /\ Updatable(of[k], "connecting")
<1>1. TypeOK /\ OwnInv
  BY DEF Base
<1>2. CASE call'[k] = call[k]
  BY <1>1, <1>2 DEF Next, vars, SendFile, ContextEnds, Break, FireCancel, Execute, PeerTakes,
     HeaderFails, CreateTransfer, Resend, Cancel, TakeEntry, Stat, Create, Register, Connect,
     Dial, StartTransferring, StreamFile, Complete, Leave, ConnectionFails, Fail, Handshake,
     SendHeader, Write, TypeOK, Working
<1>3. call'[k] # call[k] =>
        \/ SendFile(k) \/ Execute(k) \/ PeerTakes(k) \/ HeaderFails(k)
        \/ \E t \in Transfers : CreateTransfer(k, t) \/ Resend(k, t)
  BY <1>1 DEF Next, vars, SendFile, ContextEnds, Break, FireCancel, Execute, PeerTakes,
     HeaderFails, CreateTransfer, Resend, Cancel, TakeEntry, Stat, Create, Register, Connect,
     Dial, StartTransferring, StreamFile, Complete, Leave, ConnectionFails, Fail, Handshake,
     SendHeader, Write, Goto, TypeOK
<1>4. CASE SendFile(k) \/ Create(k) \/ Leave(k) \/ HeaderFails(k) \/ Complete(k)
           \/ \E t \in Transfers : CreateTransfer(k, t) \/ Resend(k, t)
  BY <1>1, <1>4 DEF SendFile, Create, Leave, HeaderFails, Complete, CreateTransfer, Resend,
     Goto, TypeOK, Working
<1>5. CASE Stat(k)
  BY <1>1, <1>5 DEF Stat, Goto, TypeOK, Working
<1>6. CASE Register(k) \/ Handshake(k) \/ SendHeader(k) \/ Write(k) \/ StartTransferring(k)
  BY <1>1, <1>6 DEF Register, Handshake, SendHeader, Write, StartTransferring, Goto, TypeOK, Working
<1>7. CASE Connect(k)
  BY <1>1, <1>7 DEF Connect, Goto, TypeOK, Working
<1>8. CASE Dial(k) \/ StreamFile(k) \/ ConnectionFails(k)
  BY <1>1, <1>8 DEF Dial, StreamFile, ConnectionFails, Fail, Goto, TypeOK, Working
<1> QED
  BY <1>2, <1>3, <1>4, <1>5, <1>6, <1>7, <1>8 DEF Execute, PeerTakes

LEMMA StepCancel ==
  ASSUME Base, SoleInv, CancelInv, [Next]_vars
  PROVE  CancelInv'
<1>1. TypeOK /\ OwnInv
  BY DEF Base
<1>4. Retried \subseteq Retried'
  BY RetriedStays
<1>2. ASSUME NEW k \in Calls, call'[k] \in Working \cup {"connect"}, of'[k] \notin Retried'
      PROVE  entry'[of'[k]] = k \/ Reached(k)'
  <2>1. CASE Register(k)
    BY <1>1, <2>1 DEF Register, TypeOK, OwnInv, Attached
  <2>2. CASE call[k] \in Working \cup {"connect"}
    <3>1. of'[k] = of[k] /\ of[k] \notin Retried
      BY <1>2, <1>4, RegisteredBefore
    <3>2. entry[of[k]] = k \/ Reached(k)
      BY <2>2, <3>1 DEF CancelInv
    <3> QED
      BY <2>2, <3>1, <3>2, EntryStays, ReachedStays
  <2> QED
    BY <1>2, <2>1, <2>2, RegisteredBefore
<1>3. ASSUME NEW k \in Calls, call'[k] \in Working \ {"complete"}, status'[of'[k]] = "cancelled",
             of'[k] \notin Retried'
      PROVE  of'[k] \in cancelling' \/ Reached(k)'
  <2>1. of'[k] = of[k] /\ of[k] \notin Retried
    BY <1>3, <1>4, RegisteredBefore
  <2>2. CASE call[k] = "connect" /\ Connect(k) /\ Updatable(of[k], "connecting")
    <3>1. of[k] \in Transfers
      BY <1>1, <2>2 DEF OwnInv, Attached
    <3>2. status'[of[k]] = "connecting"
      BY <1>1, <2>2, <3>1, UpdateStatusFacts DEF Connect, Statuses
    <3> QED
      BY <1>3, <2>1, <3>2
  <2>3. CASE call[k] \in Working \ {"complete"} /\ status[of[k]] = "cancelled"
    <3>1. of[k] \in Transfers
      BY <1>1, <2>3 DEF OwnInv, Attached
    <3>2. CASE Reached(k)
      BY <3>2, ReachedStays
    <3>3. CASE of[k] \in cancelling /\ ~Reached(k)
      <4>1. entry[of[k]] = k
        BY <2>1, <2>3, <3>3 DEF CancelInv
      <4>2. ASSUME NEW t \in Transfers, TakeEntry(t)
            PROVE  of[k] \in cancelling' \/ Reached(k)'
        <5>1. CASE t = of[k]
          BY <4>1, <4>2, <5>1, NoneAssumption DEF TakeEntry, Reached
        <5>2. CASE t # of[k]
          BY <3>3, <4>2, <5>2 DEF TakeEntry
        <5> QED
          BY <5>1, <5>2
      <4> QED
        BY <2>1, <3>3, <4>2, RegistryMoves DEF Cancel, Register, Leave
    <3> QED
      BY <2>1, <2>3, <3>2, <3>3 DEF CancelInv
  <2>4. CASE call[k] \in Working \ {"complete"} /\ status[of[k]] # "cancelled"
    <3>1. of[k] \in Transfers
      BY <1>1, <2>4 DEF OwnInv, Attached
    <3>2. ASSUME NEW t \in Transfers, Cancel(t)
          PROVE  of[k] \in cancelling'
      <4>1. t = of[k]
        BY <1>1, <1>3, <2>1, <2>4, <3>1, <3>2 DEF Cancel, TypeOK
      <4> QED
        BY <3>2, <4>1 DEF Cancel
    <3>3. ASSUME NEW j \in Calls, NEW to \in Statuses, WorksOn(j, to)
          PROVE  FALSE
      <4>1. of[j] \in Transfers
        BY <1>1, <3>3 DEF WorksOn, OwnInv, Attached
      <4>2. of[j] = of[k] /\ to = "cancelled"
        BY <1>1, <1>3, <2>1, <2>4, <3>1, <3>3, <4>1 DEF WorksOn, Moves, TypeOK
      <4>3. j = k
        BY <2>1, <4>1, <4>2 DEF SoleInv
      <4> QED
        BY <1>3, <3>3, <4>2, <4>3 DEF WorksOn, Working
    <3>4. ASSUME NEW j \in Calls, NEW t \in Transfers, Begins(j, t)
          PROVE  FALSE
      BY <1>1, <1>3, <2>1, <2>4, <3>1, <3>4 DEF Begins, TypeOK
    <3> QED
      BY <1>3, <2>1, <2>4, <3>2, <3>3, <3>4, WhoMoves
  <2> QED
    BY <1>3, <2>2, <2>3, <2>4, RegisteredBefore
<1> QED
  BY <1>2, <1>3 DEF CancelInv

(* The limit is passed by no more than the retried transfers that a call   *)
(* is at work on, whatever is retried, when and how often.                 *)
THEOREM SendLimit == Spec => []LimitOverrun
<1>1. Init => SoleInv /\ GrantInv /\ SlotInv
  <2> SUFFICES ASSUME Init PROVE SoleInv /\ GrantInv /\ SlotInv
    OBVIOUS
  <2>1. Granted = {}
    BY DEF Init, Granted, Counted, None
  <2>2. GrantInv
    BY <2>1, FS_EmptySet, SendAssumption DEF GrantInv
  <2>3. SoleInv /\ SlotInv
    BY NoneAssumption DEF Init, SoleInv, Waiting, SlotInv, None
  <2> QED
    BY <2>2, <2>3
<1>2. Base /\ SoleInv /\ GrantInv /\ SlotInv /\ [Next]_vars => (SoleInv /\ GrantInv /\ SlotInv)'
  BY StepSole, StepGrant, StepSlot
<1>3. GrantInv /\ SlotInv => LimitOverrun
  BY OverrunIsRetaken
<1> QED
  BY <1>1, <1>2, <1>3, SendBase, PTL DEF Spec

(* A cancellation reaches the call wherever it was when the cancellation   *)
(* came, unless the record is shared with a retry.                         *)
THEOREM SendCancel == Spec => []CancelReachesCalls
<1>1. Init => SoleInv /\ CancelInv
  BY NoneAssumption DEF Init, SoleInv, Waiting, CancelInv, Working
<1>2. Base /\ SoleInv /\ CancelInv /\ [Next]_vars => (SoleInv /\ CancelInv)'
  BY StepSole, StepCancel
<1>3. CancelInv => CancelReachesCalls
  BY DEF CancelInv, CancelReachesCalls, LeftRunning, Reached
<1> QED
  BY <1>1, <1>2, <1>3, SendBase, PTL DEF Spec
=============================================================================
