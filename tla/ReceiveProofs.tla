--------------------------- MODULE ReceiveProofs ---------------------------
(***************************************************************************)
(* Consent, expiry and slot ownership of the inbound side, for every       *)
(* number of connections, every concurrency limit and every capacity of    *)
(* the notify channel.                                                     *)
(***************************************************************************)
EXTENDS Receive, TLAPS

(* The statuses a record can have while its handler is at pc.  The user    *)
(* moves a record under its handler, so most places admit several.         *)
StatusAt(pc) ==
    CASE pc \in {"idle", "header", "register"} -> {"none"}
      [] pc = "prompt" ->
            {"pending", "accepting", "rejected", "cancelled", "expired"}
      [] pc \in {"check", "select"} ->
            {"prompting", "accepting", "rejected", "cancelled", "expired"}
      [] pc = "receive" -> {"accepting", "rejected", "cancelled"}
      [] pc \in {"save", "saving"} -> {"receiving", "rejected", "cancelled"}
      [] OTHER -> {"none"} \cup Terminal

(* A handler that Close stopped in its select leaves the record behind. *)
OwnsRecord(c) ==
    \/ status[c] \in StatusAt(handler[c])
    \/ /\ server # "open"
       /\ handler[c] = "done"
       /\ status[c] \in {"prompting", "accepting"}

Unanswered == {"none", "pending", "prompting", "expired"}

(* Only a record the user accepted leads to a file, and only one the user  *)
(* did not accept can expire.                                              *)
ConsentRecorded(c) ==
    /\ handler[c] \in {"receive", "save", "saving"} => c \in accepted
    /\ file[c] # "none" => c \in accepted
    /\ status[c] \in {"accepting", "receiving", "completed"} => c \in accepted
    /\ status[c] \in Unanswered => c \notin accepted

RecordInv(c) == OwnsRecord(c) /\ ConsentRecorded(c)

IInv == TypeOK /\ \A c \in Conns : RecordInv(c)

-----------------------------------------------------------------------------
(* UpdateStatus writes one record, and only along a valid transition. *)
LEMMA UpdateStatusFacts ==
    ASSUME TypeOK, NEW c \in Conns, NEW to \in Statuses, UpdateStatus(c, to)
    PROVE  /\ status' \in [Conns -> Statuses]
           /\ notify' \in 0 .. NotifyCap
           /\ \A d \in Conns : d # c => status'[d] = status[d]
           /\ status'[c] = IF status[c] = to \/ isValidTransition(status[c], to)
                           THEN to ELSE status[c]
BY ReceiveAssumption DEF UpdateStatus, Notify, TypeOK

(* A handler step moves the program counter of its own goroutine only. *)
LEMMA GotoFacts ==
    ASSUME TypeOK, NEW c \in Conns, NEW pc \in HandlerStates, Goto(c, pc)
    PROVE  /\ handler' \in [Conns -> HandlerStates]
           /\ handler'[c] = pc
           /\ \A d \in Conns : d # c => handler'[d] = handler[d]
BY DEF Goto, TypeOK

(* What a step does not touch keeps its invariant. *)
LEMMA Untouched ==
    ASSUME NEW d \in Conns, RecordInv(d), server' = server,
           status'[d] = status[d], handler'[d] = handler[d], file'[d] = file[d],
           d \in accepted' <=> d \in accepted
    PROVE  RecordInv(d)'
BY DEF RecordInv, OwnsRecord, ConsentRecorded

LEMMA InitInvariant == Init => IInv
<1> SUFFICES ASSUME Init
             PROVE  IInv
    OBVIOUS
<1>1. TypeOK
    <2>1. /\ status \in [Conns -> Statuses]
          /\ handler \in [Conns -> HandlerStates]
          /\ peer \in [Conns -> PeerStates]
          /\ file \in [Conns -> {"none", "partial", "whole"}]
        BY DEF Init, Statuses, HandlerStates, PeerStates
    <2>2. notify \in 0 .. NotifyCap /\ due \in SUBSET Conns
          /\ accepted \in SUBSET Conns /\ server \in {"open", "quitting", "closed"}
        BY ReceiveAssumption DEF Init
    <2>3. QED
        BY <2>1, <2>2 DEF TypeOK
<1>2. ASSUME NEW c \in Conns
      PROVE  RecordInv(c)
    BY <1>2 DEF Init, RecordInv, OwnsRecord, ConsentRecorded, StatusAt
<1>3. QED
    BY <1>1, <1>2 DEF IInv

(* The user's three answers. *)
LEMMA UserStep ==
    ASSUME IInv, NEW c \in Conns, Accept(c) \/ Reject(c) \/ Cancel(c)
    PROVE  IInv'
<1> USE DEF IInv
<1>1. PICK to \in {"accepting", "rejected", "cancelled"} :
        /\ status' = [status EXCEPT ![c] = to]
        /\ status[c] # "none"
        /\ to = "accepting" => /\ status[c] \in {"pending", "prompting"}
                               /\ accepted' = accepted \cup {c}
        /\ to # "accepting" => accepted' = accepted
        /\ Notify
        /\ server = "open"
        /\ UNCHANGED <<due, handler, peer, file, server>>
    BY DEF Accept, Reject, Cancel
<1>2. \A d \in Conns : status'[d] = IF d = c THEN to ELSE status[d]
    BY <1>1 DEF TypeOK
<1>3. notify' \in 0 .. NotifyCap
    BY <1>1, ReceiveAssumption DEF Notify, TypeOK
<1>4. status' \in [Conns -> Statuses] /\ accepted' \in SUBSET Conns
    BY <1>1 DEF TypeOK, Statuses
<1>5. TypeOK'
    BY <1>1, <1>3, <1>4 DEF TypeOK
<1>6. OwnsRecord(c)'
    <2>1. status[c] \in StatusAt(handler[c])
        BY <1>1 DEF RecordInv, OwnsRecord
    <2>2. to \in StatusAt(handler[c])
        BY <1>1, <2>1 DEF StatusAt, Terminal, TypeOK, HandlerStates
    <2>3. QED
        BY <1>1, <1>2, <2>2 DEF OwnsRecord
<1>7. ConsentRecorded(c)'
    BY <1>1, <1>2 DEF RecordInv, ConsentRecorded, Unanswered
<1>8. ASSUME NEW d \in Conns, d # c
      PROVE  RecordInv(d)'
    BY <1>1, <1>2, <1>8, Untouched
<1>9. QED
    BY <1>5, <1>6, <1>7, <1>8 DEF RecordInv

(* A deadline, and what the peer sends, touch no record. *)
LEMMA EnvironmentStep ==
    ASSUME IInv, NEW c \in Conns,
           DeadlinePasses(c) \/ \E what \in PeerStates : PeerSends(c, what)
    PROVE  IInv'
<1>1. UNCHANGED <<status, notify, handler, file, accepted, server>>
    BY DEF DeadlinePasses, PeerSends
<1>2. due' \in SUBSET Conns
    BY DEF IInv, TypeOK, DeadlinePasses, PeerSends
<1>3. peer' \in [Conns -> PeerStates]
    BY DEF IInv, TypeOK, DeadlinePasses, PeerSends
<1>4. TypeOK'
    BY <1>1, <1>2, <1>3 DEF IInv, TypeOK
<1>5. ASSUME NEW d \in Conns
      PROVE  RecordInv(d)'
    BY <1>1, Untouched DEF IInv
<1>6. QED
    BY <1>4, <1>5 DEF IInv

(* The expiry loop moves only records nobody accepted. *)
LEMMA ExpiryStep ==
    ASSUME IInv, ExpireExpired
    PROVE  IInv'
<1> USE DEF IInv
<1>1. /\ status' = [d \in Conns |-> IF d \in Overdue THEN "expired" ELSE status[d]]
      /\ server = "open"
      /\ UNCHANGED <<notify, due, handler, peer, file, accepted, server>>
    BY DEF ExpireExpired
<1>2. status' \in [Conns -> Statuses]
    BY <1>1 DEF TypeOK, Statuses
<1>3. TypeOK'
    BY <1>1, <1>2 DEF TypeOK
<1>4. ASSUME NEW d \in Conns, d \in Overdue
      PROVE  RecordInv(d)'
    <2>1. status[d] \in {"pending", "prompting"} /\ status'[d] = "expired"
        BY <1>1, <1>4 DEF Overdue
    <2>2. status[d] \in StatusAt(handler[d])
        BY <1>1 DEF RecordInv, OwnsRecord
    <2>3. handler[d] \in {"prompt", "check", "select"}
        BY <2>1, <2>2 DEF StatusAt, Terminal, TypeOK, HandlerStates
    <2>4. OwnsRecord(d)'
        BY <1>1, <2>1, <2>3 DEF OwnsRecord, StatusAt
    <2>5. ConsentRecorded(d)'
        BY <1>1, <2>1 DEF RecordInv, ConsentRecorded, Unanswered
    <2>6. QED
        BY <2>4, <2>5 DEF RecordInv
<1>5. ASSUME NEW d \in Conns, d \notin Overdue
      PROVE  RecordInv(d)'
    BY <1>1, <1>5, Untouched
<1>6. QED
    BY <1>3, <1>4, <1>5

-----------------------------------------------------------------------------
(* The steps of a handler.  Each leaves the other connections alone, so    *)
(* only the record of its own connection is looked at.                     *)

LEMMA OwnStep ==
    ASSUME IInv, NEW c \in Conns, TypeOK',
           UNCHANGED <<accepted, server>>,
           \A d \in Conns : d # c => /\ status'[d] = status[d]
                                     /\ handler'[d] = handler[d]
                                     /\ file'[d] = file[d],
           RecordInv(c)'
    PROVE  IInv'
<1>1. ASSUME NEW d \in Conns, d # c
      PROVE  RecordInv(d)'
    BY <1>1, Untouched DEF IInv
<1>2. QED
    BY <1>1 DEF IInv

(* The steps that only move the program counter. *)
LEMMA QuietStep ==
    ASSUME IInv, NEW c \in Conns,
           Arrive(c) \/ ReadHeader(c) \/ Check(c) \/ Wake(c) \/ Quit(c)
    PROVE  IInv'
<1> USE DEF IInv
<1>1. PICK pc \in HandlerStates :
        /\ Goto(c, pc)
        /\ UNCHANGED <<status, due, peer, file, accepted, server>>
        /\ \/ handler[c] = "idle" /\ pc = "header"
           \/ handler[c] = "header" /\ pc \in {"register", "done"}
           \/ /\ handler[c] = "check"
              /\ pc = CASE status[c] = "accepting" -> "receive"
                        [] status[c] \in {"rejected", "cancelled", "expired"} -> "done"
                        [] OTHER -> "select"
           \/ handler[c] = "select" /\ pc = "check"
           \/ handler[c] = "select" /\ pc = "done" /\ server # "open"
    BY DEF Arrive, ReadHeader, Check, Wake, Quit, HandlerStates
<1>2. notify' \in 0 .. NotifyCap
    <2>1. UNCHANGED notify \/ (notify > 0 /\ notify' = notify - 1)
        BY DEF Arrive, ReadHeader, Check, Wake, Quit
    <2>2. QED
        BY <2>1, ReceiveAssumption DEF TypeOK
<1>3. /\ handler' \in [Conns -> HandlerStates]
      /\ handler'[c] = pc
      /\ \A d \in Conns : d # c => handler'[d] = handler[d]
    BY <1>1, GotoFacts
<1>4. TypeOK'
    BY <1>1, <1>2, <1>3 DEF TypeOK
<1>5. status[c] \in StatusAt(handler[c])
    BY <1>1 DEF RecordInv, OwnsRecord
<1>6. OwnsRecord(c)'
    BY <1>1, <1>3, <1>5 DEF OwnsRecord, StatusAt, Terminal
<1>7. pc \notin {"save", "saving"} /\ (pc = "receive" => status[c] = "accepting")
    BY <1>1
<1>8. ConsentRecorded(c)'
    BY <1>1, <1>3, <1>7 DEF RecordInv, ConsentRecorded
<1>9. QED
    BY <1>1, <1>3, <1>4, <1>6, <1>8, OwnStep DEF RecordInv

LEMMA RegisterStep ==
    ASSUME IInv, NEW c \in Conns, Register(c)
    PROVE  IInv'
<1> USE DEF IInv
<1>1. /\ handler[c] = "register"
      /\ UNCHANGED <<notify, due, peer, file, accepted, server>>
      /\ \/ Goto(c, "done") /\ UNCHANGED status
         \/ Goto(c, "prompt") /\ status' = [status EXCEPT ![c] = "pending"]
    BY DEF Register
<1>2. PICK pc \in {"done", "prompt"} :
        /\ Goto(c, pc)
        /\ pc = "done" => UNCHANGED status
        /\ pc = "prompt" => status' = [status EXCEPT ![c] = "pending"]
    BY <1>1
<1>3. /\ handler' \in [Conns -> HandlerStates]
      /\ handler'[c] = pc
      /\ \A d \in Conns : d # c => handler'[d] = handler[d]
    BY <1>2, GotoFacts DEF HandlerStates
<1>4. /\ status' \in [Conns -> Statuses]
      /\ \A d \in Conns : d # c => status'[d] = status[d]
      /\ pc = "prompt" => status'[c] = "pending"
    BY <1>2 DEF TypeOK, Statuses
<1>5. TypeOK'
    BY <1>1, <1>3, <1>4 DEF TypeOK
<1>6. status[c] = "none"
    BY <1>1 DEF RecordInv, OwnsRecord, StatusAt
<1>7. OwnsRecord(c)'
    BY <1>2, <1>3, <1>4, <1>6 DEF OwnsRecord, StatusAt
<1>8. ConsentRecorded(c)'
    BY <1>1, <1>2, <1>3, <1>4, <1>6 DEF RecordInv, ConsentRecorded, Unanswered
<1>9. QED
    BY <1>1, <1>3, <1>4, <1>5, <1>7, <1>8, OwnStep DEF RecordInv

(* The steps that report a status on the way. *)
LEMMA ReportStep ==
    ASSUME IInv, NEW c \in Conns, Prompt(c) \/ StartReceiving(c)
    PROVE  IInv'
<1> USE DEF IInv
<1>1. PICK to \in {"prompting", "receiving"}, pc \in {"check", "save"} :
        /\ UpdateStatus(c, to) /\ Goto(c, pc)
        /\ UNCHANGED <<due, peer, file, accepted, server>>
        /\ \/ handler[c] = "prompt" /\ to = "prompting" /\ pc = "check"
           \/ handler[c] = "receive" /\ to = "receiving" /\ pc = "save"
    BY DEF Prompt, StartReceiving
<1>2. /\ handler' \in [Conns -> HandlerStates]
      /\ handler'[c] = pc
      /\ \A d \in Conns : d # c => handler'[d] = handler[d]
    BY <1>1, GotoFacts DEF HandlerStates
<1>3. /\ status' \in [Conns -> Statuses]
      /\ notify' \in 0 .. NotifyCap
      /\ \A d \in Conns : d # c => status'[d] = status[d]
      /\ status'[c] = IF status[c] = to \/ isValidTransition(status[c], to)
                      THEN to ELSE status[c]
    BY <1>1, UpdateStatusFacts DEF Statuses
<1>4. TypeOK'
    BY <1>1, <1>2, <1>3 DEF TypeOK
<1>5. status[c] \in StatusAt(handler[c])
    BY <1>1 DEF RecordInv, OwnsRecord
<1>6. OwnsRecord(c)'
    BY <1>1, <1>2, <1>3, <1>5 DEF OwnsRecord, StatusAt, isValidTransition
<1>7. ConsentRecorded(c)
    BY DEF RecordInv
<1>8. ConsentRecorded(c)'
    BY <1>1, <1>2, <1>3, <1>5, <1>7
       DEF ConsentRecorded, Unanswered, StatusAt, isValidTransition
<1>9. QED
    BY <1>1, <1>2, <1>3, <1>4, <1>6, <1>8, OwnStep DEF RecordInv

(* SaveFile, from the creation of the file to its last status. *)
LEMMA SaveStep ==
    ASSUME IInv, NEW c \in Conns, CreateFile(c) \/ SaveReturns(c)
    PROVE  IInv'
<1> USE DEF IInv
<1>1. /\ handler[c] \in {"save", "saving"}
      /\ UNCHANGED <<due, peer, accepted, server>>
    BY DEF CreateFile, SaveReturns
<1>2. status[c] \in {"receiving", "rejected", "cancelled"}
    BY <1>1 DEF RecordInv, OwnsRecord, StatusAt
<1>3. c \in accepted
    BY <1>1 DEF RecordInv, ConsentRecorded
<1>4. /\ file' \in [Conns -> {"none", "partial", "whole"}]
      /\ \A d \in Conns : d # c => file'[d] = file[d]
    BY DEF CreateFile, SaveReturns, TypeOK
<1>5. CASE UNCHANGED <<status, notify>> /\ Goto(c, "saving")
    <2>1. /\ handler' \in [Conns -> HandlerStates]
          /\ handler'[c] = "saving"
          /\ \A d \in Conns : d # c => handler'[d] = handler[d]
        BY <1>5, GotoFacts DEF HandlerStates
    <2>2. TypeOK'
        BY <1>1, <1>4, <1>5, <2>1 DEF TypeOK
    <2>3. OwnsRecord(c)'
        BY <1>2, <1>5, <2>1 DEF OwnsRecord, StatusAt
    <2>4. ConsentRecorded(c)'
        BY <1>1, <1>2, <1>3, <1>5, <2>1 DEF ConsentRecorded, Unanswered
    <2>5. QED
        BY <1>1, <1>4, <1>5, <2>1, <2>2, <2>3, <2>4, OwnStep DEF RecordInv
<1>6. CASE \E to \in {"failed", "completed"} : UpdateStatus(c, to) /\ Goto(c, "done")
    <2>1. PICK to \in {"failed", "completed"} : UpdateStatus(c, to) /\ Goto(c, "done")
        BY <1>6
    <2>2. /\ handler' \in [Conns -> HandlerStates]
          /\ handler'[c] = "done"
          /\ \A d \in Conns : d # c => handler'[d] = handler[d]
        BY <2>1, GotoFacts DEF HandlerStates
    <2>3. /\ status' \in [Conns -> Statuses]
          /\ notify' \in 0 .. NotifyCap
          /\ \A d \in Conns : d # c => status'[d] = status[d]
          /\ status'[c] = IF status[c] = to \/ isValidTransition(status[c], to)
                          THEN to ELSE status[c]
        BY <2>1, UpdateStatusFacts DEF Statuses
    <2>4. TypeOK'
        BY <1>1, <1>4, <2>2, <2>3 DEF TypeOK
    <2>5. status'[c] \in {"failed", "completed", "rejected", "cancelled"}
        BY <1>2, <2>1, <2>3 DEF isValidTransition
    <2>6. OwnsRecord(c)'
        BY <2>2, <2>5 DEF OwnsRecord, StatusAt, Terminal
    <2>7. ConsentRecorded(c)'
        BY <1>1, <1>3, <2>5 DEF ConsentRecorded, Unanswered
    <2>8. QED
        BY <1>1, <1>4, <2>2, <2>3, <2>4, <2>6, <2>7, OwnStep DEF RecordInv
<1>7. QED
    BY <1>5, <1>6 DEF CreateFile, SaveReturns

(* Close and its return move no record; a handler in its select keeps one  *)
(* of the statuses it may have there.                                      *)
LEMMA ServerStep ==
    ASSUME IInv, Close \/ CloseReturns
    PROVE  IInv'
<1> USE DEF IInv
<1>1. /\ server' \in {"quitting", "closed"}
      /\ UNCHANGED <<status, notify, due, handler, peer, file, accepted>>
    BY DEF Close, CloseReturns
<1>2. TypeOK'
    BY <1>1 DEF TypeOK
<1>3. ASSUME NEW d \in Conns
      PROVE  RecordInv(d)'
    BY <1>1 DEF RecordInv, OwnsRecord, ConsentRecorded
<1>4. QED
    BY <1>2, <1>3

LEMMA InvariantStep == IInv /\ [Next]_vars => IInv'
<1> SUFFICES ASSUME IInv, [Next]_vars
             PROVE  IInv'
    OBVIOUS
<1>1. CASE \E c \in Conns : Accept(c) \/ Reject(c) \/ Cancel(c)
    BY <1>1, UserStep
<1>2. CASE \E c \in Conns :
              DeadlinePasses(c) \/ \E what \in PeerStates : PeerSends(c, what)
    BY <1>2, EnvironmentStep
<1>3. CASE ExpireExpired
    BY <1>3, ExpiryStep
<1>4. CASE \E c \in Conns :
              Arrive(c) \/ ReadHeader(c) \/ Check(c) \/ Wake(c) \/ Quit(c)
    BY <1>4, QuietStep
<1>5. CASE \E c \in Conns : Register(c)
    BY <1>5, RegisterStep
<1>6. CASE \E c \in Conns : Prompt(c) \/ StartReceiving(c)
    BY <1>6, ReportStep
<1>7. CASE \E c \in Conns : CreateFile(c) \/ SaveReturns(c)
    BY <1>7, SaveStep
<1>8. CASE Close \/ CloseReturns
    BY <1>8, ServerStep
<1>9. CASE UNCHANGED vars
    <2>1. UNCHANGED <<status, notify, due, handler, peer, file, accepted, server>>
        BY <1>9 DEF vars
    <2>2. TypeOK'
        BY <2>1 DEF IInv, TypeOK
    <2>3. ASSUME NEW d \in Conns
          PROVE  RecordInv(d)'
        BY <2>1, Untouched DEF IInv
    <2>4. QED
        BY <2>2, <2>3 DEF IInv
<1>10. QED
    BY <1>1, <1>2, <1>3, <1>4, <1>5, <1>6, <1>7, <1>8, <1>9 DEF Next, Handle

-----------------------------------------------------------------------------
(* The records and program counters stay together under every interleaving *)
(* of handlers, user, expiry loop, peers and shutdown.                     *)
THEOREM ReceiveInvariant == Spec => []IInv
BY InitInvariant, InvariantStep, PTL DEF Spec

(* Every variable of the receive manager and its handlers keeps its type;  *)
(* in particular the notify channel never exceeds its capacity.            *)
THEOREM ReceiveTypeOK == Spec => []TypeOK
<1>1. IInv => TypeOK
    BY DEF IInv
<1>2. QED
    BY <1>1, ReceiveInvariant, PTL

(* SaveFile writes nothing for an incoming the user did not accept. *)
THEOREM ReceiveConsent == Spec => []ConsentRequired
<1>1. IInv => ConsentRequired
    BY DEF IInv, RecordInv, ConsentRecorded, ConsentRequired
<1>2. QED
    BY <1>1, ReceiveInvariant, PTL

(* An incoming the expiry loop expired was not accepted, and an accepted   *)
(* one does not expire.                                                    *)
THEOREM ReceiveExpiry == Spec => []ExpiredNotAccepted
<1>1. IInv => ExpiredNotAccepted
    BY DEF IInv, RecordInv, ConsentRecorded, ExpiredNotAccepted, Unanswered
<1>2. QED
    BY <1>1, ReceiveInvariant, PTL

(* While the server is open, a record that ActiveCount counts belongs to a *)
(* connected handler that has not returned.                                *)
THEOREM ReceiveSlots == Spec => []SlotsHaveHandlers
<1>1. IInv => SlotsHaveHandlers
    <2> SUFFICES ASSUME IInv, server = "open", NEW c \in Counted
                 PROVE  handler[c] \notin {"idle", "done"}
        BY DEF SlotsHaveHandlers
    <2>1. c \in Conns /\ status[c] \in {"prompting", "accepting", "receiving"}
        BY DEF Counted
    <2>2. status[c] \in StatusAt(handler[c])
        BY <2>1 DEF IInv, RecordInv, OwnsRecord
    <2>3. QED
        BY <2>1, <2>2 DEF StatusAt, Terminal
<1>2. QED
    BY <1>1, ReceiveInvariant, PTL

(* An incoming that ended, in whatever way, never comes back to a status   *)
(* that asks the user, takes a slot or is served: what Reject, Cancel and  *)
(* a late handler write after the end is an end as well.                   *)
THEOREM ReceiveEnds == Spec => EndedStaysEnded
<1>1. ASSUME IInv, [Next]_vars, NEW c \in Conns, status[c] \in Terminal
      PROVE  status'[c] \in Terminal
    <2> USE DEF IInv
    <2>1. handler[c] \notin {"idle", "header", "register"}
        BY <1>1 DEF RecordInv, OwnsRecord, StatusAt, Terminal
    <2>2. CASE \E d \in Conns : Accept(d) \/ Reject(d) \/ Cancel(d)
        BY <1>1, <2>2 DEF Accept, Reject, Cancel, TypeOK, Terminal
    <2>3. CASE ExpireExpired
        BY <1>1, <2>3 DEF ExpireExpired, Terminal
    <2>4. CASE \E d \in Conns : Register(d)
        BY <1>1, <2>1, <2>4 DEF Register, TypeOK
    <2>5. ASSUME NEW d \in Conns, NEW to \in Statuses, UpdateStatus(d, to)
          PROVE  status'[c] \in Terminal
        <3>1. ~ isValidTransition(status[c], to)
            BY <1>1 DEF isValidTransition, Terminal
        <3>2. QED
            BY <1>1, <2>5, <3>1 DEF UpdateStatus, TypeOK
    <2>6. CASE \E d \in Conns :
                  Prompt(d) \/ StartReceiving(d) \/ CreateFile(d) \/ SaveReturns(d)
        BY <1>1, <2>5, <2>6
        DEF Prompt, StartReceiving, CreateFile, SaveReturns, Statuses
    <2>7. CASE UNCHANGED status
        BY <1>1, <2>7
    <2>8. QED
        BY <1>1, <2>2, <2>3, <2>4, <2>6, <2>7
        DEF Next, Handle, DeadlinePasses, PeerSends, Arrive, ReadHeader, Check, Wake, Quit,
            Close, CloseReturns, vars
<1>2. IInv /\ [Next]_vars
          => [\A c \in Conns : status[c] \in Terminal => status'[c] \in Terminal]_vars
    BY <1>1
<1>3. QED
    BY <1>2, ReceiveInvariant, PTL DEF Spec, EndedStaysEnded
=============================================================================
