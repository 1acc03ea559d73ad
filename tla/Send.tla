-------------------------------- MODULE Send --------------------------------
(***************************************************************************)
(* The outbound side of a transfer: the transfer manager with its state    *)
(* machine (core/transfer/manager.go, state.go), the cancel registry       *)
(* (core/transfer/cancel.go) and the goroutines that run                   *)
(* SendFileUseCase.Execute (core/usecase/send.go), started by the HTTP API *)
(* or by the mobile bridge.                                                *)
(*                                                                         *)
(* A call is one invocation of Execute.  A step is one critical section of *)
(* the manager or of the registry, or one blocking operation of a call.    *)
(***************************************************************************)
EXTENDS Integers, FiniteSets

CONSTANTS Transfers,  \* transfer ids
          Calls,      \* invocations of Execute
          Resends,    \* calls that are given the id of a transfer
          MaxActive,  \* Manager.maxActive
          Chunks      \* reads it takes to stream the file

ASSUME SendAssumption ==
    /\ IsFiniteSet(Transfers) /\ Resends \subseteq Calls
    /\ MaxActive \in Nat \ {0} /\ Chunks \in Nat

None == "none"
ASSUME NoneAssumption == None \notin Transfers /\ None \notin Calls

VARIABLES
    status,      \* Transfer.Status, None before Create
    entry,       \* CancelRegistry.entries: the call whose cancel is stored
    call,        \* program counter of Execute
    of,          \* transfer a call works on
    ended,       \* calls whose context is done
    sent,        \* chunks of the body a call has written
    broken,      \* calls whose connection the peer or the network broke
    cancelling,  \* transfers between the two critical sections of Cancel
    firing       \* calls whose cancel func the registry is about to invoke

vars == <<status, entry, call, of, ended, sent, broken, cancelling, firing>>

Statuses == {None, "pending", "connecting", "transferring", "completed",
             "failed", "cancelled", "awaiting_resume"}

CallStates ==
    {"idle",          \* not invoked
     "stat",          \* about to stat the file
     "create",        \* about to create the transfer
     "register",      \* about to register its cancel func
     "connect",       \* about to set connecting
     "dial",          \* in DialContext
     "handshake",     \* in the Noise handshake
     "transferring",  \* about to set transferring
     "header",        \* in sendHeader
     "stream",        \* at the top of the loop of streamFile
     "write",         \* in Write of a chunk
     "complete",      \* about to set completed
     "leave",         \* running its deferred functions
     "returned"}

Init ==
    /\ status = [t \in Transfers |-> None]
    /\ entry = [t \in Transfers |-> None]
    /\ call = [k \in Calls |-> "idle"]
    /\ of = [k \in Calls |-> None]
    /\ ended = {}
    /\ sent = [k \in Calls |-> 0]
    /\ broken = {}
    /\ cancelling = {}
    /\ firing = {}

-----------------------------------------------------------------------------
(* The manager and its state machine.                                      *)

defaultTransitions ==
    [from \in Statuses |->
        CASE from = "pending"         -> {"connecting", "cancelled", "failed"}
          [] from = "connecting"      -> {"transferring", "failed", "cancelled",
                                          "awaiting_resume"}
          [] from = "transferring"    -> {"completed", "failed", "cancelled",
                                          "awaiting_resume"}
          [] from = "awaiting_resume" -> {"connecting", "cancelled", "failed"}
          [] from = "failed"          -> {"connecting"}
          [] OTHER                    -> {}]

CanTransition(from, to) == to \in defaultTransitions[from]

(* Mistake: the state machine is not consulted. *)
UpdatableAlways(t, to) == status[t] # None /\ to \in Statuses

(* UpdateStatus succeeds. *)
Updatable(t, to) == status[t] = to \/ CanTransition(status[t], to)

(* UpdateStatus by a caller that ignores its error. *)
UpdateStatus(t, to) ==
    status' = IF Updatable(t, to) THEN [status EXCEPT ![t] = to] ELSE status

Counted == {t \in Transfers : status[t] \in {"pending", "connecting", "transferring"}}

(* Mistake: off by one. *)
CanCreateOneMore(t) == status[t] = None /\ Cardinality(Counted) <= MaxActive

CanCreate(t) == status[t] = None /\ Cardinality(Counted) < MaxActive

Goto(k, pc) == call' = [call EXCEPT ![k] = pc]

-----------------------------------------------------------------------------
(* Who calls Execute.                                                      *)

(* handleCreateTransfer creates the record, then starts the call. *)
CreateTransfer(k, t) ==
    /\ k \notin Resends
    /\ call[k] = "idle"
    /\ CanCreate(t)
    /\ status' = [status EXCEPT ![t] = "pending"]
    /\ of' = [of EXCEPT ![k] = t]
    /\ Goto(k, "stat")
    /\ UNCHANGED <<entry, ended, sent, broken, cancelling, firing>>

(* Bridge.SendFile without a transfer id. *)
SendFile(k) ==
    /\ k \notin Resends
    /\ call[k] = "idle"
    /\ Goto(k, "stat")
    /\ UNCHANGED <<status, entry, of, ended, sent, broken, cancelling, firing>>

(* Bridge.SendFile with the id of a transfer, whatever became of it.       *)
Resend(k, t) ==
    /\ k \in Resends
    /\ call[k] = "idle"
    /\ status[t] # None
    /\ of' = [of EXCEPT ![k] = t]
    /\ Goto(k, "stat")
    /\ UNCHANGED <<status, entry, ended, sent, broken, cancelling, firing>>

(* The parent context of a call ends: the deadline of Bridge.SendFile, or  *)
(* the shutdown of the server.                                             *)
ContextEnds(k) ==
    /\ call[k] \notin {"idle", "returned"} /\ k \notin ended
    /\ ended' = ended \cup {k}
    /\ UNCHANGED <<status, entry, call, of, sent, broken, cancelling, firing>>

(* The peer or the network breaks a connection. *)
Break(k) ==
    /\ call[k] \in {"handshake", "transferring", "header", "stream", "write"}
    /\ k \notin broken
    /\ broken' = broken \cup {k}
    /\ UNCHANGED <<status, entry, call, of, ended, sent, cancelling, firing>>

-----------------------------------------------------------------------------
(* Manager.Cancel marks the record, releases its lock, then goes to the    *)
(* registry, which takes the entry out, releases its lock and invokes it.  *)

Cancel(t) ==
    /\ CanTransition(status[t], "cancelled")
    /\ status' = [status EXCEPT ![t] = "cancelled"]
    /\ cancelling' = cancelling \cup {t}
    /\ UNCHANGED <<entry, call, of, ended, sent, broken, firing>>

TakeEntry(t) ==
    /\ t \in cancelling
    /\ cancelling' = cancelling \ {t}
    /\ firing' = firing \cup ({entry[t]} \ {None})
    /\ entry' = [entry EXCEPT ![t] = None]
    /\ UNCHANGED <<status, call, of, ended, sent, broken>>

FireCancel(k) ==
    /\ k \in firing
    /\ firing' = firing \ {k}
    /\ ended' = ended \cup {k}
    /\ UNCHANGED <<status, entry, call, of, sent, broken, cancelling>>

-----------------------------------------------------------------------------
(* Execute.                                                                *)

(* When the file is gone or a directory the call returns at once. *)
Stat(k) ==
    /\ call[k] = "stat"
    /\ \/ Goto(k, IF of[k] = None THEN "create" ELSE "register")
       \/ Goto(k, "returned")
    /\ UNCHANGED <<status, entry, of, ended, sent, broken, cancelling, firing>>

Create(k) ==
    /\ call[k] = "create"
    /\ \/ \E t \in Transfers :
            /\ CanCreate(t)
            /\ status' = [status EXCEPT ![t] = "pending"]
            /\ of' = [of EXCEPT ![k] = t]
            /\ Goto(k, "register")
       \/ /\ Cardinality(Counted) >= MaxActive
          /\ Goto(k, "returned")
          /\ UNCHANGED <<status, of>>
    /\ UNCHANGED <<entry, ended, sent, broken, cancelling, firing>>

Register(k) ==
    /\ call[k] = "register"
    /\ entry' = [entry EXCEPT ![of[k]] = k]
    /\ Goto(k, "connect")
    /\ UNCHANGED <<status, of, ended, sent, broken, cancelling, firing>>

(* Mistake: the error of UpdateStatus is ignored here as it is elsewhere. *)
ConnectRegardless(k) ==
    /\ call[k] = "connect"
    /\ UpdateStatus(of[k], "connecting")
    /\ Goto(k, "dial")
    /\ UNCHANGED <<entry, of, ended, sent, broken, cancelling, firing>>

Connect(k) ==
    /\ call[k] = "connect"
    /\ UpdateStatus(of[k], "connecting")
    /\ Goto(k, IF Updatable(of[k], "connecting") THEN "dial" ELSE "leave")
    /\ UNCHANGED <<entry, of, ended, sent, broken, cancelling, firing>>

(* Mistake: a context that ended is left to Cancel to report. *)
FailSilently(k) ==
    /\ IF k \in ended THEN UNCHANGED status ELSE UpdateStatus(of[k], "failed")
    /\ Goto(k, "leave")
    /\ UNCHANGED <<entry, of, ended, sent, broken, cancelling, firing>>

(* How Execute reports an error it met while its context may have ended. *)
Fail(k) ==
    /\ UpdateStatus(of[k], IF k \in ended THEN "cancelled" ELSE "failed")
    /\ Goto(k, "leave")
    /\ UNCHANGED <<entry, of, ended, sent, broken, cancelling, firing>>

(* Establishing the connection heeds the context, the handshake does not. *)
Dial(k) ==
    /\ call[k] = "dial"
    /\ \/ /\ k \notin ended
          /\ Goto(k, "handshake")
          /\ UNCHANGED <<status, entry, of, ended, sent, broken, cancelling, firing>>
       \/ Fail(k)

(* The peer answers. *)
Handshake(k) ==
    /\ call[k] = "handshake" /\ k \notin broken
    /\ Goto(k, "transferring")
    /\ UNCHANGED <<status, entry, of, ended, sent, broken, cancelling, firing>>

StartTransferring(k) ==
    /\ call[k] = "transferring"
    /\ UpdateStatus(of[k], "transferring")
    /\ Goto(k, "header")
    /\ UNCHANGED <<entry, of, ended, sent, broken, cancelling, firing>>

(* The peer takes the header. *)
SendHeader(k) ==
    /\ call[k] = "header" /\ k \notin broken
    /\ Goto(k, "stream")
    /\ UNCHANGED <<status, entry, of, ended, sent, broken, cancelling, firing>>

(* Mistake: the failure is not recorded. *)
HeaderFailsSilently(k) ==
    /\ call[k] = "header"
    /\ Goto(k, "leave")
    /\ UNCHANGED <<status, entry, of, ended, sent, broken, cancelling, firing>>

(* The write fails, or the name of the file does not fit in a header. *)
HeaderFails(k) ==
    /\ call[k] = "header"
    /\ UpdateStatus(of[k], "failed")
    /\ Goto(k, "leave")
    /\ UNCHANGED <<entry, of, ended, sent, broken, cancelling, firing>>

(* Mistake: the end of the context ends the loop like the end of the file. *)
StreamFileBreaks(k) ==
    /\ call[k] = "stream"
    /\ Goto(k, IF k \in ended \/ sent[k] = Chunks THEN "complete" ELSE "write")
    /\ UNCHANGED <<status, entry, of, ended, sent, broken, cancelling, firing>>

(* Mistake: off by one at the end of the file. *)
StreamFileOneMore(k) ==
    /\ call[k] = "stream"
    /\ \/ /\ k \notin ended
          /\ Goto(k, IF sent[k] > Chunks THEN "complete" ELSE "write")
          /\ UNCHANGED <<status, entry, of, ended, sent, broken, cancelling, firing>>
       \/ Fail(k)

(* One turn of the loop of streamFile, up to the write. *)
StreamFile(k) ==
    /\ call[k] = "stream"
    /\ \/ /\ k \notin ended
          /\ Goto(k, IF sent[k] = Chunks THEN "complete" ELSE "write")
          /\ UNCHANGED <<status, entry, of, ended, sent, broken, cancelling, firing>>
       \/ Fail(k)

(* The peer takes a chunk. *)
Write(k) ==
    /\ call[k] = "write" /\ k \notin broken
    /\ sent' = [sent EXCEPT ![k] = @ + 1]
    /\ Goto(k, "stream")
    /\ UNCHANGED <<status, entry, of, ended, broken, cancelling, firing>>

(* Mistake: a handshake that breaks is waited for. *)
ConnectionFailsInWrite(k) ==
    /\ call[k] = "write" /\ k \in broken
    /\ Fail(k)

ConnectionFails(k) ==
    /\ call[k] \in {"handshake", "write"} /\ k \in broken
    /\ Fail(k)

Complete(k) ==
    /\ call[k] = "complete"
    /\ UpdateStatus(of[k], "completed")
    /\ Goto(k, "leave")
    /\ UNCHANGED <<entry, of, ended, sent, broken, cancelling, firing>>

(* The deferred CancelReg.Complete and cancel: the entry under the id goes *)
(* whoever registered it.                                                  *)
Leave(k) ==
    /\ call[k] = "leave"
    /\ entry' = [entry EXCEPT ![of[k]] = None]
    /\ ended' = ended \cup {k}
    /\ Goto(k, "returned")
    /\ UNCHANGED <<status, of, sent, broken, cancelling, firing>>

-----------------------------------------------------------------------------
PeerTakes(k) == Handshake(k) \/ SendHeader(k) \/ Write(k)

Execute(k) ==
    \/ Stat(k) \/ Create(k) \/ Register(k) \/ Connect(k) \/ Dial(k)
    \/ StartTransferring(k) \/ StreamFile(k) \/ Complete(k) \/ Leave(k)
    \/ ConnectionFails(k)
    \/ k \in broken /\ HeaderFails(k)

Next ==
    \/ \E k \in Calls :
        \/ SendFile(k) \/ ContextEnds(k) \/ Break(k) \/ FireCancel(k)
        \/ Execute(k) \/ PeerTakes(k) \/ HeaderFails(k)
        \/ \E t \in Transfers : CreateTransfer(k, t) \/ Resend(k, t)
    \/ \E t \in Transfers : Cancel(t) \/ TakeEntry(t)

Spec == Init /\ [][Next]_vars

(* Calls and cancellations that are under way run on; nobody has to send,  *)
(* to cancel or, at the other end, to read.                                *)
Fairness ==
    /\ \A k \in Calls : WF_vars(Execute(k)) /\ WF_vars(FireCancel(k))
    /\ \A t \in Transfers : WF_vars(TakeEntry(t))

FairSpec == Spec /\ Fairness

(* In addition every peer reads what it is sent. *)
PeersRead == \A k \in Calls : WF_vars(PeerTakes(k))

ReadingSpec == FairSpec /\ PeersRead

-----------------------------------------------------------------------------
(* Properties.                                                             *)

TypeOK ==
    /\ status \in [Transfers -> Statuses]
    /\ entry \in [Transfers -> Calls \cup {None}]
    /\ call \in [Calls -> CallStates]
    /\ of \in [Calls -> Transfers \cup {None}]
    /\ ended \in SUBSET Calls
    /\ sent \in [Calls -> 0 .. Chunks]
    /\ broken \in SUBSET Calls
    /\ cancelling \in SUBSET Transfers
    /\ firing \in SUBSET Calls

(* Past the update to connecting, before the one that ends the transfer. *)
Working == {"dial", "handshake", "transferring", "header", "stream", "write", "complete"}

(* Transfers whose id a second call was given. *)
Retried == {t \in Transfers : \E k \in Resends : of[k] = t}

(* The call works on a cancelled transfer, and nothing will tell it. *)
LeftRunning(k) ==
    /\ call[k] \in Working \ {"complete"}
    /\ status[of[k]] = "cancelled"
    /\ of[k] \notin cancelling
    /\ k \notin ended \cup firing

(* Once Cancel has been through the registry, no call goes on with the     *)
(* transfer under a live context, whenever the cancellation came: before   *)
(* Register, between the updates, in the middle of the stream.  Calls that *)
(* share a record share one entry of the registry, see below.              *)
CancelReachesCalls == \A k \in Calls : LeftRunning(k) => of[k] \in Retried

(* Those of them that a call is at work on. *)
Retaken ==
    {t \in Retried : \E k \in Calls : of[k] = t /\ call[k] \in Working}

(* The limit is enforced when a transfer is created, and a retry enters a  *)
(* counted status without asking.  The transfers in excess of the limit    *)
(* are all retried ones with a call at work: once those calls are over,    *)
(* whatever they met, the number is within the limit again.                *)
LimitOverrun == Cardinality(Counted) <= MaxActive + Cardinality(Retaken)

(* A transfer that occupies a slot as connecting or transferring has a     *)
(* call at work that will still give the slot back, however many calls     *)
(* have shared the record.                                                 *)
SlotsHaveCalls ==
    \A t \in Transfers :
        status[t] \in {"connecting", "transferring"} =>
            \E k \in Calls : of[k] = t /\ call[k] \in Working

(* A transfer is reported completed only if one call wrote the whole file. *)
CompletedWasSent ==
    \A t \in Transfers :
        status[t] = "completed" => \E k \in Calls : of[k] = t /\ sent[k] = Chunks

(* completed and cancelled are final, for late answers of calls, for       *)
(* cancellations and for retries.                                          *)
TerminalIsFinal ==
    [][\A t \in Transfers :
        status[t] \in {"completed", "cancelled"} => status'[t] = status[t]]_vars

(* Every call returns if its peer reads on or goes away. *)
CallsReturn == \A k \in Calls : call[k] # "idle" ~> call[k] = "returned"

-----------------------------------------------------------------------------
(* What the repository says and the code does not do.                      *)

(* manager.go:64 and 15, DefaultMaxConcurrent, "concurrent transfer limit  *)
(* reached": no more transfers than the limit are in a counted status.     *)
LimitRespected == Cardinality(Counted) <= MaxActive

(* cancel.go:6, the same for every call: that of a retried transfer too.   *)
CancelReachesAll == \A k \in Calls : ~LeftRunning(k)

(* handlers.go:369, "The usecase picks up the pre-created transfer via     *)
(* TransferID and handles all status transitions": once the call is over   *)
(* the transfer is not pending any more.                                   *)
PendingIsServed ==
    \A k \in Calls :
        call[k] = "returned" /\ of[k] # None => status[of[k]] # "pending"

(* cancel.go:6, "cancellation triggers both the context cancellation (so   *)
(* the transfer goroutine unblocks)": the call of a cancelled transfer     *)
(* returns, whatever its peer does.                                        *)
CancelUnblocks ==
    \A k \in Calls, t \in Transfers :
        of[k] = t /\ status[t] = "cancelled" ~> call[k] = "returned"
=============================================================================
