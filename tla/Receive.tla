------------------------------ MODULE Receive ------------------------------
(***************************************************************************)
(* The inbound side of a transfer: the receive manager                     *)
(* (core/receive/manager.go) and the goroutines of InboundServer           *)
(* (core/receive/server.go), driven by the user through the HTTP API       *)
(* (core/api/handlers.go) and by the expiry loop.                          *)
(*                                                                         *)
(* Every connection registers one Incoming, so a connection also names its *)
(* record in the manager.  A step is one critical section of the manager,  *)
(* or one blocking operation of a handler goroutine.                       *)
(***************************************************************************)
EXTENDS Integers, FiniteSets

CONSTANTS Conns,      \* inbound connections
          MaxActive,  \* Manager.maxActive
          NotifyCap   \* capacity of Manager.notify, 64 in the code

ASSUME ReceiveAssumption ==
    /\ IsFiniteSet(Conns)
    /\ MaxActive \in Nat \ {0}
    /\ NotifyCap \in Nat \ {0}

VARIABLES
    status,    \* Incoming.Status, "none" before Register
    notify,    \* ids buffered in the notify channel; readers ignore which
    due,       \* incomings whose ExpiresAt has passed
    handler,   \* program counter of handleConn
    peer,      \* what the remote end of the connection has done
    file,      \* what SaveFile has left on disk
    accepted,  \* history: incomings the user accepted
    server     \* "open", "quitting" (Close called) or "closed" (Close returned)

vars == <<status, notify, due, handler, peer, file, accepted, server>>

Statuses == {"none", "pending", "prompting", "accepting", "receiving",
             "completed", "failed", "rejected", "cancelled", "expired"}

Terminal == {"completed", "failed", "rejected", "cancelled", "expired"}

HandlerStates ==
    {"idle",      \* not connected
     "header",    \* in ReadHeader
     "register",  \* header parsed
     "prompt",    \* registered, about to set prompting
     "check",     \* at the top of the loop of waitForAccept
     "select",    \* blocked in the select of waitForAccept
     "receive",   \* saw accepting, about to set receiving
     "save",      \* about to create the file
     "saving",    \* in the read loop of SaveFile
     "done"}      \* returned; the connection is closed

PeerStates ==
    {"silent",    \* nothing sent yet
     "open",      \* header sent, body under way
     "sent",      \* whole body sent, connection closed
     "broken"}    \* connection lost before that

Init ==
    /\ status = [c \in Conns |-> "none"]
    /\ notify = 0
    /\ due = {}
    /\ handler = [c \in Conns |-> "idle"]
    /\ peer = [c \in Conns |-> "silent"]
    /\ file = [c \in Conns |-> "none"]
    /\ accepted = {}
    /\ server = "open"

-----------------------------------------------------------------------------
(* The manager.                                                            *)

isValidTransition(from, to) ==
    \/ from = "pending" /\ to \in {"prompting", "accepting", "cancelled", "expired"}
    \/ from = "prompting" /\ to \in {"accepting", "rejected", "cancelled", "expired"}
    \/ from = "accepting" /\ to \in {"receiving", "failed", "cancelled"}
    \/ from = "receiving" /\ to \in {"completed", "failed", "cancelled"}

(* Mistake: the buffer grows without bound. *)
NotifyUnbounded == notify' = notify + 1

(* Non-blocking send on the notify channel. *)
Notify == notify' = IF notify < NotifyCap THEN notify + 1 ELSE notify

(* UpdateStatus; no caller looks at its error. *)
UpdateStatus(c, to) ==
    IF status[c] = to \/ isValidTransition(status[c], to)
    THEN status' = [status EXCEPT ![c] = to] /\ Notify
    ELSE UNCHANGED <<status, notify>>

Counted == {c \in Conns : status[c] \in {"prompting", "accepting", "receiving"}}

Goto(c, pc) == handler' = [handler EXCEPT ![c] = pc]

-----------------------------------------------------------------------------
(* The user, through the API, which is down before Close is called.        *)

Accept(c) ==
    /\ server = "open"
    /\ status[c] \in {"pending", "prompting"}
    /\ status' = [status EXCEPT ![c] = "accepting"]
    /\ accepted' = accepted \cup {c}
    /\ Notify
    /\ UNCHANGED <<due, handler, peer, file, server>>

Reject(c) ==
    /\ server = "open"
    /\ status[c] \notin {"none", "completed", "receiving"}
    /\ status' = [status EXCEPT ![c] = "rejected"]
    /\ Notify
    /\ UNCHANGED <<due, handler, peer, file, accepted, server>>

Cancel(c) ==
    /\ server = "open"
    /\ status[c] \notin {"none", "completed"}
    /\ status' = [status EXCEPT ![c] = "cancelled"]
    /\ Notify
    /\ UNCHANGED <<due, handler, peer, file, accepted, server>>

-----------------------------------------------------------------------------
(* Time.                                                                   *)

DeadlinePasses(c) ==
    /\ status[c] # "none" /\ c \notin due
    /\ due' = due \cup {c}
    /\ UNCHANGED <<status, notify, handler, peer, file, accepted, server>>

(* Mistake: the pending state alone expires. *)
OverduePending == {c \in due : status[c] = "pending"}

Overdue == {c \in due : status[c] \in {"pending", "prompting"}}

(* A tick of the expiry loop that finds something; it notifies nobody. *)
ExpireExpired ==
    /\ server = "open"
    /\ Overdue # {}
    /\ status' = [c \in Conns |-> IF c \in Overdue THEN "expired" ELSE status[c]]
    /\ UNCHANGED <<notify, due, handler, peer, file, accepted, server>>

-----------------------------------------------------------------------------
(* The remote peer.  It streams header and body without waiting for an     *)
(* answer, and closes when it is done.                                     *)

PeerSends(c, what) ==
    /\ handler[c] # "idle"
    /\ \/ peer[c] = "silent" /\ what \in {"open", "broken"}
       \/ peer[c] = "open" /\ what \in {"sent", "broken"}
    /\ peer' = [peer EXCEPT ![c] = what]
    /\ UNCHANGED <<status, notify, due, handler, file, accepted, server>>

-----------------------------------------------------------------------------
(* The goroutine of a connection.                                          *)

Arrive(c) ==
    /\ server = "open"
    /\ handler[c] = "idle"
    /\ Goto(c, "header")
    /\ UNCHANGED <<status, notify, due, peer, file, accepted, server>>

ReadHeader(c) ==
    /\ handler[c] = "header"
    /\ \/ peer[c] # "silent" /\ Goto(c, "register")
       \/ peer[c] = "broken" /\ Goto(c, "done")
    /\ UNCHANGED <<status, notify, due, peer, file, accepted, server>>

Register(c) ==
    /\ handler[c] = "register"
    /\ IF Cardinality(Counted) >= MaxActive
       THEN Goto(c, "done") /\ UNCHANGED status
       ELSE Goto(c, "prompt") /\ status' = [status EXCEPT ![c] = "pending"]
    /\ UNCHANGED <<notify, due, peer, file, accepted, server>>

Prompt(c) ==
    /\ handler[c] = "prompt"
    /\ UpdateStatus(c, "prompting")
    /\ Goto(c, "check")
    /\ UNCHANGED <<due, peer, file, accepted, server>>

(* Mistake: a wakeup is taken for a consent. *)
CheckTrustsWakeup(c) ==
    /\ handler[c] = "check"
    /\ Goto(c, CASE status[c] = "accepting" -> "receive"
                 [] status[c] \in {"rejected", "cancelled", "expired"} -> "done"
                 [] OTHER -> IF notify > 0 THEN "receive" ELSE "select")
    /\ UNCHANGED <<status, notify, due, peer, file, accepted, server>>

Check(c) ==
    /\ handler[c] = "check"
    /\ Goto(c, CASE status[c] = "accepting" -> "receive"
                 [] status[c] \in {"rejected", "cancelled", "expired"} -> "done"
                 [] OTHER -> "select")
    /\ UNCHANGED <<status, notify, due, peer, file, accepted, server>>

Wake(c) ==
    /\ handler[c] = "select"
    /\ notify > 0
    /\ notify' = notify - 1
    /\ Goto(c, "check")
    /\ UNCHANGED <<status, due, peer, file, accepted, server>>

(* Mistake: a waiting handler looks at quit only after the shutdown. *)
QuitLate(c) ==
    /\ handler[c] = "select"
    /\ server = "closed"
    /\ Goto(c, "done")
    /\ UNCHANGED <<status, notify, due, peer, file, accepted, server>>

(* ctx.Done or quit: the manager is not told. *)
Quit(c) ==
    /\ handler[c] = "select"
    /\ server # "open"
    /\ Goto(c, "done")
    /\ UNCHANGED <<status, notify, due, peer, file, accepted, server>>

StartReceiving(c) ==
    /\ handler[c] = "receive"
    /\ UpdateStatus(c, "receiving")
    /\ Goto(c, "save")
    /\ UNCHANGED <<due, peer, file, accepted, server>>

(* Mistake: a file that cannot be created is not reported. *)
CreateFileSilently(c) ==
    /\ handler[c] = "save"
    /\ \/ file' = [file EXCEPT ![c] = "partial"] /\ Goto(c, "saving")
       \/ Goto(c, "done") /\ UNCHANGED file
    /\ UNCHANGED <<status, notify, due, peer, accepted, server>>

(* Creating the directory or the file may fail. *)
CreateFile(c) ==
    /\ handler[c] = "save"
    /\ \/ /\ file' = [file EXCEPT ![c] = "partial"]
          /\ Goto(c, "saving")
          /\ UNCHANGED <<status, notify>>
       \/ /\ UpdateStatus(c, "failed")
          /\ Goto(c, "done")
          /\ UNCHANGED file
    /\ UNCHANGED <<due, peer, accepted, server>>

(* EncryptedConn.Read at the end of the stream: readFrame wraps io.EOF in  *)
(* an error of its own, which "err == io.EOF" in SaveFile does not match.  *)
ReadError(c) ==
    <<"net: read frame header", IF peer[c] = "sent" THEN "EOF" ELSE "reset">>

EndOfFile(err) == err = <<"EOF">>

SizeMatches(c) == peer[c] = "sent"

(* SaveFile returns, once the peer is done or on a write error. *)
SaveReturns(c) ==
    /\ handler[c] = "saving"
    /\ \/ /\ peer[c] \in {"sent", "broken"}
          /\ file' = [file EXCEPT ![c] = IF SizeMatches(c) THEN "whole" ELSE @]
          /\ UpdateStatus(c, IF EndOfFile(ReadError(c)) /\ SizeMatches(c)
                             THEN "completed" ELSE "failed")
       \/ /\ UpdateStatus(c, "failed")
          /\ UNCHANGED file
    /\ Goto(c, "done")
    /\ UNCHANGED <<due, peer, accepted, server>>

-----------------------------------------------------------------------------
(* InboundServer.Close: quit, context and listener, then wg.Wait.          *)

Close ==
    /\ server = "open"
    /\ server' = "quitting"
    /\ UNCHANGED <<status, notify, due, handler, peer, file, accepted>>

CloseReturns ==
    /\ server = "quitting"
    /\ \A c \in Conns : handler[c] \in {"idle", "done"}
    /\ server' = "closed"
    /\ UNCHANGED <<status, notify, due, handler, peer, file, accepted>>

-----------------------------------------------------------------------------
Handle(c) ==
    \/ ReadHeader(c) \/ Register(c) \/ Prompt(c) \/ Check(c) \/ Wake(c) \/ Quit(c)
    \/ StartReceiving(c) \/ CreateFile(c) \/ SaveReturns(c)

Next ==
    \/ \E c \in Conns :
        \/ Accept(c) \/ Reject(c) \/ Cancel(c) \/ DeadlinePasses(c)
        \/ \E what \in PeerStates : PeerSends(c, what)
        \/ Arrive(c) \/ Handle(c)
    \/ ExpireExpired \/ Close \/ CloseReturns

Spec == Init /\ [][Next]_vars

(* Handlers run, time passes, the expiry loop ticks; nobody has to         *)
(* connect, answer a prompt or close the server.                           *)
Fairness ==
    /\ \A c \in Conns : WF_vars(Handle(c)) /\ WF_vars(DeadlinePasses(c))
    /\ WF_vars(ExpireExpired)
    /\ WF_vars(CloseReturns)

FairSpec == Spec /\ Fairness

(* In addition no peer keeps a connection open for ever. *)
PeersFinish ==
    \A c \in Conns : WF_vars(\E what \in PeerStates : PeerSends(c, what))

FinishingSpec == FairSpec /\ PeersFinish

-----------------------------------------------------------------------------
(* Properties.                                                             *)

TypeOK ==
    /\ status \in [Conns -> Statuses]
    /\ notify \in 0 .. NotifyCap
    /\ due \in SUBSET Conns
    /\ handler \in [Conns -> HandlerStates]
    /\ peer \in [Conns -> PeerStates]
    /\ file \in [Conns -> {"none", "partial", "whole"}]
    /\ accepted \in SUBSET Conns
    /\ server \in {"open", "quitting", "closed"}

(* Nothing reaches the disk without the user's consent: a wakeup meant for *)
(* another incoming, an expiry or a shutdown never starts SaveFile.        *)
ConsentRequired == \A c \in Conns : file[c] # "none" => c \in accepted

(* Expiry and acceptance exclude each other, whichever of the user, the    *)
(* expiry loop and the late Prompt of the handler comes first.             *)
ExpiredNotAccepted == \A c \in Conns : status[c] = "expired" => c \notin accepted

(* While the server is open, an incoming that occupies a slot of the       *)
(* manager has a live handler that can still free it.                      *)
SlotsHaveHandlers ==
    server = "open" => \A c \in Counted : handler[c] \notin {"idle", "done"}

(* An incoming that ended stays ended: Reject and Cancel overwrite how it  *)
(* ended and ask no transition table (receive/manager.go:155 and 252), and *)
(* its handler reports later, but nothing takes the incoming back to a     *)
(* status that is asked about, counted or served.                          *)
EndedStaysEnded ==
    [][\A c \in Conns : status[c] \in Terminal => status'[c] \in Terminal]_vars

(* A prompt nobody answers leaves its slot. *)
OverduePromptExpires ==
    \A c \in Conns :
        c \in due ~> status[c] \notin {"pending", "prompting"} \/ server # "open"

(* Close returns: it wakes every waiting handler, provided peers that are  *)
(* in the middle of a file finish or break.                                *)
CloseTerminates == server = "quitting" ~> server = "closed"

-----------------------------------------------------------------------------
(* What the repository says and the code does not do.                      *)

(* README.md:114 documents POST /incoming/{id}/accept as "Accept           *)
(* incoming": once accepted, the handler gets to act on it.                *)
AcceptedIsServed ==
    \A c \in Conns : status[c] = "accepting" ~> handler[c] # "select"

(* integration/transfer_test.go:73: the receiver "reads the file body      *)
(* until expectedSize bytes are received".  A file received whole is then  *)
(* reported completed unless the user intervened.                          *)
WholeFileCompletes ==
    \A c \in Conns :
        handler[c] = "done" /\ file[c] = "whole" =>
            status[c] \in {"completed", "rejected", "cancelled"}
=============================================================================
