------------------------------- MODULE Queue -------------------------------
(***************************************************************************)
(* The per-device transfer queue, core/transfer/queue.go: one dispatcher   *)
(* goroutine sleeping on a condition variable, one goroutine per running   *)
(* task, and callers of Enqueue, Close and Wait.                           *)
(*                                                                         *)
(* A step is a critical section of q.mu, or a call made outside it that    *)
(* other goroutines can observe: cond.Signal after the unlock, wg.Done     *)
(* after releaseSlot, and the tail of Close.  The body of a task is the    *)
(* caller's: it may return at any time, or hang until it is cancelled.     *)
(***************************************************************************)
EXTENDS Integers, FiniteSets, SequencesExt

CONSTANTS Tasks,     \* the tasks callers may enqueue, each at most once
          Peers,     \* the remote devices
          PeerOf,    \* Task.PeerID
          DirOf,     \* Task.Direction
          MaxUp,     \* per-device cap on running uploads
          MaxDown    \* per-device cap on running downloads

Directions == {"upload", "download"}

ASSUME QueueAssumption ==
    /\ IsFiniteSet(Tasks)
    /\ PeerOf \in [Tasks -> Peers]
    /\ DirOf \in [Tasks -> Directions]
    /\ MaxUp \in Nat \ {0}
    /\ MaxDown \in Nat \ {0}

VARIABLES
    known,      \* keys of q.devices
    pending,    \* deviceQueue.pending of every peer (empty when not known)
    active,     \* deviceQueue.activeUp and activeDown of every peer
    closed,     \* q.closed
    wg,         \* the counter of q.wg
    phase,      \* where each task is
    owed,       \* calls of cond.Signal due from goroutines that left q.mu
    dispatcher, \* the goroutine of dispatchLoop
    closer,     \* the first caller of Close
    abandoned,  \* pendingCount, the local variable of Close
    waiter      \* a caller of Wait

vars == <<known, pending, active, closed, wg, phase, owed, dispatcher,
          closer, abandoned, waiter>>

Phases == {"new",       \* not enqueued
           "pending",   \* in pending
           "spawned",   \* popped, its goroutine has not entered Execute
           "running",   \* in Execute
           "returned",  \* Execute returned, releaseSlot not entered
           "released",  \* slot given back, wg.Done not called
           "done",
           "refused",   \* Enqueue returned ErrQueueClosed
           "abandoned"} \* dropped by Close

SignalCalls == {"enqueue", "release"}

InPhase(S) == {t \in Tasks : phase[t] \in S}

Holding(p, d) ==
    {t \in InPhase({"spawned", "running", "returned"}) :
        PeerOf[t] = p /\ DirOf[t] = d}

NoneActive == [d \in Directions |-> 0]

MaxFor(d) == IF d = "upload" THEN MaxUp ELSE MaxDown

Init ==
    /\ known = {}
    /\ pending = [p \in Peers |-> <<>>]
    /\ active = [p \in Peers |-> NoneActive]
    /\ closed = FALSE
    /\ wg = 0
    /\ phase = [t \in Tasks |-> "new"]
    /\ owed = [t \in Tasks |-> {}]
    /\ dispatcher = "ready"
    /\ closer = "idle"
    /\ abandoned = 0
    /\ waiter = "idle"

-----------------------------------------------------------------------------
(* Callers.                                                                *)

EnqueueRefused(t) ==
    /\ phase[t] = "new"
    /\ closed
    /\ phase' = [phase EXCEPT ![t] = "refused"]
    /\ UNCHANGED <<known, pending, active, closed, wg, owed, dispatcher,
                   closer, abandoned, waiter>>

(* A call of cond.Signal after the unlock is still to come. *)
Owe(t, call) == owed' = [owed EXCEPT ![t] = @ \cup {call}]

Enqueue(t) ==
    /\ phase[t] = "new"
    /\ ~closed
    /\ known' = known \cup {PeerOf[t]}
    /\ pending' = [pending EXCEPT ![PeerOf[t]] = Append(@, t)]
    /\ wg' = wg + 1
    /\ phase' = [phase EXCEPT ![t] = "pending"]
    /\ Owe(t, "enqueue")
    /\ UNCHANGED <<active, closed, dispatcher, closer, abandoned, waiter>>

(* Mistake: the signal is left out. *)
NoWake == dispatcher' = dispatcher

(* cond.Signal: only the dispatcher ever waits on q.cond. *)
Wake == dispatcher' = IF dispatcher = "waiting" THEN "ready" ELSE dispatcher

Signal(t, call) ==
    /\ call \in owed[t]
    /\ owed' = [owed EXCEPT ![t] = @ \ {call}]
    /\ Wake
    /\ UNCHANGED <<known, pending, active, closed, wg, phase, closer,
                   abandoned, waiter>>

-----------------------------------------------------------------------------
(* The dispatcher.                                                         *)

(* Mistake: off by one. *)
RunnableAtCap(p, i) ==
    LET d == DirOf[pending[p][i]] IN active[p][d] <= MaxFor(d)

Runnable(p, i) ==
    LET d == DirOf[pending[p][i]] IN active[p][d] < MaxFor(d)

(* Mistake: any runnable task, not the first. *)
AnyRunnable(p, i) == i \in 1 .. Len(pending[p]) /\ Runnable(p, i)

(* The first pending task of p whose direction has a free slot. *)
FirstRunnable(p, i) ==
    /\ i \in 1 .. Len(pending[p])
    /\ Runnable(p, i)
    /\ \A j \in 1 .. i - 1 : ~Runnable(p, j)

HasRunnable == \E p \in known : \E i \in 1 .. Len(pending[p]) : Runnable(p, i)

DispatchWait ==
    /\ dispatcher = "ready"
    /\ ~closed
    /\ ~HasRunnable
    /\ dispatcher' = "waiting"
    /\ UNCHANGED <<known, pending, active, closed, wg, phase, owed, closer,
                   abandoned, waiter>>

(* popRunnableLocked visits the devices in Go's unspecified map order, and *)
(* runTask hands the task to a goroutine of its own.                       *)
Dispatch(p, i) ==
    /\ dispatcher = "ready"
    /\ ~closed
    /\ p \in known
    /\ FirstRunnable(p, i)
    /\ pending' = [pending EXCEPT ![p] = RemoveAt(@, i)]
    /\ active' = [active EXCEPT ![p][DirOf[pending[p][i]]] = @ + 1]
    /\ phase' = [phase EXCEPT ![pending[p][i]] = "spawned"]
    /\ UNCHANGED <<known, closed, wg, owed, dispatcher, closer, abandoned,
                   waiter>>

DispatchExit ==
    /\ dispatcher = "ready"
    /\ closed
    /\ dispatcher' = "exited"
    /\ UNCHANGED <<known, pending, active, closed, wg, phase, owed, closer,
                   abandoned, waiter>>

-----------------------------------------------------------------------------
(* The goroutine of a task.                                                *)

Advance(t, from, to) ==
    /\ phase[t] = from
    /\ phase' = [phase EXCEPT ![t] = to]
    /\ UNCHANGED <<known, pending, active, closed, owed, dispatcher, closer,
                   abandoned, waiter>>

Execute(t) == Advance(t, "spawned", "running") /\ UNCHANGED wg

Return(t) == Advance(t, "running", "returned") /\ UNCHANGED wg

(* Mistake: the device goes as soon as nothing is active. *)
NothingActive(p, left) == left = NoneActive

(* releaseSlot deletes a device with nothing pending and nothing active. *)
Drained(p, left) == pending[p] = <<>> /\ left = NoneActive

ReleaseSlot(t) ==
    LET p == PeerOf[t]
        left == [active[p] EXCEPT ![DirOf[t]] = @ - 1]
    IN  /\ phase[t] = "returned"
        /\ phase' = [phase EXCEPT ![t] = "released"]
        /\ active' = IF p \in known THEN [active EXCEPT ![p] = left] ELSE active
        /\ known' = IF Drained(p, left) THEN known \ {p} ELSE known
        /\ Owe(t, "release")
        /\ UNCHANGED <<pending, closed, wg, dispatcher, closer, abandoned,
                       waiter>>

Done(t) ==
    /\ "release" \notin owed[t]
    /\ Advance(t, "released", "done")
    /\ wg' = wg - 1

-----------------------------------------------------------------------------
(* Close and Wait.  A second Close finds q.closed and returns, a stutter.  *)

(* Mistake: the wrong sign. *)
DroppedNegative == 0 - Cardinality(InPhase({"pending"}))

(* Mistake: tasks that were just popped are counted too. *)
DroppedTwice == Cardinality(InPhase({"pending", "spawned"}))

(* Mistake: only the lists are emptied. *)
DroppedUncounted == 0

(* The pendingCount of Close. *)
Dropped == Cardinality(InPhase({"pending"}))

Close ==
    /\ ~closed
    /\ closed' = TRUE
    /\ abandoned' = Dropped
    /\ pending' = [p \in Peers |-> <<>>]
    /\ phase' = [t \in Tasks |->
                    IF phase[t] = "pending" THEN "abandoned" ELSE phase[t]]
    /\ closer' = "broadcast"
    /\ UNCHANGED <<known, active, wg, owed, dispatcher, waiter>>

CloseBroadcast ==
    /\ closer = "broadcast"
    /\ closer' = "cancel"
    /\ Wake
    /\ UNCHANGED <<known, pending, active, closed, wg, phase, owed, abandoned,
                   waiter>>

(* q.cancel(): from here on the context of every task is done. *)
CloseCancel ==
    /\ closer = "cancel"
    /\ closer' = "subtract"
    /\ UNCHANGED <<known, pending, active, closed, wg, phase, owed, dispatcher,
                   abandoned, waiter>>

CloseSubtract ==
    /\ closer = "subtract"
    /\ closer' = "done"
    /\ wg' = wg - abandoned
    /\ abandoned' = 0
    /\ UNCHANGED <<known, pending, active, closed, phase, owed, dispatcher,
                   waiter>>

Cancelled == closer \in {"subtract", "done"}

(* Wait is to be called after Close. *)
WaitCall ==
    /\ waiter = "idle"
    /\ closed
    /\ waiter' = "waiting"
    /\ UNCHANGED <<known, pending, active, closed, wg, phase, owed, dispatcher,
                   closer, abandoned>>

WaitReturn ==
    /\ waiter = "waiting"
    /\ wg = 0
    /\ waiter' = "returned"
    /\ UNCHANGED <<known, pending, active, closed, wg, phase, owed, dispatcher,
                   closer, abandoned>>

-----------------------------------------------------------------------------
Next ==
    \/ \E t \in Tasks : \/ EnqueueRefused(t) \/ Enqueue(t)
                        \/ Execute(t) \/ Return(t) \/ ReleaseSlot(t) \/ Done(t)
                        \/ \E call \in SignalCalls : Signal(t, call)
    \/ DispatchWait \/ DispatchExit
    \/ \E p \in Peers : \E i \in 1 .. Len(pending[p]) : Dispatch(p, i)
    \/ Close \/ CloseBroadcast \/ CloseCancel \/ CloseSubtract
    \/ WaitCall \/ WaitReturn

Spec == Init /\ [][Next]_vars

(* Go schedules every goroutine that can run.  Nobody is obliged to        *)
(* enqueue, close or wait, and Execute need only return once its context   *)
(* is done.                                                                *)
Fairness ==
    /\ WF_vars(DispatchWait \/ DispatchExit
               \/ \E p \in Peers : \E i \in 1 .. Len(pending[p]) : Dispatch(p, i))
    /\ WF_vars(CloseBroadcast \/ CloseCancel \/ CloseSubtract)
    /\ WF_vars(WaitReturn)
    /\ \A t \in Tasks :
        /\ WF_vars(Execute(t))
        /\ WF_vars(Cancelled /\ Return(t))
        /\ WF_vars(ReleaseSlot(t))
        /\ WF_vars(Done(t))
        /\ \A call \in SignalCalls : WF_vars(Signal(t, call))

FairSpec == Spec /\ Fairness

-----------------------------------------------------------------------------
(* Properties.                                                             *)

TypeOK ==
    /\ known \in SUBSET Peers
    /\ pending \in [Peers -> Seq(Tasks)]
    /\ active \in [Peers -> [Directions -> Int]]
    /\ closed \in BOOLEAN
    /\ wg \in Int
    /\ phase \in [Tasks -> Phases]
    /\ owed \in [Tasks -> SUBSET SignalCalls]
    /\ dispatcher \in {"ready", "waiting", "exited"}
    /\ closer \in {"idle", "broadcast", "cancel", "subtract", "done"}
    /\ abandoned \in Nat
    /\ waiter \in {"idle", "waiting", "returned"}

(* "At most maxUp uploads and maxDown downloads run concurrently" per      *)
(* device (queue.go header): counted over the goroutines that exist, not   *)
(* over the counters, so that a counter lost with its device entry or      *)
(* given back early would show.                                            *)
CapsRespected ==
    \A p \in Peers, d \in Directions : Cardinality(Holding(p, d)) <= MaxFor(d)

(* Wait after Close returns only when no task goroutine is left: the       *)
(* WaitGroup counter that Enqueue raised is given back exactly once per    *)
(* task, by its goroutine or by Close.                                     *)
WaitMeansDrained ==
    waiter = "returned" =>
        InPhase({"pending", "spawned", "running", "returned", "released"}) = {}

(* sync.WaitGroup panics below zero; Close subtracts outside the lock what *)
(* it counted inside.                                                      *)
WaitGroupNeverNegative == wg >= 0

(* A task is never lost: while the queue is open, a peer with a task       *)
(* pending or holding a slot has its entry in q.devices, which releaseSlot *)
(* deletes once drained.                                                   *)
DevicesTracked ==
    \A t \in InPhase({"pending", "spawned", "running", "returned"}) :
        PeerOf[t] \in known

(* Per peer and direction tasks leave pending in the order they were       *)
(* enqueued ("each peer device gets an independent FIFO queue").           *)
FIFO ==
    [][\A p \in Peers : \A i, j \in 1 .. Len(pending[p]) :
          /\ i < j
          /\ DirOf[pending[p][i]] = DirOf[pending[p][j]]
          /\ phase'[pending[p][j]] = "spawned"
          => phase'[pending[p][i]] # "pending"]_vars

(* No lost wakeup: a pending task whose direction has a free slot does not *)
(* stay so for ever, whatever other peers and the other direction do.      *)
NoIdleSlot ==
    \A t \in Tasks :
        []<>~(phase[t] = "pending" /\ active[PeerOf[t]][DirOf[t]] < MaxFor(DirOf[t]))

(* The state behind NoIdleSlot: whenever the dispatcher sleeps next to a   *)
(* task it could start, a call of cond.Signal is still due, and when it    *)
(* sleeps in a closed queue, the broadcast of Close is (queue.go:151, 245, *)
(* 300).                                                                   *)
WakeupOwed ==
    dispatcher = "waiting" =>
        /\ closed => closer = "broadcast"
        /\ ~closed /\ HasRunnable => \E t \in Tasks : owed[t] # {}

(* Wait returns once Close has been called and the tasks honour their      *)
(* context: Close releases the counters of the tasks it abandons.          *)
WaitReturns == waiter = "waiting" ~> waiter = "returned"

-----------------------------------------------------------------------------
(* The queue implements TaskSlots: its bookkeeping (devices map, active    *)
(* counters, WaitGroup, condition variable) grants exactly the slots the   *)
(* abstract queue grants.                                                  *)
StageOf(ph) ==
    CASE ph = "new" -> "idle"
      [] ph = "pending" -> "queued"
      [] ph \in {"spawned", "running", "returned"} -> "running"
      [] OTHER -> "over"

Slots == INSTANCE TaskSlots
         WITH stage <- [t \in Tasks |-> StageOf(phase[t])], open <- ~closed

(* Every step of the queue is a step of TaskSlots or leaves it unchanged:  *)
(* in particular a task starts only under its cap and never after Close.   *)
ImplementsSlots == Slots!SlotSpec
=============================================================================
