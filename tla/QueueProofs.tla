---------------------------- MODULE QueueProofs ----------------------------
(***************************************************************************)
(* The transfer queue keeps its caps, its WaitGroup accounting and its     *)
(* device map for every set of tasks and peers and every pair of caps, and *)
(* implements TaskSlots.                                                   *)
(***************************************************************************)
EXTENDS Queue, FiniteSetTheorems, TLAPS

(* The tasks whose WaitGroup counter is outstanding. *)
Counted == InPhase({"pending", "spawned", "running", "returned", "released"})

(* pending[p] lists, once each, exactly the pending tasks of p. *)
PendingSound ==
    \A p \in Peers : \A i \in 1 .. Len(pending[p]) :
        /\ phase[pending[p][i]] = "pending"
        /\ PeerOf[pending[p][i]] = p
        /\ \A j \in 1 .. Len(pending[p]) : pending[p][i] = pending[p][j] => i = j

PendingComplete ==
    \A t \in Tasks : phase[t] = "pending" =>
        \E i \in 1 .. Len(pending[PeerOf[t]]) : pending[PeerOf[t]][i] = t

(* The active counters count the goroutines that hold a slot. *)
SlotAccounting ==
    \A p \in Peers, d \in Directions : active[p][d] = Cardinality(Holding(p, d))

WaitGroupAccounting == wg = Cardinality(Counted) + abandoned

AfterClose ==
    /\ closed => InPhase({"pending"}) = {}
    /\ waiter # "idle" => closed
    /\ ~closed => abandoned = 0

IInv ==
    /\ TypeOK
    /\ PendingSound
    /\ PendingComplete
    /\ SlotAccounting
    /\ CapsRespected
    /\ DevicesTracked
    /\ WaitGroupAccounting
    /\ AfterClose
    /\ WaitMeansDrained

-----------------------------------------------------------------------------
(* Removing position i keeps the other elements in order. *)
LEMMA RemoveAtFacts ==
    ASSUME NEW S, NEW s \in Seq(S), NEW i \in 1 .. Len(s)
    PROVE  /\ RemoveAt(s, i) \in Seq(S)
           /\ Len(RemoveAt(s, i)) = Len(s) - 1
           /\ \A j \in 1 .. Len(s) - 1 :
                 RemoveAt(s, i)[j] = IF j < i THEN s[j] ELSE s[j + 1]
<1> DEFINE front == SubSeq(s, 1, i - 1)
           back == SubSeq(s, i + 1, Len(s))
<1>1. front \in Seq(S) /\ Len(front) = i - 1
    /\ \A j \in 1 .. i - 1 : front[j] = s[j]
    OBVIOUS
<1>2. back \in Seq(S) /\ Len(back) = Len(s) - i
    /\ \A j \in 1 .. Len(s) - i : back[j] = s[i + j]
    OBVIOUS
<1>3. RemoveAt(s, i) = front \o back
    BY DEF RemoveAt
<1> HIDE DEF front, back
<1>4. front \o back \in Seq(S) /\ Len(front \o back) = Len(s) - 1
    BY <1>1, <1>2
<1>5. ASSUME NEW j \in 1 .. Len(s) - 1
      PROVE  (front \o back)[j] = IF j < i THEN s[j] ELSE s[j + 1]
    <2>1. CASE j < i
        BY <2>1, <1>1, <1>2
    <2>2. CASE ~(j < i)
        <3>1. (front \o back)[j] = back[j - (i - 1)]
            BY <2>2, <1>1, <1>2
        <3>2. QED
            BY <3>1, <2>2, <1>2
    <2>3. QED
        BY <2>1, <2>2
<1>6. QED
    BY <1>3, <1>4, <1>5

(* Every set of tasks is finite. *)
LEMMA TasksFinite ==
    ASSUME NEW S \in SUBSET Tasks
    PROVE  IsFiniteSet(S) /\ Cardinality(S) \in Nat
BY QueueAssumption, FS_Subset, FS_CardinalityType

(* Adding or removing one task moves the cardinality by one. *)
LEMMA OneMore ==
    ASSUME NEW S \in SUBSET Tasks, NEW t \in Tasks \ S
    PROVE  Cardinality(S \cup {t}) = Cardinality(S) + 1
BY TasksFinite, FS_AddElement

LEMMA OneLess ==
    ASSUME NEW S \in SUBSET Tasks, NEW t \in S
    PROVE  Cardinality(S \ {t}) = Cardinality(S) - 1
BY TasksFinite, FS_RemoveElement

(* Every step keeps the types. *)
LEMMA TypeStep == TypeOK /\ [Next]_vars => TypeOK'
<1> SUFFICES ASSUME TypeOK, [Next]_vars
             PROVE  TypeOK'
    OBVIOUS
<1> USE QueueAssumption DEF TypeOK, Phases
<1>1. ASSUME NEW t \in Tasks, EnqueueRefused(t)
      PROVE  TypeOK'
    BY <1>1 DEF EnqueueRefused
<1>2. ASSUME NEW t \in Tasks, Enqueue(t)
      PROVE  TypeOK'
    <2>1. Append(pending[PeerOf[t]], t) \in Seq(Tasks)
        OBVIOUS
    <2>2. pending' \in [Peers -> Seq(Tasks)]
        BY <1>2, <2>1 DEF Enqueue, Owe
    <2>3. owed' \in [Tasks -> SUBSET SignalCalls]
        BY <1>2 DEF Enqueue, Owe, SignalCalls
    <2>4. known' \in SUBSET Peers
        BY <1>2 DEF Enqueue, Owe
    <2>5. QED
        BY <1>2, <2>2, <2>3, <2>4 DEF Enqueue, Owe
<1>3. ASSUME NEW t \in Tasks, Execute(t) \/ Return(t) \/ Done(t)
      PROVE  TypeOK'
    <2>1. phase' \in [Tasks -> Phases]
        BY <1>3 DEF Execute, Return, Done, Advance
    <2>2. wg' \in Int
        BY <1>3 DEF Execute, Return, Done
    <2>3. UNCHANGED <<known, pending, active, closed, owed, dispatcher,
                      closer, abandoned, waiter>>
        BY <1>3 DEF Execute, Return, Done, Advance
    <2>4. QED
        BY <2>1, <2>2, <2>3
<1>4. ASSUME NEW t \in Tasks, ReleaseSlot(t)
      PROVE  TypeOK'
    <2>1. [active[PeerOf[t]] EXCEPT ![DirOf[t]] = @ - 1] \in [Directions -> Int]
        OBVIOUS
    <2>2. active' \in [Peers -> [Directions -> Int]]
        BY <1>4, <2>1 DEF ReleaseSlot, Drained, Owe
    <2>3. owed' \in [Tasks -> SUBSET SignalCalls]
        BY <1>4 DEF ReleaseSlot, Drained, Owe, SignalCalls
    <2>4. known' \in SUBSET Peers /\ phase' \in [Tasks -> Phases]
        BY <1>4 DEF ReleaseSlot, Drained, Owe
    <2>5. UNCHANGED <<pending, closed, wg, dispatcher, closer, abandoned, waiter>>
        BY <1>4 DEF ReleaseSlot, Drained, Owe
    <2>6. QED
        BY <2>2, <2>3, <2>4, <2>5
<1>5. ASSUME NEW t \in Tasks, NEW call \in SignalCalls, Signal(t, call)
      PROVE  TypeOK'
    BY <1>5 DEF Signal, Wake
<1>6. CASE DispatchWait \/ DispatchExit
    BY <1>6 DEF DispatchWait, DispatchExit
<1>7. ASSUME NEW p \in Peers, NEW i \in 1 .. Len(pending[p]), Dispatch(p, i)
      PROVE  TypeOK'
    <2>1. pending[p][i] \in Tasks
        OBVIOUS
    <2>2. RemoveAt(pending[p], i) \in Seq(Tasks)
        BY RemoveAtFacts
    <2>3. pending' \in [Peers -> Seq(Tasks)]
        BY <1>7, <2>2 DEF Dispatch
    <2>4. [active[p] EXCEPT ![DirOf[pending[p][i]]] = @ + 1] \in [Directions -> Int]
        BY <2>1
    <2>5. active' \in [Peers -> [Directions -> Int]]
        BY <1>7, <2>1, <2>4 DEF Dispatch
    <2>6. phase' \in [Tasks -> Phases]
        BY <1>7, <2>1 DEF Dispatch
    <2>7. UNCHANGED <<known, closed, wg, owed, dispatcher, closer, abandoned, waiter>>
        BY <1>7 DEF Dispatch
    <2>8. QED
        BY <2>3, <2>5, <2>6, <2>7
<1>8. CASE Close
    <2>1. Cardinality(InPhase({"pending"})) \in Nat
        BY TasksFinite DEF InPhase
    <2>2. QED
        BY <1>8, <2>1 DEF Close, Dropped
<1>9. CASE CloseBroadcast \/ CloseCancel \/ CloseSubtract
    BY <1>9 DEF CloseBroadcast, CloseCancel, CloseSubtract, Wake
<1>10. CASE WaitCall \/ WaitReturn
    BY <1>10 DEF WaitCall, WaitReturn
<1>11. CASE UNCHANGED vars
    BY <1>11 DEF vars
<1>12. QED
    BY <1>1, <1>2, <1>3, <1>4, <1>5, <1>6, <1>7, <1>8, <1>9, <1>10, <1>11
    DEF Next

(* The initial values are well typed. *)
LEMMA QueueTypeInit == Init => TypeOK
<1> SUFFICES ASSUME Init
             PROVE  TypeOK
    OBVIOUS
<1>1. pending \in [Peers -> Seq(Tasks)]
    BY DEF Init
<1>2. active \in [Peers -> [Directions -> Int]]
    BY DEF Init, NoneActive
<1>3. phase \in [Tasks -> Phases] /\ owed \in [Tasks -> SUBSET SignalCalls]
    BY DEF Init, Phases
<1>4. known \in SUBSET Peers /\ wg \in Int /\ abandoned \in Nat
    BY DEF Init
<1>5. /\ dispatcher \in {"ready", "waiting", "exited"}
      /\ closer \in {"idle", "broadcast", "cancel", "subtract", "done"}
      /\ waiter \in {"idle", "waiting", "returned"}
    BY DEF Init
<1>6. closed \in BOOLEAN
    BY DEF Init
<1>7. QED
    BY <1>1, <1>2, <1>3, <1>4, <1>5, <1>6 DEF TypeOK

(* The queue's variables keep their types. *)
THEOREM QueueTypeOK == Spec => []TypeOK
<1>1. Init => TypeOK
    BY QueueTypeInit
<1>2. TypeOK /\ [Next]_vars => TypeOK'
    BY TypeStep
<1>3. QED
    BY <1>1, <1>2, PTL DEF Spec

-----------------------------------------------------------------------------
HoldingPhases == {"spawned", "running", "returned"}
CountedPhases == {"pending", "spawned", "running", "returned", "released"}

(* A task that changes phase joins or leaves the sets defined by phase. *)
LEMMA PhaseMove ==
    ASSUME TypeOK, NEW t \in Tasks, NEW to \in Phases,
           phase' = [phase EXCEPT ![t] = to]
    PROVE  /\ \A S : InPhase(S)' =
                        IF to \in S THEN InPhase(S) \cup {t} ELSE InPhase(S) \ {t}
           /\ \A p \in Peers, d \in Directions : Holding(p, d)' =
                 IF to \in HoldingPhases /\ p = PeerOf[t] /\ d = DirOf[t]
                 THEN Holding(p, d) \cup {t} ELSE Holding(p, d) \ {t}
<1>1. ASSUME NEW u \in Tasks
      PROVE  phase'[u] = IF u = t THEN to ELSE phase[u]
    BY <1>1 DEF TypeOK
<1>2. ASSUME NEW S
      PROVE  InPhase(S)' =
                IF to \in S THEN InPhase(S) \cup {t} ELSE InPhase(S) \ {t}
    BY <1>1 DEF InPhase
<1>3. ASSUME NEW p \in Peers, NEW d \in Directions
      PROVE  Holding(p, d)' =
                IF to \in HoldingPhases /\ p = PeerOf[t] /\ d = DirOf[t]
                THEN Holding(p, d) \cup {t} ELSE Holding(p, d) \ {t}
    BY <1>1 DEF Holding, InPhase, HoldingPhases
<1>4. QED
    BY <1>2, <1>3

(* Steps that touch neither tasks nor devices keep what is said of them. *)
LEMMA Frame ==
    ASSUME IInv, UNCHANGED <<known, pending, active, phase>>
    PROVE  /\ PendingSound' /\ PendingComplete' /\ SlotAccounting'
           /\ CapsRespected' /\ DevicesTracked'
           /\ Counted' = Counted
           /\ InPhase({"pending"})' = InPhase({"pending"})
BY DEF IInv, PendingSound, PendingComplete, SlotAccounting, CapsRespected,
       DevicesTracked, Counted, InPhase, Holding

(* A task whose move concerns neither pending nor the slots. *)
LEMMA QuietMove ==
    ASSUME IInv, NEW t \in Tasks, NEW to \in Phases,
           UNCHANGED <<known, pending, active>>,
           phase' = [phase EXCEPT ![t] = to],
           phase[t] # "pending", to # "pending",
           phase[t] \in HoldingPhases <=> to \in HoldingPhases
    PROVE  /\ PendingSound' /\ PendingComplete' /\ SlotAccounting'
           /\ CapsRespected' /\ DevicesTracked'
           /\ InPhase({"pending"})' = InPhase({"pending"})
<1> USE DEF IInv
<1>1. \A u \in Tasks : phase'[u] = IF u = t THEN to ELSE phase[u]
    BY DEF TypeOK
<1>2. ASSUME NEW p \in Peers, NEW d \in Directions
      PROVE  Holding(p, d)' = Holding(p, d)
    BY <1>1 DEF Holding, InPhase, HoldingPhases
<1>3. SlotAccounting' /\ CapsRespected'
    BY <1>2 DEF SlotAccounting, CapsRespected, MaxFor
<1>4. \A p \in Peers : \A i \in 1 .. Len(pending[p]) : pending[p][i] \in Tasks
    BY DEF TypeOK
<1>5. PendingSound'
    BY <1>1, <1>4 DEF PendingSound
<1>6. PendingComplete'
    BY <1>1 DEF PendingComplete
<1>7. DevicesTracked' /\ InPhase({"pending"})' = InPhase({"pending"})
    BY <1>1 DEF DevicesTracked, InPhase, HoldingPhases
<1>8. QED
    BY <1>3, <1>5, <1>6, <1>7

(* Enqueue appends a task that was in no list. *)
LEMMA EnqueueStep ==
    ASSUME IInv, NEW t \in Tasks, Enqueue(t)
    PROVE  IInv'
<1> USE QueueAssumption DEF IInv
<1> DEFINE q == PeerOf[t]
<1>0. TypeOK'
    BY TypeStep DEF Next
<1>1. /\ phase' = [phase EXCEPT ![t] = "pending"] /\ phase[t] = "new"
      /\ pending' = [pending EXCEPT ![q] = Append(@, t)]
      /\ known' = known \cup {q} /\ wg' = wg + 1
      /\ UNCHANGED <<active, closed, abandoned, waiter>> /\ ~closed
    BY DEF Enqueue, Owe
<1>2. \A u \in Tasks : phase'[u] = IF u = t THEN "pending" ELSE phase[u]
    BY <1>1 DEF TypeOK
<1>3. \A p \in Peers : \A i \in 1 .. Len(pending[p]) : pending[p][i] \in Tasks
    BY DEF TypeOK
<1>4. /\ \A p \in Peers : p # q => pending'[p] = pending[p]
      /\ pending'[q] = Append(pending[q], t)
      /\ Len(pending'[q]) = Len(pending[q]) + 1
      /\ \A i \in 1 .. Len(pending[q]) : pending'[q][i] = pending[q][i]
      /\ pending'[q][Len(pending[q]) + 1] = t
    BY <1>1 DEF TypeOK
<1>5. \A p \in Peers : \A i \in 1 .. Len(pending[p]) : pending[p][i] # t
    BY <1>1 DEF PendingSound
<1>6. PendingSound'
    <2>1. ASSUME NEW p \in Peers, p # q
          PROVE  \A i \in 1 .. Len(pending'[p]) :
                    /\ phase'[pending'[p][i]] = "pending"
                    /\ PeerOf[pending'[p][i]] = p
                    /\ \A j \in 1 .. Len(pending'[p]) :
                          pending'[p][i] = pending'[p][j] => i = j
        BY <2>1, <1>2, <1>3, <1>4, <1>5 DEF PendingSound
    <2>2. ASSUME NEW i \in 1 .. Len(pending'[q])
          PROVE  /\ phase'[pending'[q][i]] = "pending"
                 /\ PeerOf[pending'[q][i]] = q
                 /\ \A j \in 1 .. Len(pending'[q]) :
                       pending'[q][i] = pending'[q][j] => i = j
        <3>1. Len(pending[q]) \in Nat /\ q \in Peers
            BY DEF TypeOK
        <3>2. CASE i = Len(pending[q]) + 1
            BY <3>1, <3>2, <1>2, <1>4, <1>5 DEF PendingSound
        <3>3. CASE i \in 1 .. Len(pending[q])
            BY <3>1, <3>3, <1>2, <1>3, <1>4, <1>5 DEF PendingSound
        <3>4. QED
            BY <3>1, <3>2, <3>3, <1>4
    <2>3. QED
        BY <2>1, <2>2 DEF PendingSound
<1>7. PendingComplete'
    <2> SUFFICES ASSUME NEW u \in Tasks, phase'[u] = "pending"
                 PROVE  \E i \in 1 .. Len(pending'[PeerOf[u]]) :
                            pending'[PeerOf[u]][i] = u
        BY DEF PendingComplete
    <2>1. Len(pending[q]) \in Nat /\ PeerOf[u] \in Peers
        BY DEF TypeOK
    <2>2. CASE u = t
        BY <2>1, <2>2, <1>4
    <2>3. CASE u # t
        <3>1. PICK i \in 1 .. Len(pending[PeerOf[u]]) : pending[PeerOf[u]][i] = u
            BY <2>3, <1>2 DEF PendingComplete
        <3>2. CASE PeerOf[u] = q
            BY <2>1, <3>1, <3>2, <1>4
        <3>3. CASE PeerOf[u] # q
            BY <2>1, <3>1, <3>3, <1>4
        <3>4. QED
            BY <3>2, <3>3
    <2>4. QED
        BY <2>2, <2>3
<1>8. \A p \in Peers, d \in Directions : Holding(p, d)' = Holding(p, d)
    BY <1>1, <1>2 DEF Holding, InPhase
<1>9. SlotAccounting' /\ CapsRespected'
    BY <1>1, <1>8 DEF SlotAccounting, CapsRespected, MaxFor
<1>10. DevicesTracked'
    BY <1>1, <1>2 DEF DevicesTracked, InPhase
<1>11. Counted' = Counted \cup {t} /\ t \notin Counted
    BY <1>1, <1>2 DEF Counted, InPhase
<1>12. WaitGroupAccounting'
    <2>1. Cardinality(Counted \cup {t}) = Cardinality(Counted) + 1
        BY <1>11, OneMore DEF Counted, InPhase
    <2>2. Cardinality(Counted) \in Nat
        BY TasksFinite DEF Counted, InPhase
    <2>3. QED
        BY <1>1, <1>11, <2>1, <2>2 DEF WaitGroupAccounting, TypeOK
<1>13. AfterClose' /\ WaitMeansDrained'
    BY <1>1 DEF AfterClose, WaitMeansDrained, TypeOK
<1>14. QED
    BY <1>0, <1>6, <1>7, <1>9, <1>10, <1>12, <1>13

(* Dispatch turns the entry it removes into a goroutine with a slot. *)
LEMMA DispatchStep ==
    ASSUME IInv, NEW p \in Peers, NEW i \in 1 .. Len(pending[p]), Dispatch(p, i)
    PROVE  IInv'
<1> USE QueueAssumption DEF IInv
<1> DEFINE t == pending[p][i]
           s == pending[p]
           r == RemoveAt(s, i)
<1>0. TypeOK'
    BY TypeStep DEF Next
<1>1. t \in Tasks /\ s \in Seq(Tasks) /\ Len(s) \in Nat
    <2>1. pending \in [Peers -> Seq(Tasks)]
        BY DEF TypeOK
    <2>2. QED
        BY <2>1
<1>2. phase[t] = "pending" /\ PeerOf[t] = p
    BY DEF PendingSound
<1>3. /\ phase' = [phase EXCEPT ![t] = "spawned"]
      /\ pending' = [pending EXCEPT ![p] = r]
      /\ active' = [active EXCEPT ![p][DirOf[t]] = @ + 1]
      /\ UNCHANGED <<known, closed, wg, abandoned, waiter>>
      /\ active[p][DirOf[t]] < MaxFor(DirOf[t])
    BY DEF Dispatch, FirstRunnable, Runnable
<1>4. /\ Len(r) = Len(s) - 1
      /\ \A j \in 1 .. Len(r) : r[j] = IF j < i THEN s[j] ELSE s[j + 1]
    BY <1>1, RemoveAtFacts
<1> HIDE DEF r
<1>5. /\ pending'[p] = r
      /\ \A o \in Peers : o # p => pending'[o] = pending[o]
    BY <1>3 DEF TypeOK
<1>6. \A u \in Tasks : phase'[u] = IF u = t THEN "spawned" ELSE phase[u]
    BY <1>1, <1>3 DEF TypeOK
<1>7. \A o \in Peers : \A j \in 1 .. Len(pending[o]) : pending[o][j] \in Tasks
    BY DEF TypeOK
<1>8. PendingSound'
    <2>1. ASSUME NEW o \in Peers, o # p
          PROVE  \A j \in 1 .. Len(pending'[o]) :
                    /\ phase'[pending'[o][j]] = "pending"
                    /\ PeerOf[pending'[o][j]] = o
                    /\ \A k \in 1 .. Len(pending'[o]) :
                          pending'[o][j] = pending'[o][k] => j = k
        BY <2>1, <1>2, <1>5, <1>6, <1>7 DEF PendingSound
    <2>2. ASSUME NEW j \in 1 .. Len(r)
          PROVE  /\ phase'[r[j]] = "pending"
                 /\ PeerOf[r[j]] = p
                 /\ \A k \in 1 .. Len(r) : r[j] = r[k] => j = k
        <3>1. \E m \in 1 .. Len(s) : m # i /\ r[j] = s[m]
            <4>1. CASE j < i
                BY <4>1, <1>1, <1>4
            <4>2. CASE ~(j < i)
                <5>1. j + 1 \in 1 .. Len(s) /\ j + 1 # i /\ r[j] = s[j + 1]
                    BY <4>2, <1>1, <1>4
                <5>2. QED
                    BY <5>1
            <4>3. QED
                BY <4>1, <4>2
        <3>2. r[j] \in Tasks /\ r[j] # t /\ phase[r[j]] = "pending" /\ PeerOf[r[j]] = p
            BY <3>1, <1>7 DEF PendingSound
        <3>3. ASSUME NEW k \in 1 .. Len(r), r[j] = r[k]
              PROVE  j = k
            BY <3>3, <1>1, <1>4 DEF PendingSound
        <3>4. QED
            BY <3>2, <3>3, <1>6
    <2>3. QED
        BY <2>1, <2>2, <1>5 DEF PendingSound
<1>9. PendingComplete'
    <2> SUFFICES ASSUME NEW u \in Tasks, phase'[u] = "pending"
                 PROVE  \E j \in 1 .. Len(pending'[PeerOf[u]]) :
                            pending'[PeerOf[u]][j] = u
        BY DEF PendingComplete
    <2>1. u # t /\ phase[u] = "pending" /\ PeerOf[u] \in Peers
        BY <1>6
    <2>2. PICK j \in 1 .. Len(pending[PeerOf[u]]) : pending[PeerOf[u]][j] = u
        BY <2>1 DEF PendingComplete
    <2>3. CASE PeerOf[u] = p /\ j < i
        <3>1. j \in 1 .. Len(r) /\ r[j] = u
            BY <2>2, <2>3, <1>1, <1>4
        <3>2. QED
            BY <2>3, <3>1, <1>5
    <2>4. CASE PeerOf[u] = p /\ ~(j < i)
        <3>1. j - 1 \in 1 .. Len(r) /\ r[j - 1] = u
            BY <2>1, <2>2, <2>4, <1>1, <1>4
        <3>2. QED
            BY <2>4, <3>1, <1>5
    <2>5. CASE PeerOf[u] # p
        BY <2>1, <2>2, <2>5, <1>5
    <2>6. QED
        BY <2>3, <2>4, <2>5
<1>10. \A o \in Peers, d \in Directions : Holding(o, d)' =
            IF o = p /\ d = DirOf[t] THEN Holding(o, d) \cup {t} ELSE Holding(o, d)
    BY <1>1, <1>2, <1>6 DEF Holding, InPhase
<1>11. \A o \in Peers, d \in Directions :
            /\ t \notin Holding(o, d)
            /\ Holding(o, d) \in SUBSET Tasks
            /\ Cardinality(Holding(o, d)) \in Nat
    BY <1>2, TasksFinite DEF Holding, InPhase
<1>12. \A o \in Peers, d \in Directions : active'[o][d] =
            IF o = p /\ d = DirOf[t] THEN active[o][d] + 1 ELSE active[o][d]
    BY <1>1, <1>3 DEF TypeOK
<1>13. \A o \in Peers, d \in Directions : Cardinality(Holding(o, d)') =
            IF o = p /\ d = DirOf[t] THEN Cardinality(Holding(o, d)) + 1
                                     ELSE Cardinality(Holding(o, d))
    BY <1>1, <1>10, <1>11, OneMore
<1>14. SlotAccounting'
    BY <1>12, <1>13 DEF SlotAccounting
<1>15. CapsRespected'
    <2>1. Cardinality(Holding(p, DirOf[t])) < MaxFor(DirOf[t])
        BY <1>1, <1>3 DEF SlotAccounting
    <2>2. ASSUME NEW o \in Peers, NEW d \in Directions
          PROVE  Cardinality(Holding(o, d)') <= MaxFor(d)
        <3>1. MaxFor(d) \in Nat /\ Cardinality(Holding(o, d)) <= MaxFor(d)
            BY DEF MaxFor, CapsRespected
        <3>2. CASE o = p /\ d = DirOf[t]
            BY <3>1, <3>2, <1>11, <1>13, <2>1
        <3>3. CASE ~(o = p /\ d = DirOf[t])
            BY <3>1, <3>3, <1>13
        <3>4. QED
            BY <3>2, <3>3
    <2>3. QED
        BY <2>2 DEF CapsRespected, MaxFor
<1>16. DevicesTracked'
    BY <1>1, <1>2, <1>3, <1>6 DEF DevicesTracked, InPhase
<1>17. Counted' = Counted
    BY <1>1, <1>2, <1>6 DEF Counted, InPhase
<1>18. WaitGroupAccounting'
    BY <1>3, <1>17 DEF WaitGroupAccounting
<1>19. ~closed
    BY DEF Dispatch
<1>20. AfterClose' /\ WaitMeansDrained'
    BY <1>3, <1>19 DEF AfterClose, WaitMeansDrained, TypeOK
<1>21. QED
    BY <1>0, <1>8, <1>9, <1>14, <1>15, <1>16, <1>18, <1>20

(* releaseSlot gives one slot back and forgets the device only when it has *)
(* nothing pending and nothing active.                                     *)
LEMMA ReleaseStep ==
    ASSUME IInv, NEW t \in Tasks, ReleaseSlot(t)
    PROVE  IInv'
<1> USE QueueAssumption DEF IInv
<1> DEFINE q == PeerOf[t]
           left == [active[q] EXCEPT ![DirOf[t]] = @ - 1]
<1>0. TypeOK'
    BY TypeStep DEF Next
<1>1. q \in known
    BY DEF ReleaseSlot, Drained, Owe, DevicesTracked, InPhase
<1>2. /\ phase' = [phase EXCEPT ![t] = "released"] /\ phase[t] = "returned"
      /\ active' = [active EXCEPT ![q] = left]
      /\ known' = IF pending[q] = <<>> /\ left = NoneActive
                  THEN known \ {q} ELSE known
      /\ UNCHANGED <<pending, closed, wg, abandoned, waiter>>
    BY <1>1 DEF ReleaseSlot, Drained, Owe
<1>3. \A u \in Tasks : phase'[u] = IF u = t THEN "released" ELSE phase[u]
    BY <1>2 DEF TypeOK
<1>4. \A p \in Peers : \A i \in 1 .. Len(pending[p]) : pending[p][i] \in Tasks
    BY DEF TypeOK
<1>5. PendingSound'
    BY <1>2, <1>3, <1>4 DEF PendingSound
<1>6. PendingComplete'
    BY <1>2, <1>3 DEF PendingComplete
<1>7. \A p \in Peers, d \in Directions : Holding(p, d)' =
            IF p = q /\ d = DirOf[t] THEN Holding(p, d) \ {t} ELSE Holding(p, d)
    BY <1>2, <1>3 DEF Holding, InPhase
<1>8. /\ t \in Holding(q, DirOf[t])
      /\ \A p \in Peers, d \in Directions :
            Holding(p, d) \in SUBSET Tasks /\ Cardinality(Holding(p, d)) \in Nat
    BY <1>2, TasksFinite DEF Holding, InPhase
<1>9. \A p \in Peers, d \in Directions : active'[p][d] =
            IF p = q /\ d = DirOf[t] THEN active[p][d] - 1 ELSE active[p][d]
    BY <1>2 DEF TypeOK
<1>10. \A p \in Peers, d \in Directions : Cardinality(Holding(p, d)') =
            IF p = q /\ d = DirOf[t] THEN Cardinality(Holding(p, d)) - 1
                                     ELSE Cardinality(Holding(p, d))
    BY <1>7, <1>8, OneLess
<1>11. SlotAccounting'
    BY <1>9, <1>10 DEF SlotAccounting
<1>12. CapsRespected'
    <2> SUFFICES ASSUME NEW p \in Peers, NEW d \in Directions
                 PROVE  Cardinality(Holding(p, d)') <= MaxFor(d)
        BY DEF CapsRespected, MaxFor
    <2>1. MaxFor(d) \in Nat /\ Cardinality(Holding(p, d)) <= MaxFor(d)
        BY DEF MaxFor, CapsRespected
    <2>2. QED
        BY <2>1, <1>8, <1>10
<1>13. DevicesTracked'
    <2> SUFFICES ASSUME NEW u \in Tasks,
                        phase'[u] \in {"pending", "spawned", "running", "returned"}
                 PROVE  PeerOf[u] \in known'
        BY DEF DevicesTracked, InPhase
    <2>1. u # t /\ phase'[u] = phase[u] /\ PeerOf[u] \in known
        BY <1>3 DEF DevicesTracked, InPhase
    <2>2. CASE phase[u] = "pending"
        BY <2>1, <2>2, <1>2 DEF PendingComplete
    <2>3. CASE phase[u] # "pending" /\ PeerOf[u] = q
        <3>1. u \in Holding(q, DirOf[u])'
            BY <2>1, <2>3, <1>3 DEF Holding, InPhase
        <3>2. Holding(q, DirOf[u])' \in SUBSET Tasks /\ DirOf[u] \in Directions
            BY <1>7, <1>8
        <3>3. active'[q][DirOf[u]] # 0
            BY <3>1, <3>2, <1>11, TasksFinite, FS_EmptySet DEF SlotAccounting
        <3>4. active'[q] = left
            BY <1>2 DEF TypeOK
        <3>5. left # NoneActive
            BY <3>2, <3>3, <3>4 DEF NoneActive
        <3>6. QED
            BY <3>5, <2>1, <1>2
    <2>4. CASE PeerOf[u] # q
        BY <2>1, <2>4, <1>2
    <2>5. QED
        BY <2>2, <2>3, <2>4
<1>14. Counted' = Counted /\ InPhase({"pending"})' = InPhase({"pending"})
    BY <1>2, <1>3 DEF Counted, InPhase
<1>15. WaitGroupAccounting' /\ AfterClose'
    BY <1>2, <1>14 DEF WaitGroupAccounting, AfterClose
<1>16. WaitMeansDrained'
    BY <1>2, <1>14 DEF WaitMeansDrained, Counted
<1>17. QED
    BY <1>0, <1>5, <1>6, <1>11, <1>12, <1>13, <1>15, <1>16

(* Close empties pending and remembers how many counters it owes. *)
LEMMA CloseStep ==
    ASSUME IInv, Close
    PROVE  IInv'
<1> USE QueueAssumption DEF IInv
<1> DEFINE dropped == InPhase({"pending"})
<1>0. TypeOK'
    BY TypeStep DEF Next
<1>1. /\ ~closed /\ closed' /\ abandoned' = Cardinality(dropped)
      /\ pending' = [p \in Peers |-> <<>>]
      /\ UNCHANGED <<known, active, wg, waiter>>
      /\ abandoned = 0
    BY DEF Close, Dropped, AfterClose
<1>2. \A u \in Tasks : phase'[u] =
            IF phase[u] = "pending" THEN "abandoned" ELSE phase[u]
    BY DEF Close, Dropped
<1>3. PendingSound'
    BY <1>1 DEF PendingSound
<1>4. PendingComplete'
    BY <1>2 DEF PendingComplete
<1>5. \A p \in Peers, d \in Directions : Holding(p, d)' = Holding(p, d)
    BY <1>2 DEF Holding, InPhase
<1>6. SlotAccounting' /\ CapsRespected'
    BY <1>1, <1>5 DEF SlotAccounting, CapsRespected, MaxFor
<1>7. DevicesTracked'
    BY <1>1, <1>2 DEF DevicesTracked, InPhase
<1>8. WaitGroupAccounting'
    <2>1. /\ Counted = Counted' \cup dropped /\ Counted' \cap dropped = {}
          /\ Counted' \in SUBSET Tasks /\ dropped \in SUBSET Tasks
        BY <1>2 DEF Counted, InPhase
    <2>2. Cardinality(Counted) = Cardinality(Counted') + Cardinality(dropped)
        <3>1. Cardinality({}) = 0
            BY FS_EmptySet
        <3>2. /\ IsFiniteSet(Counted') /\ Cardinality(Counted') \in Nat
              /\ IsFiniteSet(dropped) /\ Cardinality(dropped) \in Nat
            BY <2>1, TasksFinite
        <3>3. Cardinality(Counted' \cup dropped) =
                Cardinality(Counted') + Cardinality(dropped)
                    - Cardinality(Counted' \cap dropped)
            BY <3>2, FS_Union
        <3>4. /\ Cardinality(Counted' \cup dropped) = Cardinality(Counted)
              /\ Cardinality(Counted' \cap dropped) = 0
            BY <3>1, <2>1
        <3>5. QED
            BY <3>2, <3>3, <3>4
    <2>3. Cardinality(Counted') \in Nat /\ Cardinality(dropped) \in Nat
        BY <2>1, TasksFinite
    <2>4. QED
        BY <2>2, <2>3, <1>1 DEF WaitGroupAccounting, TypeOK
<1>9. AfterClose'
    BY <1>1, <1>2 DEF AfterClose, InPhase
<1>10. WaitMeansDrained'
    BY <1>1 DEF WaitMeansDrained, AfterClose, TypeOK
<1>11. QED
    BY <1>0, <1>3, <1>4, <1>6, <1>7, <1>8, <1>9, <1>10

(* Every step keeps the invariant. *)
LEMMA InvariantStep == IInv /\ [Next]_vars => IInv'
<1> SUFFICES ASSUME IInv, [Next]_vars
             PROVE  IInv'
    OBVIOUS
<1>0. TypeOK'
    BY TypeStep DEF IInv
<1>1. ASSUME NEW t \in Tasks, EnqueueRefused(t)
      PROVE  IInv'
    <2>1. /\ phase[t] = "new" /\ phase' = [phase EXCEPT ![t] = "refused"]
          /\ UNCHANGED <<known, pending, active, closed, wg, abandoned, waiter>>
        BY <1>1 DEF EnqueueRefused
    <2>2. /\ PendingSound' /\ PendingComplete' /\ SlotAccounting'
          /\ CapsRespected' /\ DevicesTracked'
          /\ InPhase({"pending"})' = InPhase({"pending"})
        BY <2>1, QuietMove DEF HoldingPhases, Phases
    <2>3. Counted' = Counted
        BY <2>1 DEF Counted, InPhase, IInv, TypeOK
    <2>4. QED
        BY <1>0, <2>1, <2>2, <2>3
        DEF IInv, WaitGroupAccounting, AfterClose, WaitMeansDrained, Counted
<1>2. ASSUME NEW t \in Tasks, Execute(t) \/ Return(t)
      PROVE  IInv'
    <2>1. PICK to \in {"running", "returned"} :
            /\ phase[t] \in {"spawned", "running"}
            /\ phase' = [phase EXCEPT ![t] = to]
            /\ UNCHANGED <<known, pending, active, closed, wg, abandoned, waiter>>
        BY <1>2 DEF Execute, Return, Advance
    <2>2. /\ PendingSound' /\ PendingComplete' /\ SlotAccounting'
          /\ CapsRespected' /\ DevicesTracked'
          /\ InPhase({"pending"})' = InPhase({"pending"})
        BY <2>1, QuietMove DEF HoldingPhases, Phases
    <2>3. Counted' = Counted
        BY <2>1 DEF Counted, InPhase, IInv, TypeOK
    <2>4. QED
        BY <1>0, <2>1, <2>2, <2>3
        DEF IInv, WaitGroupAccounting, AfterClose, WaitMeansDrained, Counted
<1>3. ASSUME NEW t \in Tasks, Done(t)
      PROVE  IInv'
    <2>1. /\ phase[t] = "released" /\ phase' = [phase EXCEPT ![t] = "done"]
          /\ wg' = wg - 1
          /\ UNCHANGED <<known, pending, active, closed, abandoned, waiter>>
        BY <1>3 DEF Done, Advance
    <2>2. /\ PendingSound' /\ PendingComplete' /\ SlotAccounting'
          /\ CapsRespected' /\ DevicesTracked'
          /\ InPhase({"pending"})' = InPhase({"pending"})
        BY <2>1, QuietMove DEF HoldingPhases, Phases
    <2>3. t \in Counted /\ Counted' = Counted \ {t} /\ Counted \in SUBSET Tasks
        BY <2>1 DEF Counted, InPhase, IInv, TypeOK
    <2>4. Cardinality(Counted') = Cardinality(Counted) - 1
        BY <2>3, OneLess
    <2>5. Cardinality(Counted) \in Nat
        BY <2>3, TasksFinite
    <2>6. WaitGroupAccounting'
        BY <2>1, <2>4, <2>5 DEF IInv, WaitGroupAccounting, TypeOK
    <2>7. WaitMeansDrained' /\ AfterClose'
        BY <2>1, <2>2, <2>3 DEF IInv, AfterClose, WaitMeansDrained, Counted
    <2>8. QED
        BY <1>0, <2>2, <2>6, <2>7 DEF IInv
<1>4. ASSUME NEW t \in Tasks, NEW call \in SignalCalls, Signal(t, call)
      PROVE  IInv'
    BY <1>0, <1>4, Frame
    DEF Signal, IInv, WaitGroupAccounting, AfterClose, WaitMeansDrained, Counted
<1>5. CASE DispatchWait \/ DispatchExit \/ CloseBroadcast \/ CloseCancel
    BY <1>0, <1>5, Frame
    DEF DispatchWait, DispatchExit, CloseBroadcast, CloseCancel,
        IInv, WaitGroupAccounting, AfterClose, WaitMeansDrained, Counted
<1>6. CASE CloseSubtract
    <2>1. /\ wg' = wg - abandoned /\ abandoned' = 0
          /\ UNCHANGED <<known, pending, active, phase, closed, waiter>>
        BY <1>6 DEF CloseSubtract
    <2>2. WaitGroupAccounting'
        <3>1. Counted' = Counted /\ Cardinality(Counted) \in Nat
            BY <2>1, Frame, TasksFinite DEF Counted, InPhase
        <3>2. QED
            BY <2>1, <3>1 DEF IInv, TypeOK, WaitGroupAccounting
    <2>3. QED
        BY <1>0, <2>1, <2>2, Frame DEF IInv, AfterClose, WaitMeansDrained, Counted
<1>7. CASE WaitCall
    BY <1>0, <1>7, Frame
    DEF WaitCall, IInv, WaitGroupAccounting, AfterClose, WaitMeansDrained, Counted
<1>8. CASE WaitReturn
    <2>1. /\ wg = 0 /\ waiter = "waiting" /\ waiter' = "returned"
          /\ UNCHANGED <<known, pending, active, phase, closed, wg, abandoned>>
        BY <1>8 DEF WaitReturn
    <2>2. Counted = {}
        <3>1. Cardinality(Counted) = 0
            BY <2>1, TasksFinite
            DEF IInv, TypeOK, WaitGroupAccounting, Counted, InPhase
        <3>2. QED
            BY <3>1, TasksFinite, FS_EmptySet DEF Counted, InPhase
    <2>3. WaitMeansDrained'
        BY <2>1, <2>2, Frame DEF WaitMeansDrained, Counted
    <2>4. QED
        BY <1>0, <2>1, <2>3, Frame DEF IInv, WaitGroupAccounting, AfterClose
<1>9. CASE UNCHANGED vars
    BY <1>0, <1>9, Frame
    DEF vars, IInv, WaitGroupAccounting, AfterClose, WaitMeansDrained, Counted
<1>10. QED
    BY <1>1, <1>2, <1>3, <1>4, <1>5, <1>6, <1>7, <1>8, <1>9,
       EnqueueStep, DispatchStep, ReleaseStep, CloseStep
    DEF Next

LEMMA InitInvariant == Init => IInv
<1> SUFFICES ASSUME Init
             PROVE  IInv
    OBVIOUS
<1>1. TypeOK
    BY QueueTypeInit
<1>2. PendingSound /\ PendingComplete /\ DevicesTracked
    BY DEF Init, PendingSound, PendingComplete, DevicesTracked, InPhase
<1>3. \A p \in Peers, d \in Directions : Holding(p, d) = {}
    BY DEF Init, Holding, InPhase
<1>4. Counted = {} /\ InPhase({"pending"}) = {}
    BY DEF Init, Counted, InPhase
<1>5. SlotAccounting /\ CapsRespected /\ WaitGroupAccounting
    <2>1. Cardinality({}) = 0
        BY FS_EmptySet
    <2>2. \A p \in Peers, d \in Directions : active[p][d] = 0
        BY DEF Init, NoneActive
    <2>3. SlotAccounting
        BY <1>3, <2>1, <2>2 DEF SlotAccounting
    <2>4. CapsRespected
        BY <1>3, <2>1, QueueAssumption DEF CapsRespected, MaxFor
    <2>5. WaitGroupAccounting
        BY <1>4, <2>1 DEF WaitGroupAccounting, Init
    <2>6. QED
        BY <2>3, <2>4, <2>5
<1>6. AfterClose /\ WaitMeansDrained
    BY <1>4 DEF Init, AfterClose, WaitMeansDrained
<1>7. QED
    BY <1>1, <1>2, <1>5, <1>6 DEF IInv

(* The inductive invariant behind every safety result about the queue. *)
THEOREM QueueInvariant == Spec => []IInv
BY InitInvariant, InvariantStep, PTL DEF Spec

(* At most MaxUp uploads and MaxDown downloads of a device hold a          *)
(* goroutine at any time, for every number of tasks, peers and slots.      *)
THEOREM QueueCaps == Spec => []CapsRespected
<1>1. IInv => CapsRespected
    BY DEF IInv
<1>2. QED
    BY <1>1, QueueInvariant, PTL

(* The entry of a busy device is never dropped from q.devices. *)
THEOREM QueueDevicesTracked == Spec => []DevicesTracked
<1>1. IInv => DevicesTracked
    BY DEF IInv
<1>2. QED
    BY <1>1, QueueInvariant, PTL

(* The WaitGroup never goes below zero, and a Wait that returns after      *)
(* Close leaves no task goroutine behind.                                  *)
THEOREM QueueWaitSafe == Spec => [](WaitMeansDrained /\ WaitGroupNeverNegative)
<1>1. IInv => WaitMeansDrained /\ WaitGroupNeverNegative
    <2> SUFFICES ASSUME IInv
                 PROVE  WaitMeansDrained /\ WaitGroupNeverNegative
        OBVIOUS
    <2>1. Cardinality(Counted) \in Nat
        BY TasksFinite DEF Counted, InPhase
    <2>2. wg >= 0
        BY <2>1 DEF IInv, TypeOK, WaitGroupAccounting
    <2>3. QED
        BY <2>2 DEF IInv, WaitGroupNeverNegative
<1>2. QED
    BY <1>1, QueueInvariant, PTL

-----------------------------------------------------------------------------
(* The condition variable and the order of tasks.                          *)

(* Only Dispatch hands a pending task to a goroutine. *)
LEMMA SpawnedByDispatch ==
    ASSUME IInv, [Next]_vars, NEW t \in Tasks, phase[t] = "pending", phase'[t] = "spawned"
    PROVE  \E p \in Peers : \E i \in 1 .. Len(pending[p]) : Dispatch(p, i) /\ pending[p][i] = t
<1>0. phase \in [Tasks -> Phases]
    BY DEF IInv, TypeOK
<1>1. ASSUME NEW u \in Tasks,
             \/ EnqueueRefused(u) \/ Enqueue(u) \/ Execute(u) \/ Return(u)
             \/ ReleaseSlot(u) \/ Done(u)
      PROVE  FALSE
    <2>1. \E to \in Phases \ {"spawned"} : phase' = [phase EXCEPT ![u] = to]
        BY <1>1 DEF EnqueueRefused, Enqueue, Execute, Return, ReleaseSlot, Done,
                    Advance, Phases
    <2>2. QED
        BY <1>0, <2>1
<1>2. CASE Close
    BY <1>0, <1>2 DEF Close
<1>3. ASSUME UNCHANGED phase
      PROVE  FALSE
    BY <1>3
<1>4. ASSUME NEW p \in Peers, NEW i \in 1 .. Len(pending[p]), Dispatch(p, i)
      PROVE  pending[p][i] = t
    <2>1. phase' = [phase EXCEPT ![pending[p][i]] = "spawned"]
        BY <1>4 DEF Dispatch
    <2>2. QED
        BY <1>0, <2>1
<1>5. QED
    BY <1>1, <1>2, <1>3, <1>4
    DEF Next, Signal, DispatchWait, DispatchExit, CloseBroadcast, CloseCancel,
        CloseSubtract, WaitCall, WaitReturn, vars

(* Tasks of one peer and direction start in the order of Enqueue: the      *)
(* dispatcher may pass a task over only if its direction is full, and then *)
(* it passes over the later ones of that direction as well.                *)
THEOREM QueueFIFO == Spec => FIFO
<1> DEFINE InOrder ==
               \A p \in Peers : \A i, j \in 1 .. Len(pending[p]) :
                   /\ i < j
                   /\ DirOf[pending[p][i]] = DirOf[pending[p][j]]
                   /\ phase'[pending[p][j]] = "spawned"
                   => phase'[pending[p][i]] # "pending"
<1>1. IInv /\ [Next]_vars => InOrder
    <2> SUFFICES ASSUME IInv, [Next]_vars,
                        NEW p \in Peers, NEW i \in 1 .. Len(pending[p]),
                        NEW j \in 1 .. Len(pending[p]),
                        i < j, DirOf[pending[p][i]] = DirOf[pending[p][j]],
                        phase'[pending[p][j]] = "spawned"
                 PROVE  FALSE
        OBVIOUS
    <2>1. /\ pending[p][j] \in Tasks /\ phase[pending[p][j]] = "pending"
          /\ PeerOf[pending[p][j]] = p
        BY DEF IInv, TypeOK, PendingSound
    <2>2. PICK q \in Peers : \E k \in 1 .. Len(pending[q]) :
                   Dispatch(q, k) /\ pending[q][k] = pending[p][j]
        BY <2>1, SpawnedByDispatch
    <2>3. q = p
        BY <2>1, <2>2 DEF IInv, PendingSound
    <2>4. Dispatch(p, j)
        BY <2>2, <2>3 DEF IInv, PendingSound
    <2>5. Runnable(p, j) /\ \A k \in 1 .. j - 1 : ~Runnable(p, k)
        BY <2>4 DEF Dispatch, FirstRunnable
    <2>6. i \in 1 .. j - 1
        OBVIOUS
    <2>7. QED
        BY <2>5, <2>6 DEF Runnable
<1>2. QED
    BY <1>1, QueueInvariant, PTL DEF Spec, FIFO

(* No wakeup is lost: the dispatcher never sleeps beside a task it could   *)
(* start, or in a closed queue, unless somebody is about to wake it.       *)
THEOREM QueueWakeupOwed == Spec => []WakeupOwed
<1>1. Init => WakeupOwed
    BY DEF Init, WakeupOwed
<1>2. TypeOK /\ WakeupOwed /\ [Next]_vars => WakeupOwed'
    <2> SUFFICES ASSUME TypeOK, WakeupOwed, [Next]_vars
                 PROVE  WakeupOwed'
        OBVIOUS
    <2>1. ASSUME NEW t \in Tasks, Enqueue(t) \/ ReleaseSlot(t)
          PROVE  WakeupOwed'
        <3>1. PICK call : Owe(t, call)
            BY <2>1 DEF Enqueue, ReleaseSlot
        <3>2. owed'[t] # {}
            BY <3>1 DEF Owe, TypeOK
        <3>3. UNCHANGED <<dispatcher, closed, closer>>
            BY <2>1 DEF Enqueue, ReleaseSlot
        <3>4. QED
            BY <3>2, <3>3 DEF WakeupOwed
    <2>2. ASSUME NEW t \in Tasks, EnqueueRefused(t) \/ Execute(t) \/ Return(t) \/ Done(t)
          PROVE  WakeupOwed'
        <3>1. UNCHANGED <<known, pending, active, closed, owed, dispatcher, closer>>
            BY <2>2 DEF EnqueueRefused, Execute, Return, Done, Advance
        <3>2. QED
            BY <3>1 DEF WakeupOwed, HasRunnable, Runnable
    <2>3. ASSUME NEW t \in Tasks, NEW call \in SignalCalls, Signal(t, call)
          PROVE  WakeupOwed'
        BY <2>3 DEF Signal, Wake, WakeupOwed
    <2>4. CASE DispatchWait
        BY <2>4 DEF DispatchWait, WakeupOwed, HasRunnable, Runnable
    <2>5. CASE DispatchExit \/ CloseBroadcast \/ \E p \in Peers : \E i \in 1 .. Len(pending[p]) : Dispatch(p, i)
        BY <2>5 DEF DispatchExit, CloseBroadcast, Dispatch, Wake, WakeupOwed
    <2>6. CASE Close
        BY <2>6 DEF Close, WakeupOwed
    <2>7. CASE CloseCancel \/ CloseSubtract
        BY <2>7 DEF CloseCancel, CloseSubtract, WakeupOwed, HasRunnable, Runnable
    <2>8. CASE WaitCall \/ WaitReturn \/ UNCHANGED vars
        BY <2>8 DEF WaitCall, WaitReturn, vars, WakeupOwed, HasRunnable, Runnable
    <2>9. QED
        BY <2>1, <2>2, <2>3, <2>4, <2>5, <2>6, <2>7, <2>8 DEF Next
<1>3. QED
    BY <1>1, <1>2, QueueTypeOK, PTL DEF Spec

-----------------------------------------------------------------------------
(* The refinement. *)
LEMMA SlotsInit == Init => Slots!SlotInit
BY DEF Init, Slots!SlotInit, StageOf

(* A move of one task in the queue is a move of its stage or none at all. *)
LEMMA StageMove ==
    ASSUME TypeOK, NEW t \in Tasks, NEW to \in Phases,
           phase' = [phase EXCEPT ![t] = to], closed' = closed
    PROVE  /\ [u \in Tasks |-> StageOf(phase[u])]' =
                [[u \in Tasks |-> StageOf(phase[u])] EXCEPT ![t] = StageOf(to)]
           /\ StageOf(to) = StageOf(phase[t]) => UNCHANGED Slots!slotVars
<1>1. \A u \in Tasks : phase'[u] = IF u = t THEN to ELSE phase[u]
    BY DEF TypeOK
<1>2. \A u \in Tasks : StageOf(phase'[u]) =
            IF u = t THEN StageOf(to) ELSE StageOf(phase[u])
    BY <1>1
<1>3. [u \in Tasks |-> StageOf(phase'[u])] =
            [[u \in Tasks |-> StageOf(phase[u])] EXCEPT ![t] = StageOf(to)]
    BY <1>2
<1>4. ASSUME StageOf(to) = StageOf(phase[t])
      PROVE  [u \in Tasks |-> StageOf(phase'[u])] = [u \in Tasks |-> StageOf(phase[u])]
    BY <1>2, <1>4
<1>5. QED
    BY <1>3, <1>4 DEF Slots!slotVars

LEMMA SlotsStep == IInv /\ [Next]_vars => [Slots!SlotNext]_(Slots!slotVars)
<1> SUFFICES ASSUME IInv, [Next]_vars
             PROVE  [Slots!SlotNext]_(Slots!slotVars)
    OBVIOUS
<1> USE DEF IInv
<1> DEFINE stage == [u \in Tasks |-> StageOf(phase[u])]
<1>1. ASSUME NEW t \in Tasks, EnqueueRefused(t)
      PROVE  Slots!SlotNext
    <2>1. Slots!Refuse(t)
        BY <1>1, StageMove
        DEF EnqueueRefused, Slots!Refuse, Slots!Move, StageOf, Phases
    <2>2. QED
        BY <2>1 DEF Slots!SlotNext
<1>2. ASSUME NEW t \in Tasks, Enqueue(t)
      PROVE  Slots!SlotNext
    <2>1. Slots!Submit(t)
        BY <1>2, StageMove DEF Enqueue, Owe, Slots!Submit, Slots!Move, StageOf, Phases
    <2>2. QED
        BY <2>1 DEF Slots!SlotNext
<1>3. ASSUME NEW t \in Tasks, Execute(t) \/ Return(t) \/ Done(t)
      PROVE  UNCHANGED Slots!slotVars
    BY <1>3, StageMove DEF Execute, Return, Done, Advance, StageOf, Phases
<1>4. ASSUME NEW t \in Tasks, ReleaseSlot(t)
      PROVE  Slots!SlotNext
    <2>1. Slots!Finish(t)
        BY <1>4, StageMove DEF ReleaseSlot, Drained, Owe, Slots!Finish, Slots!Move, StageOf, Phases
    <2>2. QED
        BY <2>1 DEF Slots!SlotNext
<1>5. ASSUME NEW p \in Peers, NEW i \in 1 .. Len(pending[p]), Dispatch(p, i)
      PROVE  Slots!SlotNext
    <2> DEFINE t == pending[p][i]
    <2>1. t \in Tasks /\ phase[t] = "pending" /\ PeerOf[t] = p
        BY DEF PendingSound, TypeOK
    <2>2. /\ phase' = [phase EXCEPT ![t] = "spawned"] /\ closed' = closed /\ ~closed
          /\ active[p][DirOf[t]] < MaxFor(DirOf[t])
        BY <1>5 DEF Dispatch, FirstRunnable, Runnable
    <2> HIDE DEF t
    <2>3. Slots!Move(t, "queued", "running")
        BY <2>1, <2>2, StageMove DEF Slots!Move, StageOf, Phases
    <2>4. {u \in Slots!Lane(t) : stage[u] = "running"} = Holding(p, DirOf[t])
        BY <2>1 DEF Slots!Lane, Holding, InPhase, StageOf, TypeOK, Phases
    <2>5. Cardinality(Holding(p, DirOf[t])) < MaxFor(DirOf[t])
        BY <2>1, <2>2, QueueAssumption DEF SlotAccounting
    <2>6. Cardinality({u \in Slots!Lane(t) : stage[u] = "running"}) < Slots!Slots(t)
        BY <2>4, <2>5 DEF Slots!Slots, MaxFor
    <2>7. Slots!Start(t)
        <3>1. \A S : Slots!Cardinality(S) = Cardinality(S)
            BY DEF Slots!Cardinality, Cardinality
        <3>2. QED
            BY <2>2, <2>3, <2>6, <3>1 DEF Slots!Start
    <2>8. QED
        BY <2>1, <2>7 DEF Slots!SlotNext
<1>6. CASE Close
    <2>1. ~closed /\ closed'
        BY <1>6 DEF Close, Dropped
    <2>2. \A u \in Tasks : phase'[u] =
                IF phase[u] = "pending" THEN "abandoned" ELSE phase[u]
        BY <1>6 DEF Close, Dropped
    <2>3. \A u \in Tasks : StageOf(phase'[u]) =
                IF StageOf(phase[u]) = "queued" THEN "over" ELSE StageOf(phase[u])
        BY <2>2 DEF StageOf, TypeOK, Phases
    <2>4. Slots!Shut
        BY <2>1, <2>3 DEF Slots!Shut
    <2>5. QED
        BY <2>4 DEF Slots!SlotNext
<1>7. CASE UNCHANGED <<phase, closed>>
    BY <1>7 DEF Slots!slotVars
<1>8. QED
    BY <1>1, <1>2, <1>3, <1>4, <1>5, <1>6, <1>7
    DEF Next, Signal, DispatchWait, DispatchExit, CloseBroadcast, CloseCancel,
        CloseSubtract, WaitCall, WaitReturn, vars

(* The queue implements its abstract specification. *)
THEOREM QueueImplementsSlots == Spec => ImplementsSlots
BY SlotsInit, SlotsStep, QueueInvariant, PTL
DEF Spec, ImplementsSlots, Slots!SlotSpec
=============================================================================
