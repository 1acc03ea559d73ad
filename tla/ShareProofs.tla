---------------------------- MODULE ShareProofs ----------------------------
(***************************************************************************)
(* Web shares for every set of tokens, requests and addresses and every    *)
(* limit: types, the end of a share, the overrun of its budget and what a  *)
(* banned address still has judged.                                        *)
(***************************************************************************)
EXTENDS Share, FiniteSetTheorems, TLAPS

(* What lies in the past of a request cannot be undone: its share stays    *)
(* over once it was over when the request arrived.                         *)
LateIsOver ==
    \A r \in Requests : at[r] # "idle" /\ r \in late => Over(what[r].token)

(* Requests of address p that are past the check of bans. *)
Judging(p) == {r \in Requests : at[r] = "judge" /\ what[r].ip = p}

(* During a ban the requests still to be judged and those judged already   *)
(* leave out the one that brought the ban.                                 *)
BanAccounting ==
    \A p \in IPs :
        /\ ban[p] # "set" => extra[p] = 0
        /\ ban[p] = "set" => extra[p] + Cardinality(Judging(p)) < Cardinality(Requests)

IInv == TypeOK /\ LateIsOver /\ EndedNotServed /\ OverrunBounded /\ BanAccounting

-----------------------------------------------------------------------------
LEMMA RequestsFinite ==
    ASSUME NEW S \in SUBSET Requests
    PROVE  IsFiniteSet(S) /\ Cardinality(S) \in Nat /\ Cardinality(S) <= Cardinality(Requests)
BY ShareAssumption, FS_Subset, FS_CardinalityType

LEMMA SomeRequest == Cardinality(Requests) \in Nat \ {0}
BY ShareAssumption, FS_CardinalityType, FS_EmptySet

(* A smaller set of requests has no more elements. *)
LEMMA NotMore ==
    ASSUME NEW S \in SUBSET Requests, NEW T \in SUBSET S
    PROVE  Cardinality(T) <= Cardinality(S) /\ Cardinality(T) \in Nat /\ Cardinality(S) \in Nat
BY RequestsFinite, FS_Subset

LEMMA OneLess ==
    ASSUME NEW S \in SUBSET Requests, NEW r \in S
    PROVE  Cardinality(S \ {r}) = Cardinality(S) - 1
BY RequestsFinite, FS_RemoveElement

(* A set that leaves a request out is smaller than all of them. *)
LEMMA NotAll ==
    ASSUME NEW S \in SUBSET Requests, NEW r \in Requests \ S
    PROVE  Cardinality(S) < Cardinality(Requests) /\ Cardinality(S) \in Nat
<1>1. S \in SUBSET (Requests \ {r})
    OBVIOUS
<1>2. Cardinality(S) <= Cardinality(Requests \ {r})
    BY <1>1, NotMore
<1>3. QED
    BY <1>2, OneLess, RequestsFinite

(* The map of shares only grows below its limit. *)
LEMMA SharesFinite ==
    ASSUME NEW S \in SUBSET Tokens, NEW T \in SUBSET S
    PROVE  /\ IsFiniteSet(S) /\ Cardinality(S) \in Nat /\ Cardinality(T) \in Nat
           /\ Cardinality(T) <= Cardinality(S)
BY ShareAssumption, FS_Subset, FS_CardinalityType

LEMMA InitInvariant == Init => IInv
<1> SUFFICES ASSUME Init
             PROVE  IInv
    OBVIOUS
<1>1. Cardinality({}) = 0
    BY FS_EmptySet
<1>2. TypeOK
    BY <1>1, ShareAssumption DEF Init, TypeOK, Places
<1>3. LateIsOver /\ EndedNotServed /\ BanAccounting
    BY DEF Init, LateIsOver, EndedNotServed, BanAccounting
<1>4. OverrunBounded
    <2>1. \A t \in Tokens : Admitted(t) = {}
        BY DEF Init, Admitted
    <2>2. \A t \in Tokens : downloads[t] = 0 /\ MaxDownloads[t] \in Nat
        BY ShareAssumption DEF Init
    <2>3. QED
        BY <2>1, <2>2, <1>1, SomeRequest DEF OverrunBounded
<1>5. QED
    BY <1>2, <1>3, <1>4 DEF IInv

-----------------------------------------------------------------------------
(* Steps that are not a request's own. *)
OfShares ==
    \/ \E t \in Tokens : CreateShare(t) \/ StopShare(t) \/ ExpiryPasses(t)
    \/ Cleanup \/ StopManager \/ StopAll

OfBans == CleanBans \/ \E p \in IPs : BanPasses(p)

Arrival(r) == \E t \in Tokens, p \in IPs, kind \in Kinds : Arrive(r, t, p, kind)

LEMMA Steps ==
    ASSUME [Next]_vars
    PROVE  \/ OfShares \/ OfBans
           \/ \E r \in Requests : Handle(r) \/ Arrival(r)
           \/ UNCHANGED vars
BY DEF Next, OfShares, OfBans, Arrival

LEMMA TypeStep == TypeOK /\ [Next]_vars => TypeOK'
<1> SUFFICES ASSUME TypeOK, [Next]_vars
             PROVE  TypeOK'
    OBVIOUS
<1> USE DEF TypeOK, shareVars, banVars, pastVars
<1>1. CASE OfShares
    <2>1. UNCHANGED <<downloads, tokenFails, passFails, ban, at, what, pastVars>>
        BY <1>1 DEF OfShares, CreateShare, StopShare, ExpiryPasses, Cleanup, StopManager, StopAll
    <2>2. /\ created' \subseteq Tokens /\ shares' \subseteq created'
          /\ stopped' \subseteq created' /\ expired' \subseteq created'
          /\ cleaner' \subseteq IPs /\ server' \in {"open", "stopping", "closed"}
        BY <1>1 DEF OfShares, CreateShare, StopShare, ExpiryPasses, Cleanup, StopManager, StopAll
    <2>3. Cardinality(shares') <= MaxShares
        <3>1. ASSUME NEW t \in Tokens, CreateShare(t)
              PROVE  Cardinality(shares') <= MaxShares
            <4>1. IsFiniteSet(shares) /\ Cardinality(shares) \in Nat
                BY SharesFinite
            <4>2. t \notin shares /\ shares' = shares \union {t}
                BY <3>1 DEF CreateShare
            <4>3. Cardinality(shares \union {t}) = Cardinality(shares) + 1
                BY <4>1, <4>2, FS_AddElement
            <4>4. QED
                BY <3>1, <4>1, <4>2, <4>3, ShareAssumption DEF CreateShare
        <3>2. CASE shares' \in SUBSET shares
            BY <3>2, SharesFinite, ShareAssumption
        <3>3. QED
            BY <1>1, <3>1, <3>2
            DEF OfShares, StopShare, ExpiryPasses, Cleanup, StopManager, StopAll
    <2>4. QED
        BY <2>1, <2>2, <2>3
<1>2. CASE OfBans
    BY <1>2, ShareAssumption DEF OfBans, CleanBans, BanPasses
<1>3. ASSUME NEW r \in Requests, Handle(r)
      PROVE  TypeOK'
    <2>1. UNCHANGED <<created, shares, stopped, expired, cleaner, server, what, arrivals, late>>
        BY <1>3
        DEF Handle, Lookup, CheckActive, RecordTokenFail, ClearTokenFails, CheckBanned,
            RecordPassFail, ClearPassFails, RecordDownload, Serve, Judged
    <2>2. at' \in [Requests -> Places] /\ \A q \in Requests : at'[q] # "idle" => at[q] # "idle"
        BY <1>3
        DEF Handle, Lookup, CheckActive, RecordTokenFail, ClearTokenFails, CheckBanned,
            RecordPassFail, ClearPassFails, RecordDownload, Serve, Go, Places
    <2>3. what[r].ip \in IPs /\ what[r].token \in Tokens
        BY <1>3
        DEF Handle, Lookup, CheckActive, RecordTokenFail, ClearTokenFails, CheckBanned,
            RecordPassFail, ClearPassFails, RecordDownload, Serve, Go, Kinds
    <2>4. /\ tokenFails' \in [IPs -> 0..(MaxTokenAttempts - 1)]
          /\ passFails' \in [IPs -> 0..(MaxPasswordAttempts - 1)]
        <3>1. CASE RecordTokenFail(r)
            BY <3>1, <2>3, ShareAssumption DEF RecordTokenFail
        <3>2. CASE RecordPassFail(r)
            BY <3>2, <2>3, ShareAssumption DEF RecordPassFail
        <3>3. CASE ClearTokenFails(r) \/ CheckBanned(r) \/ ClearPassFails(r)
            BY <3>3, <2>3, ShareAssumption DEF ClearTokenFails, CheckBanned, ClearPassFails
        <3>4. QED
            BY <1>3, <3>1, <3>2, <3>3
            DEF Handle, Lookup, CheckActive, RecordDownload, Serve
    <2>5. ban' \in [IPs -> {"none", "set", "over"}]
        BY <1>3
        DEF Handle, Lookup, CheckActive, RecordTokenFail, ClearTokenFails, CheckBanned,
            RecordPassFail, ClearPassFails, RecordDownload, Serve
    <2>6. downloads' \in [Tokens -> Nat] /\ extra' \in [IPs -> Nat]
        BY <1>3, <2>3
        DEF Handle, Lookup, CheckActive, RecordTokenFail, ClearTokenFails, CheckBanned,
            RecordPassFail, ClearPassFails, RecordDownload, Serve, Judged
    <2>7. QED
        BY <2>1, <2>2, <2>4, <2>5, <2>6
<1>4. ASSUME NEW r \in Requests, Arrival(r)
      PROVE  TypeOK'
    <2>1. PICK t \in Tokens, p \in IPs, kind \in Kinds : Arrive(r, t, p, kind)
        BY <1>4 DEF Arrival
    <2>2. at' \in [Requests -> Places] /\ late' \subseteq Requests /\ arrivals' \in 0..MaxArrivals
        BY <2>1, ShareAssumption DEF Arrive, Go, Places
    <2>3. [token |-> t, ip |-> p, kind |-> kind] # NoRequest
        <3>1. "ip" \in DOMAIN [token |-> t, ip |-> p, kind |-> kind] /\ "ip" \notin DOMAIN NoRequest
            BY DEF NoRequest
        <3>2. QED
            BY <3>1
    <2>4. /\ what' \in [Requests -> [token : Tokens, ip : IPs, kind : Kinds] \union {NoRequest}]
          /\ \A q \in Requests : at'[q] # "idle" => what'[q] # NoRequest
        BY <2>1, <2>3 DEF Arrive, Go
    <2>5. QED
        BY <2>1, <2>2, <2>4 DEF Arrive
<1>5. CASE UNCHANGED vars
    BY <1>5 DEF vars
<1>6. QED
    BY <1>1, <1>2, <1>3, <1>4, <1>5, Steps

-----------------------------------------------------------------------------
(* The history of requests that came too late. *)

(* Nothing revives a share. *)
LEMMA OverStays ==
    ASSUME TypeOK, [Next]_vars, NEW t \in Tokens, Over(t)
    PROVE  Over(t)'
<1> USE DEF TypeOK, Over, shareVars, banVars, pastVars
<1>1. CASE OfShares
    BY <1>1 DEF OfShares, CreateShare, StopShare, ExpiryPasses, Cleanup, StopManager, StopAll
<1>2. CASE OfBans \/ UNCHANGED vars
    BY <1>2 DEF OfBans, CleanBans, BanPasses, vars
<1>3. ASSUME NEW r \in Requests, Arrival(r)
      PROVE  Over(t)'
    BY <1>3 DEF Arrival, Arrive
<1>4. ASSUME NEW r \in Requests, Handle(r)
      PROVE  Over(t)'
    <2>1. UNCHANGED <<stopped, expired>>
        BY <1>4
        DEF Handle, Lookup, CheckActive, RecordTokenFail, ClearTokenFails, CheckBanned,
            RecordPassFail, ClearPassFails, RecordDownload, Serve
    <2>2. downloads'[t] \in {downloads[t], downloads[t] + 1}
        BY <1>4
        DEF Handle, Lookup, CheckActive, RecordTokenFail, ClearTokenFails, CheckBanned,
            RecordPassFail, ClearPassFails, RecordDownload, Serve
    <2>3. QED
        BY <2>1, <2>2, ShareAssumption
<1>5. QED
    BY <1>1, <1>2, <1>3, <1>4, Steps

(* An active share is not over. *)
LEMMA ActiveNotOver ==
    ASSUME TypeOK, NEW t \in Tokens, Active(t)
    PROVE  ~Over(t)
BY ShareAssumption DEF TypeOK, Active, Over, Exhausted

(* A request that is let through was not late. *)
LEMMA LateStep == IInv /\ [Next]_vars => LateIsOver' /\ EndedNotServed'
<1> SUFFICES ASSUME IInv, [Next]_vars
             PROVE  LateIsOver' /\ EndedNotServed'
    OBVIOUS
<1> USE DEF shareVars, banVars, pastVars
<1>1. TypeOK /\ LateIsOver /\ EndedNotServed
    BY DEF IInv
<1>2. CASE UNCHANGED <<at, what, late>>
    BY <1>1, <1>2, OverStays DEF LateIsOver, EndedNotServed, TypeOK, NoRequest
<1>3. ASSUME NEW r \in Requests, Arrival(r)
      PROVE  LateIsOver' /\ EndedNotServed'
    <2>1. PICK t \in Tokens, p \in IPs, kind \in Kinds : Arrive(r, t, p, kind)
        BY <1>3 DEF Arrival
    <2>2. at'[r] = "lookup" /\ what'[r].token = t /\ UNCHANGED <<stopped, expired, downloads>>
        BY <1>1, <2>1 DEF Arrive, Go, TypeOK
    <2>3. r \in late' => Over(t)'
        BY <2>1, <2>2 DEF Arrive, Over
    <2>4. \A q \in Requests \ {r} :
              at'[q] = at[q] /\ what'[q] = what[q] /\ (q \in late' <=> q \in late)
        BY <2>1 DEF Arrive, Go
    <2>5. ASSUME NEW q \in Requests \ {r}, at[q] # "idle", q \in late
          PROVE  Over(what[q].token)'
        <3>1. what[q].token \in Tokens /\ Over(what[q].token)
            BY <1>1, <2>5 DEF LateIsOver, TypeOK
        <3>2. QED
            BY <1>1, <2>4, <3>1, OverStays
    <2>6. QED
        BY <1>1, <2>2, <2>3, <2>4, <2>5 DEF LateIsOver, EndedNotServed, Past
<1>4. ASSUME NEW r \in Requests, Handle(r)
      PROVE  LateIsOver' /\ EndedNotServed'
    <2>1. UNCHANGED <<what, late>>
        BY <1>4
        DEF Handle, Lookup, CheckActive, RecordTokenFail, ClearTokenFails, CheckBanned,
            RecordPassFail, ClearPassFails, RecordDownload, Serve, Judged
    <2>2. \A q \in Requests : at'[q] # "idle" => at[q] # "idle"
        BY <1>1, <1>4 DEF Handle, Lookup, CheckActive, RecordTokenFail, ClearTokenFails, CheckBanned,
            RecordPassFail, ClearPassFails, RecordDownload, Serve, Go, TypeOK
    <2>3. LateIsOver'
        <3>1. ASSUME NEW q \in Requests, at'[q] # "idle", q \in late'
              PROVE  Over(what[q].token)'
            <4>1. what[q].token \in Tokens /\ Over(what[q].token)
                BY <1>1, <2>1, <2>2, <3>1 DEF LateIsOver, TypeOK
            <4>2. QED
                BY <1>1, <2>1, <4>1, OverStays
        <3>2. QED
            BY <3>1 DEF LateIsOver
    <2>4. EndedNotServed'
        <3>1. CASE CheckActive(r) /\ Active(what[r].token)
            <4>1. at[r] = "check" /\ what[r].token \in Tokens
                BY <1>1, <3>1 DEF CheckActive, Go, TypeOK
            <4>2. r \notin late
                BY <1>1, <3>1, <4>1, ActiveNotOver DEF LateIsOver
            <4>3. QED
                BY <1>1, <2>1, <3>1, <4>2 DEF CheckActive, Go, EndedNotServed, TypeOK
        <3>2. CASE ~(CheckActive(r) /\ Active(what[r].token))
            <4>1. \A q \in Requests : at'[q] \in Past => at[q] \in Past
                BY <1>1, <1>4, <3>2 DEF Handle, Lookup, CheckActive, RecordTokenFail, ClearTokenFails, CheckBanned,
            RecordPassFail, ClearPassFails, RecordDownload, Serve, Go, Past, TypeOK
            <4>2. QED
                BY <1>1, <2>1, <4>1 DEF EndedNotServed
        <3>3. QED
            BY <3>1, <3>2
    <2>5. QED
        BY <2>3, <2>4
<1>5. QED
    BY <1>2, <1>3, <1>4, Steps
    DEF OfShares, CreateShare, StopShare, ExpiryPasses, Cleanup, StopManager, StopAll, OfBans, CleanBans, BanPasses, vars

-----------------------------------------------------------------------------
(* The overrun of the budget. *)
LEMMA OverrunOf ==
    ASSUME IInv, NEW t \in Tokens, MaxDownloads[t] > 0,
           downloads'[t] = downloads[t], Admitted(t)' \in SUBSET Admitted(t)
    PROVE  downloads'[t] + Cardinality(Admitted(t)')
               <= MaxDownloads[t] + Cardinality(Requests) - 1
<1>1. /\ Cardinality(Admitted(t)') <= Cardinality(Admitted(t))
      /\ Cardinality(Admitted(t)') \in Nat /\ Cardinality(Admitted(t)) \in Nat
    BY NotMore DEF Admitted
<1>2. /\ downloads[t] \in Nat /\ MaxDownloads[t] \in Nat
      /\ downloads[t] + Cardinality(Admitted(t)) <= MaxDownloads[t] + Cardinality(Requests) - 1
    BY ShareAssumption DEF IInv, TypeOK, OverrunBounded
<1>3. QED
    BY <1>1, <1>2, SomeRequest

LEMMA OverrunStep == IInv /\ [Next]_vars => OverrunBounded'
<1> SUFFICES ASSUME IInv, [Next]_vars, NEW t \in Tokens, MaxDownloads[t] > 0
             PROVE  downloads'[t] + Cardinality(Admitted(t)')
                        <= MaxDownloads[t] + Cardinality(Requests) - 1
    BY DEF OverrunBounded
<1> USE DEF shareVars, banVars, pastVars
<1>1. TypeOK /\ downloads[t] \in Nat /\ MaxDownloads[t] \in Nat
    BY ShareAssumption DEF IInv, TypeOK
<1>2. CASE UNCHANGED <<at, what, downloads>>
    BY <1>2, OverrunOf DEF Admitted
<1>3. ASSUME NEW r \in Requests, Arrival(r)
      PROVE  downloads' = downloads /\ Admitted(t)' \in SUBSET Admitted(t)
    BY <1>1, <1>3 DEF Arrival, Arrive, Go, Admitted, TypeOK
<1>4. ASSUME NEW r \in Requests, Handle(r)
      PROVE  downloads'[t] + Cardinality(Admitted(t)')
                 <= MaxDownloads[t] + Cardinality(Requests) - 1
    <2>1. what' = what
        BY <1>4 DEF Handle, Lookup, CheckActive, RecordTokenFail, ClearTokenFails, CheckBanned,
            RecordPassFail, ClearPassFails, RecordDownload, Serve
    <2>2. CASE CheckActive(r) /\ Active(t) /\ what[r].token = t
        <3>1. downloads' = downloads /\ downloads[t] < MaxDownloads[t]
            BY <1>1, <2>2 DEF CheckActive, Active, Exhausted
        <3>2. /\ Cardinality(Admitted(t)') <= Cardinality(Requests)
              /\ Cardinality(Admitted(t)') \in Nat
            BY RequestsFinite DEF Admitted
        <3>3. QED
            BY <1>1, <3>1, <3>2, SomeRequest
    <2>3. CASE RecordDownload(r) /\ what[r].token = t
        <3>1. r \in Admitted(t) /\ Admitted(t)' = Admitted(t) \ {r}
            BY <1>1, <2>1, <2>3 DEF RecordDownload, Go, Admitted, TypeOK
        <3>2. downloads'[t] \in {downloads[t], downloads[t] + 1}
            BY <1>1, <2>3 DEF RecordDownload, TypeOK
        <3>3. /\ Cardinality(Admitted(t)') = Cardinality(Admitted(t)) - 1
              /\ Cardinality(Admitted(t)) \in Nat
            BY <3>1, OneLess, RequestsFinite DEF Admitted
        <3>4. downloads[t] + Cardinality(Admitted(t)) <= MaxDownloads[t] + Cardinality(Requests) - 1
            BY DEF IInv, OverrunBounded
        <3>5. QED
            BY <1>1, <3>2, <3>3, <3>4, SomeRequest
    <2>4. CASE ~(CheckActive(r) /\ Active(t) /\ what[r].token = t)
               /\ ~(RecordDownload(r) /\ what[r].token = t)
        <3>1. downloads'[t] = downloads[t]
            BY <1>1, <1>4, <2>4 DEF Handle, Lookup, CheckActive, RecordTokenFail, ClearTokenFails, CheckBanned,
            RecordPassFail, ClearPassFails, RecordDownload, Serve, TypeOK
        <3>2. Admitted(t)' \in SUBSET Admitted(t)
            BY <1>1, <1>4, <2>1, <2>4 DEF Handle, Lookup, CheckActive, RecordTokenFail, ClearTokenFails, CheckBanned,
            RecordPassFail, ClearPassFails, RecordDownload, Serve, Go, Admitted, TypeOK
        <3>3. QED
            BY <3>1, <3>2, OverrunOf
    <2>5. QED
        BY <2>2, <2>3, <2>4
<1>5. QED
    BY <1>2, <1>3, <1>4, OverrunOf, Steps
    DEF OfShares, CreateShare, StopShare, ExpiryPasses, Cleanup, StopManager, StopAll, OfBans, CleanBans, BanPasses, vars

-----------------------------------------------------------------------------
(* What is judged during a ban. *)
LEMMA BanStep == IInv /\ [Next]_vars => BanAccounting'
<1> SUFFICES ASSUME IInv, [Next]_vars, NEW p \in IPs
             PROVE  /\ ban'[p] # "set" => extra'[p] = 0
                    /\ ban'[p] = "set" =>
                          extra'[p] + Cardinality(Judging(p)') < Cardinality(Requests)
    BY DEF BanAccounting
<1> USE DEF shareVars, banVars, pastVars
<1>1. /\ TypeOK /\ extra[p] \in Nat
      /\ ban[p] # "set" => extra[p] = 0
      /\ ban[p] = "set" => extra[p] + Cardinality(Judging(p)) < Cardinality(Requests)
    BY DEF IInv, TypeOK, BanAccounting
<1>2. CASE ban'[p] = ban[p] /\ extra'[p] = extra[p] /\ Judging(p)' = Judging(p)
    BY <1>1, <1>2
<1>3. CASE OfShares \/ UNCHANGED vars
    BY <1>2, <1>3 DEF OfShares, CreateShare, StopShare, ExpiryPasses, Cleanup, StopManager, StopAll, vars, Judging
<1>4. CASE OfBans
    <2>1. Judging(p)' = Judging(p)
        BY <1>4 DEF OfBans, CleanBans, BanPasses, Judging
    <2>2. \/ ban'[p] = ban[p] /\ extra'[p] = extra[p]
          \/ ban'[p] = "over" /\ extra'[p] = 0
          \/ ban[p] = "over" /\ ban'[p] = "none" /\ extra'[p] = extra[p]
        BY <1>1, <1>4 DEF OfBans, CleanBans, BanPasses, TypeOK
    <2>3. QED
        BY <1>1, <2>1, <2>2
<1>5. ASSUME NEW r \in Requests, Arrival(r)
      PROVE  ban'[p] = ban[p] /\ extra'[p] = extra[p] /\ Judging(p)' = Judging(p)
    BY <1>1, <1>5 DEF Arrival, Arrive, Go, Judging, TypeOK
<1>6. ASSUME NEW r \in Requests, Handle(r)
      PROVE  /\ ban'[p] # "set" => extra'[p] = 0
             /\ ban'[p] = "set" =>
                   extra'[p] + Cardinality(Judging(p)') < Cardinality(Requests)
    <2>1. what' = what
        BY <1>6 DEF Handle, Lookup, CheckActive, RecordTokenFail, ClearTokenFails, CheckBanned,
            RecordPassFail, ClearPassFails, RecordDownload, Serve
    <2>2. CASE RecordTokenFail(r)
        <3>1. Judging(p)' = Judging(p) /\ r \notin Judging(p) /\ extra' = extra
            BY <1>1, <2>1, <2>2 DEF RecordTokenFail, Go, Judging, TypeOK
        <3>2. ban'[p] \in {ban[p], "set"}
            BY <1>1, <2>2 DEF RecordTokenFail, TypeOK
        <3>3. Cardinality(Judging(p)) < Cardinality(Requests) /\ Cardinality(Judging(p)) \in Nat
            BY <3>1, NotAll DEF Judging
        <3>4. QED
            BY <1>1, <3>1, <3>2, <3>3, SomeRequest
    <2>3. CASE CheckBanned(r)
        <3>1. extra' = extra /\ ban'[p] \in {ban[p], "none"} /\ (ban'[p] = "none" => ban[p] # "set")
            BY <1>1, <2>3 DEF CheckBanned, TypeOK
        <3>2. ban[p] = "set" => Judging(p)' = Judging(p)
            BY <1>1, <2>1, <2>3 DEF CheckBanned, Banned, Go, Judging, TypeOK
        <3>3. QED
            BY <1>1, <3>1, <3>2
    <2>4. CASE (RecordPassFail(r) \/ ClearPassFails(r)) /\ what[r].ip = p
        <3>1. r \in Judging(p) /\ Judging(p)' = Judging(p) \ {r}
            BY <1>1, <2>1, <2>4 DEF RecordPassFail, ClearPassFails, Go, Judging, TypeOK
        <3>2. extra'[p] = IF ban[p] = "set" THEN extra[p] + 1 ELSE extra[p]
            BY <1>1, <2>4 DEF RecordPassFail, ClearPassFails, Judged, TypeOK
        <3>3. ban'[p] \in {ban[p], "set"}
            BY <1>1, <2>4 DEF RecordPassFail, ClearPassFails, TypeOK
        <3>4. /\ Cardinality(Judging(p)') = Cardinality(Judging(p)) - 1
              /\ Cardinality(Judging(p)) \in Nat
              /\ Cardinality(Judging(p)) <= Cardinality(Requests)
            BY <3>1, OneLess, RequestsFinite DEF Judging
        <3>5. QED
            BY <1>1, <3>2, <3>3, <3>4, SomeRequest
    <2>5. CASE (RecordPassFail(r) \/ ClearPassFails(r)) /\ what[r].ip # p
        BY <1>1, <1>2, <2>1, <2>5
        DEF RecordPassFail, ClearPassFails, Judged, Go, Judging, TypeOK
    <2>6. CASE Lookup(r) \/ CheckActive(r) \/ ClearTokenFails(r) \/ RecordDownload(r) \/ Serve(r)
        BY <1>1, <1>2, <2>1, <2>6
        DEF Lookup, CheckActive, ClearTokenFails, RecordDownload, Serve, Go, Judging, TypeOK
    <2>7. QED
        BY <1>6, <2>2, <2>3, <2>4, <2>5, <2>6 DEF Handle
<1>7. QED
    BY <1>2, <1>3, <1>4, <1>5, <1>6, Steps

(* The inductive invariant behind the results below. *)
THEOREM ShareInvariant == Spec => []IInv
<1>1. IInv /\ [Next]_vars => IInv'
    BY TypeStep, LateStep, OverrunStep, BanStep DEF IInv
<1>2. QED
    BY InitInvariant, <1>1, PTL DEF Spec

(* The map of shares never exceeds its limit and no counter of failures    *)
(* rests at its own.                                                       *)
THEOREM ShareTypeOK == Spec => []TypeOK
<1>1. IInv => TypeOK
    BY DEF IInv
<1>2. QED
    BY <1>1, ShareInvariant, PTL

(* Whoever comes after the end of a share is never served, for any number  *)
(* of requests and shares (manager.go:82-94, types.go:130-143).            *)
THEOREM NoServiceAfterEnd == Spec => []EndedNotServed
<1>1. IInv => EndedNotServed
    BY DEF IInv
<1>2. QED
    BY <1>1, ShareInvariant, PTL

(* A share is served at most as often beyond its budget as there are other *)
(* requests at the same time (server.go:136-139).                          *)
THEOREM BudgetOverrun == Spec => []OverrunBounded
<1>1. IInv => OverrunBounded
    BY DEF IInv
<1>2. QED
    BY <1>1, ShareInvariant, PTL

(* A banned address has fewer passwords judged during its ban than there   *)
(* are requests at the same time (manager.go:157-219).                     *)
THEOREM BanBounds == Spec => []BanHolds
<1>1. IInv => BanHolds
    <2> SUFFICES ASSUME IInv, NEW p \in IPs
                 PROVE  extra[p] < Cardinality(Requests)
        BY DEF BanHolds
    <2>1. Cardinality(Judging(p)) \in Nat /\ extra[p] \in Nat
        BY RequestsFinite DEF Judging, IInv, TypeOK
    <2>2. QED
        BY <2>1, SomeRequest DEF IInv, BanAccounting
<1>2. QED
    BY <1>1, ShareInvariant, PTL
=============================================================================
