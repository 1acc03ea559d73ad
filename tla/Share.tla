------------------------------- MODULE Share -------------------------------
(***************************************************************************)
(* Web shares: the manager (core/share/manager.go, types.go) under the     *)
(* requests of browsers (core/share/server.go), the user who creates and   *)
(* stops shares through the API (core/api/handlers.go), the cleanup        *)
(* ticker, the passing of time and the shutdown of the daemon.             *)
(*                                                                         *)
(* Every request is one goroutine; a step is one critical section of m.mu  *)
(* or m.banMu, or a read outside them.  A share is named by its token; a   *)
(* malformed token ends a request before it touches the manager.           *)
(***************************************************************************)
EXTENDS Integers, FiniteSets

CONSTANTS Tokens,            \* shares the user may create
          Requests,          \* goroutines that serve requests
          IPs,               \* addresses they come from
          Protected,         \* shares with a password
          MaxDownloads,      \* budget of a share, 0 for none: [Tokens -> Nat]
          MaxShares,         \* Manager.maxShares, 64 in the code
          MaxTokenAttempts,  \* 10 in the code
          MaxPasswordAttempts,
          MaxArrivals        \* bound on the requests that arrive

ASSUME ShareAssumption ==
    /\ IsFiniteSet(Tokens)
    /\ IsFiniteSet(Requests) /\ Requests # {}
    /\ Protected \subseteq Tokens
    /\ MaxDownloads \in [Tokens -> Nat]
    /\ MaxShares \in Nat \ {0}
    /\ MaxTokenAttempts \in Nat \ {0}
    /\ MaxPasswordAttempts \in Nat \ {0}
    /\ MaxArrivals \in Nat

VARIABLES
    created,     \* tokens NewShare has made
    shares,      \* tokens in Manager.shares
    stopped,     \* Share.Stopped
    expired,     \* shares past their Expiry
    downloads,   \* Share.Downloads
    tokenFails, passFails,  \* failures by address
    ban,         \* bannedUntil: "none", "set" or, past its time, "over"
    cleaner,     \* bans the running cleanup is going to delete
    server,      \* "open", "stopping" (Stop called) or "closed" (StopAll done)
    at,          \* where the goroutine of a request is
    what,        \* token, address and kind of a request
    arrivals,    \* requests that have arrived
    late,        \* history: requests that arrived when the share had ended
    extra        \* history: passwords judged during a ban, by address

vars == <<created, shares, stopped, expired, downloads, tokenFails, passFails,
          ban, cleaner, server, at, what, arrivals, late, extra>>

shareVars == <<created, shares, stopped, expired, downloads>>
banVars == <<tokenFails, passFails, ban, cleaner>>
pastVars == <<arrivals, late, extra>>

Places ==
    {"idle",      \* no request
     "lookup",    \* before the read of m.shares
     "check",     \* has the share, before Active
     "missed",    \* before recordTokenFail
     "found",     \* before clearTokenFails
     "banCheck",  \* in CheckPassword, before checkBanned
     "judge",     \* before recordPassFail or clearPassFails
     "record",    \* before RecordDownload
     "serve"}     \* before opening and sending the file

Kinds == {"view",       \* download page, status, QR code, GET of the API
          "download"}   \* POST, raw, or the page with dl=1

NoRequest == [token |-> "none"]

Init ==
    /\ created = {} /\ shares = {} /\ stopped = {} /\ expired = {}
    /\ downloads = [t \in Tokens |-> 0]
    /\ tokenFails = [p \in IPs |-> 0]
    /\ passFails = [p \in IPs |-> 0]
    /\ ban = [p \in IPs |-> "none"]
    /\ cleaner = {}
    /\ server = "open"
    /\ at = [r \in Requests |-> "idle"]
    /\ what = [r \in Requests |-> NoRequest]
    /\ arrivals = 0
    /\ late = {}
    /\ extra = [p \in IPs |-> 0]

-----------------------------------------------------------------------------
(* Shares.                                                                 *)

(* Mistake: the budget is passed by one. *)
ExhaustedLate(t) == MaxDownloads[t] > 0 /\ downloads[t] > MaxDownloads[t]

Exhausted(t) == MaxDownloads[t] > 0 /\ downloads[t] >= MaxDownloads[t]

(* Mistake: the map alone tells whether a share was stopped or used up. *)
ActiveIfListed(t) == t \notin expired

Active(t) == t \notin stopped /\ t \notin expired /\ ~Exhausted(t)

CreateShare(t) ==
    /\ server = "open"
    /\ t \notin created
    /\ Cardinality(shares) < MaxShares
    /\ created' = created \union {t}
    /\ shares' = shares \union {t}
    /\ UNCHANGED <<stopped, expired, downloads, banVars, server, at, what, pastVars>>

StopShare(t) ==
    /\ server = "open"
    /\ t \in shares
    /\ stopped' = stopped \union {t}
    /\ shares' = shares \ {t}
    /\ UNCHANGED <<created, expired, downloads, banVars, server, at, what, pastVars>>

ExpiryPasses(t) ==
    /\ t \in created \ expired
    /\ expired' = expired \union {t}
    /\ UNCHANGED <<created, shares, stopped, downloads, banVars, server, at, what,
                   pastVars>>

(* Mistake: only what was stopped is removed. *)
CleanupStopped ==
    /\ server = "open"
    /\ cleaner = {}
    /\ shares' = shares \ stopped
    /\ cleaner' = {p \in IPs : ban[p] = "over"}
    /\ shares' # shares \/ cleaner' # cleaner
    /\ UNCHANGED <<created, stopped, expired, downloads, tokenFails, passFails, ban,
                   server, at, what, pastVars>>

(* First half of cleanup; it remembers the time for the second. *)
Cleanup ==
    /\ server = "open"
    /\ cleaner = {}
    /\ shares' = {t \in shares : Active(t)}
    /\ cleaner' = {p \in IPs : ban[p] = "over"}
    /\ shares' # shares \/ cleaner' # cleaner
    /\ UNCHANGED <<created, stopped, expired, downloads, tokenFails, passFails, ban,
                   server, at, what, pastVars>>

CleanBans ==
    /\ cleaner # {}
    /\ cleaner' = {}
    /\ LET gone == {p \in cleaner : ban[p] = "over"}
       IN /\ ban' = [p \in IPs |-> IF p \in gone THEN "none" ELSE ban[p]]
          /\ tokenFails' = [p \in IPs |-> IF p \in gone THEN 0 ELSE tokenFails[p]]
          /\ passFails' = [p \in IPs |-> IF p \in gone THEN 0 ELSE passFails[p]]
    /\ UNCHANGED <<shareVars, server, at, what, pastVars>>

(* run() unwinds: Manager.Stop, then Server.Close with StopAll. *)
StopManager ==
    /\ server = "open"
    /\ server' = "stopping"
    /\ UNCHANGED <<shareVars, banVars, at, what, pastVars>>

StopAll ==
    /\ server = "stopping"
    /\ server' = "closed"
    /\ stopped' = stopped \union shares
    /\ shares' = {}
    /\ UNCHANGED <<created, expired, downloads, banVars, at, what, pastVars>>

-----------------------------------------------------------------------------
(* Requests.                                                               *)

(* For the history: t was stopped, has expired or has used its budget. *)
Over(t) == \/ t \in stopped \union expired
           \/ MaxDownloads[t] # 0 /\ downloads[t] >= MaxDownloads[t]

Go(r, from, to) ==
    /\ at[r] = from
    /\ at' = [at EXCEPT ![r] = to]

(* Server.Close closes the listener; a connection that was kept alive goes *)
(* on bringing requests.                                                   *)
Arrive(r, t, p, kind) ==
    /\ arrivals < MaxArrivals
    /\ arrivals' = arrivals + 1
    /\ Go(r, "idle", "lookup")
    /\ what' = [what EXCEPT ![r] = [token |-> t, ip |-> p, kind |-> kind]]
    /\ late' = IF t \in created /\ Over(t)
               THEN late \union {r} ELSE late \ {r}
    /\ UNCHANGED <<shareVars, banVars, server, extra>>

(* GetShare, under the read lock. *)
Lookup(r) ==
    /\ Go(r, "lookup", IF what[r].token \in shares THEN "check" ELSE "missed")
    /\ UNCHANGED <<shareVars, banVars, server, what, pastVars>>

(* GetShare, after it. *)
CheckActive(r) ==
    /\ Go(r, "check", IF Active(what[r].token) THEN "found" ELSE "missed")
    /\ UNCHANGED <<shareVars, banVars, server, what, pastVars>>

RecordTokenFail(r) ==
    LET p == what[r].ip
        limit == tokenFails[p] + 1 >= MaxTokenAttempts
    IN /\ Go(r, "missed", "idle")
       /\ tokenFails' = [tokenFails EXCEPT ![p] = IF limit THEN 0 ELSE @ + 1]
       /\ ban' = [ban EXCEPT ![p] = IF limit THEN "set" ELSE @]
       /\ UNCHANGED <<shareVars, passFails, cleaner, server, what, pastVars>>

ClearTokenFails(r) ==
    /\ Go(r, "found", IF what[r].kind = "view" THEN "idle"
                      ELSE IF what[r].token \in Protected THEN "banCheck" ELSE "record")
    /\ tokenFails' = [tokenFails EXCEPT ![what[r].ip] = 0]
    /\ UNCHANGED <<shareVars, passFails, ban, cleaner, server, what, pastVars>>

(* Mistake: nobody is banned. *)
BannedNever(p) == FALSE

Banned(p) == ban[p] = "set"

(* checkBanned drops a ban whose time is over, with both counters. *)
CheckBanned(r) ==
    LET p == what[r].ip
    IN /\ Go(r, "banCheck", IF Banned(p) THEN "idle" ELSE "judge")
       /\ ban' = [ban EXCEPT ![p] = IF @ = "over" THEN "none" ELSE @]
       /\ tokenFails' = [tokenFails EXCEPT ![p] = IF ban[p] = "over" THEN 0 ELSE @]
       /\ passFails' = [passFails EXCEPT ![p] = IF ban[p] = "over" THEN 0 ELSE @]
       /\ UNCHANGED <<shareVars, cleaner, server, what, pastVars>>

Judged(r) == extra' = [extra EXCEPT ![what[r].ip] = IF ban[what[r].ip] = "set"
                                                    THEN @ + 1 ELSE @]

(* Mistake: the counter goes on after the ban. *)
RecordPassFailOn(r) ==
    LET p == what[r].ip
    IN /\ Go(r, "judge", "idle")
       /\ passFails' = [passFails EXCEPT ![p] = @ + 1]
       /\ ban' = [ban EXCEPT ![p] = IF passFails'[p] >= MaxPasswordAttempts
                                    THEN "set" ELSE @]
       /\ Judged(r)
       /\ UNCHANGED <<shareVars, tokenFails, cleaner, server, what, arrivals, late>>

RecordPassFail(r) ==
    LET p == what[r].ip
        limit == passFails[p] + 1 >= MaxPasswordAttempts
    IN /\ Go(r, "judge", "idle")
       /\ passFails' = [passFails EXCEPT ![p] = IF limit THEN 0 ELSE @ + 1]
       /\ ban' = [ban EXCEPT ![p] = IF limit THEN "set" ELSE @]
       /\ Judged(r)
       /\ UNCHANGED <<shareVars, tokenFails, cleaner, server, what, arrivals,
                      late>>

ClearPassFails(r) ==
    /\ Go(r, "judge", "record")
    /\ passFails' = [passFails EXCEPT ![what[r].ip] = 0]
    /\ Judged(r)
    /\ UNCHANGED <<shareVars, tokenFails, ban, cleaner, server, what, arrivals,
                   late>>

(* A share that left the map meanwhile is served but no longer counted. *)
RecordDownload(r) ==
    LET t == what[r].token
    IN /\ Go(r, "record", "serve")
       /\ downloads' = [downloads EXCEPT ![t] = IF t \in shares THEN @ + 1 ELSE @]
       /\ UNCHANGED <<created, shares, stopped, expired, banVars, server, what, pastVars>>

(* The file is sent, or it cannot be opened any more. *)
Serve(r) ==
    /\ Go(r, "serve", "idle")
    /\ UNCHANGED <<shareVars, banVars, server, what, pastVars>>

(* BanDuration goes by. *)
BanPasses(p) ==
    /\ ban[p] = "set"
    /\ ban' = [ban EXCEPT ![p] = "over"]
    /\ extra' = [extra EXCEPT ![p] = 0]
    /\ UNCHANGED <<shareVars, tokenFails, passFails, cleaner, server, at, what, arrivals,
                   late>>

Handle(r) ==
    \/ Lookup(r) \/ CheckActive(r) \/ RecordTokenFail(r) \/ ClearTokenFails(r)
    \/ CheckBanned(r) \/ RecordPassFail(r) \/ ClearPassFails(r)
    \/ RecordDownload(r) \/ Serve(r)

Next ==
    \/ \E t \in Tokens : CreateShare(t) \/ StopShare(t) \/ ExpiryPasses(t)
    \/ Cleanup \/ CleanBans \/ StopManager \/ StopAll
    \/ \E r \in Requests :
          \/ Handle(r)
          \/ \E t \in Tokens, p \in IPs, kind \in Kinds : Arrive(r, t, p, kind)
    \/ \E p \in IPs : BanPasses(p)

Spec == Init /\ [][Next]_vars

(* The ticker runs until Stop, and run() goes on from Stop to Close. *)
FairSpec == Spec /\ WF_vars(Cleanup) /\ WF_vars(CleanBans) /\ WF_vars(StopAll)

-----------------------------------------------------------------------------
(* Properties.                                                             *)

(* Every variable keeps its type; the map never exceeds MaxShares and no   *)
(* counter of failures rests at its limit.                                 *)
TypeOK ==
    /\ created \subseteq Tokens
    /\ shares \subseteq created
    /\ stopped \subseteq created
    /\ expired \subseteq created
    /\ Cardinality(shares) <= MaxShares
    /\ downloads \in [Tokens -> Nat]
    /\ tokenFails \in [IPs -> 0..(MaxTokenAttempts - 1)]
    /\ passFails \in [IPs -> 0..(MaxPasswordAttempts - 1)]
    /\ ban \in [IPs -> {"none", "set", "over"}]
    /\ cleaner \subseteq IPs
    /\ server \in {"open", "stopping", "closed"}
    /\ at \in [Requests -> Places]
    /\ what \in [Requests -> [token : Tokens, ip : IPs, kind : Kinds] \union {NoRequest}]
    /\ \A r \in Requests : at[r] # "idle" => what[r] # NoRequest
    /\ arrivals \in 0..MaxArrivals
    /\ late \subseteq Requests
    /\ extra \in [IPs -> Nat]

Past == {"found", "banCheck", "judge", "record", "serve"}

(* A request that arrives after a share has been stopped, has expired or   *)
(* has used its budget is never served, whatever lookup, checks, cleanup   *)
(* and shutdown interleave with it.                                        *)
EndedNotServed ==
    \A r \in Requests : at[r] \in Past => r \notin late

(* Requests for t that GetShare has let through and that are not counted. *)
Admitted(t) ==
    {r \in Requests : what[r].token = t
                      /\ at[r] \in {"found", "banCheck", "judge", "record"}}

(* The budget is checked in GetShare and used in RecordDownload, so it can *)
(* be passed; by no more than the other requests that were in between.     *)
OverrunBounded ==
    \A t \in Tokens :
        MaxDownloads[t] > 0 =>
            downloads[t] + Cardinality(Admitted(t))
                <= MaxDownloads[t] + Cardinality(Requests) - 1

(* checkBanned and the verdict on the password are separate critical       *)
(* sections: what an address still has judged while it is banned was       *)
(* already past the check when the ban came.                               *)
BanHolds ==
    \A p \in IPs : extra[p] < Cardinality(Requests)

(* A share that ended gives back its place in the map. *)
EndedLeaves ==
    \A t \in Tokens : (t \in shares /\ Over(t)) ~> (t \notin shares)

(* server.go:138: "Record download before serving (prevents race on count  *)
(* limit)".                                                                *)
BudgetKept ==
    \A t \in Tokens : MaxDownloads[t] > 0 => downloads[t] <= MaxDownloads[t]
=============================================================================
