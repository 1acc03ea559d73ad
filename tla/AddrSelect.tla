----------------------------- MODULE AddrSelect -----------------------------
(***************************************************************************)
(* The choice of the address to dial (core/net/addrselect.go), as the API  *)
(* uses it for a transfer (core/api/handlers.go, peerAddressWith).         *)
(*                                                                         *)
(* An address is a sequence of groups: four bytes, or eight words of an    *)
(* IPv6 address.  What a peer advertises is a record of an address, a zone *)
(* (0 for none), a port (0 for none) and the form it is written in.        *)
(***************************************************************************)
EXTENDS Integers, Sequences, FiniteSets

CONSTANTS Advertised,  \* what a peer may advertise
          Interfaces,  \* addresses a local interface may have
          MaxDsts,     \* bound: length of the list of candidates
          MaxSources   \* bound: length of the list of interfaces

IPs == {ip \in Seq(Nat) : Len(ip) \in {4, 8}}

Forms == {"bare", "port", "bracket", "malformed"}

ASSUME AddrAssumption ==
    /\ Advertised \subseteq [ip : IPs, zone : Nat, port : Nat, form : Forms]
    /\ Interfaces \subseteq IPs
    /\ MaxDsts \in Nat /\ MaxSources \in Nat

VARIABLES dsts,     \* Device.IPv4 and IPv6, in their order
          sources,  \* what LocalSourceIPs returns
          port,     \* Device.Port
          answer    \* what peerAddressWith returns

vars == <<dsts, sources, port, answer>>

-----------------------------------------------------------------------------
(* net.IP.                                                                 *)

IsV6(ip) == Len(ip) = 8

Width(ip) == IF IsV6(ip) THEN 16 ELSE 8

Unspecified == <<0, 0, 0, 0, 0, 0, 0, 0>>

IsLoopback(ip) == IF IsV6(ip) THEN ip = <<0, 0, 0, 0, 0, 0, 0, 1>> ELSE ip[1] = 127

IsMulticast(ip) == IF IsV6(ip) THEN ip[1] \div 256 = 255 ELSE ip[1] \div 16 = 14

IsLinkLocalUnicast(ip) == IF IsV6(ip) THEN ip[1] \div 64 = 1018 ELSE ip[1] = 169 /\ ip[2] = 254

IsLinkLocalMulticast(ip) ==
    /\ IsMulticast(ip)
    /\ IF IsV6(ip) THEN ip[1] % 16 = 2 ELSE ip[1] = 224 /\ ip[2] = 0 /\ ip[3] = 0

IsInterfaceLocalMulticast(ip) == IsV6(ip) /\ IsMulticast(ip) /\ ip[1] % 16 = 1

IsGlobalUnicast(ip) ==
    /\ ip \notin {Unspecified, <<0, 0, 0, 0>>, <<255, 255, 255, 255>>}
    /\ ~IsLoopback(ip) /\ ~IsMulticast(ip) /\ ~IsLinkLocalUnicast(ip)

ipScope(ip) ==
    CASE IsLoopback(ip) -> "loopback"
      [] IsLinkLocalUnicast(ip) \/ IsLinkLocalMulticast(ip) -> "linkLocal"
      [] IsGlobalUnicast(ip) -> "global"
      [] OTHER -> "other"

(* The default policy table; all of IPv4 has one row.                      *)
ipPrecedence(ip) ==
    CASE ~IsV6(ip) -> 20
      [] IsV6(ip) /\ IsLoopback(ip) -> 50
      [] IsV6(ip) /\ ip[1] \div 512 = 126 -> 7                  \* isULA
      [] IsV6(ip) /\ ip[1] = 8193 /\ ip[2] = 0 -> 5             \* isTeredo
      [] IsV6(ip) /\ ip[1] = 8194 -> 30                         \* is6to4
      [] OTHER -> 40

(* Leading bits that two groups of width w share.                          *)
SharedBits(g, h, w) ==
    Cardinality({n \in 1..w : g \div 2 ^ (w - n) = h \div 2 ^ (w - n)})

commonPrefix(a, b) ==
    LET same == Cardinality({n \in DOMAIN a : \A i \in 1..n : a[i] = b[i]})
    IN IF Len(a) # Len(b) THEN 0
       ELSE same * Width(a)
            + IF same = Len(a) THEN 0
              ELSE SharedBits(a[same + 1], b[same + 1], Width(a))

-----------------------------------------------------------------------------
(* Reading the candidates.                                                 *)

(* splitHostPort and ParseIP: a bracketed address without a port loses its *)
(* zone, a malformed candidate is left out.                                *)
Zone(raw) == IF raw.form = "bracket" THEN 0 ELSE raw.zone

Port(raw, default) == IF raw.port = 0 THEN default ELSE raw.port

WellFormed(raw) == raw.form \in {"bare", "port", "bracket"}

(* parseSources drops the multicast addresses, but for the local ones.     *)
IsSource(ip) ==
    IsMulticast(ip) => IsLinkLocalMulticast(ip) \/ IsInterfaceLocalMulticast(ip)

-----------------------------------------------------------------------------
(* pickSource.                                                             *)

Compatible(dst, ip) ==
    /\ IsV6(ip) = IsV6(dst)
    /\ ipScope(dst) = "linkLocal" => ipScope(ip) \in {"linkLocal", "loopback"}

(* Rule 2, the scope, which leaves nothing for Rule 6 to decide; Rule 9,   *)
(* the prefixes.                                                           *)
compareSource(dst, best, candidate) ==
    CASE ipScope(candidate) = ipScope(dst) /\ ipScope(best) # ipScope(dst) -> -1
      [] ipScope(candidate) # ipScope(dst) /\ ipScope(best) = ipScope(dst) -> 1
      [] OTHER -> commonPrefix(dst, candidate) - commonPrefix(dst, best)

Usable(dst, ip) == IsSource(ip) /\ Compatible(dst, ip)

(* The scan of the parsed sources takes a candidate over the best so far   *)
(* if it compares below: 0 stands for nil.                                 *)
Best(dst, ips) ==
    LET best[n \in 0..Len(ips)] ==
            IF n = 0 THEN 0
            ELSE IF ~Usable(dst, ips[n]) THEN best[n - 1]
            ELSE IF best[n - 1] = 0 \/ compareSource(dst, ips[best[n - 1]], ips[n]) < 0 THEN n
            ELSE best[n - 1]
    IN best[Len(ips)]

Nil == <<>>

pickSource(dst, ips) == IF Best(dst, ips) = 0 THEN Nil ELSE ips[Best(dst, ips)]

-----------------------------------------------------------------------------
(* SelectAddresses.                                                        *)

Entry(raw, default, ips) ==
    [ip |-> raw.ip, zone |-> Zone(raw), port |-> Port(raw, default),
     src |-> pickSource(raw.ip, ips)]

(* By the place of their candidates in the list. *)
Entries(raws, default, ips) ==
    [i \in {n \in DOMAIN raws : WellFormed(raws[n])} |-> Entry(raws[i], default, ips)]

Reachable(e) == e.src # Nil

Scoped(e) == Reachable(e) /\ ipScope(e.src) = ipScope(e.ip)

Prefix(e) == IF Reachable(e) THEN commonPrefix(e.ip, e.src) ELSE 0

Holds(b) == IF b THEN 1 ELSE 0

(* A plausible bug: prefixes are compared within an address family only.   *)
PrefixOrderFamily(a, b) == IF IsV6(a.ip) = IsV6(b.ip) THEN Prefix(b) - Prefix(a) ELSE 0

(* A plausible bug: the shorter prefix goes first.                         *)
PrefixOrderShortest(a, b) == Prefix(a) - Prefix(b)

PrefixOrder(a, b) == Prefix(b) - Prefix(a)

(* Below zero if a goes before b.                                          *)
compareDst(a, b) ==
    IF Reachable(a) # Reachable(b) THEN Holds(Reachable(b)) - Holds(Reachable(a))
    ELSE IF Scoped(a) # Scoped(b) THEN Holds(Scoped(b)) - Holds(Scoped(a))
    ELSE IF PrefixOrder(a, b) # 0 THEN PrefixOrder(a, b)
    ELSE IF ipPrecedence(a.ip) # ipPrecedence(b.ip) THEN ipPrecedence(b.ip) - ipPrecedence(a.ip)
    ELSE Holds(IsV6(b.ip)) - Holds(IsV6(a.ip))

(* Where sort.SliceStable puts entry i. *)
Place(es, i) ==
    Cardinality({j \in DOMAIN es : \/ compareDst(es[j], es[i]) < 0
                                   \/ compareDst(es[j], es[i]) = 0 /\ j <= i})

(* The last loop of SelectAddresses keeps S, in the order of the sort.     *)
Nth(es, S, n) ==
    CHOOSE i \in S : Cardinality({j \in S : Place(es, j) <= Place(es, i)}) = n

SelectAddresses(raws, ips, default) ==
    LET es == Entries(raws, default, ips)
        out == {i \in DOMAIN es : Reachable(es[i])}
    IN [n \in 1..Cardinality(out) |-> es[Nth(es, out, n)]]

-----------------------------------------------------------------------------
(* peerAddressWith.                                                        *)

Lists(S, max) == UNION {[1..n -> S] : n \in 0..max}

Distinct(ips) == \A i, j \in DOMAIN ips : ips[i] = ips[j] => i = j

Unasked == [result |-> "unasked"]

ErrNoPeerAddress == [result |-> "NoPeerAddress"]

ErrIncompatibleIPVersion == [result |-> "IncompatibleIPVersion"]

Dial(e) == [result |-> "dial", ip |-> e.ip, zone |-> e.zone, port |-> e.port,
            version |-> IF IsV6(e.ip) THEN 6 ELSE 4]

Init ==
    /\ dsts \in Lists(Advertised, MaxDsts)
    /\ sources \in {ips \in Lists(Interfaces, MaxSources) : Distinct(ips)}
    /\ port \in {0, 52100}
    /\ answer = Unasked

peerAddressWith ==
    LET pairs == SelectAddresses(dsts, sources, port)
    IN /\ answer = Unasked
       /\ answer' = CASE port = 0 \/ dsts = <<>> -> ErrNoPeerAddress
                      [] port # 0 /\ dsts # <<>> /\ pairs = <<>> -> ErrIncompatibleIPVersion
                      [] OTHER -> Dial(pairs[1])
       /\ UNCHANGED <<dsts, sources, port>>

Spec == Init /\ [][peerAddressWith]_vars

-----------------------------------------------------------------------------
(* A device without a port is refused before its addresses are looked at.  *)
Candidates ==
    IF port = 0 THEN <<>> ELSE Entries(dsts, port, sources)

Before(d, e) == compareDst(d, e) < 0

Tied(d, e) == compareDst(d, e) = 0

(* sort.SliceStable and the scan of pickSource need comparisons that are   *)
(* strict weak orders, or what they return depends on the algorithm and on *)
(* the order of the interfaces: over entries of both families, reachable   *)
(* or not, compareDst is one, and so is compareSource over the sources     *)
(* that are compatible with a destination (addrselect.go:233-323).         *)
OrdersAreWeak ==
    /\ \A i, j, k \in DOMAIN Candidates :
           LET d == Candidates[i]
               e == Candidates[j]
               f == Candidates[k]
           IN /\ ~(Before(d, e) /\ Before(e, d))
              /\ Before(d, e) /\ Before(e, f) => Before(d, f)
              /\ Tied(d, e) /\ Tied(e, f) => Tied(d, f)
    /\ \A i \in DOMAIN Candidates, s, t, u \in {sources[n] : n \in DOMAIN sources} :
           LET dst == Candidates[i].ip
               Below(x, y) == compareSource(dst, x, y) < 0
           IN {s, t, u} \subseteq {x \in Interfaces : Usable(dst, x)} =>
                  /\ ~(Below(s, t) /\ Below(t, s))
                  /\ Below(s, t) /\ Below(t, u) => Below(s, u)

(* The criteria of RFC 6724 that the code documents, most important first. *)
Rank(e) == <<Holds(Scoped(e)), Prefix(e), ipPrecedence(e.ip), Holds(IsV6(e.ip))>>

Outranks(d, e) ==
    \E n \in 1..4 : /\ Rank(d)[n] > Rank(e)[n]
                    /\ \A m \in 1..(n - 1) : Rank(d)[m] = Rank(e)[m]

(* Candidates that some interface address can reach. *)
Reached ==
    {i \in DOMAIN Candidates :
        \E n \in DOMAIN sources : Usable(Candidates[i].ip, sources[n])}

(* Of them the one that no other outranks, of equals the first listed.     *)
Ideal ==
    {i \in Reached : \A j \in Reached :
        /\ ~Outranks(Candidates[j], Candidates[i])
        /\ j < i => Outranks(Candidates[i], Candidates[j])}

(* The API dials a candidate that no other one outranks and, of equals,    *)
(* the first the peer listed; it refuses only if no interface could reach  *)
(* any candidate (handlers.go:417-451).                                    *)
BestIsDialled ==
    /\ answer.result = "dial" => \E i \in Ideal : answer = Dial(Candidates[i])
    /\ answer = ErrIncompatibleIPVersion => Reached = {}

(* "Rule 9: prefer longest matching prefix with dst" (addrselect.go:250):  *)
(* of the compatible sources with the scope of a destination none shares   *)
(* more with it than the source that was picked.                           *)
LongestPrefixPicked ==
    \A i \in DOMAIN Candidates :
        LET e == Candidates[i]
        IN Scoped(e) =>
               \A n \in DOMAIN sources :
                   /\ Usable(e.ip, sources[n])
                   /\ ipScope(sources[n]) = ipScope(e.ip)
                   => commonPrefix(e.ip, sources[n]) <= Prefix(e)
=============================================================================
