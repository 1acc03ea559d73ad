-------------------------- MODULE AddrSelectProofs --------------------------
(***************************************************************************)
(* The comparisons of the address selection are strict weak orders over    *)
(* all addresses, not only over those of the runs.                         *)
(***************************************************************************)
EXTENDS AddrSelect, FiniteSetTheorems, WellFoundedInduction, TLAPS

(* Groups of any number and width: bytes and words are among them.         *)
Addresses == Seq(Nat)

(* What the sort compares; the source is Nil if nothing reaches ip.        *)
Pairs == [ip : Addresses, zone : Nat, port : Nat, src : Addresses]

LEMMA SharedBitsType ==
    ASSUME NEW g \in Nat, NEW h \in Nat, NEW w \in Nat
    PROVE  SharedBits(g, h, w) \in Nat
<1> DEFINE S == {n \in 1..w : g \div 2 ^ (w - n) = h \div 2 ^ (w - n)}
<1>1. IsFiniteSet(1..w)
    BY FS_Interval
<1>2. S \subseteq 1..w
    OBVIOUS
<1>3. Cardinality(S) \in Nat
    <2> HIDE DEF S
    <2>1. QED
        BY <1>1, <1>2, FS_Subset, FS_CardinalityType
<1>4. QED
    BY <1>3 DEF SharedBits

LEMMA PrefixType ==
    ASSUME NEW a \in Addresses, NEW b \in Addresses
    PROVE  commonPrefix(a, b) \in Nat
<1> DEFINE S == {n \in DOMAIN a : \A i \in 1..n : a[i] = b[i]}
           same == Cardinality(S)
           l == Len(a)
<1>1. /\ Len(a) \in Nat /\ DOMAIN a = 1..Len(a) /\ \A n \in 1..Len(a) : a[n] \in Nat
      /\ Len(b) \in Nat /\ \A n \in 1..Len(b) : b[n] \in Nat
    BY DEF Addresses
<1>2. same \in Nat /\ same <= Len(a)
    <2>1. S \subseteq 1..l /\ l \in Nat
        BY <1>1
    <2> HIDE DEF S, l
    <2>2. IsFiniteSet(1..l) /\ Cardinality(1..l) = IF 1 > l THEN 0 ELSE l - 1 + 1
        BY <2>1, FS_Interval
    <2>3. Cardinality(1..l) = l
        BY <2>1, <2>2
    <2>4. same \in Nat /\ same <= l
        BY <2>1, <2>2, <2>3, FS_Subset, FS_CardinalityType
    <2>5. QED
        BY <2>4 DEF l
<1> HIDE DEF S, same
<1>3. Width(a) \in {8, 16} /\ same * Width(a) \in Nat
    BY <1>2 DEF Width
<1>4. ASSUME Len(a) = Len(b), same # Len(a)
      PROVE  SharedBits(a[same + 1], b[same + 1], Width(a)) \in Nat
    <2>1. same + 1 \in 1..Len(a)
        <3>1. l \in Nat /\ same <= l /\ same # l
            BY <1>1, <1>2, <1>4
        <3> HIDE DEF l
        <3>2. same + 1 \in 1..l
            BY <1>2, <3>1
        <3>3. QED
            BY <3>2 DEF l
    <2>2. a[same + 1] \in Nat /\ b[same + 1] \in Nat /\ Width(a) \in Nat
        BY <1>1, <1>3, <1>4, <2>1
    <2>3. QED
        BY <2>2, SharedBitsType
<1>5. commonPrefix(a, b)
          = IF Len(a) # Len(b) THEN 0
            ELSE same * Width(a)
                 + IF same = Len(a) THEN 0
                   ELSE SharedBits(a[same + 1], b[same + 1], Width(a))
    BY DEF commonPrefix, same, S
<1>6. QED
    BY <1>3, <1>4, <1>5

(* compareSource weighs whether the scope is that of the destination, then *)
(* the prefix.                                                             *)
LEMMA CompareSourceKeys ==
    ASSUME NEW dst \in Addresses, NEW x \in Addresses, NEW y \in Addresses
    PROVE  LET m(ip) == Holds(ipScope(ip) = ipScope(dst))
               p(ip) == commonPrefix(dst, ip)
           IN /\ m(x) \in {0, 1} /\ m(y) \in {0, 1} /\ p(x) \in Nat /\ p(y) \in Nat
              /\ compareSource(dst, x, y) < 0
                     <=> m(y) > m(x) \/ (m(y) = m(x) /\ p(y) < p(x))
BY PrefixType DEF compareSource, Holds

(* The scan of pickSource rests on a strict weak order, whatever the       *)
(* interfaces and the destination (addrselect.go:233-262).                 *)
THEOREM SourceOrderIsWeak ==
    ASSUME NEW dst \in Addresses, NEW x \in Addresses, NEW y \in Addresses,
           NEW z \in Addresses
    PROVE  LET Below(s, t) == compareSource(dst, s, t) < 0
           IN /\ ~(Below(x, y) /\ Below(y, x))
              /\ Below(x, y) /\ Below(y, z) => Below(x, z)
              /\ ~Below(x, y) /\ ~Below(y, x) /\ ~Below(y, z) /\ ~Below(z, y)
                     => ~Below(x, z) /\ ~Below(z, x)
BY CompareSourceKeys

(* compareDst weighs four numbers, the most important first.               *)
Lexically(p, q) ==
    \/ p[1] > q[1]
    \/ p[1] = q[1] /\ p[2] > q[2]
    \/ p[1] = q[1] /\ p[2] = q[2] /\ p[3] > q[3]
    \/ p[1] = q[1] /\ p[2] = q[2] /\ p[3] = q[3] /\ p[4] > q[4]
    \/ p[1] = q[1] /\ p[2] = q[2] /\ p[3] = q[3] /\ p[4] = q[4] /\ p[5] > q[5]

Keys(d) == <<Holds(Reachable(d)), Holds(Scoped(d)), Prefix(d), ipPrecedence(d.ip),
             Holds(IsV6(d.ip))>>

LEMMA KeysType ==
    ASSUME NEW d \in Pairs
    PROVE  Keys(d) \in Nat \X Nat \X Nat \X Nat \X Nat
<1>1. d.ip \in Addresses /\ d.src \in Addresses
    BY DEF Pairs
<1>2. Prefix(d) \in Nat
    BY <1>1, PrefixType DEF Prefix
<1>3. ipPrecedence(d.ip) \in Nat
    BY DEF ipPrecedence
<1>4. QED
    BY <1>2, <1>3 DEF Keys, Holds

LEMMA CompareKeys ==
    ASSUME NEW d \in Pairs, NEW e \in Pairs
    PROVE  /\ Before(d, e) <=> Lexically(Keys(d), Keys(e))
           /\ Tied(d, e) <=> Keys(d) = Keys(e)
<1> DEFINE K(x, n) == Keys(x)[n]
<1>1. ASSUME NEW x \in Pairs
      PROVE  /\ \A n \in 1..5 : K(x, n) \in Nat
             /\ K(x, 1) = Holds(Reachable(x)) /\ K(x, 2) = Holds(Scoped(x))
             /\ K(x, 3) = Prefix(x) /\ K(x, 4) = ipPrecedence(x.ip)
             /\ K(x, 5) = Holds(IsV6(x.ip))
    <2>1. Keys(x) \in Nat \X Nat \X Nat \X Nat \X Nat
        BY KeysType
    <2>2. QED
        BY <2>1 DEF Keys
<1>2. /\ Reachable(d) # Reachable(e) <=> K(d, 1) # K(e, 1)
      /\ Scoped(d) # Scoped(e) <=> K(d, 2) # K(e, 2)
    BY <1>1 DEF Holds, Reachable, Scoped
<1>3. compareDst(d, e) =
          IF K(d, 1) # K(e, 1) THEN K(e, 1) - K(d, 1)
          ELSE IF K(d, 2) # K(e, 2) THEN K(e, 2) - K(d, 2)
          ELSE IF K(e, 3) - K(d, 3) # 0 THEN K(e, 3) - K(d, 3)
          ELSE IF K(d, 4) # K(e, 4) THEN K(e, 4) - K(d, 4)
          ELSE K(e, 5) - K(d, 5)
    BY <1>1, <1>2 DEF compareDst, PrefixOrder
<1>4. QED
    <2>1. /\ K(d, 1) \in Nat /\ K(d, 2) \in Nat /\ K(d, 3) \in Nat /\ K(d, 4) \in Nat
          /\ K(e, 1) \in Nat /\ K(e, 2) \in Nat /\ K(e, 3) \in Nat /\ K(e, 4) \in Nat
          /\ K(d, 5) \in Nat /\ K(e, 5) \in Nat
        BY <1>1
    <2>2. Keys(d) = Keys(e) <=> /\ K(d, 1) = K(e, 1) /\ K(d, 2) = K(e, 2)
                                /\ K(d, 3) = K(e, 3) /\ K(d, 4) = K(e, 4)
                                /\ K(d, 5) = K(e, 5)
        BY DEF Keys
    <2>3. /\ compareDst(d, e) < 0 <=> Lexically(Keys(d), Keys(e))
          /\ compareDst(d, e) = 0 <=> Keys(d) = Keys(e)
        <3>1. CASE K(d, 1) # K(e, 1)
            BY <1>3, <2>1, <2>2, <3>1 DEF Lexically
        <3>2. CASE K(d, 1) = K(e, 1) /\ K(d, 2) # K(e, 2)
            BY <1>3, <2>1, <2>2, <3>2 DEF Lexically
        <3>3. CASE K(d, 1) = K(e, 1) /\ K(d, 2) = K(e, 2) /\ K(d, 3) # K(e, 3)
            BY <1>3, <2>1, <2>2, <3>3 DEF Lexically
        <3>4. CASE K(d, 1) = K(e, 1) /\ K(d, 2) = K(e, 2) /\ K(d, 3) = K(e, 3)
            BY <1>3, <2>1, <2>2, <3>4 DEF Lexically
        <3>5. QED
            BY <3>1, <3>2, <3>3, <3>4
    <2>4. QED
        BY <2>3 DEF Before, Tied

(* sort.SliceStable gets a strict weak order of the pairs: of any three,   *)
(* reachable or not and of any families, no two precede one another, and   *)
(* both precedence and ties are transitive (addrselect.go:264-323).        *)
THEOREM DestinationOrderIsWeak ==
    ASSUME NEW d \in Pairs, NEW e \in Pairs, NEW f \in Pairs
    PROVE  /\ ~(Before(d, e) /\ Before(e, d))
           /\ Before(d, e) /\ Before(e, f) => Before(d, f)
           /\ Tied(d, e) /\ Tied(e, f) => Tied(d, f)
<1>1. ASSUME NEW p \in Nat \X Nat \X Nat \X Nat \X Nat,
             NEW q \in Nat \X Nat \X Nat \X Nat \X Nat,
             NEW r \in Nat \X Nat \X Nat \X Nat \X Nat
      PROVE  /\ ~(Lexically(p, q) /\ Lexically(q, p))
             /\ Lexically(p, q) /\ Lexically(q, r) => Lexically(p, r)
    BY DEF Lexically
<1>2. QED
    BY <1>1, KeysType, CompareKeys

-----------------------------------------------------------------------------
(* Naturals: induction over a set, and the least of a set.                 *)

LEMMA LeastNatural ==
    ASSUME NEW S, S \subseteq Nat, S # {}
    PROVE  \E m \in S : \A n \in S : m <= n
<1>1. \E m \in S : \A n \in S : ~(<<n, m>> \in OpToRel(<, Nat))
    BY WFMin, NatLessThanWellFounded, Zenon
<1>2. PICK m \in S : \A n \in S : ~(<<n, m>> \in OpToRel(<, Nat))
    BY <1>1
<1>3. ASSUME NEW n \in S PROVE ~(n < m)
    BY <1>2, Zenon DEF OpToRel
<1>4. ASSUME NEW n \in S PROVE m <= n
    <2>1. n \in Nat /\ m \in Nat
        OBVIOUS
    <2>2. QED
        BY <1>3, <2>1
<1>5. QED
    BY <1>4

LEMMA SetInduction ==
    ASSUME NEW S, 0 \in S, \A n \in Nat : n \in S => n + 1 \in S
    PROVE  Nat \subseteq S
<1>1. SUFFICES ASSUME Nat \ S # {} PROVE FALSE
    OBVIOUS
<1>2. PICK m \in Nat \ S : \A n \in Nat \ S : m <= n
    BY <1>1, LeastNatural
<1>3. m - 1 \in Nat /\ m - 1 \in S
    BY <1>2
<1>4. QED
    BY <1>2, <1>3

-----------------------------------------------------------------------------
(* The scan of pickSource.                                                 *)

(* One turn of the loop, f[n] being where it stands after n sources.       *)
Turn(dst, ips, f, n) ==
    IF n = 0 THEN 0
    ELSE IF ~Usable(dst, ips[n]) THEN f[n - 1]
    ELSE IF f[n - 1] = 0 \/ compareSource(dst, ips[f[n - 1]], ips[n]) < 0 THEN n
    ELSE f[n - 1]

(* The loop has a value after every number of sources.                     *)
LEMMA ScanDefined ==
    ASSUME NEW dst, NEW ips
    PROVE  \A k \in Nat : \E f : f = [n \in 0..k |-> Turn(dst, ips, f, n)]
<1> DEFINE Step(f, n) == Turn(dst, ips, f, n)
           S == {k \in Nat : \E f : f = [n \in 0..k |-> Step(f, n)]}
<1>1. \A f, g, n : f[n - 1] = g[n - 1] => Step(f, n) = Step(g, n)
    BY DEF Turn
<1>2. 0 \in S
    <2> DEFINE f == [n \in 0..0 |-> 0]
    <2>1. \A n \in 0..0 : Step(f, n) = 0
        BY DEF Turn
    <2> HIDE DEF Step
    <2>2. f = [n \in 0..0 |-> Step(f, n)]
        BY <2>1
    <2>3. QED
        BY <2>2
<1>3. ASSUME NEW k \in Nat, k \in S PROVE k + 1 \in S
    <2> HIDE DEF Step
    <2>1. PICK f : f = [n \in 0..k |-> Step(f, n)]
        BY <1>3
    <2> DEFINE g == [n \in 0..(k + 1) |-> IF n = k + 1 THEN Step(f, k + 1) ELSE f[n]]
    <2>2. ASSUME NEW n \in 0..(k + 1) PROVE g[n] = Step(g, n)
        <3>1. CASE n = 0
            <4>1. Step(f, 0) = 0 /\ Step(g, 0) = 0
                BY DEF Step, Turn
            <4>2. f[0] = Step(f, 0) /\ g[0] = f[0]
                BY <2>1
            <4>3. QED
                BY <3>1, <4>1, <4>2
        <3>2. CASE n # 0
            <4>1. n - 1 \in 0..k /\ n - 1 \in 0..(k + 1) /\ n - 1 # k + 1
                BY <3>2
            <4>2. g[n - 1] = f[n - 1]
                BY <4>1
            <4>3. Step(g, n) = Step(f, n)
                BY <1>1, <4>2
            <4>4. g[n] = Step(f, n)
                <5>1. CASE n = k + 1
                    BY <5>1
                <5>2. CASE n # k + 1
                    <6>1. n \in 0..k
                        BY <5>2
                    <6>2. g[n] = f[n] /\ f[n] = Step(f, n)
                        BY <2>1, <5>2, <6>1
                    <6>3. QED
                        BY <6>2
                <5>3. QED
                    BY <5>1, <5>2
            <4>5. QED
                BY <4>3, <4>4
        <3>3. QED
            BY <3>1, <3>2
    <2>3. g = [n \in 0..(k + 1) |-> Step(g, n)]
        BY <2>2
    <2> HIDE DEF g
    <2>4. QED
        BY <2>3
<1>4. Nat \subseteq S
    <2> HIDE DEF S
    <2>1. QED
        BY <1>2, <1>3, SetInduction
<1>5. QED
    BY <1>4

(* Below is a strict weak order: its complement is transitive as well.     *)
LEMMA SourceOrderNegative ==
    ASSUME NEW dst \in Addresses, NEW x \in Addresses, NEW y \in Addresses,
           NEW z \in Addresses,
           compareSource(dst, x, y) < 0, ~(compareSource(dst, x, z) < 0)
    PROVE  compareSource(dst, z, y) < 0 /\ ~(compareSource(dst, y, z) < 0)
BY CompareSourceKeys

(* b is the place of the first of the best usable sources among k.         *)
FirstBest(dst, ips, k, b) ==
    /\ b \in 0..k
    /\ b = 0 => \A n \in 1..k : ~Usable(dst, ips[n])
    /\ b # 0 =>
          /\ Usable(dst, ips[b])
          /\ \A n \in 1..k : Usable(dst, ips[n]) =>
                /\ ~(compareSource(dst, ips[b], ips[n]) < 0)
                /\ n < b => compareSource(dst, ips[n], ips[b]) < 0

LEMMA FirstBestStep ==
    ASSUME NEW dst \in Addresses, NEW ips \in Seq(Addresses), NEW k \in Nat,
           k + 1 <= Len(ips), NEW b, FirstBest(dst, ips, k, b)
    PROVE  FirstBest(dst, ips, k + 1,
                     IF ~Usable(dst, ips[k + 1]) THEN b
                     ELSE IF b = 0 \/ compareSource(dst, ips[b], ips[k + 1]) < 0 THEN k + 1
                     ELSE b)
<1> DEFINE new == k + 1
<1>1. \A n \in 1..new : n \in 1..k \/ n = new
    OBVIOUS
<1>2. \A n \in 1..new : ips[n] \in Addresses
    OBVIOUS
<1>3. b \in 0..k /\ b \in 0..new /\ new \in 0..new /\ new \in 1..new /\ ~(new < b) /\ ~(new < new)
    BY DEF FirstBest
<1>4. b # 0 => b \in 1..new
    BY <1>3
<1>9. \A x \in Addresses : ~(compareSource(dst, x, x) < 0)
    BY SourceOrderIsWeak
<1> HIDE DEF new
<1>5. CASE ~Usable(dst, ips[new])
    <2>1. FirstBest(dst, ips, new, b)
        BY <1>1, <1>3, <1>5 DEF FirstBest
    <2>2. QED
        BY <1>5, <2>1 DEF new
<1>6. CASE Usable(dst, ips[new]) /\ b = 0
    <2>1. ~(compareSource(dst, ips[new], ips[new]) < 0)
        BY <1>2, <1>3, <1>9
    <2>2. \A n \in 1..k : ~Usable(dst, ips[n])
        BY <1>6 DEF FirstBest
    <2>3. FirstBest(dst, ips, new, new)
        BY <1>1, <1>3, <1>6, <2>1, <2>2 DEF FirstBest
    <2>4. QED
        BY <1>6, <2>3 DEF new
<1>7. CASE Usable(dst, ips[new]) /\ b # 0 /\ compareSource(dst, ips[b], ips[new]) < 0
    <2>1. ~(compareSource(dst, ips[new], ips[new]) < 0)
        BY <1>2, <1>3, <1>9
    <2>2. ASSUME NEW n \in 1..k, Usable(dst, ips[n])
          PROVE  /\ ~(compareSource(dst, ips[new], ips[n]) < 0)
                 /\ compareSource(dst, ips[n], ips[new]) < 0
        <3>1. ~(compareSource(dst, ips[b], ips[n]) < 0)
            BY <1>7, <2>2 DEF FirstBest
        <3>2. ips[b] \in Addresses /\ ips[n] \in Addresses /\ ips[new] \in Addresses
            <4>1. n \in 1..new
                BY DEF new
            <4>2. QED
                BY <1>2, <1>3, <1>4, <1>7, <4>1
        <3>3. QED
            BY <1>7, <3>1, <3>2, SourceOrderNegative
    <2>3. FirstBest(dst, ips, new, new)
        <3>1. ASSUME NEW n \in 1..new, Usable(dst, ips[n])
              PROVE  /\ ~(compareSource(dst, ips[new], ips[n]) < 0)
                     /\ n < new => compareSource(dst, ips[n], ips[new]) < 0
            BY <1>1, <1>3, <2>1, <2>2, <3>1
        <3>2. new # 0
            BY <1>3
        <3>3. QED
            BY <1>3, <1>7, <3>1, <3>2 DEF FirstBest
    <2>4. QED
        BY <1>7, <2>3 DEF new
<1>8. CASE Usable(dst, ips[new]) /\ b # 0 /\ ~(compareSource(dst, ips[b], ips[new]) < 0)
    <2>1. FirstBest(dst, ips, new, b)
        BY <1>1, <1>3, <1>8 DEF FirstBest
    <2>2. QED
        BY <1>8, <2>1 DEF new
<1>10. QED
    BY <1>5, <1>6, <1>7, <1>8

(* Whatever the list of interface addresses, the scan of pickSource ends   *)
(* with the first of those that are usable and that no other usable one    *)
(* beats, and with none only if none is usable (addrselect.go:197-216).    *)
THEOREM ScanFindsBest ==
    ASSUME NEW dst \in Addresses, NEW ips \in Seq(Addresses)
    PROVE  FirstBest(dst, ips, Len(ips), Best(dst, ips))
<1> DEFINE L == Len(ips)
           best == CHOOSE f : f = [n \in 0..L |-> Turn(dst, ips, f, n)]
           S == {k \in Nat : k <= L => FirstBest(dst, ips, k, best[k])}
<1>1. L \in Nat
    OBVIOUS
<1>2. Best(dst, ips) = best[L]
    BY DEF Best, Turn
<1>3. best = [n \in 0..L |-> Turn(dst, ips, best, n)]
    <2> HIDE DEF L
    <2>1. \E f : f = [n \in 0..L |-> Turn(dst, ips, f, n)]
        BY <1>1, ScanDefined
    <2>2. QED
        BY <2>1
<1>4. \A n \in 0..L : best[n] = Turn(dst, ips, best, n)
    <2> HIDE DEF best
    <2>1. QED
        BY <1>3
<1> HIDE DEF best, L
<1>5. 0 \in S
    <2>1. best[0] = 0
        BY <1>1, <1>4 DEF Turn
    <2>2. FirstBest(dst, ips, 0, 0)
        BY DEF FirstBest
    <2>3. QED
        BY <2>1, <2>2
<1>6. ASSUME NEW k \in Nat, k \in S PROVE k + 1 \in S
    <2>1. SUFFICES ASSUME k + 1 <= L PROVE FirstBest(dst, ips, k + 1, best[k + 1])
        OBVIOUS
    <2>2. FirstBest(dst, ips, k, best[k])
        BY <1>1, <1>6, <2>1
    <2>3. k + 1 \in 0..L /\ k + 1 # 0 /\ (k + 1) - 1 = k
        BY <1>1, <2>1
    <2>4. best[k + 1] = IF ~Usable(dst, ips[k + 1]) THEN best[k]
                        ELSE IF \/ best[k] = 0
                                \/ compareSource(dst, ips[best[k]], ips[k + 1]) < 0 THEN k + 1
                        ELSE best[k]
        BY <1>4, <2>3 DEF Turn
    <2>5. k + 1 <= Len(ips)
        BY <2>1 DEF L
    <2> HIDE DEF S
    <2>6. QED
        BY <2>2, <2>4, <2>5, FirstBestStep
<1>7. Nat \subseteq S
    <2> HIDE DEF S
    <2>1. QED
        BY <1>5, <1>6, SetInduction
<1>8. FirstBest(dst, ips, L, best[L])
    BY <1>1, <1>7
<1>9. QED
    BY <1>2, <1>8 DEF L

-----------------------------------------------------------------------------
(* The sort.                                                               *)

(* In a finite total order the number of predecessors is a place from 1 to *)
(* the size of the set, and every place is taken.                          *)
LEMMA OrderPlaces ==
    ASSUME NEW S, IsFiniteSet(S), NEW R,
           \A i \in S : <<i, i>> \in R,
           \A i, j \in S : <<i, j>> \in R \/ <<j, i>> \in R,
           \A i, j \in S : <<i, j>> \in R /\ <<j, i>> \in R => i = j,
           \A i, j, k \in S : <<i, j>> \in R /\ <<j, k>> \in R => <<i, k>> \in R
    PROVE  LET At(i) == Cardinality({j \in S : <<j, i>> \in R})
           IN /\ \A i \in S : At(i) \in 1..Cardinality(S)
              /\ \A i, j \in S : At(i) <= At(j) <=> <<i, j>> \in R
              /\ \A n \in 1..Cardinality(S) : \E i \in S : At(i) = n
<1> DEFINE Down(i) == {j \in S : <<j, i>> \in R}
           At(i) == Cardinality(Down(i))
           N == Cardinality(S)
<1>1. N \in Nat
    BY FS_CardinalityType
<1>2. ASSUME NEW i \in S
      PROVE  IsFiniteSet(Down(i)) /\ At(i) \in Nat /\ At(i) <= N
    <2>1. Down(i) \in SUBSET S
        OBVIOUS
    <2> HIDE DEF Down
    <2>2. QED
        BY <2>1, FS_Subset, FS_CardinalityType
<1>3. ASSUME NEW i \in S PROVE At(i) \in 1..N
    <2>1. Down(i) # {}
        OBVIOUS
    <2>2. At(i) # 0
        <3> HIDE DEF Down
        <3>1. QED
            BY <1>2, <2>1, FS_EmptySet
    <2>3. At(i) \in Nat /\ At(i) <= N
        BY <1>2
    <2> HIDE DEF At, N
    <2>4. QED
        BY <1>1, <2>2, <2>3
<1>4. ASSUME NEW i \in S, NEW j \in S, <<i, j>> \in R
      PROVE  At(i) <= At(j) /\ (i # j => At(i) < At(j))
    <2>1. Down(i) \in SUBSET Down(j)
        BY <1>4
    <2>2. i # j => Down(i) # Down(j)
        BY <1>4
    <2> HIDE DEF Down
    <2>3. At(i) <= At(j) /\ (At(j) = At(i) => Down(j) = Down(i))
        BY <1>2, <2>1, FS_Subset
    <2>4. At(i) \in Nat /\ At(j) \in Nat
        BY <1>2
    <2>5. QED
        BY <2>2, <2>3, <2>4
<1>5. ASSUME NEW i \in S, NEW j \in S PROVE At(i) <= At(j) <=> <<i, j>> \in R
    <2>1. CASE <<i, j>> \in R
        BY <1>4, <2>1
    <2>2. CASE ~(<<i, j>> \in R)
        <3>1. <<j, i>> \in R /\ i # j
            BY <2>2
        <3>2. At(j) < At(i)
            BY <1>4, <3>1
        <3>3. At(i) \in Nat /\ At(j) \in Nat
            BY <1>2
        <3> HIDE DEF At
        <3>4. QED
            BY <2>2, <3>2, <3>3
    <2>3. QED
        BY <2>1, <2>2
<1>6. ASSUME NEW n \in 1..N PROVE \E i \in S : At(i) = n
    <2> DEFINE f == [i \in S |-> At(i)]
    <2>1. f \in [S -> 1..N]
        BY <1>3
    <2>2. ASSUME NEW i \in S, NEW j \in S, f[i] = f[j] PROVE i = j
        <3>1. At(i) = At(j)
            BY <2>2
        <3>2. At(i) \in Nat /\ At(j) \in Nat
            BY <1>2
        <3>3. At(i) <= At(j) /\ At(j) <= At(i)
            <4> HIDE DEF At
            <4>1. QED
                BY <3>1, <3>2
        <3>4. <<i, j>> \in R /\ <<j, i>> \in R
            BY <1>5, <3>3
        <3>5. QED
            BY <3>4
    <2>3. f \in Injection(S, 1..N)
        <3> HIDE DEF f, At, N
        <3>1. QED
            BY <2>1, <2>2 DEF Injection, IsInjective
    <2>4. IsFiniteSet(1..N) /\ Cardinality(1..N) = N
        <3> HIDE DEF N
        <3>1. IsFiniteSet(1..N) /\ Cardinality(1..N) = IF 1 > N THEN 0 ELSE N - 1 + 1
            BY <1>1, FS_Interval
        <3>2. QED
            BY <1>1, <3>1
    <2>5. f \in Surjection(S, 1..N)
        <3> HIDE DEF f
        <3>1. QED
            BY <2>3, <2>4, FS_Injection
    <2>6. \E i \in S : f[i] = n
        <3> HIDE DEF f, N
        <3>1. QED
            BY <2>5 DEF Surjection
    <2>7. QED
        BY <2>6
<1>7. QED
    BY <1>3, <1>5, <1>6

(* Stable: of two tied entries the one that was listed first stays first.  *)
Sooner(es, j, i) == Before(es[j], es[i]) \/ (Tied(es[j], es[i]) /\ j <= i)

Listed(es) == /\ DOMAIN es \subseteq Nat /\ IsFiniteSet(DOMAIN es)
              /\ \A i \in DOMAIN es : es[i] \in Pairs

LEMMA SoonerIsOrder ==
    ASSUME NEW es, Listed(es)
    PROVE  /\ \A i \in DOMAIN es : Sooner(es, i, i)
           /\ \A i, j \in DOMAIN es : Sooner(es, i, j) \/ Sooner(es, j, i)
           /\ \A i, j \in DOMAIN es : Sooner(es, i, j) /\ Sooner(es, j, i) => i = j
           /\ \A i, j, k \in DOMAIN es :
                  Sooner(es, i, j) /\ Sooner(es, j, k) => Sooner(es, i, k)
<1> DEFINE K(i) == Keys(es[i])
           Five == Nat \X Nat \X Nat \X Nat \X Nat
<1>1. \A i \in DOMAIN es : K(i) \in Five /\ i \in Nat
    BY KeysType DEF Listed
<1>2. \A i, j \in DOMAIN es :
          Sooner(es, i, j) <=> Lexically(K(i), K(j)) \/ (K(i) = K(j) /\ i <= j)
    BY CompareKeys DEF Sooner, Listed
<1>3. ASSUME NEW p \in Five, NEW q \in Five, NEW r \in Five
      PROVE  /\ ~Lexically(p, p)
             /\ Lexically(p, q) \/ Lexically(q, p) \/ p = q
             /\ ~(Lexically(p, q) /\ Lexically(q, p))
             /\ Lexically(p, q) /\ Lexically(q, r) => Lexically(p, r)
    BY DEF Lexically
<1> HIDE DEF K, Five
<1>4. QED
    BY <1>1, <1>2, <1>3

(* The place that the sort gives an entry is its rank in that order.       *)
LEMMA PlaceIsRank ==
    ASSUME NEW es, Listed(es), NEW i \in DOMAIN es, NEW j \in DOMAIN es
    PROVE  /\ Place(es, i) \in Nat
           /\ Place(es, i) <= Place(es, j) <=> Sooner(es, i, j)
<1> DEFINE D == DOMAIN es
           R == {p \in D \X D : Sooner(es, p[1], p[2])}
           At(k) == Cardinality({m \in D : <<m, k>> \in R})
<1>1. \A k, m \in D : <<k, m>> \in R <=> Sooner(es, k, m)
    OBVIOUS
<1>2. IsFiniteSet(D)
    BY DEF Listed
<1>3. ASSUME NEW k \in D PROVE Place(es, k) = At(k)
    <2>1. {m \in D : <<m, k>> \in R}
              = {m \in D : \/ compareDst(es[m], es[k]) < 0
                           \/ compareDst(es[m], es[k]) = 0 /\ m <= k}
        BY <1>1 DEF Sooner, Before, Tied
    <2>2. QED
        BY <2>1 DEF Place
<1>4. /\ \A k \in D : <<k, k>> \in R
      /\ \A k, m \in D : <<k, m>> \in R \/ <<m, k>> \in R
      /\ \A k, m \in D : <<k, m>> \in R /\ <<m, k>> \in R => k = m
      /\ \A k, m, n \in D : <<k, m>> \in R /\ <<m, n>> \in R => <<k, n>> \in R
    <2> HIDE DEF R
    <2>1. QED
        BY <1>1, SoonerIsOrder
<1> HIDE DEF R
<1>5. /\ \A k \in D : At(k) \in 1..Cardinality(D)
      /\ \A k, m \in D : At(k) <= At(m) <=> <<k, m>> \in R
    <2> HIDE DEF D
    <2>1. QED
        BY <1>2, <1>4, OrderPlaces
<1>6. Cardinality(D) \in Nat
    BY <1>2, FS_CardinalityType
<1>7. At(i) \in Nat /\ (At(i) <= At(j) <=> <<i, j>> \in R)
    <2> HIDE DEF At
    <2>1. QED
        BY <1>5, <1>6
<1>8. QED
    BY <1>1, <1>3, <1>7

(* Nth lists S without a gap or a repetition, in the order of the sort.    *)
LEMMA NthInOrder ==
    ASSUME NEW es, Listed(es), NEW S, S \subseteq DOMAIN es
    PROVE  LET N == Cardinality(S)
           IN /\ N \in Nat
              /\ \A n \in 1..N : Nth(es, S, n) \in S
              /\ \A i \in S : \E n \in 1..N : Nth(es, S, n) = i
              /\ \A m, n \in 1..N : m <= n <=> Sooner(es, Nth(es, S, m), Nth(es, S, n))
<1> DEFINE N == Cardinality(S)
           R == {p \in S \X S : Place(es, p[1]) <= Place(es, p[2])}
           At(i) == Cardinality({j \in S : <<j, i>> \in R})
           At2(i) == Cardinality({j \in S : Place(es, j) <= Place(es, i)})
           nth(n) == Nth(es, S, n)
<1>1. IsFiniteSet(S) /\ N \in Nat
    BY FS_Subset, FS_CardinalityType DEF Listed
<1>2. \A i, j \in S : <<i, j>> \in R <=> Sooner(es, i, j)
    <2>1. \A i, j \in S : Place(es, i) <= Place(es, j) <=> Sooner(es, i, j)
        BY PlaceIsRank
    <2>2. QED
        BY <2>1
<1>3. \A i \in S : At(i) = At2(i)
    <2>1. ASSUME NEW i \in S
          PROVE  {j \in S : <<j, i>> \in R} = {j \in S : Place(es, j) <= Place(es, i)}
        OBVIOUS
    <2>2. QED
        BY <2>1
<1>4. /\ \A i \in S : <<i, i>> \in R
      /\ \A i, j \in S : <<i, j>> \in R \/ <<j, i>> \in R
      /\ \A i, j \in S : <<i, j>> \in R /\ <<j, i>> \in R => i = j
      /\ \A i, j, k \in S : <<i, j>> \in R /\ <<j, k>> \in R => <<i, k>> \in R
    <2> HIDE DEF R
    <2>1. \A i \in S : i \in DOMAIN es
        OBVIOUS
    <2>2. QED
        BY <1>2, <2>1, SoonerIsOrder
<1> HIDE DEF R
<1>5. /\ \A i \in S : At(i) \in 1..N
      /\ \A i, j \in S : At(i) <= At(j) <=> <<i, j>> \in R
      /\ \A n \in 1..N : \E i \in S : At(i) = n
    BY <1>1, <1>4, OrderPlaces
<1>6. \A n : nth(n) = CHOOSE i \in S : At2(i) = n
    BY DEF Nth
<1> HIDE DEF At, At2, nth, N
<1>7. ASSUME NEW n \in 1..N PROVE nth(n) \in S /\ At(nth(n)) = n
    <2>1. \E i \in S : At2(i) = n
        BY <1>3, <1>5
    <2>2. nth(n) \in S /\ At2(nth(n)) = n
        BY <1>6, <2>1
    <2>3. QED
        BY <1>3, <2>2
<1>8. ASSUME NEW i \in S PROVE \E n \in 1..N : nth(n) = i
    <2>1. At(i) \in 1..N /\ nth(At(i)) \in S /\ At(nth(At(i))) = At(i)
        BY <1>5, <1>7
    <2>2. At(i) <= At(nth(At(i))) /\ At(nth(At(i))) <= At(i)
        BY <1>1, <2>1
    <2>3. nth(At(i)) = i
        BY <1>4, <1>5, <2>1, <2>2
    <2>4. QED
        BY <2>1, <2>3
<1>9. ASSUME NEW m \in 1..N, NEW n \in 1..N PROVE m <= n <=> Sooner(es, nth(m), nth(n))
    <2>1. /\ nth(m) \in S /\ At(nth(m)) = m
          /\ nth(n) \in S /\ At(nth(n)) = n
        BY <1>7
    <2>2. At(nth(m)) <= At(nth(n)) <=> <<nth(m), nth(n)>> \in R
        BY <1>5, <2>1
    <2>3. <<nth(m), nth(n)>> \in R <=> Sooner(es, nth(m), nth(n))
        BY <1>2, <2>1
    <2>4. QED
        BY <2>1, <2>2, <2>3
<1>10. QED
    BY <1>1, <1>7, <1>8, <1>9 DEF nth, N

-----------------------------------------------------------------------------
(* What SelectAddresses and the API make of the lists.                     *)

LEMMA EntryType ==
    ASSUME NEW raw \in Advertised, NEW default \in Nat, NEW ips \in Seq(Interfaces)
    PROVE  LET e == Entry(raw, default, ips)
           IN /\ e \in Pairs /\ e.ip = raw.ip
              /\ Reachable(e) <=> \E n \in DOMAIN ips : Usable(raw.ip, ips[n])
<1> DEFINE e == Entry(raw, default, ips)
           b == Best(raw.ip, ips)
           L == Len(ips)
<1>1. raw \in [ip : IPs, zone : Nat, port : Nat, form : Forms]
    BY AddrAssumption
<1>2. raw.ip \in Addresses /\ Zone(raw) \in Nat /\ Port(raw, default) \in Nat
    BY <1>1 DEF IPs, Addresses, Zone, Port
<1>3. /\ L \in Nat /\ DOMAIN ips = 1..L
      /\ \A n \in 1..L : ips[n] \in Interfaces
    OBVIOUS
<1>4. ASSUME NEW n \in 1..L PROVE ips[n] \in Addresses /\ ips[n] # Nil
    <2>1. ips[n] \in IPs
        BY <1>3, AddrAssumption
    <2>2. ips[n] \in Seq(Nat) /\ Len(ips[n]) \in {4, 8}
        BY <2>1 DEF IPs
    <2>3. Len(Nil) = 0
        BY DEF Nil
    <2>4. Len(ips[n]) # 0
        BY <2>2
    <2>5. ips[n] # Nil
        BY <2>3, <2>4, Zenon
    <2>6. QED
        BY <2>2, <2>5 DEF Addresses
<1>5. ips \in Seq(Addresses)
    BY <1>3, <1>4
<1>6. FirstBest(raw.ip, ips, L, b)
    BY <1>2, <1>5, ScanFindsBest
<1>7. e = [ip |-> raw.ip, zone |-> Zone(raw), port |-> Port(raw, default),
           src |-> IF b = 0 THEN Nil ELSE ips[b]]
    BY DEF Entry, pickSource
<1>8. b \in 0..L /\ (b # 0 => b \in 1..L)
    BY <1>3, <1>6 DEF FirstBest
<1>9. e.src \in Addresses /\ (e.src # Nil <=> b # 0)
    <2>1. Nil \in Addresses
        BY DEF Nil, Addresses
    <2> HIDE DEF b
    <2>2. QED
        BY <1>4, <1>7, <1>8, <2>1
<1>10. b # 0 <=> \E n \in DOMAIN ips : Usable(raw.ip, ips[n])
    <2> HIDE DEF b
    <2>1. QED
        BY <1>3, <1>6, <1>8 DEF FirstBest
<1>11. e \in Pairs /\ e.ip = raw.ip
    <2> HIDE DEF b
    <2>1. QED
        BY <1>2, <1>7, <1>9 DEF Pairs
<1>12. QED
    BY <1>9, <1>10, <1>11 DEF Reachable

LEMMA EntriesType ==
    ASSUME NEW raws \in Seq(Advertised), NEW default \in Nat, NEW ips \in Seq(Interfaces)
    PROVE  LET es == Entries(raws, default, ips)
           IN /\ Listed(es)
              /\ \A i \in DOMAIN es :
                     /\ i \in DOMAIN raws /\ raws[i] \in Advertised
                     /\ es[i] = Entry(raws[i], default, ips)
                     /\ Reachable(es[i])
                            <=> \E n \in DOMAIN ips : Usable(es[i].ip, ips[n])
<1> DEFINE es == Entries(raws, default, ips)
<1>1. DOMAIN es \subseteq 1..Len(raws) /\ Len(raws) \in Nat /\ DOMAIN raws = 1..Len(raws)
    BY DEF Entries
<1>2. ASSUME NEW i \in DOMAIN es
      PROVE  /\ i \in DOMAIN raws /\ raws[i] \in Advertised
             /\ es[i] = Entry(raws[i], default, ips)
    BY <1>1 DEF Entries
<1>3. IsFiniteSet(1..Len(raws))
    BY <1>1, FS_Interval
<1> HIDE DEF es
<1>4. IsFiniteSet(DOMAIN es) /\ DOMAIN es \subseteq Nat
    BY <1>1, <1>3, FS_Subset
<1>5. ASSUME NEW i \in DOMAIN es
      PROVE  /\ es[i] \in Pairs
             /\ Reachable(es[i]) <=> \E n \in DOMAIN ips : Usable(es[i].ip, ips[n])
    BY <1>2, EntryType
<1>6. QED
    BY <1>2, <1>4, <1>5 DEF Listed, es

(* SelectAddresses returns every candidate that an interface can reach,    *)
(* each once, best first and of equals in the order the peer listed them   *)
(* (addrselect.go:55-71).                                                  *)
THEOREM SelectsInOrder ==
    ASSUME NEW raws \in Seq(Advertised), NEW default \in Nat, NEW ips \in Seq(Interfaces)
    PROVE  LET es == Entries(raws, default, ips)
               out == {i \in DOMAIN es : \E n \in DOMAIN ips : Usable(es[i].ip, ips[n])}
               pairs == SelectAddresses(raws, ips, default)
           IN /\ DOMAIN pairs = 1..Cardinality(out)
              /\ \E at \in Bijection(DOMAIN pairs, out) : \A n \in DOMAIN pairs :
                     /\ pairs[n] = es[at[n]]
                     /\ \A m \in 1..n : Sooner(es, at[m], at[n])
<1> DEFINE es == Entries(raws, default, ips)
           out == {i \in DOMAIN es : \E n \in DOMAIN ips : Usable(es[i].ip, ips[n])}
           reached == {i \in DOMAIN es : Reachable(es[i])}
           pairs == SelectAddresses(raws, ips, default)
           N == Cardinality(out)
           at == [n \in 1..N |-> Nth(es, out, n)]
<1>1. Listed(es) /\ out = reached
    <2>1. Listed(es) /\ \A i \in DOMAIN es :
              Reachable(es[i]) <=> \E n \in DOMAIN ips : Usable(es[i].ip, ips[n])
        BY EntriesType
    <2> HIDE DEF es
    <2>2. QED
        BY <2>1
<1>2. pairs = [n \in 1..N |-> es[Nth(es, out, n)]]
    <2>1. pairs = [n \in 1..Cardinality(reached) |-> es[Nth(es, reached, n)]]
        BY DEF SelectAddresses
    <2> HIDE DEF reached, out, pairs, es
    <2>2. QED
        BY <1>1, <2>1
<1>3. out \subseteq DOMAIN es
    OBVIOUS
<1> HIDE DEF es, out, pairs
<1>4. /\ N \in Nat
      /\ \A n \in 1..N : at[n] \in out
      /\ \A i \in out : \E n \in 1..N : at[n] = i
      /\ \A m, n \in 1..N : m <= n <=> Sooner(es, at[m], at[n])
    <2>1. /\ N \in Nat
          /\ \A n \in 1..N : Nth(es, out, n) \in out
          /\ \A i \in out : \E n \in 1..N : Nth(es, out, n) = i
          /\ \A m, n \in 1..N : m <= n <=> Sooner(es, Nth(es, out, m), Nth(es, out, n))
        <3> HIDE DEF reached, at
        <3>1. Listed(es) /\ out \subseteq DOMAIN es
            BY <1>1, <1>3
        <3>2. QED
            BY <3>1, NthInOrder
    <2>2. QED
        BY <2>1
<1>5. ASSUME NEW m \in 1..N, NEW n \in 1..N, at[m] = at[n] PROVE m = n
    <2>1. m <= n /\ n <= m
        <3>1. Sooner(es, at[m], at[n]) <=> Sooner(es, at[n], at[m])
            BY <1>5
        <3> HIDE DEF at, N
        <3>2. m \in Nat /\ n \in Nat
            OBVIOUS
        <3>3. QED
            BY <1>4, <3>1, <3>2
    <2>2. QED
        BY <2>1
<1>6. at \in Bijection(1..N, out)
    <2>1. at \in [1..N -> out]
        BY <1>4
    <2> HIDE DEF at, N
    <2>2. QED
        BY <1>4, <1>5, <2>1 DEF Bijection, Injection, IsInjective, Surjection
<1>7. DOMAIN pairs = 1..N /\ \A n \in 1..N : pairs[n] = es[at[n]]
    BY <1>2
<1>8. ASSUME NEW n \in 1..N, NEW m \in 1..n PROVE Sooner(es, at[m], at[n])
    <2> HIDE DEF at, N
    <2>1. m \in 1..N /\ m <= n
        BY <1>4
    <2>2. QED
        BY <1>4, <2>1
<1>9. QED
    BY <1>6, <1>7, <1>8 DEF es, out, pairs

-----------------------------------------------------------------------------
(* The specification.                                                      *)

(* What does not change once the API has been asked.                       *)
Types ==
    /\ dsts \in Seq(Advertised) /\ sources \in Seq(Interfaces)
    /\ port \in {0, 52100}

LEMMA ListsAreSequences ==
    ASSUME NEW S, NEW max \in Nat, NEW l \in Lists(S, max)
    PROVE  l \in Seq(S)
BY DEF Lists

LEMMA TypesInvariant == Spec => []Types
<1>1. Init => Types
    BY ListsAreSequences, AddrAssumption DEF Init, Types
<1>2. Types /\ [peerAddressWith]_vars => Types'
    BY DEF Types, peerAddressWith, vars
<1>3. QED
    BY <1>1, <1>2, PTL DEF Spec

LEMMA CandidatesType ==
    ASSUME Types
    PROVE  /\ Listed(Candidates)
           /\ \A i \in DOMAIN Candidates :
                  Reachable(Candidates[i])
                      <=> \E n \in DOMAIN sources : Usable(Candidates[i].ip, sources[n])
<1>1. CASE port = 0
    <2>1. Candidates = <<>> /\ DOMAIN Candidates = {}
        BY <1>1 DEF Candidates
    <2>2. QED
        BY <2>1, FS_EmptySet DEF Listed
<1>2. CASE port # 0
    <2>1. Candidates = Entries(dsts, port, sources) /\ port \in Nat
        BY <1>2 DEF Candidates, Types
    <2>2. QED
        BY <2>1, EntriesType DEF Types
<1>3. QED
    BY <1>1, <1>2

(* Whatever peers advertise and whatever the interfaces, the sort and the  *)
(* scan of pickSource are given strict weak orders (addrselect.go:218-325).*)
THEOREM OrdersWeak == Spec => []OrdersAreWeak
<1>1. ASSUME Types PROVE OrdersAreWeak
    <2>1. \A i \in DOMAIN Candidates : Candidates[i] \in Pairs
        BY <1>1, CandidatesType DEF Listed
    <2>2. ASSUME NEW i \in DOMAIN Candidates, NEW j \in DOMAIN Candidates,
                 NEW k \in DOMAIN Candidates
          PROVE  LET d == Candidates[i]
                     e == Candidates[j]
                     f == Candidates[k]
                 IN /\ ~(Before(d, e) /\ Before(e, d))
                    /\ Before(d, e) /\ Before(e, f) => Before(d, f)
                    /\ Tied(d, e) /\ Tied(e, f) => Tied(d, f)
        BY <2>1, DestinationOrderIsWeak
    <2>3. ASSUME NEW n \in DOMAIN sources PROVE sources[n] \in Addresses
        BY <1>1, AddrAssumption DEF Types, IPs, Addresses
    <2>4. ASSUME NEW i \in DOMAIN Candidates,
                 NEW s \in {sources[n] : n \in DOMAIN sources},
                 NEW t \in {sources[n] : n \in DOMAIN sources},
                 NEW u \in {sources[n] : n \in DOMAIN sources}
          PROVE  LET dst == Candidates[i].ip
                     Below(x, y) == compareSource(dst, x, y) < 0
                 IN /\ ~(Below(s, t) /\ Below(t, s))
                    /\ Below(s, t) /\ Below(t, u) => Below(s, u)
        <3>1. Candidates[i].ip \in Addresses
            BY <2>1 DEF Pairs
        <3>2. s \in Addresses /\ t \in Addresses /\ u \in Addresses
            BY <2>3
        <3>3. QED
            BY <3>1, <3>2, SourceOrderIsWeak
    <2>5. QED
        BY <2>2, <2>4 DEF OrdersAreWeak
<1>2. QED
    BY <1>1, TypesInvariant, PTL

(* Between pairs that have a source, the sort goes by the criteria of RFC  *)
(* 6724 that the code documents.                                           *)
LEMMA OutranksIsBefore ==
    ASSUME NEW d \in Pairs, NEW e \in Pairs, Reachable(d), Reachable(e)
    PROVE  Outranks(d, e) <=> Before(d, e)
<1> DEFINE K(x, n) == Keys(x)[n]
<1>1. Keys(d) \in Nat \X Nat \X Nat \X Nat \X Nat /\ Keys(e) \in Nat \X Nat \X Nat \X Nat \X Nat
    BY KeysType
<1>2. K(d, 1) = 1 /\ K(e, 1) = 1
    BY DEF Keys, Holds
<1>3. \A n \in 1..4 : Rank(d)[n] = K(d, n + 1) /\ Rank(e)[n] = K(e, n + 1)
    <2>1. /\ Rank(d)[1] = K(d, 2) /\ Rank(d)[2] = K(d, 3)
          /\ Rank(d)[3] = K(d, 4) /\ Rank(d)[4] = K(d, 5)
          /\ Rank(e)[1] = K(e, 2) /\ Rank(e)[2] = K(e, 3)
          /\ Rank(e)[3] = K(e, 4) /\ Rank(e)[4] = K(e, 5)
        BY DEF Rank, Keys
    <2>2. QED
        BY <2>1
<1>4. Before(d, e) <=> Lexically(Keys(d), Keys(e))
    BY CompareKeys
<1>5. Outranks(d, e) <=> \/ Rank(d)[1] > Rank(e)[1]
                         \/ Rank(d)[2] > Rank(e)[2] /\ Rank(d)[1] = Rank(e)[1]
                         \/ /\ Rank(d)[3] > Rank(e)[3] /\ Rank(d)[1] = Rank(e)[1]
                            /\ Rank(d)[2] = Rank(e)[2]
                         \/ /\ Rank(d)[4] > Rank(e)[4] /\ Rank(d)[1] = Rank(e)[1]
                            /\ Rank(d)[2] = Rank(e)[2] /\ Rank(d)[3] = Rank(e)[3]
    <2> DEFINE a(n) == Rank(d)[n]
               c(n) == Rank(e)[n]
    <2> HIDE DEF a, c
    <2>1. (\E n \in 1..4 : a(n) > c(n) /\ \A m \in 1..(n - 1) : a(m) = c(m))
              <=> \/ a(1) > c(1)
                  \/ a(2) > c(2) /\ a(1) = c(1)
                  \/ a(3) > c(3) /\ a(1) = c(1) /\ a(2) = c(2)
                  \/ a(4) > c(4) /\ a(1) = c(1) /\ a(2) = c(2) /\ a(3) = c(3)
        OBVIOUS
    <2>2. QED
        BY <2>1 DEF Outranks, a, c
<1>6. QED
    BY <1>1, <1>2, <1>3, <1>4, <1>5 DEF Lexically

LEMMA FirstIsIdeal ==
    ASSUME Types, port # 0
    PROVE  LET pairs == SelectAddresses(dsts, sources, port)
           IN /\ pairs = <<>> => Reached = {}
              /\ pairs # <<>> => \E i \in Ideal : pairs[1] = Candidates[i]
<1> DEFINE pairs == SelectAddresses(dsts, sources, port)
           N == Cardinality(Reached)
<1>1. Candidates = Entries(dsts, port, sources) /\ port \in Nat
    BY DEF Candidates, Types
<1>2. /\ DOMAIN pairs = 1..N
      /\ \E at \in Bijection(DOMAIN pairs, Reached) : \A n \in DOMAIN pairs :
             /\ pairs[n] = Candidates[at[n]]
             /\ \A m \in 1..n : Sooner(Candidates, at[m], at[n])
    <2> DEFINE es == Entries(dsts, port, sources)
               out == {i \in DOMAIN es : \E n \in DOMAIN sources : Usable(es[i].ip, sources[n])}
    <2>1. dsts \in Seq(Advertised) /\ sources \in Seq(Interfaces)
        BY DEF Types
    <2>2. /\ DOMAIN pairs = 1..Cardinality(out)
          /\ \E at \in Bijection(DOMAIN pairs, out) : \A n \in DOMAIN pairs :
                 /\ pairs[n] = es[at[n]]
                 /\ \A m \in 1..n : Sooner(es, at[m], at[n])
        <3> HIDE DEF pairs, out, es
        <3>1. QED
            BY <1>1, <2>1, SelectsInOrder DEF pairs, out, es
    <2>3. Candidates = es /\ Reached = out
        BY <1>1 DEF Reached
    <2> HIDE DEF pairs, out, es
    <2>4. QED
        BY <2>2, <2>3
<1>3. Reached \subseteq DOMAIN Candidates /\ Listed(Candidates)
    BY CandidatesType DEF Reached
<1>4. IsFiniteSet(Reached) /\ N \in Nat
    BY <1>3, FS_Subset, FS_CardinalityType DEF Listed
<1>5. ASSUME pairs = <<>> PROVE Reached = {}
    <2>1. DOMAIN pairs = {}
        BY <1>5
    <2> HIDE DEF pairs, N
    <2>2. N = 0
        BY <1>2, <1>4, <2>1
    <2>3. QED
        BY <1>4, <2>2, FS_EmptySet DEF N
<1>6. ASSUME pairs # <<>> PROVE \E i \in Ideal : pairs[1] = Candidates[i]
    <2>1. N # 0
        <3>1. ASSUME N = 0 PROVE pairs = <<>>
            <4>1. pairs = [n \in 1..N |-> Candidates[Nth(Candidates, Reached, n)]]
                <5>1. Reached = {i \in DOMAIN Candidates : Reachable(Candidates[i])}
                    BY CandidatesType DEF Reached
                <5>2. QED
                    BY <1>1, <5>1 DEF SelectAddresses
            <4> HIDE DEF pairs, N
            <4>2. QED
                BY <3>1, <4>1
        <3>2. QED
            BY <1>6, <3>1
    <2>2. PICK at \in Bijection(1..N, Reached) : \A n \in 1..N :
              /\ pairs[n] = Candidates[at[n]]
              /\ \A m \in 1..n : Sooner(Candidates, at[m], at[n])
        BY <1>2
    <2> HIDE DEF pairs, N
    <2>3. 1 \in 1..N /\ \A n \in 1..N : 1 \in 1..n
        BY <1>4, <2>1
    <2>4. at[1] \in Reached /\ \A j \in Reached : \E n \in 1..N : at[n] = j
        BY <2>2, <2>3 DEF Bijection, Injection, Surjection
    <2>5. \A j \in Reached : Sooner(Candidates, at[1], j)
        BY <2>2, <2>3, <2>4
    <2>6. ASSUME NEW j \in Reached
          PROVE  /\ ~Outranks(Candidates[j], Candidates[at[1]])
                 /\ j < at[1] => Outranks(Candidates[at[1]], Candidates[j])
        <3>1. /\ Candidates[j] \in Pairs /\ Reachable(Candidates[j])
              /\ Candidates[at[1]] \in Pairs /\ Reachable(Candidates[at[1]])
            BY <1>3, <2>4, CandidatesType DEF Listed, Reached
        <3>2. /\ Outranks(Candidates[j], Candidates[at[1]])
                     <=> Before(Candidates[j], Candidates[at[1]])
              /\ Outranks(Candidates[at[1]], Candidates[j])
                     <=> Before(Candidates[at[1]], Candidates[j])
            BY <3>1, OutranksIsBefore
        <3>3. Sooner(Candidates, at[1], j)
            BY <2>5
        <3>4. ~Before(Candidates[j], Candidates[at[1]])
            <4>1. ~(Before(Candidates[j], Candidates[at[1]])
                    /\ Before(Candidates[at[1]], Candidates[j]))
                BY <3>1, DestinationOrderIsWeak
            <4>2. Tied(Candidates[at[1]], Candidates[j])
                      => ~Before(Candidates[j], Candidates[at[1]])
                <5>1. /\ Tied(Candidates[at[1]], Candidates[j])
                             <=> Keys(Candidates[at[1]]) = Keys(Candidates[j])
                      /\ Before(Candidates[j], Candidates[at[1]])
                             <=> Lexically(Keys(Candidates[j]), Keys(Candidates[at[1]]))
                    BY <3>1, CompareKeys
                <5>2. \A p \in Nat \X Nat \X Nat \X Nat \X Nat : ~Lexically(p, p)
                    BY DEF Lexically
                <5>3. Keys(Candidates[j]) \in Nat \X Nat \X Nat \X Nat \X Nat
                    BY <3>1, KeysType
                <5>4. QED
                    BY <5>1, <5>2, <5>3
            <4>3. QED
                BY <3>3, <4>1, <4>2 DEF Sooner
        <3>5. j < at[1] => Before(Candidates[at[1]], Candidates[j])
            <4>1. j \in Nat /\ at[1] \in Nat
                BY <1>3, <2>4 DEF Listed
            <4>2. j < at[1] => ~(at[1] <= j)
                BY <4>1
            <4>3. QED
                BY <3>3, <4>2 DEF Sooner
        <3>6. QED
            BY <3>2, <3>4, <3>5
    <2>7. at[1] \in Ideal
        BY <2>4, <2>6 DEF Ideal
    <2>8. QED
        BY <2>2, <2>3, <2>7
<1>7. QED
    BY <1>5, <1>6

(* The API dials a candidate that no other reachable one outranks, the     *)
(* first listed among equals, and refuses only if none is reachable,       *)
(* whatever the peer advertises (handlers.go:417-451).                     *)
THEOREM BestDialled == Spec => []BestIsDialled
<1>1. Init => BestIsDialled
    BY DEF Init, BestIsDialled, Unasked, ErrIncompatibleIPVersion
<1>2. ASSUME Types, BestIsDialled, [peerAddressWith]_vars PROVE BestIsDialled'
    <2>1. CASE peerAddressWith
        <3> DEFINE pairs == SelectAddresses(dsts, sources, port)
        <3>1. UNCHANGED <<dsts, sources, port>>
            BY <2>1 DEF peerAddressWith
        <3>2. Reached' = Reached /\ Ideal' = Ideal /\ Candidates' = Candidates
            BY <3>1 DEF Reached, Ideal, Candidates
        <3>3. CASE port = 0 \/ dsts = <<>>
            <4>1. answer' = ErrNoPeerAddress
                BY <2>1, <3>3 DEF peerAddressWith
            <4>2. answer'.result = "NoPeerAddress"
                BY <4>1 DEF ErrNoPeerAddress
            <4>3. ErrIncompatibleIPVersion.result = "IncompatibleIPVersion"
                BY DEF ErrIncompatibleIPVersion
            <4>4. QED
                BY <4>2, <4>3 DEF BestIsDialled, ErrIncompatibleIPVersion
        <3>4. CASE port # 0 /\ dsts # <<>> /\ pairs = <<>>
            <4>1. answer' = ErrIncompatibleIPVersion
                BY <2>1, <3>4 DEF peerAddressWith
            <4>2. answer'.result # "dial"
                BY <4>1 DEF ErrIncompatibleIPVersion
            <4>3. Reached = {}
                BY <1>2, <3>4, FirstIsIdeal
            <4>4. QED
                BY <3>2, <4>2, <4>3 DEF BestIsDialled
        <3>5. CASE port # 0 /\ dsts # <<>> /\ pairs # <<>>
            <4>1. answer' = Dial(pairs[1])
                BY <2>1, <3>5 DEF peerAddressWith
            <4>2. answer' # ErrIncompatibleIPVersion
                <5>1. answer'.result = "dial"
                    BY <4>1 DEF Dial
                <5>2. ErrIncompatibleIPVersion.result # "dial"
                    BY DEF ErrIncompatibleIPVersion
                <5>3. QED
                    BY <5>1, <5>2
            <4>3. \E i \in Ideal : pairs[1] = Candidates[i]
                BY <1>2, <3>5, FirstIsIdeal
            <4> HIDE DEF pairs
            <4>4. \E i \in Ideal : answer' = Dial(Candidates[i])
                BY <4>1, <4>3
            <4>5. QED
                BY <3>2, <4>2, <4>4 DEF BestIsDialled, ErrIncompatibleIPVersion
        <3>6. QED
            BY <3>3, <3>4, <3>5
    <2>2. CASE UNCHANGED vars
        BY <1>2, <2>2 DEF vars, BestIsDialled, Reached, Ideal, Candidates,
           ErrIncompatibleIPVersion
    <2>3. QED
        BY <1>2, <2>1, <2>2
<1>3. QED
    BY <1>1, <1>2, TypesInvariant, PTL DEF Spec
=============================================================================
