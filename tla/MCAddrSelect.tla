---------------------------- MODULE MCAddrSelect ----------------------------
(* Addresses for AddrSelect: a LAN and a bridge in IPv4; global, unique    *)
(* local and link-local IPv6; candidates in the several forms they take.   *)
EXTENDS AddrSelect

Bare(ip) == [ip |-> ip, zone |-> 0, port |-> 0, form |-> "bare"]

Lan(n) == <<192, 168, 1, n>>
Bridge(n) == <<172, 17, 0, n>>
Global(n) == <<8193, 3512, 0, 0, 0, 0, 0, n>>
UniqueLocal(n) == <<64768, 0, 0, 0, 0, 0, 0, n>>
LinkLocal(n) == <<65152, 0, 0, 0, 0, 0, 0, n>>
Loopback == <<0, 0, 0, 0, 0, 0, 0, 1>>

MCAdvertised ==
    {Bare(Lan(20)), Bare(Global(20)), Bare(UniqueLocal(20)),
     [ip |-> LinkLocal(20), zone |-> 2, port |-> 0, form |-> "bare"],
     [ip |-> LinkLocal(21), zone |-> 2, port |-> 0, form |-> "bracket"],
     [ip |-> Lan(21), zone |-> 0, port |-> 8080, form |-> "port"],
     [ip |-> Lan(22), zone |-> 0, port |-> 0, form |-> "malformed"]}

MCInterfaces ==
    {Lan(5), Bridge(2), UniqueLocal(5), LinkLocal(5), Loopback}
=============================================================================
