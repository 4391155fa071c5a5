------------------------------ MODULE UrlGuard ------------------------------
(***************************************************************************)
(* The decision of UrlGuard::check (src/url_guard.rs): which URLs the      *)
(* browsing tools may open.  The check is made in two parts because a      *)
(* lookup of the host's name may come in between: what is decided by the   *)
(* URL alone, and what is decided by the answer of the lookup.             *)
(*                                                                         *)
(* A URL is a record [parses, scheme, host], as the url crate reads it.  A *)
(* host is [kind, ip]: "v4", an IPv4 literal; "v6", an IPv6 literal, which *)
(* the crate gives as text in brackets, and that is not the text of an     *)
(* address; "local", localhost and every name below it; "name", any other; *)
(* "none".  An address is [v, parts]: v is 4 and there are four octets, or *)
(* v is 6 and there are eight 16-bit segments.                             *)
(***************************************************************************)
EXTENDS Naturals, Sequences

-----------------------------------------------------------------------------
(* Addresses *)

\* Two bytes, as a 16-bit number.
Word(a, b) == 256 * a + b

\* x & m, where m clears the bits below n, a power of two.
High(x, n) == x - (x % n)

\* 100.64.0.0/10, carrier-grade NAT.  (The first form has a mask one bit too
\* long.)
SharedNarrow(b) == High(b, 32) = 64
Shared(b) == High(b, 64) = 64

V4IsBlocked(o) ==
  \/ o[1] = 127                                       \* is_loopback
  \/ o[1] = 10                                        \* is_private
  \/ o[1] = 172 /\ High(o[2], 16) = 16
  \/ o[1] = 192 /\ o[2] = 168
  \/ o[1] = 169 /\ o[2] = 254                         \* is_link_local
  \/ \E b \in {0, 255} : \A i \in 1..4 : o[i] = b     \* unspecified, broadcast
  \/ o[1] = 100 /\ Shared(o[2])

\* ::ffff:a.b.c.d stands for the IPv4 address a.b.c.d.
IsMapped(s) == (\A i \in 1..5 : s[i] = 0) /\ s[6] = Word(255, 255)
Mapped(s) == <<s[7] \div 256, s[7] % 256, s[8] \div 256, s[8] % 256>>

\* fc00::/7.  (The first form has a mask one bit too short.)
UniqueLocalWide(x) == High(x, 1024) = Word(252, 0)
UniqueLocal(x) == High(x, 512) = Word(252, 0)

V6IsBlocked(s) ==
  \/ (\A i \in 1..7 : s[i] = 0) /\ s[8] \in {0, 1}    \* ::1 and ::
  \/ High(s[1], 64) = Word(254, 128)                          \* fe80::/10
  \/ UniqueLocal(s[1])

IpIsBlocked(ip) ==
  \/ ip.v = 4 /\ V4IsBlocked(ip.parts)
  \/ ip.v = 6 /\ IsMapped(ip.parts) /\ V4IsBlocked(Mapped(ip.parts))
  \/ ip.v = 6 /\ ~IsMapped(ip.parts) /\ V6IsBlocked(ip.parts)

-----------------------------------------------------------------------------
(* The check *)

\* Not a URL, another scheme, or no host.
Malformed(url) ==
  \/ ~url.parses
  \/ url.scheme \notin {"http", "https"}
  \/ url.host.kind = "none"

\* What the URL alone decides; "lookup" when its name has to be looked up.
Settled(allowPrivate, url) ==
  IF Malformed(url) THEN "invalid"
  ELSE IF allowPrivate THEN "ok"
  ELSE IF url.host.kind = "v4" THEN
    IF IpIsBlocked(url.host.ip) THEN "blocked" ELSE "ok"
  ELSE IF url.host.kind = "local" THEN "blocked"
  ELSE "lookup"

\* The answer of a lookup: an error, or the set of addresses found.
Unresolved == [ok |-> FALSE, addrs |-> {}]

\* One internal address among them is enough.
Answered(answer) ==
  IF answer.addrs = {} THEN "navigation"
  ELSE IF \E ip \in answer.addrs : IpIsBlocked(ip) THEN "blocked"
  ELSE "ok"

-----------------------------------------------------------------------------
(* What the guard is meant to refuse, by ranges and not by masks *)

Segment == 0..Word(255, 255)
Address ==
  [v : {4}, parts : [1..4 -> 0..255]] \cup [v : {6}, parts : [1..8 -> Segment]]

\* The networks, by the first two octets or by the first segment.
Internal4Nets ==
  Word(10, 0)..Word(10, 255) \cup Word(127, 0)..Word(127, 255)
    \cup Word(172, 16)..Word(172, 31) \cup Word(100, 64)..Word(100, 127)
    \cup {Word(192, 168), Word(169, 254)}
LinkLocalNets == Word(254, 128)..Word(254, 191)
UniqueLocalNets == Word(252, 0)..Word(253, 255)

Internal4(o) ==
  \/ Word(o[1], o[2]) \in Internal4Nets
  \/ o \in {[i \in 1..4 |-> 0], [i \in 1..4 |-> 255]}

\* An IPv4-mapped address is internal if the address it stands for is; of the
\* others, :: and ::1 and the two networks.
Internal6(s) ==
  \/ IsMapped(s) /\ Internal4(Mapped(s))
  \/ (\A i \in 1..7 : s[i] = 0) /\ s[8] <= 1
  \/ s[1] \in LinkLocalNets \cup UniqueLocalNets

Internal(ip) ==
  \/ ip.v = 4 /\ Internal4(ip.parts)
  \/ ip.v = 6 /\ Internal6(ip.parts)
=============================================================================
