--------------------------- MODULE UrlGuard_proofs --------------------------
(***************************************************************************)
(* The masks of ip_is_blocked are the ranges they stand for, for every     *)
(* address.                                                                *)
(***************************************************************************)
EXTENDS UrlGuard, TLAPS

-----------------------------------------------------------------------------
(* Bytes and 16-bit numbers *)

LEMMA SegmentIsNat == Segment \subseteq Nat
  BY SMT DEF Segment, Word

LEMMA Split64 ==
  ASSUME NEW x \in Nat
  PROVE  \E q \in Nat, r \in 0..63 : x = 64 * q + r /\ x % 64 = r
  BY SMT

LEMMA Split512 ==
  ASSUME NEW x \in Nat
  PROVE  \E q \in Nat, r \in 0..511 : x = 512 * q + r /\ x % 512 = r
  BY SMT

LEMMA LinkLocalRange ==
  ASSUME NEW x \in Nat, NEW q \in Nat, NEW r \in 0..63, x = 64 * q + r
  PROVE  x - r = Word(254, 128) <=> x \in LinkLocalNets
  BY SMT DEF Word, LinkLocalNets

LEMMA UniqueLocalRange ==
  ASSUME NEW x \in Nat, NEW q \in Nat, NEW r \in 0..511, x = 512 * q + r
  PROVE  x - r = Word(252, 0) <=> x \in UniqueLocalNets
  BY SMT DEF Word, UniqueLocalNets

LEMMA Bytes ==
  ASSUME NEW x \in Segment
  PROVE  x \div 256 \in 0..255 /\ x % 256 \in 0..255
<1>1. x \in Nat /\ x <= 65535
  BY SMT DEF Segment, Word
<1> QED
  BY <1>1, SMT

InNet(a, b) ==
  \/ a \in {10, 127}
  \/ a = 172 /\ b \in 16..31
  \/ a = 100 /\ b \in 64..127
  \/ a = 192 /\ b = 168
  \/ a = 169 /\ b = 254

LEMMA NetRanges ==
  ASSUME NEW a \in 0..255, NEW b \in 0..255
  PROVE  Word(a, b) \in Internal4Nets <=> InNet(a, b)
  BY SMT DEF Word, Internal4Nets, InNet

LEMMA ZeroInNoNet ==
  0 \notin LinkLocalNets /\ 0 \notin UniqueLocalNets /\ Word(255, 255) # 0
  BY SMT DEF Word, LinkLocalNets, UniqueLocalNets

-----------------------------------------------------------------------------
(* Masks *)

LEMMA OctetMasks ==
  ASSUME NEW b \in 0..255
  PROVE  /\ High(b, 16) = 16 <=> b \in 16..31
         /\ Shared(b) <=> b \in 64..127
  BY DEF High, Shared

LEMMA SegmentMasks ==
  ASSUME NEW x \in Segment
  PROVE  /\ High(x, 64) = Word(254, 128) <=> x \in LinkLocalNets
         /\ UniqueLocal(x) <=> x \in UniqueLocalNets
<1>1. x \in Nat
  BY SegmentIsNat
<1>2. PICK q \in Nat, r \in 0..63 : x = 64 * q + r /\ x % 64 = r
  BY <1>1, Split64
<1>3. PICK p \in Nat, t \in 0..511 : x = 512 * p + t /\ x % 512 = t
  BY <1>1, Split512
<1>4. High(x, 64) = Word(254, 128) <=> x \in LinkLocalNets
  BY <1>1, <1>2, LinkLocalRange DEF High
<1>5. UniqueLocal(x) <=> x \in UniqueLocalNets
  BY <1>1, <1>3, UniqueLocalRange DEF High, UniqueLocal
<1> QED
  BY <1>4, <1>5

-----------------------------------------------------------------------------
(* Addresses *)

(* An IPv4 address is blocked exactly if it lies in one of the ranges. *)
LEMMA V4MasksAreRanges ==
  ASSUME NEW o \in [1..4 -> 0..255]
  PROVE  V4IsBlocked(o) <=> Internal4(o)
<1>1. o[1] \in 0..255 /\ o[2] \in 0..255
  OBVIOUS
<1>2. (\E c \in {0, 255} : \A i \in 1..4 : o[i] = c)
        <=> o \in {[i \in 1..4 |-> 0], [i \in 1..4 |-> 255]}
  <2>1. \A c : (\A i \in 1..4 : o[i] = c) <=> o = [i \in 1..4 |-> c]
    OBVIOUS
  <2> QED
    BY <2>1
<1>3. /\ High(o[2], 16) = 16 <=> o[2] \in 16..31
      /\ Shared(o[2]) <=> o[2] \in 64..127
  BY <1>1, OctetMasks
<1>4. Word(o[1], o[2]) \in Internal4Nets <=> InNet(o[1], o[2])
  BY <1>1, NetRanges
<1> QED
  BY <1>2, <1>3, <1>4 DEF V4IsBlocked, Internal4, InNet

(* What ::ffff:a.b.c.d stands for is an IPv4 address. *)
LEMMA MappedIsV4 ==
  ASSUME NEW s \in [1..8 -> Segment]
  PROVE  Mapped(s) \in [1..4 -> 0..255]
<1>1. /\ s[7] \div 256 \in 0..255 /\ s[7] % 256 \in 0..255
      /\ s[8] \div 256 \in 0..255 /\ s[8] % 256 \in 0..255
  BY Bytes
<1> QED
  BY <1>1 DEF Mapped

(* The same for an IPv6 address. *)
LEMMA V6MasksAreRanges ==
  ASSUME NEW s \in [1..8 -> Segment]
  PROVE  /\ IsMapped(s) => (V4IsBlocked(Mapped(s)) <=> Internal6(s))
         /\ ~IsMapped(s) => (V6IsBlocked(s) <=> Internal6(s))
<1>1. s[1] \in Segment /\ s[8] \in Segment
  OBVIOUS
<1>2. ASSUME IsMapped(s) PROVE V4IsBlocked(Mapped(s)) <=> Internal6(s)
  <2>1. V4IsBlocked(Mapped(s)) <=> Internal4(Mapped(s))
    BY MappedIsV4, V4MasksAreRanges
  <2>2. s[1] = 0 /\ s[6] # 0
    BY <1>2, ZeroInNoNet DEF IsMapped
  <2> QED
    BY <1>2, <2>1, <2>2, ZeroInNoNet DEF Internal6
<1>3. ASSUME ~IsMapped(s) PROVE V6IsBlocked(s) <=> Internal6(s)
  <2>1. s[8] \in {0, 1} <=> s[8] <= 1
    <3>1. s[8] \in Nat
      BY <1>1, SegmentIsNat
    <3> QED
      BY <3>1
  <2>2. /\ High(s[1], 64) = Word(254, 128) <=> s[1] \in LinkLocalNets
        /\ UniqueLocal(s[1]) <=> s[1] \in UniqueLocalNets
    BY <1>1, SegmentMasks
  <2> QED
    BY <1>3, <2>1, <2>2 DEF Internal6, V6IsBlocked
<1> QED
  BY <1>2, <1>3

(* The guard blocks an address exactly if it is internal: no mask is a bit too
   long or too short, and no IPv4-mapped address slips through. *)
THEOREM MasksAreRanges ==
  ASSUME NEW ip \in Address
  PROVE  IpIsBlocked(ip) <=> Internal(ip)
<1>1. CASE ip \in [v : {4}, parts : [1..4 -> 0..255]]
  <2>1. ip.v = 4 /\ ip.parts \in [1..4 -> 0..255]
    BY <1>1
  <2> QED
    BY <2>1, V4MasksAreRanges DEF IpIsBlocked, Internal
<1>2. CASE ip \in [v : {6}, parts : [1..8 -> Segment]]
  <2>1. ip.v = 6 /\ ip.parts \in [1..8 -> Segment]
    BY <1>2
  <2> QED
    BY <2>1, V6MasksAreRanges DEF IpIsBlocked, Internal
<1> QED
  BY <1>1, <1>2 DEF Address
=============================================================================
