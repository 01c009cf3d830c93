---------------------------- MODULE IpClassifier ----------------------------
(***************************************************************************)
(* kernel.mjs isBlockedIp and expandV6: which addresses core.proxy will    *)
(* not connect to.  An IPv4 address is its four octets, an IPv6 address    *)
(* its eight hextets; the classifier is given neither but the text that    *)
(* dns.lookup made of them.                                                *)
(***************************************************************************)
EXTENDS Integers, Sequences

Octet == 0..255
Word == 0..65535
IPv4 == [1..4 -> Octet]
IPv6 == [1..8 -> Word]

(* fe80::, fc00::, ff00::, 2002::, 64:ff9b:: and the marker ffff.          *)
FE8 == 4072
FC == 252
FF == 255
SixToFour == 8194
Nat64 == <<100, 65435>>
FFFF == 65535

Hextet(a, b) == a * 256 + b

Octets(x, y) == <<x \div 256, x % 256, y \div 256, y % 256>>

----------------------------------------------------------------------------
(* How an address is written (Node's inet_ntop, or more freely).  In the   *)
(* text of an IPv6 address "::" stands for a run of zeros; the last two    *)
(* hextets may be written as an IPv4 address, in v4.                       *)

Text4(a) == [family |-> 4, octets |-> a]

(* The first n hextets are in hexadecimal, less those after i and up to j. *)
Text6(h, n, i, j) ==
  [family |-> 6,
   head   |-> [k \in 1..i |-> h[k]],
   gap    |-> i < j,
   tail   |-> [k \in 1..n - j |-> h[j + k]],
   v4     |-> IF n = 8 THEN <<>> ELSE Octets(h[7], h[8])]

Zero6 == [k \in 1..8 |-> 0]

(* Two zeros in a row are shortened, and so is the whole run.              *)
IsCut(h, n, i, j) ==
  /\ i <= j /\ j <= n /\ n \in {6, 8}
  /\ \A k \in i + 1..j : h[k] = 0
  /\ IF i < j THEN i = 0 \/ h[i] # 0 ELSE i = n
  /\ i < j => j = n \/ h[j + 1] # 0
  /\ (\E k \in 1..n - 1 : h[k] = 0 /\ h[k + 1] = 0) => i < j
  /\ h = Zero6 => n = 8

Texts(a) ==
  IF a \in IPv4 THEN {Text4(a)}
  ELSE {Text6(a, c[1], c[2], c[3]) :
          c \in {c \in {6, 8} \X (0..8) \X (0..8) : IsCut(a, c[1], c[2], c[3])}}

----------------------------------------------------------------------------
(* isBlockedIp.                                                            *)

IsBlockedV4(p) ==
  \/ p[1] \in {0, 10, 127} \/ p[1] >= 224
  \/ p[1] = 169 /\ p[2] = 254
  \/ p[1] = 172 /\ p[2] \in 16..31
  \/ p[1] = 192 /\ p[2] = 168
  \/ p[1] = 100 /\ p[2] \in 64..127

Unparsable == <<>>

(* Mutated: the zeros of "::" are put in front.                            *)
ExpandV6ZerosFirst(t) ==
  LET tail == t.tail \o IF t.v4 = <<>> THEN <<>>
                        ELSE <<Hextet(t.v4[1], t.v4[2]), Hextet(t.v4[3], t.v4[4])>>
      missing == IF t.gap THEN 8 - Len(t.head) - Len(tail) ELSE 0
      hextets == [k \in 1..missing |-> 0] \o t.head \o tail
  IN  IF Len(hextets) = 8 THEN hextets ELSE Unparsable

ExpandV6(t) ==
  LET tail == t.tail \o IF t.v4 = <<>> THEN <<>>
                        ELSE <<Hextet(t.v4[1], t.v4[2]), Hextet(t.v4[3], t.v4[4])>>
      missing == IF t.gap THEN 8 - Len(t.head) - Len(tail) ELSE 0
      hextets == t.head \o [k \in 1..missing |-> 0] \o tail
  IN  IF Len(hextets) = 8 THEN hextets ELSE Unparsable

(* The text begins with the hexadecimal digits of p: a test of its first   *)
(* characters, whatever the length of the first group.                     *)
Begins(t, p) ==
  t.head # <<>> /\ \E m \in {1, 16, 256} : t.head[1] \div m = p

IsLoopbackText(t) ==
  /\ t.head = <<>> /\ t.gap /\ t.v4 = <<>>
  /\ t.tail = <<>> \/ t.tail = <<1>>

(* The families that carry an IPv4 address: 6to4, NAT64, and compatible,   *)
(* mapped and translated addresses.                                        *)
EmbedsBlocked(h) ==
  \/ h[1] = SixToFour /\ IsBlockedV4(Octets(h[2], h[3]))
  \/ /\ h[1] = Nat64[1] /\ h[2] = Nat64[2]
     /\ IsBlockedV4(Octets(h[7], h[8]))
  \/ /\ \A k \in 1..4 : h[k] = 0
     /\ h[5] \in {0, FFFF} /\ h[6] \in {0, FFFF}
     /\ ~(h[7] = 0 /\ h[8] = 0)
     /\ IsBlockedV4(Octets(h[7], h[8]))

IsBlockedV6(t) ==
  \/ IsLoopbackText(t)
  \/ \E p \in {FE8, FE8 + 1, FE8 + 2, FE8 + 3, FC, FC + 1, FF} : Begins(t, p)
  \/ ExpandV6(t) # Unparsable /\ EmbedsBlocked(ExpandV6(t))

IsBlockedIp(t) ==
  IF t.family = 4 THEN IsBlockedV4(t.octets) ELSE IsBlockedV6(t)

----------------------------------------------------------------------------
(* The reference: address blocks, by their first address and size.  Every  *)
(* IPv4 block of the policy is a /16 or larger.                            *)

InBlock4(p, a, b, size) ==
  /\ Hextet(a, b) <= Hextet(p[1], p[2])
  /\ Hextet(p[1], p[2]) < Hextet(a, b) + size

(* 0/8, 10/8, 127/8, 169.254/16, 172.16/12, 192.168/16, 100.64/10, 224/3.  *)
Internal4(p) ==
  \/ InBlock4(p, 0, 0, 256) \/ InBlock4(p, 10, 0, 256) \/ InBlock4(p, 127, 0, 256)
  \/ InBlock4(p, 169, 254, 1) \/ InBlock4(p, 172, 16, 16)
  \/ InBlock4(p, 192, 168, 1) \/ InBlock4(p, 100, 64, 64)
  \/ InBlock4(p, 224, 0, 8192)

(* The IPv4 address that an IPv6 address stands for, if it does: 2002::/16,*)
(* 64:ff9b::/96, ::/96, ::ffff:0:0/96 and ::ffff:0:0:0/96.                 *)
StandsFor(h, p) ==
  \/ h[1] = SixToFour /\ p = Octets(h[2], h[3])
  \/ /\ \/ SubSeq(h, 1, 6) = Nat64 \o <<0, 0, 0, 0>>
        \/ SubSeq(h, 1, 6) \in {<<0, 0, 0, 0, 0, 0>>, <<0, 0, 0, 0, 0, FFFF>>,
                                <<0, 0, 0, 0, FFFF, 0>>}
           /\ Octets(h[7], h[8]) # <<0, 0, 0, 0>>
     /\ p = Octets(h[7], h[8])

(* ::, ::1, fe80::/10, fc00::/7, ff00::/8, and what stands for an internal *)
(* IPv4 address.                                                           *)
Internal6(h) ==
  \/ h = Zero6 \/ h = [Zero6 EXCEPT ![8] = 1]
  \/ h[1] \in 65152..65215 \/ h[1] \in 64512..65023 \/ h[1] >= 65280
  \/ \E p \in {Octets(h[2], h[3]), Octets(h[7], h[8])} :
       StandsFor(h, p) /\ Internal4(p)

Internal(a) == IF a \in IPv4 THEN Internal4(a) ELSE Internal6(a)
============================================================================
