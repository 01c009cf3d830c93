------------------------------ MODULE MCProxy ------------------------------
EXTENDS ProxyAddresses, TLC

(* Plain URLs of two allowed hosts, of a host that is not allowed, and of  *)
(* an allowed private address, and one URL for every flaw.                 *)
MCTargets ==
  {[flaws |-> {}, host |-> h] : h \in {"github", "telegram", "other", "10.0.0.1"}}
  \cup {[flaws |-> {f}, host |-> "github"] :
          f \in {"unparsable", "not_https", "credentials", "port"}}
  \cup {[flaws |-> {}, host |-> NoHost]}

MCLiteralAddress == "10.0.0.1" :> <<10, 0, 0, 1>>

(* 1.1.1.1, 100.63.255.255 and 2606:4700::1111.                           *)
Public ==
  { <<1, 1, 1, 1>>, <<100, 63, 255, 255>>, <<9734, 18176, 0, 0, 0, 0, 0, 4369>> }

(* Edges of the blocks, and the ways an IPv4 address is carried.           *)
Private ==
  { <<10, 0, 0, 1>>, <<100, 64, 0, 1>>, <<100, 127, 0, 1>>, <<172, 31, 0, 1>>,
    Zero6, [Zero6 EXCEPT ![8] = 1],
    <<65215, 0, 0, 1, 0, 0, 0, 1>>, <<64512, 1, 2, 3, 4, 5, 6, 7>>,
    <<0, 0, 0, 0, 0, FFFF, 32512, 1>>, <<0, 0, 0, 0, FFFF, 0, 2560, 1>>,
    <<0, 0, 0, 0, 0, 0, 43518, 43518>>,
    <<SixToFour, 32512, 1, 0, 0, 0, 0, 0>>, <<100, 65435, 0, 0, 0, 0, 49320, 1>> }

MCAddresses == Public \cup Private

(* None, one or two addresses.                                             *)
MCAnswers == {{a, b} : a, b \in MCAddresses} \cup {{}}

(* inet_ntop: an IPv4-compatible or mapped address ends in its IPv4 form,  *)
(* and the longest run of zeros is shortened.                              *)
Dotted(a) ==
  /\ a \in IPv6 /\ SubSeq(a, 1, 5) = <<0, 0, 0, 0, 0>> /\ a[6] \in {0, FFFF}
  /\ ~(a[6] = 0 /\ a[7] = 0 /\ a[8] \in {0, 1})

Groups(t) == Len(t.head) + Len(t.tail)

MCTextOf ==
  [a \in MCAddresses |->
     IF a \in IPv4 THEN Text4(a)
     ELSE LET T == {t \in Texts(a) : (t.v4 # <<>>) = Dotted(a)}
          IN  CHOOSE t \in T : \A u \in T : Groups(t) <= Groups(u)]

MCBlocked == {a \in MCAddresses : IsBlockedIp(MCTextOf[a])}
============================================================================
