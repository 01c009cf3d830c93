--------------------------- MODULE ProxyAddresses ---------------------------
(***************************************************************************)
(* core.proxy with real addresses: Proxy, whose Blocked is what            *)
(* IpClassifier makes of the text DNS gives for an address.                *)
(***************************************************************************)
EXTENDS Proxy, IpClassifier

CONSTANT TextOf    (* the text dns.lookup returns for an address           *)

ASSUME AddressAssumption ==
  /\ Addresses \subseteq IPv4 \cup IPv6
  /\ \A a \in Addresses : TextOf[a] \in Texts(a)
  /\ Blocked = {a \in Addresses : IsBlockedIp(TextOf[a])}

(* I8, "block private/link-local/loopback targets even if DNS resolves     *)
(* there" (SPEC 219-221): whatever DNS answers at each hop, in whatever    *)
(* text, and whatever redirects come back, no request goes to an address   *)
(* of an internal block, or to one that stands for such an address.        *)
NeverDialsInternal == \A d \in dialled : ~Internal(d.address)
============================================================================
