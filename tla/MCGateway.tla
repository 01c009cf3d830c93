----------------------------- MODULE MCGateway -----------------------------
(***************************************************************************)
(* Gateway for TLC: a few requests that between them meet every check.     *)
(***************************************************************************)
EXTENDS Gateway

Request(ask, sig, key, ts, nonce) ==
  [ask |-> ask, sig |-> sig, key |-> key, ts |-> ts, nonce |-> nonce]

(* Two signed requests that share a nonce, one of another nonce, one of a  *)
(* key that is not the first, one signed with the empty secret, and one    *)
(* that carries the key itself.                                            *)
SignedRequests ==
  { Request("protected", 1, NoKey, 1, "n1"),
    Request("protected", 1, NoKey, 2, "n1"),
    Request("protected", 1, NoKey, 2, "n2"),
    Request("protected", NoKey, NoKey, 1, "n2") }

KeyRequests == { Request("protected", NoSig, 1, NoTs, BadNonce) }

(* One request for each of the other outcomes.                             *)
OtherRequests ==
  { Request(ask, NoSig, NoKey, NoTs, BadNonce) :
      ask \in {"too_long", "malformed", "post", "bare", "unknown",
               "public", "protected"} }
  \cup
  { Request("protected", 1, NoKey, NoTs, "n1"),
    Request("protected", 1, NoKey, BadTs, "n1"),
    Request("protected", 1, NoKey, 1, BadNonce) }

MCSigned == SignedRequests \cup KeyRequests
MCAll == MCSigned \cup OtherRequests
============================================================================
