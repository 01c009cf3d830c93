------------------------------ MODULE Gateway ------------------------------
(***************************************************************************)
(* The life of an HTTP request: server.mjs's request callback, kernel.mjs  *)
(* handleRequest and authenticate, composed with the nonce memory of       *)
(* NonceRing.  The callback runs to the first `await` without giving way   *)
(* to another request; from there the module's handler runs while other    *)
(* requests arrive, the operator changes the door-key, and the socket may  *)
(* time out.                                                               *)
(***************************************************************************)
EXTENDS Integers, FiniteSets

CONSTANTS
  Conns,            (* the sockets the server holds at a time             *)
  Requests,         (* the requests clients send, any number of times     *)
  Keys,             (* the door-keys the operator issues                  *)
  Nonces,           (* well-formed nonces                                 *)
  TS_WINDOW_SEC,    (* cfg.TS_WINDOW_SEC                                  *)
  NONCE_TTL_SEC,    (* cfg.NONCE_TTL_SEC                                  *)
  NONCE_MAX,        (* cfg.NONCE_MAX                                      *)
  ALLOW_KEY_PARAM,  (* cfg.ALLOW_KEY_PARAM                                *)
  SKEW_AHEAD,       (* how far a client's clock may be ahead of ours      *)
  MAX_TIME          (* bound of the clock                                 *)

(* No secret, no parameter of that name.  A signature computed with the    *)
(* empty secret is a signature "under" NoKey.                              *)
NoKey == 0
NoSig == -1
NoTs == -1
BadTs == -2
BadNonce == "bad"

(* A request: what it asks for, and its auth parameters.  `sig` is the key *)
(* it was signed with, `key` the degraded key= parameter.                  *)
RequestType ==
  [ask   : {"too_long", "malformed", "post", "bare", "unknown",
            "public", "protected"},
   sig   : Keys \cup {NoKey, NoSig},
   key   : Keys \cup {NoKey},
   ts    : Nat \cup {NoTs, BadTs},
   nonce : Nonces \cup {BadNonce}]

ASSUME GatewayAssumption ==
  /\ Requests \subseteq RequestType
  /\ Keys \subseteq Nat \ {NoKey}
  /\ BadNonce \notin Nonces
  /\ TS_WINDOW_SEC \in Nat /\ SKEW_AHEAD \in Nat /\ MAX_TIME \in Nat
  /\ NONCE_TTL_SEC \in Nat /\ NONCE_MAX \in Nat
  /\ ALLOW_KEY_PARAM \in BOOLEAN

VARIABLES
  now,        (* nowSec()                                                 *)
  secret,     (* what getDoorKey() returns; DoorKeyStore says when it     *)
              (* changes, here it may change at any time                  *)
  conns,      (* what each socket is doing                                *)
  accepts,    (* history: how often this process let a signed request in  *)
  nonces, inserted, verdict, taken, monotone    (* the nonce memory       *)

Ring == INSTANCE NonceRing WITH CLOCK_STEPS_BACK <- FALSE

ringVars == <<nonces, inserted, verdict, taken, monotone>>
vars == <<now, secret, conns, accepts, ringVars>>

Signed(r) == r.sig # NoSig
Keyed(r) == ~Signed(r) /\ r.key # NoKey

----------------------------------------------------------------------------
(* authenticate: its checks in the code's order, up to the nonce.          *)

Distance(a, b) == IF a >= b THEN a - b ELSE b - a

(* Mutated: the window is one second too wide.                             *)
TsExpiredLate(r) == Distance(now, r.ts) > TS_WINDOW_SEC + 1

TsExpired(r) == Distance(now, r.ts) > TS_WINDOW_SEC

KeyedError(r) ==
  IF ~ALLOW_KEY_PARAM THEN "key_param_disabled"
  ELSE IF secret = NoKey THEN "no_secret_server"
  ELSE IF r.key # secret THEN "bad_key"
  ELSE "none"

(* Mutated: an absent secret is used like any other.                       *)
SignedErrorNoSecretCheck(r) ==
  IF ~Signed(r) THEN "no_sig"
  ELSE IF r.ts = NoTs THEN "no_ts"
  ELSE IF r.ts = BadTs THEN "bad_ts"
  ELSE IF TsExpired(r) THEN "ts_expired"
  ELSE IF r.nonce = BadNonce THEN "bad_nonce"
  ELSE IF r.sig # secret THEN "bad_sig"
  ELSE "none"

SignedError(r) ==
  IF ~Signed(r) THEN "no_sig"
  ELSE IF r.ts = NoTs THEN "no_ts"
  ELSE IF r.ts = BadTs THEN "bad_ts"
  ELSE IF TsExpired(r) THEN "ts_expired"
  ELSE IF r.nonce = BadNonce THEN "bad_nonce"
  ELSE IF secret = NoKey THEN "no_secret_server"
  ELSE IF r.sig # secret THEN "bad_sig"
  ELSE "none"

AuthError(r) == IF Keyed(r) THEN KeyedError(r) ELSE SignedError(r)

----------------------------------------------------------------------------
(* The request callback, on a socket that is not waiting for a handler.    *)

Idle == [state |-> "open", status |-> 0, error |-> "none"]

CanArrive(c, r) ==
  /\ conns[c].state # "handling"
  /\ r.ts <= now + SKEW_AHEAD

Answered(c, status, error) ==
  conns' = [conns EXCEPT ![c] =
              [state |-> "answered", status |-> status, error |-> error]]

(* The handler starts; `under` is the secret of that moment.               *)
StartHandler(c, r) ==
  conns' = [conns EXCEPT ![c] =
              [state |-> "handling", req |-> r, under |-> secret]]

(* Requests that never reach a module.  parse throws on a malformed URL    *)
(* and the server's catch answers; any method but GET and HEAD is refused. *)
ArriveUnrouted(c, r) ==
  /\ CanArrive(c, r)
  /\ \/ r.ask = "too_long" /\ Answered(c, 414, "uri_too_long")
     \/ r.ask = "post" /\ Answered(c, 405, "method_not_allowed")
     \/ r.ask = "malformed" /\ Answered(c, 500, "internal")
     \/ r.ask = "bare" /\ Answered(c, 200, "none")
     \/ r.ask = "unknown" /\ Answered(c, 404, "no_such_op")
  /\ UNCHANGED <<now, secret, accepts, ringVars>>

ArrivePublic(c, r) ==
  /\ CanArrive(c, r)
  /\ r.ask = "public"
  /\ StartHandler(c, r)
  /\ UNCHANGED <<now, secret, accepts, ringVars>>

(* Mutated: the nonce is looked up before the signature is checked.        *)
ArriveRefusedBurning(c, r) ==
  /\ CanArrive(c, r)
  /\ r.ask = "protected" /\ AuthError(r) # "none"
  /\ Answered(c, 401, AuthError(r))
  /\ IF AuthError(r) = "bad_sig"
       THEN Ring!NonceSeen(r.nonce) ELSE UNCHANGED ringVars
  /\ UNCHANGED <<now, secret, accepts>>

ArriveRefused(c, r) ==
  /\ CanArrive(c, r)
  /\ r.ask = "protected" /\ AuthError(r) # "none"
  /\ Answered(c, 401, AuthError(r))
  /\ UNCHANGED <<now, secret, accepts, ringVars>>

ArriveKeyed(c, r) ==
  /\ CanArrive(c, r)
  /\ r.ask = "protected" /\ Keyed(r) /\ AuthError(r) = "none"
  /\ StartHandler(c, r)
  /\ UNCHANGED <<now, secret, accepts, ringVars>>

(* The nonce is looked up last, once the signature is known to be good.    *)
ArriveSigned(c, r) ==
  /\ CanArrive(c, r)
  /\ r.ask = "protected" /\ ~Keyed(r) /\ AuthError(r) = "none"
  /\ Ring!NonceSeen(r.nonce)
  /\ IF verdict'.seen
       THEN Answered(c, 401, "replay") /\ UNCHANGED accepts
       ELSE StartHandler(c, r) /\ accepts' = [accepts EXCEPT ![r] = @ + 1]
  /\ UNCHANGED secret

Arrive(c, r) ==
  \/ ArriveUnrouted(c, r) \/ ArrivePublic(c, r)
  \/ ArriveRefused(c, r) \/ ArriveKeyed(c, r) \/ ArriveSigned(c, r)

----------------------------------------------------------------------------
(* While a handler runs.                                                   *)

HandlerEnds(c) ==
  /\ conns[c].state = "handling"
  /\ Answered(c, 200, "none") \/ Answered(c, 500, "module_error")
  /\ UNCHANGED <<now, secret, accepts, ringVars>>

(* Mutated: the timed-out socket's slot is not reset.                      *)
SocketTimeoutUnreset(c) ==
  /\ conns[c].state \in {"handling", "answered"}
  /\ conns' = [conns EXCEPT ![c] = [state |-> "closed"]]
  /\ UNCHANGED <<now, secret, accepts, ringVars>>

(* s.setTimeout(SOCKET_TIMEOUT_MS, () => s.destroy()): the handler goes on *)
(* without a socket and its result is dropped; the slot serves the next    *)
(* connection.  The timer is one of inactivity, which the client's bytes   *)
(* reset: it may fire at any time, or never while the client goes on.      *)
SocketTimeout(c) ==
  /\ conns[c].state \in {"handling", "answered"}
  /\ conns' = [conns EXCEPT ![c] = Idle]
  /\ UNCHANGED <<now, secret, accepts, ringVars>>

SecretChanges ==
  /\ secret' \in Keys \cup {NoKey}
  /\ UNCHANGED <<now, conns, accepts, ringVars>>

Restart ==
  /\ Ring!Restart
  /\ conns' = [c \in Conns |-> Idle]
  /\ accepts' = [r \in Requests |-> 0]
  /\ UNCHANGED secret

Tick ==
  /\ Ring!Tick
  /\ UNCHANGED <<secret, conns, accepts>>

Init ==
  /\ Ring!Init
  /\ secret = NoKey
  /\ conns = [c \in Conns |-> Idle]
  /\ accepts = [r \in Requests |-> 0]

Next ==
  \/ Tick \/ SecretChanges \/ Restart
  \/ \E c \in Conns : HandlerEnds(c) \/ SocketTimeout(c)
  \/ \E c \in Conns, r \in Requests : Arrive(c, r)

(* No fairness: handlers need not return, and sockets need not time out.   *)
Spec == Init /\ [][Next]_vars

----------------------------------------------------------------------------

ConnType ==
  [state : {"open", "answered"}, status : {0, 200, 401, 404, 405, 414, 500},
   error : {"none", "uri_too_long", "method_not_allowed", "internal",
            "no_such_op", "module_error", "key_param_disabled",
            "no_secret_server", "bad_key", "no_sig", "no_ts", "bad_ts",
            "ts_expired", "bad_nonce", "bad_sig", "replay"}]
  \cup [state : {"handling"}, req : Requests, under : Keys \cup {NoKey}]

TypeOK ==
  /\ Ring!TypeOK
  /\ secret \in Keys \cup {NoKey}
  /\ conns \in [Conns -> ConnType]
  /\ accepts \in [Requests -> Nat]

(* "nonce (single-use, stored until window expiry)" (SPEC.md 156; kernel   *)
(* 72-74): one process authenticates a signed request at most once, in     *)
(* whatever order copies of it arrive, time passes, the door-key changes,  *)
(* other requests fill the nonce memory, and sockets time out and clients  *)
(* try again.                                                              *)
SignedAtMostOnce ==
  \A r \in Requests : Signed(r) => accepts[r] <= 1

(* I1, "auth before handle, unbypassable": whenever a protected handler    *)
(* runs, the request it runs for carried the door-key of the moment it was *)
(* let in, and there was one.                                              *)
ProtectedRunsAuthenticated ==
  \A c \in Conns :
    conns[c].state = "handling" /\ conns[c].req.ask = "protected" =>
      /\ conns[c].under # NoKey
      /\ \/ conns[c].req.sig = conns[c].under
         \/ Keyed(conns[c].req) /\ conns[c].req.key = conns[c].under

(* "nonce check is LAST (after sig)" (kernel.mjs 783): the memory takes a  *)
(* nonce only for the very request that starts to run in that step; no     *)
(* refused request costs another client its nonce.                         *)
NonceTakenOnlyByAccepted ==
  [][\A n \in Nonces : taken'[n] # taken[n] /\ taken'[n] # Ring!Never =>
       \E c \in Conns :
         /\ conns[c].state # "handling" /\ conns'[c].state = "handling"
         /\ conns'[c].req.nonce = n /\ conns'[c].req.sig = secret]_vars

(* A valid signed request is turned away as a replay only because its      *)
(* nonce was accepted within the retention period, or because the memory   *)
(* is full of nonces that were.                                            *)
Held == {n \in Nonces : taken[n] # Ring!Never
                        /\ now <= taken[n] + NONCE_TTL_SEC}

ReplayRefusedForReason ==
  [][\A c \in Conns, r \in Requests :
       ArriveSigned(c, r) /\ verdict'.seen
         => r.nonce \in Held \/ Cardinality(Held) >= NONCE_MAX]_vars
============================================================================
