--------------------------- MODULE GatewayProofs ---------------------------
(***************************************************************************)
(* Proofs about Gateway, for any requests, keys, nonces and sockets.  The  *)
(* gateway implements the nonce memory it contains, so that what is proved *)
(* of NonceRing holds of it.                                               *)
(***************************************************************************)
EXTENDS Gateway, TLAPS

Memory == INSTANCE NonceRingProofs WITH CLOCK_STEPS_BACK <- FALSE

LEMMA MemoryAssumption == Memory!NonceAssumption
BY GatewayAssumption DEF Memory!NonceAssumption

(* Ring and Memory name the same definitions.                              *)
LEMMA SameInit == Ring!Init <=> Memory!Init
BY DEF Ring!Init, Memory!Init, Ring!Empty, Memory!Empty, Ring!Never, Memory!Never

LEMMA SameTick == Ring!Tick <=> Memory!Tick
BY DEF Ring!Tick, Memory!Tick

LEMMA SameRestart == Ring!Restart <=> Memory!Restart
BY DEF Ring!Restart, Memory!Restart, Ring!Empty, Memory!Empty, Ring!Never, Memory!Never

LEMMA SameLive == \A e : Ring!Live(e) <=> Memory!Live(e)
BY DEF Ring!Live, Memory!Live

LEMMA SameIsLive == \A n : Ring!IsLive(n) <=> Memory!IsLive(n)
BY SameLive DEF Ring!IsLive, Memory!IsLive

LEMMA SameCleaned == \A n : Ring!Cleaned(n) = Memory!Cleaned(n)
<1>1. \A m, S : Ring!Without(m, S) = Memory!Without(m, S)
  BY DEF Ring!Without, Memory!Without
<1>2. \A m : Ring!ExpiredHead(m) = Memory!ExpiredHead(m)
  BY SameLive DEF Ring!ExpiredHead, Memory!ExpiredHead
<1> QED  BY <1>1, <1>2 DEF Ring!Cleaned, Memory!Cleaned, Ring!Swept, Memory!Swept

LEMMA SameOverCapacity == \A m : Ring!OverCapacity(m) <=> Memory!OverCapacity(m)
<1>1. \A m, k : Ring!IsOldest(m, k) <=> Memory!IsOldest(m, k)
  BY DEF Ring!IsOldest, Memory!IsOldest
<1>2. ASSUME NEW m
      PROVE  (\E k \in DOMAIN m : Ring!IsOldest(m, k) /\ Ring!Live(m[k]))
               <=> (\E k \in DOMAIN m : Memory!IsOldest(m, k) /\ Memory!Live(m[k]))
  BY <1>1, SameLive
<1>3. ASSUME NEW S  PROVE Ring!Cardinality(S) = Memory!Cardinality(S)
  BY DEF Ring!Cardinality, Memory!Cardinality
<1> QED  BY <1>2, <1>3 DEF Ring!OverCapacity, Memory!OverCapacity

LEMMA SameSeen == \A n : Ring!NonceSeen(n) <=> Memory!NonceSeen(n)
<1>1. \A m, n : Ring!Inserted(m, n) = Memory!Inserted(m, n)
  BY DEF Ring!Inserted, Memory!Inserted
<1>2. \A n, s : Ring!Answer(n, s) <=> Memory!Answer(n, s)
  BY DEF Ring!Answer, Memory!Answer
<1>3. \A n : Ring!Replay(n) <=> Memory!Replay(n)
  BY <1>2, SameIsLive DEF Ring!Replay, Memory!Replay
<1>4. \A n : Ring!Refuse(n) <=> Memory!Refuse(n)
  BY <1>2, SameIsLive, SameCleaned, SameOverCapacity DEF Ring!Refuse, Memory!Refuse
<1>5. \A n : Ring!Remember(n) <=> Memory!Remember(n)
  BY <1>1, <1>2, SameIsLive, SameCleaned, SameOverCapacity DEF Ring!Remember, Memory!Remember
<1> QED  BY <1>3, <1>4, <1>5 DEF Ring!NonceSeen, Memory!NonceSeen

(* What a signed request passed authenticate with.                         *)
LEMMA AuthPassed ==
  ASSUME NEW r \in Requests, ~Keyed(r), AuthError(r) = "none"
  PROVE  /\ Signed(r) /\ r.ts \in Nat /\ ~TsExpired(r) /\ r.nonce \in Nonces
         /\ secret # NoKey /\ r.sig = secret
<1>1. r \in RequestType
  BY GatewayAssumption
<1>2. SignedError(r) = "none"
  BY DEF AuthError
<1>3. Signed(r)
  BY <1>2 DEF SignedError
<1>4. r.ts # NoTs
  BY <1>2, <1>3 DEF SignedError
<1>5. r.ts # BadTs
  BY <1>2, <1>3, <1>4 DEF SignedError
<1>6. ~TsExpired(r)
  BY <1>2, <1>3, <1>4, <1>5 DEF SignedError
<1>7. r.nonce # BadNonce
  BY <1>2, <1>3, <1>4, <1>5, <1>6 DEF SignedError
<1>8. secret # NoKey
  BY <1>2, <1>3, <1>4, <1>5, <1>6, <1>7 DEF SignedError
<1>9. r.sig = secret
  BY <1>2, <1>3, <1>4, <1>5, <1>6, <1>7, <1>8 DEF SignedError
<1> QED  BY <1>1, <1>3, <1>4, <1>5, <1>6, <1>7, <1>8, <1>9 DEF RequestType

----------------------------------------------------------------------------
(* The gateway's steps on the nonce memory.                                *)

(* Every step of the gateway is one of the memory or leaves it alone.      *)
THEOREM GatewayUsesRing == Spec => Memory!Spec
<1>1. Init => Memory!Init
  BY SameInit DEF Init
<1>2. [Next]_vars => [Memory!Next]_(Memory!vars)
  <2> SUFFICES ASSUME [Next]_vars  PROVE [Memory!Next]_(Memory!vars)
    OBVIOUS
  <2>1. CASE Tick
    BY <2>1, SameTick DEF Tick, Memory!Next
  <2>2. CASE Restart
    BY <2>2, SameRestart DEF Restart, Memory!Next
  <2>3. ASSUME NEW c \in Conns, NEW r \in Requests, ArriveSigned(c, r)
        PROVE  Memory!Next
    <3>1. r.nonce \in Nonces
      BY <2>3, AuthPassed DEF ArriveSigned
    <3> QED  BY <2>3, <3>1, SameSeen DEF ArriveSigned, Memory!Next
  <2>4. ASSUME NEW c \in Conns, NEW r \in Requests,
               ArriveUnrouted(c, r) \/ ArrivePublic(c, r) \/ ArriveRefused(c, r) \/ ArriveKeyed(c, r)
        PROVE  UNCHANGED Memory!vars
    BY <2>4 DEF ArriveUnrouted, ArrivePublic, ArriveRefused, ArriveKeyed, ringVars, Memory!vars
  <2>5. ASSUME NEW c \in Conns, HandlerEnds(c) \/ SocketTimeout(c)
        PROVE  UNCHANGED Memory!vars
    BY <2>5 DEF HandlerEnds, SocketTimeout, ringVars, Memory!vars
  <2>6. CASE SecretChanges \/ UNCHANGED vars
    BY <2>6 DEF SecretChanges, vars, ringVars, Memory!vars
  <2> QED  BY <2>1, <2>2, <2>3, <2>4, <2>5, <2>6 DEF Next, Arrive
<1> QED  BY <1>1, <1>2, PTL DEF Spec, Memory!Spec

(* What is proved of the nonce memory holds of the gateway's.              *)
LEMMA GatewayRemembers ==
  Spec => [](Memory!TypeOK /\ Memory!LiveNoncesRemembered)
<1>1. Memory!Spec => []Memory!TypeOK
  BY MemoryAssumption, Memory!TypeCorrect
<1>2. Memory!Spec => []Memory!LiveNoncesRemembered
  BY MemoryAssumption, Memory!LiveAlwaysRemembered
<1> QED  BY <1>1, <1>2, GatewayUsesRing, PTL

----------------------------------------------------------------------------
(* Single use.                                                             *)

(* How far the timestamp of a request let in may be ahead: no more than    *)
(* the clients' clocks are, and no more than the window.                   *)
Ahead == IF SKEW_AHEAD <= TS_WINDOW_SEC THEN SKEW_AHEAD ELSE TS_WINDOW_SEC

(* For every request let in: its nonce was taken, and not long before its  *)
(* timestamp.                                                              *)
AcceptInv ==
  /\ monotone
  /\ accepts \in [Requests -> Nat]
  /\ \A n \in Nonces : taken[n] <= now
  /\ \A r \in Requests :
       accepts[r] # 0 =>
         /\ accepts[r] = 1
         /\ r.nonce \in Nonces /\ taken[r.nonce] # Memory!Never
         /\ r.ts \in Nat /\ r.ts <= taken[r.nonce] + Ahead

(* What a call of the memory does.                                         *)
LEMMA MemoryCall ==
  ASSUME NEW n \in Nonces, Ring!NonceSeen(n), Memory!TypeOK
  PROVE  /\ now' = now /\ monotone' = monotone /\ verdict'.seen \in BOOLEAN
         /\ verdict'.seen => taken' = taken
         /\ ~verdict'.seen => taken' = [taken EXCEPT ![n] = now] /\ ~Memory!IsLive(n)
<1>1. Memory!NonceSeen(n)
  BY SameSeen
<1>2. CASE Memory!Replay(n)
  BY <1>2 DEF Memory!Replay, Memory!Answer
<1>3. CASE Memory!Refuse(n)
  BY <1>3 DEF Memory!Refuse, Memory!Answer
<1>4. CASE Memory!Remember(n)
  BY <1>4 DEF Memory!Remember, Memory!Answer
<1> QED  BY <1>1, <1>2, <1>3, <1>4 DEF Memory!NonceSeen

(* The retention that single use needs: the window behind, and what a      *)
(* timestamp may be ahead.                                                 *)
RetentionSuffices == NONCE_TTL_SEC >= TS_WINDOW_SEC + Ahead

(* A request whose nonce was taken long enough ago to be forgotten is out  *)
(* of the window.                                                          *)
LEMMA ForgottenIsOutOfWindow ==
  ASSUME RetentionSuffices, Memory!TypeOK, Memory!LiveNoncesRemembered, AcceptInv,
         NEW r \in Requests, accepts[r] # 0, ~TsExpired(r)
  PROVE  Memory!IsLive(r.nonce)
<1> DEFINE t == taken[r.nonce]
<1>1. /\ r.nonce \in Nonces /\ t # Memory!Never /\ r.ts \in Nat /\ r.ts <= t + Ahead
      /\ t \in Nat /\ now \in Nat
  BY DEF AcceptInv, Memory!TypeOK
<1>2. /\ NONCE_TTL_SEC \in Nat /\ TS_WINDOW_SEC \in Nat /\ Ahead \in Nat
      /\ NONCE_TTL_SEC >= TS_WINDOW_SEC + Ahead
  BY GatewayAssumption DEF RetentionSuffices, Ahead
<1>3. now <= r.ts + TS_WINDOW_SEC
  BY <1>1, <1>2 DEF TsExpired, Distance
<1> HIDE DEF t
<1>4. now <= t + NONCE_TTL_SEC
  BY <1>1, <1>2, <1>3
<1>5. r.nonce \in DOMAIN nonces /\ nonces[r.nonce].exp = t + NONCE_TTL_SEC
  BY <1>1, <1>4 DEF Memory!LiveNoncesRemembered, AcceptInv, t
<1> QED  BY <1>4, <1>5 DEF Memory!IsLive, Memory!Live

LEMMA AcceptStep ==
  ASSUME RetentionSuffices, Memory!TypeOK, Memory!LiveNoncesRemembered, AcceptInv, [Next]_vars
  PROVE  AcceptInv'
<1>1. now \in Nat /\ taken \in [Nonces -> Nat \cup {-1}] /\ Ahead \in Nat
  BY GatewayAssumption DEF Memory!TypeOK, Memory!Never, Ahead
<1>2. CASE Tick
  <2>1. now' = now + 1 /\ UNCHANGED <<monotone, taken, accepts>>
    BY <1>2 DEF Tick, Ring!Tick
  <2> QED  BY <1>1, <2>1 DEF AcceptInv
<1>3. CASE Restart
  <2>1. /\ now' = now /\ monotone' = TRUE /\ taken' = [n \in Nonces |-> -1]
        /\ accepts' = [r \in Requests |-> 0]
    BY <1>3 DEF Restart, Ring!Restart, Ring!Never
  <2> QED  BY <1>1, <2>1 DEF AcceptInv
<1>4. ASSUME NEW c \in Conns, NEW r \in Requests, ArriveSigned(c, r)
      PROVE  AcceptInv'
  <2>1. /\ Ring!NonceSeen(r.nonce) /\ r.nonce \in Nonces /\ r.ts \in Nat /\ ~TsExpired(r)
        /\ r.ts <= now + Ahead
        /\ IF verdict'.seen THEN UNCHANGED accepts
                            ELSE accepts' = [accepts EXCEPT ![r] = accepts[r] + 1]
    <3>1. /\ Ring!NonceSeen(r.nonce) /\ r.nonce \in Nonces /\ r.ts \in Nat /\ ~TsExpired(r)
          /\ r.ts <= now + SKEW_AHEAD
          /\ IF verdict'.seen THEN UNCHANGED accepts
                              ELSE accepts' = [accepts EXCEPT ![r] = accepts[r] + 1]
      BY <1>4, AuthPassed DEF ArriveSigned, CanArrive
    <3>2. r.ts <= now + TS_WINDOW_SEC
      BY <1>1, <3>1, GatewayAssumption DEF TsExpired, Distance
    <3>3. r.ts <= now + Ahead
      BY <3>1, <3>2 DEF Ahead
    <3> QED  BY <3>1, <3>3
  <2>2. /\ now' = now /\ monotone' = monotone /\ verdict'.seen \in BOOLEAN
        /\ verdict'.seen => taken' = taken
        /\ ~verdict'.seen => taken' = [taken EXCEPT ![r.nonce] = now] /\ ~Memory!IsLive(r.nonce)
    BY <2>1, MemoryCall
  <2>3. CASE verdict'.seen
    <3>1. taken' = taken /\ accepts' = accepts
      BY <2>1, <2>2, <2>3
    <3> QED  BY <2>2, <3>1 DEF AcceptInv
  <2>4. CASE ~verdict'.seen
    <3>1. /\ taken' = [taken EXCEPT ![r.nonce] = now]
          /\ accepts' = [accepts EXCEPT ![r] = accepts[r] + 1]
      BY <2>1, <2>2, <2>4
    <3>2. accepts[r] = 0
      BY <2>1, <2>2, <2>4, ForgottenIsOutOfWindow
    <3>3. /\ taken'[r.nonce] = now /\ \A n \in Nonces \ {r.nonce} : taken'[n] = taken[n]
          /\ accepts'[r] = 1 /\ \A q \in Requests \ {r} : accepts'[q] = accepts[q]
          /\ accepts' \in [Requests -> Nat]
      BY <1>1, <2>1, <3>1, <3>2 DEF AcceptInv
    <3>4. \A n \in Nonces : taken'[n] <= now /\ taken[n] <= taken'[n]
      BY <1>1, <3>3 DEF AcceptInv
    <3>5. ASSUME NEW q \in Requests, accepts'[q] # 0
          PROVE  /\ accepts'[q] = 1 /\ q.nonce \in Nonces /\ taken'[q.nonce] # Memory!Never
                 /\ q.ts \in Nat /\ q.ts <= taken'[q.nonce] + Ahead
      <4>1. CASE q = r
        BY <1>1, <2>1, <3>3, <4>1 DEF Memory!Never
      <4>2. CASE q # r
        <5>1. /\ accepts'[q] = 1 /\ q.nonce \in Nonces /\ taken[q.nonce] # Memory!Never
              /\ q.ts \in Nat /\ q.ts <= taken[q.nonce] + Ahead
          BY <3>3, <3>5, <4>2 DEF AcceptInv
        <5>2. taken[q.nonce] \in Nat /\ taken'[q.nonce] \in Nat /\ taken[q.nonce] <= taken'[q.nonce]
          BY <1>1, <3>3, <3>4, <5>1 DEF Memory!Never
        <5> QED  BY <1>1, <5>1, <5>2 DEF Memory!Never
      <4> QED  BY <4>1, <4>2
    <3> QED  BY <2>2, <3>3, <3>4, <3>5 DEF AcceptInv
  <2> QED  BY <2>3, <2>4
<1>5. ASSUME NEW c \in Conns, NEW r \in Requests,
             ArriveUnrouted(c, r) \/ ArrivePublic(c, r) \/ ArriveRefused(c, r) \/ ArriveKeyed(c, r)
      PROVE  UNCHANGED <<now, monotone, taken, accepts>>
  BY <1>5 DEF ArriveUnrouted, ArrivePublic, ArriveRefused, ArriveKeyed, ringVars
<1>6. ASSUME NEW c \in Conns, HandlerEnds(c) \/ SocketTimeout(c)
      PROVE  UNCHANGED <<now, monotone, taken, accepts>>
  BY <1>6 DEF HandlerEnds, SocketTimeout, ringVars
<1>7. CASE SecretChanges \/ UNCHANGED vars
  BY <1>7 DEF SecretChanges, vars, ringVars, AcceptInv
<1>8. ASSUME UNCHANGED <<now, monotone, taken, accepts>>  PROVE AcceptInv'
  BY <1>8 DEF AcceptInv
<1> QED  BY <1>2, <1>3, <1>4, <1>5, <1>6, <1>7, <1>8 DEF Next, Arrive

(* Where the retention covers the window behind and what a timestamp may   *)
(* be ahead, a signed request is let in once, however copies of it, ticks, *)
(* other requests, refusals of a full memory and timeouts interleave.      *)
THEOREM RetainedLongEnoughIsSingleUse ==
  RetentionSuffices => (Spec => []SignedAtMostOnce)
<1> SUFFICES ASSUME RetentionSuffices  PROVE Spec => []SignedAtMostOnce
  OBVIOUS
<1>1. Init => AcceptInv
  BY DEF Init, Ring!Init, Ring!Never, AcceptInv
<1>2. Memory!TypeOK /\ Memory!LiveNoncesRemembered /\ AcceptInv /\ [Next]_vars => AcceptInv'
  BY AcceptStep
<1>3. AcceptInv => SignedAtMostOnce
  BY DEF AcceptInv, SignedAtMostOnce
<1> QED  BY <1>1, <1>2, <1>3, GatewayRemembers, PTL DEF Spec

(* A retention of twice the window is enough for clocks ahead by any       *)
(* amount.                                                                 *)
THEOREM TwiceTheWindowIsEnough ==
  NONCE_TTL_SEC >= 2 * TS_WINDOW_SEC => (Spec => []SignedAtMostOnce)
<1>1. NONCE_TTL_SEC >= 2 * TS_WINDOW_SEC => RetentionSuffices
  BY GatewayAssumption DEF RetentionSuffices, Ahead
<1> QED  BY <1>1, RetainedLongEnoughIsSingleUse

----------------------------------------------------------------------------
(* The sockets.                                                            *)

Statuses == {0, 200, 401, 404, 405, 414, 500}
Errors == {"none", "uri_too_long", "method_not_allowed", "internal",
           "no_such_op", "module_error", "key_param_disabled",
           "no_secret_server", "bad_key", "no_sig", "no_ts", "bad_ts",
           "ts_expired", "bad_nonce", "bad_sig", "replay"}

SocketsOK ==
  /\ secret \in Keys \cup {NoKey}
  /\ conns \in [Conns -> ConnType]
  /\ accepts \in [Requests -> Nat]

(* A handler runs for a request that carried the key of its arrival, or is *)
(* not protected.                                                          *)
Allowed(r, key) ==
  r.ask = "protected" =>
    /\ key # NoKey
    /\ r.sig = key \/ (Keyed(r) /\ r.key = key)

LEMMA ErrorsNamed == ASSUME NEW r  PROVE AuthError(r) \in Errors
<1>1. KeyedError(r) \in Errors
  BY DEF KeyedError, Errors
<1>2. SignedError(r) \in Errors
  BY DEF SignedError, Errors
<1> QED  BY <1>1, <1>2 DEF AuthError

(* What becomes of a socket.                                               *)
LEMMA AnsweredSocket ==
  ASSUME SocketsOK, ProtectedRunsAuthenticated, NEW c \in Conns,
         NEW status \in Statuses, NEW error \in Errors, Answered(c, status, error)
  PROVE  conns' \in [Conns -> ConnType] /\ ProtectedRunsAuthenticated'
<1> DEFINE a == [state |-> "answered", status |-> status, error |-> error]
<1>1. a \in ConnType /\ a.state = "answered"
  BY DEF ConnType, Statuses, Errors
<1>2. conns' = [conns EXCEPT ![c] = a]
  BY DEF Answered
<1> HIDE DEF a
<1> QED  BY <1>1, <1>2 DEF SocketsOK, ProtectedRunsAuthenticated, Keyed, Signed

LEMMA IdleSocket == Idle \in ConnType /\ Idle.state = "open"
BY DEF Idle, ConnType

LEMMA TimedOutSocket ==
  ASSUME SocketsOK, ProtectedRunsAuthenticated, NEW c \in Conns,
         conns' = [conns EXCEPT ![c] = Idle]
  PROVE  conns' \in [Conns -> ConnType] /\ ProtectedRunsAuthenticated'
BY IdleSocket DEF SocketsOK, ProtectedRunsAuthenticated, Keyed, Signed

LEMMA StartedSocket ==
  ASSUME SocketsOK, ProtectedRunsAuthenticated, NEW c \in Conns, NEW r \in Requests,
         StartHandler(c, r), Allowed(r, secret)
  PROVE  /\ conns' \in [Conns -> ConnType] /\ ProtectedRunsAuthenticated'
         /\ conns'[c].state = "handling" /\ conns'[c].req = r
<1> DEFINE h == [state |-> "handling", req |-> r, under |-> secret]
<1>1. h \in ConnType /\ h.state = "handling" /\ h.req = r /\ h.under = secret
  BY DEF ConnType, SocketsOK
<1>2. conns' = [conns EXCEPT ![c] = h]
  BY DEF StartHandler
<1> HIDE DEF h
<1>3. conns' \in [Conns -> ConnType] /\ conns'[c] = h /\ \A d \in Conns \ {c} : conns'[d] = conns[d]
  BY <1>1, <1>2 DEF SocketsOK
<1>4. ASSUME NEW d \in Conns, conns'[d].state = "handling"
      PROVE  Allowed(conns'[d].req, conns'[d].under)
  <2>1. CASE d = c
    BY <1>1, <1>3, <2>1
  <2>2. CASE d # c
    BY <1>3, <1>4, <2>2 DEF ProtectedRunsAuthenticated, Allowed
  <2> QED  BY <2>1, <2>2
<1>5. ProtectedRunsAuthenticated'
  BY <1>4 DEF ProtectedRunsAuthenticated, Allowed, Keyed, Signed
<1> QED  BY <1>1, <1>3, <1>5

LEMMA SocketsStep ==
  ASSUME SocketsOK, ProtectedRunsAuthenticated, [Next]_vars
  PROVE  SocketsOK' /\ ProtectedRunsAuthenticated'
<1>1. /\ {200, 401, 404, 405, 414, 500} \subseteq Statuses
      /\ {"none", "uri_too_long", "method_not_allowed", "internal", "no_such_op",
          "module_error", "replay"} \subseteq Errors
  BY DEF Statuses, Errors
<1>2. ASSUME NEW c \in Conns, NEW r \in Requests, ArriveUnrouted(c, r)
      PROVE  SocketsOK' /\ ProtectedRunsAuthenticated'
  <2>1. /\ secret' = secret /\ accepts' = accepts
        /\ \E status \in Statuses, error \in Errors : Answered(c, status, error)
    BY <1>1, <1>2 DEF ArriveUnrouted
  <2> QED  BY <2>1, AnsweredSocket DEF SocketsOK
<1>3. ASSUME NEW c \in Conns, NEW r \in Requests, ArrivePublic(c, r)
      PROVE  SocketsOK' /\ ProtectedRunsAuthenticated'
  <2>1. secret' = secret /\ accepts' = accepts /\ StartHandler(c, r) /\ Allowed(r, secret)
    BY <1>3 DEF ArrivePublic, Allowed
  <2> QED  BY <2>1, StartedSocket DEF SocketsOK
<1>4. ASSUME NEW c \in Conns, NEW r \in Requests, ArriveRefused(c, r)
      PROVE  SocketsOK' /\ ProtectedRunsAuthenticated'
  <2>1. secret' = secret /\ accepts' = accepts /\ Answered(c, 401, AuthError(r))
    BY <1>4 DEF ArriveRefused
  <2> QED  BY <1>1, <2>1, ErrorsNamed, AnsweredSocket DEF SocketsOK
<1>5. ASSUME NEW c \in Conns, NEW r \in Requests, ArriveKeyed(c, r)
      PROVE  SocketsOK' /\ ProtectedRunsAuthenticated'
  <2>1. /\ secret' = secret /\ accepts' = accepts /\ StartHandler(c, r)
        /\ Keyed(r) /\ KeyedError(r) = "none"
    BY <1>5 DEF ArriveKeyed, AuthError
  <2>2. secret # NoKey /\ r.key = secret
    BY <2>1 DEF KeyedError
  <2> QED  BY <2>1, <2>2, StartedSocket DEF SocketsOK, Allowed
<1>6. ASSUME NEW c \in Conns, NEW r \in Requests, ArriveSigned(c, r)
      PROVE  SocketsOK' /\ ProtectedRunsAuthenticated'
  <2>1. secret # NoKey /\ r.sig = secret /\ secret' = secret
    BY <1>6, AuthPassed DEF ArriveSigned
  <2>2. CASE verdict'.seen
    <3>1. Answered(c, 401, "replay") /\ accepts' = accepts
      BY <1>6, <2>2 DEF ArriveSigned
    <3> QED  BY <1>1, <2>1, <3>1, AnsweredSocket DEF SocketsOK
  <2>3. CASE ~verdict'.seen
    <3>1. StartHandler(c, r) /\ accepts' = [accepts EXCEPT ![r] = accepts[r] + 1]
      BY <1>6, <2>3 DEF ArriveSigned
    <3>2. accepts' \in [Requests -> Nat]
      BY <3>1 DEF SocketsOK
    <3> QED  BY <2>1, <3>1, <3>2, StartedSocket DEF SocketsOK, Allowed
  <2> QED  BY <2>2, <2>3
<1>7. ASSUME NEW c \in Conns, HandlerEnds(c)
      PROVE  SocketsOK' /\ ProtectedRunsAuthenticated'
  <2>1. /\ secret' = secret /\ accepts' = accepts
        /\ Answered(c, 200, "none") \/ Answered(c, 500, "module_error")
    BY <1>7 DEF HandlerEnds
  <2> QED  BY <1>1, <2>1, AnsweredSocket DEF SocketsOK
<1>8. ASSUME NEW c \in Conns, SocketTimeout(c)
      PROVE  SocketsOK' /\ ProtectedRunsAuthenticated'
  BY <1>8, TimedOutSocket DEF SocketTimeout, SocketsOK
<1>9. CASE SecretChanges \/ Tick \/ UNCHANGED vars
  <2>1. conns' = conns /\ accepts' = accepts /\ secret' \in Keys \cup {NoKey}
    BY <1>9 DEF SecretChanges, Tick, vars, SocketsOK
  <2> QED  BY <2>1 DEF SocketsOK, ProtectedRunsAuthenticated, Keyed, Signed
<1>10. CASE Restart
  <2>1. /\ conns' = [c \in Conns |-> Idle] /\ accepts' = [r \in Requests |-> 0]
        /\ secret' = secret
    BY <1>10 DEF Restart
  <2> QED  BY <2>1, IdleSocket DEF SocketsOK, ProtectedRunsAuthenticated
<1> QED  BY <1>2, <1>3, <1>4, <1>5, <1>6, <1>7, <1>8, <1>9, <1>10 DEF Next, Arrive

LEMMA SocketsAlways == Spec => [](SocketsOK /\ ProtectedRunsAuthenticated)
<1>1. Init => SocketsOK /\ ProtectedRunsAuthenticated
  BY IdleSocket DEF Init, SocketsOK, ProtectedRunsAuthenticated
<1>2. (SocketsOK /\ ProtectedRunsAuthenticated) /\ [Next]_vars
        => (SocketsOK /\ ProtectedRunsAuthenticated)'
  BY SocketsStep
<1> QED  BY <1>1, <1>2, PTL DEF Spec

(* The gateway and its nonce memory keep their types.                      *)
THEOREM GatewayTypeCorrect == Spec => []TypeOK
<1>1. Memory!TypeOK => Ring!TypeOK
  <2>1. ASSUME NEW S  PROVE Ring!IsFiniteSet(S) <=> Memory!IsFiniteSet(S)
    BY DEF Ring!IsFiniteSet, Memory!IsFiniteSet
  <2> QED  BY <2>1 DEF Memory!TypeOK, Ring!TypeOK, Memory!Never, Ring!Never
<1>2. Memory!TypeOK /\ SocketsOK => TypeOK
  BY <1>1 DEF TypeOK, SocketsOK
<1> QED  BY <1>2, GatewayRemembers, SocketsAlways, PTL

(* I1: no protected handler ever runs for a request that did not carry the *)
(* door-key of its arrival, nor while there was none.                      *)
THEOREM AuthBeforeHandle == Spec => []ProtectedRunsAuthenticated
BY SocketsAlways, PTL

(* No refused request costs anyone a nonce.                                *)
THEOREM NoNonceBurnt == Spec => NonceTakenOnlyByAccepted
<1>1. ASSUME SocketsOK, ProtectedRunsAuthenticated, Memory!TypeOK, [Next]_vars,
             NEW n \in Nonces, taken'[n] # taken[n], taken'[n] # Ring!Never
      PROVE  \E c \in Conns :
               /\ conns[c].state # "handling" /\ conns'[c].state = "handling"
               /\ conns'[c].req.nonce = n /\ conns'[c].req.sig = secret
  <2>1. CASE Restart
    <3>1. taken'[n] = Ring!Never
      BY <2>1 DEF Restart, Ring!Restart
    <3> QED  BY <1>1, <3>1
  <2>2. ASSUME NEW c \in Conns, NEW r \in Requests, ArriveSigned(c, r)
        PROVE  /\ conns[c].state # "handling" /\ conns'[c].state = "handling"
               /\ conns'[c].req.nonce = n /\ conns'[c].req.sig = secret
    <3>1. /\ Ring!NonceSeen(r.nonce) /\ r.nonce \in Nonces /\ secret # NoKey /\ r.sig = secret
          /\ conns[c].state # "handling"
      BY <2>2, AuthPassed DEF ArriveSigned, CanArrive
    <3>2. ~verdict'.seen /\ taken' = [taken EXCEPT ![r.nonce] = now]
      BY <1>1, <3>1, MemoryCall
    <3>3. n = r.nonce
      BY <1>1, <3>2 DEF Memory!TypeOK
    <3>4. StartHandler(c, r)
      BY <2>2, <3>2 DEF ArriveSigned
    <3>5. conns'[c].state = "handling" /\ conns'[c].req = r
      BY <1>1, <3>1, <3>4, StartedSocket DEF Allowed
    <3> QED  BY <3>1, <3>3, <3>5
  <2>3. ASSUME NEW c \in Conns, NEW r \in Requests,
               ArriveUnrouted(c, r) \/ ArrivePublic(c, r) \/ ArriveRefused(c, r) \/ ArriveKeyed(c, r)
        PROVE  taken' = taken
    BY <2>3 DEF ArriveUnrouted, ArrivePublic, ArriveRefused, ArriveKeyed, ringVars
  <2>4. ASSUME NEW c \in Conns, HandlerEnds(c) \/ SocketTimeout(c)
        PROVE  taken' = taken
    BY <2>4 DEF HandlerEnds, SocketTimeout, ringVars
  <2>5. CASE Tick \/ SecretChanges \/ UNCHANGED vars
    BY <1>1, <2>5 DEF Tick, Ring!Tick, SecretChanges, vars, ringVars
  <2> QED  BY <1>1, <2>1, <2>2, <2>3, <2>4, <2>5 DEF Next, Arrive
<1>2. (SocketsOK /\ ProtectedRunsAuthenticated) /\ Memory!TypeOK /\ [Next]_vars =>
        [\A n \in Nonces : taken'[n] # taken[n] /\ taken'[n] # Ring!Never =>
           \E c \in Conns :
             /\ conns[c].state # "handling" /\ conns'[c].state = "handling"
             /\ conns'[c].req.nonce = n /\ conns'[c].req.sig = secret]_vars
  BY <1>1
<1> QED  BY <1>2, GatewayRemembers, SocketsAlways, PTL DEF Spec, NonceTakenOnlyByAccepted

----------------------------------------------------------------------------
(* Refusals.                                                               *)

(* The gateway's clock is not set back.                                    *)
LEMMA ClockRunsForward == Spec => []monotone
<1>1. Init => monotone
  BY DEF Init, Ring!Init
<1>2. Memory!TypeOK /\ monotone /\ [Next]_vars => monotone'
  <2> SUFFICES ASSUME Memory!TypeOK, monotone, [Next]_vars  PROVE monotone'
    OBVIOUS
  <2>1. ASSUME NEW c \in Conns, NEW r \in Requests, ArriveSigned(c, r)
        PROVE  monotone'
    <3>1. Ring!NonceSeen(r.nonce) /\ r.nonce \in Nonces
      BY <2>1, AuthPassed DEF ArriveSigned
    <3> QED  BY <3>1, MemoryCall
  <2>2. ASSUME NEW c \in Conns, NEW r \in Requests,
               ArriveUnrouted(c, r) \/ ArrivePublic(c, r) \/ ArriveRefused(c, r) \/ ArriveKeyed(c, r)
        PROVE  monotone'
    BY <2>2 DEF ArriveUnrouted, ArrivePublic, ArriveRefused, ArriveKeyed, ringVars
  <2>3. ASSUME NEW c \in Conns, HandlerEnds(c) \/ SocketTimeout(c)
        PROVE  monotone'
    BY <2>3 DEF HandlerEnds, SocketTimeout, ringVars
  <2>4. CASE Tick \/ Restart \/ SecretChanges \/ UNCHANGED vars
    BY <2>4 DEF Tick, Ring!Tick, Restart, Ring!Restart, SecretChanges, vars, ringVars
  <2> QED  BY <2>1, <2>2, <2>3, <2>4 DEF Next, Arrive
<1> QED  BY <1>1, <1>2, GatewayRemembers, PTL DEF Spec

LEMMA GatewayKeepsOrder == Spec => [](Memory!Ordered /\ Memory!EntriesAreTaken)
<1>1. Memory!Spec => []Memory!Ordered
  BY MemoryAssumption, Memory!OldestExpiresFirst
<1>2. Memory!Spec => []Memory!EntriesAreTaken
  BY MemoryAssumption, Memory!EntriesAlwaysTaken
<1> QED  BY <1>1, <1>2, GatewayUsesRing, PTL

(* A valid signed request is turned away as a replay only because its      *)
(* nonce was accepted within the retention period or NONCE_MAX nonces      *)
(* were, for every cap and whatever requests came before.                  *)
THEOREM RefusalsHaveReason == Spec => ReplayRefusedForReason
<1>1. ASSUME Memory!TypeOK, Memory!Ordered, Memory!EntriesAreTaken, monotone,
             NEW c \in Conns, NEW r \in Requests, ArriveSigned(c, r), verdict'.seen
      PROVE  r.nonce \in Held \/ Cardinality(Held) >= NONCE_MAX
  <2>1. Ring!NonceSeen(r.nonce) /\ r.nonce \in Nonces
    BY <1>1, AuthPassed DEF ArriveSigned
  <2>2. ~Memory!Remember(r.nonce)
    <3>1. Memory!Answer(r.nonce, FALSE) => verdict'.seen = FALSE
      BY DEF Memory!Answer
    <3>2. Memory!Remember(r.nonce) => Memory!Answer(r.nonce, FALSE)
      BY DEF Memory!Remember
    <3> QED  BY <1>1, <3>1, <3>2
  <2>3. Memory!Replay(r.nonce) \/ Memory!Refuse(r.nonce)
    BY <2>1, <2>2, SameSeen DEF Memory!NonceSeen
  <2>4. \/ Memory!Register!Spent(r.nonce)
        \/ Memory!Cardinality(Memory!SpentNonces) >= NONCE_MAX
    BY <1>1, <2>1, <2>3, MemoryAssumption, Memory!RefusalHasReason
  <2>5. Memory!SpentNonces = Held
    BY DEF Memory!SpentNonces, Memory!Register!Spent, Memory!Register!Never, Held, Ring!Never
  <2>6. ASSUME NEW S  PROVE Memory!Cardinality(S) = Cardinality(S)
    BY DEF Memory!Cardinality, Cardinality
  <2> QED  BY <2>1, <2>4, <2>5, <2>6 DEF Memory!SpentNonces
<1>2. (Memory!TypeOK /\ Memory!LiveNoncesRemembered) /\ (Memory!Ordered /\ Memory!EntriesAreTaken)
        /\ monotone /\ [Next]_vars =>
        [\A c \in Conns, r \in Requests :
           ArriveSigned(c, r) /\ verdict'.seen
             => r.nonce \in Held \/ Cardinality(Held) >= NONCE_MAX]_vars
  BY <1>1
<1> QED  BY <1>2, GatewayRemembers, GatewayKeepsOrder, ClockRunsForward, PTL
         DEF Spec, ReplayRefusedForReason
============================================================================
