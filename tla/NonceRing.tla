----------------------------- MODULE NonceRing -----------------------------
(***************************************************************************)
(* kernel.mjs makeStore().nonceSeen: the in-memory set of nonces that      *)
(* makes a signed request single-use.  The code keeps an insertion-ordered *)
(* Map  nonce -> expiry;  here it is a function from the remembered nonces *)
(* to records [exp, at] in which `at` is the entry's place in the          *)
(* insertion order.                                                        *)
(***************************************************************************)
EXTENDS Integers, FiniteSets

CONSTANTS
  Nonces,            (* the nonces clients send                           *)
  NONCE_TTL_SEC,     (* cfg.NONCE_TTL_SEC: how long a nonce is remembered *)
  NONCE_MAX,         (* cfg.NONCE_MAX: the cap on the Map's size          *)
  CLOCK_STEPS_BACK,  (* whether the wall clock may be set back            *)
  MAX_TIME           (* bound of the clock                                *)

ASSUME NonceAssumption ==
  /\ NONCE_TTL_SEC \in Nat
  /\ NONCE_MAX \in Nat
  /\ CLOCK_STEPS_BACK \in BOOLEAN
  /\ MAX_TIME \in Nat

VARIABLES
  now,        (* nowSec()                                                 *)
  nonces,     (* the Map                                                  *)
  inserted,   (* how many entries this process has inserted               *)
  verdict,    (* the last call: its nonce, its time, what it returned     *)
  taken,      (* history: when this process last answered "not seen"      *)
  monotone    (* history: this process' clock was never set back          *)

vars == <<now, nonces, inserted, verdict, taken, monotone>>

Never == -1

(* Mutated: the Map starts with a placeholder entry.                       *)
EmptyWithPlaceholder == [k \in {"none"} |-> [exp |-> 0, at |-> 0]]

Empty == [k \in {} |-> 0]

(* Mutated: an entry counts for one second too long.                       *)
LiveTooLong(e) == e.exp + 1 >= now

(* Mutated: an entry no longer counts in the last second of its retention. *)
LiveStrict(e) == e.exp > now

Live(e) == e.exp >= now

Without(m, S) == [k \in DOMAIN m \ S |-> m[k]]

IsOldest(m, k) == \A j \in DOMAIN m : m[k].at <= m[j].at

(* The lazy sweep deletes from the front and stops at the first live       *)
(* entry: what goes is every entry with no live entry at or before it.     *)
ExpiredHead(m) ==
  {k \in DOMAIN m : \A j \in DOMAIN m : m[j].at <= m[k].at => ~Live(m[j])}

(* Mutated: a ring that makes room by dropping its oldest entry.           *)
SweptEvictingOldest(m) ==
  LET s == Without(m, ExpiredHead(m)) IN
  IF Cardinality(DOMAIN s) >= NONCE_MAX
    THEN Without(s, {k \in DOMAIN s : IsOldest(s, k)})
    ELSE s

Swept(m) == Without(m, ExpiredHead(m))

(* Mutated: the cap admits one entry too many.                             *)
OverCapacityLate(m) ==
  /\ Cardinality(DOMAIN m) > NONCE_MAX
  /\ \E k \in DOMAIN m : IsOldest(m, k) /\ Live(m[k])

(* Mutated: the cap refuses while there is still room for one.             *)
OverCapacityEarly(m) ==
  /\ Cardinality(DOMAIN m) + 1 >= NONCE_MAX
  /\ \E k \in DOMAIN m : IsOldest(m, k) /\ Live(m[k])

(* The cap loop.  Its deleting branch is never taken after the sweep, so   *)
(* it answers "refuse" or leaves the Map alone; on an empty Map (NONCE_MAX *)
(* = 0) it breaks.                                                         *)
OverCapacity(m) ==
  /\ Cardinality(DOMAIN m) >= NONCE_MAX
  /\ \E k \in DOMAIN m : IsOldest(m, k) /\ Live(m[k])

(* A stale entry of the nonce itself goes first, then the expired head.    *)
Cleaned(n) == Swept(Without(nonces, {n}))

Inserted(m, n) ==
  [k \in DOMAIN m \cup {n} |->
     IF k = n THEN [exp |-> now + NONCE_TTL_SEC, at |-> inserted] ELSE m[k]]

Answer(n, seen) == verdict' = [nonce |-> n, time |-> now, seen |-> seen]

IsLive(n) == n \in DOMAIN nonces /\ Live(nonces[n])

(* A live entry: the nonce was used before.                                *)
Replay(n) ==
  /\ IsLive(n)
  /\ Answer(n, TRUE)
  /\ UNCHANGED <<now, nonces, inserted, taken, monotone>>

(* The Map is full of live entries: refused, but the sweep has happened.   *)
Refuse(n) ==
  /\ ~IsLive(n)
  /\ OverCapacity(Cleaned(n))
  /\ nonces' = Cleaned(n)
  /\ Answer(n, TRUE)
  /\ UNCHANGED <<now, inserted, taken, monotone>>

(* A fresh nonce: remembered, and the request is accepted.                 *)
Remember(n) ==
  /\ ~IsLive(n)
  /\ ~OverCapacity(Cleaned(n))
  /\ nonces' = Inserted(Cleaned(n), n)
  /\ inserted' = inserted + 1
  /\ taken' = [taken EXCEPT ![n] = now]
  /\ Answer(n, FALSE)
  /\ UNCHANGED <<now, monotone>>

NonceSeen(n) == Replay(n) \/ Refuse(n) \/ Remember(n)

Init ==
  /\ now = 0
  /\ nonces = Empty
  /\ inserted = 0
  /\ verdict = [nonce |-> "none", time |-> Never, seen |-> FALSE]
  /\ taken = [n \in Nonces |-> Never]
  /\ monotone = TRUE

Tick ==
  /\ now < MAX_TIME
  /\ now' = now + 1
  /\ UNCHANGED <<nonces, inserted, verdict, taken, monotone>>

(* The clock is the wall clock (Date.now), which an operator or a time     *)
(* service may set back.                                                   *)
StepBack ==
  /\ CLOCK_STEPS_BACK
  /\ now > 0
  /\ now' = now - 1
  /\ monotone' = FALSE
  /\ UNCHANGED <<nonces, inserted, verdict, taken>>

(* A new process starts with an empty Map.                                 *)
Restart ==
  /\ nonces' = Empty
  /\ inserted' = 0
  /\ verdict' = [nonce |-> "none", time |-> Never, seen |-> FALSE]
  /\ taken' = [n \in Nonces |-> Never]
  /\ monotone' = TRUE
  /\ UNCHANGED now

Next == Tick \/ StepBack \/ Restart \/ \E n \in Nonces : NonceSeen(n)

Spec == Init /\ [][Next]_vars

----------------------------------------------------------------------------

TypeOK ==
  /\ now \in Nat
  /\ DOMAIN nonces \subseteq Nonces
  /\ IsFiniteSet(DOMAIN nonces)
  /\ nonces \in [DOMAIN nonces -> [exp : Nat, at : Nat]]
  /\ inserted \in Nat
  /\ verdict \in [nonce : Nonces \cup {"none"},
                  time : Nat \cup {Never}, seen : BOOLEAN]
  /\ taken \in [Nonces -> Nat \cup {Never}]
  /\ monotone \in BOOLEAN

(* "insertion order == expiry order and the OLDEST live at the FRONT"      *)
(* (kernel.mjs 268): the premise of the lazy sweep and of the cap loop,    *)
(* which look at the front entry only.  A clock that is set back breaks    *)
(* it, until the process ends.                                             *)
InsertionOrderIsExpiryOrder == monotone =>
  /\ \A j, k \in DOMAIN nonces :
       nonces[j].at <= nonces[k].at => nonces[j].exp <= nonces[k].exp
  /\ \A k \in DOMAIN nonces : nonces[k].exp <= now + NONCE_TTL_SEC

(* "The memory bound still holds: size can never exceed NONCE_MAX"         *)
(* (kernel.mjs 287).  With NONCE_MAX = 0 the loop breaks on the empty Map  *)
(* and one entry is kept, so the bound the code gives is max(1, NONCE_MAX) *)
(* whatever the clock does.                                                *)
SizeBounded ==
  Cardinality(DOMAIN nonces) <= IF NONCE_MAX = 0 THEN 1 ELSE NONCE_MAX

(* "NEVER evict a still-live nonce" (kernel.mjs 283): every nonce accepted *)
(* within the last NONCE_TTL_SEC seconds is still in the Map, with the     *)
(* expiry of that acceptance, however many other nonces came in between,   *)
(* as long as the clock is not set back.                                   *)
LiveNoncesRemembered == monotone =>
  \A n \in Nonces :
    taken[n] # Never /\ now <= taken[n] + NONCE_TTL_SEC
      => n \in DOMAIN nonces /\ nonces[n].exp = taken[n] + NONCE_TTL_SEC

(* A request is refused only for a reason: its nonce is a live duplicate,  *)
(* or the Map holds NONCE_MAX entries and every one of them is live (an    *)
(* expired entry never costs a caller its request), as long as the clock   *)
(* is not set back.                                                        *)
RefusalJustified ==
  monotone /\ verdict.seen /\ verdict.time = now
    => \/ IsLive(verdict.nonce)
       \/ /\ Cardinality(DOMAIN nonces) >= NONCE_MAX
          /\ \A k \in DOMAIN nonces : Live(nonces[k])

(* No step makes the Map forget an entry that is live at that step, except *)
(* the end of the process; whatever the clock does.                        *)
NoLiveEviction ==
  [][\A k \in DOMAIN nonces :
       Live(nonces[k]) /\ taken' # [n \in Nonces |-> Never]
         => k \in DOMAIN nonces' /\ nonces'[k] = nonces[k]]_vars

(* What the properties above rest on, with a clock that only moves         *)
(* forward: an entry is placed before the next one, and no call lies in    *)
(* the future.                                                             *)
PlacesInPast == monotone =>
  /\ \A k \in DOMAIN nonces : nonces[k].at < inserted
  /\ verdict.time <= now

(* The Map, its sweep and its cap implement the unbounded register.        *)
Register == INSTANCE NonceRegister
ImplementsRegister == Register!RegisterSpec
============================================================================
