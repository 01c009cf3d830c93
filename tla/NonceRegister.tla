--------------------------- MODULE NonceRegister ---------------------------
(***************************************************************************)
(* What the kernel's nonce memory promises, with no memory bound, no       *)
(* eviction and no expiry sweep: a nonce that has been taken cannot be     *)
(* taken again until more than NONCE_TTL_SEC seconds have passed, and one  *)
(* that has not is refused only where NONCE_MAX others have.  Once the     *)
(* clock has been set back the promise is off until the process ends.      *)
(* NonceRing (the Map, the sweep and the cap) is shown to implement it.    *)
(***************************************************************************)
EXTENDS Integers, FiniteSets

CONSTANTS
  Nonces,          (* the nonces clients send                             *)
  NONCE_TTL_SEC,   (* kernel.mjs cfg.NONCE_TTL_SEC                        *)
  NONCE_MAX        (* kernel.mjs cfg.NONCE_MAX                            *)

VARIABLES
  now,             (* the wall clock, in seconds                          *)
  taken,           (* when each nonce was last taken, or Never            *)
  verdict,         (* the last call: its nonce, its time, what it said    *)
  monotone         (* the clock has not been set back in this process     *)

rvars == <<now, taken, verdict, monotone>>

Never == -1

(* A nonce is spent while its retention period lasts, its last second      *)
(* included.                                                               *)
Spent(n) == taken[n] # Never /\ now <= taken[n] + NONCE_TTL_SEC

Answer(n, seen) == verdict' = [nonce |-> n, time |-> now, seen |-> seen]
NotAsked == [nonce |-> "none", time |-> Never, seen |-> FALSE]

RegisterInit ==
  /\ now = 0
  /\ taken = [n \in Nonces |-> Never]
  /\ verdict = NotAsked
  /\ monotone = TRUE

Take(n) ==
  /\ monotone => ~Spent(n)
  /\ taken' = [taken EXCEPT ![n] = now]
  /\ Answer(n, FALSE)
  /\ UNCHANGED <<now, monotone>>

(* What bounds the memory costs a caller its request only when that many   *)
(* others are spent.                                                       *)
Refuse(n) ==
  /\ monotone => Spent(n) \/ Cardinality({k \in Nonces : Spent(k)}) >= NONCE_MAX
  /\ Answer(n, TRUE)
  /\ UNCHANGED <<now, taken, monotone>>

Pass ==
  /\ now' > now
  /\ UNCHANGED <<taken, verdict, monotone>>

SetBack ==
  /\ now' < now
  /\ monotone' = FALSE
  /\ UNCHANGED <<taken, verdict>>

(* The memory belongs to one process: a restart forgets every nonce.       *)
ForgetAll ==
  /\ taken' = [n \in Nonces |-> Never]
  /\ verdict' = NotAsked
  /\ monotone' = TRUE
  /\ UNCHANGED now

RegisterNext ==
  \/ Pass \/ SetBack \/ ForgetAll
  \/ \E n \in Nonces : Take(n) \/ Refuse(n)

RegisterSpec == RegisterInit /\ [][RegisterNext]_rvars
============================================================================
