---------------------------- MODULE AtomicStore ----------------------------
(***************************************************************************)
(* What the key store promises while its operations neither overlap nor    *)
(* die half-way: an operation is one step that changes one entry and no    *)
(* other, and the server's copy of the door-key follows the operations of  *)
(* the server.  From then on it promises nothing.  DoorKeyStore (load,     *)
(* truncate, write, by several processes) is shown to implement it.        *)
(***************************************************************************)
EXTENDS Integers

CONSTANTS
  StoreKeys,   (* the keys of the store                                   *)
  DOOR_KEY,    (* the one that requests are authenticated with            *)
  NoKey        (* the value of an entry that is not there                 *)

VARIABLES
  now,         (* the clock                                               *)
  store,       (* an entry [v, exp] for every key                         *)
  cache,       (* the server's copy of the door-key                       *)
  answer,      (* the key last answered with, and when                    *)
  own,         (* the door-key was last changed by the server             *)
  calm         (* no operation has overlapped another or died half-way    *)

avars == <<now, store, cache, answer, own, calm>>

NoEntry == [v |-> NoKey, exp |-> 0]
NoCopy == [val |-> NoKey, exp |-> 0, loaded |-> FALSE]
NotAsked == [key |-> NoKey, time |-> 0]

Copy(e) == [val |-> e.v, exp |-> e.exp, loaded |-> TRUE]
Lapsed(e) == e.exp # 0 /\ e.exp < now
Fresh == cache.loaded /\ (cache.exp = 0 \/ now < cache.exp)

AtomicInit ==
  /\ now = 1
  /\ store = [k \in StoreKeys |-> NoEntry]
  /\ cache = NoCopy
  /\ answer = NotAsked
  /\ own = TRUE
  /\ calm = TRUE

(* The entry of k changes, and no other.                                   *)
OnlyChanged(k) == store' = [store EXCEPT ![k] = store'[k]]

(* The door-key is set or deleted, by the server or by a command.          *)
ChangeDoorKey ==
  /\ OnlyChanged(DOOR_KEY)
  /\ \/ own' = TRUE /\ cache' = Copy(store'[DOOR_KEY])
     \/ own' = FALSE /\ UNCHANGED cache
  /\ UNCHANGED <<now, answer, calm>>

(* A module's token is set, deleted, or removed as expired.                *)
ChangeToken(k) ==
  /\ OnlyChanged(k)
  /\ UNCHANGED <<now, cache, answer, own, calm>>

(* A request is answered from the copy; one that has lapsed is renewed.    *)
Answer ==
  /\ cache' = IF Fresh THEN cache
              ELSE IF Lapsed(store[DOOR_KEY]) THEN Copy(NoEntry)
              ELSE Copy(store[DOOR_KEY])
  /\ answer' = [key |-> cache'.val, time |-> now]
  /\ UNCHANGED <<now, store, own, calm>>

NewServer ==
  /\ cache' = NoCopy
  /\ answer' = NotAsked
  /\ UNCHANGED <<now, store, own, calm>>

Pass ==
  /\ now' > now
  /\ UNCHANGED <<store, cache, answer, own, calm>>

Disturbed == calm' = FALSE

AtomicNext ==
  \/ ChangeDoorKey
  \/ \E k \in StoreKeys \ {DOOR_KEY} : ChangeToken(k)
  \/ Answer \/ NewServer \/ Pass \/ Disturbed

AtomicSpec == AtomicInit /\ [][AtomicNext]_avars
============================================================================
