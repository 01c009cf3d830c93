------------------------- MODULE DoorKeyStoreProofs -------------------------
(***************************************************************************)
(* Proofs about DoorKeyStore, for any number of CLI processes, tokens,     *)
(* key lifetimes, and interleavings and crashes of store operations.       *)
(***************************************************************************)
EXTENDS DoorKeyStore, TLAPS

LEMMA Constants ==
  /\ DOOR_KEY \in StoreKeys /\ DOOR_KEY \notin Tokens
  /\ "server" \in Processes /\ "server" \notin Cli
  /\ ServerRotates \subseteq StoreKeys
  /\ KEY_TTL_SEC \in Nat /\ TOKEN_TTL_SEC \in Nat /\ MAX_KEYS \in Nat
BY StoreAssumption DEF DOOR_KEY, StoreKeys, Processes

LEMMA AbsentType == Absent \in Entries /\ EmptyFile \in [StoreKeys -> Entries]
BY Constants DEF Absent, Entries, EmptyFile

LEMMA LoadType ==
  ASSUME TypeOK  PROVE Load \in [StoreKeys -> Entries]
BY AbsentType DEF TypeOK, Load

LEMMA ExpiryType ==
  ASSUME TypeOK, NEW ttl \in Nat  PROVE ExpiryFor(ttl) \in Nat
BY DEF TypeOK, ExpiryFor

(* The beginning of any operation, whatever copy it is going to write.     *)
LEMMA BeginType ==
  ASSUME TypeOK, NEW p \in Processes, NEW k \in StoreKeys,
         BeginSet(p, k) \/ BeginDel(p, k) \/ BeginGetExpired(p, k),
         todo' \in [Processes -> [do : {"none", "set", "del", "get"},
                                  keys : SUBSET StoreKeys]]
  PROVE  TypeOK'
<1>1. Load \in [StoreKeys -> Entries]
  BY LoadType
<1>4. disturbed' \subseteq {"overlap", "crash"}
  BY DEF BeginSet, BeginDel, BeginGetExpired, TouchFile, TypeOK
<1>2. CASE BeginSet(p, k)
  <2> DEFINE ttl == IF k = DOOR_KEY THEN KEY_TTL_SEC ELSE TOKEN_TTL_SEC
             v == IF k = DOOR_KEY THEN minted + 1 ELSE 1
             e == [v |-> v, exp |-> ExpiryFor(ttl)]
  <2>1. ExpiryFor(ttl) \in Nat
    BY Constants, ExpiryType
  <2>2. v \in 0..MAX_KEYS \cup {1}
    BY <1>2, Constants DEF BeginSet, TypeOK
  <2>3. e \in Entries
    BY <2>1, <2>2 DEF Entries
  <2>4. [Load EXCEPT ![k] = e] \in [StoreKeys -> Entries]
    BY <1>1, <2>3
  <2>5. BeginWith(p, [do |-> "set", key |-> k], [Load EXCEPT ![k] = e])
    BY <1>2 DEF BeginSet
  <2>6. minted' \in 0..MAX_KEYS /\ minted' >= minted
        /\ expiry' \in [1..MAX_KEYS -> Nat]
    <3>1. CASE k = DOOR_KEY
      BY <1>2, <2>1, <3>1, Constants DEF BeginSet, TypeOK
    <3>2. CASE k # DOOR_KEY
      BY <1>2, <3>2 DEF BeginSet, TypeOK
    <3> QED  BY <3>1, <3>2
  <2> HIDE DEF e
  <2>7. issued' \subseteq 1..minted'
    BY <2>5, <2>6 DEF BeginWith, TypeOK
  <2> QED  BY <1>4, <2>4, <2>5, <2>6, <2>7 DEF BeginWith, file, TypeOK
<1>3. CASE BeginDel(p, k) \/ BeginGetExpired(p, k)
  <2>1. [Load EXCEPT ![k] = Absent] \in [StoreKeys -> Entries]
    BY <1>1, AbsentType
  <2>2. PICK do \in {"del", "get"} :
          BeginWith(p, [do |-> do, key |-> k], [Load EXCEPT ![k] = Absent])
    BY <1>3 DEF BeginDel, BeginGetExpired
  <2>3. UNCHANGED <<minted, expiry>>
    BY <1>3 DEF BeginDel, BeginGetExpired
  <2> QED  BY <1>4, <2>1, <2>2, <2>3 DEF BeginWith, file, TypeOK
<1> QED  BY <1>2, <1>3

LEMMA TodoType ==
  ASSUME TypeOK, NEW c \in Processes, NEW k \in StoreKeys, Done(c, k)
  PROVE  todo' \in [Processes -> [do : {"none", "set", "del", "get"},
                                  keys : SUBSET StoreKeys]]
<1> DEFINE T == [do : {"none", "set", "del", "get"}, keys : SUBSET StoreKeys]
<1>1. todo[c] \in T
  BY DEF TypeOK
<1>2. [do |-> todo[c].do, keys |-> todo[c].keys \ {k}] \in T
  BY <1>1
<1>3. Nothing \in T
  BY DEF Nothing
<1>4. PICK r \in T : todo' = [todo EXCEPT ![c] = r]
  BY <1>2, <1>3 DEF Done
<1>5. todo \in [Processes -> T]
  BY DEF TypeOK
<1> QED  BY <1>4, <1>5

(* What Write, of any operation, leaves in the server's cache.             *)
LEMMA WriteType ==
  ASSUME TypeOK, NEW p \in Processes, Write(p),
         snap[p][DOOR_KEY].v \in 0..minted
  PROVE  TypeOK'
<1>1. snap[p] \in [StoreKeys -> Entries] /\ snap[p][DOOR_KEY] \in Entries
  BY Constants DEF TypeOK
<1>2. snap[p][DOOR_KEY].exp \in Nat /\ minted \in 0..MAX_KEYS
  BY <1>1 DEF Entries, TypeOK
<1>3. cache' \in [val : 0..MAX_KEYS, exp : Nat, loaded : BOOLEAN]
  <2>1. cache' = CacheAfter(p)
    BY DEF Write
  <2>2. CASE CacheAfter(p) = cache
    BY <2>1, <2>2 DEF TypeOK
  <2>3. CASE CacheAfter(p) = [val |-> snap[p][DOOR_KEY].v,
                              exp |-> snap[p][DOOR_KEY].exp, loaded |-> TRUE]
    <3>1. snap[p][DOOR_KEY].v \in 0..MAX_KEYS
      BY <1>2, Constants
    <3> QED  BY <1>2, <2>1, <2>3, <3>1
  <2> QED  BY <2>2, <2>3 DEF CacheAfter
<1>4. issued' \subseteq 1..minted /\ retired' \subseteq issued'
  <2>1. {snap[p][DOOR_KEY].v} \ {NoKey} \subseteq 1..minted
    BY <1>2 DEF NoKey
  <2>2. \/ UNCHANGED <<issued, retired>>
        \/ \E new \in SUBSET ({snap[p][DOOR_KEY].v} \ {NoKey}) :
             issued' = issued \cup new /\ retired' = retired \cup (issued \ new)
    BY DEF Write
  <2> QED  BY <2>1, <2>2 DEF TypeOK
<1>5. writer' \in Processes
  BY DEF Write, TypeOK
<1>6. /\ now' = now /\ disk' = snap[p] /\ torn' \in BOOLEAN
      /\ pc' = [pc EXCEPT ![p] = "idle"]
      /\ snap' = [snap EXCEPT ![p] = EmptyFile]
      /\ UNCHANGED <<op, todo, answer, minted, expiry, disturbed>>
  BY DEF Write, TypeOK
<1> QED  BY <1>1, <1>3, <1>4, <1>5, <1>6, AbsentType DEF TypeOK

(* Every copy of the door-key - in the file, in a process's snapshot, in   *)
(* the cache - carries the expiry the key was minted with.                 *)
GoodEntry(e, m, x) == e = Absent \/ (e.v \in 1..m /\ e.exp = x[e.v])

CopiesGood ==
  /\ GoodEntry(disk[DOOR_KEY], minted, expiry)
  /\ \A p \in Processes : GoodEntry(snap[p][DOOR_KEY], minted, expiry)
  /\ cache.val # NoKey =>
       cache.val \in 1..minted /\ cache.exp = expiry[cache.val]
  /\ answer.key \in 0..minted

IInv == TypeOK /\ CopiesGood /\ NoExpiredKeyServed

LEMMA GoodEntryRange ==
  ASSUME TypeOK, NEW e, GoodEntry(e, minted, expiry)  PROVE e.v \in 0..minted
BY DEF GoodEntry, Absent, TypeOK

LEMMA LoadGood ==
  ASSUME CopiesGood  PROVE GoodEntry(Load[DOOR_KEY], minted, expiry)
BY Constants DEF CopiesGood, Load, GoodEntry, EmptyFile

(* Minting a key disturbs no copy of an older one.                         *)
LEMMA GoodEntryStays ==
  ASSUME TypeOK, minted' \in Nat, minted' >= minted,
         \A v \in 1..minted : expiry'[v] = expiry[v],
         NEW e, GoodEntry(e, minted, expiry)
  PROVE  GoodEntry(e, minted', expiry')
BY DEF GoodEntry, TypeOK

(* An operation's new copy is good, and minting disturbs no older key.     *)
LEMMA BeginGood ==
  ASSUME IInv, NEW p \in Processes, NEW k \in StoreKeys,
         BeginSet(p, k) \/ BeginDel(p, k) \/ BeginGetExpired(p, k)
  PROVE  CopiesGood' /\ NoExpiredKeyServed'
<1> USE DEF IInv
<1>1. /\ Load \in [StoreKeys -> Entries]
      /\ GoodEntry(Load[DOOR_KEY], minted, expiry)
  BY LoadType, LoadGood
<1>2. UNCHANGED <<disk, cache, answer>>
  BY DEF BeginSet, BeginDel, BeginGetExpired, BeginWith, file
<1>3. /\ minted' \in Nat /\ minted' >= minted
      /\ \A v \in 1..minted : expiry'[v] = expiry[v]
  <2>1. \/ UNCHANGED <<minted, expiry>>
        \/ /\ minted' = minted + 1
           /\ expiry' = [expiry EXCEPT ![minted + 1] = ExpiryFor(KEY_TTL_SEC)]
    BY DEF BeginSet, BeginDel, BeginGetExpired
  <2>2. minted \in Nat /\ expiry \in [1..MAX_KEYS -> Nat] /\ minted <= MAX_KEYS
    BY Constants DEF TypeOK
  <2>3. CASE UNCHANGED <<minted, expiry>>
    BY <2>2, <2>3
  <2>4. CASE /\ minted' = minted + 1
             /\ expiry' = [expiry EXCEPT ![minted + 1] = ExpiryFor(KEY_TTL_SEC)]
    <3>1. \A v \in 1..minted : v \in 1..MAX_KEYS /\ v # minted + 1
      BY <2>2, Constants
    <3> QED  BY <2>2, <2>4, <3>1
  <2> QED  BY <2>1, <2>3, <2>4
<1>4. \A q \in Processes \ {p} : snap'[q] = snap[q]
  BY DEF BeginSet, BeginDel, BeginGetExpired, BeginWith, TypeOK
<1>5. GoodEntry(snap'[p][DOOR_KEY], minted', expiry')
  <2>1. CASE BeginSet(p, k) /\ k = DOOR_KEY
    <3> DEFINE e == [v |-> minted + 1, exp |-> ExpiryFor(KEY_TTL_SEC)]
    <3>1. snap' = [snap EXCEPT ![p] = [Load EXCEPT ![k] = e]]
      BY <2>1 DEF BeginSet, BeginWith
    <3>2. minted' = minted + 1 /\ minted + 1 \in 1..MAX_KEYS
      BY <2>1, Constants DEF BeginSet, TypeOK
    <3>3. expiry' = [expiry EXCEPT ![minted + 1] = ExpiryFor(KEY_TTL_SEC)]
      BY <2>1 DEF BeginSet
    <3>4. expiry'[minted + 1] = ExpiryFor(KEY_TTL_SEC)
      BY <3>2, <3>3 DEF TypeOK
    <3>5. snap'[p][DOOR_KEY] = e
      <4>1. snap'[p] = [Load EXCEPT ![k] = e]
        BY <3>1 DEF TypeOK
      <4> QED  BY <1>1, <2>1, <4>1, Constants
    <3> QED  BY <3>2, <3>4, <3>5 DEF GoodEntry, TypeOK
  <2>2. CASE ~(BeginSet(p, k) /\ k = DOOR_KEY)
    <3>1. PICK e : /\ snap' = [snap EXCEPT ![p] = [Load EXCEPT ![k] = e]]
                   /\ k = DOOR_KEY => e = Absent
      BY <2>2 DEF BeginSet, BeginDel, BeginGetExpired, BeginWith
    <3>2. snap'[p] = [Load EXCEPT ![k] = e]
      BY <3>1 DEF TypeOK
    <3>3. snap'[p][DOOR_KEY] = Load[DOOR_KEY] \/ snap'[p][DOOR_KEY] = Absent
      BY <1>1, <3>1, <3>2, Constants
    <3>4. GoodEntry(snap'[p][DOOR_KEY], minted, expiry)
      BY <1>1, <3>3 DEF GoodEntry
    <3> QED  BY <1>3, <3>4, GoodEntryStays
  <2> QED  BY <2>1, <2>2
<1>6. \A q \in Processes : GoodEntry(snap'[q][DOOR_KEY], minted', expiry')
  BY <1>3, <1>4, <1>5, GoodEntryStays DEF CopiesGood
<1>7. GoodEntry(disk'[DOOR_KEY], minted', expiry')
  BY <1>2, <1>3, GoodEntryStays DEF CopiesGood
<1>8. cache'.val # NoKey =>
        cache'.val \in 1..minted' /\ cache'.exp = expiry'[cache'.val]
  BY <1>2, <1>3 DEF CopiesGood, TypeOK
<1>9. answer'.key \in 0..minted' /\ NoExpiredKeyServed'
  BY <1>2, <1>3 DEF CopiesGood, NoExpiredKeyServed, TypeOK, NoKey
<1> QED  BY <1>6, <1>7, <1>8, <1>9 DEF CopiesGood

(* What a protected request reads, from the cache or from the file.        *)
LEMMA GetDoorKeyGood ==
  ASSUME IInv, GetDoorKey
  PROVE  IInv'
<1> USE DEF IInv
<1>1. /\ UNCHANGED <<now, disk, torn, pc, snap, op, todo,
                     minted, expiry, issued, retired, writer>>
      /\ disturbed' \subseteq {"overlap", "crash"}
  BY DEF GetDoorKey, TouchFile, TypeOK, file, procs
<1>2. answer' = [key |-> cache'.val, time |-> now]
  BY DEF GetDoorKey
<1>3. /\ cache' \in [val : 0..MAX_KEYS, exp : Nat, loaded : BOOLEAN]
      /\ cache'.val # NoKey =>
           /\ cache'.val \in 1..minted
           /\ cache'.exp = expiry[cache'.val]
           /\ cache'.exp = 0 \/ now <= cache'.exp
  <2>1. CASE CacheHit /\ UNCHANGED cache
    BY <2>1 DEF CacheHit, TypeOK, CopiesGood
  <2>2. CASE cache' = CacheFrom(Load)
    <3> DEFINE e == Load[DOOR_KEY]
    <3>1. e \in Entries /\ GoodEntry(e, minted, expiry)
      BY LoadType, LoadGood, Constants
    <3>2. CASE cache' = [val |-> NoKey, exp |-> 0, loaded |-> TRUE]
      BY <3>2, Constants DEF NoKey
    <3>3. CASE /\ e # Absent /\ ~Expired(e)
               /\ cache' = [val |-> e.v, exp |-> e.exp, loaded |-> TRUE]
      <4>1. e.v \in 1..minted /\ e.exp = expiry[e.v] /\ e.exp \in Nat
        BY <3>1, <3>3 DEF GoodEntry, Entries
      <4>2. e.exp = 0 \/ now <= e.exp
        BY <3>3, <4>1 DEF Expired, TypeOK
      <4>3. minted \in 0..MAX_KEYS
        BY DEF TypeOK
      <4>4. cache'.val = e.v /\ cache'.exp = e.exp
        BY <3>3
      <4>5. e.v \in 0..MAX_KEYS
        BY <4>1, <4>3, Constants
      <4> QED  BY <3>3, <4>1, <4>2, <4>4, <4>5
    <3> QED  BY <2>2, <3>2, <3>3 DEF CacheFrom
  <2> QED  BY <2>1, <2>2 DEF GetDoorKey
<1>4. answer' \in [key : 0..MAX_KEYS, time : Nat] /\ answer'.key \in 0..minted
  BY <1>2, <1>3 DEF TypeOK, NoKey
<1>5. NoExpiredKeyServed'
  BY <1>1, <1>2, <1>3 DEF NoExpiredKeyServed
<1>6. TypeOK'
  BY <1>1, <1>3, <1>4 DEF TypeOK
<1>7. CopiesGood'
  BY <1>1, <1>3, <1>4 DEF CopiesGood
<1> QED  BY <1>5, <1>6, <1>7

LEMMA WriteGood ==
  ASSUME IInv, NEW p \in Processes, Write(p)
  PROVE  IInv'
<1> USE DEF IInv
<1>1. GoodEntry(snap[p][DOOR_KEY], minted, expiry)
  BY DEF CopiesGood
<1>2. TypeOK'
  BY <1>1, GoodEntryRange, WriteType
<1>3. /\ disk' = snap[p] /\ snap' = [snap EXCEPT ![p] = EmptyFile]
      /\ UNCHANGED <<answer, minted, expiry>>
      /\ cache' = CacheAfter(p)
  BY DEF Write
<1>4. GoodEntry(disk'[DOOR_KEY], minted', expiry')
  BY <1>1, <1>3
<1>5. \A q \in Processes : GoodEntry(snap'[q][DOOR_KEY], minted', expiry')
  <2>1. GoodEntry(EmptyFile[DOOR_KEY], minted, expiry)
    BY Constants DEF EmptyFile, GoodEntry
  <2> QED  BY <1>3, <2>1 DEF CopiesGood, TypeOK
<1>6. cache'.val # NoKey =>
        cache'.val \in 1..minted' /\ cache'.exp = expiry'[cache'.val]
  <2>1. CASE cache' = cache
    BY <1>3, <2>1 DEF CopiesGood
  <2>2. CASE cache' = [val |-> snap[p][DOOR_KEY].v,
                       exp |-> snap[p][DOOR_KEY].exp, loaded |-> TRUE]
    BY <1>1, <1>3, <2>2 DEF GoodEntry, Absent, NoKey
  <2> QED  BY <1>3, <2>1, <2>2 DEF CacheAfter
<1>7. CopiesGood' /\ NoExpiredKeyServed'
  BY <1>3, <1>4, <1>5, <1>6 DEF CopiesGood, NoExpiredKeyServed
<1> QED  BY <1>2, <1>7

(* The other steps change neither the file nor any copy, or drop a copy.   *)
LEMMA OtherStepsGood ==
  ASSUME IInv,
         \/ Tick \/ Restart \/ UNCHANGED vars
         \/ \E p \in Processes : Truncate(p) \/ Crash(p)
         \/ \E c \in Cli : Issue(c) \/ Kill(c) \/ Show(c)
         \/ \E c \in Cli, k \in StoreKeys : CliSkip(c, k)
  PROVE  IInv'
<1> USE DEF IInv
<1>1. CASE Tick
  BY <1>1 DEF Tick, TypeOK, CopiesGood, NoExpiredKeyServed, file, procs, history
<1>2. CASE Restart
  <2>1. UNCHANGED <<now, disk, torn, pc, snap, op, todo,
                    minted, expiry, issued, retired, writer, disturbed>>
    BY <1>2 DEF Restart, file, procs, history
  <2>2. cache' = NotLoaded /\ answer' = NoAnswer
    BY <1>2 DEF Restart
  <2>3. TypeOK'
    BY <2>1, <2>2, Constants DEF TypeOK, NotLoaded, NoAnswer, NoKey
  <2>4. CopiesGood' /\ NoExpiredKeyServed'
    BY <2>1, <2>2 DEF TypeOK, CopiesGood, NoExpiredKeyServed, NotLoaded, NoAnswer, NoKey
  <2> QED  BY <2>3, <2>4
<1>3. ASSUME NEW p \in Processes, Truncate(p)  PROVE IInv'
  BY <1>3 DEF Truncate, TypeOK, CopiesGood, NoExpiredKeyServed, history
<1>4. ASSUME NEW p \in Processes, Crash(p)  PROVE IInv'
  <2>1. /\ UNCHANGED <<now, disk, torn, op, minted, expiry, issued, retired, writer>>
        /\ pc' = [pc EXCEPT ![p] = "idle"]
        /\ snap' = [snap EXCEPT ![p] = EmptyFile]
        /\ todo' = [todo EXCEPT ![p] = Nothing]
        /\ disturbed' \subseteq {"overlap", "crash"}
    BY <1>4 DEF Crash, TypeOK, file
  <2>2. \/ UNCHANGED <<cache, answer>>
        \/ cache' = NotLoaded /\ answer' = NoAnswer
    BY <1>4 DEF Crash
  <2>3. /\ pc' \in [Processes -> {"idle", "loaded", "truncated"}]
        /\ snap' \in [Processes -> [StoreKeys -> Entries]]
        /\ todo' \in [Processes -> [do : {"none", "set", "del", "get"},
                                    keys : SUBSET StoreKeys]]
    <3>1. Nothing \in [do : {"none", "set", "del", "get"}, keys : SUBSET StoreKeys]
      BY DEF Nothing
    <3> QED  BY <2>1, <3>1, AbsentType DEF TypeOK
  <2>4. /\ cache' \in [val : 0..MAX_KEYS, exp : Nat, loaded : BOOLEAN]
        /\ answer' \in [key : 0..MAX_KEYS, time : Nat]
    <3>1. /\ NotLoaded \in [val : 0..MAX_KEYS, exp : Nat, loaded : BOOLEAN]
          /\ NoAnswer \in [key : 0..MAX_KEYS, time : Nat]
      BY Constants DEF NotLoaded, NoAnswer, NoKey
    <3> QED  BY <2>2, <3>1 DEF TypeOK
  <2>5. TypeOK'
    BY <2>1, <2>3, <2>4 DEF TypeOK
  <2>6. \A q \in Processes : GoodEntry(snap'[q][DOOR_KEY], minted', expiry')
    <3>1. GoodEntry(EmptyFile[DOOR_KEY], minted, expiry)
      BY Constants DEF EmptyFile, GoodEntry
    <3> QED  BY <2>1, <3>1 DEF CopiesGood, TypeOK
  <2>7. CopiesGood' /\ NoExpiredKeyServed'
    BY <2>1, <2>2, <2>6
       DEF TypeOK, CopiesGood, NoExpiredKeyServed, NotLoaded, NoAnswer, NoKey
  <2> QED  BY <2>5, <2>7
<1>5. ASSUME NEW c \in Cli, NEW do \in {"set", "del", "get"},
             NEW keys \in SUBSET StoreKeys, Start(c, do, keys)
      PROVE  IInv'
  BY <1>5 DEF Start, TypeOK, CopiesGood, NoExpiredKeyServed, file, history
<1>6. ASSUME NEW c \in Cli, Issue(c) \/ Kill(c) \/ Show(c)  PROVE IInv'
  BY <1>5, <1>6, Constants DEF Issue, Kill, Show, StoreKeys
<1>7. ASSUME NEW c \in Cli, NEW k \in StoreKeys, CliSkip(c, k)  PROVE IInv'
  <2>1. UNCHANGED <<now, disk, torn, cache, pc, snap, op, answer,
                    minted, expiry, issued, retired, writer, disturbed>>
    BY <1>7 DEF CliSkip, file, history
  <2>2. todo' \in [Processes -> [do : {"none", "set", "del", "get"},
                                 keys : SUBSET StoreKeys]]
    BY <1>7, TodoType DEF CliSkip, Processes
  <2> QED  BY <2>1, <2>2 DEF TypeOK, CopiesGood, NoExpiredKeyServed
<1>8. CASE UNCHANGED vars
  BY <1>8 DEF vars, TypeOK, CopiesGood, NoExpiredKeyServed
<1> QED  BY <1>1, <1>2, <1>3, <1>4, <1>6, <1>7, <1>8

LEMMA StepGood == ASSUME IInv, [Next]_vars  PROVE IInv'
<1>1. CASE GetDoorKey
  BY <1>1, GetDoorKeyGood
<1>2. ASSUME NEW k \in StoreKeys, ServerRotate(k) \/ ServerGetToken(k)
      PROVE  IInv'
  <2>1. UNCHANGED todo /\ (BeginSet("server", k) \/ BeginGetExpired("server", k))
    BY <1>2 DEF ServerRotate, ServerGetToken
  <2> QED  BY <2>1, BeginType, BeginGood, Constants DEF IInv, TypeOK
<1>3. ASSUME NEW c \in Cli, NEW k \in StoreKeys, CliOp(c, k)  PROVE IInv'
  <2>1. /\ c \in Processes /\ Done(c, k)
        /\ BeginSet(c, k) \/ BeginDel(c, k) \/ BeginGetExpired(c, k)
    BY <1>3 DEF CliOp, Processes
  <2> QED  BY <2>1, TodoType, BeginType, BeginGood DEF IInv
<1>4. ASSUME NEW p \in Processes, Write(p)  PROVE IInv'
  BY <1>4, WriteGood
<1>5. CASE \/ Tick \/ Restart \/ UNCHANGED vars
           \/ \E p \in Processes : Truncate(p) \/ Crash(p)
           \/ \E c \in Cli : Issue(c) \/ Kill(c) \/ Show(c)
           \/ \E c \in Cli, k \in StoreKeys : CliSkip(c, k)
  BY <1>5, OtherStepsGood
<1> QED  BY <1>1, <1>2, <1>3, <1>4, <1>5, Constants
         DEF Next, ServerNext, CliNext, StoreKeys

LEMMA InitGood == ASSUME Init  PROVE IInv
<1>1. Nothing \in [do : {"none", "set", "del", "get"}, keys : SUBSET StoreKeys]
  BY DEF Nothing
<1>2. TypeOK
  <2>1. /\ NotLoaded \in [val : 0..MAX_KEYS, exp : Nat, loaded : BOOLEAN]
        /\ NoAnswer \in [key : 0..MAX_KEYS, time : Nat]
    BY Constants DEF NotLoaded, NoAnswer, NoKey
  <2>2. /\ pc \in [Processes -> {"idle", "loaded", "truncated"}]
        /\ snap \in [Processes -> [StoreKeys -> Entries]]
        /\ todo \in [Processes -> [do : {"none", "set", "del", "get"},
                                   keys : SUBSET StoreKeys]]
    BY <1>1, AbsentType DEF Init
  <2>3. op \in [Processes -> [do : {"none", "set", "del", "get"},
                              key : StoreKeys]]
    BY Constants DEF Init
  <2>4. minted \in 0..MAX_KEYS /\ expiry \in [1..MAX_KEYS -> Nat]
    BY Constants DEF Init
  <2> QED  BY <2>1, <2>2, <2>3, <2>4, AbsentType, Constants DEF Init, TypeOK
<1>3. GoodEntry(EmptyFile[DOOR_KEY], minted, expiry)
  BY Constants DEF EmptyFile, GoodEntry
<1>4. cache.val = NoKey /\ answer.key = NoKey /\ NoKey \in 0..minted
  BY DEF Init, NotLoaded, NoAnswer, NoKey
<1>5. disk = EmptyFile /\ \A p \in Processes : snap[p] = EmptyFile
  BY DEF Init
<1> QED  BY <1>2, <1>3, <1>4, <1>5 DEF IInv, CopiesGood, NoExpiredKeyServed

(* No interleaving, crash or restart makes the server accept a door-key    *)
(* past the expiry it was minted with.                                     *)
THEOREM ExpiredKeyNeverServed == Spec => [](TypeOK /\ NoExpiredKeyServed)
<1>1. Init => IInv
  BY InitGood
<1>2. IInv /\ [Next]_vars => IInv'
  BY StepGood
<1> QED  BY <1>1, <1>2, PTL DEF Spec, IInv

(* The file, the caches and the commands keep their types, through crashes *)
(* inside writes and overlapping operations.                               *)
THEOREM StoreTypeCorrect == Spec => []TypeOK
BY ExpiredKeyNeverServed, PTL

(* While no two operations have overlapped: at most one process is inside  *)
(* an operation, and neither the file nor what that process is about to    *)
(* write holds a retired door-key.                                         *)
NoneRetired ==
  "overlap" \notin disturbed =>
    /\ \A p, q \in Processes : pc[p] # "idle" /\ pc[q] # "idle" => p = q
    /\ disk[DOOR_KEY].v \notin retired
    /\ \A p \in Processes : pc[p] # "idle" =>
         /\ snap[p][DOOR_KEY].v \notin retired
         /\ op[p] = [do |-> "del", key |-> DOOR_KEY]
              => snap[p][DOOR_KEY].v = NoKey

LEMMA NoKeyNotRetired ==
  ASSUME TypeOK  PROVE NoKey \notin retired /\ minted + 1 \notin retired
BY DEF TypeOK, NoKey

LEMMA LoadNotRetired ==
  ASSUME TypeOK, disk[DOOR_KEY].v \notin retired
  PROVE  Load[DOOR_KEY].v \notin retired
BY NoKeyNotRetired, Constants DEF Load, EmptyFile, Absent, NoKey

LEMMA BeginNoneRetired ==
  ASSUME IInv, NoneRetired, NEW p \in Processes, NEW k \in StoreKeys,
         BeginSet(p, k) \/ BeginDel(p, k) \/ BeginGetExpired(p, k)
  PROVE  NoneRetired'
<1> USE DEF IInv
<1> SUFFICES ASSUME "overlap" \notin disturbed'  PROVE NoneRetired'
  BY DEF NoneRetired
<1>1. /\ "overlap" \notin disturbed
      /\ \A q \in Processes : pc[q] = "idle"
  BY DEF BeginSet, BeginDel, BeginGetExpired, TouchFile
<1>2. /\ disk' = disk /\ retired' = retired
      /\ disk[DOOR_KEY].v \notin retired
      /\ pc' = [pc EXCEPT ![p] = "loaded"]
  BY <1>1 DEF BeginSet, BeginDel, BeginGetExpired, BeginWith, NoneRetired, file
<1>3. PICK o, e :
        /\ snap' = [snap EXCEPT ![p] = [Load EXCEPT ![k] = e]]
        /\ op' = [op EXCEPT ![p] = o]
        /\ o.key = k
        /\ e.v = NoKey \/ (o.do = "set" /\ (k = DOOR_KEY => e.v = minted + 1))
  <2>1. CASE BeginSet(p, k)
    <3> DEFINE o == [do |-> "set", key |-> k]
               e == [v |-> IF k = DOOR_KEY THEN minted + 1 ELSE 1,
                     exp |-> ExpiryFor(IF k = DOOR_KEY THEN KEY_TTL_SEC
                                                       ELSE TOKEN_TTL_SEC)]
    <3>1. BeginWith(p, o, [Load EXCEPT ![k] = e])
      BY <2>1 DEF BeginSet
    <3>2. o.key = k /\ o.do = "set" /\ (k = DOOR_KEY => e.v = minted + 1)
      OBVIOUS
    <3> HIDE DEF o, e
    <3> QED  BY <3>1, <3>2 DEF BeginWith
  <2>2. CASE BeginDel(p, k) \/ BeginGetExpired(p, k)
    <3>1. PICK do : BeginWith(p, [do |-> do, key |-> k], [Load EXCEPT ![k] = Absent])
      BY <2>2 DEF BeginDel, BeginGetExpired
    <3> DEFINE o == [do |-> do, key |-> k]
    <3>2. o.key = k /\ Absent.v = NoKey
      BY DEF Absent, NoKey
    <3>3. BeginWith(p, o, [Load EXCEPT ![k] = Absent])
      BY <3>1
    <3> HIDE DEF o
    <3> QED  BY <3>2, <3>3 DEF BeginWith
  <2> QED  BY <2>1, <2>2
<1>4. /\ snap'[p] = [Load EXCEPT ![k] = e]
      /\ op'[p] = o
      /\ \A q \in Processes : pc'[q] # "idle" => q = p
  BY <1>1, <1>2, <1>3 DEF TypeOK
<1>5. snap'[p][DOOR_KEY] = IF k = DOOR_KEY THEN e ELSE Load[DOOR_KEY]
  BY <1>4, LoadType, Constants
<1>6. snap'[p][DOOR_KEY].v \notin retired
  BY <1>2, <1>3, <1>5, NoKeyNotRetired, LoadNotRetired
<1>7. op'[p] = [do |-> "del", key |-> DOOR_KEY] => snap'[p][DOOR_KEY].v = NoKey
  BY <1>3, <1>4, <1>5
<1> QED  BY <1>2, <1>4, <1>6, <1>7 DEF NoneRetired

LEMMA WriteNoneRetired ==
  ASSUME IInv, NoneRetired, NEW p \in Processes, Write(p)
  PROVE  NoneRetired'
<1> USE DEF IInv
<1> SUFFICES ASSUME "overlap" \notin disturbed'  PROVE NoneRetired'
  BY DEF NoneRetired
<1>1. "overlap" \notin disturbed /\ pc[p] # "idle"
  BY DEF Write
<1>2. /\ \A q \in Processes : pc'[q] = "idle"
      /\ disk' = snap[p]
  BY <1>1 DEF Write, NoneRetired, TypeOK
<1>3. snap[p][DOOR_KEY].v \notin retired'
  <2>1. snap[p][DOOR_KEY].v \notin retired
    BY <1>1 DEF NoneRetired
  <2>2. CASE UNCHANGED retired
    BY <2>1, <2>2
  <2>3. CASE /\ op[p].key = DOOR_KEY /\ op[p].do = "set"
             /\ retired' = retired \cup (issued \ ({snap[p][DOOR_KEY].v} \ {NoKey}))
    <3>1. NoKey \notin issued
      BY DEF TypeOK, NoKey
    <3> QED  BY <2>1, <2>3, <3>1
  <2>4. CASE /\ op[p].key = DOOR_KEY /\ op[p].do = "del"
             /\ retired' = retired \cup issued
    <3>1. op[p] = [do |-> "del", key |-> DOOR_KEY]
      BY <2>4 DEF TypeOK
    <3>2. snap[p][DOOR_KEY].v = NoKey
      BY <1>1, <3>1 DEF NoneRetired
    <3>3. NoKey \notin issued
      BY DEF TypeOK, NoKey
    <3> QED  BY <2>1, <2>4, <3>2, <3>3
  <2> QED  BY <2>2, <2>3, <2>4 DEF Write
<1> QED  BY <1>2, <1>3 DEF NoneRetired

LEMMA StepNoneRetired ==
  ASSUME IInv, NoneRetired, [Next]_vars  PROVE NoneRetired'
<1> USE DEF IInv
<1>1. ASSUME NEW p \in Processes, NEW k \in StoreKeys,
             BeginSet(p, k) \/ BeginDel(p, k) \/ BeginGetExpired(p, k)
      PROVE  NoneRetired'
  BY <1>1, BeginNoneRetired
<1>2. ASSUME NEW p \in Processes, Write(p)  PROVE NoneRetired'
  BY <1>2, WriteNoneRetired
<1>3. CASE /\ UNCHANGED <<disk, retired, pc, snap, op>>
           /\ "overlap" \in disturbed => "overlap" \in disturbed'
  BY <1>3 DEF NoneRetired
<1>4. ASSUME NEW p \in Processes, Truncate(p)  PROVE NoneRetired'
  <2>1. /\ UNCHANGED <<disk, retired, snap, op, disturbed>> /\ pc[p] # "idle"
        /\ \A q \in Processes : pc'[q] # "idle" => pc[q] # "idle"
    BY <1>4 DEF Truncate, history, TypeOK
  <2> QED  BY <2>1 DEF NoneRetired
<1>5. ASSUME NEW p \in Processes, Crash(p)  PROVE NoneRetired'
  <2>1. /\ UNCHANGED <<disk, retired, op>>
        /\ "overlap" \in disturbed => "overlap" \in disturbed'
        /\ \A q \in Processes : pc'[q] # "idle" => pc[q] # "idle" /\ q # p
        /\ \A q \in Processes : q # p => snap'[q] = snap[q]
    BY <1>5 DEF Crash, file, TypeOK
  <2> QED  BY <2>1 DEF NoneRetired
<1>6. CASE GetDoorKey \/ Restart \/ Tick \/ UNCHANGED vars
  BY <1>3, <1>6 DEF GetDoorKey, TouchFile, Restart, Tick, vars, file, procs, history
<1>7. ASSUME NEW c \in Cli, Issue(c) \/ Kill(c) \/ Show(c)  PROVE NoneRetired'
  BY <1>3, <1>7 DEF Issue, Kill, Show, Start, file, history
<1>8. ASSUME NEW c \in Cli, NEW k \in StoreKeys, CliSkip(c, k)  PROVE NoneRetired'
  BY <1>3, <1>8 DEF CliSkip, file, history
<1>9. ASSUME NEW c \in Cli, NEW k \in StoreKeys, CliOp(c, k)  PROVE NoneRetired'
  BY <1>1, <1>9 DEF CliOp, Processes
<1>10. ASSUME NEW k \in StoreKeys, ServerRotate(k) \/ ServerGetToken(k)
       PROVE  NoneRetired'
  BY <1>1, <1>10, Constants DEF ServerRotate, ServerGetToken
<1> QED  BY <1>2, <1>4, <1>5, <1>6, <1>7, <1>8, <1>9, <1>10, Constants
         DEF Next, ServerNext, CliNext, StoreKeys

(* As long as store operations do not overlap, no operation of any process *)
(* brings a door-key back that issue or kill has retired, crashes or not.  *)
THEOREM RetiredKeyNeverReturns == Spec => []RetiredKeyNotInFile
<1>1. Init => IInv /\ NoneRetired
  <2>1. Init => NoneRetired
    BY DEF Init, NoneRetired
  <2> QED  BY <2>1, InitGood
<1>2. IInv /\ NoneRetired /\ [Next]_vars => (IInv /\ NoneRetired)'
  BY StepGood, StepNoneRetired
<1>3. NoneRetired => RetiredKeyNotInFile
  BY DEF NoneRetired, RetiredKeyNotInFile
<1> QED  BY <1>1, <1>2, <1>3, PTL DEF Spec

(* ... and the server loads no retired door-key into its cache.            *)
THEOREM CacheNeverTakesRetiredKey == Spec => NeverCachesRetiredKey
<1> DEFINE Step == cache' # cache /\ "overlap" \notin disturbed'
                     => cache'.val \notin retired'
<1>1. Init => IInv /\ NoneRetired
  <2>1. Init => NoneRetired
    BY DEF Init, NoneRetired
  <2> QED  BY <2>1, InitGood
<1>2. IInv /\ NoneRetired /\ [Next]_vars => (IInv /\ NoneRetired)'
  BY StepGood, StepNoneRetired
<1>3. IInv /\ NoneRetired /\ (IInv /\ NoneRetired)' /\ [Next]_vars => [Step]_vars
  <2> SUFFICES ASSUME IInv, NoneRetired, IInv', NoneRetired', Next,
                      cache' # cache, "overlap" \notin disturbed'
               PROVE  cache'.val \notin retired'
    OBVIOUS
  <2>1. NoKey \notin retired'
    BY DEF IInv, TypeOK, NoKey
  <2>2. CASE cache' = NotLoaded
    BY <2>1, <2>2 DEF NotLoaded
  <2>3. CASE GetDoorKey
    <3>1. disk[DOOR_KEY].v \notin retired /\ retired' = retired
      BY <2>3 DEF GetDoorKey, TouchFile, NoneRetired
    <3>2. cache' = CacheFrom(Load)
      BY <2>3 DEF GetDoorKey
    <3> QED  BY <2>1, <3>1, <3>2, LoadNotRetired DEF CacheFrom, IInv
  <2>4. ASSUME NEW p \in Processes, Write(p)
        PROVE  cache'.val \notin retired'
    <3>1. cache'.val = disk'[DOOR_KEY].v
      BY <2>4 DEF Write, CacheAfter
    <3> QED  BY <3>1 DEF NoneRetired
  <2>5. \/ cache' = NotLoaded \/ GetDoorKey
        \/ \E p \in Processes : Write(p)
    <3>1. ASSUME NEW p \in Processes, NEW k, 
                 BeginSet(p, k) \/ BeginDel(p, k) \/ BeginGetExpired(p, k)
          PROVE  FALSE
      BY <3>1 DEF BeginSet, BeginDel, BeginGetExpired, BeginWith
    <3>2. ASSUME NEW c \in Cli, CliNext(c)  PROVE FALSE
      BY <3>1, <3>2 DEF CliNext, CliOp, CliSkip, Issue, Kill, Show, Start, Processes
    <3>3. CASE ServerNext
      BY <3>1, <3>3, Constants DEF ServerNext, Restart, ServerRotate, ServerGetToken
    <3> QED  BY <3>2, <3>3 DEF Next, Tick, Truncate, Crash
  <2> QED  BY <2>2, <2>3, <2>4, <2>5
<1> QED  BY <1>1, <1>2, <1>3, PTL DEF Spec, NeverCachesRetiredKey

----------------------------------------------------------------------------
(* While operations neither overlap nor die half-way, each is as good as   *)
(* one step, its Write.                                                    *)

(* `show` reads the door-key without get(): only tokens are removed as     *)
(* expired.                                                                *)
GetsTokensOnly == \A p \in Processes : todo[p].do = "get" => DOOR_KEY \notin todo[p].keys

(* The file is torn while it is being written and at no other time, and    *)
(* what is going to be written differs from it in one entry.               *)
OneEntryAtATime ==
  /\ \A p \in Processes :
       pc[p] # "idle" /\ op[p].key = DOOR_KEY => op[p].do \in {"set", "del"}
  /\ disturbed = {} =>
       /\ torn => \E p \in Processes : pc[p] = "truncated"
       /\ \A p \in Processes : pc[p] = "truncated" => torn
       /\ \A p \in Processes : pc[p] # "idle" =>
            \A k \in StoreKeys \ {op[p].key} : snap[p][k] = disk[k]

CalmInv == IInv /\ NoneRetired /\ GetsTokensOnly /\ OneEntryAtATime

(* An operation of p on k begins.                                          *)
Begins(p, k) ==
  BeginSet(p, k) \/ BeginDel(p, k) \/ (k # DOOR_KEY /\ BeginGetExpired(p, k))

(* What any step is to the file and its copies.                            *)
LEMMA StepCases ==
  ASSUME TypeOK, GetsTokensOnly, [Next]_vars
  PROVE  \/ \E p \in Processes, k \in StoreKeys : Begins(p, k)
         \/ \E p \in Processes : Truncate(p) \/ Write(p) \/ Crash(p)
         \/ GetDoorKey \/ Restart \/ Tick
         \/ UNCHANGED <<now, file, cache, pc, snap, op, answer, history>>
<1>1. ASSUME NEW k \in ServerRotates, ServerRotate(k)
      PROVE  \E p \in Processes, j \in StoreKeys : Begins(p, j)
  BY <1>1, Constants DEF ServerRotate, Begins
<1>2. ASSUME NEW k \in Tokens, ServerGetToken(k)
      PROVE  \E p \in Processes, j \in StoreKeys : Begins(p, j)
  BY <1>2, Constants DEF ServerGetToken, Begins, StoreKeys
<1>3. ASSUME NEW c \in Cli, NEW k \in StoreKeys, CliOp(c, k)
      PROVE  Begins(c, k)
  BY <1>3 DEF CliOp, IsNext, Begins, GetsTokensOnly, Processes
<1>4. ASSUME NEW c \in Cli, NEW k \in StoreKeys, CliSkip(c, k)
      PROVE  UNCHANGED <<now, file, cache, pc, snap, op, answer, history>>
  BY <1>4 DEF CliSkip
<1>5. ASSUME NEW c \in Cli, Issue(c) \/ Kill(c) \/ Show(c)
      PROVE  UNCHANGED <<now, file, cache, pc, snap, op, answer, history>>
  BY <1>5 DEF Issue, Kill, Show, Start
<1>6. CASE UNCHANGED vars
  BY <1>6 DEF vars, file, history
<1> QED  BY <1>1, <1>2, <1>3, <1>4, <1>5, <1>6 DEF Next, ServerNext, CliNext, Processes

LEMMA GetsTokensStep ==
  ASSUME TypeOK, GetsTokensOnly, [Next]_vars  PROVE GetsTokensOnly'
<1>1. ASSUME NEW c \in Processes, NEW k, Done(c, k)  PROVE GetsTokensOnly'
  <2>1. \A p \in Processes \ {c} : todo'[p] = todo[p]
    BY <1>1 DEF Done, TypeOK
  <2>2. todo'[c].do = "get" => todo'[c].keys \subseteq todo[c].keys /\ todo[c].do = "get"
    BY <1>1 DEF Done, TypeOK, Nothing
  <2> QED  BY <2>1, <2>2 DEF GetsTokensOnly
<1>2. ASSUME NEW c \in Cli, NEW do, NEW keys, Start(c, do, keys),
             do = "get" => DOOR_KEY \notin keys
      PROVE  GetsTokensOnly'
  BY <1>2 DEF Start, GetsTokensOnly, TypeOK, Processes
<1>3. ASSUME NEW c \in Cli, Issue(c) \/ Kill(c) \/ Show(c)  PROVE GetsTokensOnly'
  BY <1>2, <1>3, Constants DEF Issue, Kill, Show
<1>4. ASSUME NEW p \in Processes, Crash(p)  PROVE GetsTokensOnly'
  BY <1>4 DEF Crash, GetsTokensOnly, TypeOK, Nothing
<1>5. ASSUME UNCHANGED todo  PROVE GetsTokensOnly'
  BY <1>5 DEF GetsTokensOnly
<1>6. ASSUME NEW c \in Cli, NEW k \in StoreKeys, CliOp(c, k) \/ CliSkip(c, k)
      PROVE  GetsTokensOnly'
  BY <1>1, <1>6 DEF CliOp, CliSkip, Processes
<1>7. CASE ServerNext \/ Tick \/ UNCHANGED vars
  BY <1>5, <1>7 DEF ServerNext, GetDoorKey, Restart, ServerRotate, ServerGetToken,
                    Tick, vars, procs
<1>8. ASSUME NEW p \in Processes, Truncate(p) \/ Write(p)  PROVE GetsTokensOnly'
  BY <1>5, <1>8 DEF Truncate, Write
<1> QED  BY <1>3, <1>4, <1>6, <1>7, <1>8 DEF Next, CliNext

(* An operation that begins undisturbed finds the file whole and nobody    *)
(* else at it.                                                             *)
LEMMA TouchedAlone ==
  ASSUME OneEntryAtATime, NEW p \in Processes, TouchFile(p), disturbed' = {}
  PROVE  /\ disturbed = {} /\ torn = FALSE /\ Load = disk
         /\ \A q \in Processes : pc[q] = "idle"
BY DEF TouchFile, OneEntryAtATime, Load

(* The beginning of an operation, whatever it is.                          *)
LEMMA BeginShape ==
  ASSUME TypeOK, NEW p \in Processes, NEW k \in StoreKeys, Begins(p, k)
  PROVE  /\ TouchFile(p)
         /\ pc' = [pc EXCEPT ![p] = "loaded"]
         /\ UNCHANGED <<now, disk, torn, cache, answer, issued, retired, writer>>
         /\ \E o, e : /\ op' = [op EXCEPT ![p] = o]
                      /\ snap' = [snap EXCEPT ![p] = [Load EXCEPT ![k] = e]]
                      /\ o.key = k /\ (k = DOOR_KEY => o.do \in {"set", "del"})
<1>1. CASE BeginSet(p, k)
  <2> DEFINE o == [do |-> "set", key |-> k]
             e == [v |-> IF k = DOOR_KEY THEN minted + 1 ELSE 1,
                   exp |-> ExpiryFor(IF k = DOOR_KEY THEN KEY_TTL_SEC
                                                     ELSE TOKEN_TTL_SEC)]
  <2>1. TouchFile(p) /\ BeginWith(p, o, [Load EXCEPT ![k] = e])
    BY <1>1 DEF BeginSet
  <2>2. o.key = k /\ o.do = "set"
    OBVIOUS
  <2> HIDE DEF o, e
  <2> QED  BY <2>1, <2>2 DEF BeginWith, file
<1>2. CASE BeginDel(p, k)
  <2> DEFINE o == [do |-> "del", key |-> k]
  <2>1. TouchFile(p) /\ BeginWith(p, o, [Load EXCEPT ![k] = Absent])
    BY <1>2 DEF BeginDel
  <2>2. o.key = k /\ o.do = "del"
    OBVIOUS
  <2> HIDE DEF o
  <2> QED  BY <2>1, <2>2 DEF BeginWith, file
<1>3. CASE k # DOOR_KEY /\ BeginGetExpired(p, k)
  <2> DEFINE o == [do |-> "get", key |-> k]
  <2>1. TouchFile(p) /\ BeginWith(p, o, [Load EXCEPT ![k] = Absent])
    BY <1>3 DEF BeginGetExpired
  <2>2. o.key = k
    OBVIOUS
  <2> HIDE DEF o
  <2> QED  BY <1>3, <2>1, <2>2 DEF BeginWith, file
<1> QED  BY <1>1, <1>2, <1>3 DEF Begins

LEMMA OneEntryStep ==
  ASSUME TypeOK, NoneRetired, GetsTokensOnly, OneEntryAtATime, [Next]_vars
  PROVE  OneEntryAtATime'
<1>1. ASSUME NEW p \in Processes, NEW k \in StoreKeys, Begins(p, k)
      PROVE  OneEntryAtATime'
  <2>1. PICK o, e : /\ op' = [op EXCEPT ![p] = o]
                    /\ snap' = [snap EXCEPT ![p] = [Load EXCEPT ![k] = e]]
                    /\ o.key = k /\ (k = DOOR_KEY => o.do \in {"set", "del"})
    BY <1>1, BeginShape
  <2>2. /\ TouchFile(p) /\ pc' = [pc EXCEPT ![p] = "loaded"]
        /\ disk' = disk /\ torn' = torn
    BY <1>1, BeginShape
  <2>3. /\ op'[p] = o /\ pc'[p] = "loaded" /\ snap'[p] = [Load EXCEPT ![k] = e]
        /\ \A q \in Processes \ {p} : op'[q] = op[q] /\ pc'[q] = pc[q]
    BY <2>1, <2>2 DEF TypeOK
  <2>4. \A q \in Processes :
          pc'[q] # "idle" /\ op'[q].key = DOOR_KEY => op'[q].do \in {"set", "del"}
    BY <2>1, <2>3 DEF OneEntryAtATime
  <2>5. ASSUME disturbed' = {}
        PROVE  /\ ~torn' /\ \A q \in Processes : pc'[q] # "truncated"
               /\ \A q \in Processes : pc'[q] # "idle" =>
                    \A j \in StoreKeys \ {op'[q].key} : snap'[q][j] = disk'[j]
    <3>1. ~torn /\ Load = disk /\ \A q \in Processes : pc[q] = "idle"
      BY <2>2, <2>5, TouchedAlone
    <3>2. \A j \in StoreKeys \ {k} : snap'[p][j] = disk[j]
      BY <2>3, <3>1 DEF TypeOK
    <3> QED  BY <2>1, <2>2, <2>3, <3>1, <3>2
  <2> QED  BY <2>4, <2>5 DEF OneEntryAtATime
<1>2. ASSUME NEW p \in Processes, Truncate(p)  PROVE OneEntryAtATime'
  <2>1. /\ pc[p] = "loaded" /\ torn' = TRUE /\ pc' = [pc EXCEPT ![p] = "truncated"]
        /\ UNCHANGED <<disk, snap, op, disturbed>>
    BY <1>2 DEF Truncate, history
  <2>2. /\ pc'[p] = "truncated"
        /\ \A q \in Processes : pc'[q] # "idle" => pc[q] # "idle"
    BY <2>1 DEF TypeOK
  <2> QED  BY <2>1, <2>2 DEF OneEntryAtATime
<1>3. ASSUME NEW p \in Processes, Write(p)  PROVE OneEntryAtATime'
  <2>1. /\ pc[p] = "truncated" /\ pc' = [pc EXCEPT ![p] = "idle"]
        /\ torn' \in IF torn THEN {FALSE} ELSE BOOLEAN
        /\ UNCHANGED <<op, disturbed>>
    BY <1>3 DEF Write
  <2>2. /\ pc'[p] = "idle" /\ \A q \in Processes \ {p} : pc'[q] = pc[q]
    BY <2>1 DEF TypeOK
  <2>3. ASSUME disturbed = {}
        PROVE  ~torn' /\ \A q \in Processes : pc'[q] = "idle"
    BY <2>1, <2>2, <2>3 DEF OneEntryAtATime, NoneRetired
  <2> QED  BY <2>1, <2>2, <2>3 DEF OneEntryAtATime
<1>4. ASSUME NEW p \in Processes, Crash(p)  PROVE OneEntryAtATime'
  <2>1. /\ UNCHANGED <<disk, torn, op>> /\ pc' = [pc EXCEPT ![p] = "idle"]
        /\ \A q \in Processes \ {p} : snap'[q] = snap[q]
    BY <1>4 DEF Crash, file, TypeOK
  <2>2. /\ pc'[p] = "idle" /\ \A q \in Processes \ {p} : pc'[q] = pc[q]
    BY <2>1 DEF TypeOK
  <2>3. disturbed' = {} => disturbed = {} /\ pc[p] # "truncated"
    BY <1>4 DEF Crash
  <2> QED  BY <2>1, <2>2, <2>3 DEF OneEntryAtATime
<1>5. CASE GetDoorKey \/ Restart \/ Tick
  <2>1. UNCHANGED <<disk, torn, pc, snap, op>> /\ (disturbed' = {} => disturbed = {})
    BY <1>5 DEF GetDoorKey, TouchFile, Restart, Tick, file, procs, history
  <2> QED  BY <2>1 DEF OneEntryAtATime
<1>6. CASE UNCHANGED <<now, file, cache, pc, snap, op, answer, history>>
  BY <1>6 DEF OneEntryAtATime, file, history
<1> QED  BY <1>1, <1>2, <1>3, <1>4, <1>5, <1>6, StepCases

LEMMA CalmAlways == Spec => []CalmInv
<1>1. Init => CalmInv
  <2>1. Init => NoneRetired /\ GetsTokensOnly /\ OneEntryAtATime
    BY Constants DEF Init, NoneRetired, GetsTokensOnly, OneEntryAtATime, Nothing
  <2> QED  BY <2>1, InitGood DEF CalmInv
<1>2. CalmInv /\ [Next]_vars => CalmInv'
  BY StepGood, StepNoneRetired, GetsTokensStep, OneEntryStep DEF CalmInv, IInv
<1> QED  BY <1>1, <1>2, PTL DEF Spec

(* A write that nothing disturbs changes one entry.  If that is the        *)
(* door-key's, its writer is known, and the cache follows the server's.    *)
LEMMA CalmWrite ==
  ASSUME CalmInv, NEW p \in Processes, Write(p), disturbed' = {}
  PROVE  /\ disturbed = {}
         /\ UNCHANGED <<now, answer, minted, expiry>>
         /\ \A k \in StoreKeys \ {op[p].key} : disk'[k] = disk[k]
         /\ IF op[p].key = DOOR_KEY
              THEN /\ writer' = p
                   /\ cache' = IF p = "server" THEN Atomic!Copy(disk'[DOOR_KEY]) ELSE cache
                   /\ \A v \in issued' \ retired' : v = disk'[DOOR_KEY].v
              ELSE UNCHANGED <<cache, issued, retired, writer>>
<1>1. /\ pc[p] # "idle" /\ disk' = snap[p] /\ cache' = CacheAfter(p)
      /\ UNCHANGED <<now, answer, minted, expiry, disturbed>>
  BY DEF Write
<1>2. /\ \A k \in StoreKeys \ {op[p].key} : snap[p][k] = disk[k]
      /\ op[p].key = DOOR_KEY => op[p].do \in {"set", "del"}
  BY <1>1 DEF CalmInv, OneEntryAtATime
<1>3. CASE op[p].key = DOOR_KEY
  <2>1. /\ writer' = p
        /\ \/ /\ op[p].do = "set"
              /\ issued' = issued \cup ({snap[p][DOOR_KEY].v} \ {NoKey})
              /\ retired' = retired \cup (issued \ ({snap[p][DOOR_KEY].v} \ {NoKey}))
           \/ /\ op[p].do = "del"
              /\ issued' = issued /\ retired' = retired \cup issued
    BY <1>2, <1>3 DEF Write
  <2>2. cache' = IF p = "server" THEN Atomic!Copy(disk'[DOOR_KEY]) ELSE cache
    BY <1>1, <1>2, <1>3 DEF CacheAfter, Atomic!Copy
  <2>3. \A v \in issued' \ retired' : v = disk'[DOOR_KEY].v
    BY <1>1, <2>1
  <2> QED  BY <1>1, <1>2, <1>3, <2>1, <2>2, <2>3
<1>4. CASE op[p].key # DOOR_KEY
  BY <1>1, <1>2, <1>4 DEF Write, CacheAfter
<1> QED  BY <1>3, <1>4

(* The steps other than Write leave the file and who issued what alone.    *)
LEMMA FileStays ==
  ASSUME TypeOK, GetsTokensOnly, [Next]_vars, \A p \in Processes : ~Write(p)
  PROVE  /\ UNCHANGED <<disk, issued, retired, writer>>
         /\ disturbed' = {} => disturbed = {}
         /\ \A v \in 1..minted : expiry'[v] = expiry[v]
<1>1. ASSUME NEW p \in Processes, NEW k \in StoreKeys, Begins(p, k)
      PROVE  /\ UNCHANGED <<disk, issued, retired, writer>>
             /\ disturbed' = {} => disturbed = {}
             /\ \A v \in 1..minted : expiry'[v] = expiry[v]
  <2>1. UNCHANGED <<disk, issued, retired, writer>> /\ TouchFile(p)
    BY <1>1, BeginShape
  <2>2. \/ UNCHANGED expiry
        \/ expiry' = [expiry EXCEPT ![minted + 1] = ExpiryFor(KEY_TTL_SEC)]
    BY <1>1 DEF Begins, BeginSet, BeginDel, BeginGetExpired
  <2>3. \A v \in 1..minted : expiry'[v] = expiry[v]
    <3>1. minted \in 0..MAX_KEYS /\ expiry \in [1..MAX_KEYS -> Nat] /\ MAX_KEYS \in Nat
      BY Constants DEF TypeOK
    <3>2. \A v \in 1..minted : v \in 1..MAX_KEYS /\ v # minted + 1
      BY <3>1
    <3> QED  BY <2>2, <3>1, <3>2
  <2> QED  BY <2>1, <2>3 DEF TouchFile
<1>2. ASSUME NEW p \in Processes, Truncate(p) \/ Crash(p)
      PROVE  /\ UNCHANGED <<disk, issued, retired, writer, expiry>>
             /\ disturbed' = {} => disturbed = {}
  BY <1>2 DEF Truncate, Crash, file, history
<1>3. CASE GetDoorKey \/ Restart \/ Tick \/
           UNCHANGED <<now, file, cache, pc, snap, op, answer, history>>
  BY <1>3 DEF GetDoorKey, TouchFile, Restart, Tick, file, procs, history
<1> QED  BY <1>1, <1>2, <1>3, StepCases

(* An issued door-key that nothing retired is in the file, with the expiry *)
(* it was minted with, whatever is done to other entries in between, as    *)
(* long as operations neither overlap nor die with the file truncated.     *)
THEOREM IssuedKeyStays == Spec => []IssuedKeyPersists
<1>1. Init => IssuedKeyPersists
  BY DEF Init, IssuedKeyPersists
<1>2. CalmInv /\ CalmInv' /\ IssuedKeyPersists /\ [Next]_vars => IssuedKeyPersists'
  <2> SUFFICES ASSUME CalmInv, CalmInv', IssuedKeyPersists, [Next]_vars,
                      disturbed' = {}, NEW v \in issued' \ retired'
               PROVE  disk'[DOOR_KEY] = [v |-> v, exp |-> expiry'[v]]
    BY DEF IssuedKeyPersists
  <2>1. ASSUME NEW p \in Processes, Write(p)
        PROVE  disk'[DOOR_KEY] = [v |-> v, exp |-> expiry'[v]]
    <3>1. CASE op[p].key = DOOR_KEY
      <4>1. v = disk'[DOOR_KEY].v /\ v # 0
        BY <2>1, <3>1, CalmWrite DEF CalmInv, IInv, TypeOK
      <4>2. disk'[DOOR_KEY] \in Entries /\ GoodEntry(disk'[DOOR_KEY], minted', expiry')
        BY Constants DEF CalmInv, IInv, TypeOK, CopiesGood
      <4>3. disk'[DOOR_KEY].exp = expiry'[v]
        BY <4>1, <4>2 DEF GoodEntry, Absent
      <4> QED  BY <4>1, <4>2, <4>3 DEF Entries
    <3>2. CASE op[p].key # DOOR_KEY
      <4>1. /\ disk'[DOOR_KEY] = disk[DOOR_KEY] /\ disturbed = {}
            /\ UNCHANGED <<issued, retired, expiry>>
        BY <2>1, <3>2, CalmWrite, Constants
      <4> QED  BY <4>1 DEF IssuedKeyPersists
    <3> QED  BY <3>1, <3>2
  <2>2. CASE \A p \in Processes : ~Write(p)
    <3>1. /\ UNCHANGED <<disk, issued, retired>> /\ disturbed = {}
          /\ \A w \in 1..minted : expiry'[w] = expiry[w]
      BY <2>2, FileStays DEF CalmInv, IInv
    <3>2. v \in 1..minted
      BY <3>1 DEF CalmInv, IInv, TypeOK
    <3> QED  BY <3>1, <3>2 DEF IssuedKeyPersists
  <2> QED  BY <2>1, <2>2
<1> QED  BY <1>1, <1>2, CalmAlways, PTL DEF Spec

(* What a request is answered with when the server looks at an undisturbed *)
(* file.                                                                   *)
LEMMA CalmAnswer ==
  ASSUME CalmInv, GetDoorKey, disturbed' = {}
  PROVE  /\ disturbed = {} /\ cache'.loaded
         /\ UNCHANGED <<now, disk, writer, issued, retired>>
         /\ answer' = [key |-> cache'.val, time |-> now]
         /\ IF CacheHit THEN UNCHANGED cache ELSE cache' = CacheFrom(disk)
<1>1. CASE CacheHit /\ UNCHANGED cache /\ UNCHANGED disturbed
  BY <1>1 DEF GetDoorKey, CacheHit, file
<1>2. CASE ~CacheHit /\ TouchFile("server") /\ cache' = CacheFrom(Load)
  <2>1. disturbed = {} /\ Load = disk
    BY <1>2, TouchedAlone, Constants DEF CalmInv
  <2> QED  BY <1>2, <2>1 DEF GetDoorKey, CacheFrom, file
<1> QED  BY <1>1, <1>2 DEF GetDoorKey

(* The server's cache agrees with the file, or has found its key expired,  *)
(* after whatever the server itself does to the door-key, until another    *)
(* process changes it.                                                     *)
THEOREM OwnWritesAreSeen == Spec => []ServerSeesOwnWrites
<1>1. Init => ServerSeesOwnWrites
  BY DEF Init, ServerSeesOwnWrites, NotLoaded
<1>2. CalmInv /\ CalmInv' /\ ServerSeesOwnWrites /\ [Next]_vars => ServerSeesOwnWrites'
  <2> SUFFICES ASSUME CalmInv, CalmInv', ServerSeesOwnWrites, [Next]_vars,
                      disturbed' = {}, cache'.loaded, writer' = "server"
               PROVE  \/ cache'.val = disk'[DOOR_KEY].v
                      \/ cache'.val = NoKey /\ Expired(disk[DOOR_KEY])'
    BY DEF ServerSeesOwnWrites
  <2>1. ASSUME NEW p \in Processes, Write(p)
        PROVE  \/ cache'.val = disk'[DOOR_KEY].v
               \/ cache'.val = NoKey /\ Expired(disk[DOOR_KEY])'
    <3>1. CASE op[p].key = DOOR_KEY
      BY <2>1, <3>1, CalmWrite DEF Atomic!Copy
    <3>2. CASE op[p].key # DOOR_KEY
      <4>1. /\ disk'[DOOR_KEY] = disk[DOOR_KEY] /\ disturbed = {}
            /\ UNCHANGED <<cache, writer, now>>
        BY <2>1, <3>2, CalmWrite, Constants
      <4> QED  BY <4>1 DEF ServerSeesOwnWrites, Expired
    <3> QED  BY <3>1, <3>2
  <2>2. CASE GetDoorKey
    <3>1. /\ disturbed = {} /\ UNCHANGED <<now, disk, writer>>
          /\ IF CacheHit THEN UNCHANGED cache ELSE cache' = CacheFrom(disk)
      BY <2>2, CalmAnswer
    <3>2. CASE CacheHit
      BY <3>1, <3>2 DEF CacheHit, ServerSeesOwnWrites, Expired
    <3>3. CASE ~CacheHit
      BY <3>1, <3>3 DEF CacheFrom, Absent, NoKey, Expired
    <3> QED  BY <3>2, <3>3
  <2>3. CASE /\ UNCHANGED <<disk, writer, cache>> /\ disturbed = {}
             /\ now' \in {now, now + 1}
    <3>1. now \in Nat /\ disk[DOOR_KEY].exp \in Nat
      BY Constants DEF CalmInv, IInv, TypeOK, Entries
    <3> QED  BY <2>3, <3>1 DEF ServerSeesOwnWrites, Expired
  <2>4. CASE cache' = NotLoaded
    BY <2>4 DEF NotLoaded
  <2>5. ASSUME NEW p \in Processes, NEW k \in StoreKeys, Begins(p, k)
        PROVE  UNCHANGED <<disk, writer, cache, now>> /\ disturbed = {}
    BY <2>5, BeginShape DEF TouchFile, CalmInv, IInv
  <2>6. ASSUME NEW p \in Processes, Truncate(p) \/ Crash(p)
        PROVE  \/ cache' = NotLoaded
               \/ UNCHANGED <<disk, writer, cache, now>> /\ disturbed = {}
    BY <2>6 DEF Truncate, Crash, file, history
  <2>7. CASE Restart \/ Tick \/ UNCHANGED <<now, file, cache, pc, snap, op, answer, history>>
    BY <2>3, <2>4, <2>7 DEF Restart, Tick, file, history
  <2> QED  BY <2>1, <2>2, <2>3, <2>4, <2>5, <2>6, <2>7, StepCases DEF CalmInv, IInv
<1> QED  BY <1>1, <1>2, CalmAlways, PTL DEF Spec

(* Undisturbed, the store is one whose operations are single steps:        *)
(* loading, truncating and a process' own copy of the file cannot be told  *)
(* from outside.                                                           *)
THEOREM StoreIsAtomic == Spec => ImplementsAtomicStore
<1>1. Init => Atomic!AtomicInit
  BY DEF Init, Atomic!AtomicInit, EmptyFile, Absent, NotLoaded, NoAnswer, NoKey,
         Atomic!NoEntry, Atomic!NoCopy, Atomic!NotAsked
<1>2. CalmInv /\ CalmInv' /\ [Next]_vars => [Atomic!AtomicNext]_(Atomic!avars)
  <2> SUFFICES ASSUME CalmInv, CalmInv', [Next]_vars
               PROVE  Atomic!AtomicNext \/ UNCHANGED Atomic!avars
    OBVIOUS
  <2>1. CASE disturbed' # {}
    BY <2>1 DEF Atomic!AtomicNext, Atomic!Disturbed
  <2>2. ASSUME disturbed' = {}, NEW p \in Processes, Write(p)  PROVE Atomic!AtomicNext
    <3>1. disk \in [StoreKeys -> Entries] /\ disk' \in [StoreKeys -> Entries]
      BY DEF CalmInv, IInv, TypeOK
    <3>2. op[p].key \in StoreKeys
      BY DEF CalmInv, IInv, TypeOK
    <3>3. /\ disturbed = {} /\ UNCHANGED <<now, answer>>
          /\ \A k \in StoreKeys \ {op[p].key} : disk'[k] = disk[k]
      BY <2>2, CalmWrite
    <3>4. Atomic!OnlyChanged(op[p].key)
      BY <3>1, <3>2, <3>3 DEF Atomic!OnlyChanged
    <3>5. CASE op[p].key = DOOR_KEY
      <4>1. /\ writer' = p
            /\ cache' = IF p = "server" THEN Atomic!Copy(disk'[DOOR_KEY]) ELSE cache
        BY <2>2, <3>5, CalmWrite
      <4>2. \/ (writer' = "server") = TRUE /\ cache' = Atomic!Copy(disk'[DOOR_KEY])
            \/ (writer' = "server") = FALSE /\ UNCHANGED cache
        BY <4>1
      <4>3. Atomic!ChangeDoorKey
        BY <2>2, <3>3, <3>4, <3>5, <4>2 DEF Atomic!ChangeDoorKey
      <4> QED  BY <4>3 DEF Atomic!AtomicNext
    <3>6. CASE op[p].key # DOOR_KEY
      <4>1. UNCHANGED <<cache, writer>>
        BY <2>2, <3>6, CalmWrite
      <4>2. Atomic!ChangeToken(op[p].key)
        BY <2>2, <3>3, <3>4, <4>1 DEF Atomic!ChangeToken
      <4> QED  BY <3>2, <3>6, <4>2 DEF Atomic!AtomicNext
    <3> QED  BY <3>5, <3>6
  <2>3. CASE disturbed' = {} /\ GetDoorKey
    <3>1. /\ disturbed = {} /\ UNCHANGED <<now, disk, writer>>
          /\ answer' = [key |-> cache'.val, time |-> now]
          /\ IF CacheHit THEN UNCHANGED cache ELSE cache' = CacheFrom(disk)
      BY <2>3, CalmAnswer
    <3>2. CacheHit <=> Atomic!Fresh
      BY DEF CacheHit, Atomic!Fresh
    <3>3. CacheFrom(disk) = IF Atomic!Lapsed(disk[DOOR_KEY]) THEN Atomic!Copy(Atomic!NoEntry)
                            ELSE Atomic!Copy(disk[DOOR_KEY])
      <4>1. Atomic!Lapsed(disk[DOOR_KEY]) <=> Expired(disk[DOOR_KEY])
        BY DEF Atomic!Lapsed, Expired
      <4>2. Atomic!Copy(Atomic!NoEntry) = [val |-> NoKey, exp |-> 0, loaded |-> TRUE]
        BY DEF Atomic!Copy, Atomic!NoEntry
      <4>3. CASE disk[DOOR_KEY] = Absent
        BY <4>1, <4>2, <4>3 DEF CacheFrom, Absent, NoKey, Atomic!Copy
      <4>4. CASE disk[DOOR_KEY] # Absent
        BY <4>1, <4>2, <4>4 DEF CacheFrom, Atomic!Copy
      <4> QED  BY <4>3, <4>4
    <3>4. Atomic!Answer
      BY <2>3, <3>1, <3>2, <3>3 DEF Atomic!Answer
    <3> QED  BY <3>4 DEF Atomic!AtomicNext
  <2>4. ASSUME disturbed' = {}, UNCHANGED <<now, disk, writer>>, disturbed = {},
               cache' = NotLoaded, answer' = NoAnswer
        PROVE  Atomic!AtomicNext
    BY <2>4 DEF Atomic!AtomicNext, Atomic!NewServer, NotLoaded, NoAnswer,
                Atomic!NoCopy, Atomic!NotAsked
  <2>5. ASSUME disturbed' = {}, Restart  PROVE Atomic!AtomicNext
    BY <2>4, <2>5 DEF Restart, file, history
  <2>6. ASSUME disturbed' = {}, NEW p \in Processes, Crash(p)
        PROVE  Atomic!AtomicNext \/ UNCHANGED Atomic!avars
    <3>1. disturbed = {} /\ UNCHANGED <<now, disk, writer>>
      BY <2>6 DEF Crash, file
    <3>2. CASE p = "server"
      BY <2>4, <2>6, <3>1, <3>2 DEF Crash
    <3>3. CASE p # "server"
      BY <2>6, <3>1, <3>3 DEF Crash, Atomic!avars
    <3> QED  BY <3>2, <3>3
  <2>7. ASSUME disturbed' = {}, Tick  PROVE Atomic!AtomicNext
    <3>1. now' > now
      BY <2>7 DEF Tick, CalmInv, IInv, TypeOK
    <3> QED  BY <2>7, <3>1 DEF Tick, file, history, Atomic!AtomicNext, Atomic!Pass
  <2>8. ASSUME disturbed' = {}, NEW p \in Processes, NEW k \in StoreKeys, Begins(p, k)
        PROVE  UNCHANGED Atomic!avars
    <3>1. UNCHANGED <<now, disk, cache, answer, writer>> /\ disturbed = {}
      BY <2>8, BeginShape DEF TouchFile, CalmInv, IInv
    <3> QED  BY <2>8, <3>1 DEF Atomic!avars
  <2>9. ASSUME NEW p \in Processes, Truncate(p)  PROVE UNCHANGED Atomic!avars
    BY <2>9 DEF Truncate, history, Atomic!avars
  <2>10. CASE UNCHANGED <<now, file, cache, pc, snap, op, answer, history>>
    BY <2>10 DEF file, history, Atomic!avars
  <2> QED  BY <2>1, <2>2, <2>3, <2>5, <2>6, <2>7, <2>8, <2>9, <2>10, StepCases
           DEF CalmInv, IInv
<1> QED  BY <1>1, <1>2, CalmAlways, PTL DEF Spec, ImplementsAtomicStore, Atomic!AtomicSpec

----------------------------------------------------------------------------
(* The server's own changes.  What a running server gets wrong             *)
(* (RetiredKeyNotServed and IssueActivates) takes another process.         *)

(* The answers change when a request asks, and when a new server starts.   *)
LEMMA AnswerChanges ==
  ASSUME TypeOK, GetsTokensOnly, [Next]_vars, answer' # answer
  PROVE  GetDoorKey \/ answer' = NoAnswer
<1>1. ASSUME NEW p \in Processes, NEW k \in StoreKeys, Begins(p, k)
      PROVE  UNCHANGED answer
  BY <1>1, BeginShape
<1>2. ASSUME NEW p \in Processes, Truncate(p) \/ Write(p)  PROVE UNCHANGED answer
  BY <1>2 DEF Truncate, Write
<1>3. ASSUME NEW p \in Processes, Crash(p)  PROVE answer' = answer \/ answer' = NoAnswer
  BY <1>3 DEF Crash
<1>4. CASE Restart \/ Tick
  BY <1>4 DEF Restart, Tick
<1> QED  BY <1>1, <1>2, <1>3, <1>4, StepCases

(* The door-key in the file, if it is valid.                               *)
ValidKey == IF Expired(disk[DOOR_KEY]) THEN NoKey ELSE disk[DOOR_KEY].v

(* A copy that agrees with the file and has not lapsed is valid.           *)
LEMMA AgreeingHitIsValid ==
  ASSUME CalmInv, ServerSeesOwnWrites, CacheHit, disturbed = {}, writer = "server"
  PROVE  cache.val = ValidKey
<1>1. \/ cache.val = disk[DOOR_KEY].v
      \/ cache.val = NoKey /\ Expired(disk[DOOR_KEY])
  BY DEF ServerSeesOwnWrites, CacheHit
<1>2. CASE cache.val = disk[DOOR_KEY].v /\ cache.val # NoKey
  <2>1. cache.exp = disk[DOOR_KEY].exp
    BY <1>2 DEF CalmInv, IInv, CopiesGood, GoodEntry, Absent, NoKey
  <2>2. ~Expired(disk[DOOR_KEY])
    BY <2>1 DEF CacheHit, Expired, CalmInv, IInv, TypeOK
  <2> QED  BY <1>2, <2>2 DEF ValidKey
<1> QED  BY <1>1, <1>2 DEF ValidKey

(* Undisturbed, and with the door-key last changed by the server itself,   *)
(* every request is authenticated with exactly the key that is in the file *)
(* and valid, or with none if there is none.                               *)
THEOREM OwnKeyIsServed ==
  Spec => [][answer' \notin {answer, NoAnswer} /\ disturbed' = {} /\ writer = "server"
               => answer'.key = ValidKey]_vars
<1>1. CalmInv /\ ServerSeesOwnWrites /\ [Next]_vars
        => [answer' \notin {answer, NoAnswer} /\ disturbed' = {} /\ writer = "server"
              => answer'.key = ValidKey]_vars
  <2> SUFFICES ASSUME CalmInv, ServerSeesOwnWrites, [Next]_vars, disturbed' = {},
                      answer' \notin {answer, NoAnswer}, writer = "server"
               PROVE  answer'.key = ValidKey
    OBVIOUS
  <2>1. GetDoorKey
    BY AnswerChanges DEF CalmInv, IInv
  <2>2. /\ disturbed = {} /\ answer'.key = cache'.val
        /\ IF CacheHit THEN UNCHANGED cache ELSE cache' = CacheFrom(disk)
    BY <2>1, CalmAnswer
  <2>3. CASE CacheHit
    BY <2>2, <2>3, AgreeingHitIsValid
  <2>4. CASE ~CacheHit
    BY <2>2, <2>4 DEF CacheFrom, ValidKey, Absent, NoKey
  <2> QED  BY <2>3, <2>4
<1> QED  BY <1>1, CalmAlways, OwnWritesAreSeen, PTL DEF Spec

LEMMA SoleWriter == ASSUME Cli = {}  PROVE Spec => [](writer = "server")
<1>1. TypeOK => writer = "server"
  BY DEF TypeOK, Processes
<1> QED  BY <1>1, StoreTypeCorrect, PTL

(* With no other process, the server never accepts a door-key it has       *)
(* replaced.                                                               *)
THEOREM AloneRetiresAtOnce == Cli = {} => (Spec => RetiredKeyNotServed)
<1> SUFFICES ASSUME Cli = {}  PROVE Spec => RetiredKeyNotServed
  OBVIOUS
<1>1. CalmInv /\ CalmInv' /\ writer = "server" /\ [Next]_vars
        /\ [answer' \notin {answer, NoAnswer} /\ disturbed' = {} /\ writer = "server"
              => answer'.key = ValidKey]_vars
        => [answer' # answer /\ disturbed' = {} => answer'.key \notin retired]_vars
  <2> SUFFICES ASSUME CalmInv, CalmInv', [Next]_vars, answer' # answer, disturbed' = {},
                      answer' # NoAnswer => answer'.key = ValidKey
               PROVE  answer'.key \notin retired
    OBVIOUS
  <2>1. NoKey \notin retired
    BY DEF CalmInv, IInv, TypeOK, NoKey
  <2>2. CASE answer' = NoAnswer
    BY <2>1, <2>2 DEF NoAnswer
  <2>3. CASE GetDoorKey /\ answer' # NoAnswer
    <3>1. disturbed = {}
      BY <2>3, CalmAnswer
    <3> QED  BY <2>1, <2>3, <3>1 DEF ValidKey, CalmInv, NoneRetired
  <2> QED  BY <2>2, <2>3, AnswerChanges DEF CalmInv, IInv
<1> QED  BY <1>1, CalmAlways, SoleWriter, OwnKeyIsServed, PTL DEF Spec, RetiredKeyNotServed

(* With no other process, the server answers with a key it has set as long *)
(* as that is valid.                                                       *)
THEOREM AloneActivatesAtOnce == Cli = {} => (Spec => IssueActivates)
<1> SUFFICES ASSUME Cli = {}  PROVE Spec => IssueActivates
  OBVIOUS
<1> DEFINE Step ==
      (answer' \notin {answer, NoAnswer} /\ answer'.key = NoKey /\ disturbed' = {})
        => ~ \E v \in issued \ retired : disk[DOOR_KEY].v = v
                                         /\ ~Expired(disk[DOOR_KEY])
<1>1. TypeOK /\ writer = "server"
        /\ [answer' \notin {answer, NoAnswer} /\ disturbed' = {} /\ writer = "server"
              => answer'.key = ValidKey]_vars
        => [Step]_vars
  BY DEF ValidKey, TypeOK, NoKey
<1> QED  BY <1>1, StoreTypeCorrect, SoleWriter, OwnKeyIsServed, PTL DEF IssueActivates
============================================================================
