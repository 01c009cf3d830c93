-------------------------- MODULE NonceRingProofs --------------------------
(***************************************************************************)
(* Proofs about NonceRing, for every set of nonces, retention period, cap  *)
(* and clock.                                                              *)
(***************************************************************************)
EXTENDS NonceRing, FiniteSetTheorems, WellFoundedInduction, TLAPS

(* A Map of the shape nonceSeen works on.                                  *)
MapOK(m) ==
  /\ DOMAIN m \subseteq Nonces
  /\ IsFiniteSet(DOMAIN m)
  /\ m \in [DOMAIN m -> [exp : Nat, at : Nat]]

(* A non-empty Map has an oldest entry.                                    *)
LEMMA OldestExists ==
  ASSUME NEW m, MapOK(m), DOMAIN m # {}
  PROVE  \E k \in DOMAIN m : IsOldest(m, k)
<1> DEFINE Places == {m[k].at : k \in DOMAIN m}
<1>1. Places \subseteq Nat /\ Places # {}
  BY DEF MapOK
<1>2. PICK p \in Places : \A q \in Places : ~(<<q, p>> \in OpToRel(<, Nat))
  <2> HIDE DEF Places
  <2> QED  BY <1>1, NatLessThanWellFounded, WFMin
<1>3. \A q \in Places : p <= q
  <2>1. \A q \in Places : ~(q < p)
    BY <1>1, <1>2 DEF OpToRel
  <2> QED  BY <1>1, <2>1
<1> QED  BY <1>3 DEF IsOldest

(* What the sweep keeps is unchanged, and what it removes is expired.      *)
LEMMA SweptKeepsLive ==
  ASSUME NEW m, MapOK(m)
  PROVE  /\ MapOK(Swept(m))
         /\ DOMAIN Swept(m) \subseteq DOMAIN m
         /\ \A k \in DOMAIN Swept(m) : Swept(m)[k] = m[k]
         /\ \A k \in DOMAIN m : Live(m[k]) => k \in DOMAIN Swept(m)
<1>1. DOMAIN Swept(m) = DOMAIN m \ ExpiredHead(m)
  BY DEF Swept, Without
<1>2. \A k \in DOMAIN Swept(m) : Swept(m)[k] = m[k]
  BY DEF Swept, Without
<1>3. IsFiniteSet(DOMAIN Swept(m))
  BY <1>1, FS_Subset DEF MapOK
<1>4. \A k \in DOMAIN m : Live(m[k]) => k \notin ExpiredHead(m)
  BY DEF ExpiredHead, MapOK
<1>5. MapOK(Swept(m))
  BY <1>1, <1>2, <1>3 DEF MapOK, Swept, Without
<1> QED  BY <1>1, <1>2, <1>4, <1>5

(* After the sweep the front of the Map is live: the deleting branch of    *)
(* the cap loop has nothing to delete.                                     *)
LEMMA SweptHeadIsLive ==
  ASSUME NEW m, MapOK(m), DOMAIN Swept(m) # {}
  PROVE  \E k \in DOMAIN Swept(m) : IsOldest(Swept(m), k) /\ Live(Swept(m)[k])
<1>1. PICK k \in DOMAIN Swept(m) : IsOldest(Swept(m), k)
  BY OldestExists, SweptKeepsLive
<1>2. k \in DOMAIN m /\ k \notin ExpiredHead(m)
  BY DEF Swept, Without
<1>3. PICK j \in DOMAIN m : m[j].at <= m[k].at /\ Live(m[j])
  BY <1>2 DEF ExpiredHead
<1>4. j \in DOMAIN Swept(m) /\ Swept(m)[j] = m[j] /\ Swept(m)[k] = m[k]
  BY <1>3, SweptKeepsLive
<1>5. IsOldest(Swept(m), j)
  <2>1. \A i \in DOMAIN Swept(m) : Swept(m)[i].at \in Nat
    BY SweptKeepsLive DEF MapOK
  <2> QED  BY <1>1, <1>3, <1>4, <2>1 DEF IsOldest
<1> QED  BY <1>3, <1>4, <1>5

(* What a call does to the Map before it answers or inserts.               *)
LEMMA CleanedMap ==
  ASSUME TypeOK, NEW n \in Nonces
  PROVE  /\ MapOK(Cleaned(n))
         /\ DOMAIN Cleaned(n) \subseteq DOMAIN nonces \ {n}
         /\ \A k \in DOMAIN Cleaned(n) : Cleaned(n)[k] = nonces[k]
         /\ \A k \in DOMAIN nonces :
              k # n /\ Live(nonces[k]) => k \in DOMAIN Cleaned(n)
         /\ Cardinality(DOMAIN Cleaned(n)) >= NONCE_MAX /\ DOMAIN Cleaned(n) # {}
              => OverCapacity(Cleaned(n))
<1> DEFINE m == Without(nonces, {n})
<1>1. DOMAIN m = DOMAIN nonces \ {n} /\ \A k \in DOMAIN m : m[k] = nonces[k]
  BY DEF Without
<1>2. MapOK(m)
  <2>1. IsFiniteSet(DOMAIN m)
    BY <1>1, FS_RemoveElement DEF TypeOK
  <2> QED  BY <1>1, <2>1 DEF MapOK, TypeOK, Without
<1>3. Cleaned(n) = Swept(m)
  BY DEF Cleaned
<1>4. /\ MapOK(Swept(m))
      /\ DOMAIN Swept(m) \subseteq DOMAIN m
      /\ \A k \in DOMAIN Swept(m) : Swept(m)[k] = m[k]
      /\ \A k \in DOMAIN m : Live(m[k]) => k \in DOMAIN Swept(m)
  <2> HIDE DEF m
  <2> QED  BY <1>2, SweptKeepsLive
<1>5. Cardinality(DOMAIN Swept(m)) >= NONCE_MAX /\ DOMAIN Swept(m) # {}
        => OverCapacity(Swept(m))
  <2> HIDE DEF m
  <2> QED  BY <1>2, SweptHeadIsLive DEF OverCapacity
<1> HIDE DEF m
<1> QED  BY <1>1, <1>3, <1>4, <1>5

----------------------------------------------------------------------------

LEMMA EmptyMap == DOMAIN Empty = {} /\ IsFiniteSet({}) /\ Cardinality({}) = 0
BY FS_EmptySet DEF Empty

(* What Remember leaves in the Map.                                        *)
LEMMA InsertedMap ==
  ASSUME TypeOK, NEW n \in Nonces
  PROVE  LET m == Cleaned(n)
             r == Inserted(m, n)
         IN  /\ MapOK(r)
             /\ DOMAIN r = DOMAIN m \cup {n}
             /\ Cardinality(DOMAIN r) = Cardinality(DOMAIN m) + 1
             /\ r[n] = [exp |-> now + NONCE_TTL_SEC, at |-> inserted]
             /\ \A k \in DOMAIN m : k # n /\ r[k] = nonces[k]
<1> DEFINE m == Cleaned(n)
           r == Inserted(m, n)
<1>1. /\ MapOK(m)
      /\ n \notin DOMAIN m
      /\ \A k \in DOMAIN m : m[k] = nonces[k]
  BY CleanedMap
<1> HIDE DEF m
<1>2. DOMAIN r = DOMAIN m \cup {n}
  BY DEF Inserted
<1>3. /\ IsFiniteSet(DOMAIN r)
      /\ Cardinality(DOMAIN r) = Cardinality(DOMAIN m) + 1
  BY <1>1, <1>2, FS_AddElement DEF MapOK
<1>4. [exp |-> now + NONCE_TTL_SEC, at |-> inserted] \in [exp : Nat, at : Nat]
  BY NonceAssumption DEF TypeOK
<1>5. MapOK(r)
  BY <1>1, <1>2, <1>3, <1>4 DEF MapOK, Inserted
<1>6. /\ r[n] = [exp |-> now + NONCE_TTL_SEC, at |-> inserted]
      /\ \A k \in DOMAIN m : k # n /\ r[k] = nonces[k]
  BY <1>1 DEF Inserted
<1> QED  BY <1>2, <1>3, <1>5, <1>6 DEF m

(* Every variable of the ring keeps its type, whatever the clock does.     *)
THEOREM TypeCorrect == Spec => []TypeOK
<1>1. Init => TypeOK
  BY EmptyMap DEF Init, TypeOK, Never, Empty
<1>2. TypeOK /\ [Next]_vars => TypeOK'
  <2> SUFFICES ASSUME TypeOK, [Next]_vars  PROVE TypeOK'
    OBVIOUS
  <2>1. CASE Tick
    BY <2>1 DEF Tick, TypeOK
  <2>2. CASE StepBack
    <3>1. now' \in Nat
      BY <2>2 DEF StepBack, TypeOK
    <3>2. monotone' \in BOOLEAN
      BY <2>2 DEF StepBack
    <3> QED  BY <2>2, <3>1, <3>2 DEF StepBack, TypeOK
  <2>3. CASE Restart
    BY <2>3, EmptyMap DEF Restart, TypeOK, Never, Empty
  <2>4. ASSUME NEW n \in Nonces, NonceSeen(n)  PROVE TypeOK'
    <3>1. CASE Replay(n)
      BY <3>1 DEF Replay, Answer, TypeOK
    <3>2. CASE Refuse(n)
      BY <3>2, CleanedMap DEF Refuse, Answer, TypeOK, MapOK
    <3>3. CASE Remember(n)
      <4>1. MapOK(nonces')
        BY <3>3, InsertedMap DEF Remember
      <4>2. inserted' \in Nat /\ taken' \in [Nonces -> Nat \cup {Never}]
        BY <3>3 DEF Remember, TypeOK
      <4>3. now' = now /\ verdict' = [nonce |-> n, time |-> now, seen |-> FALSE]
        BY <3>3 DEF Remember, Answer
      <4>4. monotone' \in BOOLEAN
        BY <3>3 DEF Remember, TypeOK
      <4> QED  BY <4>1, <4>2, <4>3, <4>4 DEF MapOK, TypeOK
    <3> QED  BY <2>4, <3>1, <3>2, <3>3 DEF NonceSeen
  <2>5. CASE UNCHANGED vars
    BY <2>5 DEF vars, TypeOK
  <2> QED  BY <2>1, <2>2, <2>3, <2>4, <2>5 DEF Next
<1> QED  BY <1>1, <1>2, PTL DEF Spec

(* The memory bound of the comment at kernel.mjs 287, for a cap of at      *)
(* least one, and whatever the clock does.                                 *)
THEOREM SizeAlwaysBounded == Spec => []SizeBounded
<1>1. Init => SizeBounded
  BY EmptyMap, NonceAssumption DEF Init, SizeBounded
<1>2. TypeOK /\ SizeBounded /\ [Next]_vars => SizeBounded'
  <2> SUFFICES ASSUME TypeOK, SizeBounded, [Next]_vars  PROVE SizeBounded'
    OBVIOUS
  <2>1. CASE UNCHANGED nonces
    BY <2>1 DEF SizeBounded
  <2>2. CASE Restart
    BY <2>2, EmptyMap, NonceAssumption DEF Restart, SizeBounded
  <2>3. ASSUME NEW n \in Nonces, Refuse(n)  PROVE SizeBounded'
    <3>1. /\ Cardinality(DOMAIN nonces') <= Cardinality(DOMAIN nonces)
          /\ Cardinality(DOMAIN nonces') \in Int
          /\ Cardinality(DOMAIN nonces) \in Int
      BY <2>3, CleanedMap, FS_Subset, FS_CardinalityType DEF Refuse, MapOK, TypeOK
    <3> QED  BY <3>1, NonceAssumption DEF SizeBounded
  <2>4. ASSUME NEW n \in Nonces, Remember(n)  PROVE SizeBounded'
    <3> DEFINE m == Cleaned(n)
    <3>1. Cardinality(DOMAIN nonces') = Cardinality(DOMAIN m) + 1
      BY <2>4, InsertedMap DEF Remember
    <3>2. Cardinality(DOMAIN m) < NONCE_MAX \/ DOMAIN m = {}
      <4>1. Cardinality(DOMAIN m) \in Nat
        BY CleanedMap, FS_CardinalityType DEF MapOK
      <4>2. Cardinality(DOMAIN m) >= NONCE_MAX /\ DOMAIN m # {}
              => OverCapacity(m)
        BY CleanedMap
      <4>3. ~OverCapacity(m)
        BY <2>4 DEF Remember
      <4> HIDE DEF m
      <4> QED  BY <4>1, <4>2, <4>3, NonceAssumption
    <3>3. Cardinality(DOMAIN m) \in Nat
      BY CleanedMap, FS_CardinalityType DEF MapOK
    <3> QED  BY <3>1, <3>2, <3>3, EmptyMap, NonceAssumption DEF SizeBounded
  <2> QED  BY <2>1, <2>2, <2>3, <2>4
             DEF Next, vars, Tick, StepBack, NonceSeen, Replay
<1> QED  BY <1>1, <1>2, TypeCorrect, PTL DEF Spec

(* No call forgets a live nonce, whatever the clock does.                  *)
THEOREM NeverEvictsLive == Spec => NoLiveEviction
<1>1. TypeOK /\ [Next]_vars =>
        [\A k \in DOMAIN nonces :
           Live(nonces[k]) /\ taken' # [n \in Nonces |-> Never]
             => k \in DOMAIN nonces' /\ nonces'[k] = nonces[k]]_vars
  <2> SUFFICES ASSUME TypeOK, Next,
                      NEW k \in DOMAIN nonces, Live(nonces[k]),
                      taken' # [n \in Nonces |-> Never]
               PROVE  k \in DOMAIN nonces' /\ nonces'[k] = nonces[k]
    OBVIOUS
  <2>1. CASE UNCHANGED nonces
    BY <2>1
  <2>2. CASE Restart
    BY <2>2 DEF Restart
  <2>3. ASSUME NEW n \in Nonces, Refuse(n) \/ Remember(n)
        PROVE  k \in DOMAIN nonces' /\ nonces'[k] = nonces[k]
    <3>1. k # n
      BY <2>3 DEF Refuse, Remember, IsLive
    <3>2. k \in DOMAIN Cleaned(n) /\ Cleaned(n)[k] = nonces[k]
      BY <3>1, CleanedMap
    <3> QED  BY <2>3, <3>2, InsertedMap DEF Refuse, Remember
  <2> QED  BY <2>1, <2>2, <2>3 DEF Next, Tick, StepBack, NonceSeen, Replay
<1> QED  BY <1>1, TypeCorrect, PTL DEF Spec, NoLiveEviction

----------------------------------------------------------------------------
(* For as long as the clock has not been set back.                         *)

(* The premise of the lazy sweep and of the cap loop (kernel.mjs 268): the *)
(* front of the Map expires first.                                         *)
Ordered == PlacesInPast /\ InsertionOrderIsExpiryOrder

THEOREM OldestExpiresFirst == Spec => []Ordered
<1>1. Init => Ordered
  BY EmptyMap DEF Init, Ordered, PlacesInPast, InsertionOrderIsExpiryOrder, Never
<1>2. TypeOK /\ Ordered /\ [Next]_vars => Ordered'
  <2> SUFFICES ASSUME TypeOK, Ordered, [Next]_vars  PROVE Ordered'
    OBVIOUS
  <2> USE DEF Ordered, PlacesInPast, InsertionOrderIsExpiryOrder
  <2>1. CASE Tick
    BY <2>1, NonceAssumption DEF Tick, TypeOK, Never
  <2>2. CASE StepBack
    BY <2>2 DEF StepBack
  <2>3. CASE Restart
    BY <2>3, EmptyMap DEF Restart, TypeOK, Never
  <2>4. ASSUME NEW n \in Nonces, Replay(n)  PROVE Ordered'
    BY <2>4 DEF Replay, Answer, TypeOK
  <2>5. ASSUME NEW n \in Nonces, Refuse(n)  PROVE Ordered'
    BY <2>5, CleanedMap DEF Refuse, Answer, TypeOK
  <2>6. ASSUME NEW n \in Nonces, Remember(n)  PROVE Ordered'
    <3> SUFFICES ASSUME monotone  PROVE Ordered'
      BY <2>6 DEF Remember
    <3> DEFINE m == Cleaned(n)
    <3>1. /\ DOMAIN nonces' = DOMAIN m \cup {n}
          /\ nonces'[n] = [exp |-> now + NONCE_TTL_SEC, at |-> inserted]
          /\ \A k \in DOMAIN m : nonces'[k] = nonces[k]
          /\ inserted' = inserted + 1
          /\ now' = now
          /\ verdict'.time = now
      BY <2>6, InsertedMap DEF Remember, Answer
    <3>2. DOMAIN m \subseteq DOMAIN nonces
      BY CleanedMap
    <3>3. \A k \in DOMAIN nonces : nonces[k].at \in Nat /\ nonces[k].exp \in Nat
      BY DEF TypeOK
    <3>4. inserted \in Nat /\ now \in Nat
      BY DEF TypeOK
    <3> HIDE DEF m
    <3>5. PlacesInPast'
      BY <3>1, <3>2, <3>3, <3>4
    <3>6. \A k \in DOMAIN nonces' : nonces'[k].exp <= now + NONCE_TTL_SEC
      BY <3>1, <3>2, <3>3, <3>4, NonceAssumption
    <3>7. ASSUME NEW j \in DOMAIN nonces', NEW k \in DOMAIN nonces',
                 nonces'[j].at <= nonces'[k].at
          PROVE  nonces'[j].exp <= nonces'[k].exp
      <4>1. CASE k = n
        BY <3>1, <3>6, <4>1
      <4>2. CASE k \in DOMAIN m /\ j \in DOMAIN m
        BY <3>1, <3>2, <3>7, <4>2
      <4>3. CASE k \in DOMAIN m /\ j = n
        BY <3>1, <3>2, <3>3, <3>4, <3>7, <4>3
      <4> QED  BY <3>1, <4>1, <4>2, <4>3
    <3> QED  BY <3>1, <3>5, <3>6, <3>7
  <2>7. CASE UNCHANGED vars
    BY <2>7 DEF vars
  <2> QED  BY <2>1, <2>2, <2>3, <2>4, <2>5, <2>6, <2>7 DEF Next, NonceSeen
<1> QED  BY <1>1, <1>2, TypeCorrect, PTL DEF Spec

(* Every nonce accepted within the retention period is still remembered.   *)
THEOREM LiveAlwaysRemembered == Spec => []LiveNoncesRemembered
<1>1. Init => LiveNoncesRemembered
  BY DEF Init, LiveNoncesRemembered
<1>2. TypeOK /\ LiveNoncesRemembered /\ [Next]_vars => LiveNoncesRemembered'
  <2> SUFFICES ASSUME TypeOK, LiveNoncesRemembered, [Next]_vars,
                      monotone', NEW k \in Nonces,
                      taken'[k] # Never, now' <= taken'[k] + NONCE_TTL_SEC
               PROVE  /\ k \in DOMAIN nonces'
                      /\ nonces'[k].exp = taken'[k] + NONCE_TTL_SEC
    BY DEF LiveNoncesRemembered
  <2>1. CASE Restart
    BY <2>1 DEF Restart
  <2>2. CASE Tick \/ UNCHANGED vars
    <3>1. now' \in {now, now + 1}
      BY <2>2 DEF Tick, vars
    <3>2. now <= now' /\ now \in Nat /\ now' \in Nat
      BY <3>1 DEF TypeOK
    <3>3. taken' = taken /\ nonces' = nonces
      BY <2>2 DEF Tick, vars
    <3>4. taken[k] \in Int
      BY DEF TypeOK, Never
    <3>5. monotone
      BY <2>2 DEF Tick, vars
    <3> QED  BY <3>2, <3>3, <3>4, <3>5, NonceAssumption DEF LiveNoncesRemembered
  <2>3. CASE StepBack
    BY <2>3 DEF StepBack
  <2>4. ASSUME NEW n \in Nonces, Replay(n)
        PROVE  k \in DOMAIN nonces' /\ nonces'[k].exp = taken'[k] + NONCE_TTL_SEC
    BY <2>4 DEF Replay, LiveNoncesRemembered
  <2>5. ASSUME NEW n \in Nonces, Refuse(n) \/ Remember(n), k # n
        PROVE  k \in DOMAIN nonces' /\ nonces'[k].exp = taken'[k] + NONCE_TTL_SEC
    <3>1. taken'[k] = taken[k] /\ now' = now /\ monotone
      BY <2>5 DEF Refuse, Remember, TypeOK
    <3>2. k \in DOMAIN nonces /\ nonces[k].exp = taken[k] + NONCE_TTL_SEC
      BY <3>1 DEF LiveNoncesRemembered
    <3>3. Live(nonces[k])
      BY <3>1, <3>2, NonceAssumption DEF Live, TypeOK, Never
    <3>4. k \in DOMAIN Cleaned(n) /\ Cleaned(n)[k] = nonces[k]
      BY <2>5, <3>2, <3>3, CleanedMap
    <3>5. k \in DOMAIN nonces' /\ nonces'[k] = nonces[k]
      BY <2>5, <3>4, InsertedMap DEF Refuse, Remember
    <3> QED  BY <3>1, <3>2, <3>5
  <2>6. CASE Remember(k)
    <3>1. nonces'[k].exp = now + NONCE_TTL_SEC /\ k \in DOMAIN nonces'
      <4>1. nonces' = Inserted(Cleaned(k), k)
        BY <2>6 DEF Remember
      <4>2. /\ DOMAIN Inserted(Cleaned(k), k) = DOMAIN Cleaned(k) \cup {k}
            /\ Inserted(Cleaned(k), k)[k]
                 = [exp |-> now + NONCE_TTL_SEC, at |-> inserted]
        BY InsertedMap
      <4> QED  BY <4>1, <4>2
    <3> QED  BY <2>6, <3>1 DEF Remember, TypeOK
  <2>7. CASE Refuse(k)
    <3>1. taken'[k] = taken[k] /\ now' = now /\ monotone
      BY <2>7 DEF Refuse
    <3>2. k \in DOMAIN nonces /\ nonces[k].exp = taken[k] + NONCE_TTL_SEC
      BY <3>1 DEF LiveNoncesRemembered
    <3> QED  BY <2>7, <3>1, <3>2, NonceAssumption
             DEF Refuse, IsLive, Live, TypeOK, Never
  <2> QED  BY <2>1, <2>2, <2>3, <2>4, <2>5, <2>6, <2>7 DEF Next, NonceSeen
<1> QED  BY <1>1, <1>2, TypeCorrect, PTL DEF Spec

(* A refusal is a live duplicate, or a Map full of live entries.           *)
THEOREM RefusalsJustified == Spec => []RefusalJustified
<1>1. Init => RefusalJustified
  BY DEF Init, RefusalJustified
<1>2. TypeOK /\ Ordered /\ RefusalJustified /\ [Next]_vars => RefusalJustified'
  <2> SUFFICES ASSUME TypeOK, Ordered, RefusalJustified, [Next]_vars
               PROVE  RefusalJustified'
    OBVIOUS
  <2>1. CASE Tick
    <3>1. monotone => verdict'.time # now'
      <4>1. verdict.time \in Int /\ now \in Nat
        BY DEF TypeOK, Never
      <4> QED  BY <2>1, <4>1 DEF Tick, Ordered, PlacesInPast
    <3> QED  BY <2>1, <3>1 DEF RefusalJustified, Tick
  <2>2. CASE StepBack
    BY <2>2 DEF StepBack, RefusalJustified
  <2>3. CASE Restart
    BY <2>3 DEF Restart, RefusalJustified
  <2>4. ASSUME NEW n \in Nonces, Replay(n)  PROVE RefusalJustified'
    BY <2>4 DEF Replay, Answer, RefusalJustified, IsLive, Live
  <2>5. ASSUME NEW n \in Nonces, Refuse(n)  PROVE RefusalJustified'
    <3> SUFFICES ASSUME monotone  PROVE RefusalJustified'
      BY <2>5 DEF Refuse, RefusalJustified
    <3> DEFINE m == Cleaned(n)
    <3>1. nonces' = m /\ now' = now /\ OverCapacity(m)
      BY <2>5 DEF Refuse
    <3>2. PICK o \in DOMAIN m : IsOldest(m, o) /\ Live(m[o])
      BY <3>1 DEF OverCapacity
    <3>3. \A k \in DOMAIN m : k \in DOMAIN nonces /\ m[k] = nonces[k]
      BY CleanedMap
    <3>4. \A k \in DOMAIN nonces : nonces[k].exp \in Nat
      BY DEF TypeOK
    <3>5. now \in Nat
      BY DEF TypeOK
    <3> HIDE DEF m
    <3>6. ASSUME NEW k \in DOMAIN m  PROVE m[k].exp >= now
      <4>1. m[o].at <= m[k].at
        BY <3>2 DEF IsOldest
      <4>2. m[o].exp <= m[k].exp
        BY <3>3, <4>1 DEF Ordered, InsertionOrderIsExpiryOrder
      <4> QED  BY <3>2, <3>3, <3>4, <3>5, <4>2 DEF Live
    <3> QED  BY <3>1, <3>6 DEF RefusalJustified, Live, OverCapacity
  <2>6. ASSUME NEW n \in Nonces, Remember(n)  PROVE RefusalJustified'
    BY <2>6 DEF Remember, Answer, RefusalJustified
  <2>7. CASE UNCHANGED vars
    BY <2>7 DEF vars, RefusalJustified, IsLive, Live
  <2> QED  BY <2>1, <2>2, <2>3, <2>4, <2>5, <2>6, <2>7 DEF Next, NonceSeen
<1> QED  BY <1>1, <1>2, TypeCorrect, OldestExpiresFirst, PTL DEF Spec

(* Every entry carries the expiry of the last acceptance of its nonce, and *)
(* only finitely many nonces have been accepted; whatever the clock does.  *)
EntriesAreTaken ==
  /\ \A k \in DOMAIN nonces :
       taken[k] # Never /\ nonces[k].exp = taken[k] + NONCE_TTL_SEC
  /\ IsFiniteSet({n \in Nonces : taken[n] # Never})

LEMMA EntriesAlwaysTaken == Spec => []EntriesAreTaken
<1>1. Init => EntriesAreTaken
  <2> SUFFICES ASSUME Init  PROVE EntriesAreTaken
    OBVIOUS
  <2>1. {n \in Nonces : taken[n] # Never} = {}
    BY DEF Init
  <2>2. DOMAIN nonces = {}
    BY EmptyMap DEF Init
  <2> QED  BY <2>1, <2>2, EmptyMap DEF EntriesAreTaken
<1>2. TypeOK /\ EntriesAreTaken /\ [Next]_vars => EntriesAreTaken'
  <2> SUFFICES ASSUME TypeOK, EntriesAreTaken, [Next]_vars  PROVE EntriesAreTaken'
    OBVIOUS
  <2>1. CASE UNCHANGED <<nonces, taken>>
    BY <2>1 DEF EntriesAreTaken
  <2>2. CASE Restart
    <3>1. {n \in Nonces : taken'[n] # Never} = {}
      BY <2>2 DEF Restart
    <3>2. DOMAIN nonces' = {}
      BY <2>2, EmptyMap DEF Restart
    <3> QED  BY <3>1, <3>2, EmptyMap DEF EntriesAreTaken
  <2>3. ASSUME NEW n \in Nonces, Refuse(n)  PROVE EntriesAreTaken'
    BY <2>3, CleanedMap DEF Refuse, EntriesAreTaken
  <2>4. ASSUME NEW n \in Nonces, Remember(n)  PROVE EntriesAreTaken'
    <3> DEFINE m == Cleaned(n)
    <3>1. /\ DOMAIN nonces' = DOMAIN m \cup {n}
          /\ nonces'[n] = [exp |-> now + NONCE_TTL_SEC, at |-> inserted]
          /\ \A k \in DOMAIN m : k # n /\ nonces'[k] = nonces[k]
      BY <2>4, InsertedMap DEF Remember
    <3>2. DOMAIN m \subseteq DOMAIN nonces
      BY CleanedMap
    <3> HIDE DEF m
    <3>3. taken' = [taken EXCEPT ![n] = now] /\ now \in Nat
      BY <2>4 DEF Remember, TypeOK
    <3>4. taken'[n] = now /\ taken'[n] # Never
          /\ \A k \in Nonces : k # n => taken'[k] = taken[k]
      BY <3>3 DEF TypeOK, Never
    <3>5. ASSUME NEW k \in DOMAIN nonces'
          PROVE  taken'[k] # Never /\ nonces'[k].exp = taken'[k] + NONCE_TTL_SEC
      <4>1. CASE k = n
        BY <3>1, <3>4, <4>1
      <4>2. CASE k \in DOMAIN m
        BY <3>1, <3>2, <3>4, <4>2 DEF EntriesAreTaken, TypeOK
      <4> QED  BY <3>1, <4>1, <4>2
    <3>6. {k \in Nonces : taken'[k] # Never} = {k \in Nonces : taken[k] # Never} \cup {n}
      BY <3>4
    <3>7. IsFiniteSet({k \in Nonces : taken[k] # Never} \cup {n})
      BY FS_AddElement DEF EntriesAreTaken
    <3> QED  BY <3>5, <3>6, <3>7 DEF EntriesAreTaken
  <2> QED  BY <2>1, <2>2, <2>3, <2>4
             DEF Next, vars, Tick, StepBack, NonceSeen, Replay
<1> QED  BY <1>1, <1>2, TypeCorrect, PTL DEF Spec

(* The nonces that the register would not take.                            *)
SpentNonces == {k \in Nonces : Register!Spent(k)}

(* A call that refuses its nonce has a reason to that its caller could     *)
(* know: the nonce was accepted within the retention period, or NONCE_MAX  *)
(* nonces were.                                                            *)
LEMMA RefusalHasReason ==
  ASSUME TypeOK, Ordered, EntriesAreTaken, monotone,
         NEW n \in Nonces, Replay(n) \/ Refuse(n)
  PROVE  Register!Spent(n) \/ Cardinality(SpentNonces) >= NONCE_MAX
<1>1. ASSUME NEW k \in DOMAIN nonces, Live(nonces[k])  PROVE Register!Spent(k)
  <2>1. taken[k] # Never /\ nonces[k].exp = taken[k] + NONCE_TTL_SEC
    BY DEF EntriesAreTaken
  <2>2. nonces[k].exp >= now /\ now \in Nat /\ nonces[k].exp \in Nat
    BY <1>1 DEF Live, TypeOK
  <2> QED  BY <2>1, <2>2 DEF Register!Spent, Never, Register!Never
<1>2. CASE Replay(n)
  BY <1>1, <1>2 DEF Replay, IsLive
<1>3. CASE Refuse(n)
  <2> DEFINE m == Cleaned(n)
  <2>1. Cardinality(DOMAIN m) >= NONCE_MAX
    BY <1>3 DEF Refuse, OverCapacity
  <2>2. PICK o \in DOMAIN m : IsOldest(m, o) /\ Live(m[o])
    BY <1>3 DEF Refuse, OverCapacity
  <2>3. \A k \in DOMAIN m : k \in DOMAIN nonces /\ m[k] = nonces[k]
    BY CleanedMap
  <2>4. now \in Nat /\ \A k \in DOMAIN nonces : nonces[k].exp \in Nat /\ k \in Nonces
    BY DEF TypeOK
  <2> HIDE DEF m
  <2>5. ASSUME NEW k \in DOMAIN m  PROVE Live(nonces[k])
    <3>1. m[o].at <= m[k].at
      BY <2>2 DEF IsOldest
    <3>2. m[o].exp <= m[k].exp
      BY <2>3, <3>1 DEF Ordered, InsertionOrderIsExpiryOrder
    <3> QED  BY <2>2, <2>3, <2>4, <3>2 DEF Live
  <2>6. DOMAIN m \subseteq SpentNonces
    BY <1>1, <2>3, <2>4, <2>5 DEF SpentNonces
  <2>7. IsFiniteSet(SpentNonces)
    <3>1. SpentNonces \subseteq {k \in Nonces : taken[k] # Never}
      BY DEF SpentNonces, Register!Spent, Never, Register!Never
    <3> QED  BY <3>1, FS_Subset DEF EntriesAreTaken
  <2>8. /\ Cardinality(DOMAIN m) <= Cardinality(SpentNonces)
        /\ Cardinality(DOMAIN m) \in Nat /\ Cardinality(SpentNonces) \in Nat
    BY <2>6, <2>7, FS_Subset, FS_CardinalityType
  <2> QED  BY <2>1, <2>8, NonceAssumption
<1> QED  BY <1>2, <1>3

(* The bounded, swept Map is a single-use register: every run of the ring  *)
(* is a run of NonceRegister, its answers included.                        *)
THEOREM RingImplementsRegister == Spec => ImplementsRegister
<1>1. Init => Register!RegisterInit
  BY DEF Init, Register!RegisterInit, Register!NotAsked, Never, Register!Never
<1>2. (TypeOK /\ Ordered /\ EntriesAreTaken) /\ LiveNoncesRemembered /\ [Next]_vars
        => [Register!RegisterNext]_(Register!rvars)
  <2> SUFFICES ASSUME TypeOK, Ordered, EntriesAreTaken, LiveNoncesRemembered, [Next]_vars
               PROVE  [Register!RegisterNext]_(Register!rvars)
    OBVIOUS
  <2> USE DEF Register!RegisterNext, Register!rvars
  <2>1. CASE Tick
    BY <2>1 DEF Tick, TypeOK, Register!Pass
  <2>2. CASE StepBack
    BY <2>2 DEF StepBack, TypeOK, Register!SetBack
  <2>3. CASE Restart
    BY <2>3 DEF Restart, Register!ForgetAll, Register!NotAsked, Never, Register!Never
  <2>4. ASSUME NEW n \in Nonces, Replay(n) \/ Refuse(n)  PROVE Register!Refuse(n)
    <3>1. ASSUME NEW S  PROVE Register!Cardinality(S) = Cardinality(S)
      BY DEF Cardinality, Register!Cardinality
    <3>2. monotone => \/ Register!Spent(n)
                      \/ Register!Cardinality({k \in Nonces : Register!Spent(k)}) >= NONCE_MAX
      BY <2>4, <3>1, RefusalHasReason DEF SpentNonces
    <3>3. Register!Answer(n, TRUE) /\ UNCHANGED <<now, taken, monotone>>
      BY <2>4 DEF Replay, Refuse, Answer, Register!Answer
    <3> QED  BY <3>2, <3>3 DEF Register!Refuse
  <2>5. ASSUME NEW n \in Nonces, Remember(n)  PROVE Register!Take(n)
    <3>1. monotone => ~Register!Spent(n)
      <4> SUFFICES ASSUME monotone, taken[n] # Never, now <= taken[n] + NONCE_TTL_SEC
                   PROVE  FALSE
        BY DEF Register!Spent, Never, Register!Never
      <4>1. n \in DOMAIN nonces /\ nonces[n].exp = taken[n] + NONCE_TTL_SEC
        BY DEF LiveNoncesRemembered
      <4> QED  BY <2>5, <4>1, NonceAssumption
               DEF Remember, IsLive, Live, TypeOK, Never
    <3> QED  BY <2>5, <3>1 DEF Remember, Answer, Register!Take, Register!Answer
  <2>6. CASE UNCHANGED vars
    BY <2>6 DEF vars
  <2> QED  BY <2>1, <2>2, <2>3, <2>4, <2>5, <2>6 DEF Next, NonceSeen
<1> QED  BY <1>1, <1>2, TypeCorrect, OldestExpiresFirst, EntriesAlwaysTaken,
            LiveAlwaysRemembered, PTL
         DEF Spec, ImplementsRegister, Register!RegisterSpec
============================================================================
