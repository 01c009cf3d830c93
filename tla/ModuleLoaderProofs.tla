------------------------- MODULE ModuleLoaderProofs -------------------------
(***************************************************************************)
(* Proofs about ModuleLoader, for any set of files, any names and any keys *)
(* of the environment and of the store; and about Boot, which loads        *)
(* modules as ModuleLoader says, so that what is proved there holds of it. *)
(***************************************************************************)
EXTENDS Boot, WellFoundedInduction, TLAPS

LEMMA PrefixType ==
  ASSUME NEW name \in ModuleNames  PROVE EnvPrefix(name) \in Seq(Chars)
<1>1. name \in Seq(NameChars) /\ Len(name) \in Nat
  BY LoaderAssumption
<1>2. \A c : EnvChar(c) \in Chars
  BY LoaderAssumption DEF EnvChar, NameChars
<1>3. \A i \in 1..Len(name) + 1 :
        (IF i <= Len(name) THEN EnvChar(name[i]) ELSE "_") \in Chars
  BY <1>2, LoaderAssumption DEF NameChars
<1>4. EnvPrefix(name) \in [1..Len(name) + 1 -> Chars]
  BY <1>3 DEF EnvPrefix
<1> QED  BY <1>1, <1>4

(* One sequence begins another: it agrees with it as far as it goes.       *)
LEMMA PrefixMeans ==
  ASSUME NEW s \in Seq(Chars), NEW t \in Seq(Chars)
  PROVE  IsPrefix(s, t) <=> Len(s) <= Len(t) /\ \A i \in 1..Len(s) : s[i] = t[i]
<1> SUFFICES ASSUME Len(s) <= Len(t)
             PROVE  SubSeq(s, 1, Len(s)) = SubSeq(t, 1, Len(s))
                      <=> \A i \in 1..Len(s) : s[i] = t[i]
  BY DEF IsPrefix
<1>1. /\ Len(s) \in Nat /\ Len(t) \in Nat
      /\ SubSeq(s, 1, Len(s)) = [i \in 1..Len(s) |-> s[i]]
      /\ SubSeq(t, 1, Len(s)) = [i \in 1..Len(s) |-> t[i]]
  OBVIOUS
<1>2. ([i \in 1..Len(s) |-> s[i]] = [i \in 1..Len(s) |-> t[i]])
        <=> \A i \in 1..Len(s) : s[i] = t[i]
  OBVIOUS
<1> QED  BY <1>1, <1>2

(* Of two sequences that both begin a third, one begins the other.         *)
LEMMA CommonStart ==
  ASSUME NEW p \in Seq(Chars), NEW q \in Seq(Chars), NEW k \in Seq(Chars),
         IsPrefix(p, k), IsPrefix(q, k)
  PROVE  IsPrefix(p, q) \/ IsPrefix(q, p)
<1>1. \A s, t \in Seq(Chars) :
        IsPrefix(s, t) <=> Len(s) <= Len(t) /\ \A i \in 1..Len(s) : s[i] = t[i]
  BY PrefixMeans
<1>2. \A i \in 1..Len(p) : p[i] = k[i]
  BY <1>1
<1>3. \A i \in 1..Len(q) : q[i] = k[i]
  BY <1>1
<1>4. CASE Len(p) <= Len(q)
  BY <1>1, <1>2, <1>3, <1>4
<1>5. CASE Len(q) <= Len(p)
  BY <1>1, <1>2, <1>3, <1>5
<1> QED  BY <1>4, <1>5

LEMMA PrefixReflexive ==
  ASSUME NEW p \in Seq(Chars)  PROVE IsPrefix(p, p)
BY DEF IsPrefix

LEMMA ResolveReads ==
  ASSUME NEW m \in Seq(Chars), NEW k \in Seq(Chars)
  PROVE  /\ \A i \in 1..Len(m) : Resolve(m, k)[i] = m[i]
         /\ Resolve(m, k)[Len(m) + 1] = ":"
<1> DEFINE s == <<":">> \o k
<1>1. <<":">> \in Seq(Chars) /\ s \in Seq(Chars) /\ s[1] = ":" /\ Len(s) >= 1
  BY LoaderAssumption
<1>2. Resolve(m, k) = m \o s
  BY <1>1 DEF Resolve
<1> QED  BY <1>1, <1>2

(* The separator tells two names apart, whatever keys follow them.         *)
LEMMA ResolveInjective ==
  ASSUME NEW m \in Seq(NameChars), NEW n \in Seq(NameChars),
         NEW k \in Seq(Chars), NEW l \in Seq(Chars),
         Len(m) <= Len(n), Resolve(m, k) = Resolve(n, l)
  PROVE  m = n
<1>1. m \in Seq(Chars) /\ n \in Seq(Chars)
  BY LoaderAssumption
<1>2. \A i \in 1..Len(m) : Resolve(m, k)[i] = m[i]
  BY <1>1, ResolveReads
<1>3. \A i \in 1..Len(n) : Resolve(n, l)[i] = n[i]
  BY <1>1, ResolveReads
<1>4. Resolve(m, k)[Len(m) + 1] = ":"
  BY <1>1, ResolveReads
<1>5. Len(m) = Len(n)
  <2> SUFFICES ASSUME Len(m) < Len(n)  PROVE FALSE
    OBVIOUS
  <2>1. n[Len(m) + 1] = ":" /\ Len(m) + 1 \in 1..Len(n)
    BY <1>3, <1>4
  <2> QED  BY <2>1, LoaderAssumption
<1>6. \A i \in 1..Len(m) : m[i] = n[i]
  BY <1>2, <1>3, <1>5
<1> QED  BY <1>5, <1>6

(* No two modules loaded so far have prefixes one of which begins the      *)
(* other.                                                                  *)
PrefixesApart ==
  \A i, j \in DOMAIN mods :
    i # j => ~IsPrefix(EnvPrefix(mods[i]), EnvPrefix(mods[j]))

(* The names loaded so far are those of the files imported so far.         *)
LoadedFromFiles ==
  /\ \A f \in Loadable \ queue :
       dir[f].kind = "module" /\ \E i \in DOMAIN mods : mods[i] = dir[f].name
  /\ \A i \in DOMAIN mods :
       \E f \in Loadable \ queue : dir[f].kind = "module" /\ mods[i] = dir[f].name
  /\ \A f, g \in Loadable \ queue : f # g => dir[f].name # dir[g].name

Verdict ==
  /\ result = "loaded" => queue = {}
  /\ result \in Errors => ~Fits

IInv == TypeOK /\ PrefixesApart /\ LoadedFromFiles /\ Verdict

LEMMA OverlapIsPrefix ==
  ASSUME NEW m \in ModuleNames, NEW n \in ModuleNames
  PROVE  Overlap(m, n) <=> \/ IsPrefix(EnvPrefix(m), EnvPrefix(n))
                           \/ IsPrefix(EnvPrefix(n), EnvPrefix(m))
<1>1. EnvPrefix(m) \in Seq(Chars) /\ EnvPrefix(n) \in Seq(Chars)
  BY PrefixType
<1>2. ASSUME Overlap(m, n)
      PROVE  \/ IsPrefix(EnvPrefix(m), EnvPrefix(n))
             \/ IsPrefix(EnvPrefix(n), EnvPrefix(m))
  BY <1>1, <1>2, CommonStart DEF Overlap, Sees
<1>3. ASSUME \/ IsPrefix(EnvPrefix(m), EnvPrefix(n))
             \/ IsPrefix(EnvPrefix(n), EnvPrefix(m))
      PROVE  Overlap(m, n)
  BY <1>1, <1>3, PrefixReflexive DEF Overlap, Sees
<1> QED  BY <1>2, <1>3

LEMMA FileName ==
  ASSUME TypeOK, NEW f \in Files, dir[f].kind = "module"
  PROVE  dir[f].name \in ModuleNames
BY DEF TypeOK, FileTypes

LEMMA AcceptGood ==
  ASSUME IInv, NEW f \in Files, Accept(f)
  PROVE  IInv'
<1> USE DEF IInv
<1> DEFINE n == dir[f].name
<1>1. f \in queue /\ f \in Loadable /\ dir[f].kind = "module"
  BY DEF Accept, IsNext, TypeOK
<1>2. n \in ModuleNames
  BY <1>1, FileName
<1>3. /\ mods' = Append(mods, n) /\ queue' = queue \ {f}
      /\ UNCHANGED <<dir, result>> /\ ~Duplicate(f) /\ ~Collides(f)
      /\ Loadable' = Loadable
  BY DEF Accept, Loadable
<1>4. mods \in Seq(ModuleNames)
  BY DEF TypeOK
<1> HIDE DEF n
<1>5. /\ mods' \in Seq(ModuleNames)
      /\ DOMAIN mods' = 1..Len(mods) + 1 /\ DOMAIN mods = 1..Len(mods)
      /\ \A i \in 1..Len(mods) : mods'[i] = mods[i]
      /\ mods'[Len(mods) + 1] = n
  BY <1>2, <1>3, <1>4
<1>6. TypeOK'
  BY <1>3, <1>5 DEF TypeOK
<1>7. PrefixesApart'
  <2>1. \A i \in 1..Len(mods) :
          /\ ~IsPrefix(EnvPrefix(mods[i]), EnvPrefix(n))
          /\ ~IsPrefix(EnvPrefix(n), EnvPrefix(mods[i]))
    BY <1>3, <1>5 DEF Collides, n
  <2>2. \A i \in DOMAIN mods' : i \in 1..Len(mods) \/ i = Len(mods) + 1
    BY <1>4, <1>5
  <2> QED  BY <1>5, <2>1, <2>2 DEF PrefixesApart
<1>8. LoadedFromFiles'
  <2>1. (Loadable \ queue)' = (Loadable \ queue) \cup {f}
    BY <1>1, <1>3
  <2>2. \A i \in DOMAIN mods' : i \in 1..Len(mods) \/ i = Len(mods) + 1
    BY <1>4, <1>5
  <2>3. Len(mods) + 1 \in DOMAIN mods'
        /\ \A i \in DOMAIN mods : i \in DOMAIN mods'
    BY <1>4, <1>5
  <2>4. \A g \in Loadable \ queue : dir[g].name # n
    BY <1>3, <1>5 DEF LoadedFromFiles, Duplicate, n
  <2>5. \A g \in (Loadable \ queue)' :
          dir'[g].kind = "module" /\ \E i \in DOMAIN mods' : mods'[i] = dir'[g].name
    BY <1>1, <1>3, <1>5, <2>1, <2>3 DEF LoadedFromFiles, n
  <2>6. \A i \in DOMAIN mods' :
          \E g \in (Loadable \ queue)' :
             dir'[g].kind = "module" /\ mods'[i] = dir'[g].name
    BY <1>1, <1>3, <1>5, <2>1, <2>2 DEF LoadedFromFiles, n
  <2>7. \A g, h \in (Loadable \ queue)' : g # h => dir'[g].name # dir'[h].name
    BY <1>3, <2>1, <2>4 DEF LoadedFromFiles, n
  <2> QED  BY <2>5, <2>6, <2>7 DEF LoadedFromFiles
<1>9. Verdict'
  BY <1>3 DEF Verdict, Accept, IsNext, Errors
<1> QED  BY <1>6, <1>7, <1>8, <1>9

LEMMA RefuseGood ==
  ASSUME IInv, NEW f \in Files, Refuse(f)
  PROVE  IInv'
<1> USE DEF IInv
<1>1. UNCHANGED <<dir, queue, mods>> /\ result' \in Errors
  <2>1. dir[f] \in FileTypes /\ f \in Loadable
    BY DEF Refuse, IsNext, TypeOK
  <2> QED  BY <2>1 DEF Refuse, Errors, FileTypes, Loadable
<1>2. f \in Loadable /\ f \in queue
  BY DEF Refuse, IsNext, TypeOK
<1>3. ~Fits
  <2>1. CASE dir[f].kind # "module"
    BY <1>2, <2>1 DEF Fits
  <2>2. CASE dir[f].kind = "module" /\ (Duplicate(f) \/ Collides(f))
    <3>1. dir[f].name \in ModuleNames
      BY <2>2, FileName
    <3>2. PICK i \in DOMAIN mods :
            \/ mods[i] = dir[f].name
            \/ IsPrefix(EnvPrefix(mods[i]), EnvPrefix(dir[f].name))
            \/ IsPrefix(EnvPrefix(dir[f].name), EnvPrefix(mods[i]))
      BY <2>2 DEF Duplicate, Collides
    <3>3. PICK g \in Loadable \ queue :
            dir[g].kind = "module" /\ mods[i] = dir[g].name
      BY DEF LoadedFromFiles
    <3>4. g \in Loadable \ {f} /\ dir[g].name \in ModuleNames
      BY <1>2, <3>3, FileName DEF Loadable
    <3>5. IsPrefix(EnvPrefix(dir[f].name), EnvPrefix(dir[f].name))
      BY <3>1, PrefixType, PrefixReflexive
    <3>6. Overlap(dir[f].name, dir[g].name)
      BY <3>1, <3>2, <3>3, <3>4, <3>5, OverlapIsPrefix
    <3> QED  BY <1>2, <3>3, <3>4, <3>6 DEF Fits
  <2> QED  BY <2>1, <2>2 DEF Refuse
<1>4. TypeOK' /\ PrefixesApart' /\ LoadedFromFiles'
  BY <1>1 DEF TypeOK, PrefixesApart, LoadedFromFiles, Loadable
<1>5. Verdict'
  BY <1>1, <1>3 DEF Verdict, Fits, Loadable, Errors
<1> QED  BY <1>4, <1>5

(* What holds after each file: the modules loaded so far are those of the  *)
(* files imported so far, their prefixes apart; a refusal has its reason.  *)
THEOREM LoaderInvariant == Spec => []IInv
<1>1. Init => IInv
  BY LoaderAssumption
     DEF Init, IInv, TypeOK, PrefixesApart, LoadedFromFiles, Verdict, Loadable, Errors
<1>2. IInv /\ [Next]_vars => IInv'
  <2> SUFFICES ASSUME IInv, [Next]_vars  PROVE IInv'
    OBVIOUS
  <2>1. ASSUME NEW f \in Files, Accept(f)  PROVE IInv'
    BY <2>1, AcceptGood
  <2>2. ASSUME NEW f \in Files, Refuse(f)  PROVE IInv'
    BY <2>2, RefuseGood
  <2>3. CASE AllLoaded
    BY <2>3 DEF AllLoaded, IInv, TypeOK, PrefixesApart, LoadedFromFiles, Loadable,
                Verdict, Errors
  <2>4. CASE UNCHANGED vars
    BY <2>4 DEF vars, IInv, TypeOK, PrefixesApart, LoadedFromFiles, Loadable,
                Verdict, Fits, Errors
  <2> QED  BY <2>1, <2>2, <2>3, <2>4 DEF Next
<1> QED  BY <1>1, <1>2, PTL DEF Spec

(* No environment variable, of any name, is seen by two loaded modules     *)
(* (I6), for every set of modules the loader accepts.                      *)
THEOREM EnvViewsAlwaysDisjoint == Spec => []EnvViewsDisjoint
<1>1. IInv => EnvViewsDisjoint
  <2> SUFFICES ASSUME IInv, NEW i \in DOMAIN mods, NEW j \in DOMAIN mods, i # j,
                      NEW key \in EnvKeys,
                      Sees(mods[i], key), Sees(mods[j], key)
               PROVE  FALSE
    BY DEF EnvViewsDisjoint
  <2>1. mods[i] \in ModuleNames /\ mods[j] \in ModuleNames
    BY DEF IInv, TypeOK
  <2>2. /\ EnvPrefix(mods[i]) \in Seq(Chars) /\ EnvPrefix(mods[j]) \in Seq(Chars)
        /\ key \in Seq(Chars)
    BY <2>1, PrefixType, LoaderAssumption
  <2>3. \/ IsPrefix(EnvPrefix(mods[i]), EnvPrefix(mods[j]))
        \/ IsPrefix(EnvPrefix(mods[j]), EnvPrefix(mods[i]))
    BY <2>2, CommonStart DEF Sees
  <2> QED  BY <2>3 DEF IInv, PrefixesApart
<1> QED  BY <1>1, LoaderInvariant, PTL

(* No store key is reached by two loaded modules, whatever they ask for.   *)
THEOREM StoreViewsAlwaysDisjoint == Spec => []StoreViewsDisjoint
<1>1. IInv => StoreViewsDisjoint
  <2> SUFFICES ASSUME IInv, NEW i \in DOMAIN mods, NEW j \in DOMAIN mods, i # j,
                      NEW k \in StoreKeys, Reaches(mods[j], Resolve(mods[i], k))
               PROVE  FALSE
    BY DEF StoreViewsDisjoint
  <2>1. mods[i] \in ModuleNames /\ mods[j] \in ModuleNames
    BY DEF IInv, TypeOK
  <2>2. PICK l \in StoreKeys : Resolve(mods[i], k) = Resolve(mods[j], l)
    BY DEF Reaches
  <2>3. /\ mods[i] \in Seq(NameChars) /\ mods[j] \in Seq(NameChars)
        /\ k \in Seq(Chars) /\ l \in Seq(Chars)
    BY <2>1, LoaderAssumption
  <2>4. mods[i] = mods[j]
    <3>1. CASE Len(mods[i]) <= Len(mods[j])
      BY <2>2, <2>3, <3>1, ResolveInjective
    <3>2. CASE Len(mods[j]) <= Len(mods[i])
      BY <2>2, <2>3, <3>2, ResolveInjective
    <3> QED  BY <2>3, <3>1, <3>2
  <2>5. IsPrefix(EnvPrefix(mods[i]), EnvPrefix(mods[j]))
    BY <2>1, <2>4, PrefixType, PrefixReflexive
  <2> QED  BY <2>5 DEF IInv, PrefixesApart
<1> QED  BY <1>1, LoaderInvariant, PTL

(* The loader's guard is neither too weak nor too strong: a set of files   *)
(* is loaded exactly when it is made of modules that share no variable.    *)
THEOREM VerdictAlwaysIgnoresOrder == Spec => []VerdictIgnoresOrder
<1>1. IInv => VerdictIgnoresOrder
  <2> SUFFICES ASSUME IInv, result = "loaded"  PROVE Fits
    BY DEF IInv, Verdict, VerdictIgnoresOrder
  <2>1. Loadable \ queue = Loadable
    BY DEF IInv, Verdict
  <2>2. ASSUME NEW f \in Loadable, NEW g \in Loadable \ {f}
        PROVE  ~Overlap(dir[f].name, dir[g].name)
    <3>1. PICK i \in DOMAIN mods : mods[i] = dir[f].name
      BY <2>1 DEF IInv, LoadedFromFiles
    <3>2. PICK j \in DOMAIN mods : mods[j] = dir[g].name
      BY <2>1 DEF IInv, LoadedFromFiles
    <3>3. i # j
      BY <2>1, <2>2, <3>1, <3>2 DEF IInv, LoadedFromFiles
    <3>4. mods[i] \in ModuleNames /\ mods[j] \in ModuleNames
      BY DEF IInv, TypeOK
    <3> QED  BY <3>1, <3>2, <3>3, <3>4, OverlapIsPrefix DEF IInv, PrefixesApart
  <2> QED  BY <2>1, <2>2 DEF Fits, IInv, LoadedFromFiles
<1> QED  BY <1>1, LoaderInvariant, PTL

(* What the gate finds is what makes a set unfit.                          *)
LEMMA LintIsFits ==
  ASSUME TypeOK, \A f \in Loadable : dir[f].kind # "import_fails"
  PROVE  LintPasses <=> Fits
<1>1. \A f \in Loadable :
        /\ f \in Files /\ f \in Nat
        /\ dir[f].kind = "module" <=> ~LintSourceFinds(f)
  <2> SUFFICES ASSUME NEW f \in Loadable
               PROVE  /\ f \in Files /\ f \in Nat
                      /\ dir[f].kind = "module" <=> ~LintSourceFinds(f)
    OBVIOUS
  <2>1. f \in Files /\ dir[f] \in FileTypes /\ dir[f].kind # "skipped"
    BY DEF Loadable, TypeOK
  <2> QED  BY <2>1, LoaderAssumption DEF FileTypes, LintSourceFinds
<1>2. ASSUME NEW f \in Loadable, NEW g \in Loadable,
             dir[f].kind = "module", dir[g].kind = "module"
      PROVE  Overlap(dir[f].name, dir[g].name)
               <=> \/ dir[f].name = dir[g].name
                   \/ IsPrefix(EnvPrefix(dir[f].name), EnvPrefix(dir[g].name))
                   \/ IsPrefix(EnvPrefix(dir[g].name), EnvPrefix(dir[f].name))
  <2>1. dir[f].name \in ModuleNames /\ dir[g].name \in ModuleNames
    BY <1>1, <1>2, FileName
  <2>2. IsPrefix(EnvPrefix(dir[f].name), EnvPrefix(dir[f].name))
    BY <2>1, PrefixType, PrefixReflexive
  <2> QED  BY <2>1, <2>2, OverlapIsPrefix
<1>3. ASSUME LintPasses  PROVE Fits
  <2> SUFFICES ASSUME NEW f \in Loadable, NEW g \in Loadable \ {f},
                      dir[f].kind = "module", dir[g].kind = "module"
               PROVE  ~Overlap(dir[f].name, dir[g].name)
    BY <1>1, <1>3 DEF Fits, LintPasses
  <2>1. ~LintDirFinds(f, g) /\ ~LintDirFinds(g, f)
    BY <1>3 DEF LintPasses
  <2>2. f < g \/ g < f
    BY <1>1
  <2> QED  BY <1>2, <2>1, <2>2 DEF LintDirFinds
<1>4. ASSUME Fits  PROVE LintPasses
  <2>1. \A f \in Loadable : ~LintSourceFinds(f)
    BY <1>1, <1>4 DEF Fits
  <2>2. ASSUME NEW f \in Loadable, NEW g \in Loadable, LintDirFinds(f, g)
        PROVE  FALSE
    <3>1. f # g /\ dir[f].kind = "module" /\ dir[g].kind = "module"
      BY <1>1, <2>2 DEF LintDirFinds
    <3>2. Overlap(dir[f].name, dir[g].name)
      BY <1>2, <2>2, <3>1 DEF LintDirFinds
    <3> QED  BY <1>4, <3>1, <3>2 DEF Fits
  <2> QED  BY <2>1, <2>2 DEF LintPasses
<1> QED  BY <1>3, <1>4

(* The gate's verdict is the loader's, whatever the order of the files.    *)
THEOREM GateAlwaysAgrees == Spec => []GateAgreesWithLoader
<1>1. TypeOK /\ VerdictIgnoresOrder => GateAgreesWithLoader
  BY LintIsFits DEF GateAgreesWithLoader, VerdictIgnoresOrder
<1>2. IInv => TypeOK
  BY DEF IInv
<1> QED  BY <1>1, <1>2, LoaderInvariant, VerdictAlwaysIgnoresOrder, PTL

----------------------------------------------------------------------------
(* Boot: a process that boots.                                             *)

(* Every step of a process is one of the loader or leaves it alone.        *)
THEOREM BootLoads == BootSpec => Spec
<1>1. BootInit => Init
  BY BootAssumption DEF BootInit, Init
<1>2. [BootNext]_bootVars => [Next]_vars
  <2> SUFFICES ASSUME [BootNext]_bootVars  PROVE [Next]_vars
    OBVIOUS
  <2>1. CASE LoadModules
    BY <2>1 DEF LoadModules
  <2>2. ASSUME NEW k \in keys, ExpandFile(k)  PROVE UNCHANGED vars
    BY <2>2 DEF ExpandFile, loaderVars, vars
  <2>3. ASSUME NEW m \in starts, Start(m)  PROVE UNCHANGED vars
    BY <2>3 DEF Start, loaderVars, vars
  <2>4. CASE DotEnvLine \/ LoadConfig \/ ConfigMade
    BY <2>4 DEF DotEnvLine, LoadConfig, ConfigMade, loaderVars, vars
  <2>5. CASE Die \/ CreateKernel \/ Listen
    BY <2>5 DEF Die, CreateKernel, Listen, loaderVars, vars
  <2>6. CASE UNCHANGED bootVars
    BY <2>6 DEF bootVars, loaderVars, vars
  <2> QED  BY <2>1, <2>2, <2>3, <2>4, <2>5, <2>6 DEF BootNext
<1> QED  BY <1>1, <1>2, PTL DEF BootSpec, Spec

(* A booting process never has two modules that see one variable, or reach *)
(* one key of the store.                                                   *)
THEOREM BootKeepsViewsApart ==
  BootSpec => [](EnvViewsDisjoint /\ StoreViewsDisjoint)
BY BootLoads, EnvViewsAlwaysDisjoint, StoreViewsAlwaysDisjoint, PTL

----------------------------------------------------------------------------
(* The environment and the configuration.                                  *)

(* One sequence ends another.                                              *)
LEMMA SuffixMeans ==
  ASSUME NEW s \in Seq(Chars), NEW t \in Seq(Chars)
  PROVE  IsSuffix(s, t) <=>
           Len(s) <= Len(t) /\ \A i \in 1..Len(s) : s[i] = t[Len(t) - Len(s) + i]
<1> DEFINE m == Len(s)
           n == Len(t)
<1>1. m \in Nat /\ n \in Nat
  OBVIOUS
<1>2. /\ Reverse(s) \in Seq(Chars) /\ Len(Reverse(s)) = m
      /\ Reverse(t) \in Seq(Chars) /\ Len(Reverse(t)) = n
      /\ \A i \in 1..m : Reverse(s)[i] = s[m - i + 1]
      /\ \A i \in 1..n : Reverse(t)[i] = t[n - i + 1]
  <2>1. \A i \in 1..m : s[m - i + 1] \in Chars
    BY <1>1
  <2>2. \A i \in 1..n : t[n - i + 1] \in Chars
    BY <1>1
  <2> QED  BY <1>1, <2>1, <2>2 DEF Reverse
<1>3. IsSuffix(s, t) <=> m <= n /\ \A i \in 1..m : Reverse(s)[i] = Reverse(t)[i]
  BY <1>2, PrefixMeans DEF IsSuffix
<1> HIDE DEF m, n
<1>4. ASSUME m <= n
      PROVE  (\A i \in 1..m : Reverse(s)[i] = Reverse(t)[i])
               <=> (\A i \in 1..m : s[i] = t[n - m + i])
  <2>1. \A i \in 1..m : i \in 1..n /\ m - i + 1 \in 1..m /\ m - (m - i + 1) + 1 = i
                      /\ n - m + (m - i + 1) = n - i + 1
                      /\ n - (m - i + 1) + 1 = n - m + i
    BY <1>1, <1>4
  <2>2. ASSUME \A i \in 1..m : Reverse(s)[i] = Reverse(t)[i], NEW i \in 1..m
        PROVE  s[i] = t[n - m + i]
    <3>1. m - i + 1 \in 1..m /\ m - i + 1 \in 1..n
      BY <1>1, <1>4
    <3>2. Reverse(s)[m - i + 1] = s[m - (m - i + 1) + 1]
      BY <1>2, <3>1
    <3>3. Reverse(t)[m - i + 1] = t[n - (m - i + 1) + 1]
      BY <1>2, <3>1
    <3> QED  BY <2>1, <2>2, <3>1, <3>2, <3>3
  <2>3. ASSUME \A i \in 1..m : s[i] = t[n - m + i], NEW i \in 1..m
        PROVE  Reverse(s)[i] = Reverse(t)[i]
    <3>1. s[m - i + 1] = t[n - m + (m - i + 1)]
      BY <2>1, <2>3
    <3>2. n - m + (m - i + 1) = n - i + 1 /\ i \in 1..n
      BY <2>1
    <3>3. Reverse(s)[i] = s[m - i + 1] /\ Reverse(t)[i] = t[n - i + 1]
      BY <1>2, <3>2
    <3> QED  BY <3>1, <3>2, <3>3
  <2> QED  BY <2>2, <2>3
<1> QED  BY <1>3, <1>4 DEF m, n

(* FOO_FILE ends in "_FILE", and what is before that is FOO.               *)
LEMMA BaseOfFile ==
  ASSUME NEW k \in Seq(Chars)
  PROVE  LET file == k \o FileSuffix
         IN  /\ file \in Seq(Chars) /\ file # k
             /\ IsSuffix(FileSuffix, file) /\ Base(file) = k
<1> DEFINE file == k \o FileSuffix
<1>1. FileSuffix \in Seq(Chars) /\ FileSuffix # <<>>
  BY BootAssumption
<1>2. /\ file \in Seq(Chars) /\ Len(file) = Len(k) + Len(FileSuffix)
      /\ \A i \in 1..Len(k) : file[i] = k[i]
      /\ \A i \in 1..Len(FileSuffix) : file[Len(k) + i] = FileSuffix[i]
  BY <1>1
<1>3. Len(FileSuffix) \in Nat /\ Len(FileSuffix) > 0 /\ Len(k) \in Nat
  BY <1>1
<1> HIDE DEF file
<1>4. IsSuffix(FileSuffix, file)
  <2>1. Len(FileSuffix) <= Len(file) /\ Len(file) - Len(FileSuffix) = Len(k)
    BY <1>2, <1>3
  <2>2. \A i \in 1..Len(FileSuffix) :
          FileSuffix[i] = file[Len(file) - Len(FileSuffix) + i]
    BY <1>2, <2>1
  <2> QED  BY <1>1, <1>2, <2>1, <2>2, SuffixMeans
<1>5. Base(file) = k
  <2>1. Len(file) - Len(FileSuffix) = Len(k)
    BY <1>2, <1>3
  <2>2. Base(file) = SubSeq(file, 1, Len(k))
    BY <2>1 DEF Base
  <2>3. /\ SubSeq(file, 1, Len(k)) \in Seq(Chars)
        /\ Len(SubSeq(file, 1, Len(k))) = Len(k)
        /\ \A i \in 1..Len(k) : SubSeq(file, 1, Len(k))[i] = file[i]
    BY <1>2, <1>3
  <2> QED  BY <1>2, <2>2, <2>3
<1> QED  BY <1>2, <1>3, <1>4, <1>5 DEF file

LEMMA SuffixBase ==
  ASSUME NEW file \in Seq(Chars), IsSuffix(FileSuffix, file)
  PROVE  Base(file) \in Seq(Chars) /\ Base(file) \o FileSuffix = file
<1> DEFINE n == Len(file)
           m == Len(FileSuffix)
           k == Base(file)
<1>1. FileSuffix \in Seq(Chars) /\ m \in Nat /\ n \in Nat
  BY BootAssumption
<1>2. m <= n /\ \A i \in 1..m : FileSuffix[i] = file[n - m + i]
  BY <1>1, SuffixMeans
<1>3. n - m \in Nat /\ n - m <= n
  BY <1>1, <1>2
<1>4. k \in Seq(Chars) /\ Len(k) = n - m /\ \A i \in 1..n - m : k[i] = file[i]
  BY <1>3 DEF Base
<1> HIDE DEF n, m, k
<1>5. /\ k \o FileSuffix \in Seq(Chars) /\ Len(k \o FileSuffix) = n
      /\ \A i \in 1..n - m : (k \o FileSuffix)[i] = k[i]
      /\ \A i \in 1..m : (k \o FileSuffix)[n - m + i] = FileSuffix[i]
  BY <1>1, <1>2, <1>3, <1>4 DEF m
<1>6. ASSUME NEW i \in 1..n  PROVE (k \o FileSuffix)[i] = file[i]
  <2>1. CASE i <= n - m
    <3>1. i \in 1..n - m
      BY <1>3, <2>1
    <3> QED  BY <1>4, <1>5, <3>1
  <2>2. CASE i > n - m
    <3> DEFINE j == i - (n - m)
    <3>1. j \in 1..m /\ n - m + j = i
      BY <1>1, <1>2, <1>3, <2>2
    <3> HIDE DEF j
    <3>2. (k \o FileSuffix)[n - m + j] = FileSuffix[j] /\ FileSuffix[j] = file[n - m + j]
      BY <1>2, <1>5, <3>1
    <3> QED  BY <3>1, <3>2
  <2>3. i <= n - m \/ i > n - m
    BY <1>3
  <2> QED  BY <2>1, <2>2, <2>3
<1>7. k \o FileSuffix = file
  <2> DEFINE both == k \o FileSuffix
  <2>1. both \in Seq(Chars) /\ Len(both) = Len(file)
        /\ \A i \in 1..Len(file) : both[i] = file[i]
    BY <1>5, <1>6 DEF n
  <2> HIDE DEF both
  <2>2. both = file
    BY <2>1
  <2> QED  BY <2>2 DEF both
<1> QED  BY <1>4, <1>7 DEF k

(* What a process starts from.                                             *)
LEMMA Start0 ==
  ASSUME BootInit
  PROVE  /\ IsEnv(real) /\ lines \in Seq(Line) /\ env = real /\ config = <<>>
         /\ keys = {} /\ at = 0 /\ phase = "dotenv" /\ IsEnv(config)
         /\ cmd \in {"serve", "cli"} /\ starts = {} /\ running = {}
<1>1. DOMAIN <<>> = {} /\ <<>> \in [{} -> STRING]
  OBVIOUS
<1> QED  BY <1>1, BootAssumption DEF BootInit, IsEnv

(* What setting a variable does.                                           *)
LEMMA PutIsEnv ==
  ASSUME NEW f, IsEnv(f), NEW k \in Seq(Chars), NEW v \in STRING
  PROVE  /\ IsEnv(Put(f, k, v))
         /\ DOMAIN Put(f, k, v) = DOMAIN f \cup {k}
         /\ \A j : Value(Put(f, k, v), j) = IF j = k THEN v ELSE Value(f, j)
<1>1. DOMAIN Put(f, k, v) = DOMAIN f \cup {k}
  BY DEF Put
<1>2. \A j \in DOMAIN f \cup {k} : Put(f, k, v)[j] = IF j = k THEN v ELSE f[j]
  BY DEF Put
<1>3. Put(f, k, v) \in [DOMAIN f \cup {k} -> STRING]
  BY DEF Put, IsEnv
<1> QED  BY <1>1, <1>2, <1>3 DEF IsEnv, Value

LEMMA LineAt ==
  ASSUME BootTypeOK, NEW i \in 1..Len(lines)
  PROVE  lines[i] \in Line /\ lines[i].key \in Seq(Chars) /\ lines[i].value \in STRING
<1>1. lines[i] \in Line
  BY DEF BootTypeOK
<1> QED  BY <1>1 DEF Line

LEMMA BootTypeStep ==
  ASSUME BootTypeOK, TypeOK', [BootNext]_bootVars
  PROVE  BootTypeOK'
<1> USE DEF BootTypeOK
<1>1. CASE DotEnvLine
  <2> DEFINE l == lines[at + 1]
  <2>1. /\ at < Len(lines) /\ at' = at + 1 /\ at \in Nat /\ Len(lines) \in Nat
        /\ UNCHANGED <<cmd, phase, real, lines, config, keys, starts, running>>
    BY <1>1 DEF DotEnvLine
  <2>2. l.key \in Seq(Chars) /\ l.value \in STRING
    BY <2>1, LineAt
  <2>3. env' = env \/ env' = Put(env, l.key, l.value)
    BY <1>1 DEF DotEnvLine
  <2>4. IsEnv(env')
    <3> HIDE DEF l
    <3>1. IsEnv(env)
      OBVIOUS
    <3>2. IsEnv(Put(env, l.key, l.value))
      BY <2>2, <3>1, PutIsEnv
    <3> QED  BY <2>3, <3>1, <3>2 DEF IsEnv
  <2>5. at' \in 0..Len(lines)
    BY <2>1
  <2> QED  BY <2>1, <2>4, <2>5
<1>2. CASE LoadConfig
  BY <1>2 DEF LoadConfig
<1>3. ASSUME NEW k \in keys, ExpandFile(k)  PROVE BootTypeOK'
  <2>1. /\ keys' = keys \ {k} /\ k \in Seq(Chars)
        /\ UNCHANGED <<cmd, phase, real, lines, at, env, starts, running>>
    BY <1>3 DEF ExpandFile, IsEnv
  <2>2. IsEnv(config') /\ DOMAIN config \subseteq DOMAIN config'
    <3>1. CASE config' = config
      BY <3>1
    <3>2. CASE config' # config
      <4>1. /\ IsSuffix(FileSuffix, k) /\ config[k] \in DOMAIN Contents
            /\ config' = Put(config, Base(k), Contents[config[k]])
        BY <1>3, <3>2 DEF ExpandFile
      <4>2. Contents[config[k]] \in STRING
        BY <4>1, BootAssumption
      <4>3. Base(k) \in Seq(Chars)
        BY <2>1, <4>1, SuffixBase
      <4> DEFINE b == Base(k)
                 v == Contents[config[k]]
      <4>4. IsEnv(config) /\ b \in Seq(Chars) /\ v \in STRING /\ config' = Put(config, b, v)
        BY <4>1, <4>2, <4>3
      <4> HIDE DEF b, v
      <4>5. IsEnv(Put(config, b, v))
        BY <4>4, PutIsEnv
      <4>6. DOMAIN Put(config, b, v) = DOMAIN config \cup {b}
        BY <4>4, PutIsEnv
      <4> QED  BY <4>4, <4>5, <4>6 DEF IsEnv
    <3> QED  BY <3>1, <3>2
  <2> QED  BY <2>1, <2>2
<1>4. CASE ConfigMade \/ LoadModules \/ Die \/ Listen
  BY <1>4 DEF ConfigMade, LoadModules, Die, Listen, envVars
<1>5. CASE CreateKernel
  BY <1>5 DEF CreateKernel, envVars
<1>6. ASSUME NEW m \in starts, Start(m)  PROVE BootTypeOK'
  BY <1>6 DEF Start, envVars
<1>7. CASE UNCHANGED bootVars
  BY <1>7 DEF bootVars, envVars
<1> QED  BY <1>1, <1>2, <1>3, <1>4, <1>5, <1>6, <1>7 DEF BootNext

(* A booting process keeps its types: the environment and the              *)
(* configuration stay texts by key, whatever .env says and whichever files *)
(* are expanded, and only daemons are started.                             *)
THEOREM BootTypeCorrect == BootSpec => []BootTypeOK
<1>1. Spec => []TypeOK
  <2>1. IInv => TypeOK
    BY DEF IInv
  <2> QED  BY <2>1, LoaderInvariant, PTL
<1>2. BootInit /\ TypeOK => BootTypeOK
  BY Start0 DEF BootTypeOK
<1>3. BootTypeOK /\ TypeOK' /\ [BootNext]_bootVars => BootTypeOK'
  BY BootTypeStep
<1> QED  BY <1>1, <1>2, <1>3, BootLoads, PTL DEF BootSpec

(* A line of .env that gives its key a value: the first to name it, and    *)
(* the real environment does not.                                          *)
FirstFor(i) ==
  /\ lines[i] # Ignored /\ lines[i].key \notin DOMAIN real
  /\ \A j \in 1..i - 1 : lines[j] # Ignored => lines[j].key # lines[i].key

(* The environment after the lines read so far.                            *)
EnvSoFar ==
  /\ \A k \in DOMAIN env :
       k \in DOMAIN real \/ \E i \in 1..at : FirstFor(i) /\ lines[i].key = k
  /\ \A k \in DOMAIN real : k \in DOMAIN env /\ env[k] = real[k]
  /\ \A i \in 1..at :
       /\ lines[i] # Ignored => lines[i].key \in DOMAIN env
       /\ FirstFor(i) => env[lines[i].key] = lines[i].value

LEMMA EnvSoFarStep ==
  ASSUME BootTypeOK, EnvSoFar, [BootNext]_bootVars
  PROVE  EnvSoFar'
<1>1. CASE DotEnvLine
  <2> DEFINE n == at + 1
             l == lines[n]
  <2>1. /\ at < Len(lines) /\ at' = n /\ at \in Nat /\ n \in 1..Len(lines)
        /\ UNCHANGED <<real, lines>>
    BY <1>1 DEF DotEnvLine, BootTypeOK
  <2>2. l.key \in Seq(Chars) /\ l.value \in STRING /\ IsEnv(env)
    BY <2>1, LineAt DEF BootTypeOK
  <2>3. 1..n = 1..at \cup {n} /\ n - 1 = at
    BY <2>1
  <2>4. env' = IF l = Ignored \/ l.key \in DOMAIN env THEN env ELSE Put(env, l.key, l.value)
    BY <1>1 DEF DotEnvLine, Taken
  <2>5. \A i : FirstFor(i)' <=> FirstFor(i)
    BY <2>1 DEF FirstFor
  <2>6. CASE l = Ignored \/ l.key \in DOMAIN env
    <3>1. env' = env
      BY <2>4, <2>6
    <3>2. ~FirstFor(n)
      <4> SUFFICES ASSUME FirstFor(n)  PROVE FALSE
        OBVIOUS
      <4>1. /\ l # Ignored /\ l.key \notin DOMAIN real
            /\ \A j \in 1..at : lines[j] # Ignored => lines[j].key # l.key
        BY <2>3 DEF FirstFor
      <4>2. PICK j \in 1..at : FirstFor(j) /\ lines[j].key = l.key
        BY <2>6, <4>1 DEF EnvSoFar
      <4> QED  BY <4>1, <4>2 DEF FirstFor
    <3>3. l # Ignored => l.key \in DOMAIN env
      BY <2>6
    <3> HIDE DEF n
    <3> QED  BY <2>1, <2>3, <2>5, <3>1, <3>2, <3>3 DEF EnvSoFar
  <2>7. CASE l # Ignored /\ l.key \notin DOMAIN env
    <3>1. /\ DOMAIN env' = DOMAIN env \cup {l.key} /\ env'[l.key] = l.value
          /\ \A k \in DOMAIN env : env'[k] = env[k]
      BY <2>4, <2>7 DEF Put
    <3>2. FirstFor(n)
      <4>1. l.key \notin DOMAIN real
        BY <2>7 DEF EnvSoFar
      <4>2. \A j \in 1..at : lines[j] # Ignored => lines[j].key # l.key
        BY <2>7 DEF EnvSoFar
      <4> QED  BY <2>3, <2>7, <4>1, <4>2 DEF FirstFor
    <3> HIDE DEF n
    <3>3. ASSUME NEW k \in DOMAIN env'
          PROVE  k \in DOMAIN real \/ \E i \in 1..n : FirstFor(i) /\ lines[i].key = k
      <4>1. CASE k = l.key
        BY <2>3, <3>2, <4>1
      <4>2. CASE k \in DOMAIN env
        BY <2>3, <4>2 DEF EnvSoFar
      <4> QED  BY <3>1, <4>1, <4>2
    <3>4. \A k \in DOMAIN real : k \in DOMAIN env' /\ env'[k] = real[k]
      BY <3>1 DEF EnvSoFar
    <3>5. ASSUME NEW i \in 1..n
          PROVE  /\ lines[i] # Ignored => lines[i].key \in DOMAIN env'
                 /\ FirstFor(i) => env'[lines[i].key] = lines[i].value
      <4>1. CASE i = n
        BY <3>1, <4>1
      <4>2. CASE i \in 1..at
        <5>1. lines[i] # Ignored => lines[i].key \in DOMAIN env
          BY <4>2 DEF EnvSoFar
        <5>2. FirstFor(i) => lines[i] # Ignored /\ env[lines[i].key] = lines[i].value
          BY <4>2 DEF EnvSoFar, FirstFor
        <5> QED  BY <3>1, <5>1, <5>2
      <4> QED  BY <2>3, <4>1, <4>2
    <3> QED  BY <2>1, <2>5, <3>3, <3>4, <3>5 DEF EnvSoFar
  <2> QED  BY <2>6, <2>7
<1>2. CASE ~DotEnvLine
  <2>1. UNCHANGED <<real, lines, at, env>>
    BY <1>2 DEF BootNext, LoadConfig, ExpandFile, ConfigMade, LoadModules, Die,
                CreateKernel, Start, Listen, envVars, bootVars
  <2> QED  BY <2>1 DEF EnvSoFar, FirstFor
<1> QED  BY <1>1, <1>2

(* A non-empty set of naturals has a least member.                         *)
LEMMA LeastMember ==
  ASSUME NEW S \in SUBSET Nat, S # {}
  PROVE  Min(S) \in S /\ \A y \in S : Min(S) <= y
<1>1. PICK p \in S : \A q \in S : ~(<<q, p>> \in OpToRel(<, Nat))
  BY NatLessThanWellFounded, WFMin
<1>2. \A q \in S : p <= q
  <2>1. \A q \in S : ~(q < p)
    BY <1>1 DEF OpToRel
  <2> QED  BY <2>1
<1> QED  BY <1>2 DEF Min

(* When .env has been read, every variable has the value it was given.     *)
LEMMA EnvIsGiven ==
  ASSUME BootTypeOK, EnvSoFar, at = Len(lines), NEW k
  PROVE  Value(env, k) = Given(k)
<1> DEFINE own == {i \in DOMAIN lines : lines[i] # Ignored /\ lines[i].key = k}
<1>1. DOMAIN lines = 1..at /\ at \in Nat
  BY DEF BootTypeOK
<1>2. CASE k \in DOMAIN real
  BY <1>2 DEF EnvSoFar, Value, Given
<1>3. CASE k \notin DOMAIN real /\ own # {}
  <2>1. own \in SUBSET Nat
    BY <1>1
  <2> DEFINE i == Min(own)
  <2>2. i \in own /\ \A j \in own : i <= j
    <3> HIDE DEF own
    <3> QED  BY <1>3, <2>1, LeastMember
  <2> HIDE DEF i
  <2>3. i \in 1..at /\ lines[i] # Ignored /\ lines[i].key = k
    BY <1>1, <2>2
  <2>4. ASSUME NEW j \in 1..i - 1, lines[j] # Ignored, lines[j].key = k  PROVE FALSE
    <3>1. j \in 1..at /\ ~(i <= j)
      BY <1>1, <2>3
    <3>2. j \in own
      BY <1>1, <2>4, <3>1
    <3> QED  BY <2>2, <3>1, <3>2
  <2>5. FirstFor(i)
    BY <1>3, <2>3, <2>4 DEF FirstFor
  <2>6. k \in DOMAIN env /\ env[k] = lines[i].value
    BY <2>3, <2>5 DEF EnvSoFar
  <2>7. Given(k) = lines[i].value
    BY <1>3 DEF Given, i
  <2> QED  BY <2>6, <2>7 DEF Value
<1>4. CASE k \notin DOMAIN real /\ own = {}
  <2>1. k \notin DOMAIN env
    BY <1>1, <1>4 DEF EnvSoFar, FirstFor
  <2>2. Given(k) = Empty
    BY <1>4 DEF Given
  <2> QED  BY <2>1, <2>2 DEF Value
<1> QED  BY <1>2, <1>3, <1>4

(* A variable of the configuration while file-backed secrets are expanded: *)
(* what was given stays, and what was not comes from its FOO_FILE, once    *)
(* that has been looked at.                                                *)
SettledKey(k) ==
  LET file == k \o FileSuffix IN
  IF Given(k) # Empty THEN Value(config, k) = Given(k)
  ELSE /\ Value(config, k) \in {Empty, FromFile(Value(config, file))}
       /\ file \in keys => Value(config, k) = Empty
       /\ file \notin keys /\ Given(file) # Empty
            => Value(config, k) = FromFile(Given(file))

ConfigInv ==
  /\ phase # "dotenv" => at = Len(lines) /\ \A k \in Seq(Chars) : SettledKey(k)
  /\ phase \notin {"dotenv", "config"} => keys = {}

LEMMA NoFileIsEmpty == FromFile(Empty) = Empty
BY BootAssumption DEF FromFile

(* What looking at one key does to the variables of the configuration.     *)
LEMMA ExpandFileWrites ==
  ASSUME BootTypeOK, NEW f \in keys, ExpandFile(f)
  PROVE  \/ /\ \A j : Value(config', j) = Value(config, j)
            /\ IsSuffix(FileSuffix, f) /\ Value(config, Base(f)) = Empty
                 => FromFile(Value(config, f)) = Empty
         \/ /\ IsSuffix(FileSuffix, f) /\ Value(config, Base(f)) = Empty
            /\ \A j : Value(config', j) =
                        IF j = Base(f) THEN FromFile(Value(config, f)) ELSE Value(config, j)
<1>1. f \in Seq(Chars) /\ IsEnv(config) /\ Value(config, f) = config[f]
  BY DEF BootTypeOK, IsEnv, Value
<1> DEFINE v == Contents[config[f]]
           b == Base(f)
<1>2. CASE IsSuffix(FileSuffix, f) /\ Value(config, b) = Empty /\ config[f] \in DOMAIN Contents
  <2>1. config' = Put(config, b, v)
    BY <1>2 DEF ExpandFile
  <2>2. b \in Seq(Chars) /\ v \in STRING
    BY <1>1, <1>2, SuffixBase, BootAssumption
  <2>3. v = FromFile(Value(config, f))
    BY <1>1, <1>2 DEF FromFile
  <2> HIDE DEF v, b
  <2>4. \A j : Value(Put(config, b, v), j) = IF j = b THEN v ELSE Value(config, j)
    BY <1>1, <2>2, PutIsEnv
  <2>5. \A j : Value(config', j) = IF j = b THEN v ELSE Value(config, j)
    BY <2>1, <2>4 DEF Value
  <2> QED  BY <1>2, <2>3, <2>5 DEF b
<1>3. CASE ~(IsSuffix(FileSuffix, f) /\ Value(config, b) = Empty /\ config[f] \in DOMAIN Contents)
  <2>1. config' = config
    BY <1>3 DEF ExpandFile
  <2>2. IsSuffix(FileSuffix, f) /\ Value(config, b) = Empty => FromFile(Value(config, f)) = Empty
    BY <1>1, <1>3 DEF FromFile
  <2> HIDE DEF b
  <2>3. \A j : Value(config', j) = Value(config, j)
    BY <2>1
  <2> QED  BY <2>2, <2>3 DEF b
<1> QED  BY <1>2, <1>3

LEMMA ExpandFileSettles ==
  ASSUME BootTypeOK, \A k \in Seq(Chars) : SettledKey(k),
         NEW f \in keys, ExpandFile(f), NEW k \in Seq(Chars)
  PROVE  SettledKey(k)'
<1> DEFINE file == k \o FileSuffix
<1>1. /\ file \in Seq(Chars) /\ file # k
      /\ IsSuffix(FileSuffix, file) /\ Base(file) = k
  BY BaseOfFile
<1>2. keys' = keys \ {f} /\ UNCHANGED <<real, lines>>
  BY DEF ExpandFile
<1>3. Given(k)' = Given(k) /\ Given(file)' = Given(file)
  BY <1>2 DEF Given
<1>4. f \in Seq(Chars)
  BY DEF BootTypeOK, IsEnv
<1>5. SettledKey(k) /\ SettledKey(file)
  BY <1>1
<1>6. Given(file) # Empty => Value(config, file) = Given(file)
  BY <1>5 DEF SettledKey
<1> HIDE DEF file
<1>7. CASE Given(k) # Empty
  <2>1. Value(config, k) = Given(k)
    BY <1>5, <1>7 DEF SettledKey
  <2>2. Value(config', k) = Given(k)
    BY <1>7, <2>1, ExpandFileWrites
  <2> QED  BY <1>3, <1>7, <2>2 DEF SettledKey, file
<1>8. CASE Given(k) = Empty
  <2>1. /\ Value(config, k) \in {Empty, FromFile(Value(config, file))}
        /\ file \in keys => Value(config, k) = Empty
        /\ file \notin keys /\ Given(file) # Empty => Value(config, k) = FromFile(Given(file))
    BY <1>5, <1>8 DEF SettledKey, file
  <2>2. /\ Value(config', k) \in {Empty, FromFile(Value(config', file))}
        /\ file \in keys' => Value(config', k) = Empty
        /\ file \notin keys' /\ Given(file) # Empty => Value(config', k) = FromFile(Given(file))
    <3>1. CASE /\ \A j : Value(config', j) = Value(config, j)
               /\ IsSuffix(FileSuffix, f) /\ Value(config, Base(f)) = Empty
                    => FromFile(Value(config, f)) = Empty
      <4>1. CASE file = f
        BY <1>1, <1>2, <1>6, <2>1, <3>1, <4>1
      <4>2. CASE file # f
        BY <1>2, <2>1, <3>1, <4>2
      <4> QED  BY <4>1, <4>2
    <3>2. CASE /\ IsSuffix(FileSuffix, f) /\ Value(config, Base(f)) = Empty
               /\ \A j : Value(config', j) =
                          IF j = Base(f) THEN FromFile(Value(config, f)) ELSE Value(config, j)
      <4>1. CASE f = file
        <5>1. /\ Value(config', k) = FromFile(Value(config, file))
              /\ Value(config', file) = Value(config, file)
          BY <1>1, <3>2, <4>1
        <5> QED  BY <1>2, <1>6, <4>1, <5>1
      <4>2. CASE f # file
        <5>1. Base(f) # k
          BY <1>4, <3>2, <4>2, SuffixBase DEF file
        <5>2. Value(config', k) = Value(config, k)
          BY <3>2, <5>1
        <5>3. CASE Base(f) = file
          <6>1. Value(config, k) = Empty
            BY <2>1, <3>2, <5>3, NoFileIsEmpty
          <6> QED  BY <1>2, <2>1, <4>2, <5>2, <6>1
        <5>4. CASE Base(f) # file
          <6>1. Value(config', file) = Value(config, file)
            BY <3>2, <5>4
          <6> QED  BY <1>2, <2>1, <4>2, <5>2, <6>1
        <5> QED  BY <5>3, <5>4
      <4> QED  BY <4>1, <4>2
    <3> QED  BY <3>1, <3>2, ExpandFileWrites
  <2> QED  BY <1>3, <1>8, <2>2 DEF SettledKey, file
<1> QED  BY <1>7, <1>8

LEMMA ConfigStep ==
  ASSUME BootTypeOK, EnvSoFar, ConfigInv, [BootNext]_bootVars
  PROVE  ConfigInv'
<1>1. CASE DotEnvLine
  BY <1>1 DEF DotEnvLine, ConfigInv
<1>2. CASE LoadConfig
  <2>1. /\ at = Len(lines) /\ phase' = "config" /\ config' = env /\ keys' = DOMAIN env
        /\ UNCHANGED <<real, lines, at>>
    BY <1>2 DEF LoadConfig
  <2>2. \A k : Value(config', k) = Given(k)
    BY <2>1, EnvIsGiven
  <2>3. \A k : k \notin keys' => Given(k) = Empty
    BY <2>1, EnvIsGiven DEF Value
  <2>4. \A k : Given(k)' = Given(k)
    BY <2>1 DEF Given
  <2>5. ASSUME NEW k \in Seq(Chars)  PROVE SettledKey(k)'
    BY <2>2, <2>3, <2>4 DEF SettledKey
  <2> QED  BY <2>1, <2>5 DEF ConfigInv
<1>3. ASSUME NEW f \in keys, ExpandFile(f)  PROVE ConfigInv'
  <2>1. phase = "config" /\ UNCHANGED <<phase, lines, at>>
    BY <1>3 DEF ExpandFile
  <2>2. at = Len(lines) /\ \A k \in Seq(Chars) : SettledKey(k)
    BY <2>1 DEF ConfigInv
  <2>3. \A k \in Seq(Chars) : SettledKey(k)'
    BY <1>3, <2>2, ExpandFileSettles
  <2> QED  BY <2>1, <2>2, <2>3 DEF ConfigInv
<1>4. CASE ConfigMade \/ LoadModules \/ Die \/ CreateKernel \/ Listen
             \/ (\E m \in starts : Start(m)) \/ UNCHANGED bootVars
  <2>1. /\ UNCHANGED <<real, lines, at, config, keys>>
        /\ phase' = "dotenv" => phase = "dotenv"
        /\ phase = "dotenv" => phase' = "dotenv"
        /\ phase' \notin {"dotenv", "config"} => phase \notin {"dotenv", "config"} \/ keys = {}
    BY <1>4 DEF ConfigMade, LoadModules, Die, CreateKernel, Start, Listen, envVars, bootVars
  <2>2. \A k : SettledKey(k)' <=> SettledKey(k)
    BY <2>1 DEF SettledKey, Given
  <2> QED  BY <2>1, <2>2 DEF ConfigInv
<1> QED  BY <1>1, <1>2, <1>3, <1>4 DEF BootNext

(* Every variable of the configuration comes from where it should: the     *)
(* real environment, else the first line of .env, else the file that its   *)
(* FOO_FILE names; in whatever order the keys are looked at, and for every *)
(* environment, .env and set of readable files.                            *)
THEOREM ConfigAlwaysPrecedes == BootSpec => []ConfigPrecedence
<1>1. BootInit => EnvSoFar /\ ConfigInv
  <2> SUFFICES ASSUME BootInit  PROVE EnvSoFar /\ ConfigInv
    OBVIOUS
  <2>1. env = real /\ at = 0 /\ phase = "dotenv"
    BY Start0
  <2> QED  BY <2>1 DEF EnvSoFar, ConfigInv
<1>2. BootTypeOK /\ (EnvSoFar /\ ConfigInv) /\ [BootNext]_bootVars => (EnvSoFar /\ ConfigInv)'
  BY EnvSoFarStep, ConfigStep
<1>3. EnvSoFar /\ ConfigInv => ConfigPrecedence
  <2> SUFFICES ASSUME ConfigInv, phase \notin {"dotenv", "config"}, NEW k \in EnvKeys
               PROVE  LET file == k \o FileSuffix
                      IN  IF Given(k) # Empty THEN Value(config, k) = Given(k)
                          ELSE IF Given(file) # Empty
                            THEN Value(config, k) = FromFile(Given(file))
                            ELSE Value(config, k) \in {Empty, FromFile(Value(config, file))}
    BY DEF ConfigPrecedence
  <2>1. SettledKey(k) /\ keys = {}
    BY LoaderAssumption DEF ConfigInv
  <2> QED  BY <2>1 DEF SettledKey
<1> QED  BY <1>1, <1>2, <1>3, BootTypeCorrect, PTL DEF BootSpec

----------------------------------------------------------------------------
(* What becomes of a process.                                              *)

Loaded == {mods[i] : i \in DOMAIN mods}

(* The verdict of the loader decides; daemons come after it, for a server  *)
(* only, and only those of its modules.                                    *)
FateInv ==
  /\ phase = "dead" => result \in Errors
  /\ phase \in {"command", "booted", "listening"} => result = "loaded"
  /\ starts \cup running # {} => cmd = "serve" /\ phase \in {"booted", "listening"}
  /\ starts \cup running \subseteq Loaded
  /\ phase \in {"booted", "listening"} => cmd = "serve"
  /\ phase = "listening" => starts = {}

(* A process dies of its modules only if they do not fit together, and one *)
(* that serves or runs a command has modules that do; a daemon runs only   *)
(* in a server, only if its module was loaded, and after all of them were; *)
(* the server listens when each was started.                               *)
OnlyFittingModulesRun ==
  /\ phase = "dead" => ~Fits
  /\ phase \in {"command", "booted", "listening"} => Fits
  /\ running # {} => Fits /\ cmd = "serve" /\ running \subseteq Loaded
  /\ phase = "listening" => cmd = "serve" /\ starts = {}

LEMMA FateStep ==
  ASSUME FateInv, [BootNext]_bootVars  PROVE FateInv'
<1>1. CASE DotEnvLine \/ LoadConfig \/ ConfigMade \/ (\E k \in keys : ExpandFile(k))
  <2>1. /\ UNCHANGED <<result, mods, cmd, starts, running>>
        /\ phase \in {"dotenv", "config"} /\ phase' \in {"dotenv", "config", "modules"}
    BY <1>1 DEF DotEnvLine, LoadConfig, ConfigMade, ExpandFile, loaderVars
  <2> QED  BY <2>1 DEF FateInv, Loaded
<1>2. CASE LoadModules
  <2>1. phase = "modules" /\ UNCHANGED <<phase, starts, running>>
    BY <1>2 DEF LoadModules
  <2> QED  BY <2>1 DEF FateInv
<1>3. CASE Die
  <2>1. /\ phase = "modules" /\ phase' = "dead" /\ result \in Errors
        /\ UNCHANGED <<result, mods, cmd, starts, running>>
    BY <1>3 DEF Die, loaderVars
  <2> QED  BY <2>1 DEF FateInv, Loaded
<1>4. CASE CreateKernel
  <2>1. /\ phase = "modules" /\ result = "loaded" /\ UNCHANGED <<result, mods, cmd, running>>
        /\ \/ cmd = "serve" /\ phase' = "booted" /\ starts' \subseteq Loaded
           \/ phase' = "command" /\ UNCHANGED starts
    BY <1>4 DEF CreateKernel, loaderVars, Loaded
  <2> QED  BY <2>1 DEF FateInv, Loaded
<1>5. ASSUME NEW m \in starts, Start(m)  PROVE FateInv'
  <2>1. /\ starts' \cup running' \subseteq starts \cup running
        /\ UNCHANGED <<result, mods, cmd, phase>>
        /\ starts' \subseteq starts
    BY <1>5 DEF Start, loaderVars
  <2> QED  BY <2>1 DEF FateInv, Loaded
<1>6. CASE Listen
  <2>1. /\ phase = "booted" /\ phase' = "listening" /\ starts = {}
        /\ UNCHANGED <<result, mods, cmd, starts, running>>
    BY <1>6 DEF Listen, loaderVars
  <2> QED  BY <2>1 DEF FateInv, Loaded
<1>7. CASE UNCHANGED bootVars
  BY <1>7 DEF bootVars, loaderVars, FateInv, Loaded
<1> QED  BY <1>1, <1>2, <1>3, <1>4, <1>5, <1>6, <1>7 DEF BootNext

(* Whatever files the directory holds: no daemon runs beside a module that *)
(* was refused, and no process gives up on a directory that is right.      *)
THEOREM OnlyFittingModulesEverRun == BootSpec => []OnlyFittingModulesRun
<1>1. BootInit => FateInv
  BY DEF BootInit, FateInv
<1>2. FateInv /\ [BootNext]_bootVars => FateInv'
  BY FateStep
<1>3. FateInv /\ VerdictIgnoresOrder => OnlyFittingModulesRun
  BY DEF FateInv, VerdictIgnoresOrder, OnlyFittingModulesRun
<1> QED
  BY <1>1, <1>2, <1>3, BootLoads, VerdictAlwaysIgnoresOrder, PTL DEF BootSpec
============================================================================
