---------------------------- MODULE ModuleLoader ----------------------------
(***************************************************************************)
(* Boot: kernel.mjs loadModules imports the module files one after the     *)
(* other and refuses the whole set at the first that does not fit; envFor  *)
(* and the store's moduleView then give each module its own part of the    *)
(* environment and of the store, told apart by the beginning of a key      *)
(* only.  Names and keys are sequences of characters: which one begins     *)
(* another, once "-" has become "_", is what this module is about.         *)
(***************************************************************************)
EXTENDS Integers, SequencesExt

CONSTANTS
  Files,         (* the places in the directory's sorted order            *)
  Chars,         (* what names of modules and keys are made of            *)
  Letters,       (* [a-z0-9]                                              *)
  Upper,         (* toUpperCase of each                                   *)
  ModuleNames,   (* names the modules may have, of Letters, "-" and "_"   *)
  EnvKeys,       (* names of environment variables                        *)
  StoreKeys,     (* keys a module may ask of its store                    *)
  ReservedName   (* "hmac"                                                *)

NameChars == Letters \cup {"-", "_"}

ASSUME LoaderAssumption ==
  /\ Files \subseteq Nat
  /\ NameChars \cup {":"} \subseteq Chars
  /\ Upper \in [Letters -> Chars]
  /\ ":" \notin NameChars
  /\ ModuleNames \subseteq Seq(NameChars) \ {<<>>}
  /\ ReservedName \in Seq(NameChars)
  /\ EnvKeys \subseteq Seq(Chars) /\ StoreKeys \subseteq Seq(Chars)

(* What a file turns out to be.  A skipped one is a "_" helper, a test, or *)
(* not there at all.                                                       *)
FileTypes ==
  [kind : {"skipped", "import_fails", "no_default", "bad_name"}]
    \cup [kind : {"module"}, name : ModuleNames]

VARIABLES
  dir,      (* the modules directory                                      *)
  queue,    (* the files still to import                                  *)
  mods,     (* the names of the modules loaded so far, in order           *)
  result    (* "loading", "loaded", or why the set is refused             *)

vars == <<dir, queue, mods, result>>

(* Mutated: helpers and tests are imported too.                            *)
LoadableUnfiltered == Files

Loadable == {f \in Files : dir[f].kind # "skipped"}

----------------------------------------------------------------------------
(* What a module sees of the environment and of the store.                 *)

EnvChar(c) == IF c \in Letters THEN Upper[c] ELSE "_"

EnvPrefix(name) ==
  [i \in 1..Len(name) + 1 |-> IF i <= Len(name) THEN EnvChar(name[i]) ELSE "_"]

(* envFor selects by prefix.                                               *)
Sees(name, key) == IsPrefix(EnvPrefix(name), key)

(* Mutated: no separator between the module's name and its key.            *)
ResolveUnseparated(name, k) == name \o k

Resolve(name, k) == name \o <<":">> \o k

IsReserved(key) == IsPrefix(ReservedName \o <<":">>, key)

(* moduleView: reserved keys are denied.                                   *)
Reaches(name, key) ==
  ~IsReserved(key) /\ \E k \in StoreKeys : key = Resolve(name, k)

----------------------------------------------------------------------------
(* loadModules.                                                            *)

IsNext(f) == result = "loading" /\ f \in queue /\ \A g \in queue : f <= g

Duplicate(f) == \E i \in DOMAIN mods : mods[i] = dir[f].name

(* Mutated: only a prefix that a loaded one begins with is noticed.        *)
CollidesOneWay(f) ==
  \E i \in DOMAIN mods : IsPrefix(EnvPrefix(mods[i]), EnvPrefix(dir[f].name))

(* One environment prefix begins the other.                                *)
Collides(f) ==
  \E i \in DOMAIN mods :
    \/ IsPrefix(EnvPrefix(mods[i]), EnvPrefix(dir[f].name))
    \/ IsPrefix(EnvPrefix(dir[f].name), EnvPrefix(mods[i]))

Refuse(f) ==
  /\ IsNext(f)
  /\ \/ dir[f].kind # "module" /\ result' = dir[f].kind
     \/ dir[f].kind = "module" /\ Duplicate(f) /\ result' = "duplicate"
     \/ /\ dir[f].kind = "module" /\ ~Duplicate(f) /\ Collides(f)
        /\ result' = "collision"
  /\ UNCHANGED <<dir, queue, mods>>

Accept(f) ==
  /\ IsNext(f)
  /\ dir[f].kind = "module" /\ ~Duplicate(f) /\ ~Collides(f)
  /\ mods' = Append(mods, dir[f].name)
  /\ queue' = queue \ {f}
  /\ UNCHANGED <<dir, result>>

AllLoaded ==
  /\ result = "loading" /\ queue = {}
  /\ result' = "loaded"
  /\ UNCHANGED <<dir, queue, mods>>

Init ==
  /\ dir \in [Files -> FileTypes]
  /\ queue = Loadable
  /\ mods = <<>>
  /\ result = "loading"

Next == AllLoaded \/ \E f \in Files : Refuse(f) \/ Accept(f)

Spec == Init /\ [][Next]_vars

----------------------------------------------------------------------------

Errors == {"import_fails", "no_default", "bad_name", "duplicate", "collision"}

TypeOK ==
  /\ dir \in [Files -> FileTypes]
  /\ queue \subseteq Loadable
  /\ mods \in Seq(ModuleNames)
  /\ result \in {"loading", "loaded"} \cup Errors

(* I6, "a module cannot read another's ... secrets": no environment        *)
(* variable, whatever its name, is in the views of two loaded modules      *)
(* (kernel.mjs 623-665).                                                   *)
EnvViewsDisjoint ==
  \A i, j \in DOMAIN mods : i # j =>
    ~ \E key \in EnvKeys : Sees(mods[i], key) /\ Sees(mods[j], key)

(* "Namespaced to YOUR module" (CONTRACT.md 81): no store key, whatever a  *)
(* module asks for, is reached by two loaded modules.                      *)
StoreViewsDisjoint ==
  \A i, j \in DOMAIN mods : i # j =>
    ~ \E k \in StoreKeys : LET key == Resolve(mods[i], k) IN
        Reaches(mods[i], key) /\ Reaches(mods[j], key)

(* Two names whose modules would both see some variable.                   *)
Overlap(m, n) ==
  \E key \in {EnvPrefix(m), EnvPrefix(n)} : Sees(m, key) /\ Sees(n, key)

Fits ==
  \A f \in Loadable :
    /\ dir[f].kind = "module"
    /\ \A g \in Loadable \ {f} :
         dir[g].kind = "module" => ~Overlap(dir[f].name, dir[g].name)

(* Whether a set of files is loaded or refused depends on the set and not  *)
(* on the order they come in: it is loaded exactly when every file is a    *)
(* module and no two of them would share a variable.                       *)
VerdictIgnoresOrder ==
  /\ result = "loaded" => Fits
  /\ result \in Errors => ~Fits

----------------------------------------------------------------------------
(* lint.mjs, the gate run before a build: what lintSource and lintDir say  *)
(* of the names in the same directory.  A file is only read there, so one  *)
(* that cannot be imported is no finding.                                  *)

LintSourceFinds(f) == dir[f].kind \in {"no_default", "bad_name"}

(* Mutated: only a prefix that a later file's begins with is noticed.      *)
LintDirFindsOneWay(f, g) ==
  /\ dir[f].kind = "module" /\ dir[g].kind = "module" /\ f < g
  /\ \/ dir[f].name = dir[g].name
     \/ IsPrefix(EnvPrefix(dir[f].name), EnvPrefix(dir[g].name))

LintDirFinds(f, g) ==
  /\ dir[f].kind = "module" /\ dir[g].kind = "module" /\ f < g
  /\ \/ dir[f].name = dir[g].name
     \/ IsPrefix(EnvPrefix(dir[f].name), EnvPrefix(dir[g].name))
     \/ IsPrefix(EnvPrefix(dir[g].name), EnvPrefix(dir[f].name))

LintPasses ==
  /\ \A f \in Loadable : ~LintSourceFinds(f)
  /\ \A f, g \in Loadable : ~LintDirFinds(f, g)

(* "mirrors kernel envFor" (lint.mjs 710): the gate and the loader, each   *)
(* with its own code and order of comparison, give the same verdict on     *)
(* every directory whose files can be imported.                            *)
GateAgreesWithLoader ==
  (\A f \in Loadable : dir[f].kind # "import_fails") =>
    /\ result = "loaded" => LintPasses
    /\ result \in Errors => ~LintPasses
============================================================================
