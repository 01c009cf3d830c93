-------------------------------- MODULE Boot --------------------------------
(***************************************************************************)
(* server.mjs main, serve and the CLI commands up to the registry, with    *)
(* kernel.mjs loadConfig and boot: a process reads .env into its           *)
(* environment, makes the configuration of it, loads the modules (the      *)
(* module ModuleLoader) and, if it is the server, starts their daemons and *)
(* listens.  Everything here runs on one thread, in this order, up to the  *)
(* daemons, whose start never returns.                                     *)
(***************************************************************************)
EXTENDS ModuleLoader

CONSTANTS
  FileSuffix,   (* "_FILE"                                                *)
  Contents,     (* the files that can be read, by path, and what is there *)
  Daemons,      (* the names of modules that have a start                 *)
  Setups        (* what the operator may have set up before a process     *)

Empty == ""
Ignored == [key |-> <<>>, value |-> Empty]  (* blank, a comment, no key    *)
Line == [key : Seq(Chars), value : STRING]

(* An environment gives some keys a text each.                             *)
IsEnv(f) == DOMAIN f \subseteq Seq(Chars) /\ f \in [DOMAIN f -> STRING]

ASSUME BootAssumption ==
  /\ FileSuffix \in Seq(Chars) \ {<<>>}
  /\ Daemons \subseteq ModuleNames
  /\ Contents \in [DOMAIN Contents -> STRING] /\ Empty \notin DOMAIN Contents
  /\ \A s \in Setups :
       /\ s.dir \in [Files -> FileTypes]
       /\ IsEnv(s.real) /\ s.lines \in Seq(Line)

VARIABLES
  cmd,      (* argv: "serve", or "cli" for issue, kill and show           *)
  phase,    (* what the process is doing                                  *)
  real,     (* history: the environment the process was started with      *)
  lines,    (* history: .env, by its lines                                *)
  at,       (* how many of them have been read                            *)
  env,      (* process.env                                                *)
  config,   (* loadConfig's copy, cfg._env                                *)
  keys,     (* those of Object.keys it has still to look at               *)
  starts,   (* the daemons whose start is a job of the event loop         *)
  running   (* the daemons whose start was called                         *)

loaderVars == <<dir, queue, mods, result>>
envVars == <<real, lines, at, env, config, keys>>
bootVars == <<loaderVars, cmd, phase, envVars, starts, running>>

----------------------------------------------------------------------------
(* The environment.  A variable that is "" counts as one that is not set   *)
(* for the configuration, but not for .env.                                *)

(* f[k] = v                                                                *)
Put(f, k, v) == [j \in DOMAIN f \cup {k} |-> IF j = k THEN v ELSE f[j]]

Value(f, k) == IF k \in DOMAIN f THEN f[k] ELSE Empty

(* Mutated: a variable of the real environment that is "" does not count.  *)
TakenIfSet(k) == Value(env, k) # Empty

(* process.env has the key already: from outside, or from a line above.    *)
Taken(k) == k \in DOMAIN env

(* loadDotEnv, one line.                                                   *)
DotEnvLine ==
  /\ phase = "dotenv" /\ at < Len(lines)
  /\ at' = at + 1
  /\ LET l == lines[at + 1] IN
       env' = IF l = Ignored \/ Taken(l.key) THEN env ELSE Put(env, l.key, l.value)
  /\ UNCHANGED <<loaderVars, cmd, phase, real, lines, config, keys, starts, running>>

(* loadConfig begins with a copy and the list of its keys.                 *)
LoadConfig ==
  /\ phase = "dotenv" /\ at = Len(lines)
  /\ phase' = "config" /\ config' = env /\ keys' = DOMAIN env
  /\ UNCHANGED <<loaderVars, cmd, real, lines, at, env, starts, running>>

Base(k) == SubSeq(k, 1, Len(k) - Len(FileSuffix))

(* FOO_FILE=path gives FOO, unless there is a FOO or nothing to read.  The *)
(* keys come in the order of the environment, which is any.                *)
ExpandFile(k) ==
  /\ phase = "config" /\ k \in keys
  /\ keys' = keys \ {k}
  /\ config' = IF /\ IsSuffix(FileSuffix, k)
                  /\ Value(config, Base(k)) = Empty
                  /\ config[k] \in DOMAIN Contents
                 THEN Put(config, Base(k), Contents[config[k]]) ELSE config
  /\ UNCHANGED <<loaderVars, cmd, phase, real, lines, at, env, starts, running>>

ConfigMade ==
  /\ phase = "config" /\ keys = {}
  /\ phase' = "modules"
  /\ UNCHANGED <<loaderVars, cmd, envVars, starts, running>>

----------------------------------------------------------------------------
(* The modules, and what the process is for.                               *)

LoadModules ==
  /\ phase = "modules" /\ Next
  /\ UNCHANGED <<cmd, phase, envVars, starts, running>>

(* Nobody catches what loadModules throws.                                 *)
Die ==
  /\ phase = "modules" /\ result \in Errors
  /\ phase' = "dead"
  /\ UNCHANGED <<loaderVars, cmd, envVars, starts, running>>

(* createKernel and, for the server, kernel.boot(): one job per daemon, in *)
(* front of the rest of serve().                                           *)
CreateKernel ==
  /\ phase = "modules" /\ result = "loaded"
  /\ IF cmd = "serve"
       THEN phase' = "booted" /\ starts' = {mods[i] : i \in DOMAIN mods} \cap Daemons
       ELSE phase' = "command" /\ UNCHANGED starts
  /\ UNCHANGED <<loaderVars, cmd, envVars, running>>

(* The job of a daemon calls its start, which runs to its first await, or  *)
(* throws and is logged.                                                   *)
Start(m) ==
  /\ m \in starts
  /\ starts' = starts \ {m}
  /\ \/ running' = running \cup {m}
     \/ UNCHANGED running
  /\ UNCHANGED <<loaderVars, cmd, phase, envVars>>

(* Mutated: boot() waits for what the daemons' start returns.              *)
ListenAwaited ==
  /\ phase = "booted" /\ starts = {} /\ running = {}
  /\ phase' = "listening"
  /\ UNCHANGED <<loaderVars, cmd, envVars, starts, running>>

Listen ==
  /\ phase = "booted" /\ starts = {}
  /\ phase' = "listening"
  /\ UNCHANGED <<loaderVars, cmd, envVars, starts, running>>

BootInit ==
  /\ \E s \in Setups : real = s.real /\ lines = s.lines /\ dir = s.dir
  /\ queue = Loadable /\ mods = <<>> /\ result = "loading"
  /\ cmd \in {"serve", "cli"}
  /\ phase = "dotenv" /\ at = 0
  /\ env = real /\ config = <<>> /\ keys = {}
  /\ starts = {} /\ running = {}

BootNext ==
  \/ DotEnvLine \/ LoadConfig \/ \E k \in keys : ExpandFile(k)
  \/ ConfigMade \/ LoadModules \/ Die \/ CreateKernel
  \/ \E m \in starts : Start(m)
  \/ Listen

(* The thread goes on: nothing up to listen waits for anything outside.    *)
BootSpec == BootInit /\ [][BootNext]_bootVars /\ WF_bootVars(BootNext)

----------------------------------------------------------------------------

BootTypeOK ==
  /\ TypeOK
  /\ cmd \in {"serve", "cli"}
  /\ phase \in {"dotenv", "config", "modules", "dead", "command", "booted", "listening"}
  /\ lines \in Seq(Line) /\ at \in 0..Len(lines)
  /\ IsEnv(real) /\ IsEnv(env) /\ IsEnv(config)
  /\ keys \subseteq DOMAIN config
  /\ starts \subseteq Daemons /\ running \subseteq Daemons

(* What a variable was given, by the real environment or by the first line *)
(* of .env that sets it.                                                   *)
Given(k) ==
  LET own == {i \in DOMAIN lines : lines[i] # Ignored /\ lines[i].key = k}
  IN  IF k \in DOMAIN real THEN real[k]
      ELSE IF own # {} THEN lines[Min(own)].value ELSE Empty

FromFile(path) == IF path \in DOMAIN Contents THEN Contents[path] ELSE Empty

(* "Real env / systemd-set vars WIN (never overridden)" (server.mjs 31)    *)
(* and "any FOO_FILE=/path whose FOO is unset is expanded" (kernel.mjs     *)
(* 33): where the value of each variable comes from does not depend on the *)
(* order of the keys, nor do the two rules get in each other's way.  (Only *)
(* a FOO_FILE that was not given, but made of a file itself, may have been *)
(* made too late for FOO.)                                                 *)
ConfigPrecedence ==
  phase \notin {"dotenv", "config"} =>
    \A k \in EnvKeys :
      LET file == k \o FileSuffix
      IN  IF Given(k) # Empty THEN Value(config, k) = Given(k)
          ELSE IF Given(file) # Empty THEN Value(config, k) = FromFile(Given(file))
          ELSE Value(config, k) \in {Empty, FromFile(Value(config, file))}

(* "Awaiting it would block boot() -> the caller would never reach         *)
(* srv.listen()" (kernel.mjs 884): a server whose modules fit comes up,    *)
(* and by then every daemon's start has been called, whether or not one    *)
(* fails and although none returns.  SPEC.md 132 has boot await each start *)
(* (and 124 has them run for ever): such a boot does not come up.          *)
ServerComesUp ==
  cmd = "serve" /\ Fits ~> phase = "listening" /\ starts = {}
============================================================================
