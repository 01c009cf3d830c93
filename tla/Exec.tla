-------------------------------- MODULE Exec --------------------------------
(***************************************************************************)
(* kernel.mjs makeExec: one call of core.exec, which runs a vetted script  *)
(* and answers with its output.  The script, the processes it leaves       *)
(* behind, the timer and the pipes' events interleave freely.  Calls share *)
(* no state, so one call after the other is enough.  What comes over       *)
(* stderr is kept up to the cap and never used: of stderr the model has    *)
(* who holds it.                                                           *)
(***************************************************************************)
EXTENDS Integers

CONSTANTS
  EXEC_ENABLED,   (* cfg.EXEC_ENABLED with a cfg.EXEC_DIR                 *)
  EXEC_MAX_OUT,   (* cfg.EXEC_MAX_OUT                                     *)
  MAX_CHUNK,      (* bound on the characters of one data event            *)
  MAX_OUTPUT      (* bound on the characters a script writes              *)

ASSUME ExecAssumption ==
  /\ EXEC_ENABLED \in BOOLEAN
  /\ EXEC_MAX_OUT \in Nat \ {0} /\ MAX_CHUNK \in Nat \ {0}
  /\ MAX_OUTPUT \in Nat

VARIABLES
  phase,     (* where the call is                                         *)
  script,    (* the script: "none", "alive", "exited", "failed", "killed" *)
  left,      (* the pipes that processes the script left behind hold      *)
  armed,     (* the timer is running                                      *)
  killed,    (* `killed`                                                  *)
  out,       (* out.length                                                *)
  outCap,    (* `outCap`                                                  *)
  result,    (* what the call resolved to                                 *)
  written    (* history: the characters the script and its like wrote     *)

vars == <<phase, script, left, armed, killed, out, outCap, result, written>>
process == <<script, left, written>>

(* The child's stdio: nothing to read, two pipes to write to.              *)
Pipes == {"stdout", "stderr"}

Flaws == {"bad_name", "bad_args", "too_many_args", "arg_too_long", "bad_arg"}
PathErrors == {"exec_dir_missing", "no_such_script", "path_escape", "not_a_file"}
NoResult == [error |-> "none", stdout |-> 0, truncated |-> FALSE]

Fail(error) ==
  /\ phase' = "done"
  /\ result' = [NoResult EXCEPT !.error = error]

Capped == IF out > EXEC_MAX_OUT THEN EXEC_MAX_OUT ELSE out

----------------------------------------------------------------------------
(* Before the script runs.                                                 *)

Start ==
  /\ phase = "done"
  /\ script' = "none" /\ left' = {} /\ armed' = FALSE /\ killed' = FALSE
  /\ out' = 0 /\ outCap' = FALSE /\ written' = 0

(* The checks of name and arguments; flaw is "none" for a call that passes.*)
Call(flaw) ==
  /\ Start
  /\ IF ~EXEC_ENABLED THEN Fail("exec_disabled")
     ELSE IF flaw # "none" THEN Fail(flaw)
     ELSE phase' = "resolving" /\ result' = NoResult

(* op=run looks at the name before core.exec does, and passes no arguments.*)
Run(flaw) ==
  \/ flaw = "bad_name" /\ Start /\ Fail("bad_name")
  \/ flaw = "none" /\ Call("none")

(* realpath, realpath and stat: the path lock.                             *)
PathRefused ==
  /\ phase = "resolving"
  /\ \E error \in PathErrors : Fail(error)
  /\ UNCHANGED <<process, armed, killed, out, outCap>>

(* spawn throws, or the child reports "error".                             *)
SpawnFails ==
  /\ phase = "resolving"
  /\ Fail("spawn_failed")
  /\ UNCHANGED <<process, armed, killed, out, outCap>>

Spawn ==
  /\ phase = "resolving"
  /\ phase' = "running"
  /\ script' = "alive" /\ armed' = TRUE
  /\ UNCHANGED <<left, killed, out, outCap, result, written>>

----------------------------------------------------------------------------
(* While it runs.                                                          *)

(* Mutated: chunks are kept after the cap as before it.                    *)
KeepAll(n) == out + n

(* A chunk is kept whole as long as the cap is not reached.                *)
Keep(n) == IF out < EXEC_MAX_OUT THEN out + n ELSE out

Stdout ==
  /\ phase = "running"
  /\ script = "alive" \/ "stdout" \in left
  /\ \E n \in 1..MAX_CHUNK :
       /\ written + n <= MAX_OUTPUT
       /\ written' = written + n
       /\ out' = Keep(n)
  /\ outCap' = (outCap \/ out' >= EXEC_MAX_OUT)
  /\ UNCHANGED <<phase, script, left, armed, killed, result>>

(* The script starts something in the background, which inherits its pipes *)
(* unless they are redirected.                                             *)
LeaveChild ==
  /\ script = "alive"
  /\ \E pipes \in SUBSET Pipes : left' = left \cup pipes
  /\ UNCHANGED <<phase, script, armed, killed, out, outCap, result, written>>

(* The last holder of a pipe ends, or closes it.                           *)
LeftChildEnds ==
  /\ \E pipe \in left : left' = left \ {pipe}
  /\ UNCHANGED <<phase, script, armed, killed, out, outCap, result, written>>

ScriptEnds ==
  /\ script = "alive"
  /\ script' \in {"exited", "failed"}
  /\ UNCHANGED <<phase, left, armed, killed, out, outCap, result, written>>

(* Mutated: the timer only notes that the time is over.                    *)
TimerFiresNoKill ==
  /\ armed
  /\ armed' = FALSE /\ killed' = TRUE
  /\ UNCHANGED <<phase, process, out, outCap, result>>

(* The timer: SIGKILL to the script, not to what it left behind.           *)
TimerFires ==
  /\ armed
  /\ armed' = FALSE /\ killed' = TRUE
  /\ script' = IF script = "alive" THEN "killed" ELSE script
  /\ UNCHANGED <<phase, left, out, outCap, result, written>>

(* Mutated: the call answers on the script's "exit", whoever holds a pipe. *)
CloseOnExit ==
  /\ phase = "running"
  /\ script \notin {"none", "alive"}
  /\ phase' = "done" /\ armed' = FALSE
  /\ result' =
       IF killed THEN [NoResult EXCEPT !.error = "timeout"]
       ELSE [error |-> IF script = "exited" THEN "none" ELSE "nonzero_exit",
             stdout |-> Capped, truncated |-> outCap]
  /\ UNCHANGED <<process, killed, out, outCap>>

(* "close": the script has ended and nobody holds its stdout or its stderr *)
(* any more.                                                               *)
Close ==
  /\ phase = "running"
  /\ script \notin {"none", "alive"} /\ left = {}
  /\ phase' = "done" /\ armed' = FALSE
  /\ result' =
       IF killed THEN [NoResult EXCEPT !.error = "timeout"]
       ELSE [error |-> IF script = "exited" THEN "none" ELSE "nonzero_exit",
             stdout |-> Capped, truncated |-> outCap]
  /\ UNCHANGED <<process, killed, out, outCap>>

----------------------------------------------------------------------------

Init ==
  /\ phase = "done" /\ result = NoResult
  /\ script = "none" /\ left = {} /\ armed = FALSE /\ killed = FALSE
  /\ out = 0 /\ outCap = FALSE /\ written = 0

Next ==
  \/ \E flaw \in Flaws \cup {"none"} : Call(flaw) \/ Run(flaw)
  \/ PathRefused \/ SpawnFails \/ Spawn
  \/ Stdout \/ LeaveChild \/ LeftChildEnds \/ ScriptEnds
  \/ TimerFires \/ Close

(* The file system answers, the timer fires and "close" is delivered.      *)
(* Nothing is assumed of scripts, nor of what they leave behind.           *)
Spec ==
  /\ Init /\ [][Next]_vars
  /\ WF_vars(PathRefused \/ SpawnFails \/ Spawn)
  /\ WF_vars(TimerFires) /\ WF_vars(Close)

----------------------------------------------------------------------------

(* What a script writes never piles up: however fast and long it writes,   *)
(* the buffer stays within one chunk of the cap.                           *)
TypeOK ==
  /\ phase \in {"done", "resolving", "running"}
  /\ script \in {"none", "alive", "exited", "failed", "killed"}
  /\ left \subseteq Pipes /\ armed \in BOOLEAN /\ killed \in BOOLEAN
  /\ out \in Nat /\ out < EXEC_MAX_OUT + MAX_CHUNK /\ outCap \in BOOLEAN
  /\ written \in 0..MAX_OUTPUT
  /\ result \in [error : {"none", "exec_disabled", "spawn_failed", "timeout",
                          "nonzero_exit"} \cup Flaws \cup PathErrors,
                 stdout : 0..EXEC_MAX_OUT, truncated : BOOLEAN]

(* What op=run tells its client of the call's result: the error, or all.   *)
Answer ==
  IF result.error = "none" THEN result
                           ELSE [NoResult EXCEPT !.error = result.error]

(* A call that answers ok answers for a script that ended by itself with   *)
(* code 0, whatever the timer did meanwhile, and everything written by it  *)
(* and by what it left behind is in stdout unless `truncated` says so.     *)
OkMeansComplete ==
  Answer.error = "none" /\ script # "none" /\ phase = "done" =>
    /\ script = "exited"
    /\ left = {}
    /\ Answer.stdout = written \/ Answer.truncated

(* "timeout (kill on overrun)" (SPEC 210): a script that runs for ever is  *)
(* killed and the call answers.  The one exception is a pipe, stdout or    *)
(* stderr, that what the script left behind holds for good: a pipe that is *)
(* held for a time only delays the answer.                                 *)
AnswersOnceReleased == phase = "running" ~> (phase = "done" \/ [](left # {}))
=============================================================================
