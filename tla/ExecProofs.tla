----------------------------- MODULE ExecProofs -----------------------------
(***************************************************************************)
(* Proofs about Exec, for every cap and whatever scripts, the timer and    *)
(* the processes that scripts leave behind do.                             *)
(***************************************************************************)
EXTENDS Exec, TLAPS

(* Until the cap is reached the buffer is everything that was written.     *)
Kept == ~outCap => out = written /\ out < EXEC_MAX_OUT

(* What the call's phase says of the script and of the timer.              *)
Phases ==
  /\ phase = "done" => script # "alive" /\ left = {}
  /\ phase = "resolving" => script = "none" /\ left = {}
  /\ phase = "running" => script # "none"
  /\ armed => phase = "running"
  /\ script = "killed" => killed

IInv == TypeOK /\ Kept /\ Phases /\ OkMeansComplete

Errors == Flaws \cup PathErrors \cup {"exec_disabled", "spawn_failed"}

ResultType ==
  [error : {"none", "exec_disabled", "spawn_failed", "timeout", "nonzero_exit"}
             \cup Flaws \cup PathErrors,
   stdout : 0..EXEC_MAX_OUT, truncated : BOOLEAN]

LEMMA Zero ==
  /\ 0 \in Nat /\ 0 < EXEC_MAX_OUT
  /\ 0 < EXEC_MAX_OUT + MAX_CHUNK /\ 0 \in 0..MAX_OUTPUT
BY ExecAssumption

LEMMA NoResultType == NoResult \in ResultType
BY ExecAssumption DEF NoResult, ResultType

LEMMA FailAnswers ==
  ASSUME NEW error \in Errors, Fail(error)
  PROVE  phase' = "done" /\ OkMeansComplete' /\ result' \in ResultType
<1>1. error # "none"
  BY DEF Errors, Flaws, PathErrors
<1>2. result' \in ResultType
  BY NoResultType DEF Fail, ResultType, Errors
<1> QED  BY <1>1, <1>2 DEF Fail, NoResult, OkMeansComplete, Answer

(* A new call: refused at once, or on its way.                             *)
LEMMA CallGood ==
  ASSUME IInv, NEW flaw \in Flaws \cup {"none"}, Call(flaw) \/ Run(flaw)
  PROVE  IInv'
<1>1. Start
  BY DEF Call, Run
<1>2. CASE phase' = "resolving" /\ result' = NoResult
  <2>1. TypeOK'
    BY <1>1, <1>2, NoResultType, Zero DEF TypeOK, ResultType, Start
  <2>2. Kept' /\ Phases' /\ OkMeansComplete'
    BY <1>1, <1>2, ExecAssumption DEF Start, Kept, Phases, OkMeansComplete
  <2> QED  BY <2>1, <2>2 DEF IInv
<1>3. ASSUME NEW error \in Errors, Fail(error)  PROVE IInv'
  <2>1. TypeOK'
    BY <1>1, <1>3, FailAnswers, Zero DEF TypeOK, ResultType, Start
  <2>2. Kept' /\ Phases'
    BY <1>1, <1>3, FailAnswers, ExecAssumption DEF Start, Kept, Phases
  <2> QED  BY <1>3, <2>1, <2>2, FailAnswers DEF IInv
<1> QED  BY <1>2, <1>3 DEF Call, Run, Errors, Flaws

(* The path is refused, the script cannot be spawned, or it runs.          *)
LEMMA SpawnGood ==
  ASSUME IInv, PathRefused \/ SpawnFails \/ Spawn  PROVE IInv'
<1>1. ASSUME NEW error \in Errors, Fail(error), phase = "resolving",
             UNCHANGED <<process, armed, killed, out, outCap>>
      PROVE  IInv'
  <2>1. TypeOK'
    BY <1>1, FailAnswers DEF IInv, TypeOK, ResultType, process
  <2>2. Kept' /\ Phases'
    BY <1>1, FailAnswers DEF IInv, Kept, Phases, process
  <2> QED  BY <1>1, <2>1, <2>2, FailAnswers DEF IInv
<1>2. CASE PathRefused \/ SpawnFails
  BY <1>1, <1>2 DEF PathRefused, SpawnFails, Errors
<1>3. CASE Spawn
  BY <1>3 DEF IInv, TypeOK, Kept, Phases, OkMeansComplete, Spawn
<1> QED  BY <1>2, <1>3

LEMMA StdoutGood == ASSUME IInv, Stdout  PROVE IInv'
<1> PICK n \in 1..MAX_CHUNK : /\ written + n <= MAX_OUTPUT
                              /\ written' = written + n
                              /\ out' = Keep(n)
  BY DEF Stdout
<1>1. n \in Nat \ {0} /\ out \in Nat /\ written \in Nat
  BY ExecAssumption DEF IInv, TypeOK
<1>2. out' \in Nat /\ out' < EXEC_MAX_OUT + MAX_CHUNK
  BY <1>1, ExecAssumption DEF IInv, TypeOK, Keep
<1>3. TypeOK'
  BY <1>1, <1>2, ExecAssumption DEF IInv, TypeOK, Stdout
<1>4. Kept'
  <2>1. SUFFICES ASSUME ~outCap'  PROVE out' = written' /\ out' < EXEC_MAX_OUT
    BY DEF Kept
  <2>2. ~outCap /\ ~(out' >= EXEC_MAX_OUT)
    BY <2>1 DEF IInv, TypeOK, Stdout
  <2> QED  BY <1>1, <1>2, <2>2, ExecAssumption DEF IInv, Kept, Keep
<1>5. Phases' /\ OkMeansComplete'
  BY DEF IInv, Phases, OkMeansComplete, Stdout
<1> QED  BY <1>3, <1>4, <1>5 DEF IInv

(* The script, what it leaves behind and the timer.                        *)
LEMMA ProcessGood ==
  ASSUME IInv, LeaveChild \/ LeftChildEnds \/ ScriptEnds \/ TimerFires
  PROVE  IInv'
<1>1. TypeOK' /\ Kept'
  BY DEF IInv, TypeOK, Kept, LeaveChild, LeftChildEnds, ScriptEnds, TimerFires
<1>2. Phases' /\ OkMeansComplete'
  BY DEF IInv, TypeOK, Phases, OkMeansComplete, Answer,
         LeaveChild, LeftChildEnds, ScriptEnds, TimerFires
<1> QED  BY <1>1, <1>2 DEF IInv

(* The answer: a script that was not killed has ended by itself, and what  *)
(* is kept is all there is, or the cap was reached.                        *)
LEMMA CloseGood == ASSUME IInv, Close  PROVE IInv'
<1>1. Capped \in 0..EXEC_MAX_OUT /\ (~outCap => Capped = written)
  BY ExecAssumption DEF IInv, TypeOK, Kept, Capped
<1>2. TypeOK'
  <2>1. result' \in ResultType
    <3>1. CASE killed
      BY <3>1, NoResultType DEF Close, ResultType
    <3>2. CASE ~killed
      BY <1>1, <3>2 DEF IInv, TypeOK, Close, ResultType
    <3> QED  BY <3>1, <3>2
  <2> QED  BY <2>1 DEF IInv, TypeOK, ResultType, Close, process
<1>3. Kept' /\ Phases'
  BY DEF IInv, Kept, Phases, Close, process
<1>4. OkMeansComplete'
  <2>1. CASE killed
    BY <2>1 DEF Close, NoResult, OkMeansComplete, Answer
  <2>2. CASE ~killed
    BY <1>1, <2>2 DEF IInv, TypeOK, Phases, Close, NoResult, OkMeansComplete, Answer, process
  <2> QED  BY <2>1, <2>2
<1> QED  BY <1>2, <1>3, <1>4 DEF IInv

LEMMA ExecInvariant == Spec => []IInv
<1>1. Init => IInv
  BY NoResultType, Zero
     DEF Init, IInv, TypeOK, ResultType, Kept, Phases, OkMeansComplete
<1>2. IInv /\ [Next]_vars => IInv'
  <2> SUFFICES ASSUME IInv, [Next]_vars  PROVE IInv'
    OBVIOUS
  <2>1. CASE UNCHANGED vars
    BY <2>1 DEF vars, IInv, TypeOK, Kept, Phases, OkMeansComplete, Answer
  <2> QED  BY <2>1, CallGood, SpawnGood, StdoutGood, ProcessGood, CloseGood DEF Next
<1> QED  BY <1>1, <1>2, PTL DEF Spec

(* The "stdout/stderr cap" (SPEC 209): however fast a script writes, the   *)
(* buffer stays within one chunk of the cap.                               *)
THEOREM ExecTypeCorrect == Spec => []TypeOK
BY ExecInvariant, PTL DEF IInv

(* A call that answers ok answers for a script that ended by itself with   *)
(* code 0, and hands on all that was written or says that it does not.     *)
THEOREM OkIsComplete == Spec => []OkMeansComplete
BY ExecInvariant, PTL DEF IInv
============================================================================
