------------------------------- MODULE Sandbox -------------------------------
(***************************************************************************)
(* layer1.py and sandbox/runner.py: the checks of a unit, each in a         *)
(* container of its own.  The runner waits for its docker client with a     *)
(* wall cap, inspects the container after its end and always removes it;    *)
(* the container, the client and the daemon go their own ways meanwhile.    *)
(***************************************************************************)
EXTENDS Integers, Sequences, FiniteSets

CONSTANT Checks   \* the unit's checks, in order: what each of them expects

ASSUME ChecksAssumption ==
  Checks \in Seq({"exit_zero", "exit_nonzero", "output_contains"}) /\ Checks # <<>>

Codes == {0, 1, 137}     \* well, its own error, or died by a signal

VARIABLES
  runner,     \* "start", "wait", "kill", "inspect", "remove" or "done"
  container,  \* "none", "running" or "exited"
  code,       \* its exit code; a running container is inspected as 0
  oom,        \* its memory cap killed it
  byItself,   \* it ended before anybody killed it
  timedOut,   \* the wall cap fired
  results,    \* the statuses of the checks so far
  truth       \* what really happened to the container of each

sandboxVars == <<runner, container, code, oom, byItself, timedOut, results, truth>>

SandboxInit ==
  /\ runner = "start" /\ container = "none"
  /\ code = 0 /\ oom = FALSE /\ byItself = FALSE /\ timedOut = FALSE
  /\ results = <<>> /\ truth = <<>>

Expectation == Checks[Len(results) + 1]

(* _hardened_run: the client starts, the container may never come up.      *)
RunContainer ==
  /\ runner = "start" /\ Len(results) < Len(Checks)
  /\ runner' = "wait"
  /\ container' \in {"none", "running"}
  /\ code' = 0 /\ oom' = FALSE /\ byItself' = FALSE /\ timedOut' = FALSE
  /\ UNCHANGED <<results, truth>>

(* The student's program ends, or the memory cap ends it.                  *)
ContainerExits(c, memory) ==
  /\ container = "running" /\ container' = "exited"
  /\ memory => c = 137
  /\ code' = c /\ oom' = memory /\ byItself' = TRUE
  /\ UNCHANGED <<runner, timedOut, results, truth>>

(* communicate returns: the client has gone.                               *)
ClientReturns ==
  /\ runner = "wait" /\ container # "running"
  /\ runner' = "inspect"
  /\ UNCHANGED <<container, code, oom, byItself, timedOut, results, truth>>

(* The wall cap, perhaps just after the program ended.                     *)
WallCap ==
  /\ runner = "wait"
  /\ timedOut' = TRUE /\ runner' = "kill"
  /\ UNCHANGED <<container, code, oom, byItself, results, truth>>

(* docker kill; a daemon that stalls lets the container run on, and the    *)
(* client is killed instead.                                               *)
KillContainer(stalls) ==
  /\ runner = "kill" /\ runner' = "inspect"
  /\ IF container = "running" /\ ~stalls
       THEN container' = "exited" /\ code' = 137
       ELSE UNCHANGED <<container, code>>
  /\ UNCHANGED <<oom, byItself, timedOut, results, truth>>

(* Faulty variant: the exit code is looked at before the wall cap.         *)
StatusByCodeFirst(inspected) ==
  IF inspected /\ code < 128 THEN "ok"
  ELSE IF timedOut THEN "timeout"
  ELSE IF inspected /\ oom THEN "oom"
  ELSE IF ~inspected THEN "error" ELSE "killed"

(* What the runner reports; the first line that applies.                   *)
Status(inspected) ==
  IF timedOut THEN "timeout"
  ELSE IF inspected /\ oom THEN "oom"
  ELSE IF ~inspected THEN "error"
  ELSE IF code < 128 THEN "ok" ELSE "killed"

(* evaluate_expect; said is whether the output has the expected text.      *)
EvaluateExpect(said) ==
  CASE Expectation = "exit_zero" -> code = 0
    [] Expectation = "exit_nonzero" -> code # 0
    [] Expectation = "output_contains" -> said

(* run_check_container: a container that broke a cap is an error.          *)
CheckStatus(status, said) ==
  IF status # "ok" THEN "error" ELSE IF EvaluateExpect(said) THEN "pass" ELSE "fail"

(* The post-mortem; docker inspect may fail, and there may be nothing to   *)
(* inspect.                                                                *)
Inspect(works, said) ==
  /\ runner = "inspect" /\ runner' = "remove"
  /\ works => container # "none"
  /\ results' = Append(results, CheckStatus(Status(works), said))
  /\ truth' = Append(truth, [ended |-> byItself /\ ~oom /\ code < 128, capped |-> timedOut,
                             met |-> EvaluateExpect(said)])
  /\ UNCHANGED <<container, code, oom, byItself, timedOut>>

(* An unexpected error anywhere in the runner is reported as "error".      *)
RunnerError ==
  /\ runner \in {"wait", "kill", "inspect"} /\ runner' = "remove"
  /\ results' = Append(results, "error")
  /\ truth' = Append(truth, [ended |-> FALSE, capped |-> timedOut, met |-> FALSE])
  /\ UNCHANGED <<container, code, oom, byItself, timedOut>>

(* finally: docker rm -f, on every path.                                   *)
RemoveContainer ==
  /\ runner = "remove"
  /\ runner' = IF Len(results) < Len(Checks) THEN "start" ELSE "done"
  /\ container' = "none"
  /\ UNCHANGED <<code, oom, byItself, timedOut, results, truth>>

(* grade: the overall of the unit's checks.                                *)
Layer1Overall == IF \A i \in DOMAIN results : results[i] = "pass" THEN "pass" ELSE "fail"

RunnerStep ==
  \/ RunContainer \/ ClientReturns \/ WallCap \/ RunnerError \/ RemoveContainer
  \/ \E stalls \in BOOLEAN : KillContainer(stalls)
  \/ \E works, said \in BOOLEAN : Inspect(works, said)

SandboxNext ==
  \/ RunnerStep
  \/ \E c \in Codes, memory \in BOOLEAN : ContainerExits(c, memory)

SandboxSpec == SandboxInit /\ [][SandboxNext]_sandboxVars

-----------------------------------------------------------------------------
(* Layer 1 passes only if every check's program ended by itself, within     *)
(* the memory and the wall cap, and met its expectation: a container the    *)
(* runner killed, or that still runs, looks like an exit code of 0 or 137   *)
(* and must not count.  No container is left when the result is out.       *)
PassWasContained ==
  runner = "done" =>
    /\ container = "none"
    /\ Layer1Overall = "pass" =>
         \A i \in DOMAIN Checks : truth[i].ended /\ ~truth[i].capped /\ truth[i].met
=============================================================================
