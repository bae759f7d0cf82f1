----------------------------- MODULE BatchTiming -----------------------------
(***************************************************************************)
(* _run_batch on asyncio's event loop, as Python 3.11 (.python-version)    *)
(* runs it.  Each call is an _invoke that waits, by wait_for, for a task   *)
(* of its own with the tool's coroutine.  The loop runs callbacks first    *)
(* come first served; whenever it has run all it found queued it appends   *)
(* those of the timers that are due, and when nothing is queued it sleeps  *)
(* until the next timer.  A callback that blocks moves the clock.          *)
(***************************************************************************)
EXTENDS TimedTools, Sequences, FiniteSetsExt

CONSTANTS
  Batches,   (* The calls _run_batch may be given.                         *)
  Overhead   (* What _run_batch and the loop take for themselves, before,  *)
             (* between and after the calls, in one batch at most.         *)
ASSUME BatchesTyped == Batches \subseteq Seq(Timed) \ {<<>>}
ASSUME OverheadTyped == Overhead \in Nat

VARIABLES
  batch,        (* The calls, by the tools they start.                     *)
  sequential,
  now,          (* The clock, 0 when the batch starts.                     *)
  ready,        (* The loop's queue of callbacks.                          *)
  todo,         (* How many of them are left to run before it looks at     *)
                (* the timers again.                                       *)
  timers,
  task,         (* The tool's task of each call.                           *)
  cancelled,    (* Calls whose task was asked to cancel.                   *)
  released,     (* Calls whose wait_for has its waiter released.           *)
  started,      (* started_at, finished_at and the verdict of the result.  *)
  finished,
  verdict,
  written,      (* Calls that have written their note.                     *)
  report        (* The BatchReport.                                        *)

inputVars == <<batch, sequential>>
loopVars == <<now, ready, todo, timers>>
waitVars == <<task, cancelled, released>>
resultVars == <<started, finished, verdict>>
tvars == <<inputVars, loopVars, waitVars, resultVars, written, report>>

Never == -1
NoReport == [wall |-> Never, estimate |-> Never]

Calls == DOMAIN batch

(* begin: _invoke; run, wake: the tool's task; alarm: its sleep is over;   *)
(* release: _release_waiter, by time-out or by the task's end; collect:    *)
(* wait_for goes on.                                                       *)
Doings == {"begin", "run", "alarm", "wake", "release", "collect"}
Callback == [do : Doings, call : Nat]
Do(do, c) == [do |-> do, call |-> c]

TaskStates == {"none", "new", "asleep", "due", "ended", "cancelled"}
Verdicts == {"none", "ok", "error", "refused", "timeout"}

TimingTypeOK ==
  /\ batch \in Batches
  /\ sequential \in BOOLEAN
  /\ now \in Nat
  /\ ready \in Seq(Callback) /\ todo \in 0..Len(ready)
  /\ timers \subseteq [at : Nat, run : Callback]
  /\ task \in [Calls -> TaskStates]
  /\ cancelled \subseteq Calls /\ released \subseteq Calls
  /\ started \in [Calls -> Nat \cup {Never}]
  /\ finished \in [Calls -> Nat \cup {Never}]
  /\ verdict \in [Calls -> Verdicts]
  /\ written \subseteq Calls
  /\ DOMAIN report = {"wall", "estimate"}

(* Mutant of TimingInit: the sequential loop makes its calls tasks, too,   *)
(* and awaits one after the other.                                         *)
InitAllScheduled ==
  /\ batch \in Batches
  /\ sequential \in BOOLEAN
  /\ now = 0
  /\ ready = [c \in 1..Len(batch) |-> Do("begin", c)]
  /\ todo = 0 /\ timers = {}
  /\ task = [c \in Calls |-> "none"] /\ cancelled = {} /\ released = {}
  /\ started = [c \in Calls |-> Never] /\ finished = [c \in Calls |-> Never]
  /\ verdict = [c \in Calls |-> "none"]
  /\ written = {}
  /\ report = NoReport

(* gather schedules every _invoke at once, the sequential loop is in its   *)
(* first.                                                                  *)
TimingInit ==
  /\ batch \in Batches
  /\ sequential \in BOOLEAN
  /\ now = 0
  /\ ready = [c \in 1..(IF sequential THEN 1 ELSE Len(batch)) |-> Do("begin", c)]
  /\ todo = 0 /\ timers = {}
  /\ task = [c \in Calls |-> "none"] /\ cancelled = {} /\ released = {}
  /\ started = [c \in Calls |-> Never] /\ finished = [c \in Calls |-> Never]
  /\ verdict = [c \in Calls |-> "none"]
  /\ written = {}
  /\ report = NoReport

-----------------------------------------------------------------------------
(* The event loop (external).                                              *)
Due == {t \in timers : t.at <= now}

(* The next timer is due; among timers of one moment the order is open.    *)
PollTimer(t) ==
  /\ todo = 0 /\ t \in Due /\ \A u \in Due : t.at <= u.at
  /\ ready' = Append(ready, t.run) /\ timers' = timers \ {t}
  /\ UNCHANGED <<inputVars, now, todo, waitVars, resultVars, written, report>>

StartRound ==
  /\ todo = 0 /\ Due = {} /\ ready # <<>>
  /\ todo' = Len(ready)
  /\ UNCHANGED <<inputVars, now, ready, timers, waitVars, resultVars, written,
                 report>>

SleepUntil(t) ==
  /\ ready = <<>> /\ t \in timers /\ Due = {}
  /\ \A u \in timers : t.at <= u.at
  /\ now' = t.at
  /\ UNCHANGED <<inputVars, ready, todo, timers, waitVars, resultVars, written,
                 report>>

(* The loop runs this callback ...                                         *)
Runs(do, c) == todo > 0 /\ Head(ready) = Do(do, c)
(* ... which leaves these to be run later.                                 *)
Queues(callbacks) ==
  /\ ready' = Tail(ready) \o callbacks
  /\ todo' = todo - 1

-----------------------------------------------------------------------------
(* _invoke and wait_for.                                                   *)

(* Mutant of Invoke: the time-out of every call counts from the batch's    *)
(* start.                                                                  *)
InvokeSharedDeadline(c) ==
  /\ Runs("begin", c) /\ batch[c].gives # "refused"
  /\ started' = [started EXCEPT ![c] = now]
  /\ timers' = timers \cup {[at |-> batch[c].limit, run |-> Do("release", c)]}
  /\ task' = [task EXCEPT ![c] = "new"]
  /\ Queues(<<Do("run", c)>>)
  /\ UNCHANGED <<inputVars, now, cancelled, released, finished, verdict,
                 written, report>>

(* Mutant of Settle: its callback does not count as one of the round.      *)
SettleUncounted(c, v) ==
  LET next == IF sequential /\ c < Len(batch) THEN <<Do("begin", c + 1)>>
              ELSE <<>>
  IN  /\ finished' = [finished EXCEPT ![c] = now]
      /\ verdict' = [verdict EXCEPT ![c] = v]
      /\ ready' = next \o Tail(ready)
      /\ todo' = todo + Len(next)

(* The result is there; the sequential loop goes on to its next call in    *)
(* the same step.                                                          *)
Settle(c, v) ==
  LET next == IF sequential /\ c < Len(batch) THEN <<Do("begin", c + 1)>>
              ELSE <<>>
  IN  /\ finished' = [finished EXCEPT ![c] = now]
      /\ verdict' = [verdict EXCEPT ![c] = v]
      /\ ready' = next \o Tail(ready)
      /\ todo' = todo - 1 + Len(next)

(* The registry knows no such tool, or its function does not take the      *)
(* arguments: a TypeError comes before wait_for has set any time-out.      *)
InvokeRefused(c) ==
  /\ Runs("begin", c) /\ batch[c].gives = "refused"
  /\ started' = [started EXCEPT ![c] = now]
  /\ Settle(c, "refused")
  /\ UNCHANGED <<inputVars, now, timers, waitVars, written, report>>

(* Mutant of Invoke: no time-out is set.                                   *)
InvokeUnlimited(c) ==
  /\ Runs("begin", c) /\ batch[c].gives # "refused"
  /\ started' = [started EXCEPT ![c] = now]
  /\ task' = [task EXCEPT ![c] = "new"]
  /\ Queues(<<Do("run", c)>>)
  /\ UNCHANGED <<inputVars, now, timers, cancelled, released, finished, verdict,
                 written, report>>

(* wait_for sets the time-out and makes the tool's coroutine a task.       *)
Invoke(c) ==
  /\ Runs("begin", c) /\ batch[c].gives # "refused"
  /\ started' = [started EXCEPT ![c] = now]
  /\ timers' = timers \cup {[at |-> now + batch[c].limit, run |-> Do("release", c)]}
  /\ task' = [task EXCEPT ![c] = "new"]
  /\ Queues(<<Do("run", c)>>)
  /\ UNCHANGED <<inputVars, now, cancelled, released, finished, verdict,
                 written, report>>

(* _release_waiter, by the time-out or by the end of the task.             *)
ReleaseWaiter(c) ==
  /\ Runs("release", c)
  /\ released' = released \cup {c}
  /\ Queues(IF c \in released THEN <<>> ELSE <<Do("collect", c)>>)
  /\ UNCHANGED <<inputVars, now, timers, task, cancelled, resultVars, written,
                 report>>

(* Mutant of CancelTask: it looks again and again whether the task is over.*)
PollTask(c) ==
  /\ Runs("collect", c) /\ task[c] \in {"asleep", "due"}
  /\ Queues(<<Do("collect", c)>>)
  /\ UNCHANGED <<inputVars, now, timers, waitVars, resultVars, written, report>>

(* The task still runs: wait_for cancels it and waits for its end.  A task *)
(* that is asleep is woken for that, one that is due will find out.        *)
CancelTask(c) ==
  /\ Runs("collect", c) /\ task[c] \in {"asleep", "due"}
  /\ cancelled' = cancelled \cup {c}
  /\ released' = released \ {c}
  /\ task' = [task EXCEPT ![c] = "due"]
  /\ Queues(IF task[c] = "asleep" THEN <<Do("wake", c)>> ELSE <<>>)
  /\ UNCHANGED <<inputVars, now, timers, resultVars, written, report>>

(* Mutant of Outcome: the CancelledError is not turned into a TimeoutError *)
(* but taken for the tool's own.                                           *)
CancelledIsError(c) == IF task[c] = "cancelled" THEN "error" ELSE batch[c].gives

(* What wait_for's result or exception makes of the ToolResult.            *)
Outcome(c) == IF task[c] = "cancelled" THEN "timeout" ELSE batch[c].gives

(* Mutant of Collect: a task that is not over is left alone (shield).      *)
CollectShielded(c) ==
  /\ Runs("collect", c)
  /\ timers' = {t \in timers : t.run # Do("release", c)}
  /\ Settle(c, IF task[c] = "ended" THEN batch[c].gives ELSE "timeout")
  /\ UNCHANGED <<inputVars, now, waitVars, started, written, report>>

(* The task is over; its result counts even if the time-out came first.    *)
Collect(c) ==
  /\ Runs("collect", c) /\ task[c] \in {"ended", "cancelled"}
  /\ timers' = {t \in timers : t.run # Do("release", c)}
  /\ Settle(c, Outcome(c))
  /\ UNCHANGED <<inputVars, now, waitVars, started, written, report>>

-----------------------------------------------------------------------------
(* The tool's coroutine.                                                   *)

(* It comes to its end at this moment, with its note, if it writes one and *)
(* that does not fail.                                                     *)
EndTask(c, moment) ==
  /\ now' = moment
  /\ task' = [task EXCEPT ![c] = "ended"]
  /\ Queues(<<Do("release", c)>>)
  /\ written' = IF batch[c].gives = "ok" /\ batch[c].writes
                  THEN written \cup {c} ELSE written

(* Its first step, up to its await ...                                     *)
RunToSleep(c) ==
  /\ Runs("run", c) /\ batch[c].awaits /\ batch[c].sleep > 0
  /\ now' = now + batch[c].before
  /\ timers' = timers \cup {[at |-> now' + batch[c].sleep, run |-> Do("alarm", c)]}
  /\ task' = [task EXCEPT ![c] = "asleep"]
  /\ Queues(<<>>)
  /\ UNCHANGED <<inputVars, cancelled, released, resultVars, written, report>>

(* ... which sleep(0) makes a mere turn of the loop ...                    *)
RunToYield(c) ==
  /\ Runs("run", c) /\ batch[c].awaits /\ batch[c].sleep = 0
  /\ now' = now + batch[c].before
  /\ task' = [task EXCEPT ![c] = "due"]
  /\ Queues(<<Do("wake", c)>>)
  /\ UNCHANGED <<inputVars, timers, cancelled, released, resultVars, written,
                 report>>

(* ... or to its end, if it has none.                                      *)
RunToEnd(c) ==
  /\ Runs("run", c) /\ ~batch[c].awaits
  /\ EndTask(c, now + batch[c].before)
  /\ UNCHANGED <<inputVars, timers, cancelled, released, resultVars, report>>

(* The sleep is over; a task cancelled meanwhile no longer waits for it.   *)
Alarm(c) ==
  /\ Runs("alarm", c)
  /\ task' = [task EXCEPT ![c] = IF @ = "asleep" THEN "due" ELSE @]
  /\ Queues(IF task[c] = "asleep" THEN <<Do("wake", c)>> ELSE <<>>)
  /\ UNCHANGED <<inputVars, now, timers, cancelled, released, resultVars,
                 written, report>>

WakeToEnd(c) ==
  /\ Runs("wake", c) /\ c \notin cancelled
  /\ EndTask(c, now + batch[c].after)
  /\ UNCHANGED <<inputVars, timers, cancelled, released, resultVars, report>>

(* CancelledError comes out of the await; its sleep is called off.         *)
WakeCancelled(c) ==
  /\ Runs("wake", c) /\ c \in cancelled
  /\ task' = [task EXCEPT ![c] = "cancelled"]
  /\ timers' = {t \in timers : t.run # Do("alarm", c)}
  /\ Queues(<<Do("release", c)>>)
  /\ UNCHANGED <<inputVars, now, cancelled, released, resultVars, written,
                 report>>

-----------------------------------------------------------------------------
(* The report: wall time and the sum of the calls' durations.              *)
AllFinished == \A c \in Calls : verdict[c] # "none"
Duration(c) == finished[c] - started[c]

(* Mutant of Estimate: failed calls do not count.                          *)
EstimateOfSuccesses ==
  SumFunction([c \in Calls |-> IF verdict[c] = "ok" THEN Duration(c) ELSE 0])
Estimate == SumFunction([c \in Calls |-> Duration(c)])

(* Mutant of Report: the wall time is the longest duration.                *)
ReportLongest ==
  /\ AllFinished /\ report = NoReport
  /\ \E extra \in 0..Overhead :
       report' = [wall |-> Max({Duration(c) : c \in Calls}) + extra,
                  estimate |-> Estimate]
  /\ UNCHANGED <<inputVars, loopVars, waitVars, resultVars, written>>

(* The wall time is taken around the calls, their durations within them.   *)
Report ==
  /\ AllFinished /\ report = NoReport
  /\ \E extra \in 0..Overhead :
       report' = [wall |-> now + extra, estimate |-> Estimate]
  /\ UNCHANGED <<inputVars, loopVars, waitVars, resultVars, written>>

Rest == report # NoReport /\ UNCHANGED tvars

LoopStep ==
  \/ \E t \in timers : PollTimer(t) \/ SleepUntil(t)
  \/ StartRound

CallStep(c) ==
  \/ InvokeRefused(c) \/ Invoke(c) \/ ReleaseWaiter(c) \/ CancelTask(c)
  \/ Collect(c)
  \/ RunToSleep(c) \/ RunToYield(c) \/ RunToEnd(c) \/ Alarm(c) \/ WakeToEnd(c)
  \/ WakeCancelled(c)

BatchStep == LoopStep \/ (\E c \in Calls : CallStep(c)) \/ Report

TimingNext == BatchStep \/ Rest

(* The loop keeps running, and no tool blocks it for good.                 *)
TimingSpec == TimingInit /\ [][TimingNext]_tvars /\ WF_tvars(BatchStep)

-----------------------------------------------------------------------------
(* A tool's own time, how long a call keeps the loop from all others, and  *)
(* how long the calls of the batch do together.                            *)
SleepOf(c) == IF batch[c].awaits THEN batch[c].sleep ELSE 0
Blocks(c) ==
  CASE batch[c].gives = "refused" -> 0
    [] batch[c].awaits -> batch[c].before + batch[c].after
    [] OTHER -> batch[c].before
AllBlocking == SumFunction([c \in Calls |-> Blocks(c)])
Least(x, y) == IF x <= y THEN x ELSE y

(* "a single tool's timeout ... produces a failed ToolResult": no call is  *)
(* given up before its own limit has passed since it was started, and one  *)
(* that is not given up had all the time it takes.                         *)
VerdictSound ==
  \A c \in Calls :
    /\ verdict[c] = "timeout" => batch[c].awaits /\ Duration(c) >= batch[c].limit
    /\ verdict[c] \in {"ok", "error"} => Duration(c) >= SleepOf(c) + Blocks(c)

(* Whatever order they run in: a call that would stay within its limit     *)
(* even if every other call of the batch kept it from the loop is not      *)
(* given up, and one that sleeps beyond its limit is.                      *)
LimitsDecide ==
  \A c \in Calls :
    /\ SleepOf(c) + AllBlocking < batch[c].limit => verdict[c] # "timeout"
    /\ SleepOf(c) > batch[c].limit => verdict[c] \notin {"ok", "error"}

(* A call's duration exceeds its sleep or its limit, whichever ends first, *)
(* by no more than the batch's blocking: time-outs may be late, but only   *)
(* because a tool kept the loop.                                           *)
DelayIsBlocking ==
  \A c \in Calls :
    verdict[c] # "none" =>
      Duration(c) <= Least(SleepOf(c), batch[c].limit) + AllBlocking

(* If no tool blocks, the report is exact up to the overhead: the wall     *)
(* time is the longest call's in parallel mode, and the sum in sequential  *)
(* mode, as is the estimate; a given-up call counts with its limit.        *)
CooperativeReport ==
  LET length == [c \in Calls |->
                   IF batch[c].gives = "refused" THEN 0
                   ELSE Least(SleepOf(c), batch[c].limit)]
      sum == SumFunction(length)
  IN  report # NoReport /\ AllBlocking = 0 =>
        /\ report.estimate = sum
        /\ \E extra \in 0..Overhead :
             report.wall = extra + IF sequential THEN sum
                                   ELSE Max({length[c] : c \in Calls})

(* Whatever blocks, and with failed and given-up calls in it: no call is   *)
(* longer than the batch, time passes only while some call is under way,   *)
(* but for the overhead, and no two calls of a sequential batch share any. *)
WallTimeFits ==
  report # NoReport =>
    /\ \A c \in Calls : Duration(c) <= report.wall
    /\ report.wall <= report.estimate + Overhead
    /\ sequential => report.wall >= report.estimate

(* A call that was reported as failed, timed out or refused has written no *)
(* note and never will; one reported as done has written its own.          *)
NoLateEffect ==
  \A c \in Calls :
    verdict[c] # "none" =>
      (c \in written) = (verdict[c] = "ok" /\ batch[c].writes)

(* What the state of a batch means in terms of the contract.               *)
Underway == {c \in Calls : started[c] # Never /\ verdict[c] = "none"}
Answered == {c \in Calls : verdict[c] # "none"}

Contract == INSTANCE BatchContract WITH
  calls <- Calls, oneByOne <- sequential, running <- Underway,
  settled <- Answered, reported <- report # NoReport

(* On the event loop, through time-outs, cancellations and tools that      *)
(* block, a batch is what Orchestrator takes it for: calls start in order, *)
(* one at a time if sequential, each settles once, the report is last.     *)
ImplementsBatch == Contract!BatchSpec

(* Every batch comes to its report.                                        *)
BatchEnds == <>(report # NoReport)
=============================================================================
