---------------------------- MODULE MCBatchTiming ----------------------------
(***************************************************************************)
(* Batches for TLC: the bundled tools, and tools that sleep up to, over    *)
(* and at their limit, block before or after their await, or never await.  *)
(***************************************************************************)
EXTENDS BatchTiming

(* A tool that blocks, sleeps and blocks, under a limit of 4 ticks.        *)
T(before, sleep, after) ==
  [Sleeper(sleep, 4, "ok") EXCEPT !.before = before, !.after = after]
Blocker(before) == [T(before, 0, 0) EXCEPT !.awaits = FALSE]
Refused == Sleeper(0, 4, "refused")
Writing(tool) == [tool EXCEPT !.writes = TRUE]

(* The bundled tools, the calculator with a quick and a huge expression.   *)
Bundled ==
  {weather_a(TRUE), weather_b(FALSE), weather_c(TRUE), fx(TRUE), search,
   email_mock, files(FALSE), calc(0, "ok"), calc(110, "error"),
   notes("ok"), notes("error")}

Synthetic ==
  {T(0, 2, 0), T(0, 4, 0), T(0, 6, 0), T(3, 2, 0), T(0, 2, 3), T(2, 0, 3),
   Blocker(6), Blocker(0), Refused, Writing(T(0, 3, 1)), Writing(Blocker(25))}

UpToThree(tools) == UNION {[1..k -> tools] : k \in 1..3}

MCBatches == UpToThree(Bundled) \cup UpToThree(Synthetic)
=============================================================================
