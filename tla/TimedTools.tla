----------------------------- MODULE TimedTools -----------------------------
(***************************************************************************)
(* What a tool does to the event loop, and the bundled tools in these      *)
(* terms.  A tool's coroutine blocks the loop for a while, may await a     *)
(* sleep, blocks it again, and ends; a note is written at its end, if      *)
(* nothing fails.  Time is counted in ticks of 50 ms.                      *)
(***************************************************************************)
EXTENDS Integers

(* before and after: ticks it blocks; sleep: what it awaits, if awaits;    *)
(* gives: a payload, or an "error" payload or exception; limit: timeout_s; *)
(* writes: whether it leaves a note.  refused stands for a name the        *)
(* registry does not know (any more), and for arguments that the tool's    *)
(* function does not take: there is a result, but never a coroutine.       *)
Timed == [before : Nat, awaits : BOOLEAN, sleep : Nat, after : Nat,
          limit : Nat \ {0}, gives : {"ok", "error", "refused"},
          writes : BOOLEAN]

Sleeper(sleep, limit, gives) ==
  [before |-> 0, awaits |-> TRUE, sleep |-> sleep, after |-> 0,
   limit |-> limit, gives |-> gives, writes |-> FALSE]

OkIf(known) == IF known THEN "ok" ELSE "error"

(* known: whether the canned data have the city, the currencies, the file. *)
weather_a(known) == Sleeper(8, 100, OkIf(known))
weather_b(known) == Sleeper(6, 100, OkIf(known))
weather_c(known) == Sleeper(5, 100, OkIf(known))
fx(known) == Sleeper(3, 100, OkIf(known))
search == Sleeper(4, 100, "ok")
email_mock == Sleeper(2, 60, "ok")
files(known) == Sleeper(0, 60, OkIf(known))

(* It evaluates on the loop's own thread, for as long as the numbers take. *)
calc(ticks, gives) == [Sleeper(0, 60, gives) EXCEPT !.after = ticks]

(* It gives way once before it makes the directory and writes the file;    *)
(* either may fail.                                                        *)
notes(gives) == [Sleeper(0, 60, gives) EXCEPT !.writes = TRUE]
=============================================================================
