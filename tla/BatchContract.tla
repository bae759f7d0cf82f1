---------------------------- MODULE BatchContract ----------------------------
(***************************************************************************)
(* What the rest of the program relies on in a batch of calls, and what    *)
(* Orchestrator takes _run_batch to do: it starts the calls in the order   *)
(* it was given them, each once, one at a time if it is sequential; a call *)
(* that has started settles once, at any moment, and one whose tool is     *)
(* gone settles when its turn comes; the report waits for all of them.     *)
(***************************************************************************)
EXTENDS Integers

VARIABLES
  calls,      (* the calls of the batch, by their place in it              *)
  oneByOne,   (* sequential or parallel                                    *)
  running,    (* the calls that have started and not settled               *)
  settled,
  reported

bvars == <<calls, oneByOne, running, settled, reported>>

BatchInit ==
  /\ calls \subseteq Nat /\ oneByOne \in BOOLEAN
  /\ running = {} /\ settled = {} /\ reported = FALSE

Turn(c) ==
  /\ c \notin running \cup settled
  /\ \A d \in calls \ (running \cup settled) : c <= d
  /\ oneByOne => running = {}

StartCall(c) ==
  /\ Turn(c)
  /\ running' = running \cup {c}
  /\ UNCHANGED <<calls, oneByOne, settled, reported>>

GiveUpCall(c) ==
  /\ Turn(c)
  /\ settled' = settled \cup {c}
  /\ UNCHANGED <<calls, oneByOne, running, reported>>

SettleCall(c) ==
  /\ c \in running
  /\ running' = running \ {c}
  /\ settled' = settled \cup {c}
  /\ UNCHANGED <<calls, oneByOne, reported>>

ReportBatch ==
  /\ settled = calls /\ ~reported
  /\ reported' = TRUE
  /\ UNCHANGED <<calls, oneByOne, running, settled>>

BatchNext ==
  \/ \E c \in calls : StartCall(c) \/ GiveUpCall(c) \/ SettleCall(c)
  \/ ReportBatch

BatchSpec == BatchInit /\ [][BatchNext]_bvars
=============================================================================
