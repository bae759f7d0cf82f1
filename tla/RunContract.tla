---------------------------- MODULE RunContract ----------------------------
(***************************************************************************)
(* What one request promises about tool calls, whatever the plan, the      *)
(* registry and the scope do: a set of calls is permitted once, before     *)
(* any tool starts; from then on each permitted call starts at most once   *)
(* and settles exactly once, a call whose tool is gone without starting;   *)
(* the report is written only when all of them have settled.  An exception *)
(* may abort the run at any point, after which nothing more starts.        *)
(***************************************************************************)
CONSTANT Calls

VARIABLES
  phase,      (* deciding, acting, reporting, closed or aborted            *)
  permitted,  (* the calls this run may make                               *)
  started,    (* those whose tool has been started                         *)
  settled     (* those with a result                                       *)

cvars == <<phase, permitted, started, settled>>

Phases == {"deciding", "acting", "reporting", "closed", "aborted"}

ContractTypeOK ==
  /\ phase \in Phases
  /\ permitted \subseteq Calls
  /\ started \subseteq permitted
  /\ settled \subseteq permitted

ContractInit ==
  /\ phase = "deciding"
  /\ permitted = {} /\ started = {} /\ settled = {}

Permit ==
  /\ phase = "deciding"
  /\ phase' = "acting"
  /\ permitted' \subseteq Calls
  /\ UNCHANGED <<started, settled>>

Start(c) ==
  /\ phase = "acting"
  /\ c \in permitted \ (started \cup settled)
  /\ started' = started \cup {c}
  /\ UNCHANGED <<phase, permitted, settled>>

(* c has started and ends, or could not be started at all.                 *)
SettleCall(c) ==
  /\ phase = "acting"
  /\ c \in permitted \ settled
  /\ settled' = settled \cup {c}
  /\ UNCHANGED <<phase, permitted, started>>

Report ==
  /\ phase = "acting" /\ settled = permitted
  /\ phase' = "reporting"
  /\ UNCHANGED <<permitted, started, settled>>

Close ==
  /\ phase = "reporting"
  /\ phase' = "closed"
  /\ UNCHANGED <<permitted, started, settled>>

Abort ==
  /\ phase \notin {"closed", "aborted"}
  /\ phase' = "aborted"
  /\ UNCHANGED <<permitted, started, settled>>

ContractNext ==
  \/ Permit
  \/ \E c \in permitted : Start(c) \/ SettleCall(c)
  \/ Report
  \/ Close
  \/ Abort

ContractSpec == ContractInit /\ [][ContractNext]_cvars
=============================================================================
