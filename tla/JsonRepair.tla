----------------------------- MODULE JsonRepair -----------------------------
(***************************************************************************)
(* complete_json: ask the model for JSON, validate the reply, and ask      *)
(* again, quoting the bad reply, until the budget of attempts is spent.    *)
(* A reply is named by its number; what it says is the model's choice.     *)
(***************************************************************************)
EXTENDS Integers, Sequences

CONSTANT MaxJsonAttempts   (* CONFIG.max_json_attempts.                    *)

ASSUME MaxJsonAttemptsTyped == MaxJsonAttempts \in Nat \ {0}

(* What chat.invoke comes to: a reply that passes json.loads and the       *)
(* schema, one that fails either, an exception of _TRANSPORT_EXCEPTIONS,   *)
(* or any other (httpx's time-outs, a RecursionError of json.loads).       *)
Replies == {"valid", "invalid", "transport", "other"}

VARIABLES
  budget,    (* attempts_budget                                            *)
  quoted,    (* The replies the current messages quote.                    *)
  prompts,   (* History: what the messages of each attempt quoted.         *)
  replies,   (* History: what each attempt came to.                        *)
  outcome    (* idle, asking, or how the call ended.                       *)

jsonVars == <<budget, quoted, prompts, replies, outcome>>

Outcomes == {"idle", "asking", "valid", "LLMError", "escaped"}

JsonTypeOK ==
  /\ budget \in Int
  /\ quoted \subseteq Nat
  /\ prompts \in Seq(SUBSET Nat)
  /\ replies \in Seq(Replies)
  /\ outcome \in Outcomes

JsonIdle ==
  /\ budget = 0 /\ quoted = {} /\ prompts = <<>> /\ replies = <<>>
  /\ outcome = "idle"

(* max_attempts or CONFIG.max_json_attempts, where zero stands for None as *)
(* well: both count as missing.                                            *)
BudgetFor(max_attempts) ==
  IF max_attempts = 0 THEN MaxJsonAttempts ELSE max_attempts

(* The call up to its loop, which a negative budget never enters.          *)
CallCompleteJson(max_attempts) ==
  /\ budget' = BudgetFor(max_attempts)
  /\ quoted' = {} /\ prompts' = <<>> /\ replies' = <<>>
  /\ outcome' = IF BudgetFor(max_attempts) < 1 THEN "LLMError" ELSE "asking"

(* Mutants of AfterReply: transport failures are tried again, too; one     *)
(* attempt more than the budget.                                           *)
RetriesTransport(reply, attempt) ==
  CASE reply = "valid" -> "valid"
    [] reply = "other" -> "escaped"
    [] OTHER -> IF attempt < budget THEN "asking" ELSE "LLMError"
OneTooMany(reply, attempt) ==
  CASE reply = "valid" -> "valid"
    [] reply = "transport" -> "LLMError"
    [] reply = "other" -> "escaped"
    [] reply = "invalid" -> IF attempt <= budget THEN "asking" ELSE "LLMError"

(* How the call stands after its attempt-th reply.                         *)
AfterReply(reply, attempt) ==
  CASE reply = "valid" -> "valid"
    [] reply = "transport" -> "LLMError"
    [] reply = "other" -> "escaped"
    [] reply = "invalid" -> IF attempt < budget THEN "asking" ELSE "LLMError"

(* One turn of the loop.  The repair prompt is built from the caller's     *)
(* prompt, not from the previous one, and quotes the last reply alone.     *)
Attempt(reply) ==
  LET attempt == Len(replies) + 1
  IN  /\ outcome = "asking"
      /\ prompts' = Append(prompts, quoted)
      /\ replies' = Append(replies, reply)
      /\ outcome' = AfterReply(reply, attempt)
      /\ quoted' = IF outcome' = "asking" THEN {attempt} ELSE quoted
      /\ UNCHANGED budget

JsonOver == outcome \in {"valid", "LLMError", "escaped"}
=============================================================================
