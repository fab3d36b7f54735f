---------------------------- MODULE CallContract ----------------------------
(***************************************************************************)
(* What a server that accepts cancellable, deadlined calls promises to the *)
(* client that sent them, without slots, goroutines, files or workers:     *)
(* every call taken from the input is decided once, with an answer its     *)
(* context allows, the answer is delivered once, and the server stops only *)
(* when nothing it took is left unanswered.                                *)
(***************************************************************************)
CONSTANT Calls

VARIABLES status,   \* "unseen", "owed", "decided" or "delivered"
          cause,    \* what ended the call's context, or "none"
          verdict,  \* the answer decided on, or "none"
          stopped   \* the server has returned

contractVars == <<status, cause, verdict, stopped>>

Causes   == {"client", "shutdown", "deadline"}
Verdicts == {"result", "failed", "refused", "E_TIMEOUT", "E_CANCELLED"}

ContractInit ==
  /\ status = [c \in Calls |-> "unseen"]
  /\ cause = [c \in Calls |-> "none"]
  /\ verdict = [c \in Calls |-> "none"]
  /\ stopped = FALSE

(* The verdicts a context that ended for a reason k allows. A failure of    *)
(* the call's own is always allowed: it may have happened first.            *)
Allowed(v, k) ==
  CASE v = "result"      -> k = "none"
    [] v = "E_TIMEOUT"   -> k = "deadline"
    [] v = "E_CANCELLED" -> k \in {"client", "shutdown"}
    [] v = "failed"      -> TRUE
    [] v = "refused"     -> FALSE

(* A call is taken, already interrupted if the server is shutting down. *)
Take(c) ==
  /\ ~stopped /\ status[c] = "unseen"
  /\ status' = [status EXCEPT ![c] = "owed"]
  /\ \E k \in {"none", "shutdown"} : cause' = [cause EXCEPT ![c] = k]
  /\ UNCHANGED <<verdict, stopped>>

(* A call the server has no room for is answered at once. *)
Refuse(c) ==
  /\ ~stopped /\ status[c] = "unseen"
  /\ status' = [status EXCEPT ![c] = "delivered"]
  /\ verdict' = [verdict EXCEPT ![c] = "refused"]
  /\ UNCHANGED <<cause, stopped>>

(* One cause reaches some calls whose context had not ended. *)
Interrupt(S, k) ==
  /\ \A c \in S : status[c] # "unseen" /\ cause[c] = "none"
  /\ cause' = [c \in Calls |-> IF c \in S THEN k ELSE cause[c]]
  /\ UNCHANGED <<status, verdict, stopped>>

Decide(c, v) ==
  /\ status[c] = "owed" /\ Allowed(v, cause[c])
  /\ status' = [status EXCEPT ![c] = "decided"]
  /\ verdict' = [verdict EXCEPT ![c] = v]
  /\ UNCHANGED <<cause, stopped>>

Deliver(c) ==
  /\ status[c] = "decided"
  /\ status' = [status EXCEPT ![c] = "delivered"]
  /\ UNCHANGED <<cause, verdict, stopped>>

Stop ==
  /\ ~stopped /\ \A c \in Calls : status[c] \in {"unseen", "delivered"}
  /\ stopped' = TRUE
  /\ UNCHANGED <<status, cause, verdict>>

ContractNext ==
  \/ \E c \in Calls : Take(c) \/ Refuse(c) \/ Deliver(c)
  \/ \E c \in Calls, v \in Verdicts : Decide(c, v)
  \/ \E S \in SUBSET Calls, k \in Causes : Interrupt(S, k)
  \/ Stop

ContractSafety == ContractInit /\ [][ContractNext]_contractVars

(* An owed call is decided and a decided one delivered. *)
ContractLiveness ==
  \A c \in Calls : WF_contractVars((\E v \in Verdicts : Decide(c, v)) \/ Deliver(c))

Contract == ContractSafety /\ ContractLiveness
=============================================================================
