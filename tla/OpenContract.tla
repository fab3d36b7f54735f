---------------------------- MODULE OpenContract ----------------------------
(***************************************************************************)
(* What opening a file under a context promises, without slots, goroutines *)
(* or file systems: a request is answered once; a file is only answered    *)
(* while the context is live, after it was looked at, and stays open until *)
(* whoever asked closes it; the end of the context is only answered after  *)
(* it, and what is opened for nobody is closed again.                      *)
(***************************************************************************)
CONSTANTS Opens,
          LateErrors   \* may an error of the path still be answered after the end

VARIABLES request,   \* "idle", "asked", or the answer: "file", "error", "context"
          ended,     \* its context has ended
          held       \* what is open for it: "nothing", "unchecked", "checked"

contractVars == <<request, ended, held>>

ContractInit ==
  /\ request = [o \in Opens |-> "idle"]
  /\ ended = [o \in Opens |-> FALSE]
  /\ held = [o \in Opens |-> "nothing"]

Becomes(o, r, e, h) == request'[o] = r /\ ended'[o] = e /\ held'[o] = h

Ask(o) == request[o] = "idle" /\ Becomes(o, "asked", ended[o], held[o])
End(o) == ~ended[o] /\ Becomes(o, request[o], TRUE, held[o])

(* Open a file, perhaps for a request that is answered by now. *)
Open(o) ==
  /\ request[o] \notin {"idle", "file"} /\ held[o] = "nothing"
  /\ \E h \in {"unchecked", "checked"} : Becomes(o, request[o], ended[o], h)

Check(o) == held[o] = "unchecked" /\ Becomes(o, request[o], ended[o], "checked")
Discard(o) == request[o] # "file" /\ Becomes(o, request[o], ended[o], "nothing")

AnswerFile(o) ==
  /\ request[o] = "asked" /\ ~ended[o] /\ held[o] = "checked"
  /\ Becomes(o, "file", ended[o], held[o])

AnswerError(o) ==
  /\ request[o] = "asked" /\ (ended[o] => LateErrors) /\ held[o] = "nothing"
  /\ Becomes(o, "error", ended[o], held[o])

(* The file may be dropped with the answer or after it. *)
AnswerContext(o) ==
  /\ request[o] = "asked" /\ ended[o]
  /\ \E h \in {held[o], "nothing"} : Becomes(o, "context", ended[o], h)

Close(o) == request[o] = "file" /\ Becomes(o, request[o], ended[o], "nothing")

OpenStep(o) ==
  \/ Ask(o) \/ End(o) \/ Open(o) \/ Check(o) \/ Discard(o)
  \/ AnswerFile(o) \/ AnswerError(o) \/ AnswerContext(o) \/ Close(o)

(* Several opens may step at once: they may share their context. *)
ContractNext ==
  \A o \in Opens : OpenStep(o) \/ Becomes(o, request[o], ended[o], held[o])

ContractSafety == ContractInit /\ [][ContractNext]_contractVars

(* An ended request is answered, whatever the file system does. *)
EndIsAnswered == \A o \in Opens : (request[o] = "asked" /\ ended[o]) ~> request[o] # "asked"

Contract == ContractSafety /\ EndIsAnswered
=============================================================================
