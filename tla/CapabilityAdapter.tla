------------------------- MODULE CapabilityAdapter -------------------------
(***************************************************************************)
(* The capability adapter: a session of request lines on standard input,   *)
(* each nonblank line answered once on standard output. A bounded number   *)
(* of requests is admitted, fewer of them inspect at a time, and each has  *)
(* a deadline of its own; there is no cancellation. One goroutine runs     *)
(* serve, one each admitted request.                                       *)
(*                                                                         *)
(* A request is named by a member of Requests, which bounds the lines that *)
(* are answered in a session.                                              *)
(***************************************************************************)
EXTENDS LineReader, FiniteSets

CONSTANTS Requests, MaxAdmitted, MaxConcurrent

ASSUME AdapterAssumption ==
  /\ IsFiniteSet(Requests)
  /\ MaxAdmitted \in Nat \ {0}
  /\ MaxConcurrent \in Nat \ {0}

VARIABLES server,      \* where serve stands
          eof,         \* serve's flag: the loop ends after this line
          admission,   \* tokens in the admission channel
          slots,       \* tokens in the slot channel
          wg,          \* the wait group's counter
          phase,       \* where each request stands
          expired,     \* the requests in a context whose deadline has passed
          open,        \* the requests whose descriptor is open
          reply        \* the code each request is answered with

adapterVars == <<server, eof, admission, slots, wg, phase, expired, open, reply>>
vars == <<readerVars, adapterVars>>

Phases == {"unread", "refused", "decoding", "queued", "opening", "working", "closing",
           "unslotting", "replying", "unadmitting", "finishing", "done"}

(* FAILED stands for the codes of a request that is invalid, or whose file   *)
(* or inspection failed.                                                    *)
Codes  == {"OK", "LIMIT_EXCEEDED", "FAILED"}

(* canonicalErrorCode: what the portable contract calls an error. An error   *)
(* of the open that is not the authority's own, as that of a context, comes  *)
(* as E_FILE_ACCESS.                                                        *)
CanonicalErrorCode(code) ==
  IF code \in {"E_MEMORY_LIMIT", "E_RESPONSE_TOO_LARGE", "E_TIMEOUT"}
  THEN "LIMIT_EXCEEDED" ELSE "FAILED"

RunErrors == {"E_WORKER_FAILED", "E_MEMORY_LIMIT", "E_RESPONSE_TOO_LARGE", "E_TIMEOUT"}

Init ==
  /\ ReaderInit
  /\ server = "reading" /\ eof = FALSE
  /\ admission = 0 /\ slots = 0 /\ wg = 0
  /\ phase = [r \in Requests |-> "unread"]
  /\ expired = {} /\ open = {}
  /\ reply = [r \in Requests |-> "none"]

-----------------------------------------------------------------------------
(* serve: read a line, then dispatch it.                                    *)

(* Bound: a session has as many nonblank lines as Requests has members. *)
Room == \E r \in Requests : phase[r] = "unread"

ReadMore ==
  /\ server = "reading" /\ Room /\ ReadOn
  /\ UNCHANGED adapterVars

LineArrives ==
  /\ server = "reading" /\ ReadToDelimiter /\ (Room \/ Blank(got'))
  /\ server' = "dispatching"
  /\ UNCHANGED <<eof, admission, slots, wg, phase, expired, open, reply>>

(* Mutant of InputEnds: the flag is not set, the loop reads on. *)
InputEndsUnseen ==
  /\ server = "reading" /\ ReadToEnd /\ (Room \/ Blank(got'))
  /\ server' = "dispatching"
  /\ UNCHANGED <<eof, admission, slots, wg, phase, expired, open, reply>>

(* The end of the input: with an oversized rest the loop goes round again.  *)
InputEnds ==
  /\ server = "reading" /\ ReadToEnd /\ (Room \/ Blank(got'))
  /\ server' = "dispatching"
  /\ eof' = (got' # TooLarge)
  /\ UNCHANGED <<admission, slots, wg, phase, expired, open, reply>>

(* Any other read error leaves the loop, after the requests at work. *)
ReadFails ==
  /\ server = "reading" /\ ~inputEnded
  /\ server' = "draining"
  /\ UNCHANGED <<readerVars, eof, admission, slots, wg, phase, expired, open, reply>>

(* After a line: the loop's condition, and a new line for the reader. *)
NextLine ==
  /\ server' = IF eof THEN "draining" ELSE "reading"
  /\ raw' = <<>> /\ got' = <<>>
  /\ UNCHANGED <<kept, overflow, inputEnded, eof>>

SkipBlank ==
  /\ server = "dispatching" /\ Blank(got)
  /\ NextLine
  /\ UNCHANGED <<admission, slots, wg, phase, expired, open, reply>>

(* Answered by serve itself, under the write mutex. *)
Refuse(r, code) ==
  /\ server = "dispatching" /\ phase[r] = "unread"
  /\ phase' = [phase EXCEPT ![r] = "refused"]
  /\ reply' = [reply EXCEPT ![r] = code]
  /\ NextLine
  /\ UNCHANGED <<admission, slots, wg, expired, open>>

RefuseTooLarge(r) == got = TooLarge /\ Refuse(r, "FAILED")

RefuseFull(r) ==
  /\ got # TooLarge /\ ~Blank(got) /\ admission = MaxAdmitted
  /\ Refuse(r, "LIMIT_EXCEEDED")

(* Mutant of Admit: the goroutine is not counted in the wait group. *)
AdmitUncounted(r) ==
  /\ server = "dispatching" /\ phase[r] = "unread"
  /\ got # TooLarge /\ ~Blank(got) /\ admission < MaxAdmitted
  /\ admission' = admission + 1
  /\ phase' = [phase EXCEPT ![r] = "decoding"]
  /\ NextLine
  /\ UNCHANGED <<slots, wg, expired, open, reply>>

Admit(r) ==
  /\ server = "dispatching" /\ phase[r] = "unread"
  /\ got # TooLarge /\ ~Blank(got) /\ admission < MaxAdmitted
  /\ admission' = admission + 1
  /\ wg' = wg + 1
  /\ phase' = [phase EXCEPT ![r] = "decoding"]
  /\ NextLine
  /\ UNCHANGED <<slots, expired, open, reply>>

ServeReturns ==
  /\ server = "draining" /\ wg = 0
  /\ server' = "returned"
  /\ UNCHANGED <<readerVars, eof, admission, slots, wg, phase, expired, open, reply>>

-----------------------------------------------------------------------------
(* handleRequestWithTimeout and the goroutine around it.                    *)

Serving == UNCHANGED <<readerVars, server, eof>>

Step(r, from, to) ==
  /\ phase[r] = from
  /\ phase' = [phase EXCEPT ![r] = to]
  /\ Serving

Answer(r, code) == reply' = [reply EXCEPT ![r] = code]

DecodeInvalid(r) ==
  /\ Step(r, "decoding", "replying") /\ Answer(r, "FAILED")
  /\ UNCHANGED <<admission, slots, wg, expired, open>>

(* Envelope and input are valid: the deadline starts to run. *)
DecodeValid(r) ==
  /\ Step(r, "decoding", "queued")
  /\ UNCHANGED <<admission, slots, wg, expired, open, reply>>

(* Mutant of Deadline: it ends the wait for a slot only. *)
DeadlineOfQueue(r) ==
  /\ phase[r] = "queued" /\ r \notin expired
  /\ expired' = expired \cup {r}
  /\ Serving
  /\ UNCHANGED <<admission, slots, wg, phase, open, reply>>

Deadline(r) ==
  /\ phase[r] \in {"queued", "opening", "working", "closing", "unslotting"}
  /\ r \notin expired
  /\ expired' = expired \cup {r}
  /\ Serving
  /\ UNCHANGED <<admission, slots, wg, phase, open, reply>>

(* The select takes a free slot even if the deadline has passed as well. *)
AcquireSlot(r) ==
  /\ slots < MaxConcurrent
  /\ Step(r, "queued", "opening")
  /\ slots' = slots + 1
  /\ UNCHANGED <<admission, wg, expired, open, reply>>

(* Mutant of AbandonQueue: the release is deferred before the select, so a  *)
(* request gives back a slot it never took.                                 *)
AbandonQueueReleasing(r) ==
  /\ r \in expired
  /\ Step(r, "queued", "replying") /\ Answer(r, "LIMIT_EXCEEDED")
  /\ slots' = slots - 1
  /\ expired' = expired \ {r}
  /\ UNCHANGED <<admission, wg, open>>

AbandonQueue(r) ==
  /\ r \in expired
  /\ Step(r, "queued", "replying") /\ Answer(r, "LIMIT_EXCEEDED")
  /\ expired' = expired \ {r}
  /\ UNCHANGED <<admission, slots, wg, open>>

OpenSucceeds(r) ==
  /\ r \notin expired
  /\ Step(r, "opening", "working")
  /\ open' = open \cup {r}
  /\ UNCHANGED <<admission, slots, wg, expired, reply>>

OpenFails(r) ==
  /\ r \notin expired
  /\ Step(r, "opening", "unslotting")
  /\ Answer(r, "FAILED")
  /\ UNCHANGED <<admission, slots, wg, expired, open>>

(* An expired context ends the open with the context's error. *)
AbandonOpen(r) ==
  /\ r \in expired
  /\ Step(r, "opening", "unslotting") /\ Answer(r, CanonicalErrorCode("E_FILE_ACCESS"))
  /\ UNCHANGED <<admission, slots, wg, expired, open>>

(* supervisor.Run comes back with a result, which is not held against the   *)
(* deadline, or with an error; a result outside the output contract, an     *)
(* error without a body and a missing executable are failures.              *)
WorkerReturns(r) ==
  /\ Step(r, "working", "closing")
  /\ \/ Answer(r, "OK")
     \/ Answer(r, "FAILED")
     \/ \E code \in RunErrors : Answer(r, CanonicalErrorCode(code))
  /\ UNCHANGED <<admission, slots, wg, expired, open>>

(* Mutant of CloseFile: the descriptor stays open. *)
LeaveFileOpen(r) ==
  /\ Step(r, "closing", "unslotting")
  /\ UNCHANGED <<admission, slots, wg, expired, open, reply>>

(* The deferred functions, last registered first: the file, the slot, then   *)
(* the context, which ends unseen; then the write and the deferred function  *)
(* of the goroutine.                                                        *)
CloseFile(r) ==
  /\ Step(r, "closing", "unslotting")
  /\ open' = open \ {r}
  /\ UNCHANGED <<admission, slots, wg, expired, reply>>

ReleaseSlot(r) ==
  /\ Step(r, "unslotting", "replying")
  /\ slots' = slots - 1
  /\ expired' = expired \ {r}
  /\ UNCHANGED <<admission, wg, open, reply>>

WriteResponse(r) ==
  /\ Step(r, "replying", "unadmitting")
  /\ UNCHANGED <<admission, slots, wg, expired, open, reply>>

ReleaseAdmission(r) ==
  /\ Step(r, "unadmitting", "finishing")
  /\ admission' = admission - 1
  /\ UNCHANGED <<slots, wg, expired, open, reply>>

RequestDone(r) ==
  /\ Step(r, "finishing", "done")
  /\ wg' = wg - 1
  /\ UNCHANGED <<admission, slots, expired, open, reply>>

-----------------------------------------------------------------------------
Dispatch ==
  \/ SkipBlank
  \/ \E r \in Requests : RefuseTooLarge(r) \/ RefuseFull(r) \/ Admit(r)

ReaderStep == ReadMore \/ LineArrives \/ InputEnds \/ ReadFails \/ Dispatch \/ ServeReturns

(* Steps a request makes by itself once its goroutine is scheduled. *)
OwnStep(r) ==
  \/ DecodeInvalid(r) \/ DecodeValid(r)
  \/ AcquireSlot(r) \/ AbandonQueue(r) \/ AbandonOpen(r)
  \/ CloseFile(r) \/ ReleaseSlot(r) \/ WriteResponse(r) \/ ReleaseAdmission(r) \/ RequestDone(r)

(* Steps that wait for the file system or the worker. *)
OutsideStep(r) == OpenSucceeds(r) \/ OpenFails(r) \/ WorkerReturns(r)

Terminated == server = "returned" /\ UNCHANGED vars

Next ==
  \/ ReaderStep
  \/ \E r \in Requests : OwnStep(r) \/ OutsideStep(r) \/ Deadline(r)
  \/ Terminated

Spec == Init /\ [][Next]_vars

(* Goroutines are scheduled, timers fire, serve dispatches what it read and *)
(* finds an ended input ended, and a worker whose context ended returns.    *)
(* Nothing is assumed of the client, of opens and of workers in time.       *)
SchedulerFairness ==
  /\ WF_vars(Dispatch) /\ WF_vars(ServeReturns) /\ WF_vars(inputEnded /\ InputEnds)
  /\ \A r \in Requests :
       /\ WF_vars(OwnStep(r)) /\ WF_vars(Deadline(r))
       /\ WF_vars(r \in expired /\ WorkerReturns(r))

FairSpec == Spec /\ SchedulerFairness
=============================================================================
