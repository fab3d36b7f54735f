----------------------------- MODULE McpServer -----------------------------
(***************************************************************************)
(* The stdio MCP server: the reader loop of Serve, one goroutine per       *)
(* admitted tools/call, and the state they share: the two slot channels,   *)
(* the cancellation registry, the initialized flag and the wait group.     *)
(*                                                                         *)
(* A call is identified by the element of Calls given to it when its line  *)
(* is read, which plays the part of *callHandle: two calls may carry the   *)
(* same request id. The client's stream is any sequence of Lines, with at  *)
(* most one tools/call line per element of Calls.                          *)
(***************************************************************************)
EXTENDS RpcDispatch, FiniteSets

CONSTANTS Calls,          \* identities of the tools/call lines of a run (the bound on their number)
          Lines,          \* the line shapes the client sends
          MaxAdmitted,    \* maxAdmittedCalls, 16 in the code
          MaxConcurrent   \* maxConcurrentCalls, 4 in the code

ASSUME McpAssumption ==
  /\ IsFiniteSet(Calls)
  /\ Lines \subseteq LineShape
  /\ MaxAdmitted \in Nat \ {0}
  /\ MaxConcurrent \in Nat \ {0}

NoLine == [frame |-> "none"]

VARIABLES
  reader,         \* where Serve's loop stands
  eof,            \* the input has ended, or failed
  syncAnswer,     \* the answer the reader is about to write itself
  toCancel,       \* handles collected by cancel, not yet cancelled
  cancelId,       \* the id that cancellation names
  initialized,    \* Server.initialized
  shutdown,       \* the context given to Serve is done
  admissionSlots, \* tokens in Server.admissionSlots
  callSlots,      \* tokens in Server.callSlots
  cancels,        \* Server.cancels; an absent key is an empty set
  wg,             \* Server.wg
  phase,          \* where each call's goroutine stands
  line,           \* the request of each call
  afterInit,      \* history: initialized held when the call's line was read
  ctx,            \* why the call's context ended, or "live"
  tried,          \* paths the call has tried to open
  files,          \* descriptors the call holds
  held,           \* the deferred release of callSlots is registered
  reply,          \* the answer the call has decided on
  written         \* answers written to the output for the call

readerVars == <<reader, eof, syncAnswer, toCancel, cancelId>>
slotVars   == <<admissionSlots, callSlots, held>>
vars == <<reader, eof, syncAnswer, toCancel, cancelId, initialized, shutdown,
          admissionSlots, callSlots, cancels, wg, phase, line, afterInit, ctx,
          tried, files, held, reply, written>>

Phases == {"unread", "refused", "spawned", "queued", "opening", "collecting",
           "working", "replying", "closing", "unslotting", "unadmitting",
           "ending", "deregistering", "finishing", "done"}

CtxStates == {"none", "live", "client", "shutdown", "deadline", "finished"}

(* Answers that report why a context ended, and what the worker returned.  *)
ContextFailures == {"E_TIMEOUT", "E_CANCELLED"}
ToolReplies     == {"result", "E_WORKER", "E_AUTHORITY", "E_INVALID_INPUT"} \cup ContextFailures
Refusals        == {"shuttingDown", "capacityFull"}
Replies         == ToolReplies \cup EarlyAnswers \cup Refusals

Unread     == {c \in Calls : phase[c] = "unread"}
Ended(c)   == ctx[c] \in {"client", "shutdown", "deadline", "finished"}

(* The phases in which the goroutine holds its admission token, is found in *)
(* the registry, and is counted by the wait group.                          *)
AdmittedPhases   == Phases \ {"unread", "refused", "ending", "deregistering", "finishing", "done"}
RegisteredPhases == Phases \ {"unread", "refused", "finishing", "done"}
CountedPhases    == Phases \ {"unread", "refused", "done"}

Admitted == {c \in Calls : phase[c] \in AdmittedPhases}
Holding  == {c \in Calls : held[c]}

-----------------------------------------------------------------------------
Init ==
  /\ reader = "reading" /\ eof = FALSE /\ syncAnswer = "none"
  /\ toCancel = {} /\ cancelId = NoId
  /\ initialized = FALSE /\ shutdown = FALSE
  /\ admissionSlots = 0 /\ callSlots = 0 /\ wg = 0
  /\ cancels = [i \in Ids |-> {}]
  /\ phase = [c \in Calls |-> "unread"]
  /\ line = [c \in Calls |-> NoLine]
  /\ afterInit = [c \in Calls |-> FALSE]
  /\ ctx = [c \in Calls |-> "none"]
  /\ tried = [c \in Calls |-> 0]
  /\ files = [c \in Calls |-> 0]
  /\ held = [c \in Calls |-> FALSE]
  /\ reply = [c \in Calls |-> "none"]
  /\ written = [c \in Calls |-> 0]

-----------------------------------------------------------------------------
(* The reader: Serve, handleSync and cancel. *)

CanRead == reader = "reading" /\ ~eof

(* The input ends or fails, after which the loop only waits for the calls; *)
(* a last line without a newline is still handled first, which is a        *)
(* ReadLine followed by this.                                              *)
ReadEnd ==
  /\ CanRead
  /\ eof' = TRUE
  /\ UNCHANGED <<reader, syncAnswer, toCancel, cancelId, initialized, shutdown,
                 slotVars, cancels, wg, phase, line, afterInit, ctx, tried, files, reply, written>>

(* A line the reader answers itself. initialize sets the flag before its   *)
(* answer is written.                                                      *)
AnswerLine(l) ==
  /\ CanRead /\ Disposition(l) = "answer"
  /\ syncAnswer' = SyncAnswer(l, initialized)
  /\ initialized' = (initialized \/ Initializes(l))
  /\ reader' = "answering"
  /\ UNCHANGED <<eof, toCancel, cancelId, shutdown, slotVars, cancels, wg, phase,
                 line, afterInit, ctx, tried, files, reply, written>>

WriteSyncAnswer ==
  /\ reader = "answering"
  /\ reader' = "reading" /\ syncAnswer' = "none"
  /\ UNCHANGED <<eof, toCancel, cancelId, initialized, shutdown, slotVars, cancels, wg,
                 phase, line, afterInit, ctx, tried, files, reply, written>>

(* Mutant of CollectHandles: every registered handle, whatever its id. *)
CollectAllHandles(l) ==
  /\ CanRead /\ Disposition(l) = "cancel"
  /\ l.params /\ l.target \in Ids
  /\ toCancel' = UNION {cancels[i] : i \in Ids} /\ cancelId' = l.target
  /\ reader' = "cancelling"
  /\ UNCHANGED <<eof, syncAnswer, initialized, shutdown, slotVars, cancels, wg, phase,
                 line, afterInit, ctx, tried, files, reply, written>>

(* cancel: collect the handles registered under the id while holding       *)
(* stateMu, then cancel them one by one after releasing it. Params that do *)
(* not parse name no id.                                                   *)
CollectHandles(l) ==
  /\ CanRead /\ Disposition(l) = "cancel"
  /\ l.params /\ l.target \in Ids
  /\ toCancel' = cancels[l.target] /\ cancelId' = l.target
  /\ reader' = "cancelling"
  /\ UNCHANGED <<eof, syncAnswer, initialized, shutdown, slotVars, cancels, wg, phase,
                 line, afterInit, ctx, tried, files, reply, written>>

CancelHandle(c) ==
  /\ reader = "cancelling" /\ c \in toCancel
  /\ toCancel' = toCancel \ {c}
  /\ ctx' = IF Ended(c) THEN ctx ELSE [ctx EXCEPT ![c] = "client"]
  /\ UNCHANGED <<reader, eof, syncAnswer, cancelId, initialized, shutdown, slotVars, cancels,
                 wg, phase, line, afterInit, tried, files, reply, written>>

(* Mutant of CancelReturns: cancel stops before every handle is cancelled. *)
CancelReturnsEarly ==
  /\ reader = "cancelling"
  /\ toCancel' = {}
  /\ reader' = "reading" /\ cancelId' = NoId
  /\ UNCHANGED <<eof, syncAnswer, initialized, shutdown, slotVars, cancels, wg, phase,
                 line, afterInit, ctx, tried, files, reply, written>>

CancelReturns ==
  /\ reader = "cancelling" /\ toCancel = {}
  /\ reader' = "reading" /\ cancelId' = NoId
  /\ UNCHANGED <<eof, syncAnswer, toCancel, initialized, shutdown, slotVars, cancels, wg, phase,
                 line, afterInit, ctx, tried, files, reply, written>>

(* A tools/call line: an admission token is taken without waiting, the     *)
(* call's context gets its deadline, the handle enters the registry, the   *)
(* wait group counts the call and the goroutine is started, all before the *)
(* reader takes the next line. When the token is available and Serve's     *)
(* context is done as well, select may take either branch.                 *)
AdmitCall(c, l) ==
  /\ CanRead /\ Disposition(l) = "admit" /\ c \in Unread
  /\ admissionSlots < MaxAdmitted
  /\ admissionSlots' = admissionSlots + 1
  /\ ctx' = [ctx EXCEPT ![c] = IF shutdown THEN "shutdown" ELSE "live"]
  /\ cancels' = [cancels EXCEPT ![l.id] = @ \cup {c}]
  /\ wg' = wg + 1
  /\ phase' = [phase EXCEPT ![c] = "spawned"]
  /\ line' = [line EXCEPT ![c] = l]
  /\ afterInit' = [afterInit EXCEPT ![c] = initialized]
  /\ UNCHANGED <<readerVars, initialized, shutdown, callSlots, held, tried, files, reply, written>>

(* The refusals of the same select; the reader writes the answer itself. *)
RefuseCall(c, l) ==
  /\ CanRead /\ Disposition(l) = "admit" /\ c \in Unread
  /\ shutdown \/ admissionSlots = MaxAdmitted
  /\ reply' = [reply EXCEPT ![c] = IF shutdown THEN "shuttingDown" ELSE "capacityFull"]
  /\ written' = [written EXCEPT ![c] = @ + 1]
  /\ phase' = [phase EXCEPT ![c] = "refused"]
  /\ line' = [line EXCEPT ![c] = l]
  /\ afterInit' = [afterInit EXCEPT ![c] = initialized]
  /\ UNCHANGED <<readerVars, initialized, shutdown, slotVars, cancels, wg, ctx, tried, files>>

(* Mutant of ServeReturns: Serve does not wait for its calls. *)
ServeReturnsEarly ==
  /\ reader = "reading" /\ eof
  /\ reader' = "returned"
  /\ UNCHANGED <<eof, syncAnswer, toCancel, cancelId, initialized, shutdown, slotVars, cancels,
                 wg, phase, line, afterInit, ctx, tried, files, reply, written>>

(* wg.Wait returns, and Serve with it. *)
ServeReturns ==
  /\ reader = "reading" /\ eof /\ wg = 0
  /\ reader' = "returned"
  /\ UNCHANGED <<eof, syncAnswer, toCancel, cancelId, initialized, shutdown, slotVars, cancels,
                 wg, phase, line, afterInit, ctx, tried, files, reply, written>>

-----------------------------------------------------------------------------
(* The contexts: the timer of WithTimeout, and the end of Serve's context, *)
(* which reaches every context derived from it. The first cause to end a   *)
(* context is the one it keeps.                                            *)

Deadline(c) ==
  /\ ctx[c] = "live"
  /\ ctx' = [ctx EXCEPT ![c] = "deadline"]
  /\ UNCHANGED <<readerVars, initialized, shutdown, slotVars, cancels, wg, phase, line,
                 afterInit, tried, files, reply, written>>

Shutdown ==
  /\ ~shutdown
  /\ shutdown' = TRUE
  /\ ctx' = [c \in Calls |-> IF ctx[c] = "live" THEN "shutdown" ELSE ctx[c]]
  /\ UNCHANGED <<readerVars, initialized, slotVars, cancels, wg, phase, line, afterInit,
                 tried, files, reply, written>>

-----------------------------------------------------------------------------
(* The goroutine of a call: handleToolCall, handleBatchCall and            *)
(* handleInventoryCall, then the deferred releases in their order.         *)

(* Mutant of ContextFailure: only a client's cancellation is told apart. *)
ContextFailureOrTimeout(c) == IF ctx[c] = "client" THEN "E_CANCELLED" ELSE "E_TIMEOUT"

(* contextFailure, batchContextFailure, inventoryContextFailure *)
ContextFailure(c) == IF ctx[c] = "deadline" THEN "E_TIMEOUT" ELSE "E_CANCELLED"

(* The call has settled what it will answer and has yet to write it. *)
Reply(c, r) ==
  /\ reply' = [reply EXCEPT ![c] = r]
  /\ phase' = [phase EXCEPT ![c] = "replying"]

callEnv == <<readerVars, initialized, shutdown, line, afterInit>>

(* Up to acquireCallSlot. Whether a legacy client has initialized is read   *)
(* here, when the goroutine runs, and not when its line was read.           *)
StartCall(c) ==
  LET early == EarlyAnswer(line[c], initialized)
  IN /\ phase[c] = "spawned"
     /\ IF early = "none"
        THEN phase' = [phase EXCEPT ![c] = "queued"] /\ UNCHANGED reply
        ELSE Reply(c, early)
     /\ UNCHANGED <<callEnv, slotVars, cancels, wg, ctx, tried, files, written>>

(* acquireCallSlot: with a free slot and an ended context either branch is *)
(* taken.                                                                   *)
AcquireCallSlot(c) ==
  /\ phase[c] = "queued" /\ callSlots < MaxConcurrent
  /\ callSlots' = callSlots + 1
  /\ held' = [held EXCEPT ![c] = TRUE]
  /\ phase' = [phase EXCEPT ![c] =
                 IF line[c].tool = "workspace_inventory" THEN "collecting" ELSE "opening"]
  /\ UNCHANGED <<callEnv, admissionSlots, cancels, wg, ctx, tried, files, reply, written>>

AbandonQueue(c) ==
  /\ phase[c] = "queued" /\ Ended(c)
  /\ Reply(c, ContextFailure(c))
  /\ UNCHANGED <<callEnv, slotVars, cancels, wg, ctx, tried, files, written>>

(* The number of paths OpenRelativeContext is called for. *)
PathCount(l) == IF l.tool = "file_inspect_batch" THEN l.paths ELSE 1

(* OpenRelativeContext returns a descriptor or an authority error only when *)
(* its last look at the context found it live. An authority error ends a    *)
(* single inspection; a batch records it and opens the next path.           *)
OpenPath(c) ==
  /\ phase[c] = "opening" /\ tried[c] < PathCount(line[c]) /\ ~Ended(c)
  /\ tried' = [tried EXCEPT ![c] = @ + 1]
  /\ \/ /\ files' = [files EXCEPT ![c] = @ + 1]
        /\ UNCHANGED <<phase, reply>>
     \/ /\ line[c].tool = "file_inspect_batch"
        /\ UNCHANGED <<files, phase, reply>>
     \/ /\ line[c].tool = "file_inspect"
        /\ Reply(c, "E_AUTHORITY")
        /\ UNCHANGED files
  /\ UNCHANGED <<callEnv, slotVars, cancels, wg, ctx, written>>

(* Mutant of AbandonOpen: an open is not abandoned when the deadline passes. *)
AbandonOpenOnCancel(c) ==
  /\ phase[c] = "opening" /\ tried[c] < PathCount(line[c]) /\ Ended(c)
  /\ ctx[c] # "deadline"
  /\ Reply(c, ContextFailure(c))
  /\ UNCHANGED <<callEnv, slotVars, cancels, wg, ctx, tried, files, written>>

AbandonOpen(c) ==
  /\ phase[c] = "opening" /\ tried[c] < PathCount(line[c]) /\ Ended(c)
  /\ Reply(c, ContextFailure(c))
  /\ UNCHANGED <<callEnv, slotVars, cancels, wg, ctx, tried, files, written>>

(* CollectRegularFilesContext runs in the call's own goroutine. It looks at *)
(* the context only between two file-system operations, so a file can still *)
(* be opened, the walk end, or a directory fail, after the context ended.   *)
CollectFile(c) ==
  /\ phase[c] = "collecting" /\ files[c] < MaxPaths
  /\ files' = [files EXCEPT ![c] = @ + 1]
  /\ UNCHANGED <<callEnv, slotVars, cancels, wg, ctx, phase, tried, reply, written>>

CollectEnds(c) ==
  /\ phase[c] = "collecting"
  /\ phase' = [phase EXCEPT ![c] = "working"]
  /\ UNCHANGED <<callEnv, slotVars, cancels, wg, ctx, tried, files, reply, written>>

(* The collection closes what it opened before it reports a failure. *)
CollectFails(c) ==
  /\ phase[c] = "collecting"
  /\ files' = [files EXCEPT ![c] = 0]
  /\ \/ Reply(c, "E_AUTHORITY")
     \/ Ended(c) /\ Reply(c, ContextFailure(c))
  /\ UNCHANGED <<callEnv, slotVars, cancels, wg, ctx, tried, written>>

(* Every path has been tried: the worker starts, a batch even with no file. *)
StartWorker(c) ==
  /\ phase[c] = "opening" /\ tried[c] = PathCount(line[c])
  /\ phase' = [phase EXCEPT ![c] = "working"]
  /\ UNCHANGED <<callEnv, slotVars, cancels, wg, ctx, tried, files, reply, written>>

(* Mutant of WorkerReturns: the context is not looked at again. *)
WorkerReturnsUnchecked(c) ==
  /\ phase[c] = "working"
  /\ \E r \in {"result", "E_WORKER"} : Reply(c, r)
  /\ UNCHANGED <<callEnv, slotVars, cancels, wg, ctx, tried, files, written>>

(* Mutant of WorkerReturns: a cancelled worker is not stopped. *)
WorkerReturnsOnDeadline(c) ==
  /\ phase[c] = "working"
  /\ \/ ctx[c] = "deadline" /\ Reply(c, ContextFailure(c))
     \/ ~Ended(c) /\ \E r \in {"result", "E_WORKER"} : Reply(c, r)
  /\ UNCHANGED <<callEnv, slotVars, cancels, wg, ctx, tried, files, written>>

(* The worker's answer, unless the context has ended by the time the call   *)
(* looks at it again. "E_WORKER" stands for every failure the supervisor    *)
(* reports and for a result that breaks its schema or the envelope budget   *)
(* when writeToolResult encodes it.                                         *)
WorkerReturns(c) ==
  /\ phase[c] = "working"
  /\ \/ Ended(c) /\ Reply(c, ContextFailure(c))
     \/ ~Ended(c) /\ \E r \in {"result", "E_WORKER"} : Reply(c, r)
  /\ UNCHANGED <<callEnv, slotVars, cancels, wg, ctx, tried, files, written>>

(* The answer reaches the output; the handler then returns through its own  *)
(* deferred calls if it got as far as registering them.                     *)
WriteReply(c) ==
  /\ phase[c] = "replying"
  /\ written' = [written EXCEPT ![c] = @ + 1]
  /\ phase' = [phase EXCEPT ![c] = IF held[c] THEN "closing" ELSE "unadmitting"]
  /\ UNCHANGED <<callEnv, slotVars, cancels, wg, ctx, tried, files, reply>>

(* file.Close, closeMCPFiles, collection.Close: before the slot, which was  *)
(* deferred first.                                                          *)
CloseFiles(c) ==
  /\ phase[c] = "closing"
  /\ files' = [files EXCEPT ![c] = 0]
  /\ phase' = [phase EXCEPT ![c] = "unslotting"]
  /\ UNCHANGED <<callEnv, slotVars, cancels, wg, ctx, tried, reply, written>>

ReleaseCallSlot(c) ==
  /\ phase[c] = "unslotting"
  /\ callSlots' = callSlots - 1
  /\ held' = [held EXCEPT ![c] = FALSE]
  /\ phase' = [phase EXCEPT ![c] = "unadmitting"]
  /\ UNCHANGED <<callEnv, admissionSlots, cancels, wg, ctx, tried, files, reply, written>>

(* Mutant of ReleaseAdmission: an interrupted call keeps its token. *)
ReleaseUnlessInterrupted(c) ==
  /\ phase[c] = "unadmitting"
  /\ admissionSlots' = IF reply[c] \in ContextFailures THEN admissionSlots ELSE admissionSlots - 1
  /\ phase' = [phase EXCEPT ![c] = "ending"]
  /\ UNCHANGED <<callEnv, callSlots, held, cancels, wg, ctx, tried, files, reply, written>>

(* The goroutine's own deferred function, one shared effect at a time.      *)
ReleaseAdmission(c) ==
  /\ phase[c] = "unadmitting"
  /\ admissionSlots' = admissionSlots - 1
  /\ phase' = [phase EXCEPT ![c] = "ending"]
  /\ UNCHANGED <<callEnv, callSlots, held, cancels, wg, ctx, tried, files, reply, written>>

EndContext(c) ==
  /\ phase[c] = "ending"
  /\ ctx' = IF Ended(c) THEN ctx ELSE [ctx EXCEPT ![c] = "finished"]
  /\ phase' = [phase EXCEPT ![c] = "deregistering"]
  /\ UNCHANGED <<callEnv, slotVars, cancels, wg, tried, files, reply, written>>

(* Mutant of Deregister: the id's whole entry is deleted. *)
DeregisterId(c) ==
  /\ phase[c] = "deregistering"
  /\ cancels' = [cancels EXCEPT ![line[c].id] = {}]
  /\ phase' = [phase EXCEPT ![c] = "finishing"]
  /\ UNCHANGED <<callEnv, slotVars, wg, ctx, tried, files, reply, written>>

Deregister(c) ==
  /\ phase[c] = "deregistering"
  /\ cancels' = [cancels EXCEPT ![line[c].id] = @ \ {c}]
  /\ phase' = [phase EXCEPT ![c] = "finishing"]
  /\ UNCHANGED <<callEnv, slotVars, wg, ctx, tried, files, reply, written>>

CallDone(c) ==
  /\ phase[c] = "finishing"
  /\ wg' = wg - 1
  /\ phase' = [phase EXCEPT ![c] = "done"]
  /\ UNCHANGED <<callEnv, slotVars, cancels, ctx, tried, files, reply, written>>

-----------------------------------------------------------------------------
(* Steps the reader and a call take without waiting for anything outside    *)
(* the process, and those that wait for the file system or the worker.      *)
ReaderStep ==
  \/ WriteSyncAnswer
  \/ \E c \in Calls : CancelHandle(c)
  \/ CancelReturns
  \/ ServeReturns

OwnStep(c) ==
  \/ StartCall(c) \/ AcquireCallSlot(c) \/ AbandonQueue(c) \/ AbandonOpen(c)
  \/ StartWorker(c) \/ WriteReply(c) \/ CloseFiles(c) \/ ReleaseCallSlot(c)
  \/ ReleaseAdmission(c) \/ EndContext(c) \/ Deregister(c) \/ CallDone(c)

WalkStep(c) == CollectFile(c) \/ CollectEnds(c) \/ CollectFails(c)

ClientStep ==
  \/ ReadEnd
  \/ \E l \in Lines : AnswerLine(l) \/ CollectHandles(l)
  \/ \E l \in Lines, c \in Calls : AdmitCall(c, l) \/ RefuseCall(c, l)

Terminated == reader = "returned" /\ UNCHANGED vars

Next ==
  \/ ClientStep
  \/ ReaderStep
  \/ \E c \in Calls : OwnStep(c) \/ OpenPath(c) \/ WalkStep(c) \/ WorkerReturns(c) \/ Deadline(c)
  \/ Shutdown
  \/ Terminated

Spec == Init /\ [][Next]_vars

(* What the process itself guarantees: its goroutines are scheduled, timers *)
(* fire, and a worker whose context has ended is killed and reaped.         *)
ServerFairness ==
  /\ WF_vars(ReaderStep)
  /\ \A c \in Calls :
       /\ WF_vars(OwnStep(c))
       /\ WF_vars(Deadline(c))
       /\ WF_vars(Ended(c) /\ WorkerReturns(c))

(* What it cannot guarantee: that a directory walk's system calls return.   *)
FilesystemResponds == \A c \in Calls : WF_vars(WalkStep(c))

ServerSpec == Spec /\ ServerFairness
FairSpec   == Spec /\ ServerFairness /\ FilesystemResponds
=============================================================================
