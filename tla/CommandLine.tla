---------------------------- MODULE CommandLine ----------------------------
(***************************************************************************)
(* One run of finspect: it reads its words, catches signals if it is an    *)
(* inspection, opens what it was given or walks a directory, has a worker  *)
(* look at it, writes the answer and exits.                                *)
(*                                                                         *)
(* An open runs in a goroutine of its own and is handed over through an    *)
(* unbuffered channel. os.Stat and the walk run in the command's goroutine *)
(* and look at no deadline while the system has them.                      *)
(***************************************************************************)
EXTENDS CommandArguments

CONSTANTS CommandLines    \* the command lines, as sequences of words

ASSUME CommandAssumption ==
  MaxPaths \in Nat \ {0} /\ CommandLines \subseteq Seq(STRING)

VARIABLES
  argv,          \* what is still to be read; nothing once it is
  command,
  places,        \* the files of an inspection or a batch; 0 for an inventory
  step,          \* where the command is
  endedBy,       \* the context: "no", or the code of what ended it
  interrupted,   \* a signal was caught
  goroutine,     \* what opens each place, and how far it is
  descriptor,    \* what is open for each place, and whether it was looked at
  items,         \* what became of the places so far: "file", or an error code
  result,        \* the answer: its status and its error code
  exitCode,
  temporary,     \* the directory of the doctor's self-test exists
  hangs          \* the system call that does not return, if one

inputVars == <<argv, command, places>>
contextVars == <<endedBy, interrupted>>
openVars == <<goroutine, descriptor>>
answerVars == <<result, exitCode>>
outsideVars == <<temporary, hangs>>
commandVars == <<inputVars, step, contextVars, openVars, items, answerVars, outsideVars>>

Places == 1..MaxPaths
NoResult == [status |-> "none", code |-> "none"]
Problem(code) == [status |-> "error", code |-> code]
Inspections == {"inspect", "batch", "inventory"}
OpenErrors == {"E_FILE_NOT_FOUND", "E_FILE_ACCESS", "E_NOT_REGULAR_FILE"}
WorkerErrors == {"E_MEMORY_LIMIT", "E_RESPONSE_TOO_LARGE", "E_WORKER_FAILED", "E_WORKER_PROTOCOL"}
HangingCalls == {"nothing", "stat", "open", "walk"}
Gone == {"exited", "killed"}

CommandAbsent ==
  /\ argv = <<>> /\ command = "none" /\ places = 0 /\ step = "absent"
  /\ endedBy = "no" /\ interrupted = FALSE
  /\ goroutine = [k \in Places |-> "none"] /\ items = <<>>
  /\ descriptor = [k \in Places |-> "nothing"]
  /\ result = NoResult /\ exitCode = 0 /\ temporary = FALSE /\ hangs = "nothing"

CommandInit ==
  /\ argv \in CommandLines
  /\ command = CommandOf(argv) /\ places = 0 /\ step = "main"
  /\ endedBy = "no" /\ interrupted = FALSE
  /\ goroutine = [k \in Places |-> "none"] /\ items = <<>>
  /\ descriptor = [k \in Places |-> "nothing"]
  /\ result = NoResult /\ exitCode = 0 /\ temporary = FALSE
  /\ hangs = "nothing"

-----------------------------------------------------------------------------
Goto(from, to) == step = from /\ step' = to

(* What the exit code says of an answer: an inspection that found its file   *)
(* corrupt has a code of its own.                                           *)
ExitCodeOf(answer) ==
  CASE answer.status = "refused" -> 2
    [] answer.status = "error" -> 1
    [] answer.status = "corrupt" -> 3
    [] OTHER -> 0

(* emitResult, emitBatchResult, emitInventoryResult; every way out of a      *)
(* command writes and comes back to main with its code.                     *)
Emit(from, answer) ==
  /\ Goto(from, "written")
  /\ result' = answer /\ exitCode' = ExitCodeOf(answer)

(* main: signals are caught for inspections only. *)
StartCommand ==
  /\ Goto("main", IF command \in Inspections THEN "reading" ELSE "dispatched")
  /\ UNCHANGED <<inputVars, contextVars, openVars, items, answerVars, outsideVars>>

RefuseArguments ==
  /\ step = "reading"
  /\ Parse(command, ArgumentsOf(argv)).refused
  /\ Emit("reading", [status |-> "refused", code |-> "E_USAGE"])
  /\ argv' = <<>>
  /\ UNCHANGED <<command, places, contextVars, openVars, items, outsideVars>>

(* The arguments are good: from here the deadline runs, and one of the calls *)
(* that follow may never return.                                            *)
BeginInspection ==
  /\ step = "reading"
  /\ LET answer == Parse(command, ArgumentsOf(argv))
     IN /\ ~answer.refused
        /\ places' = IF command = "inventory" THEN 0 ELSE Len(answer.paths)
  /\ step' = IF command = "inventory" THEN "resolving" ELSE "stat"
  /\ argv' = <<>>
  /\ hangs' \in {"nothing"} \cup IF command = "inventory" THEN {"walk"} ELSE {"stat", "open"}
  /\ UNCHANGED <<command, contextVars, openVars, items, answerVars, temporary>>

-----------------------------------------------------------------------------
(* openCLIFile, for the next place. *)
Current == Len(items) + 1

(* An open that failed: of an inspection it is the answer; a batch notes it  *)
(* and goes on, unless its context has ended.                               *)
OpenFailed(from, code) ==
  IF command = "inspect" \/ code \in {"E_TIMEOUT", "E_CANCELLED"}
    THEN Emit(from, Problem(code)) /\ UNCHANGED items
    ELSE /\ items' = Append(items, code)
         /\ Goto(from, IF Current = places THEN "locating" ELSE "stat")
         /\ UNCHANGED answerVars

StatRejects ==
  /\ hangs # "stat"
  /\ OpenFailed("stat", "E_NOT_REGULAR_FILE")
  /\ UNCHANGED <<inputVars, contextVars, openVars, outsideVars>>

(* The path is a regular file, or cannot be looked at: try to open it. *)
StartOpen ==
  /\ hangs # "stat"
  /\ Goto("stat", "opening")
  /\ goroutine' = [goroutine EXCEPT ![Current] = "opening"]
  /\ UNCHANGED <<inputVars, contextVars, descriptor, items, answerVars, outsideVars>>

(* The goroutine: what it found is the file or an error; the file may have   *)
(* been replaced by something else since the command looked at it.          *)
OpenReturns(k, found) ==
  /\ hangs # "open"
  /\ goroutine[k] = "opening" /\ goroutine' = [goroutine EXCEPT ![k] = found]
  /\ descriptor' = [descriptor EXCEPT ![k] = IF found = "file" THEN "checked" ELSE "nothing"]
  /\ UNCHANGED <<inputVars, step, contextVars, items, answerVars, outsideVars>>

Handing == {"file"} \cup OpenErrors

(* Nobody takes it: the context ended, or its cancel ran when the command   *)
(* returned, and the goroutine closes the file.                             *)
OpenerGivesUp(k) ==
  /\ goroutine[k] \in Handing /\ (endedBy # "no" \/ step = "uncaught")
  /\ goroutine' = [goroutine EXCEPT ![k] = "done"]
  /\ descriptor' = [descriptor EXCEPT ![k] = "nothing"]
  /\ UNCHANGED <<inputVars, step, contextVars, items, answerVars, outsideVars>>

(* Mutant of ReceiveOpened: the context is not looked at again. *)
ReceiveAnyway ==
  /\ step = "opening" /\ goroutine[Current] \in Handing
  /\ goroutine' = [goroutine EXCEPT ![Current] = "done"]
  /\ IF goroutine[Current] # "file" THEN OpenFailed("opening", goroutine[Current])
     ELSE /\ items' = Append(items, "file")
          /\ Goto("opening", IF Current = places THEN "locating" ELSE "stat")
          /\ UNCHANGED answerVars
  /\ UNCHANGED <<inputVars, contextVars, descriptor, outsideVars>>

(* The command takes what the goroutine has, and drops it if its context has *)
(* ended by then.                                                           *)
ReceiveOpened ==
  /\ step = "opening" /\ goroutine[Current] \in Handing
  /\ goroutine' = [goroutine EXCEPT ![Current] = "done"]
  /\ IF endedBy # "no" THEN OpenFailed("opening", endedBy)
     ELSE IF goroutine[Current] # "file" THEN OpenFailed("opening", goroutine[Current])
     ELSE /\ items' = Append(items, "file")
          /\ Goto("opening", IF Current = places THEN "locating" ELSE "stat")
          /\ UNCHANGED answerVars
  /\ descriptor' = IF endedBy = "no" THEN descriptor
                   ELSE [descriptor EXCEPT ![Current] = "nothing"]
  /\ UNCHANGED <<inputVars, contextVars, outsideVars>>

(* Mutant of AbandonOpen: the caller waits for the open. *)
NeverAbandon == FALSE /\ UNCHANGED commandVars

AbandonOpen ==
  /\ step = "opening" /\ endedBy # "no"
  /\ OpenFailed("opening", endedBy)
  /\ UNCHANGED <<inputVars, contextVars, openVars, outsideVars>>

-----------------------------------------------------------------------------
(* filepath.Abs and CollectRegularFilesContext. A walk whose context ends    *)
(* returns that, or may be past its last look at it.                        *)
WalkFails(code) ==
  /\ Emit("resolving", Problem(code))
  /\ code \in {"E_TIMEOUT", "E_CANCELLED"} => code = endedBy
  /\ hangs # "walk"
  /\ UNCHANGED <<inputVars, contextVars, openVars, items, outsideVars>>

WalkCollects ==
  /\ hangs # "walk"
  /\ Goto("resolving", "locating")
  /\ UNCHANGED <<inputVars, contextVars, openVars, items, answerVars, outsideVars>>

(* os.Executable *)
ExecutableUnknown ==
  /\ Emit("locating", Problem("E_INTERNAL"))
  /\ UNCHANGED <<inputVars, contextVars, openVars, items, outsideVars>>

StartWorker ==
  /\ Goto("locating", "supervised")
  /\ UNCHANGED <<inputVars, contextVars, openVars, items, answerVars, outsideVars>>

(* What supervisor.Run, RunBatch and RunInventory return: the worker's own  *)
(* result, also after the context has ended, or what went wrong, which is   *)
(* the end of the context if it has ended.                                  *)
SupervisorResults ==
  {[status |-> s, code |-> "none"] : s \in {"ok", "partial"}}
    \cup (IF command = "inspect"
            THEN {[status |-> s, code |-> "none"] : s \in {"unsupported", "corrupt"}} ELSE {})
    \cup {Problem("E_OF_WORKER")}
    \cup {Problem(c) : c \in IF endedBy = "no" THEN WorkerErrors ELSE {endedBy, "E_WORKER_PROTOCOL"}}

(* An inspection writes what the worker said. *)
DeliverInspection ==
  /\ command = "inspect"
  /\ \E answer \in SupervisorResults : Emit("supervised", answer)
  /\ UNCHANGED <<inputVars, contextVars, openVars, items, outsideVars>>

CollectionReturns ==
  /\ command \in {"batch", "inventory"}
  /\ Goto("supervised", "returned")
  /\ result' \in SupervisorResults
  /\ UNCHANGED <<inputVars, contextVars, openVars, items, exitCode, outsideVars>>

(* Mutant of DeliverCollection: what the worker said is the answer. *)
DeliverAsIs ==
  /\ Emit("returned", result)
  /\ UNCHANGED <<inputVars, contextVars, openVars, items, outsideVars>>

(* A batch and an inventory look at their context once more. *)
DeliverCollection ==
  /\ Emit("returned", IF endedBy = "no" THEN result ELSE Problem(endedBy))
  /\ UNCHANGED <<inputVars, contextVars, openVars, items, outsideVars>>

-----------------------------------------------------------------------------
(* The commands that catch no signal. *)
RefuseHelper ==
  /\ \/ command = "doctor" /\ DoctorRefused(ArgumentsOf(argv))
     \/ command = "schema" /\ SchemaRefused(ArgumentsOf(argv))
  /\ Emit("dispatched", [status |-> "refused", code |-> "E_USAGE"])
  /\ argv' = <<>>
  /\ UNCHANGED <<command, places, contextVars, openVars, items, outsideVars>>

(* The server and the workers end with their input, or with an error; the    *)
(* texts are written at once. A schema that is no JSON is an error.         *)
RunHelper ==
  /\ command \notin Inspections \cup {"doctor"}
  /\ command = "schema" => ~SchemaRefused(ArgumentsOf(argv))
  /\ \E answer \in {[status |-> "ok", code |-> "none"]}
                     \cup (IF command \in {"version", "help"} THEN {} ELSE {Problem("none")}) :
       Emit("dispatched", answer)
  /\ argv' = <<>>
  /\ UNCHANGED <<command, places, contextVars, openVars, items, outsideVars>>

(* runDoctor: the schemas accept a result of each kind, or not. *)
BeginDoctor ==
  /\ command = "doctor" /\ ~DoctorRefused(ArgumentsOf(argv))
  /\ Goto("dispatched", "selftest")
  /\ argv' = <<>>
  /\ result' \in {[status |-> "ok", code |-> "none"], Problem("none")}
  /\ UNCHANGED <<command, places, contextVars, openVars, items, exitCode, outsideVars>>

(* The self-test: a directory, a file in it, and a worker that looks at the  *)
(* file. Each may fail.                                                     *)
MakeTemporary ==
  /\ Goto("selftest", "tested")
  /\ temporary' = TRUE
  /\ UNCHANGED <<inputVars, contextVars, openVars, items, answerVars, hangs>>

SelfTestFails ==
  /\ step \in {"selftest", "tested"} /\ step' = "probing"
  /\ temporary' = FALSE /\ result' = Problem("none")
  /\ UNCHANGED <<inputVars, contextVars, openVars, items, exitCode, hangs>>

SelfTestPasses ==
  /\ Goto("tested", "probing")
  /\ temporary' = FALSE
  /\ UNCHANGED <<inputVars, contextVars, openVars, items, answerVars, hangs>>

(* The probes that are not required are printed, whether they are there or  *)
(* not.                                                                     *)
ReportProbes ==
  /\ Emit("probing", result)
  /\ UNCHANGED <<inputVars, contextVars, openVars, items, outsideVars>>

-----------------------------------------------------------------------------
(* The deferred close of the files the command has, and main again: the      *)
(* signals go back to their default before the exit.                        *)
StopCatching ==
  /\ Goto("written", "uncaught")
  /\ descriptor' = [k \in Places |->
                      IF k <= Len(items) /\ items[k] = "file" THEN "nothing" ELSE descriptor[k]]
  /\ UNCHANGED <<inputVars, contextVars, goroutine, items, answerVars, outsideVars>>

(* The goroutines and descriptors that are left go with the process. *)
ReleaseAll ==
  /\ goroutine' = [k \in Places |-> "none"]
  /\ descriptor' = [k \in Places |-> "nothing"]

Exit ==
  /\ Goto("uncaught", "exited")
  /\ ReleaseAll
  /\ UNCHANGED <<inputVars, contextVars, items, answerVars, outsideVars>>

Catching == command \in Inspections /\ step \notin {"absent", "main", "uncaught"} \cup Gone

(* SIGINT or SIGTERM: caught, it ends the context; a second one, and one    *)
(* that comes when the answer is written, changes nothing. Not caught, it   *)
(* ends the process.                                                        *)
SignalCaught ==
  /\ Catching /\ step # "written"
  /\ interrupted' = TRUE
  /\ endedBy' = IF endedBy = "no" THEN "E_CANCELLED" ELSE endedBy
  /\ UNCHANGED <<inputVars, step, openVars, items, answerVars, outsideVars>>

SignalKills ==
  /\ ~Catching /\ step \notin {"absent"} \cup Gone
  /\ step' = "killed"
  /\ ReleaseAll
  /\ UNCHANGED <<inputVars, contextVars, items, answerVars, outsideVars>>

DeadlinePasses ==
  /\ command \in Inspections /\ endedBy = "no"
  /\ step \notin {"absent", "main", "reading", "written", "uncaught"} \cup Gone
  /\ endedBy' = "E_TIMEOUT"
  /\ UNCHANGED <<inputVars, step, interrupted, openVars, items, answerVars, outsideVars>>

-----------------------------------------------------------------------------
WalkStep ==
  \/ \E code \in {"E_TIMEOUT", "E_CANCELLED", "E_FILE_ACCESS", "E_PATH_CHANGED"} : WalkFails(code)
  \/ WalkCollects

Helper == RefuseHelper \/ RunHelper \/ BeginDoctor \/ MakeTemporary \/ SelfTestFails
            \/ SelfTestPasses \/ ReportProbes

(* What the command's own goroutine does. *)
CommandStep ==
  \/ StartCommand \/ RefuseArguments \/ BeginInspection
  \/ StatRejects \/ StartOpen \/ ReceiveOpened \/ AbandonOpen
  \/ WalkStep \/ ExecutableUnknown \/ StartWorker
  \/ DeliverInspection \/ CollectionReturns \/ DeliverCollection
  \/ Helper \/ StopCatching \/ Exit

GoroutineStep(k) ==
  (\E found \in Handing : OpenReturns(k, found)) \/ OpenerGivesUp(k)

CommandNext ==
  \/ CommandStep
  \/ \E k \in Places : GoroutineStep(k)
  \/ SignalCaught \/ SignalKills \/ DeadlinePasses

(* The command runs whenever it can, what it waits for comes (a worker ends  *)
(* by its own deadline and is killed at that of the command), and time      *)
(* passes. An open that does not return has no fairness to rely on.         *)
CommandFairness ==
  WF_commandVars(CommandStep) /\ WF_commandVars(DeadlinePasses)

-----------------------------------------------------------------------------
CommandSteps ==
  {"absent", "main", "reading", "stat", "opening", "resolving", "locating", "supervised", "returned",
   "dispatched", "selftest", "tested", "probing", "written", "uncaught"} \cup Gone

CommandTypeOK ==
  /\ argv \in Seq(STRING) /\ command \in Commands \cup {"none"}
  /\ interrupted \in BOOLEAN /\ temporary \in BOOLEAN
  /\ places \in 0..MaxPaths /\ Len(items) <= places
  /\ step \in CommandSteps
  /\ endedBy \in {"no", "E_CANCELLED", "E_TIMEOUT"}
  /\ goroutine \in [Places -> {"none", "opening", "done"} \cup Handing]
  /\ descriptor \in [Places -> {"nothing", "checked"}]
  /\ \A k \in 1..Len(items) : items[k] \in Handing
  /\ exitCode \in 0..3 /\ hangs \in HangingCalls

(* What a command line refuses and how, from its words.                     *)
ArgumentsAgree ==
  step = "reading" => ArgumentsReadRight(command, ArgumentsOf(argv))

(* The answer names what happened: cancelled means that a signal came, and a *)
(* batch or an inventory whose context ended before the answer is never a   *)
(* success, whatever its worker said.                                       *)
CauseNamed ==
  step \in {"written", "uncaught", "exited"} =>
    /\ result.code = "E_CANCELLED" => interrupted
    /\ command \in {"batch", "inventory"} /\ endedBy # "no" => exitCode # 0
    /\ exitCode = 3 => command = "inspect"
    /\ exitCode = 2 <=> result.status = "refused"
    /\ exitCode = 0 <=> result.status \in {"ok", "partial", "unsupported"}

(* Before the worker starts every place has a file or a reason of its own,  *)
(* which the end of the context is not; a command that goes on held its      *)
(* context at each open.                                                    *)
PlacesAnswered ==
  /\ step \in {"locating", "supervised", "returned"} /\ command # "inventory" =>
       /\ Len(items) = places
       /\ command = "inspect" => items = <<"file">>
  /\ step \in {"stat", "opening"} => Len(items) < places

(* No directory of the self-test is left by a run that exits by itself.     *)
NothingLeft == step \in {"written", "uncaught", "exited"} => ~temporary

(* The exit code, the error code and the form of the answer tell a script    *)
(* what happened: main.go, inspect_command.go, collection_command.go and     *)
(* the exit codes of the usage text (main.go:93).                           *)
ExitTellsOutcome ==
  step # "absent" => CommandTypeOK /\ ArgumentsAgree /\ CauseNamed /\ PlacesAnswered /\ NothingLeft

(* A place as a request for an open file. *)
Request(k) ==
  CASE k <= Len(items) -> IF items[k] = "file" THEN "file" ELSE "error"
    [] k = Current /\ step \in {"stat", "opening"} -> "asked"
    [] k = Current /\ k <= places /\ step \notin {"stat", "opening"} /\ result.code # "none" ->
         IF result.code \in {"E_TIMEOUT", "E_CANCELLED"} THEN "context" ELSE "error"
    [] OTHER -> "idle"

CommandPromise ==
  INSTANCE OpenContract
    WITH Opens <- Places, LateErrors <- TRUE, request <- [k \in Places |-> Request(k)],
         ended <- [k \in Places |-> endedBy # "no"], held <- descriptor

(* The opens of a command keep the contract of an open: no file is taken     *)
(* once the context has ended, the end of the context is the answer only    *)
(* then, a file that is taken stays open to the end of the command, and no   *)
(* other does. openCLIFile.                                                 *)
CommandKeepsContract == CommandPromise!ContractSafety

(* An inspection exits, whatever an open does to it: its deadline ends it.  *)
(* Not so when the system keeps it in os.Stat or in a call of the walk.     *)
CommandReturns ==
  command \in Inspections ~> (step \in Gone \/ hangs \in {"stat", "walk"})
=============================================================================
