-------------------------- MODULE InspectionStore --------------------------
(***************************************************************************)
(* The macOS app: InspectionStore starts an inspection for each selection, *)
(* change of options or press of the button, replaces the one before it,   *)
(* and shows what the last one found. InspectorClient runs the engine in a *)
(* process that can be cancelled from any thread at any time.              *)
(*                                                                         *)
(* An inspection is known by its revision, a number here. The main actor   *)
(* executes one thing at a time; the tasks leave it for the engine and     *)
(* come back to it with what they have.                                    *)
(***************************************************************************)
EXTENDS Naturals

CONSTANTS Urls, Options,   \* files, and combinations of depth and digest
          DefaultOptions,  \* what the app starts with
          MaxInspections   \* bound: inspections of a session

NoURL == "none"

ASSUME StoreAssumption ==
  NoURL \notin Urls /\ DefaultOptions \in Options /\ MaxInspections \in Nat \ {0}

VARIABLES selectedURL, options,
          changed,     \* the view has yet to react to a change of the options
          revision,    \* the current inspection, 0 before the first
          shown,       \* the result and its settings, or the failure message
          isInspecting,
          main,        \* what the main actor is doing
          task,        \* how far each inspection has come
          settings,    \* what each was started for
          taskCancelled,
          handle,      \* CancellableProcess: has it been cancelled
          engine,      \* the process of each
          signalled,   \* the engines told to terminate
          outcome,     \* what a task brings back to the main actor
          lateHandlerRuns  \* Foundation calls a termination handler that is
                           \* set when the process has ended already

uiVars == <<selectedURL, options, changed>>
storeVars == <<revision, shown, isInspecting>>
taskVars == <<task, settings, taskCancelled, outcome>>
engineVars == <<handle, engine, signalled, lateHandlerRuns>>
vars == <<uiVars, storeVars, main, taskVars, engineVars>>

Revisions == 1..MaxInspections
Settings == Urls \X Options
Nothing == [kind |-> "nothing", of |-> <<>>]
Result(s) == [kind |-> "result", of |-> s]
Failure == [kind |-> "failure", of |-> <<>>]
Outcomes == {Nothing, Failure} \cup {Result(s) : s \in Settings}

Phases == {"none", "created", "client", "registered", "launched", "awaiting", "resumed",
           "returning", "ended"}
HandlerInstalled == {"registered", "launched", "awaiting", "resumed"}

Init ==
  /\ selectedURL = NoURL /\ options = DefaultOptions /\ changed = FALSE
  /\ revision = 0 /\ shown = Nothing /\ isInspecting = FALSE
  /\ main = "idle"
  /\ task = [r \in Revisions |-> "none"]
  /\ settings = [r \in Revisions |-> <<>>]
  /\ taskCancelled = {} /\ handle = {} /\ signalled = {}
  /\ engine = [r \in Revisions |-> "none"]
  /\ outcome = [r \in Revisions |-> Nothing]
  /\ lateHandlerRuns \in BOOLEAN

-----------------------------------------------------------------------------
(* inspect(), on the main actor, replaces an inspection: cancel sets the     *)
(* flag of the task and then runs its cancellation handler.                 *)
Trigger ==
  /\ revision < MaxInspections
  /\ main' = IF revision = 0 THEN "starting" ELSE "cancelling"
  /\ UNCHANGED <<storeVars, taskVars, engineVars>>

Select(url) ==
  /\ main = "idle" /\ Trigger
  /\ selectedURL' = url
  /\ UNCHANGED <<options, changed>>

(* The button and the retry of a failure are there when nothing is running. *)
Retry ==
  /\ main = "idle" /\ selectedURL # NoURL /\ ~isInspecting /\ Trigger
  /\ UNCHANGED uiVars

(* The picker and the toggle write the option; the view reacts to that in a *)
(* later update.                                                            *)
ChangeOptions(o) ==
  /\ main = "idle" /\ selectedURL # NoURL /\ o # options
  /\ revision < MaxInspections
  /\ options' = o /\ changed' = TRUE
  /\ UNCHANGED <<selectedURL, storeVars, main, taskVars, engineVars>>

OptionsChanged ==
  /\ main = "idle" /\ changed /\ Trigger
  /\ changed' = FALSE
  /\ UNCHANGED <<selectedURL, options>>

CancelTask ==
  /\ main = "cancelling"
  /\ taskCancelled' = taskCancelled \cup {revision}
  /\ main' = IF task[revision] \in HandlerInstalled THEN "terminating" ELSE "starting"
  /\ UNCHANGED <<uiVars, storeVars, task, settings, outcome, engineVars>>

(* Mutant of CancelHandle: only an engine that runs is cancelled. *)
CancelRunning(r) ==
  /\ handle' = IF engine[r] = "running" THEN handle \cup {r} ELSE handle
  /\ signalled' = IF engine[r] = "running" THEN signalled \cup {r} ELSE signalled

(* CancellableProcess.cancel, under its lock. *)
CancelHandle(r) ==
  /\ handle' = handle \cup {r}
  /\ signalled' = IF engine[r] = "running" THEN signalled \cup {r} ELSE signalled

TerminateEngine ==
  /\ main = "terminating"
  /\ CancelHandle(revision)
  /\ main' = "starting"
  /\ UNCHANGED <<uiVars, storeVars, taskVars, engine, lateHandlerRuns>>

(* The rest of inspect: what was shown is gone, and the new task is created *)
(* for what is selected now.                                                *)
StartTask ==
  /\ main = "starting"
  /\ main' = "idle"
  /\ revision' = revision + 1
  /\ isInspecting' = TRUE /\ shown' = Nothing
  /\ task' = [task EXCEPT ![revision + 1] = "created"]
  /\ settings' = [settings EXCEPT ![revision + 1] = <<selectedURL, options>>]
  /\ UNCHANGED <<uiVars, taskCancelled, outcome, engineVars>>

-----------------------------------------------------------------------------
(* The task: it begins on the main actor and leaves it in client.inspect.   *)
Advance(r, from, to) == task[r] = from /\ task' = [task EXCEPT ![r] = to]

(* Back towards the main actor, with an outcome. *)
ReturnWith(r, from, o) ==
  /\ Advance(r, from, "returning")
  /\ outcome' = [outcome EXCEPT ![r] = o]

EnterClient(r) ==
  /\ main = "idle"
  /\ Advance(r, "created", "client")
  /\ UNCHANGED <<uiVars, storeVars, main, settings, taskCancelled, outcome, engineVars>>

ExecutableMissing(r) ==
  /\ ReturnWith(r, "client", Failure)
  /\ UNCHANGED <<uiVars, storeVars, main, settings, taskCancelled, engineVars>>

(* withTaskCancellationHandler: in a task that is cancelled already the     *)
(* handler runs at once.                                                    *)
RegisterHandler(r) ==
  /\ Advance(r, "client", "registered")
  /\ IF r \in taskCancelled THEN CancelHandle(r) ELSE UNCHANGED <<handle, signalled>>
  /\ UNCHANGED <<uiVars, storeVars, main, settings, taskCancelled, outcome, engine,
                 lateHandlerRuns>>

(* Mutant of Launch: the handle is not asked. *)
LaunchAnyway(r) ==
  /\ Advance(r, "registered", "launched")
  /\ engine' = [engine EXCEPT ![r] = "running"]
  /\ UNCHANGED <<uiVars, storeVars, main, settings, taskCancelled, outcome, handle, signalled,
                 lateHandlerRuns>>

(* CancellableProcess.launch, under the same lock. *)
Launch(r) ==
  /\ r \notin handle
  /\ Advance(r, "registered", "launched")
  /\ engine' = [engine EXCEPT ![r] = "running"]
  /\ UNCHANGED <<uiVars, storeVars, main, settings, taskCancelled, outcome, handle, signalled,
                 lateHandlerRuns>>

(* A cancelled handle refuses, and the process may fail to start. *)
LaunchFails(r) ==
  /\ ReturnWith(r, "registered", Failure)
  /\ UNCHANGED <<uiVars, storeVars, main, settings, taskCancelled, engineVars>>

(* The engine ends: by itself, at its deadline, or because it was told to.  *)
EngineEnds(r) ==
  /\ engine[r] = "running"
  /\ engine' = [engine EXCEPT ![r] = "ended"]
  /\ task' = IF task[r] = "awaiting" THEN [task EXCEPT ![r] = "resumed"] ELSE task
  /\ UNCHANGED <<uiVars, storeVars, main, settings, taskCancelled, outcome, handle, signalled,
                 lateHandlerRuns>>

(* The termination handler is set after the launch; by then the engine may  *)
(* have ended.                                                              *)
AwaitEngine(r) ==
  /\ Advance(r, "launched",
       IF engine[r] = "ended" /\ lateHandlerRuns THEN "resumed" ELSE "awaiting")
  /\ UNCHANGED <<uiVars, storeVars, main, settings, taskCancelled, outcome, engineVars>>

(* Both pipes are at their end with the engine. Then the task looks at its   *)
(* cancellation, and decodes what the engine wrote.                         *)
ReadOutput(r, decoded) ==
  /\ ReturnWith(r, "resumed",
       IF r \notin taskCancelled /\ decoded THEN Result(settings[r]) ELSE Failure)
  /\ UNCHANGED <<uiVars, storeVars, main, settings, taskCancelled, engineVars>>

(* Mutant of Stale: every outcome is shown. *)
NeverStale(r) == FALSE

(* Back on the main actor: what a replaced task brings is dropped. *)
Stale(r) == r # revision \/ r \in taskCancelled

(* Mutant of Deliver: a failure returns before the spinner is stopped. *)
DeliverAndReturn(r) ==
  /\ main = "idle" /\ ~Stale(r)
  /\ Advance(r, "returning", "ended")
  /\ shown' = outcome[r] /\ isInspecting' = (outcome[r] = Failure)
  /\ UNCHANGED <<uiVars, revision, main, settings, taskCancelled, outcome, engineVars>>

Deliver(r) ==
  /\ main = "idle" /\ ~Stale(r)
  /\ Advance(r, "returning", "ended")
  /\ shown' = outcome[r] /\ isInspecting' = FALSE
  /\ UNCHANGED <<uiVars, revision, main, settings, taskCancelled, outcome, engineVars>>

DropStale(r) ==
  /\ main = "idle" /\ Stale(r)
  /\ Advance(r, "returning", "ended")
  /\ UNCHANGED <<uiVars, storeVars, main, settings, taskCancelled, outcome, engineVars>>

TaskStep(r) ==
  \/ EnterClient(r) \/ ExecutableMissing(r) \/ RegisterHandler(r)
  \/ Launch(r) \/ LaunchFails(r) \/ AwaitEngine(r)
  \/ \E decoded \in BOOLEAN : ReadOutput(r, decoded)
  \/ Deliver(r) \/ DropStale(r)

MainStep == CancelTask \/ TerminateEngine \/ StartTask \/ OptionsChanged

User ==
  \/ \E url \in Urls : Select(url)
  \/ Retry
  \/ \E o \in Options : ChangeOptions(o)

(* The session ends where the user stops; a task whose continuation is not  *)
(* resumed never does.                                                      *)
AtRest ==
  /\ main = "idle" /\ (changed => revision = MaxInspections)
  /\ \A r \in Revisions :
       \/ task[r] \in {"none", "ended"}
       \/ task[r] = "awaiting" /\ engine[r] = "ended"

Next ==
  \/ User \/ MainStep
  \/ \E r \in Revisions : TaskStep(r) \/ EngineEnds(r)
  \/ AtRest /\ UNCHANGED vars

Spec == Init /\ [][Next]_vars

(* The main actor and the tasks run; an engine ends by its own deadline,    *)
(* which the client passes to it.                                           *)
FairSpec ==
  /\ Spec /\ WF_vars(MainStep)
  /\ \A r \in Revisions : WF_vars(TaskStep(r)) /\ WF_vars(EngineEnds(r))

-----------------------------------------------------------------------------
TypeOK ==
  /\ selectedURL \in Urls \cup {NoURL} /\ options \in Options /\ changed \in BOOLEAN
  /\ revision \in 0..MaxInspections /\ isInspecting \in BOOLEAN
  /\ shown \in Outcomes
  /\ main \in {"idle", "cancelling", "terminating", "starting"}
  /\ task \in [Revisions -> Phases]
  /\ settings \in [Revisions -> Settings \cup {<<>>}]
  /\ outcome \in [Revisions -> Outcomes]
  /\ taskCancelled \subseteq Revisions /\ handle \subseteq Revisions
  /\ engine \in [Revisions -> {"none", "running", "ended"}]
  /\ signalled \subseteq Revisions /\ lateHandlerRuns \in BOOLEAN

(* What is known of the main actor while it replaces an inspection. *)
MainFacts ==
  /\ main \in {"cancelling", "terminating"} => revision # 0
  /\ main # "idle" => revision < MaxInspections /\ selectedURL # NoURL
  /\ changed \/ revision # 0 => selectedURL # NoURL
  /\ \A r \in Revisions :
       r \in taskCancelled <=>
         \/ r < revision
         \/ r = revision /\ main \in {"terminating", "starting"}
  /\ main = "terminating" => task[revision] \in HandlerInstalled \cup {"returning"}

(* What is known of each task and its engine. *)
TaskFacts(r) ==
  /\ task[r] # "none" <=> r <= revision
  /\ task[r] \in {"returning", "ended"} => outcome[r] \in {Failure, Result(settings[r])}
  /\ engine[r] = "running" => task[r] \in {"launched", "awaiting"}
  /\ task[r] # "none" => settings[r] \in Settings
  /\ r \in handle => r \in taskCancelled
  /\ r \in handle /\ engine[r] = "running" => r \in signalled

(* A handler that was installed when the task was cancelled, or after, has  *)
(* run, or is what the main actor does next.                                *)
CancellationArrives(r) ==
  r \in taskCancelled /\ task[r] \in HandlerInstalled =>
    r \in handle \/ (main = "terminating" /\ r = revision)

(* The view is busy exactly as long as the current inspection is, and what  *)
(* it shows is that inspection's outcome.                                   *)
ShownFacts ==
  /\ isInspecting <=> revision # 0 /\ task[revision] # "ended"
  /\ shown = IF revision = 0 \/ isInspecting THEN Nothing ELSE outcome[revision]
  /\ revision # 0 /\ main = "idle" =>
       /\ settings[revision][1] = selectedURL
       /\ ~changed => settings[revision][2] = options

IInv ==
  /\ TypeOK /\ MainFacts /\ ShownFacts
  /\ \A r \in Revisions : TaskFacts(r) /\ CancellationArrives(r)

(* A result on the screen is of the file that is selected, at the depth and *)
(* with the digest that are chosen, unless the view has yet to react to a    *)
(* change of these; while an inspection runs nothing is shown.              *)
ShownIsCurrent ==
  main = "idle" =>
    /\ shown.kind = "result" =>
         /\ shown.of[1] = selectedURL
         /\ changed \/ shown.of[2] = options
    /\ isInspecting => shown = Nothing

(* Cancelling or replacing an inspection terminates its engine: an engine   *)
(* that runs for a cancelled task was told to terminate, or is about to be  *)
(* by the main actor.                                                       *)
ReplacedEngineEnds ==
  \A r \in taskCancelled :
    engine[r] = "running" => r \in signalled \/ (main = "terminating" /\ r = revision)

(* If a late termination handler is called, the spinner stops. *)
SpinnerStops == (isInspecting /\ lateHandlerRuns) ~> ~isInspecting
=============================================================================
