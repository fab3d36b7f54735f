---------------------------- MODULE StoreProofs ----------------------------
(* Proofs about InspectionStore: its inductive invariant, and what follows  *)
(* from it for the result on the screen and for replaced engines, for any   *)
(* files, options and number of inspections.                                *)
EXTENDS InspectionStore, TLAPS

(* The invariant holds before anything is chosen. *)
LEMMA InitInvariant == Init => IInv
<1> SUFFICES ASSUME Init PROVE IInv
  OBVIOUS
<1> USE StoreAssumption DEF Init, Revisions
<1>1. TypeOK
  <2>1. Nothing \in Outcomes
    BY DEF Outcomes
  <2>2. /\ task \in [Revisions -> Phases] /\ settings \in [Revisions -> Settings \cup {<<>>}]
        /\ outcome \in [Revisions -> Outcomes]
        /\ engine \in [Revisions -> {"none", "running", "ended"}]
    BY <2>1 DEF Phases
  <2>3. changed \in BOOLEAN /\ isInspecting \in BOOLEAN /\ lateHandlerRuns \in BOOLEAN
    BY Zenon
  <2>4. revision \in 0..MaxInspections /\ options \in Options
    OBVIOUS
  <2> QED
    BY <2>1, <2>2, <2>3, <2>4, Zenon DEF TypeOK
<1>2. MainFacts
  BY DEF MainFacts
<1>3. ShownFacts
  BY DEF ShownFacts
<1>4. \A r \in Revisions : TaskFacts(r) /\ CancellationArrives(r)
  BY DEF TaskFacts, CancellationArrives
<1> QED
  BY <1>1, <1>2, <1>3, <1>4 DEF IInv

(* What the user does, and what the main actor does in turn. *)
LEMMA UserInvariant == IInv /\ (User \/ OptionsChanged) => IInv'
<1> SUFFICES ASSUME IInv, User \/ OptionsChanged PROVE IInv'
  OBVIOUS
<1> USE StoreAssumption
<1> USE DEF IInv, TypeOK, MainFacts, ShownFacts, TaskFacts, CancellationArrives, Revisions,
            uiVars, storeVars, taskVars, engineVars
<1>1. CASE \E url \in Urls : Select(url)
  BY <1>1 DEF Select, Trigger
<1>2. CASE Retry
  BY <1>2 DEF Retry, Trigger
<1>3. CASE \E o \in Options : ChangeOptions(o)
  BY <1>3 DEF ChangeOptions
<1>4. CASE OptionsChanged
  <2> USE <1>4 DEF OptionsChanged, Trigger
  <2>1. selectedURL # NoURL /\ changed' \in BOOLEAN
    BY Zenon
  <2>2. TypeOK' /\ MainFacts'
    BY <2>1
  <2>3. ShownFacts' /\ \A r \in Revisions : TaskFacts(r)' /\ CancellationArrives(r)'
    OBVIOUS
  <2> QED
    BY <2>2, <2>3
<1> QED
  BY <1>1, <1>2, <1>3, <1>4 DEF User

(* Cancelling a task and stopping its engine keep the invariant. *)
LEMMA CancelInvariant == IInv /\ (CancelTask \/ TerminateEngine) => IInv'
<1> SUFFICES ASSUME IInv, CancelTask \/ TerminateEngine PROVE IInv'
  OBVIOUS
<1> USE StoreAssumption
<1> USE DEF IInv, TypeOK, MainFacts, ShownFacts, TaskFacts, CancellationArrives, Revisions,
            uiVars, storeVars, taskVars, engineVars, HandlerInstalled
<1>1. CASE CancelTask
  BY <1>1 DEF CancelTask
<1>2. CASE TerminateEngine
  BY <1>2 DEF TerminateEngine, CancelHandle
<1> QED
  BY <1>1, <1>2

(* So does the start of a task. *)
LEMMA StartInvariant == IInv /\ StartTask => IInv'
<1> SUFFICES ASSUME IInv, StartTask PROVE IInv'
  OBVIOUS
<1> USE StoreAssumption
<1> USE DEF IInv, TypeOK, MainFacts, ShownFacts, TaskFacts, CancellationArrives, Revisions,
            uiVars, storeVars, taskVars, engineVars, StartTask
<1>1. revision + 1 \in Revisions /\ <<selectedURL, options>> \in Settings
  BY DEF Settings
<1>2. TypeOK'
  BY <1>1 DEF Phases, Outcomes
<1>3. MainFacts'
  BY <1>1
<1>4. ShownFacts'
  BY <1>1
<1>5. \A r \in Revisions : TaskFacts(r)' /\ CancellationArrives(r)'
  BY <1>1 DEF HandlerInstalled
<1> QED
  BY <1>2, <1>3, <1>4, <1>5

(* The task away from the main actor. *)
LEMMA ClientInvariant ==
  ASSUME NEW r \in Revisions, IInv,
         EnterClient(r) \/ ExecutableMissing(r) \/ RegisterHandler(r) \/ LaunchFails(r)
  PROVE  IInv'
<1> USE StoreAssumption
<1> USE DEF IInv, TypeOK, MainFacts, ShownFacts, TaskFacts, CancellationArrives, Revisions,
            uiVars, storeVars, taskVars, engineVars, HandlerInstalled, Phases, Advance, ReturnWith,
            Outcomes
<1>1. CASE EnterClient(r)
  BY <1>1 DEF EnterClient
<1>2. CASE ExecutableMissing(r)
  BY <1>2 DEF ExecutableMissing
<1>3. CASE RegisterHandler(r)
  BY <1>3 DEF RegisterHandler, CancelHandle
<1>4. CASE LaunchFails(r)
  BY <1>4 DEF LaunchFails
<1> QED
  BY <1>1, <1>2, <1>3, <1>4

(* So do the launch, the output and the end of an engine. *)
LEMMA EngineInvariant ==
  ASSUME NEW r \in Revisions, IInv,
         Launch(r) \/ EngineEnds(r) \/ AwaitEngine(r) \/ \E d \in BOOLEAN : ReadOutput(r, d)
  PROVE  IInv'
<1> USE StoreAssumption
<1> USE DEF IInv, TypeOK, MainFacts, ShownFacts, TaskFacts, CancellationArrives, Revisions,
            uiVars, storeVars, taskVars, engineVars, HandlerInstalled, Phases, Advance, ReturnWith
<1>1. CASE Launch(r)
  BY <1>1 DEF Launch
<1>2. CASE EngineEnds(r)
  BY <1>2 DEF EngineEnds
<1>3. CASE AwaitEngine(r)
  BY <1>3 DEF AwaitEngine
<1>4. CASE \E d \in BOOLEAN : ReadOutput(r, d)
  BY <1>4 DEF ReadOutput, Outcomes
<1> QED
  BY <1>1, <1>2, <1>3, <1>4

(* So does the return of a task, in time or too late. *)
LEMMA ReturnInvariant ==
  ASSUME NEW r \in Revisions, IInv, Deliver(r) \/ DropStale(r) PROVE IInv'
<1> USE StoreAssumption
<1> USE DEF IInv, TypeOK, MainFacts, ShownFacts, TaskFacts, CancellationArrives, Revisions,
            uiVars, storeVars, taskVars, engineVars, HandlerInstalled, Phases, Advance, Stale
<1>1. CASE Deliver(r)
  <2> USE <1>1 DEF Deliver
  <2>1. r = revision /\ isInspecting
    OBVIOUS
  <2>2. TypeOK' /\ MainFacts'
    BY <2>1
  <2>3. ShownFacts'
    BY <2>1
  <2>4. \A q \in Revisions : TaskFacts(q)' /\ CancellationArrives(q)'
    BY <2>1
  <2> QED
    BY <2>2, <2>3, <2>4
<1>2. CASE DropStale(r)
  BY <1>2 DEF DropStale
<1> QED
  BY <1>1, <1>2

(* So does a step that changes nothing. *)
LEMMA StutterInvariant == IInv /\ UNCHANGED vars => IInv'
BY DEF IInv, TypeOK, MainFacts, ShownFacts, TaskFacts, CancellationArrives, Revisions,
       vars, uiVars, storeVars, taskVars, engineVars

(* The inductive invariant of the app's store, tasks and engines. *)
THEOREM Invariance == Spec => []IInv
<1>1. IInv /\ [Next]_vars => IInv'
  <2> SUFFICES ASSUME IInv, [Next]_vars PROVE IInv'
    OBVIOUS
  <2>1. CASE User
    BY <2>1, UserInvariant
  <2>2. CASE MainStep
    BY <2>2, UserInvariant, CancelInvariant, StartInvariant DEF MainStep
  <2>3. CASE \E r \in Revisions : TaskStep(r) \/ EngineEnds(r)
    BY <2>3, ClientInvariant, EngineInvariant, ReturnInvariant DEF TaskStep
  <2>4. CASE UNCHANGED vars
    BY <2>4, StutterInvariant
  <2> QED
    BY <2>1, <2>2, <2>3, <2>4 DEF Next
<1> QED
  BY InitInvariant, <1>1, PTL DEF Spec

(* No result of a replaced inspection is on the screen: InspectionStore's   *)
(* guard on the revision and the cancellation flag.                         *)
THEOREM ScreenIsCurrent == Spec => []ShownIsCurrent
<1>1. IInv => ShownIsCurrent
  <2> SUFFICES ASSUME IInv, main = "idle" PROVE
        /\ shown.kind = "result" =>
             shown.of[1] = selectedURL /\ (changed \/ shown.of[2] = options)
        /\ isInspecting => shown = Nothing
    BY DEF ShownIsCurrent
  <2>1. isInspecting => shown = Nothing
    BY DEF IInv, ShownFacts
  <2>2. ASSUME shown.kind = "result"
        PROVE  shown.of[1] = selectedURL /\ (changed \/ shown.of[2] = options)
    <3>1. revision # 0 /\ ~isInspecting
      BY <2>2 DEF IInv, ShownFacts, Nothing
    <3>2. revision \in Revisions /\ task[revision] = "ended"
      BY <3>1 DEF IInv, TypeOK, ShownFacts, Revisions
    <3>3. shown = outcome[revision] /\ outcome[revision] \in {Failure, Result(settings[revision])}
      BY <3>1, <3>2 DEF IInv, ShownFacts, TaskFacts
    <3>4. shown.of = settings[revision]
      BY <2>2, <3>3 DEF Failure, Result
    <3> QED
      BY <3>1, <3>4 DEF IInv, ShownFacts
  <2> QED
    BY <2>1, <2>2
<1> QED
  BY Invariance, <1>1, PTL

(* A replaced inspection's engine does not outlive it untold, wherever the  *)
(* cancellation met the launch.                                             *)
THEOREM EnginesAreTold == Spec => []ReplacedEngineEnds
<1>1. IInv => ReplacedEngineEnds
  BY DEF IInv, TypeOK, TaskFacts, CancellationArrives, ReplacedEngineEnds, HandlerInstalled
<1> QED
  BY Invariance, <1>1, PTL
=============================================================================
