-------------------------- MODULE McpServerProofs --------------------------
(***************************************************************************)
(* Proofs about the MCP server for any number of calls, ids, lines, paths  *)
(* and slots: its inductive invariant, IInv of McpServerProps, that it     *)
(* implements CallContract, and the two action properties about which      *)
(* context a cancellation ends and which answer a late result gets.        *)
(***************************************************************************)
EXTENDS McpServerProps, Counting

-----------------------------------------------------------------------------
(* The calls whose entry of f lies in P, whose number moves by one when one *)
(* call takes or gives back a token.                                        *)
At(f, P) == Where(Calls, f, P)

(* CountMoves for the phases: what one call's step does to the number of    *)
(* calls that are admitted, or counted by the wait group.                   *)
LEMMA PhaseCount ==
  ASSUME NEW P, NEW c \in Calls, \A d \in Calls : d # c => phase'[d] = phase[d]
  PROVE  /\ Cardinality(At(phase, P)) \in Nat
         /\ (phase[c] \in P <=> phase'[c] \in P) =>
              Cardinality(At(phase', P)) = Cardinality(At(phase, P))
         /\ phase[c] \notin P /\ phase'[c] \in P =>
              Cardinality(At(phase', P)) = Cardinality(At(phase, P)) + 1
         /\ phase[c] \in P /\ phase'[c] \notin P =>
              /\ Cardinality(At(phase', P)) = Cardinality(At(phase, P)) - 1
              /\ Cardinality(At(phase, P)) > 0
BY McpAssumption, CountMoves, Zenon DEF At

(* CountMoves for the call slots, whose deferred release a call registers. *)
LEMMA HeldCount ==
  ASSUME NEW P, NEW c \in Calls, \A d \in Calls : d # c => held'[d] = held[d]
  PROVE  /\ Cardinality(At(held, P)) \in Nat
         /\ held[c] \notin P /\ held'[c] \in P =>
              Cardinality(At(held', P)) = Cardinality(At(held, P)) + 1
         /\ held[c] \in P /\ held'[c] \notin P =>
              /\ Cardinality(At(held', P)) = Cardinality(At(held, P)) - 1
              /\ Cardinality(At(held, P)) > 0
BY McpAssumption, CountMoves, Zenon DEF At

(* The sets whose sizes the channels and the wait group carry, as counts.   *)
LEMMA CountIsAt ==
  /\ Admitted = At(phase, AdmittedPhases) /\ Admitted' = At(phase', AdmittedPhases)
  /\ Counted = At(phase, CountedPhases) /\ Counted' = At(phase', CountedPhases)
  /\ TypeOK => Holding = At(held, {TRUE})
  /\ TypeOK' => Holding' = At(held', {TRUE})
BY DEF Admitted, Counted, Holding, At, Where, TypeOK, AdmittedPhases, CountedPhases, Phases

(* What SyncAnswer and EarlyAnswer may return for a line of the transport.  *)
LEMMA AnswersInRange ==
  ASSUME NEW l \in LineShape, NEW b \in BOOLEAN
  PROVE  /\ SyncAnswer(l, b) \in SyncAnswers
         /\ EarlyAnswer(l, b) \in EarlyAnswers \cup {"none"}
         /\ EarlyAnswer(l, b) = "notInitialized" => ~b
         /\ Disposition(l) = "admit" => l.id \in Ids
         /\ PathCount(l) \in 1..MaxPaths
BY DispatchAssumption
   DEF LineShape, Frames, Methods, Metas, Tools, SyncAnswer, HandleSyncAnswer, InitializeAnswer,
       EarlyAnswer, SyncAnswers, EarlyAnswers, ProtocolError, IsModern, Disposition, PathCount

(* The invariant holds of a server that has read nothing.                   *)
LEMMA InitIInv == Init => IInv
<1> SUFFICES ASSUME Init PROVE IInv
  OBVIOUS
<1>1. TypeOK
  BY McpAssumption, DispatchAssumption DEF Init, TypeOK, Phases, CtxStates
<1>2. Accounting
  <2>1. Admitted = {} /\ Holding = {} /\ Counted = {}
    BY DEF Init, Admitted, Holding, Counted, AdmittedPhases, CountedPhases
  <2> QED BY <2>1, FS_EmptySet, McpAssumption DEF Init, Accounting
<1>3. RegistryExact
  BY DEF Init, RegistryExact, RegisteredPhases
<1>4. DescriptorsUnderSlot /\ OneAnswer /\ AnswerNamesCause /\ InitializeIsOrdered
  BY DispatchAssumption
     DEF Init, DescriptorsUnderSlot, OneAnswer, AnswerNamesCause, InitializeIsOrdered
<1>5. (\A c \in Calls : CallFacts(c)) /\ ReaderFacts
  BY DEF Init, CallFacts, ReaderFacts, HoldingPhases
<1> QED BY <1>1, <1>2, <1>3, <1>4, <1>5 DEF IInv

-----------------------------------------------------------------------------
(* A step of a call between two phases in which it is admitted and          *)
(* registered leaves every count and the registry alone.                    *)
LEMMA InFlightStep ==
  ASSUME IInv, TypeOK', NEW c \in Calls, NEW p \in AdmittedPhases,
         phase[c] \in AdmittedPhases, phase' = [phase EXCEPT ![c] = p],
         UNCHANGED <<admissionSlots, callSlots, held, wg, cancels, line>>
  PROVE  Accounting' /\ RegistryExact'
<1>1. p \in Phases /\ p \in CountedPhases /\ phase[c] \in CountedPhases
      /\ p \in RegisteredPhases /\ phase[c] \in RegisteredPhases
  BY DEF AdmittedPhases, CountedPhases, RegisteredPhases
<1>2. phase \in [Calls -> Phases] /\ phase'[c] = p
      /\ \A d \in Calls : d # c => phase'[d] = phase[d]
  BY DEF IInv, TypeOK
<1>3. Cardinality(Admitted') = Cardinality(Admitted)
  <2>1. Cardinality(At(phase', AdmittedPhases)) = Cardinality(At(phase, AdmittedPhases))
    BY <1>1, <1>2, PhaseCount
  <2> QED BY <2>1, CountIsAt
<1>4. Cardinality(Counted') = Cardinality(Counted)
  <2>1. Cardinality(At(phase', CountedPhases)) = Cardinality(At(phase, CountedPhases))
    BY <1>1, <1>2, PhaseCount
  <2> QED BY <2>1, CountIsAt
<1>5. Holding' = Holding
  BY DEF Holding
<1>6. Accounting'
  BY <1>3, <1>4, <1>5 DEF IInv, Accounting
<1>7. RegistryExact'
  BY <1>1, <1>2 DEF IInv, RegistryExact
<1> QED BY <1>6, <1>7

(* What handleToolCall settles before the queue keeps the invariant; a      *)
(* legacy call read after initialize cannot be told otherwise.              *)
LEMMA StartCallKeeps ==
  ASSUME IInv, NEW c \in Calls, StartCall(c)
  PROVE  IInv'
<1> USE DEF callEnv, readerVars, slotVars
<1>1. line[c] \in LineShape /\ EarlyAnswer(line[c], initialized) \in EarlyAnswers \cup {"none"}
      /\ (EarlyAnswer(line[c], initialized) = "notInitialized" => ~initialized)
  BY AnswersInRange, McpAssumption DEF IInv, TypeOK, CallFacts, StartCall
<1>2. TypeOK'
  BY <1>1, McpAssumption DEF IInv, TypeOK, StartCall, Reply, Replies, Phases
<1>3. Accounting' /\ RegistryExact'
  <2>1. PICK p \in {"queued", "replying"} : phase' = [phase EXCEPT ![c] = p]
    BY DEF IInv, TypeOK, StartCall, Reply
  <2> QED BY <1>2, <2>1, InFlightStep DEF StartCall, AdmittedPhases, Phases
<1>4. DescriptorsUnderSlot'
  BY <1>1, DispatchAssumption DEF IInv, TypeOK, StartCall, Reply, DescriptorsUnderSlot, CallFacts, HoldingPhases
<1>5. OneAnswer'
  BY <1>1, DispatchAssumption DEF IInv, TypeOK, StartCall, Reply, OneAnswer, EarlyAnswers, ContextFailure, CallFacts, HoldingPhases
<1>6. AnswerNamesCause'
  BY <1>1, DispatchAssumption DEF IInv, TypeOK, StartCall, Reply, AnswerNamesCause, EarlyAnswers, ContextFailure, Ended, CallFacts, CtxStates
<1>7. InitializeIsOrdered'
  BY <1>1, DispatchAssumption DEF IInv, TypeOK, StartCall, Reply, InitializeIsOrdered, CallFacts, ContextFailure
<1>8. (\A d \in Calls : CallFacts(d))'
  BY <1>1, DispatchAssumption DEF IInv, TypeOK, StartCall, Reply, CallFacts, HoldingPhases, PathCount, DescriptorsUnderSlot
<1>9. ReaderFacts'
  BY DEF IInv, TypeOK, StartCall, Reply, ReaderFacts, Ended
<1> QED BY <1>2, <1>3, <1>4, <1>5, <1>6, <1>7, <1>8, <1>9 DEF IInv

(* A call that leaves the queue for its context holds nothing but its       *)
(* admission token, and names what ended the context.                       *)
LEMMA AbandonQueueKeeps ==
  ASSUME IInv, NEW c \in Calls, AbandonQueue(c)
  PROVE  IInv'
<1> USE DEF callEnv, readerVars, slotVars
<1>2. TypeOK'
  BY McpAssumption DEF IInv, TypeOK, AbandonQueue, Reply, Replies, ToolReplies, ContextFailures, ContextFailure, Phases
<1>3. Accounting' /\ RegistryExact'
  <2>1. PICK p \in {"replying"} : phase' = [phase EXCEPT ![c] = p]
    BY DEF IInv, TypeOK, AbandonQueue, Reply
  <2> QED BY <1>2, <2>1, InFlightStep DEF AbandonQueue, AdmittedPhases, Phases
<1>4. DescriptorsUnderSlot'
  BY DispatchAssumption DEF IInv, TypeOK, AbandonQueue, Reply, DescriptorsUnderSlot, CallFacts, HoldingPhases
<1>5. OneAnswer'
  BY DispatchAssumption DEF IInv, TypeOK, AbandonQueue, Reply, OneAnswer, EarlyAnswers, ContextFailure, CallFacts, HoldingPhases
<1>6. AnswerNamesCause'
  BY DispatchAssumption DEF IInv, TypeOK, AbandonQueue, Reply, AnswerNamesCause, EarlyAnswers, ContextFailure, Ended, CallFacts, CtxStates
<1>7. InitializeIsOrdered'
  BY DispatchAssumption DEF IInv, TypeOK, AbandonQueue, Reply, InitializeIsOrdered, CallFacts, ContextFailure
<1>8. (\A d \in Calls : CallFacts(d))'
  BY DispatchAssumption DEF IInv, TypeOK, AbandonQueue, Reply, CallFacts, HoldingPhases, PathCount, DescriptorsUnderSlot
<1>9. ReaderFacts'
  BY DEF IInv, TypeOK, AbandonQueue, Reply, ReaderFacts, Ended
<1> QED BY <1>2, <1>3, <1>4, <1>5, <1>6, <1>7, <1>8, <1>9 DEF IInv

(* A path opened, or refused: at most one descriptor per path asked for.    *)
LEMMA OpenPathKeeps ==
  ASSUME IInv, NEW c \in Calls, OpenPath(c)
  PROVE  IInv'
<1> USE DEF callEnv, readerVars, slotVars
<1>1. line[c] \in LineShape /\ PathCount(line[c]) \in 1..MaxPaths
  BY AnswersInRange, McpAssumption DEF IInv, TypeOK, CallFacts, OpenPath
<1>2. TypeOK'
  BY <1>1, McpAssumption DEF IInv, TypeOK, OpenPath, Reply, Replies, ToolReplies, ContextFailures, ContextFailure, Phases
<1>3. Accounting' /\ RegistryExact'
  <2>1. PICK p \in {"opening", "replying"} : phase' = [phase EXCEPT ![c] = p]
    BY DEF IInv, TypeOK, OpenPath, Reply
  <2> QED BY <1>2, <2>1, InFlightStep DEF OpenPath, AdmittedPhases, Phases
<1>4. DescriptorsUnderSlot'
  BY <1>1, DispatchAssumption DEF IInv, TypeOK, OpenPath, Reply, DescriptorsUnderSlot, CallFacts, HoldingPhases
<1>5. OneAnswer'
  BY <1>1, DispatchAssumption DEF IInv, TypeOK, OpenPath, Reply, OneAnswer, EarlyAnswers, ContextFailure, CallFacts, HoldingPhases
<1>6. AnswerNamesCause'
  BY <1>1, DispatchAssumption DEF IInv, TypeOK, OpenPath, Reply, AnswerNamesCause, EarlyAnswers, ContextFailure, Ended, CallFacts, CtxStates
<1>7. InitializeIsOrdered'
  BY <1>1, DispatchAssumption DEF IInv, TypeOK, OpenPath, Reply, InitializeIsOrdered, CallFacts, ContextFailure
<1>8. (\A d \in Calls : CallFacts(d))'
  BY <1>1, DispatchAssumption DEF IInv, TypeOK, OpenPath, Reply, CallFacts, HoldingPhases, PathCount, DescriptorsUnderSlot
<1>9. ReaderFacts'
  BY DEF IInv, TypeOK, OpenPath, Reply, ReaderFacts, Ended
<1> QED BY <1>2, <1>3, <1>4, <1>5, <1>6, <1>7, <1>8, <1>9 DEF IInv

(* A call whose context ends between two opens keeps its descriptors for    *)
(* the deferred closes.                                                     *)
LEMMA AbandonOpenKeeps ==
  ASSUME IInv, NEW c \in Calls, AbandonOpen(c)
  PROVE  IInv'
<1> USE DEF callEnv, readerVars, slotVars
<1>2. TypeOK'
  BY McpAssumption DEF IInv, TypeOK, AbandonOpen, Reply, Replies, ToolReplies, ContextFailures, ContextFailure, Phases
<1>3. Accounting' /\ RegistryExact'
  <2>1. PICK p \in {"replying"} : phase' = [phase EXCEPT ![c] = p]
    BY DEF IInv, TypeOK, AbandonOpen, Reply
  <2> QED BY <1>2, <2>1, InFlightStep DEF AbandonOpen, AdmittedPhases, Phases
<1>4. DescriptorsUnderSlot'
  BY DispatchAssumption DEF IInv, TypeOK, AbandonOpen, Reply, DescriptorsUnderSlot, CallFacts, HoldingPhases
<1>5. OneAnswer'
  BY DispatchAssumption DEF IInv, TypeOK, AbandonOpen, Reply, OneAnswer, EarlyAnswers, ContextFailure, CallFacts, HoldingPhases
<1>6. AnswerNamesCause'
  BY DispatchAssumption DEF IInv, TypeOK, AbandonOpen, Reply, AnswerNamesCause, EarlyAnswers, ContextFailure, Ended, CallFacts, CtxStates
<1>7. InitializeIsOrdered'
  BY DispatchAssumption DEF IInv, TypeOK, AbandonOpen, Reply, InitializeIsOrdered, CallFacts, ContextFailure
<1>8. (\A d \in Calls : CallFacts(d))'
  BY DispatchAssumption DEF IInv, TypeOK, AbandonOpen, Reply, CallFacts, HoldingPhases, PathCount, DescriptorsUnderSlot
<1>9. ReaderFacts'
  BY DEF IInv, TypeOK, AbandonOpen, Reply, ReaderFacts, Ended
<1> QED BY <1>2, <1>3, <1>4, <1>5, <1>6, <1>7, <1>8, <1>9 DEF IInv

(* The inventory opens at most MaxPaths files, always under its call slot.  *)
LEMMA CollectFileKeeps ==
  ASSUME IInv, NEW c \in Calls, CollectFile(c)
  PROVE  IInv'
<1> USE DEF callEnv, readerVars, slotVars
<1>2. TypeOK'
  BY McpAssumption DEF IInv, TypeOK, CollectFile, Reply, Replies, ToolReplies, ContextFailures, ContextFailure, Phases
<1>3. Accounting' /\ RegistryExact'
  <2>1. PICK p \in {"collecting"} : phase' = [phase EXCEPT ![c] = p]
    BY DEF IInv, TypeOK, CollectFile, Reply
  <2> QED BY <1>2, <2>1, InFlightStep DEF CollectFile, AdmittedPhases, Phases
<1>4. DescriptorsUnderSlot'
  BY DispatchAssumption DEF IInv, TypeOK, CollectFile, Reply, DescriptorsUnderSlot, CallFacts, HoldingPhases
<1>5. OneAnswer'
  BY DispatchAssumption DEF IInv, TypeOK, CollectFile, Reply, OneAnswer, EarlyAnswers, ContextFailure, CallFacts, HoldingPhases
<1>6. AnswerNamesCause'
  BY DispatchAssumption DEF IInv, TypeOK, CollectFile, Reply, AnswerNamesCause, EarlyAnswers, ContextFailure, Ended, CallFacts, CtxStates
<1>7. InitializeIsOrdered'
  BY DispatchAssumption DEF IInv, TypeOK, CollectFile, Reply, InitializeIsOrdered, CallFacts, ContextFailure
<1>8. (\A d \in Calls : CallFacts(d))'
  BY DispatchAssumption DEF IInv, TypeOK, CollectFile, Reply, CallFacts, HoldingPhases, PathCount, DescriptorsUnderSlot
<1>9. ReaderFacts'
  BY DEF IInv, TypeOK, CollectFile, Reply, ReaderFacts, Ended
<1> QED BY <1>2, <1>3, <1>4, <1>5, <1>6, <1>7, <1>8, <1>9 DEF IInv

(* The walk hands its files over without touching any count.                *)
LEMMA CollectEndsKeeps ==
  ASSUME IInv, NEW c \in Calls, CollectEnds(c)
  PROVE  IInv'
<1> USE DEF callEnv, readerVars, slotVars
<1>2. TypeOK'
  BY McpAssumption DEF IInv, TypeOK, CollectEnds, Reply, Replies, ToolReplies, ContextFailures, ContextFailure, Phases
<1>3. Accounting' /\ RegistryExact'
  <2>1. PICK p \in {"working"} : phase' = [phase EXCEPT ![c] = p]
    BY DEF IInv, TypeOK, CollectEnds, Reply
  <2> QED BY <1>2, <2>1, InFlightStep DEF CollectEnds, AdmittedPhases, Phases
<1>4. DescriptorsUnderSlot'
  BY DispatchAssumption DEF IInv, TypeOK, CollectEnds, Reply, DescriptorsUnderSlot, CallFacts, HoldingPhases
<1>5. OneAnswer'
  BY DispatchAssumption DEF IInv, TypeOK, CollectEnds, Reply, OneAnswer, EarlyAnswers, ContextFailure, CallFacts, HoldingPhases
<1>6. AnswerNamesCause'
  BY DispatchAssumption DEF IInv, TypeOK, CollectEnds, Reply, AnswerNamesCause, EarlyAnswers, ContextFailure, Ended, CallFacts, CtxStates
<1>7. InitializeIsOrdered'
  BY DispatchAssumption DEF IInv, TypeOK, CollectEnds, Reply, InitializeIsOrdered, CallFacts, ContextFailure
<1>8. (\A d \in Calls : CallFacts(d))'
  BY DispatchAssumption DEF IInv, TypeOK, CollectEnds, Reply, CallFacts, HoldingPhases, PathCount, DescriptorsUnderSlot
<1>9. ReaderFacts'
  BY DEF IInv, TypeOK, CollectEnds, Reply, ReaderFacts, Ended
<1> QED BY <1>2, <1>3, <1>4, <1>5, <1>6, <1>7, <1>8, <1>9 DEF IInv

(* A failed walk closes its files itself and answers with its cause.        *)
LEMMA CollectFailsKeeps ==
  ASSUME IInv, NEW c \in Calls, CollectFails(c)
  PROVE  IInv'
<1> USE DEF callEnv, readerVars, slotVars
<1>2. TypeOK'
  BY McpAssumption DEF IInv, TypeOK, CollectFails, Reply, Replies, ToolReplies, ContextFailures, ContextFailure, Phases
<1>3. Accounting' /\ RegistryExact'
  <2>1. PICK p \in {"replying"} : phase' = [phase EXCEPT ![c] = p]
    BY DEF IInv, TypeOK, CollectFails, Reply
  <2> QED BY <1>2, <2>1, InFlightStep DEF CollectFails, AdmittedPhases, Phases
<1>4. DescriptorsUnderSlot'
  BY DispatchAssumption DEF IInv, TypeOK, CollectFails, Reply, DescriptorsUnderSlot, CallFacts, HoldingPhases
<1>5. OneAnswer'
  BY DispatchAssumption DEF IInv, TypeOK, CollectFails, Reply, OneAnswer, EarlyAnswers, ContextFailure, CallFacts, HoldingPhases
<1>6. AnswerNamesCause'
  BY DispatchAssumption DEF IInv, TypeOK, CollectFails, Reply, AnswerNamesCause, EarlyAnswers, ContextFailure, Ended, CallFacts, CtxStates
<1>7. InitializeIsOrdered'
  BY DispatchAssumption DEF IInv, TypeOK, CollectFails, Reply, InitializeIsOrdered, CallFacts, ContextFailure
<1>8. (\A d \in Calls : CallFacts(d))'
  BY DispatchAssumption DEF IInv, TypeOK, CollectFails, Reply, CallFacts, HoldingPhases, PathCount, DescriptorsUnderSlot
<1>9. ReaderFacts'
  BY DEF IInv, TypeOK, CollectFails, Reply, ReaderFacts, Ended
<1> QED BY <1>2, <1>3, <1>4, <1>5, <1>6, <1>7, <1>8, <1>9 DEF IInv

(* Starting the worker moves no token.                                      *)
LEMMA StartWorkerKeeps ==
  ASSUME IInv, NEW c \in Calls, StartWorker(c)
  PROVE  IInv'
<1> USE DEF callEnv, readerVars, slotVars
<1>2. TypeOK'
  BY McpAssumption DEF IInv, TypeOK, StartWorker, Reply, Replies, ToolReplies, ContextFailures, ContextFailure, Phases
<1>3. Accounting' /\ RegistryExact'
  <2>1. PICK p \in {"working"} : phase' = [phase EXCEPT ![c] = p]
    BY DEF IInv, TypeOK, StartWorker, Reply
  <2> QED BY <1>2, <2>1, InFlightStep DEF StartWorker, AdmittedPhases, Phases
<1>4. DescriptorsUnderSlot'
  BY DispatchAssumption DEF IInv, TypeOK, StartWorker, Reply, DescriptorsUnderSlot, CallFacts, HoldingPhases
<1>5. OneAnswer'
  BY DispatchAssumption DEF IInv, TypeOK, StartWorker, Reply, OneAnswer, EarlyAnswers, ContextFailure, CallFacts, HoldingPhases
<1>6. AnswerNamesCause'
  BY DispatchAssumption DEF IInv, TypeOK, StartWorker, Reply, AnswerNamesCause, EarlyAnswers, ContextFailure, Ended, CallFacts, CtxStates
<1>7. InitializeIsOrdered'
  BY DispatchAssumption DEF IInv, TypeOK, StartWorker, Reply, InitializeIsOrdered, CallFacts, ContextFailure
<1>8. (\A d \in Calls : CallFacts(d))'
  BY DispatchAssumption DEF IInv, TypeOK, StartWorker, Reply, CallFacts, HoldingPhases, PathCount, DescriptorsUnderSlot
<1>9. ReaderFacts'
  BY DEF IInv, TypeOK, StartWorker, Reply, ReaderFacts, Ended
<1> QED BY <1>2, <1>3, <1>4, <1>5, <1>6, <1>7, <1>8, <1>9 DEF IInv

(* The worker's answer, or the cause that overtook it, is decided once.     *)
LEMMA WorkerReturnsKeeps ==
  ASSUME IInv, NEW c \in Calls, WorkerReturns(c)
  PROVE  IInv'
<1> USE DEF callEnv, readerVars, slotVars
<1>2. TypeOK'
  BY McpAssumption DEF IInv, TypeOK, WorkerReturns, Reply, Replies, ToolReplies, ContextFailures, ContextFailure, Phases
<1>3. Accounting' /\ RegistryExact'
  <2>1. PICK p \in {"replying"} : phase' = [phase EXCEPT ![c] = p]
    BY DEF IInv, TypeOK, WorkerReturns, Reply
  <2> QED BY <1>2, <2>1, InFlightStep DEF WorkerReturns, AdmittedPhases, Phases
<1>4. DescriptorsUnderSlot'
  BY DispatchAssumption DEF IInv, TypeOK, WorkerReturns, Reply, DescriptorsUnderSlot, CallFacts, HoldingPhases
<1>5. OneAnswer'
  BY DispatchAssumption DEF IInv, TypeOK, WorkerReturns, Reply, OneAnswer, EarlyAnswers, ContextFailure, CallFacts, HoldingPhases
<1>6. AnswerNamesCause'
  BY DispatchAssumption DEF IInv, TypeOK, WorkerReturns, Reply, AnswerNamesCause, EarlyAnswers, ContextFailure, Ended, CallFacts, CtxStates
<1>7. InitializeIsOrdered'
  BY DispatchAssumption DEF IInv, TypeOK, WorkerReturns, Reply, InitializeIsOrdered, CallFacts, ContextFailure
<1>8. (\A d \in Calls : CallFacts(d))'
  BY DispatchAssumption DEF IInv, TypeOK, WorkerReturns, Reply, CallFacts, HoldingPhases, PathCount, DescriptorsUnderSlot
<1>9. ReaderFacts'
  BY DEF IInv, TypeOK, WorkerReturns, Reply, ReaderFacts, Ended
<1> QED BY <1>2, <1>3, <1>4, <1>5, <1>6, <1>7, <1>8, <1>9 DEF IInv

(* The answer is written once, and the handler returns through the deferred *)
(* calls it registered.                                                     *)
LEMMA WriteReplyKeeps ==
  ASSUME IInv, NEW c \in Calls, WriteReply(c)
  PROVE  IInv'
<1> USE DEF callEnv, readerVars, slotVars
<1>2. TypeOK'
  BY McpAssumption DEF IInv, TypeOK, WriteReply, Reply, Replies, ToolReplies, ContextFailures, ContextFailure, Phases
<1>3. Accounting' /\ RegistryExact'
  <2>1. PICK p \in {"closing", "unadmitting"} : phase' = [phase EXCEPT ![c] = p]
    BY DEF IInv, TypeOK, WriteReply, Reply
  <2> QED BY <1>2, <2>1, InFlightStep DEF WriteReply, AdmittedPhases, Phases
<1>4. DescriptorsUnderSlot'
  BY DispatchAssumption DEF IInv, TypeOK, WriteReply, Reply, DescriptorsUnderSlot, CallFacts, HoldingPhases
<1>5. OneAnswer'
  BY DispatchAssumption DEF IInv, TypeOK, WriteReply, Reply, OneAnswer, EarlyAnswers, ContextFailure, CallFacts, HoldingPhases
<1>6. AnswerNamesCause'
  BY DispatchAssumption DEF IInv, TypeOK, WriteReply, Reply, AnswerNamesCause, EarlyAnswers, ContextFailure, Ended, CallFacts, CtxStates
<1>7. InitializeIsOrdered'
  BY DispatchAssumption DEF IInv, TypeOK, WriteReply, Reply, InitializeIsOrdered, CallFacts, ContextFailure
<1>8. (\A d \in Calls : CallFacts(d))'
  BY DispatchAssumption DEF IInv, TypeOK, WriteReply, Reply, CallFacts, HoldingPhases, PathCount, DescriptorsUnderSlot
<1>9. ReaderFacts'
  BY DEF IInv, TypeOK, WriteReply, Reply, ReaderFacts, Ended
<1> QED BY <1>2, <1>3, <1>4, <1>5, <1>6, <1>7, <1>8, <1>9 DEF IInv

(* The files are closed while the slot is still held.                       *)
LEMMA CloseFilesKeeps ==
  ASSUME IInv, NEW c \in Calls, CloseFiles(c)
  PROVE  IInv'
<1> USE DEF callEnv, readerVars, slotVars
<1>2. TypeOK'
  BY McpAssumption DEF IInv, TypeOK, CloseFiles, Reply, Replies, ToolReplies, ContextFailures, ContextFailure, Phases
<1>3. Accounting' /\ RegistryExact'
  <2>1. PICK p \in {"unslotting"} : phase' = [phase EXCEPT ![c] = p]
    BY DEF IInv, TypeOK, CloseFiles, Reply
  <2> QED BY <1>2, <2>1, InFlightStep DEF CloseFiles, AdmittedPhases, Phases
<1>4. DescriptorsUnderSlot'
  BY DispatchAssumption DEF IInv, TypeOK, CloseFiles, Reply, DescriptorsUnderSlot, CallFacts, HoldingPhases
<1>5. OneAnswer'
  BY DispatchAssumption DEF IInv, TypeOK, CloseFiles, Reply, OneAnswer, EarlyAnswers, ContextFailure, CallFacts, HoldingPhases
<1>6. AnswerNamesCause'
  BY DispatchAssumption DEF IInv, TypeOK, CloseFiles, Reply, AnswerNamesCause, EarlyAnswers, ContextFailure, Ended, CallFacts, CtxStates
<1>7. InitializeIsOrdered'
  BY DispatchAssumption DEF IInv, TypeOK, CloseFiles, Reply, InitializeIsOrdered, CallFacts, ContextFailure
<1>8. (\A d \in Calls : CallFacts(d))'
  BY DispatchAssumption DEF IInv, TypeOK, CloseFiles, Reply, CallFacts, HoldingPhases, PathCount, DescriptorsUnderSlot
<1>9. ReaderFacts'
  BY DEF IInv, TypeOK, CloseFiles, Reply, ReaderFacts, Ended
<1> QED BY <1>2, <1>3, <1>4, <1>5, <1>6, <1>7, <1>8, <1>9 DEF IInv

-----------------------------------------------------------------------------
(* Steps that move a token, the registry or the wait group.                 *)
LEMMA RegistryStep ==
  ASSUME IInv, NEW c \in Calls, NEW p \in Phases, phase' = [phase EXCEPT ![c] = p],
         phase[c] \in RegisteredPhases <=> p \in RegisteredPhases,
         UNCHANGED <<cancels, line>>
  PROVE  RegistryExact'
BY DEF IInv, TypeOK, RegistryExact

(* The counts of admitted and counted calls when one call changes phase.    *)
LEMMA PhaseStep ==
  ASSUME IInv, NEW c \in Calls, NEW p \in Phases, phase' = [phase EXCEPT ![c] = p]
  PROVE  /\ Cardinality(Admitted) \in Nat /\ Cardinality(Counted) \in Nat
         /\ (phase[c] \in AdmittedPhases <=> p \in AdmittedPhases) =>
              Cardinality(Admitted') = Cardinality(Admitted)
         /\ (phase[c] \in CountedPhases <=> p \in CountedPhases) =>
              Cardinality(Counted') = Cardinality(Counted)
         /\ phase[c] \notin AdmittedPhases /\ p \in AdmittedPhases =>
              Cardinality(Admitted') = Cardinality(Admitted) + 1
         /\ phase[c] \notin CountedPhases /\ p \in CountedPhases =>
              Cardinality(Counted') = Cardinality(Counted) + 1
         /\ phase[c] \in AdmittedPhases /\ p \notin AdmittedPhases =>
              Cardinality(Admitted') = Cardinality(Admitted) - 1 /\ Cardinality(Admitted) > 0
         /\ phase[c] \in CountedPhases /\ p \notin CountedPhases =>
              Cardinality(Counted') = Cardinality(Counted) - 1 /\ Cardinality(Counted) > 0
<1>1. phase'[c] = p /\ \A d \in Calls : d # c => phase'[d] = phase[d]
  BY DEF IInv, TypeOK
<1>2. /\ Admitted = At(phase, AdmittedPhases) /\ Admitted' = At(phase', AdmittedPhases)
      /\ Counted = At(phase, CountedPhases) /\ Counted' = At(phase', CountedPhases)
  BY CountIsAt
<1> QED BY <1>1, <1>2, PhaseCount

(* One admission token goes back for one call that leaves the admitted      *)
(* phases.                                                                  *)
LEMMA ReleaseAdmissionKeeps ==
  ASSUME IInv, NEW c \in Calls, ReleaseAdmission(c)
  PROVE  IInv'
<1> USE DEF callEnv, readerVars, slotVars
<1>1. phase[c] = "unadmitting" /\ phase' = [phase EXCEPT ![c] = "ending"] /\ "ending" \in Phases
  BY DEF IInv, ReleaseAdmission, Phases
<1>2. /\ Cardinality(Admitted) \in Nat /\ Cardinality(Admitted') = Cardinality(Admitted) - 1 /\ Cardinality(Admitted) > 0
      /\ Cardinality(Counted) \in Nat /\ Cardinality(Counted') = Cardinality(Counted)
  BY <1>1, PhaseStep DEF AdmittedPhases, CountedPhases, Phases
<1>3. Holding' = Holding
  BY DEF ReleaseAdmission, Holding
<1>4. Accounting'
  BY <1>2, <1>3, McpAssumption DEF IInv, TypeOK, ReleaseAdmission, Accounting
<1>5. RegistryExact'
  BY <1>1, RegistryStep DEF ReleaseAdmission, RegisteredPhases, Phases
<1>6. TypeOK'
  BY <1>1, <1>2, <1>3, <1>4 DEF IInv, TypeOK, ReleaseAdmission, Accounting, CtxStates
<1>7. DescriptorsUnderSlot'
  BY DispatchAssumption DEF IInv, TypeOK, ReleaseAdmission, DescriptorsUnderSlot, CallFacts
<1>8. OneAnswer' /\ AnswerNamesCause' /\ InitializeIsOrdered'
  BY DEF IInv, TypeOK, ReleaseAdmission, OneAnswer, AnswerNamesCause, InitializeIsOrdered, Ended, CallFacts, CtxStates
<1>9. (\A d \in Calls : CallFacts(d))'
  BY DEF IInv, TypeOK, ReleaseAdmission, CallFacts, HoldingPhases, Ended, CtxStates, DescriptorsUnderSlot
<1>10. ReaderFacts'
  BY <1>1, <1>2, <1>3 DEF IInv, TypeOK, ReleaseAdmission, ReaderFacts, Ended, CtxStates, Accounting
<1> QED BY <1>4, <1>5, <1>6, <1>7, <1>8, <1>9, <1>10 DEF IInv

(* The deferred cancel marks a context finished only if nothing ended it    *)
(* before.                                                                  *)
LEMMA EndContextKeeps ==
  ASSUME IInv, NEW c \in Calls, EndContext(c)
  PROVE  IInv'
<1> USE DEF callEnv, readerVars, slotVars
<1>1. phase[c] = "ending" /\ phase' = [phase EXCEPT ![c] = "deregistering"] /\ "deregistering" \in Phases
  BY DEF IInv, EndContext, Phases
<1>2. /\ Cardinality(Admitted) \in Nat /\ Cardinality(Admitted') = Cardinality(Admitted)
      /\ Cardinality(Counted) \in Nat /\ Cardinality(Counted') = Cardinality(Counted)
  BY <1>1, PhaseStep DEF AdmittedPhases, CountedPhases, Phases
<1>3. Holding' = Holding
  BY DEF EndContext, Holding
<1>4. Accounting'
  BY <1>2, <1>3, McpAssumption DEF IInv, TypeOK, EndContext, Accounting
<1>5. RegistryExact'
  BY <1>1, RegistryStep DEF EndContext, RegisteredPhases, Phases
<1>6. TypeOK'
  BY <1>1, <1>2, <1>3, <1>4 DEF IInv, TypeOK, EndContext, Accounting, CtxStates
<1>7. DescriptorsUnderSlot'
  BY DispatchAssumption DEF IInv, TypeOK, EndContext, DescriptorsUnderSlot, CallFacts
<1>8. OneAnswer' /\ AnswerNamesCause' /\ InitializeIsOrdered'
  BY DEF IInv, TypeOK, EndContext, OneAnswer, AnswerNamesCause, InitializeIsOrdered, Ended, CallFacts, CtxStates
<1>9. (\A d \in Calls : CallFacts(d))'
  BY DEF IInv, TypeOK, EndContext, CallFacts, HoldingPhases, Ended, CtxStates, DescriptorsUnderSlot
<1>10. ReaderFacts'
  BY <1>1, <1>2, <1>3 DEF IInv, TypeOK, EndContext, ReaderFacts, Ended, CtxStates, Accounting
<1> QED BY <1>4, <1>5, <1>6, <1>7, <1>8, <1>9, <1>10 DEF IInv

(* The cleanup takes this call's handle out of the registry and no other's. *)
LEMMA DeregisterKeeps ==
  ASSUME IInv, NEW c \in Calls, Deregister(c)
  PROVE  IInv'
<1> USE DEF callEnv, readerVars, slotVars
<1>1. phase[c] = "deregistering" /\ phase' = [phase EXCEPT ![c] = "finishing"] /\ "finishing" \in Phases
  BY DEF IInv, Deregister, Phases
<1>2. /\ Cardinality(Admitted) \in Nat /\ Cardinality(Admitted') = Cardinality(Admitted)
      /\ Cardinality(Counted) \in Nat /\ Cardinality(Counted') = Cardinality(Counted)
  BY <1>1, PhaseStep DEF AdmittedPhases, CountedPhases, Phases
<1>3. Holding' = Holding
  BY DEF Deregister, Holding
<1>4. Accounting'
  BY <1>2, <1>3, McpAssumption DEF IInv, TypeOK, Deregister, Accounting
<1>5. RegistryExact'
  <2> SUFFICES ASSUME NEW i \in Ids
               PROVE  cancels'[i] = {d \in Calls : phase'[d] \in RegisteredPhases /\ line'[d].id = i}
    BY DEF RegistryExact
  <2>1. line[c].id \in Ids /\ line' = line
    BY <1>1 DEF IInv, CallFacts, Deregister
  <2>2. \A d \in Calls : phase'[d] \in RegisteredPhases <=> phase[d] \in RegisteredPhases /\ d # c
    BY <1>1 DEF IInv, TypeOK, RegisteredPhases
  <2>3. cancels[i] = {d \in Calls : phase[d] \in RegisteredPhases /\ line[d].id = i}
    BY DEF IInv, RegistryExact
  <2>4. cancels'[i] = cancels[i] \ {c}
    BY <2>1, <2>3 DEF IInv, TypeOK, Deregister
  <2> QED BY <2>1, <2>2, <2>3, <2>4
<1>6. TypeOK'
  <2>1. cancels' \in [Ids -> SUBSET Calls]
    BY DEF IInv, TypeOK, Deregister
  <2> QED BY <1>1, <2>1 DEF IInv, TypeOK, Deregister
<1>7. DescriptorsUnderSlot'
  BY DispatchAssumption DEF IInv, TypeOK, Deregister, DescriptorsUnderSlot, CallFacts
<1>8. OneAnswer' /\ AnswerNamesCause' /\ InitializeIsOrdered'
  BY DEF IInv, TypeOK, Deregister, OneAnswer, AnswerNamesCause, InitializeIsOrdered, Ended, CallFacts, CtxStates
<1>9. (\A d \in Calls : CallFacts(d))'
  BY DEF IInv, TypeOK, Deregister, CallFacts, HoldingPhases, Ended, CtxStates, DescriptorsUnderSlot
<1>10. ReaderFacts'
  BY <1>1, <1>2, <1>3 DEF IInv, TypeOK, Deregister, ReaderFacts, Ended, CtxStates, Accounting
<1> QED BY <1>4, <1>5, <1>6, <1>7, <1>8, <1>9, <1>10 DEF IInv

(* The wait group goes down by one for one call, after its registry entry   *)
(* is gone.                                                                 *)
LEMMA CallDoneKeeps ==
  ASSUME IInv, NEW c \in Calls, CallDone(c)
  PROVE  IInv'
<1> USE DEF callEnv, readerVars, slotVars
<1>1. phase[c] = "finishing" /\ phase' = [phase EXCEPT ![c] = "done"] /\ "done" \in Phases
  BY DEF IInv, CallDone, Phases
<1>2. /\ Cardinality(Admitted) \in Nat /\ Cardinality(Admitted') = Cardinality(Admitted)
      /\ Cardinality(Counted) \in Nat /\ Cardinality(Counted') = Cardinality(Counted) - 1 /\ Cardinality(Counted) > 0
  BY <1>1, PhaseStep DEF AdmittedPhases, CountedPhases, Phases
<1>3. Holding' = Holding
  BY DEF CallDone, Holding
<1>4. Accounting'
  BY <1>2, <1>3, McpAssumption DEF IInv, TypeOK, CallDone, Accounting
<1>5. RegistryExact'
  BY <1>1, RegistryStep DEF CallDone, RegisteredPhases, Phases
<1>6. TypeOK'
  BY <1>1, <1>2, <1>3, <1>4 DEF IInv, TypeOK, CallDone, Accounting, CtxStates
<1>7. DescriptorsUnderSlot'
  BY DispatchAssumption DEF IInv, TypeOK, CallDone, DescriptorsUnderSlot, CallFacts
<1>8. OneAnswer' /\ AnswerNamesCause' /\ InitializeIsOrdered'
  BY DEF IInv, TypeOK, CallDone, OneAnswer, AnswerNamesCause, InitializeIsOrdered, Ended, CallFacts, CtxStates
<1>9. (\A d \in Calls : CallFacts(d))'
  BY DEF IInv, TypeOK, CallDone, CallFacts, HoldingPhases, Ended, CtxStates, DescriptorsUnderSlot
<1>10. ReaderFacts'
  BY <1>1, <1>2, <1>3 DEF IInv, TypeOK, CallDone, ReaderFacts, Ended, CtxStates, Accounting
<1> QED BY <1>4, <1>5, <1>6, <1>7, <1>8, <1>9, <1>10 DEF IInv

(* One call slot goes back for one call that held it.                       *)
LEMMA ReleaseCallSlotKeeps ==
  ASSUME IInv, NEW c \in Calls, ReleaseCallSlot(c)
  PROVE  IInv'
<1> USE DEF callEnv, readerVars, slotVars
<1>1. phase[c] = "unslotting" /\ phase' = [phase EXCEPT ![c] = "unadmitting"] /\ "unadmitting" \in Phases
  BY DEF IInv, ReleaseCallSlot, Phases
<1>2. /\ Cardinality(Admitted) \in Nat /\ Cardinality(Admitted') = Cardinality(Admitted)
      /\ Cardinality(Counted) \in Nat /\ Cardinality(Counted') = Cardinality(Counted)
  BY <1>1, PhaseStep DEF AdmittedPhases, CountedPhases, Phases
<1>3. /\ Cardinality(Holding) \in Nat
      /\ Cardinality(Holding') = Cardinality(Holding) - 1
      /\ Cardinality(Holding) > 0
  <2>1. held[c] = TRUE /\ held'[c] = FALSE /\ \A d \in Calls : d # c => held'[d] = held[d]
    BY <1>1 DEF IInv, TypeOK, ReleaseCallSlot, CallFacts, HoldingPhases
  <2>2. Holding = At(held, {TRUE}) /\ Holding' = At(held', {TRUE})
    BY DEF Holding, At, Where, IInv, TypeOK, ReleaseCallSlot
  <2> QED BY <2>1, <2>2, HeldCount
<1>4. Accounting'
  BY <1>2, <1>3, McpAssumption DEF IInv, TypeOK, ReleaseCallSlot, Accounting
<1>5. RegistryExact'
  BY <1>1, RegistryStep DEF ReleaseCallSlot, RegisteredPhases, Phases
<1>6. TypeOK'
  BY <1>1, <1>2, <1>3, <1>4 DEF IInv, TypeOK, ReleaseCallSlot, Accounting, CtxStates
<1>7. DescriptorsUnderSlot'
  BY DispatchAssumption DEF IInv, TypeOK, ReleaseCallSlot, DescriptorsUnderSlot, CallFacts
<1>8. OneAnswer' /\ AnswerNamesCause' /\ InitializeIsOrdered'
  BY DEF IInv, TypeOK, ReleaseCallSlot, OneAnswer, AnswerNamesCause, InitializeIsOrdered, Ended, CallFacts, CtxStates
<1>9. (\A d \in Calls : CallFacts(d))'
  BY DEF IInv, TypeOK, ReleaseCallSlot, CallFacts, HoldingPhases, Ended, CtxStates, DescriptorsUnderSlot
<1>10. ReaderFacts'
  BY <1>1, <1>2, <1>3 DEF IInv, TypeOK, ReleaseCallSlot, ReaderFacts, Ended, CtxStates, Accounting
<1> QED BY <1>4, <1>5, <1>6, <1>7, <1>8, <1>9, <1>10 DEF IInv

(* A slot is taken only while one is free, and its release is registered    *)
(* with it.                                                                 *)
LEMMA AcquireCallSlotKeeps ==
  ASSUME IInv, NEW c \in Calls, AcquireCallSlot(c)
  PROVE  IInv'
<1> USE DEF callEnv, readerVars, slotVars
<1>1. PICK p \in {"opening", "collecting"} :
        /\ phase' = [phase EXCEPT ![c] = p]
        /\ p = "opening" => PathCount(line[c]) \in 1..MaxPaths
  BY AnswersInRange, McpAssumption DEF IInv, TypeOK, CallFacts, AcquireCallSlot
<1>2. /\ Cardinality(Admitted) \in Nat /\ Cardinality(Admitted') = Cardinality(Admitted)
      /\ Cardinality(Counted) \in Nat /\ Cardinality(Counted') = Cardinality(Counted)
  BY <1>1, PhaseStep DEF AcquireCallSlot, AdmittedPhases, CountedPhases, Phases
<1>3. /\ Cardinality(Holding) \in Nat
      /\ Cardinality(Holding') = Cardinality(Holding) + 1
  <2>1. held[c] = FALSE /\ held'[c] = TRUE /\ \A d \in Calls : d # c => held'[d] = held[d]
    BY DEF IInv, TypeOK, AcquireCallSlot, CallFacts, HoldingPhases
  <2>2. Holding = At(held, {TRUE}) /\ Holding' = At(held', {TRUE})
    BY DEF Holding, At, Where, IInv, TypeOK, AcquireCallSlot
  <2> QED BY <2>1, <2>2, HeldCount
<1>4. Accounting'
  BY <1>2, <1>3, McpAssumption DEF IInv, TypeOK, AcquireCallSlot, Accounting
<1>5. RegistryExact'
  BY <1>1, RegistryStep DEF AcquireCallSlot, RegisteredPhases, Phases
<1>6. TypeOK'
  BY <1>1 DEF IInv, TypeOK, AcquireCallSlot, Phases
<1>7. DescriptorsUnderSlot'
  BY DispatchAssumption DEF IInv, TypeOK, AcquireCallSlot, DescriptorsUnderSlot, CallFacts
<1>8. OneAnswer' /\ AnswerNamesCause' /\ InitializeIsOrdered'
  BY <1>1 DEF IInv, TypeOK, AcquireCallSlot, OneAnswer, AnswerNamesCause, InitializeIsOrdered
<1>9. (\A d \in Calls : CallFacts(d))'
  BY <1>1, DispatchAssumption
     DEF IInv, TypeOK, AcquireCallSlot, CallFacts, HoldingPhases, DescriptorsUnderSlot, PathCount
<1>10. ReaderFacts'
  BY <1>1 DEF IInv, TypeOK, AcquireCallSlot, ReaderFacts, Ended
<1> QED BY <1>4, <1>5, <1>6, <1>7, <1>8, <1>9, <1>10 DEF IInv

-----------------------------------------------------------------------------
(* Steps that change no call but its context, and the reader's own.         *)
LEMMA ContextStepKeeps ==
  ASSUME IInv, NEW S \in SUBSET Calls, NEW k \in {"client", "shutdown", "deadline"},
         \A c \in S : ctx[c] = "live",
         ctx' = [c \in Calls |-> IF c \in S THEN k ELSE ctx[c]],
         shutdown' \in BOOLEAN, toCancel' \in SUBSET toCancel,
         \A c \in toCancel \ toCancel' : Ended(c)',
         UNCHANGED <<reader, eof, syncAnswer, cancelId, initialized, slotVars, cancels, wg,
                     phase, line, afterInit, tried, files, reply, written>>
  PROVE  IInv'
<1> USE DEF slotVars
<1>1. TypeOK'
  BY DEF IInv, TypeOK, CtxStates
<1>2. Accounting' /\ RegistryExact' /\ DescriptorsUnderSlot' /\ OneAnswer'
  BY DEF IInv, Accounting, Admitted, Holding, Counted, RegistryExact, DescriptorsUnderSlot, OneAnswer
<1>3. AnswerNamesCause' /\ InitializeIsOrdered'
  BY DEF IInv, TypeOK, AnswerNamesCause, InitializeIsOrdered
<1>4. (\A d \in Calls : CallFacts(d))'
  BY DEF IInv, TypeOK, CallFacts
<1>5. ReaderFacts'
  BY DEF IInv, TypeOK, ReaderFacts, Ended
<1> QED BY <1>1, <1>2, <1>3, <1>4, <1>5 DEF IInv

(* Cancelling a collected handle ends a context and nothing else.           *)
LEMMA CancelHandleKeeps ==
  ASSUME IInv, NEW c \in Calls, CancelHandle(c)
  PROVE  IInv'
<1>1. ctx[c] # "none"
  BY DEF IInv, ReaderFacts, CallFacts, CancelHandle
<1> DEFINE S == IF Ended(c) THEN {} ELSE {c}
<1>2. S \in SUBSET Calls /\ \A d \in S : ctx[d] = "live"
  BY <1>1 DEF IInv, TypeOK, CtxStates, Ended
<1>3. ctx' = [d \in Calls |-> IF d \in S THEN "client" ELSE ctx[d]]
  BY DEF IInv, TypeOK, CancelHandle
<1>4. /\ shutdown' \in BOOLEAN /\ toCancel' \in SUBSET toCancel
      /\ \A d \in toCancel \ toCancel' : Ended(d)'
  BY DEF IInv, TypeOK, CancelHandle, Ended
<1>5. UNCHANGED <<reader, eof, syncAnswer, cancelId, initialized, slotVars, cancels, wg,
                  phase, line, afterInit, tried, files, reply, written>>
  BY DEF CancelHandle
<1> QED BY <1>2, <1>3, <1>4, <1>5, ContextStepKeeps

(* The timer ends one live context and nothing else.                        *)
LEMMA DeadlineKeeps ==
  ASSUME IInv, NEW c \in Calls, Deadline(c)
  PROVE  IInv'
<1>1. {c} \in SUBSET Calls /\ \A d \in {c} : ctx[d] = "live"
  BY DEF Deadline
<1>2. ctx' = [d \in Calls |-> IF d \in {c} THEN "deadline" ELSE ctx[d]]
  BY DEF IInv, TypeOK, Deadline
<1>3. /\ shutdown' \in BOOLEAN /\ toCancel' \in SUBSET toCancel
      /\ \A d \in toCancel \ toCancel' : Ended(d)'
  BY DEF IInv, TypeOK, Deadline, readerVars
<1>4. UNCHANGED <<reader, eof, syncAnswer, cancelId, initialized, slotVars, cancels, wg,
                  phase, line, afterInit, tried, files, reply, written>>
  BY DEF Deadline, readerVars
<1> QED BY <1>1, <1>2, <1>3, <1>4, ContextStepKeeps

(* The end of the session reaches every live context at once.               *)
LEMMA ShutdownKeeps ==
  ASSUME IInv, Shutdown
  PROVE  IInv'
<1> DEFINE S == {c \in Calls : ctx[c] = "live"}
<1>1. S \in SUBSET Calls /\ \A d \in S : ctx[d] = "live"
  OBVIOUS
<1>2. ctx' = [d \in Calls |-> IF d \in S THEN "shutdown" ELSE ctx[d]]
  BY DEF Shutdown
<1>3. /\ shutdown' \in BOOLEAN /\ toCancel' \in SUBSET toCancel
      /\ \A d \in toCancel \ toCancel' : Ended(d)'
  BY DEF Shutdown, readerVars
<1>4. UNCHANGED <<reader, eof, syncAnswer, cancelId, initialized, slotVars, cancels, wg,
                  phase, line, afterInit, tried, files, reply, written>>
  BY DEF Shutdown, readerVars
<1> QED BY <1>1, <1>2, <1>3, <1>4, ContextStepKeeps

(* A step of the reader that touches no call keeps the invariant as long as *)
(* the reader's own facts hold after it.                                    *)
LEMMA ReaderStepKeeps ==
  ASSUME IInv, TypeOK', ReaderFacts', initialized => initialized',
         UNCHANGED <<slotVars, cancels, wg, phase, line, afterInit, ctx, tried, files,
                     reply, written>>
  PROVE  IInv'
<1> USE DEF slotVars
<1>1. Accounting' /\ RegistryExact' /\ DescriptorsUnderSlot' /\ OneAnswer'
  BY DEF IInv, Accounting, Admitted, Holding, Counted, RegistryExact, DescriptorsUnderSlot, OneAnswer
<1>2. AnswerNamesCause' /\ InitializeIsOrdered'
  BY DEF IInv, AnswerNamesCause, InitializeIsOrdered
<1>3. (\A d \in Calls : CallFacts(d))'
  BY DEF IInv, CallFacts
<1> QED BY <1>1, <1>2, <1>3 DEF IInv

(* Answering a line may set the initialized flag and never clears it.       *)
LEMMA AnswerLineKeeps ==
  ASSUME IInv, NEW l \in Lines, AnswerLine(l)
  PROVE  IInv'
<1>1. SyncAnswer(l, initialized) \in SyncAnswers
  BY AnswersInRange, McpAssumption DEF IInv, TypeOK
<1>2. TypeOK'
  BY <1>1 DEF IInv, TypeOK, AnswerLine, Initializes, slotVars
<1>3. ReaderFacts'
  BY DEF IInv, ReaderFacts, AnswerLine
<1> QED BY <1>2, <1>3, ReaderStepKeeps DEF AnswerLine, slotVars

(* The handles cancel collects are the registered ones, so all have a       *)
(* context to end.                                                          *)
LEMMA CollectHandlesKeeps ==
  ASSUME IInv, NEW l \in Lines, CollectHandles(l)
  PROVE  IInv'
<1>1. TypeOK'
  BY DEF IInv, TypeOK, CollectHandles, slotVars
<1>2. ReaderFacts'
  BY DEF IInv, TypeOK, ReaderFacts, CollectHandles, RegistryExact, RegisteredPhases
<1> QED BY <1>1, <1>2, ReaderStepKeeps DEF CollectHandles, slotVars

(* The remaining reader steps; cancel returns only with every handle it     *)
(* collected ended, Serve only with a zero wait group.                      *)
LEMMA ReaderIdleKeeps ==
  ASSUME IInv, ReadEnd \/ WriteSyncAnswer \/ CancelReturns \/ ServeReturns
  PROVE  IInv'
<1>1. TypeOK'
  BY DEF IInv, TypeOK, ReadEnd, WriteSyncAnswer, CancelReturns, ServeReturns, CanRead, slotVars
<1>2. ReaderFacts'
  BY DEF IInv, ReaderFacts, ReadEnd, WriteSyncAnswer, CancelReturns, ServeReturns, CanRead, Ended
<1>3. (initialized => initialized')
      /\ UNCHANGED <<slotVars, cancels, wg, phase, line, afterInit, ctx, tried, files,
                     reply, written>>
  BY DEF ReadEnd, WriteSyncAnswer, CancelReturns, ServeReturns, slotVars
<1> QED BY <1>1, <1>2, <1>3, ReaderStepKeeps

(* Admission takes a token, a registry entry and a wait-group count         *)
(* together.                                                                *)
LEMMA AdmitCallKeeps ==
  ASSUME IInv, NEW c \in Calls, NEW l \in Lines, AdmitCall(c, l)
  PROVE  IInv'
<1> USE DEF readerVars
<1>1. /\ phase[c] = "unread" /\ phase' = [phase EXCEPT ![c] = "spawned"]
      /\ "spawned" \in Phases /\ l.id \in Ids /\ l \in LineShape
  BY AnswersInRange, McpAssumption DEF IInv, TypeOK, AdmitCall, Unread, Phases
<1>2. /\ Cardinality(Admitted) \in Nat /\ Cardinality(Admitted') = Cardinality(Admitted) + 1
      /\ Cardinality(Counted) \in Nat /\ Cardinality(Counted') = Cardinality(Counted) + 1
  BY <1>1, PhaseStep DEF AdmittedPhases, CountedPhases, Phases
<1>3. Holding' = Holding
  BY DEF AdmitCall, Holding
<1>4. Accounting'
  BY <1>2, <1>3, McpAssumption DEF IInv, TypeOK, AdmitCall, Accounting
<1>5. RegistryExact'
  <2> SUFFICES ASSUME NEW i \in Ids
               PROVE  cancels'[i] = {d \in Calls : phase'[d] \in RegisteredPhases /\ line'[d].id = i}
    BY DEF RegistryExact
  <2>1. /\ line'[c] = l /\ \A d \in Calls : d # c => line'[d] = line[d]
        /\ cancels'[i] = IF i = l.id THEN cancels[i] \cup {c} ELSE cancels[i]
    BY <1>1 DEF IInv, TypeOK, AdmitCall
  <2>2. /\ phase'[c] \in RegisteredPhases /\ phase[c] \notin RegisteredPhases
        /\ \A d \in Calls : d # c => phase'[d] = phase[d]
    BY <1>1 DEF IInv, TypeOK, RegisteredPhases, Phases
  <2>3. cancels[i] = {d \in Calls : phase[d] \in RegisteredPhases /\ line[d].id = i}
    BY DEF IInv, RegistryExact
  <2> QED BY <2>1, <2>2, <2>3
<1>6. TypeOK'
  <2>1. cancels' \in [Ids -> SUBSET Calls]
    BY <1>1 DEF IInv, TypeOK, AdmitCall
  <2>2. line' \in [Calls -> Lines \cup {NoLine}] /\ phase' \in [Calls -> Phases]
    BY <1>1 DEF IInv, TypeOK, AdmitCall
  <2> QED BY <2>1, <2>2 DEF IInv, TypeOK, AdmitCall, CtxStates
<1>7. DescriptorsUnderSlot'
  BY DEF IInv, TypeOK, AdmitCall, DescriptorsUnderSlot
<1>8. OneAnswer' /\ AnswerNamesCause' /\ InitializeIsOrdered'
  BY <1>1 DEF IInv, TypeOK, AdmitCall, OneAnswer, AnswerNamesCause, InitializeIsOrdered
<1>9. (\A d \in Calls : CallFacts(d))'
  BY <1>1 DEF IInv, TypeOK, AdmitCall, CallFacts, HoldingPhases
<1>10. ReaderFacts'
  BY <1>1 DEF IInv, TypeOK, AdmitCall, ReaderFacts, CanRead
<1> QED BY <1>4, <1>5, <1>6, <1>7, <1>8, <1>9, <1>10 DEF IInv

(* A refused call is answered and takes nothing.                            *)
LEMMA RefuseCallKeeps ==
  ASSUME IInv, NEW c \in Calls, NEW l \in Lines, RefuseCall(c, l)
  PROVE  IInv'
<1> USE DEF readerVars, slotVars
<1>1. /\ phase[c] = "unread" /\ phase' = [phase EXCEPT ![c] = "refused"]
      /\ "refused" \in Phases /\ l.id \in Ids
  BY AnswersInRange, McpAssumption DEF IInv, TypeOK, RefuseCall, Unread, Phases
<1>2. /\ Cardinality(Admitted) \in Nat /\ Cardinality(Admitted') = Cardinality(Admitted)
      /\ Cardinality(Counted) \in Nat /\ Cardinality(Counted') = Cardinality(Counted)
  BY <1>1, PhaseStep DEF AdmittedPhases, CountedPhases, Phases
<1>3. Holding' = Holding
  BY DEF RefuseCall, Holding
<1>4. Accounting'
  BY <1>2, <1>3 DEF IInv, RefuseCall, Accounting
<1>5. RegistryExact'
  <2>1. /\ \A d \in Calls : d # c => line'[d] = line[d] /\ phase'[d] = phase[d]
        /\ phase'[c] \notin RegisteredPhases /\ phase[c] \notin RegisteredPhases
    BY <1>1 DEF IInv, TypeOK, RefuseCall, RegisteredPhases
  <2> QED BY <2>1 DEF IInv, RegistryExact, RefuseCall
<1>6. TypeOK'
  <2>1. line' \in [Calls -> Lines \cup {NoLine}] /\ phase' \in [Calls -> Phases]
    BY <1>1 DEF IInv, TypeOK, RefuseCall
  <2> QED BY <2>1 DEF IInv, TypeOK, RefuseCall, Replies, Refusals
<1>7. DescriptorsUnderSlot'
  BY DEF IInv, TypeOK, RefuseCall, DescriptorsUnderSlot
<1>8. OneAnswer' /\ AnswerNamesCause' /\ InitializeIsOrdered'
  BY <1>1 DEF IInv, TypeOK, RefuseCall, OneAnswer, AnswerNamesCause, InitializeIsOrdered
<1>9. (\A d \in Calls : CallFacts(d))'
  BY <1>1 DEF IInv, TypeOK, RefuseCall, CallFacts, HoldingPhases
<1>10. ReaderFacts'
  BY <1>1 DEF IInv, TypeOK, RefuseCall, ReaderFacts, Ended, CanRead
<1> QED BY <1>4, <1>5, <1>6, <1>7, <1>8, <1>9, <1>10 DEF IInv

-----------------------------------------------------------------------------
(* Every step keeps the invariant. *)
LEMMA NextKeeps == IInv /\ [Next]_vars => IInv'
<1> SUFFICES ASSUME IInv, [Next]_vars PROVE IInv'
  OBVIOUS
<1>1. CASE UNCHANGED vars
  <2>1. TypeOK' /\ ReaderFacts'
    BY <1>1 DEF IInv, TypeOK, ReaderFacts, Ended, vars
  <2> QED BY <1>1, <2>1, ReaderStepKeeps DEF vars, slotVars
<1>2. CASE ClientStep
  BY <1>2, ReaderIdleKeeps, AnswerLineKeeps, CollectHandlesKeeps, AdmitCallKeeps, RefuseCallKeeps
     DEF ClientStep
<1>3. CASE ReaderStep
  BY <1>3, ReaderIdleKeeps, CancelHandleKeeps DEF ReaderStep
<1>4. ASSUME NEW c \in Calls, OwnStep(c)
      PROVE  IInv'
  BY <1>4, StartCallKeeps, AcquireCallSlotKeeps, AbandonQueueKeeps, AbandonOpenKeeps,
     StartWorkerKeeps, WriteReplyKeeps, CloseFilesKeeps, ReleaseCallSlotKeeps,
     ReleaseAdmissionKeeps, EndContextKeeps, DeregisterKeeps, CallDoneKeeps
     DEF OwnStep
<1>5. ASSUME NEW c \in Calls, OpenPath(c) \/ WalkStep(c) \/ WorkerReturns(c) \/ Deadline(c)
      PROVE  IInv'
  BY <1>5, OpenPathKeeps, CollectFileKeeps, CollectEndsKeeps, CollectFailsKeeps,
     WorkerReturnsKeeps, DeadlineKeeps
     DEF WalkStep
<1>6. CASE Shutdown
  BY <1>6, ShutdownKeeps
<1>7. CASE Terminated
  BY <1>1, <1>7 DEF Terminated
<1> QED BY <1>1, <1>2, <1>3, <1>4, <1>5, <1>6, <1>7 DEF Next

(* The invariant holds for every number of calls, ids, paths and slots.     *)
THEOREM Invariance == Spec => []IInv
BY InitIInv, NextKeeps, PTL DEF Spec

-----------------------------------------------------------------------------
(* Every variable keeps its type: no token counter or wait group goes below *)
(* zero on any path through a call.                                         *)
THEOREM TypeCorrect == Spec => []TypeOK
<1>1. IInv => TypeOK
  BY DEF IInv
<1> QED BY Invariance, <1>1, PTL

(* Both channels hold exactly the tokens of the calls that took them.       *)
THEOREM SlotsBalance == Spec => []SlotAccounting
<1>1. IInv => SlotAccounting
  BY DEF IInv, Accounting, SlotAccounting
<1> QED BY Invariance, <1>1, PTL

(* Descriptors are held only under a call slot. *)
THEOREM DescriptorsBounded == Spec => []DescriptorsUnderSlot
<1>1. IInv => DescriptorsUnderSlot
  BY DEF IInv
<1> QED BY Invariance, <1>1, PTL

(* The registry is exact whatever ids the client reuses.                    *)
THEOREM RegistryCorrect == Spec => []RegistryExact
<1>1. IInv => RegistryExact
  BY DEF IInv
<1> QED BY Invariance, <1>1, PTL

(* One answer per call, and one that names what ended the call.             *)
THEOREM AnswersCorrect == Spec => [](OneAnswer /\ AnswerNamesCause /\ InitializeIsOrdered)
<1>1. IInv => OneAnswer /\ AnswerNamesCause /\ InitializeIsOrdered
  BY DEF IInv
<1> QED BY Invariance, <1>1, PTL

(* Serve returns with nothing in flight: a zero wait group leaves no call   *)
(* between admission and its last deferred step.                            *)
THEOREM ReturnIsQuiet == Spec => []QuietReturn
<1>1. IInv => QuietReturn
  <2> SUFFICES ASSUME IInv, reader = "returned" PROVE QuietReturn
    BY DEF QuietReturn
  <2>1. wg = 0 /\ wg = Cardinality(Counted) /\ IsFiniteSet(Counted)
    BY McpAssumption, FS_Subset DEF IInv, ReaderFacts, Accounting, Counted
  <2>2. Counted = {}
    BY <2>1, FS_EmptySet
  <2>3. \A c \in Calls : phase[c] \in {"unread", "refused", "done"}
    BY <2>2 DEF IInv, TypeOK, Counted, CountedPhases
  <2>4. Admitted = {} /\ Holding = {}
    BY <2>3 DEF IInv, Admitted, Holding, AdmittedPhases, CallFacts, HoldingPhases
  <2>5. admissionSlots = 0 /\ callSlots = 0
    BY <2>4, FS_EmptySet DEF IInv, Accounting
  <2>6. \A c \in Calls : phase[c] # "unread" => written[c] = 1
    BY <2>3 DEF IInv, OneAnswer
  <2>7. \A c \in Calls : files[c] = 0
    BY <2>4 DEF IInv, TypeOK, DescriptorsUnderSlot, Holding
  <2>8. \A i \in Ids : cancels[i] = {}
    BY <2>3 DEF IInv, RegistryExact, RegisteredPhases
  <2> QED BY <2>5, <2>6, <2>7, <2>8 DEF QuietReturn
<1> QED BY Invariance, <1>1, PTL

(* A cancellation reaches every call registered under the id it names.      *)
THEOREM CancellationComplete == Spec => CancelReachesAll
<1>1. IInv /\ [Next]_vars =>
        ((reader = "cancelling" /\ reader' = "reading") => \A c \in cancels[cancelId] : Ended(c))
        \/ UNCHANGED vars
  <2> SUFFICES ASSUME IInv, Next, reader = "cancelling", reader' = "reading"
               PROVE  toCancel = {}
    BY DEF IInv, ReaderFacts
  <2> QED
    BY DEF Next, ClientStep, ReaderStep, OwnStep, WalkStep, ReadEnd, AnswerLine, CollectHandles,
           AdmitCall, RefuseCall, WriteSyncAnswer, CancelHandle, CancelReturns, ServeReturns, CanRead,
           StartCall, AcquireCallSlot, AbandonQueue, AbandonOpen, StartWorker, WriteReply, CloseFiles,
           ReleaseCallSlot, ReleaseAdmission, EndContext, Deregister, CallDone, OpenPath, CollectFile,
           CollectEnds, CollectFails, WorkerReturns, Deadline, Shutdown, Terminated, callEnv, readerVars
<1> QED BY Invariance, <1>1, PTL DEF Spec, CancelReachesAll

-----------------------------------------------------------------------------
(* Every step of the server is one of CallContract, or invisible there.     *)

(* A step that changes no answer, no cause and not whether Serve has        *)
(* returned is invisible in the contract.                                   *)
LEMMA Invisible ==
  ASSUME UNCHANGED <<ContractStatus, ContractCause, ContractVerdict>>,
         (reader = "returned") <=> (reader' = "returned")
  PROVE  UNCHANGED CC!contractVars
BY DEF CC!contractVars

(* A call that moves on before it has decided, or after it has answered,    *)
(* does so invisibly, whatever happens to its slots, files and registration.*)
LEMMA MovingOn ==
  ASSUME IInv, NEW c \in Calls, NEW p \in Phases, phase' = [phase EXCEPT ![c] = p],
         \/ reply[c] = "none" /\ p \notin {"unread", "replying"} /\ phase[c] # "unread"
         \/ reply[c] # "none" /\ p \notin {"unread", "replying"} /\ phase[c] \notin {"unread", "replying"},
         UNCHANGED <<reply, reader, ContractCause>>
  PROVE  UNCHANGED CC!contractVars
<1>1. UNCHANGED ContractStatus
  BY DEF IInv, TypeOK, ContractStatus
<1>2. UNCHANGED ContractVerdict
  BY DEF ContractVerdict
<1> QED BY <1>1, <1>2, Invisible

(* A call that decides, on an answer its context allows.                    *)
LEMMA Deciding ==
  ASSUME IInv, NEW c \in Calls, NEW r \in Replies \ Refusals, Reply(c, r), reply[c] = "none",
         phase[c] # "unread",
         r = "result" => ~Ended(c),
         r = "E_TIMEOUT" => ctx[c] = "deadline",
         r = "E_CANCELLED" => ctx[c] \in {"client", "shutdown"},
         UNCHANGED <<ctx, reader>>
  PROVE  CC!ContractNext
<1> DEFINE v == VerdictOf(r)
<1>1. r # "none" /\ r \notin Refusals
  BY DEF Replies, ToolReplies, ContextFailures, EarlyAnswers, Refusals
<1>2. v \in {"result", "failed", "E_TIMEOUT", "E_CANCELLED"}
  BY <1>1 DEF VerdictOf, ContextFailures
<1>3. ContractStatus[c] = "owed" /\ ContractStatus' = [ContractStatus EXCEPT ![c] = "decided"]
  BY <1>1 DEF IInv, TypeOK, Reply, ContractStatus
<1>4. ContractVerdict' = [ContractVerdict EXCEPT ![c] = v]
  BY DEF IInv, TypeOK, Reply, ContractVerdict
<1>5. UNCHANGED ContractCause
  BY DEF ContractCause
<1>6. CC!Allowed(v, ContractCause[c])
  BY <1>1, <1>2 DEF CC!Allowed, VerdictOf, ContextFailures, ContractCause, Ended, IInv, TypeOK, CtxStates
<1>7. CC!Decide(c, v)
  BY <1>3, <1>4, <1>5, <1>6 DEF CC!Decide
<1> QED BY <1>2, <1>7 DEF CC!ContractNext, CC!Verdicts

(* Some live contexts end for one cause, and nothing else changes.          *)
LEMMA Interrupting ==
  ASSUME IInv, NEW S \in SUBSET Calls, NEW k \in {"client", "shutdown", "deadline"},
         \A c \in S : ctx[c] = "live",
         ctx' = [c \in Calls |-> IF c \in S THEN k ELSE ctx[c]],
         UNCHANGED <<phase, reply, reader>>
  PROVE  CC!ContractNext
<1>1. UNCHANGED <<ContractStatus, ContractVerdict>>
  BY DEF ContractStatus, ContractVerdict
<1>2. \A c \in S : ContractStatus[c] # "unseen" /\ ContractCause[c] = "none"
  BY DEF IInv, CallFacts, ContractStatus, ContractCause
<1>3. ContractCause' = [c \in Calls |-> IF c \in S THEN k ELSE ContractCause[c]]
  BY DEF ContractCause
<1>4. CC!Interrupt(S, k)
  BY <1>1, <1>2, <1>3 DEF CC!Interrupt
<1> QED BY <1>4 DEF CC!ContractNext, CC!Causes

(* The initial state of the server is one of the contract.                  *)
LEMMA InitKept == Init => CC!ContractInit
<1>1. VerdictOf("none") = "none"
  BY DEF VerdictOf, Refusals
<1> QED
  BY <1>1 DEF Init, CC!ContractInit, ContractStatus, ContractCause, ContractVerdict

-----------------------------------------------------------------------------
(* Taking a call from the input, or refusing it for lack of room.           *)
LEMMA AdmitKept ==
  ASSUME IInv, NEW c \in Calls, NEW l \in Lines, AdmitCall(c, l)
  PROVE  CC!ContractNext
<1>1. phase[c] = "unread" /\ reply[c] = "none" /\ ctx[c] = "none"
  BY DEF IInv, AdmitCall, Unread, OneAnswer, CallFacts
<1>2. ContractStatus[c] = "unseen" /\ ContractStatus' = [ContractStatus EXCEPT ![c] = "owed"]
  BY <1>1 DEF IInv, TypeOK, AdmitCall, ContractStatus
<1>3. PICK k \in {"none", "shutdown"} : ContractCause' = [ContractCause EXCEPT ![c] = k]
  <2>1. ctx' = [ctx EXCEPT ![c] = "live"] \/ ctx' = [ctx EXCEPT ![c] = "shutdown"]
    BY DEF AdmitCall
  <2>2. CASE ctx' = [ctx EXCEPT ![c] = "live"]
    <3>1. ContractCause' = [ContractCause EXCEPT ![c] = "none"]
      BY <2>2 DEF IInv, TypeOK, ContractCause
    <3> QED BY <3>1
  <2>3. CASE ctx' = [ctx EXCEPT ![c] = "shutdown"]
    <3>1. ContractCause' = [ContractCause EXCEPT ![c] = "shutdown"]
      BY <2>3 DEF IInv, TypeOK, ContractCause
    <3> QED BY <3>1
  <2> QED BY <2>1, <2>2, <2>3
<1>4. ContractVerdict' = ContractVerdict /\ reader # "returned" /\ reader' # "returned"
  BY DEF AdmitCall, ContractVerdict, CanRead, readerVars
<1>5. CC!Take(c)
  BY <1>2, <1>3, <1>4 DEF CC!Take
<1> QED BY <1>5 DEF CC!ContractNext

(* A refusal is one step of the contract: decided and delivered at once.    *)
LEMMA RefuseKept ==
  ASSUME IInv, NEW c \in Calls, NEW l \in Lines, RefuseCall(c, l)
  PROVE  CC!ContractNext
<1>1. phase[c] = "unread" /\ reply'[c] \in Refusals
      /\ \A d \in Calls : d # c => reply'[d] = reply[d]
  BY DEF IInv, TypeOK, RefuseCall, Unread, Refusals
<1>2. ContractStatus[c] = "unseen" /\ ContractStatus' = [ContractStatus EXCEPT ![c] = "delivered"]
  BY <1>1 DEF IInv, TypeOK, RefuseCall, ContractStatus, Refusals
<1>3. ContractVerdict' = [ContractVerdict EXCEPT ![c] = "refused"]
  <2>1. VerdictOf(reply'[c]) = "refused"
    BY <1>1 DEF VerdictOf
  <2> QED BY <1>1, <2>1 DEF ContractVerdict
<1>4. ContractCause' = ContractCause /\ reader # "returned" /\ reader' # "returned"
  BY DEF RefuseCall, ContractCause, CanRead, readerVars
<1>5. CC!Refuse(c)
  BY <1>2, <1>3, <1>4 DEF CC!Refuse
<1> QED BY <1>5 DEF CC!ContractNext

(* Cancellation, deadline and shutdown interrupt the calls they reach.      *)
LEMMA ContextsKept ==
  ASSUME IInv, Shutdown \/ \E c \in Calls : CancelHandle(c) \/ Deadline(c)
  PROVE  CC!ContractNext
<1>1. CASE Shutdown
  <2> DEFINE S == {c \in Calls : ctx[c] = "live"}
  <2>1. S \in SUBSET Calls /\ \A c \in S : ctx[c] = "live"
    OBVIOUS
  <2>2. ctx' = [c \in Calls |-> IF c \in S THEN "shutdown" ELSE ctx[c]]
    BY <1>1 DEF Shutdown
  <2>3. UNCHANGED <<phase, reply, reader>>
    BY <1>1 DEF Shutdown, readerVars
  <2> QED BY <2>1, <2>2, <2>3, Interrupting
<1>2. ASSUME NEW c \in Calls, CancelHandle(c)
      PROVE  CC!ContractNext
  <2> DEFINE S == IF Ended(c) THEN {} ELSE {c}
  <2>1. ctx[c] # "none"
    BY <1>2 DEF IInv, ReaderFacts, CallFacts, CancelHandle
  <2>2. S \in SUBSET Calls /\ \A d \in S : ctx[d] = "live"
    BY <2>1 DEF IInv, TypeOK, CtxStates, Ended
  <2>3. ctx' = [d \in Calls |-> IF d \in S THEN "client" ELSE ctx[d]]
    BY <1>2 DEF IInv, TypeOK, CancelHandle
  <2>4. UNCHANGED <<phase, reply, reader>>
    BY <1>2 DEF CancelHandle
  <2> QED BY <2>2, <2>3, <2>4, Interrupting
<1>3. ASSUME NEW c \in Calls, Deadline(c)
      PROVE  CC!ContractNext
  <2>1. {c} \in SUBSET Calls /\ \A d \in {c} : ctx[d] = "live"
    BY <1>3 DEF Deadline
  <2>2. ctx' = [d \in Calls |-> IF d \in {c} THEN "deadline" ELSE ctx[d]]
    BY <1>3 DEF IInv, TypeOK, Deadline
  <2>3. UNCHANGED <<phase, reply, reader>>
    BY <1>3 DEF Deadline, readerVars
  <2> QED BY <2>1, <2>2, <2>3, Interrupting
<1> QED BY <1>1, <1>2, <1>3

(* Serve stops only when nothing it took is owed or undelivered.            *)
LEMMA ReturnKept ==
  ASSUME IInv, ServeReturns
  PROVE  CC!ContractNext
<1>1. Counted = {}
  <2>1. Cardinality(Counted) = 0 /\ IsFiniteSet(Counted)
    BY McpAssumption, FS_Subset DEF IInv, Accounting, ServeReturns, Counted
  <2> QED BY <2>1, FS_EmptySet
<1>2. \A c \in Calls : phase[c] \in {"unread", "refused", "done"}
  BY <1>1 DEF IInv, TypeOK, Counted, CountedPhases
<1>3. \A c \in Calls : ContractStatus[c] \in {"unseen", "delivered"}
  BY <1>2 DEF IInv, OneAnswer, ContractStatus
<1>4. UNCHANGED <<ContractStatus, ContractCause, ContractVerdict>>
  BY DEF ServeReturns, ContractStatus, ContractCause, ContractVerdict
<1>5. CC!Stop
  BY <1>3, <1>4 DEF CC!Stop, ServeReturns
<1> QED BY <1>5 DEF CC!ContractNext

-----------------------------------------------------------------------------
(* The steps in which a call settles its answer, or goes on without one.    *)
LEMMA StartKept ==
  ASSUME IInv, NEW c \in Calls, StartCall(c)
  PROVE  CC!ContractNext \/ UNCHANGED CC!contractVars
<1> DEFINE early == EarlyAnswer(line[c], initialized)
<1>1. phase[c] = "spawned" /\ reply[c] = "none" /\ UNCHANGED <<ctx, reader>>
  BY DEF IInv, OneAnswer, StartCall, callEnv, readerVars
<1>2. early \in EarlyAnswers \cup {"none"}
  <2>1. line[c] \in LineShape /\ initialized \in BOOLEAN
    BY <1>1, McpAssumption DEF IInv, TypeOK, CallFacts
  <2> QED BY <2>1, AnswersInRange
<1>3. CASE early = "none"
  <2>1. phase' = [phase EXCEPT ![c] = "queued"] /\ UNCHANGED <<reply, reader, ContractCause>>
    BY <1>1, <1>3 DEF StartCall, ContractCause
  <2> QED BY <1>1, <2>1, MovingOn DEF Phases
<1>4. CASE early # "none"
  <2>1. Reply(c, early)
    BY <1>4 DEF StartCall
  <2>2. early \in Replies \ Refusals /\ early \notin {"result", "E_TIMEOUT", "E_CANCELLED"}
    BY <1>2, <1>4 DEF Replies, Refusals, EarlyAnswers
  <2> HIDE DEF early
  <2> QED BY <1>1, <2>1, <2>2, Deciding
<1> QED BY <1>3, <1>4

(* A wait that is abandoned, in the queue or between two opens. *)
LEMMA AbandonKept ==
  ASSUME IInv, NEW c \in Calls, AbandonQueue(c) \/ AbandonOpen(c)
  PROVE  CC!ContractNext
<1> DEFINE r == ContextFailure(c)
<1>1. /\ phase[c] \in {"queued", "opening"} /\ reply[c] = "none"
      /\ Ended(c) /\ Reply(c, r) /\ UNCHANGED <<ctx, reader>>
  BY DEF IInv, OneAnswer, AbandonQueue, AbandonOpen, callEnv, readerVars
<1>2. /\ r \in Replies \ Refusals /\ r # "result"
      /\ r = "E_TIMEOUT" => ctx[c] = "deadline"
      /\ r = "E_CANCELLED" => ctx[c] \in {"client", "shutdown"}
  BY <1>1 DEF ContextFailure, Ended, Replies, ToolReplies, ContextFailures, Refusals, IInv, CallFacts
<1> HIDE DEF r
<1> QED BY <1>1, <1>2, Deciding

(* An authority error ends a single inspection; otherwise the call goes on. *)
LEMMA OpenKept ==
  ASSUME IInv, NEW c \in Calls, OpenPath(c)
  PROVE  CC!ContractNext \/ UNCHANGED CC!contractVars
<1>1. phase[c] = "opening" /\ reply[c] = "none" /\ UNCHANGED <<ctx, reader, ContractCause>>
  BY DEF IInv, OneAnswer, OpenPath, callEnv, readerVars, ContractCause
<1>2. CASE UNCHANGED <<phase, reply>>
  BY <1>1, <1>2, Invisible DEF ContractStatus, ContractVerdict
<1>3. CASE Reply(c, "E_AUTHORITY")
  <2>1. "E_AUTHORITY" \in Replies \ Refusals
    BY DEF Replies, ToolReplies, Refusals
  <2> QED BY <1>1, <1>3, <2>1, Deciding
<1> QED BY <1>2, <1>3 DEF OpenPath

(* The walk opens files, ends or fails; only a failure is an answer.        *)
LEMMA WalkKept ==
  ASSUME IInv, NEW c \in Calls, WalkStep(c)
  PROVE  CC!ContractNext \/ UNCHANGED CC!contractVars
<1>1. phase[c] = "collecting" /\ reply[c] = "none" /\ UNCHANGED <<ctx, reader, ContractCause>>
  BY DEF IInv, OneAnswer, WalkStep, CollectFile, CollectEnds, CollectFails, callEnv, readerVars,
         ContractCause
<1>2. CASE CollectFile(c)
  <2>1. UNCHANGED <<phase, reply>>
    BY <1>2 DEF CollectFile
  <2> QED BY <1>1, <2>1, Invisible DEF ContractStatus, ContractVerdict
<1>3. CASE CollectEnds(c)
  <2>1. phase' = [phase EXCEPT ![c] = "working"] /\ UNCHANGED reply
    BY <1>3 DEF CollectEnds
  <2> QED BY <1>1, <2>1, MovingOn DEF Phases
<1>4. CASE CollectFails(c) /\ Reply(c, "E_AUTHORITY")
  <2>1. "E_AUTHORITY" \in Replies \ Refusals
    BY DEF Replies, ToolReplies, Refusals
  <2> QED BY <1>1, <1>4, <2>1, Deciding
<1>5. CASE Ended(c) /\ Reply(c, ContextFailure(c))
  <2> DEFINE r == ContextFailure(c)
  <2>1. /\ r \in Replies \ Refusals /\ r # "result"
        /\ r = "E_TIMEOUT" => ctx[c] = "deadline"
        /\ r = "E_CANCELLED" => ctx[c] \in {"client", "shutdown"}
    BY <1>1, <1>5 DEF ContextFailure, Ended, Replies, ToolReplies, ContextFailures, Refusals, IInv, CallFacts
  <2>2. Reply(c, r)
    BY <1>5
  <2> HIDE DEF r
  <2> QED BY <1>1, <2>1, <2>2, Deciding
<1> QED BY <1>2, <1>3, <1>4, <1>5 DEF WalkStep, CollectFails

(* A result is an answer only while the context is live; after that the     *)
(* cause is.                                                                *)
LEMMA WorkerKept ==
  ASSUME IInv, NEW c \in Calls, WorkerReturns(c)
  PROVE  CC!ContractNext
<1>1. phase[c] = "working" /\ reply[c] = "none" /\ UNCHANGED <<ctx, reader>>
  BY DEF IInv, OneAnswer, WorkerReturns, callEnv, readerVars
<1>2. CASE ~Ended(c) /\ \E r \in {"result", "E_WORKER"} : Reply(c, r)
  <2>1. PICK r \in {"result", "E_WORKER"} : Reply(c, r)
    BY <1>2
  <2>2. r \in Replies \ Refusals
    BY DEF Replies, ToolReplies, Refusals
  <2> QED BY <1>1, <1>2, <2>1, <2>2, Deciding
<1>3. CASE Ended(c) /\ Reply(c, ContextFailure(c))
  <2> DEFINE r == ContextFailure(c)
  <2>1. /\ r \in Replies \ Refusals /\ r # "result"
        /\ r = "E_TIMEOUT" => ctx[c] = "deadline"
        /\ r = "E_CANCELLED" => ctx[c] \in {"client", "shutdown"}
    BY <1>1, <1>3 DEF ContextFailure, Ended, Replies, ToolReplies, ContextFailures, Refusals, IInv, CallFacts
  <2>2. Reply(c, r)
    BY <1>3
  <2> HIDE DEF r
  <2> QED BY <1>1, <2>1, <2>2, Deciding
<1> QED BY <1>2, <1>3 DEF WorkerReturns

(* Writing the answer delivers it. *)
LEMMA WriteKept ==
  ASSUME IInv, NEW c \in Calls, WriteReply(c)
  PROVE  CC!ContractNext
<1>1. /\ phase[c] = "replying" /\ reply[c] # "none"
      /\ UNCHANGED <<ctx, reader, reply>>
  BY DEF IInv, OneAnswer, WriteReply, callEnv, readerVars
<1>2. PICK p \in {"closing", "unadmitting"} : phase' = [phase EXCEPT ![c] = p]
  BY DEF WriteReply
<1>3. ContractStatus[c] = "decided" /\ ContractStatus' = [ContractStatus EXCEPT ![c] = "delivered"]
  BY <1>1, <1>2 DEF IInv, TypeOK, ContractStatus
<1>4. UNCHANGED <<ContractCause, ContractVerdict>>
  BY <1>1 DEF ContractCause, ContractVerdict
<1>5. CC!Deliver(c)
  BY <1>1, <1>3, <1>4 DEF CC!Deliver
<1> QED BY <1>5 DEF CC!ContractNext

(* The steps that only move slots, files, registrations and counts. *)
LEMMA QuietKept ==
  ASSUME IInv, NEW c \in Calls,
         \/ AcquireCallSlot(c) \/ StartWorker(c) \/ CloseFiles(c) \/ ReleaseCallSlot(c)
         \/ ReleaseAdmission(c) \/ EndContext(c) \/ Deregister(c) \/ CallDone(c)
  PROVE  UNCHANGED CC!contractVars
<1>1. UNCHANGED <<reply, reader>>
  BY DEF AcquireCallSlot, StartWorker, CloseFiles, ReleaseCallSlot, ReleaseAdmission, EndContext,
         Deregister, CallDone, callEnv, readerVars
<1>2. UNCHANGED ContractCause
  <2>1. CASE EndContext(c)
    BY <2>1 DEF EndContext, ContractCause, Ended, IInv, TypeOK, CtxStates
  <2>2. CASE ~EndContext(c)
    BY <2>2 DEF AcquireCallSlot, StartWorker, CloseFiles, ReleaseCallSlot, ReleaseAdmission,
                Deregister, CallDone, ContractCause
  <2> QED BY <2>1, <2>2
<1>3. PICK p \in Phases : /\ phase' = [phase EXCEPT ![c] = p]
                          /\ p \notin {"unread", "replying"} /\ phase[c] \notin {"unread", "replying"}
  BY DEF AcquireCallSlot, StartWorker, CloseFiles, ReleaseCallSlot, ReleaseAdmission, EndContext,
         Deregister, CallDone, Phases
<1> QED BY <1>1, <1>2, <1>3, MovingOn

(* Every step of the server is a step of the contract or invisible in it.   *)
LEMMA NextKept == IInv /\ [Next]_vars => [CC!ContractNext]_(CC!contractVars)
<1> SUFFICES ASSUME IInv, [Next]_vars PROVE CC!ContractNext \/ UNCHANGED CC!contractVars
  OBVIOUS
<1>1. CASE UNCHANGED vars
  BY <1>1, Invisible DEF vars, ContractStatus, ContractCause, ContractVerdict
<1>2. ASSUME \/ ReadEnd \/ WriteSyncAnswer \/ CancelReturns
             \/ \E l \in Lines : AnswerLine(l) \/ CollectHandles(l)
      PROVE  UNCHANGED CC!contractVars
  <2>1. UNCHANGED <<phase, ctx, reply>> /\ reader # "returned" /\ reader' # "returned"
    BY <1>2 DEF ReadEnd, WriteSyncAnswer, CancelReturns, AnswerLine, CollectHandles, CanRead
  <2> QED BY <2>1, Invisible DEF ContractStatus, ContractCause, ContractVerdict
<1>3. CASE ClientStep
  BY <1>2, <1>3, AdmitKept, RefuseKept DEF ClientStep
<1>4. CASE ReaderStep
  BY <1>2, <1>4, ReturnKept, ContextsKept DEF ReaderStep
<1>5. ASSUME NEW c \in Calls, OwnStep(c)
      PROVE  CC!ContractNext \/ UNCHANGED CC!contractVars
  BY <1>5, StartKept, AbandonKept, WriteKept, QuietKept DEF OwnStep
<1>6. ASSUME NEW c \in Calls, OpenPath(c) \/ WalkStep(c) \/ WorkerReturns(c) \/ Deadline(c)
      PROVE  CC!ContractNext \/ UNCHANGED CC!contractVars
  BY <1>6, OpenKept, WalkKept, WorkerKept, ContextsKept
<1>7. CASE Shutdown
  BY <1>7, ContextsKept
<1>8. CASE Terminated
  BY <1>1, <1>8 DEF Terminated
<1> QED BY <1>1, <1>3, <1>4, <1>5, <1>6, <1>7, <1>8 DEF Next

(* The server implements the contract: whatever the interleaving of its     *)
(* goroutines, a call is decided once, with an answer its context allows,   *)
(* delivered once, and Serve returns owing nothing.                         *)
THEOREM ContractKept == Spec => KeepsContract
BY Invariance, InitKept, NextKept, PTL DEF Spec, KeepsContract, CC!ContractSafety

-----------------------------------------------------------------------------
(* A context is ended for "client" only by cancel, for a handle it found    *)
(* under the id it was given: duplicates of that id, and no other call.     *)
THEOREM CancellationIsExact == Spec => CancelHitsOnlyItsId
<1> DEFINE Hit == \A c \in Calls : (ctx[c] # "client" /\ ctx'[c] = "client") =>
                     reader = "cancelling" /\ line[c].id = cancelId
<1>1. IInv /\ [Next]_vars => Hit \/ UNCHANGED vars
  <2> SUFFICES ASSUME IInv, Next, NEW c \in Calls, ctx[c] # "client", ctx'[c] = "client"
               PROVE  reader = "cancelling" /\ line[c].id = cancelId
    OBVIOUS
  <2>1. PICK d \in Calls : CancelHandle(d)
    <3>1. ctx' # ctx
      OBVIOUS
    <3>2. ~ClientStep
      <4>1. \A l \in Lines, d \in Calls : ~AdmitCall(d, l)
        BY DEF AdmitCall, IInv, TypeOK
      <4> QED BY <3>1, <4>1 DEF ClientStep, ReadEnd, AnswerLine, CollectHandles, RefuseCall
    <3>3. \A d \in Calls : ~OwnStep(d)
      BY <3>1 DEF OwnStep, StartCall, AcquireCallSlot, AbandonQueue, AbandonOpen, StartWorker,
                  WriteReply, CloseFiles, ReleaseCallSlot, ReleaseAdmission, EndContext, Deregister,
                  CallDone, IInv, TypeOK
    <3>4. \A d \in Calls : ~(OpenPath(d) \/ WalkStep(d) \/ WorkerReturns(d) \/ Deadline(d))
      BY <3>1 DEF OpenPath, WalkStep, CollectFile, CollectEnds, CollectFails, WorkerReturns,
                  Deadline, IInv, TypeOK
    <3>5. ~Shutdown /\ ~Terminated
      BY <3>1 DEF Shutdown, Terminated, vars, IInv, TypeOK
    <3>6. ReaderStep
      BY <3>2, <3>3, <3>4, <3>5 DEF Next
    <3> QED BY <3>1, <3>6 DEF ReaderStep, WriteSyncAnswer, CancelReturns, ServeReturns
  <2>2. d = c
    BY <2>1 DEF CancelHandle, IInv, TypeOK
  <2> QED BY <2>1, <2>2 DEF CancelHandle, IInv, ReaderFacts
<1> QED BY Invariance, <1>1, PTL DEF Spec, CancelHitsOnlyItsId

(* Only WorkerReturns answers with the worker's word, and only for a call   *)
(* whose context is live when it looks.                                     *)
THEOREM LateResultsLose == Spec => LateResultDiscarded
<1> DEFINE Lost == \A c \in Calls : (Ended(c) /\ reply[c] = "none") =>
                      reply'[c] \notin {"result", "E_WORKER"}
<1>1. IInv /\ [Next]_vars => Lost \/ UNCHANGED vars
  <2> SUFFICES ASSUME IInv, Next, NEW c \in Calls, Ended(c), reply[c] = "none",
                      reply'[c] \in {"result", "E_WORKER"}
               PROVE  FALSE
    OBVIOUS
  <2>1. reply' # reply
    OBVIOUS
  <2>2. ~ClientStep
    <3>1. \A l \in Lines, d \in Calls : ~RefuseCall(d, l)
      BY DEF RefuseCall, IInv, TypeOK
    <3> QED BY <2>1, <3>1 DEF ClientStep, ReadEnd, AnswerLine, CollectHandles, AdmitCall
  <2>3. ~ReaderStep /\ ~Shutdown /\ ~Terminated
    BY <2>1 DEF ReaderStep, WriteSyncAnswer, CancelHandle, CancelReturns, ServeReturns, Shutdown,
                Terminated, vars
  <2>4. \A d \in Calls : ~OwnStep(d)
    <3>1. \A d \in Calls : ~StartCall(d)
      <4> SUFFICES ASSUME NEW d \in Calls, StartCall(d) PROVE FALSE
        OBVIOUS
      <4>1. line[d] \in LineShape /\ initialized \in BOOLEAN
        BY McpAssumption DEF IInv, TypeOK, CallFacts, StartCall
      <4>2. EarlyAnswer(line[d], initialized) \in EarlyAnswers \cup {"none"}
        BY <4>1, AnswersInRange
      <4> QED BY <4>2 DEF StartCall, Reply, EarlyAnswers, IInv, TypeOK
    <3>2. \A d \in Calls : ~AbandonQueue(d) /\ ~AbandonOpen(d)
      BY DEF AbandonQueue, AbandonOpen, Reply, ContextFailure, IInv, TypeOK
    <3> QED BY <2>1, <3>1, <3>2
            DEF OwnStep, AcquireCallSlot, StartWorker, WriteReply, CloseFiles, ReleaseCallSlot,
                ReleaseAdmission, EndContext, Deregister, CallDone
  <2>5. \A d \in Calls : ~OpenPath(d) /\ ~WalkStep(d) /\ ~Deadline(d)
    BY <2>1 DEF OpenPath, WalkStep, CollectFile, CollectEnds, CollectFails, Deadline, Reply,
                ContextFailure, IInv, TypeOK
  <2>6. \A d \in Calls : ~WorkerReturns(d)
    BY DEF WorkerReturns, Reply, ContextFailure, IInv, TypeOK
  <2> QED BY <2>2, <2>3, <2>4, <2>5, <2>6 DEF Next
<1> QED BY Invariance, <1>1, PTL DEF Spec, LateResultDiscarded
=============================================================================
