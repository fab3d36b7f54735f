----------------------------- MODULE OpenProofs -----------------------------
(***************************************************************************)
(* Proofs about the two places that open files under a context: of          *)
(* OpenRelativeContext for any number of concurrent opens, any capacity of  *)
(* openSlots and any sequence of replacements of the file; of finspect for  *)
(* any words on its command line and any number of files, whenever signals, *)
(* the deadline and the worker come.                                        *)
(***************************************************************************)
EXTENDS MCOpens, Counting, SequenceTheorems

LivePhases == OpenerPhases \ {"none", "gone"}

(* The living goroutines, as a count of CountMoves. *)
LEMMA OpenersCounted ==
  /\ TypeOK => Openers = Where(Opens, opener, LivePhases)
  /\ TypeOK' => Openers' = Where(Opens, opener', LivePhases)
BY DEF Openers, Alive, Where, LivePhases, TypeOK

(* CountMoves for the goroutine of one open.                                *)
LEMMA OpenerCount ==
  ASSUME NEW P, NEW o \in Opens, \A q \in Opens : q # o => opener'[q] = opener[q]
  PROVE  /\ Cardinality(Where(Opens, opener, P)) \in Nat
         /\ (opener[o] \in P <=> opener'[o] \in P) =>
              Cardinality(Where(Opens, opener', P)) = Cardinality(Where(Opens, opener, P))
         /\ opener[o] \notin P /\ opener'[o] \in P =>
              Cardinality(Where(Opens, opener', P)) = Cardinality(Where(Opens, opener, P)) + 1
         /\ opener[o] \in P /\ opener'[o] \notin P =>
              /\ Cardinality(Where(Opens, opener', P)) = Cardinality(Where(Opens, opener, P)) - 1
              /\ Cardinality(Where(Opens, opener, P)) > 0
BY OpenAssumption, CountMoves, Zenon

(* A step of one goroutine moves openSlots exactly when it starts or ends.  *)
LEMMA SlotStep ==
  ASSUME IInv, TypeOK', NEW o \in Opens, NEW p \in OpenerPhases,
         opener' = [opener EXCEPT ![o] = p],
         \/ opener[o] \in LivePhases /\ p \in LivePhases /\ slots' = slots
         \/ opener[o] \notin LivePhases /\ p \in LivePhases /\ slots' = slots + 1 /\ slots < OpenSlots
         \/ opener[o] \in LivePhases /\ p \notin LivePhases /\ slots' = slots - 1
  PROVE  SlotPerOpener'
<1>1. opener'[o] = p /\ \A q \in Opens : q # o => opener'[q] = opener[q]
  BY DEF IInv, TypeOK
<1>2. Openers = Where(Opens, opener, LivePhases) /\ Openers' = Where(Opens, opener', LivePhases)
  BY OpenersCounted DEF IInv
<1>3. /\ Cardinality(Openers) \in Nat
      /\ (opener[o] \in LivePhases <=> p \in LivePhases) => Cardinality(Openers') = Cardinality(Openers)
      /\ opener[o] \notin LivePhases /\ p \in LivePhases =>
           Cardinality(Openers') = Cardinality(Openers) + 1
      /\ opener[o] \in LivePhases /\ p \notin LivePhases =>
           Cardinality(Openers') = Cardinality(Openers) - 1
  BY <1>1, <1>2, OpenerCount
<1>4. slots \in Nat /\ slots = Cardinality(Openers) /\ slots <= OpenSlots /\ OpenSlots \in Nat
  BY OpenAssumption DEF IInv, TypeOK, SlotPerOpener
<1>5. slots' = Cardinality(Openers') /\ slots' <= OpenSlots
  BY <1>3, <1>4
<1> QED BY <1>5 DEF SlotPerOpener

(* The invariant holds before anything is opened.                           *)
LEMMA InitIInv == Init => IInv
<1> SUFFICES ASSUME Init PROVE IInv
  OBVIOUS
<1>1. TypeOK
  BY DEF Init, TypeOK, CallerPhases, OpenerPhases
<1>2. Openers = {}
  BY DEF Init, Openers, Alive
<1>3. SlotPerOpener
  BY <1>2, FS_EmptySet, OpenAssumption DEF Init, SlotPerOpener
<1>4. DescriptorHasOwner /\ KeptFileWasValidated /\ \A o \in Opens : OpenFacts(o)
  BY DEF Init, DescriptorHasOwner, KeptFileWasValidated, OpenFacts
<1> QED BY <1>1, <1>3, <1>4 DEF IInv

(* A context that ends, and a file that is replaced, disturb nothing: no    *)
(* fact about a descriptor depends on what stands at the path now.          *)
LEMMA EnvironmentKeeps ==
  ASSUME IInv, (\E o \in Opens : ContextEnds(o)) \/ (\E i \in Inodes \cup {NoInode} : Replace(i))
  PROVE  IInv'
<1>1. TypeOK'
  BY DEF IInv, TypeOK, ContextEnds, Replace
<1>2. UNCHANGED <<slots, caller, opener, seen, fd, owner, outcome, regular>>
  BY DEF ContextEnds, Replace
<1>3. Openers' = Openers
  BY <1>2 DEF Openers, Alive
<1> QED BY <1>1, <1>2, <1>3 DEF IInv, SlotPerOpener, DescriptorHasOwner, KeptFileWasValidated, OpenFacts

(* The caller's own steps leave the goroutine, and so the slots, alone.     *)
LEMMA CallerKeeps ==
  ASSUME IInv, NEW o \in Opens,
         Begin(o) \/ GiveUp(o) \/ KeepOutcome(o) \/ CloseLate(o) \/ CloseByCaller(o)
  PROVE  IInv'
<1>1. TypeOK'
  BY DEF IInv, TypeOK, CallerPhases, Begin, GiveUp, KeepOutcome, CloseLate, CloseByCaller, Return
<1>2. SlotPerOpener'
  <2>1. UNCHANGED <<slots, opener>>
    BY DEF Begin, GiveUp, KeepOutcome, CloseLate, CloseByCaller
  <2>2. Openers' = Openers
    BY <2>1 DEF Openers, Alive
  <2> QED BY <2>1, <2>2 DEF IInv, SlotPerOpener
<1>3. DescriptorHasOwner'
  BY DEF IInv, TypeOK, DescriptorHasOwner, OpenFacts, Begin, GiveUp, KeepOutcome, CloseLate,
         CloseByCaller, Return
<1>4. KeptFileWasValidated'
  BY DEF IInv, TypeOK, KeptFileWasValidated, Begin, GiveUp, KeepOutcome, CloseLate, CloseByCaller
<1>5. \A q \in Opens : OpenFacts(q)'
  BY DEF IInv, TypeOK, OpenFacts, DescriptorHasOwner, Begin, GiveUp, KeepOutcome, CloseLate,
         CloseByCaller, Return
<1> QED BY <1>1, <1>2, <1>3, <1>4, <1>5 DEF IInv

(* A goroutine is started with one token; it has no descriptor yet. *)
LEMMA TakeOpenSlotKeeps ==
  ASSUME IInv, NEW o \in Opens, TakeOpenSlot(o)
  PROVE  IInv'
<1>1. TypeOK'
  BY DEF IInv, TypeOK, CallerPhases, OpenerPhases, TakeOpenSlot
<1>2. SlotPerOpener'
  BY <1>1, SlotStep DEF TakeOpenSlot, IInv, OpenFacts, LivePhases, OpenerPhases
<1>3. DescriptorHasOwner' /\ KeptFileWasValidated' /\ \A q \in Opens : OpenFacts(q)'
  BY DEF IInv, TypeOK, DescriptorHasOwner, KeptFileWasValidated, OpenFacts, TakeOpenSlot
<1> QED BY <1>1, <1>2, <1>3 DEF IInv

(* The rendezvous moves the descriptor from one owner to the other. *)
LEMMA HandOverKeeps ==
  ASSUME IInv, NEW o \in Opens, HandOver(o)
  PROVE  IInv'
<1>1. TypeOK'
  BY DEF IInv, TypeOK, CallerPhases, OpenerPhases, HandOver
<1>2. SlotPerOpener'
  BY <1>1, SlotStep DEF HandOver, LivePhases, OpenerPhases
<1>3. DescriptorHasOwner' /\ KeptFileWasValidated' /\ \A q \in Opens : OpenFacts(q)'
  BY DEF IInv, TypeOK, DescriptorHasOwner, KeptFileWasValidated, OpenFacts, HandOver
<1> QED BY <1>1, <1>2, <1>3 DEF IInv

(* openRelative: the descriptor it opens is its own until it is delivered,  *)
(* and is closed unless it is the file the lookup saw.                      *)
LEMMA FileSystemKeeps ==
  ASSUME IInv, NEW o \in Opens, FileSystemStep(o)
  PROVE  IInv'
<1>1. TypeOK'
  BY DEF IInv, TypeOK, OpenerPhases, FileSystemStep, LookUp, OpenFile, CheckIdentity
<1>2. SlotPerOpener'
  <2>1. PICK p \in {"opening", "checking", "opened", "failed"} : opener' = [opener EXCEPT ![o] = p]
    BY DEF FileSystemStep, LookUp, OpenFile, CheckIdentity
  <2>2. opener[o] \in LivePhases /\ slots' = slots
    BY DEF FileSystemStep, LookUp, OpenFile, CheckIdentity, LivePhases, OpenerPhases
  <2> QED BY <1>1, <2>1, <2>2, SlotStep DEF LivePhases, OpenerPhases
<1>3. DescriptorHasOwner'
  BY OpenAssumption DEF IInv, TypeOK, DescriptorHasOwner, OpenFacts, FileSystemStep, LookUp, OpenFile,
                        CheckIdentity
<1>4. KeptFileWasValidated'
  BY DEF IInv, TypeOK, KeptFileWasValidated, OpenFacts, FileSystemStep, LookUp, OpenFile,
                        CheckIdentity
<1>5. \A q \in Opens : OpenFacts(q)'
  BY OpenAssumption DEF IInv, TypeOK, OpenFacts, FileSystemStep, LookUp, OpenFile,
                        CheckIdentity
<1> QED BY <1>1, <1>2, <1>3, <1>4, <1>5 DEF IInv

(* A dropped result is closed, and the token goes back with the goroutine.  *)
LEMMA OpenerKeeps ==
  ASSUME IInv, NEW o \in Opens, OpenerStep(o)
  PROVE  IInv'
<1>1. slots > 0 \/ ~ReleaseOpenSlot(o)
  <2> SUFFICES ASSUME ReleaseOpenSlot(o) PROVE slots > 0
    BY DEF IInv, TypeOK
  <2>1. o \in Openers /\ IsFiniteSet(Openers)
    BY OpenAssumption, FS_Subset DEF ReleaseOpenSlot, Openers, Alive
  <2> QED BY <2>1, FS_EmptySet DEF IInv, TypeOK, SlotPerOpener
<1>2. TypeOK'
  BY <1>1 DEF IInv, TypeOK, OpenerPhases, OpenerStep, DropResult, ReleaseOpenSlot
<1>3. SlotPerOpener'
  BY <1>2, SlotStep DEF OpenerStep, DropResult, ReleaseOpenSlot, LivePhases, OpenerPhases
<1>4. DescriptorHasOwner' /\ KeptFileWasValidated'
  BY DEF IInv, TypeOK, DescriptorHasOwner, KeptFileWasValidated, OpenFacts, OpenerStep, DropResult,
         ReleaseOpenSlot
<1>5. \A q \in Opens : OpenFacts(q)'
  BY DEF IInv, TypeOK, OpenFacts, DescriptorHasOwner, OpenerStep, DropResult, ReleaseOpenSlot
<1> QED BY <1>2, <1>3, <1>4, <1>5 DEF IInv

(* Every step keeps the invariant. *)
LEMMA NextKeeps == IInv /\ [Next]_vars => IInv'
<1> SUFFICES ASSUME IInv, [Next]_vars PROVE IInv'
  OBVIOUS
<1>1. CASE UNCHANGED vars
  <2>1. Openers' = Openers
    BY <1>1 DEF vars, Openers, Alive
  <2> QED BY <1>1, <2>1 DEF vars, IInv, TypeOK, SlotPerOpener, DescriptorHasOwner,
                            KeptFileWasValidated, OpenFacts
<1>2. CASE Next
  BY <1>2, EnvironmentKeeps, CallerKeeps, TakeOpenSlotKeeps, HandOverKeeps, FileSystemKeeps,
     OpenerKeeps
     DEF Next, CallerStep
<1> QED BY <1>1, <1>2

(* The invariant holds for every number of opens and every capacity. *)
THEOREM Invariance == Spec => []IInv
BY InitIInv, NextKeeps, PTL DEF Spec

-----------------------------------------------------------------------------
(* Abandoned or not, every goroutine is covered by exactly one token.       *)
THEOREM SlotsBalance == Spec => []SlotPerOpener
<1>1. IInv => SlotPerOpener
  BY DEF IInv
<1> QED BY Invariance, <1>1, PTL

(* No descriptor is left without a side that will close it, and no caller   *)
(* holds a file that was not validated.                                     *)
THEOREM DescriptorsCovered == Spec => [](DescriptorHasOwner /\ KeptFileWasValidated)
<1>1. IInv => DescriptorHasOwner /\ KeptFileWasValidated
  BY DEF IInv
<1> QED BY Invariance, <1>1, PTL

(* A caller whose context has ended never returns a file or an authority    *)
(* error any more: the guard McpServer's OpenPath relies on.                *)
THEOREM EndedContextWins == Spec => NoFileAfterEnd
<1> DEFINE Wins == \A o \in Opens : (outcome[o] = "none" /\ ended[o]) => outcome'[o] \in {"none", "context"}
<1>1. IInv /\ [Next]_vars => Wins \/ UNCHANGED vars
  BY DEF IInv, TypeOK, OpenFacts, Next, CallerStep, FileSystemStep, OpenerStep, Begin, ContextEnds,
         CloseByCaller, TakeOpenSlot, GiveUp, HandOver, KeepOutcome, CloseLate, LookUp, OpenFile,
         CheckIdentity, DropResult, ReleaseOpenSlot, Replace, Return
<1> QED BY Invariance, <1>1, PTL DEF Spec, NoFileAfterEnd

-----------------------------------------------------------------------------
(* What the contract sees of an open depends on its caller, answer, files   *)
(* and context alone.                                                       *)
LEMMA Unseen ==
  ASSUME NEW o \in Opens, UNCHANGED <<caller[o], outcome[o], fd[o], seen[o], regular, ended[o]>>
  PROVE  /\ RequestOf(o)' = RequestOf(o) /\ HeldFor(o)' = HeldFor(o)
         /\ Promise!Becomes(o, [q \in Opens |-> RequestOf(q)][o], ended[o],
                            [q \in Opens |-> HeldFor(q)][o])
BY DEF RequestOf, HeldFor, Promise!Becomes

(* A step of one open is a step of the contract if it is one for that open. *)
LEMMA OneOpenSteps ==
  ASSUME NEW o \in Opens,
         \A q \in Opens \ {o} :
           UNCHANGED <<caller[q], outcome[q], fd[q], seen[q], regular, ended[q]>>,
         Promise!OpenStep(o) \/ UNCHANGED <<RequestOf(o), HeldFor(o), ended[o]>>
  PROVE  Promise!ContractNext
<1>1. ASSUME NEW q \in Opens \ {o}
      PROVE  Promise!Becomes(q, [r \in Opens |-> RequestOf(r)][q], ended[q],
                             [r \in Opens |-> HeldFor(r)][q])
  BY Unseen
<1>2. \/ Promise!OpenStep(o)
      \/ Promise!Becomes(o, [r \in Opens |-> RequestOf(r)][o], ended[o],
                         [r \in Opens |-> HeldFor(r)][o])
  BY DEF Promise!Becomes
<1> QED BY <1>1, <1>2 DEF Promise!ContractNext

(* Nothing has been opened at first, by the contract too. *)
LEMMA InitKept == Init => Promise!ContractInit
BY DEF Init, Promise!ContractInit, RequestOf, HeldFor

(* The environment: an open begins, its context ends, its file is closed or *)
(* the file at the path is replaced.                                        *)
LEMMA EnvironmentKept ==
  ASSUME IInv, NEW o \in Opens, Begin(o) \/ ContextEnds(o) \/ CloseByCaller(o)
  PROVE  Promise!ContractNext
<1>1. \A q \in Opens \ {o} :
        UNCHANGED <<caller[q], outcome[q], fd[q], seen[q], regular, ended[q]>>
  BY DEF IInv, TypeOK, Begin, ContextEnds, CloseByCaller
<1>2. CASE Begin(o)
  <2>1. Promise!Ask(o)
    BY <1>2 DEF IInv, TypeOK, Begin, Promise!Ask, Promise!Becomes, RequestOf, HeldFor
  <2> QED BY <1>1, <2>1, OneOpenSteps DEF Promise!OpenStep
<1>3. CASE ContextEnds(o)
  <2>1. Promise!End(o)
    BY <1>3 DEF IInv, TypeOK, ContextEnds, Promise!End, Promise!Becomes, RequestOf, HeldFor
  <2> QED BY <1>1, <2>1, OneOpenSteps DEF Promise!OpenStep
<1>4. CASE CloseByCaller(o)
  <2>1. Promise!Close(o)
    BY <1>4 DEF IInv, TypeOK, CloseByCaller, Promise!Close, Promise!Becomes, RequestOf, HeldFor
  <2> QED BY <1>1, <2>1, OneOpenSteps DEF Promise!OpenStep
<1> QED BY <1>2, <1>3, <1>4

(* The caller: taking a slot and the hand-over are invisible, the returns    *)
(* are answers.                                                             *)
LEMMA CallerKept ==
  ASSUME IInv, NEW o \in Opens, CallerStep(o)
  PROVE  Promise!ContractNext
<1>1. \A q \in Opens \ {o} :
        UNCHANGED <<caller[q], outcome[q], fd[q], seen[q], regular, ended[q]>>
  BY DEF IInv, TypeOK, CallerStep, TakeOpenSlot, GiveUp, HandOver, KeepOutcome, CloseLate, Return
<1>2. CASE TakeOpenSlot(o) \/ HandOver(o)
  <2>1. UNCHANGED <<RequestOf(o), HeldFor(o), ended[o]>>
    BY <1>2 DEF IInv, TypeOK, TakeOpenSlot, HandOver, RequestOf, HeldFor
  <2> QED BY <1>1, <2>1, OneOpenSteps
<1>3. CASE GiveUp(o) \/ CloseLate(o)
  <2>1. Promise!AnswerContext(o)
    BY <1>3 DEF IInv, TypeOK, GiveUp, CloseLate, Return, Promise!AnswerContext, Promise!Becomes,
                RequestOf, HeldFor
  <2> QED BY <1>1, <2>1, OneOpenSteps DEF Promise!OpenStep
<1>4. CASE KeepOutcome(o) /\ fd[o] = NoInode
  <2>1. Promise!AnswerError(o)
    BY <1>4 DEF IInv, TypeOK, KeepOutcome, Return, Promise!AnswerError, Promise!Becomes, RequestOf,
                HeldFor
  <2> QED BY <1>1, <2>1, OneOpenSteps DEF Promise!OpenStep
<1>5. CASE KeepOutcome(o) /\ fd[o] # NoInode
  <2>1. owner[o] = "caller" /\ HeldFor(o) = "checked"
    BY <1>5 DEF IInv, DescriptorHasOwner, KeptFileWasValidated, OpenFacts, TypeOK, KeepOutcome, HeldFor
  <2>2. Promise!AnswerFile(o)
    BY <1>5, <2>1 DEF IInv, TypeOK, KeepOutcome, Return, Promise!AnswerFile, Promise!Becomes,
                      RequestOf, HeldFor
  <2> QED BY <1>1, <2>2, OneOpenSteps DEF Promise!OpenStep
<1> QED BY <1>2, <1>3, <1>4, <1>5 DEF CallerStep

(* The goroutine, which may be at work for a caller that has left.          *)
LEMMA GoroutineKept ==
  ASSUME IInv, NEW o \in Opens, FileSystemStep(o) \/ OpenerStep(o)
  PROVE  Promise!ContractNext
<1>1. \A q \in Opens \ {o} :
        UNCHANGED <<caller[q], outcome[q], fd[q], seen[q], regular, ended[q]>>
  BY DEF IInv, TypeOK, FileSystemStep, LookUp, OpenFile, CheckIdentity, OpenerStep, DropResult,
         ReleaseOpenSlot
<1>2. RequestOf(o) \notin {"idle", "file"} \/ opener[o] \in {"releasing", "gone"}
  BY DEF IInv, OpenFacts, DescriptorHasOwner, TypeOK, RequestOf, FileSystemStep, LookUp, OpenFile,
         CheckIdentity, OpenerStep, DropResult, ReleaseOpenSlot, CallerPhases, OpenerPhases
<1>3. CASE LookUp(o) \/ ReleaseOpenSlot(o)
  <2>1. UNCHANGED <<RequestOf(o), HeldFor(o), ended[o]>>
    BY <1>3 DEF IInv, OpenFacts, DescriptorHasOwner, TypeOK, LookUp, ReleaseOpenSlot, RequestOf, HeldFor
  <2> QED BY <1>1, <2>1, OneOpenSteps
<1>4. CASE OpenFile(o)
  <2>1. HeldFor(o) = "nothing" /\ HeldFor(o)' \in {"nothing", "unchecked", "checked"}
    BY <1>4 DEF IInv, OpenFacts, DescriptorHasOwner, TypeOK, OpenFile, HeldFor
  <2>2. UNCHANGED <<RequestOf(o), ended[o]>>
    BY <1>4 DEF OpenFile, RequestOf
  <2>3. CASE HeldFor(o)' = "nothing"
    BY <1>1, <2>1, <2>2, <2>3, OneOpenSteps
  <2>4. CASE HeldFor(o)' # "nothing"
    <3>1. Promise!Open(o)
      BY <1>2, <1>4, <2>1, <2>2, <2>4 DEF OpenFile, Promise!Open, Promise!Becomes
    <3> QED BY <1>1, <3>1, OneOpenSteps DEF Promise!OpenStep
  <2> QED BY <2>3, <2>4
<1>5. CASE CheckIdentity(o) \/ DropResult(o)
  <2>1. UNCHANGED <<RequestOf(o), ended[o]>> /\ HeldFor(o)' \in {HeldFor(o), "nothing"}
    BY <1>5 DEF IInv, TypeOK, CheckIdentity, DropResult, RequestOf, HeldFor
  <2>2. CASE HeldFor(o)' = HeldFor(o)
    BY <1>1, <2>1, <2>2, OneOpenSteps
  <2>3. CASE HeldFor(o)' = "nothing"
    <3>1. Promise!Discard(o)
      BY <1>2, <1>5, <2>1, <2>3 DEF CheckIdentity, DropResult, Promise!Discard, Promise!Becomes
    <3> QED BY <1>1, <3>1, OneOpenSteps DEF Promise!OpenStep
  <2> QED BY <2>1, <2>2, <2>3
<1> QED BY <1>3, <1>4, <1>5 DEF FileSystemStep, OpenerStep

(* OpenRelativeContext implements the contract of an open: its callers get   *)
(* no late file and no other than the validated one, and what is opened for *)
(* a caller that left is closed, at every interleaving.                     *)
THEOREM ContractKept == Spec => AuthorityKeepsContract
<1>1. IInv /\ [Next]_vars => [Promise!ContractNext]_(Promise!contractVars)
  <2> SUFFICES ASSUME IInv, [Next]_vars PROVE [Promise!ContractNext]_(Promise!contractVars)
    OBVIOUS
  <2>1. CASE UNCHANGED vars \/ \E i \in Inodes \cup {NoInode} : Replace(i)
    <3>1. UNCHANGED <<[o \in Opens |-> RequestOf(o)], ended, [o \in Opens |-> HeldFor(o)]>>
      BY <2>1 DEF vars, Replace, RequestOf, HeldFor
    <3> QED BY <3>1 DEF Promise!contractVars
  <2>2. CASE \E o \in Opens : \/ Begin(o) \/ ContextEnds(o) \/ CloseByCaller(o)
                               \/ CallerStep(o) \/ FileSystemStep(o) \/ OpenerStep(o)
    BY <2>2, EnvironmentKept, CallerKept, GoroutineKept
  <2> QED BY <2>1, <2>2 DEF Next
<1> QED BY Invariance, InitKept, <1>1, PTL DEF Spec, AuthorityKeepsContract, Promise!ContractSafety

-----------------------------------------------------------------------------
(* The words of a command line. g is what the loop of a parser has read once *)
(* it has read the words at a set of positions, for the sets in D.          *)
Reads(g, c, w, D) ==
  g = [s \in D |-> IF s = {} THEN Unread ELSE ReadWord(c, g[s \ {Max(s)}], w[Max(s)])]
Readings(c, w) == CHOOSE g : Reads(g, c, w, SUBSET DOMAIN w)
After(c, w, n) == Readings(c, w)[1..n]

(* What is made of the words once all of them are read. *)
Concluded(c, w, read) ==
  LET refused == \/ read.refused \/ read.awaits # "none"
                 \/ ~PathsAccepted(c, read.paths)
                 \/ \E f \in Fields[c] : read.values[f] \notin Accepted[f]
  IN [refused |-> refused, paths |-> read.paths,
      json |-> IF refused THEN Contains(w, "--json") ELSE read.json]

(* A parser concludes from what its loop has read.                          *)
LEMMA ParseConcludes ==
  ASSUME NEW c, NEW w
  PROVE  Parse(c, w) = Concluded(c, w, Readings(c, w)[DOMAIN w])
BY DEF Parse, Concluded, Readings, Reads, FoldLeft, MapThenFoldSet

(* A set of positions that is not empty has a last one: the loop goes over   *)
(* the words from left to right.                                            *)
LEMMA LastPosition ==
  ASSUME NEW n \in Nat, NEW s \in SUBSET (1..n), s # {}
  PROVE  Max(s) \in s /\ \A y \in s : y <= Max(s)
<1> DEFINE C == {T \in SUBSET (1..n) : T # {} => \E x \in T : \A y \in T : x >= y}
<1>1. IsFiniteSet(1..n)
  BY FS_Interval
<1>2. ASSUME NEW T \in SUBSET (1..n), \A U \in SUBSET T : U # T => U \in C
      PROVE  T \in C
  <2>1. CASE T = {}
    BY <2>1
  <2>2. ASSUME NEW x \in T PROVE T \in C
    <3>1. T \ {x} \in C
      BY <1>2
    <3>2. CASE T \ {x} = {}
      <4>1. \A y \in T : x >= y
        BY <3>2
      <4> QED BY <4>1
    <3>3. CASE T \ {x} # {}
      <4>1. PICK z \in T \ {x} : \A y \in T \ {x} : z >= y
        BY <3>1, <3>3
      <4>2. x \in Int /\ z \in Int /\ \A y \in T : y \in Int
        OBVIOUS
      <4>3. CASE x >= z
        <5>1. \A y \in T : x >= y
          BY <4>1, <4>2, <4>3
        <5> QED BY <5>1
      <4>4. CASE ~(x >= z)
        <5>1. \A y \in T : z >= y
          BY <4>1, <4>2, <4>4
        <5> QED BY <4>1, <5>1
      <4> QED BY <4>3, <4>4
    <3> QED BY <3>2, <3>3
  <2> QED BY <2>1, <2>2
<1>3. SUBSET (1..n) \subseteq C
  <2> DEFINE D == 1..n
  <2>1. \A T \in SUBSET D : (\A U \in SUBSET T : U # T => U \in C) => T \in C
    BY <1>2
  <2>2. IsFiniteSet(D)
    BY <1>1
  <2> HIDE DEF C, D
  <2>3. SUBSET D \subseteq C
    BY <2>1, <2>2, SubsetInduction
  <2> QED BY <2>3 DEF D
<1>4. PICK x \in s : \A y \in s : x >= y
  BY <1>3
<1>5. Max(s) \in s /\ \A y \in s : Max(s) >= y
  BY <1>4 DEF Max
<1> QED BY <1>5

(* The recursion that the loop is does define what it reads.                *)
LEMMA WordsAreRead ==
  ASSUME NEW c, NEW w, NEW L \in Nat, DOMAIN w = 1..L
  PROVE  Reads(Readings(c, w), c, w, SUBSET DOMAIN w)
<1> DEFINE S == 1..L
           Small(n) == {s \in SUBSET S : Cardinality(s) <= n}
           N == {n \in Nat : \E g : Reads(g, c, w, Small(n))}
<1>0. /\ IsFiniteSet(S)
      /\ \A s \in SUBSET S : IsFiniteSet(s) /\ Cardinality(s) \in Nat /\ (Cardinality(s) = 0 <=> s = {})
  <2>1. IsFiniteSet(S)
    BY FS_Interval
  <2> QED BY <2>1, FS_Subset, FS_CardinalityType, FS_EmptySet
<1>r. \A s \in SUBSET S : s # {} =>
        s \ {Max(s)} \in SUBSET S /\ Cardinality(s \ {Max(s)}) = Cardinality(s) - 1
  BY <1>0, FS_RemoveElement, LastPosition
<1>1. 0 \in N
  <2>1. Small(0) = {{}}
    BY <1>0
  <2>2. Reads([s \in Small(0) |-> Unread], c, w, Small(0))
    BY <2>1 DEF Reads
  <2> QED BY <2>2
<1>2. ASSUME NEW n \in Nat, n \in N PROVE n + 1 \in N
  <2>1. PICK g : Reads(g, c, w, Small(n))
    BY <1>2
  <2> DEFINE h == [s \in Small(n + 1) |->
                     IF s = {} THEN Unread ELSE ReadWord(c, g[s \ {Max(s)}], w[Max(s)])]
  <2>2. \A s \in Small(n) : s \in Small(n + 1) /\ h[s] = g[s]
    <3>1. \A s \in Small(n) : s \in Small(n + 1)
      BY <1>0
    <3>2. g = [s \in Small(n) |-> IF s = {} THEN Unread ELSE ReadWord(c, g[s \ {Max(s)}], w[Max(s)])]
      BY <2>1 DEF Reads
    <3> HIDE DEF Small
    <3>3. ASSUME NEW s \in Small(n) PROVE h[s] = g[s]
      <4>1. g[s] = IF s = {} THEN Unread ELSE ReadWord(c, g[s \ {Max(s)}], w[Max(s)])
        BY <3>2, Zenon
      <4>2. h[s] = IF s = {} THEN Unread ELSE ReadWord(c, g[s \ {Max(s)}], w[Max(s)])
        BY <3>1, Zenon
      <4> QED BY <4>1, <4>2, Zenon
    <3> QED BY <3>1, <3>3
  <2>3. \A s \in Small(n + 1) : s # {} => s \ {Max(s)} \in Small(n)
    BY <1>0, <1>r
  <2>4. h = [s \in Small(n + 1) |-> IF s = {} THEN Unread ELSE ReadWord(c, h[s \ {Max(s)}], w[Max(s)])]
    BY <2>2, <2>3
  <2>5. Reads(h, c, w, Small(n + 1))
    BY <2>4 DEF Reads
  <2> HIDE DEF h, Small
  <2> QED BY <2>5
<1>3. Cardinality(S) \in N
  <2> HIDE DEF N
  <2> QED BY <1>0, <1>1, <1>2, NatSetInduction
<1>4. Small(Cardinality(S)) = SUBSET S
  BY <1>0, FS_Subset
<1> QED BY <1>3, <1>4 DEF Readings

(* The loop reads one word after the other.                                 *)
LEMMA OneWordMore ==
  ASSUME NEW c, NEW w, NEW L \in Nat, DOMAIN w = 1..L
  PROVE  /\ After(c, w, 0) = Unread
         /\ \A n \in 0..(L - 1) : After(c, w, n + 1) = ReadWord(c, After(c, w, n), w[n + 1])
<1>1. Reads(Readings(c, w), c, w, SUBSET (1..L))
  BY WordsAreRead
<1>2. 1..0 = {} /\ 1..0 \in SUBSET (1..L)
  OBVIOUS
<1>3. ASSUME NEW n \in 0..(L - 1)
      PROVE  After(c, w, n + 1) = ReadWord(c, After(c, w, n), w[n + 1])
  <2>1. 1..(n + 1) \in SUBSET (1..L) /\ 1..(n + 1) # {} /\ n + 1 \in Nat
    <3>1. n \in Nat /\ n + 1 \in 1..(n + 1) /\ n + 1 <= L
      OBVIOUS
    <3> QED BY <3>1
  <2>2. Max(1..(n + 1)) = n + 1
    <3>1. /\ Max(1..(n + 1)) \in 1..(n + 1)
          /\ \A y \in 1..(n + 1) : y <= Max(1..(n + 1))
      BY <2>1, LastPosition
    <3>2. n + 1 \in 1..(n + 1)
      BY <2>1
    <3> QED BY <3>1, <3>2
  <2>3. (1..(n + 1)) \ {n + 1} = 1..n
    OBVIOUS
  <2> QED BY <1>1, <2>1, <2>2, <2>3 DEF Reads, After
<1> QED BY <1>1, <1>2, <1>3 DEF Reads, After

-----------------------------------------------------------------------------
(* V is the set of the positions among the first n that are values of options. *)
AreValues(c, w, V, n) ==
  \A i \in 1..n : i \in V <=> i > 1 /\ i - 1 \notin V /\ Takes(c, w[i - 1])

(* Whether a word is a value depends on the words before it only, so the     *)
(* positions of values are well defined.                                    *)
LEMMA ValuesAreKnown ==
  ASSUME NEW c, NEW w, Len(w) \in Nat
  PROVE  /\ ValuePositions(c, w) \in SUBSET (1..Len(w))
         /\ AreValues(c, w, ValuePositions(c, w), Len(w))
<1> DEFINE N == {n \in Nat : \E V \in SUBSET (1..n) : AreValues(c, w, V, n)}
<1>1. 0 \in N
  <2>1. AreValues(c, w, {}, 0)
    BY DEF AreValues
  <2> QED BY <2>1
<1>2. ASSUME NEW n \in Nat, n \in N PROVE n + 1 \in N
  <2>1. PICK V \in SUBSET (1..n) : AreValues(c, w, V, n)
    BY <1>2
  <2> DEFINE next == n > 0 /\ n \notin V /\ Takes(c, w[n])
             W == IF next THEN V \cup {n + 1} ELSE V
  <2>2. W \in SUBSET (1..(n + 1)) /\ (\A i \in 1..n : i \in W <=> i \in V) /\ (n + 1 \in W <=> next)
    BY <2>1
  <2>3. ASSUME NEW i \in 1..(n + 1)
        PROVE  i \in W <=> i > 1 /\ i - 1 \notin W /\ Takes(c, w[i - 1])
    <3>1. CASE i \in 1..n
      <4>1. i \in W <=> i \in V
        BY <2>2, <3>1
      <4>2. i > 1 => (i - 1 \in W <=> i - 1 \in V)
        BY <2>2, <3>1
      <4> HIDE DEF W
      <4> QED BY <2>1, <3>1, <4>1, <4>2 DEF AreValues
    <3>2. CASE i = n + 1
      <4>1. i - 1 = n /\ (i > 1 <=> n > 0)
        BY <3>2
      <4>2. n > 0 => (n \in W <=> n \in V)
        BY <2>2
      <4> HIDE DEF W
      <4> QED BY <2>2, <3>2, <4>1, <4>2
    <3> QED BY <3>1, <3>2
  <2>4. AreValues(c, w, W, n + 1)
    BY <2>3 DEF AreValues
  <2> HIDE DEF W
  <2> QED BY <2>2, <2>4
<1>3. Len(w) \in N
  <2> HIDE DEF N
  <2> QED BY <1>1, <1>2, NatSetInduction
<1>4. PICK V \in SUBSET (1..Len(w)) : AreValues(c, w, V, Len(w))
  BY <1>3
<1> QED BY <1>4 DEF ValuePositions, AreValues

(* The paths among the first n words, and those that an inspection counts.   *)
PathsTo(c, w, n) == {i \in OwnWords(c, w) \cap 1..n : w[i] \notin OptionWords}
Named(c, w, n) == {i \in PathsTo(c, w, n) : c = "inspect" => w[i] # ""}

(* The words a parser refuses where it reads them: an unknown option, no     *)
(* number where one has to be, and a second path.                           *)
Misfit(c, w, i) ==
  \/ i \in OwnWords(c, w) /\ w[i] \in OptionWords /\ w[i] # "--json" /\ ~Takes(c, w[i]) /\ ~Carries(c, w[i])
  \/ SetAt(c, w, i)[1] \in Parsed /\ SetAt(c, w, i)[2] \notin Numbers[SetAt(c, w, i)[1]]
  \/ c # "batch" /\ i \in PathsTo(c, w, i) /\ \E j \in Named(c, w, i) : j < i

(* What the first n words leave in field f. *)
LastSet(c, w, n, f, value) ==
  \/ \E i \in 1..n : /\ SetAt(c, w, i)[1] = f /\ value = SetAt(c, w, i)[2]
                     /\ \A j \in (i + 1)..n : SetAt(c, w, j)[1] # f
  \/ value = Defaults[f] /\ \A i \in 1..n : SetAt(c, w, i)[1] # f

(* The paths that were read: of a batch, all of them; otherwise the one.    *)
Apart(paths) == \A i, j \in 1..Len(paths) : Clean(paths[i]) = Clean(paths[j]) => i = j
ApartAt(w, P) == \A i, j \in P : Clean(w[i]) = Clean(w[j]) => i = j
Cleaned(paths) == {Clean(paths[k]) : k \in 1..Len(paths)}
PathsRead(c, w, n, paths) ==
  IF c = "batch"
  THEN /\ Len(paths) = Cardinality(PathsTo(c, w, n))
       /\ Cleaned(paths) = {Clean(w[i]) : i \in PathsTo(c, w, n)}
       /\ Apart(paths) <=> ApartAt(w, PathsTo(c, w, n))
  ELSE \/ paths = <<>> /\ Named(c, w, n) = {}
       \/ Len(paths) = 1 /\ \E i \in Named(c, w, n) :
                              \A j \in PathsTo(c, w, n) : j # i => j < i /\ j \notin Named(c, w, n)

(* What the loop knows when it has read n words. *)
FieldNames == {"mode", "hash", "timeout", "expected", "depth"}
Words(w) == {w[i] : i \in 1..Len(w)}
IsReadout(w, read) ==
  /\ read = [values |-> read.values, paths |-> read.paths, json |-> read.json,
             awaits |-> read.awaits, refused |-> read.refused]
  /\ read.values = [f \in FieldNames |-> read.values[f]]
  /\ read.paths \in Seq(Words(w)) /\ read.json \in BOOLEAN /\ read.refused \in BOOLEAN
ReadRight(c, w, n, read) ==
  /\ IsReadout(w, read)
  /\ read.refused <=> \E i \in 1..n : Misfit(c, w, i)
  /\ ~read.refused =>
       /\ read.awaits = IF n \in OwnWords(c, w) /\ Takes(c, w[n]) THEN Awaiting[w[n]] ELSE "none"
       /\ read.json <=> \E i \in OwnWords(c, w) \cap 1..n : w[i] = "--json"
       /\ \A f \in Fields[c] : LastSet(c, w, n, f, read.values[f])
       /\ PathsRead(c, w, n, read.paths)

(* The options and their fields: no word is an option of two kinds.         *)
LEMMA OptionsApart ==
  ASSUME NEW c \in {"inspect", "batch", "inventory"}
  PROVE  /\ \A x : ~(Takes(c, x) /\ Carries(c, x)) /\ ~Takes(c, "--json") /\ ~Carries(c, "--json")
         /\ \A x : Takes(c, x) => Awaiting[x] \in Fields[c]
         /\ \A x : Carries(c, x) => Carried[x][1] \in Fields[c] /\ x \in DOMAIN Carried
         /\ \A x : Takes(c, x) \/ Carries(c, x) \/ x \in DOMAIN Carried \/ x = "--json" => x \in OptionWords
         /\ Fields[c] \subseteq FieldNames
<1>1. /\ DOMAIN Carried \cap DOMAIN Awaiting = {}
      /\ "--json" \notin DOMAIN Carried /\ "--json" \notin DOMAIN Awaiting
  BY DEF Carried, Awaiting
<1>2. Fields[c] \subseteq FieldNames
  BY DEF Fields, FieldNames
<1> QED BY <1>1, <1>2 DEF Takes, Carries, OptionWords

(* What the fields are before the first word: each has a value in range.    *)
LEMMA DefaultsAccepted ==
  ASSUME NEW c \in {"inspect", "batch", "inventory"}, NEW f \in Fields[c]
  PROVE  Defaults[f] \in Accepted[f] /\ f # "none"
<1>1. f \in FieldNames
  BY DEF Fields, FieldNames
<1>2. /\ Defaults.mode \in Accepted.mode /\ Defaults.hash \in Accepted.hash
      /\ Defaults.timeout \in Accepted.timeout /\ Defaults.expected \in Accepted.expected
      /\ Defaults.depth \in Accepted.depth
  BY DEF Defaults, Accepted
<1> QED BY <1>1, <1>2 DEF FieldNames

(* Before the first word nothing is read.                                   *)
LEMMA NothingIsRead ==
  ASSUME NEW c \in {"inspect", "batch", "inventory"}, NEW w
  PROVE  ReadRight(c, w, 0, Unread)
<1>1. IsReadout(w, Unread)
  <2>1. <<>> \in Seq(Words(w))
    BY EmptySeq
  <2>2. Defaults = [f \in FieldNames |-> Defaults[f]]
    BY DEF Defaults, FieldNames
  <2> QED BY <2>1, <2>2 DEF Unread, IsReadout
<1>2. /\ 1..0 = {} /\ 0 \notin OwnWords(c, w)
      /\ PathsTo(c, w, 0) = {} /\ Named(c, w, 0) = {}
  BY DEF PathsTo, Named, OwnWords
<1>3. Len(<<>>) = 0 /\ Cardinality({}) = 0
  BY FS_EmptySet
<1>4. PathsRead(c, w, 0, <<>>)
  BY <1>2, <1>3 DEF PathsRead, Cleaned, Apart, ApartAt
<1>5. ASSUME NEW f \in Fields[c] PROVE LastSet(c, w, 0, f, Defaults[f])
  BY <1>2 DEF LastSet
<1>6. /\ Unread.values = Defaults /\ Unread.paths = <<>> /\ Unread.json = FALSE
      /\ Unread.awaits = "none" /\ Unread.refused = FALSE
  BY DEF Unread
<1> QED BY <1>1, <1>2, <1>4, <1>5, <1>6 DEF ReadRight

(* The paths stay the same behind a word that is none.                      *)
LEMMA NoPathMore ==
  ASSUME NEW c, NEW w, NEW n \in Nat, n + 1 \notin PathsTo(c, w, n + 1)
  PROVE  PathsTo(c, w, n + 1) = PathsTo(c, w, n) /\ Named(c, w, n + 1) = Named(c, w, n)
<1>1. PathsTo(c, w, n + 1) = PathsTo(c, w, n)
  BY DEF PathsTo
<1> QED BY <1>1 DEF Named

(* A word sets one field and leaves the others.                             *)
LEMMA SetNow ==
  ASSUME NEW c, NEW w, NEW n \in Nat, NEW f, NEW value, f # "none",
         SetAt(c, w, n + 1)[1] = f /\ value = SetAt(c, w, n + 1)[2]
  PROVE  LastSet(c, w, n + 1, f, value)
<1>1. n + 1 \in 1..(n + 1) /\ ((n + 1) + 1)..(n + 1) = {}
  OBVIOUS
<1> QED BY <1>1 DEF LastSet

(* What a word does not set stays as it was.                                *)
LEMMA SetBefore ==
  ASSUME NEW c, NEW w, NEW n \in Nat, NEW f, NEW value, LastSet(c, w, n, f, value),
         SetAt(c, w, n + 1)[1] # f
  PROVE  LastSet(c, w, n + 1, f, value)
<1>1. CASE value = Defaults[f] /\ \A i \in 1..n : SetAt(c, w, i)[1] # f
  <2>1. \A i \in 1..(n + 1) : SetAt(c, w, i)[1] # f
    <3>1. \A i \in 1..(n + 1) : i \in 1..n \/ i = n + 1
      OBVIOUS
    <3> QED BY <1>1, <3>1
  <2> QED BY <1>1, <2>1 DEF LastSet
<1>2. ASSUME NEW i \in 1..n, SetAt(c, w, i)[1] = f, value = SetAt(c, w, i)[2],
             \A j \in (i + 1)..n : SetAt(c, w, j)[1] # f
      PROVE  LastSet(c, w, n + 1, f, value)
  <2>1. i \in 1..(n + 1) /\ \A j \in (i + 1)..(n + 1) : j \in (i + 1)..n \/ j = n + 1
    OBVIOUS
  <2>2. \A j \in (i + 1)..(n + 1) : SetAt(c, w, j)[1] # f
    BY <1>2, <2>1
  <2> QED BY <1>2, <2>1, <2>2 DEF LastSet
<1> QED BY <1>1, <1>2 DEF LastSet

(* The loop has read n words of w, has refused none, and there is one more. *)
Midway(c, w, n, read) ==
  /\ c \in {"inspect", "batch", "inventory"}
  /\ Len(w) \in Nat /\ n \in 0..(Len(w) - 1)
  /\ ReadRight(c, w, n, read) /\ ~read.refused

(* The next word is the value of an option exactly when the loop awaits one. *)
LEMMA NextPosition ==
  ASSUME NEW c, NEW w, NEW n, NEW read, Midway(c, w, n, read)
  PROVE  /\ n \in Nat /\ n + 1 \in 1..Len(w) /\ ~(\E i \in 1..n : Misfit(c, w, i))
         /\ n + 1 \in OwnWords(c, w) <=> n + 1 \notin ValuePositions(c, w)
         /\ read.awaits # "none" <=> n + 1 \in ValuePositions(c, w)
         /\ read.awaits # "none" =>
              read.awaits = Awaiting[w[n]] /\ read.awaits \in Fields[c] /\ w[(n + 1) - 1] = w[n]
<1>1. n \in Nat /\ n + 1 \in 1..Len(w) /\ (n + 1) - 1 = n
  BY DEF Midway
<1>2. AreValues(c, w, ValuePositions(c, w), Len(w))
  BY ValuesAreKnown DEF Midway
<1>3. n + 1 \in ValuePositions(c, w) <=> n > 0 /\ n \notin ValuePositions(c, w) /\ Takes(c, w[n])
  <2>1. n + 1 > 1 <=> n > 0
    BY <1>1
  <2> QED BY <1>1, <1>2, <2>1 DEF AreValues
<1>4. n \in OwnWords(c, w) <=> n > 0 /\ n \notin ValuePositions(c, w)
  BY <1>1 DEF OwnWords, Midway
<1>5. /\ read.awaits = IF n \in OwnWords(c, w) /\ Takes(c, w[n]) THEN Awaiting[w[n]] ELSE "none"
      /\ ~(\E i \in 1..n : Misfit(c, w, i))
  BY DEF Midway, ReadRight
<1>6. Takes(c, w[n]) => Awaiting[w[n]] \in Fields[c] /\ Awaiting[w[n]] # "none"
  BY OptionsApart DEF Midway, FieldNames
<1> QED BY <1>1, <1>3, <1>4, <1>5, <1>6 DEF OwnWords

(* The paths that were read, behind a word that is none.                    *)
LEMMA SamePaths ==
  ASSUME NEW c, NEW w, NEW n, NEW read, Midway(c, w, n, read), n + 1 \notin PathsTo(c, w, n + 1)
  PROVE  PathsRead(c, w, n + 1, read.paths)
<1>1. n \in Nat
  BY NextPosition
<1>2. PathsTo(c, w, n + 1) = PathsTo(c, w, n) /\ Named(c, w, n + 1) = Named(c, w, n)
  BY <1>1, NoPathMore
<1>3. PathsRead(c, w, n, read.paths)
  BY DEF Midway, ReadRight
<1> QED BY <1>2, <1>3 DEF PathsRead

(* What has to hold behind one more word, so that the loop is right then.   *)
LEMMA SettingRead ==
  ASSUME NEW c, NEW w, NEW n, NEW read, Midway(c, w, n, read), NEW new, IsReadout(w, new),
         new.json <=> read.json \/ (n + 1 \in OwnWords(c, w) /\ w[n + 1] = "--json"),
         new.refused <=> Misfit(c, w, n + 1),
         ~new.refused => PathsRead(c, w, n + 1, new.paths),
         ~new.refused =>
           /\ new.awaits = IF n + 1 \in OwnWords(c, w) /\ Takes(c, w[n + 1])
                            THEN Awaiting[w[n + 1]] ELSE "none"
           /\ \A f \in Fields[c] : \/ new.values[f] = read.values[f] /\ SetAt(c, w, n + 1)[1] # f
                                   \/ SetAt(c, w, n + 1) = <<f, new.values[f]>>
  PROVE  ReadRight(c, w, n + 1, new)
<1>1. n \in Nat /\ n + 1 \in 1..Len(w) /\ ~(\E i \in 1..n : Misfit(c, w, i))
  BY NextPosition
<1>2. \A i \in 1..(n + 1) : i \in 1..n \/ i = n + 1
  BY <1>1
<1>3. new.refused <=> \E i \in 1..(n + 1) : Misfit(c, w, i)
  BY <1>1, <1>2
<1>4. ASSUME ~new.refused PROVE \A f \in Fields[c] : LastSet(c, w, n + 1, f, new.values[f])
  <2> SUFFICES ASSUME NEW f \in Fields[c] PROVE LastSet(c, w, n + 1, f, new.values[f])
    OBVIOUS
  <2>1. LastSet(c, w, n, f, read.values[f])
    BY DEF Midway, ReadRight
  <2>2. CASE new.values[f] = read.values[f] /\ SetAt(c, w, n + 1)[1] # f
    BY <1>1, <2>1, <2>2, SetBefore
  <2>3. CASE SetAt(c, w, n + 1) = <<f, new.values[f]>>
    <3>1. f # "none"
      BY DefaultsAccepted DEF Midway
    <3> QED BY <1>1, <2>3, <3>1, SetNow
  <2> QED BY <1>4, <2>2, <2>3
<1>6. new.json <=> \E i \in OwnWords(c, w) \cap 1..(n + 1) : w[i] = "--json"
  <2>1. read.json <=> \E i \in OwnWords(c, w) \cap 1..n : w[i] = "--json"
    BY DEF Midway, ReadRight
  <2>2. \A i \in OwnWords(c, w) \cap 1..(n + 1) : i \in OwnWords(c, w) \cap 1..n \/ i = n + 1
    BY <1>2
  <2>3. \A i \in OwnWords(c, w) \cap 1..n : i \in OwnWords(c, w) \cap 1..(n + 1)
    BY <1>1
  <2>4. n + 1 \in 1..(n + 1)
    BY <1>1
  <2> QED BY <2>1, <2>2, <2>3, <2>4
<1> QED BY <1>3, <1>4, <1>6 DEF ReadRight

(* What setting a field does. *)
Assigned(w, read, f, value, new) ==
  /\ IsReadout(w, new)
  /\ new.paths = read.paths /\ new.json = read.json /\ new.awaits = "none"
  /\ new.refused <=> f \in Parsed /\ value \notin Numbers[f]
  /\ new.values = [read.values EXCEPT ![f] = value]

(* An option's value goes into its field, and is refused if it has to be a   *)
(* number and is none.                                                      *)
LEMMA AssignSets ==
  ASSUME NEW w, NEW read, IsReadout(w, read), NEW f, NEW value
  PROVE  Assigned(w, read, f, value, Assign(read, f, value))
<1> DEFINE new == Assign(read, f, value)
<1> DEFINE refused == f \in Parsed /\ value \notin Numbers[f]
<1>1. new = [values |-> [read.values EXCEPT ![f] = value], paths |-> read.paths, json |-> read.json,
             awaits |-> "none", refused |-> refused]
  <2> DEFINE r1 == [read EXCEPT !.values[f] = value]
             r2 == [r1 EXCEPT !.awaits = "none"]
             r3 == [r2 EXCEPT !.refused = refused]
  <2>1. r1 = [values |-> [read.values EXCEPT ![f] = value], paths |-> read.paths, json |-> read.json,
              awaits |-> read.awaits, refused |-> read.refused]
    <3> DEFINE v == read.values
               p == read.paths
               j == read.json
               a == read.awaits
               b == read.refused
    <3>1. read = [values |-> v, paths |-> p, json |-> j, awaits |-> a, refused |-> b]
      BY DEF IsReadout
    <3> HIDE DEF v, p, j, a, b
    <3>2. r1 = [values |-> [v EXCEPT ![f] = value], paths |-> p, json |-> j, awaits |-> a, refused |-> b]
      BY <3>1
    <3> QED BY <3>2 DEF v, p, j, a, b
  <2>2. new = r3
    BY DEF Assign
  <2>3. r2 = [values |-> [read.values EXCEPT ![f] = value], paths |-> read.paths, json |-> read.json,
              awaits |-> "none", refused |-> read.refused]
    <3> HIDE DEF r1
    <3> QED BY <2>1
  <2>4. r3 = [values |-> [read.values EXCEPT ![f] = value], paths |-> read.paths, json |-> read.json,
              awaits |-> "none", refused |-> refused]
    <3> HIDE DEF r2, refused
    <3> QED BY <2>3
  <2> QED BY <2>2, <2>4
<1>2. [read.values EXCEPT ![f] = value] = [g \in FieldNames |-> [read.values EXCEPT ![f] = value][g]]
  <2> DEFINE v == read.values
             u == [v EXCEPT ![f] = value]
  <2>1. v = [g \in FieldNames |-> v[g]]
    BY DEF IsReadout
  <2> HIDE DEF v
  <2>2. u = [g \in FieldNames |-> IF g = f THEN value ELSE v[g]]
    BY <2>1
  <2> HIDE DEF u
  <2>3. u = [g \in FieldNames |-> u[g]]
    BY <2>2
  <2> QED BY <2>3 DEF u, v
<1>3. refused \in BOOLEAN
  OBVIOUS
<1> HIDE DEF refused
<1>4. /\ new.values = [read.values EXCEPT ![f] = value] /\ new.paths = read.paths
      /\ new.json = read.json /\ new.awaits = "none" /\ new.refused = refused
  BY <1>1
<1>5. IsReadout(w, new)
  BY <1>1, <1>2, <1>3, <1>4 DEF IsReadout
<1> HIDE DEF new
<1>6. Assigned(w, read, f, value, new)
  BY <1>4, <1>5 DEF refused, Assigned
<1> QED BY <1>6 DEF new

(* The value an option waits for sets its field, whatever it looks like.    *)
LEMMA ValueRead ==
  ASSUME NEW c, NEW w, NEW n, NEW read, Midway(c, w, n, read), read.awaits # "none"
  PROVE  ReadRight(c, w, n + 1, Assign(read, read.awaits, w[n + 1]))
<1> DEFINE f == read.awaits
           new == Assign(read, f, w[n + 1])
<1>1. /\ n \in Nat /\ n + 1 \in 1..Len(w) /\ n + 1 \in ValuePositions(c, w)
      /\ n + 1 \notin OwnWords(c, w) /\ f = Awaiting[w[n]] /\ f \in Fields[c] /\ w[(n + 1) - 1] = w[n]
  BY NextPosition
<1>2. SetAt(c, w, n + 1) = <<f, w[n + 1]>>
  BY <1>1 DEF SetAt
<1>3. Fields[c] \subseteq FieldNames
  BY OptionsApart DEF Midway
<1>4. IsReadout(w, read)
  BY DEF Midway, ReadRight
<1>5. /\ IsReadout(w, new) /\ new.paths = read.paths /\ new.json = read.json /\ new.awaits = "none"
      /\ new.refused <=> f \in Parsed /\ w[n + 1] \notin Numbers[f]
      /\ new.values = [read.values EXCEPT ![f] = w[n + 1]]
  <2> HIDE DEF f
  <2>1. Assigned(w, read, f, w[n + 1], new)
    BY <1>4, AssignSets
  <2> HIDE DEF new
  <2> QED BY <2>1 DEF Assigned
<1>6. Misfit(c, w, n + 1) <=> f \in Parsed /\ w[n + 1] \notin Numbers[f]
  BY <1>1, <1>2 DEF Misfit, PathsTo
<1>7. \A g \in Fields[c] : \/ new.values[g] = read.values[g] /\ SetAt(c, w, n + 1)[1] # g
                           \/ SetAt(c, w, n + 1) = <<g, new.values[g]>>
  BY <1>1, <1>2, <1>3, <1>4, <1>5 DEF IsReadout
<1>8. PathsRead(c, w, n + 1, new.paths)
  <2>1. n + 1 \notin PathsTo(c, w, n + 1)
    BY <1>1 DEF PathsTo
  <2> QED BY <1>5, <2>1, SamePaths
<1> HIDE DEF f, new
<1>9. ReadRight(c, w, n + 1, new)
  BY <1>1, <1>5, <1>6, <1>7, <1>8, SettingRead
<1> QED BY <1>9 DEF f, new

(* Where a word is on its own, no option waits for it.                      *)
LEMMA OwnWord ==
  ASSUME NEW c, NEW w, NEW n, NEW read, Midway(c, w, n, read), read.awaits = "none"
  PROVE  /\ n \in Nat /\ n + 1 \in 1..Len(w)
         /\ n + 1 \in OwnWords(c, w) /\ n + 1 \notin ValuePositions(c, w)
         /\ IsReadout(w, read) /\ ~read.refused
BY NextPosition DEF Midway, ReadRight

(* An option that waits for its value.                                      *)
LEMMA AwaitingRead ==
  ASSUME NEW c, NEW w, NEW n, NEW read, Midway(c, w, n, read), read.awaits = "none", Takes(c, w[n + 1])
  PROVE  ReadRight(c, w, n + 1, [read EXCEPT !.awaits = Awaiting[w[n + 1]]])
<1> DEFINE a == Awaiting[w[n + 1]]
           new == [read EXCEPT !.awaits = a]
<1>1. /\ n \in Nat /\ n + 1 \in 1..Len(w) /\ n + 1 \in OwnWords(c, w) /\ n + 1 \notin ValuePositions(c, w)
      /\ IsReadout(w, read) /\ ~read.refused
  BY OwnWord
<1>2. /\ w[n + 1] \in OptionWords /\ w[n + 1] # "--json" /\ w[n + 1] \notin DOMAIN Carried
  <2>1. w[n + 1] \in DOMAIN Awaiting
    BY DEF Takes
  <2> QED BY <2>1 DEF Awaiting, Carried, OptionWords
<1>3. SetAt(c, w, n + 1) = <<"none", "none">>
  BY <1>1, <1>2 DEF SetAt
<1>4. /\ new = [values |-> read.values, paths |-> read.paths, json |-> read.json,
               awaits |-> a, refused |-> read.refused]
  BY <1>1 DEF IsReadout
<1> HIDE DEF new, a
<1>5. /\ new.values = read.values /\ new.paths = read.paths /\ new.json = read.json
      /\ new.awaits = a /\ new.refused = read.refused
  BY <1>4
<1>6. IsReadout(w, new)
  BY <1>1, <1>4, <1>5 DEF IsReadout
<1>7. n + 1 \notin PathsTo(c, w, n + 1)
  BY <1>2 DEF PathsTo
<1>8. ~Misfit(c, w, n + 1)
  BY <1>2, <1>3, <1>7 DEF Misfit, Parsed
<1>9. \A f \in Fields[c] : f # "none"
  BY DefaultsAccepted DEF Midway
<1>10. \A f \in Fields[c] : new.values[f] = read.values[f] /\ SetAt(c, w, n + 1)[1] # f
  BY <1>3, <1>5, <1>9
<1>11. PathsRead(c, w, n + 1, new.paths)
  BY <1>5, <1>7, SamePaths
<1>12. ReadRight(c, w, n + 1, new)
  BY <1>1, <1>2, <1>5, <1>6, <1>8, <1>10, <1>11, SettingRead DEF a
<1> QED BY <1>12 DEF new, a

(* An option that carries its value.                                        *)
LEMMA CarriedRead ==
  ASSUME NEW c, NEW w, NEW n, NEW read, Midway(c, w, n, read), read.awaits = "none", Carries(c, w[n + 1])
  PROVE  ReadRight(c, w, n + 1, Assign(read, Carried[w[n + 1]][1], Carried[w[n + 1]][2]))
<1> DEFINE f == Carried[w[n + 1]][1]
           value == Carried[w[n + 1]][2]
           new == Assign(read, f, value)
<1>1. /\ n \in Nat /\ n + 1 \in 1..Len(w) /\ n + 1 \in OwnWords(c, w) /\ n + 1 \notin ValuePositions(c, w)
      /\ IsReadout(w, read) /\ ~read.refused
  BY OwnWord
<1>2. /\ w[n + 1] \in OptionWords /\ w[n + 1] # "--json" /\ w[n + 1] \in DOMAIN Carried
      /\ ~Takes(c, w[n + 1]) /\ f \in Fields[c] /\ Fields[c] \subseteq FieldNames
  BY OptionsApart DEF Midway
<1>3. SetAt(c, w, n + 1) = Carried[w[n + 1]]
  BY <1>1, <1>2 DEF SetAt
<1>4. Carried[w[n + 1]] = <<f, value>>
  <2>1. w[n + 1] \in {"--quick", "--mode=deep", "--mode=fast", "--sha256", "--timeout=1h", "--max-depth=9"}
    BY <1>2 DEF Carried
  <2>2. \A x \in {"--quick", "--mode=deep", "--mode=fast", "--sha256", "--timeout=1h", "--max-depth=9"} :
          Carried[x] = <<Carried[x][1], Carried[x][2]>>
    BY DEF Carried
  <2> QED BY <2>1, <2>2
<1>5. /\ IsReadout(w, new) /\ new.paths = read.paths /\ new.json = read.json /\ new.awaits = "none"
      /\ new.refused <=> f \in Parsed /\ value \notin Numbers[f]
      /\ new.values = [read.values EXCEPT ![f] = value]
  <2> HIDE DEF f, value
  <2>1. Assigned(w, read, f, value, new)
    BY <1>1, AssignSets
  <2> HIDE DEF new
  <2> QED BY <2>1 DEF Assigned
<1>6. n + 1 \notin PathsTo(c, w, n + 1)
  BY <1>2 DEF PathsTo
<1>7. SetAt(c, w, n + 1)[1] = f /\ SetAt(c, w, n + 1)[2] = value
  BY <1>3
<1> HIDE DEF f, value, new
<1>8. Misfit(c, w, n + 1) <=> f \in Parsed /\ value \notin Numbers[f]
  BY <1>2, <1>6, <1>7 DEF Misfit
<1>9. \A g \in Fields[c] : \/ new.values[g] = read.values[g] /\ SetAt(c, w, n + 1)[1] # g
                           \/ SetAt(c, w, n + 1) = <<g, new.values[g]>>
  <2> SUFFICES ASSUME NEW g \in Fields[c]
               PROVE  \/ new.values[g] = read.values[g] /\ SetAt(c, w, n + 1)[1] # g
                      \/ SetAt(c, w, n + 1) = <<g, new.values[g]>>
    OBVIOUS
  <2>1. g \in DOMAIN read.values /\ f \in DOMAIN read.values
    BY <1>1, <1>2 DEF IsReadout
  <2> QED BY <1>3, <1>4, <1>5, <1>7, <2>1
<1>10. PathsRead(c, w, n + 1, new.paths)
  BY <1>5, <1>6, SamePaths
<1>11. ReadRight(c, w, n + 1, new)
  BY <1>1, <1>2, <1>5, <1>8, <1>9, <1>10, SettingRead
<1> QED BY <1>11 DEF f, value, new

(* What refusing the words does. *)
LEMMA RefusalRead ==
  ASSUME NEW w, NEW read, IsReadout(w, read)
  PROVE  [read EXCEPT !.refused = TRUE].refused = TRUE /\ IsReadout(w, [read EXCEPT !.refused = TRUE])
<1> DEFINE yes == TRUE
           new == [read EXCEPT !.refused = yes]
<1>0. yes \in BOOLEAN /\ yes = TRUE
  OBVIOUS
<1> HIDE DEF yes
<1>1. new = [values |-> read.values, paths |-> read.paths, json |-> read.json,
             awaits |-> read.awaits, refused |-> yes]
  BY DEF IsReadout
<1> HIDE DEF new
<1>2. /\ new.values = read.values /\ new.paths = read.paths /\ new.json = read.json
      /\ new.awaits = read.awaits /\ new.refused = yes
  BY <1>1
<1>3. IsReadout(w, new)
  BY <1>0, <1>1, <1>2 DEF IsReadout
<1>4. new.refused = TRUE
  BY <1>0, <1>2
<1> QED BY <1>3, <1>4 DEF new, yes

(* An option that the command does not know.                                *)
LEMMA UnknownRead ==
  ASSUME NEW c, NEW w, NEW n, NEW read, Midway(c, w, n, read), read.awaits = "none",
         w[n + 1] \in OptionWords, w[n + 1] # "--json", ~Takes(c, w[n + 1]), ~Carries(c, w[n + 1])
  PROVE  ReadRight(c, w, n + 1, [read EXCEPT !.refused = TRUE])
<1> DEFINE new == [read EXCEPT !.refused = TRUE]
<1>1. /\ n \in Nat /\ n + 1 \in 1..Len(w) /\ n + 1 \in OwnWords(c, w) /\ IsReadout(w, read)
  BY OwnWord
<1>3. new.refused = TRUE /\ IsReadout(w, new)
  BY <1>1, RefusalRead
<1> HIDE DEF new
<1>5. Misfit(c, w, n + 1)
  BY <1>1 DEF Misfit
<1>6. n + 1 \in 1..(n + 1)
  BY <1>1
<1>7. ReadRight(c, w, n + 1, new)
  BY <1>3, <1>5, <1>6 DEF ReadRight
<1> QED BY <1>7 DEF new

(* The option that asks for an answer in JSON.                              *)
LEMMA JsonRead ==
  ASSUME NEW c, NEW w, NEW n, NEW read, Midway(c, w, n, read), read.awaits = "none", w[n + 1] = "--json"
  PROVE  ReadRight(c, w, n + 1, [read EXCEPT !.json = TRUE])
<1> DEFINE yes == TRUE
           new == [read EXCEPT !.json = yes]
<1>1. /\ n \in Nat /\ n + 1 \in 1..Len(w) /\ n + 1 \in OwnWords(c, w) /\ IsReadout(w, read)
      /\ ~read.refused
  BY OwnWord
<1>2. /\ w[n + 1] \in OptionWords /\ w[n + 1] \notin DOMAIN Carried /\ ~Takes(c, w[n + 1])
  BY DEF OptionWords, Carried, Awaiting, Takes
<1>3. SetAt(c, w, n + 1) = <<"none", "none">>
  BY <1>1, <1>2 DEF SetAt, OwnWords
<1>4. yes \in BOOLEAN /\ yes = TRUE
  OBVIOUS
<1> HIDE DEF yes
<1>5. new = [values |-> read.values, paths |-> read.paths, json |-> yes,
             awaits |-> read.awaits, refused |-> read.refused]
  BY <1>1 DEF IsReadout
<1> HIDE DEF new
<1>6. /\ new.values = read.values /\ new.paths = read.paths /\ new.json = yes
      /\ new.awaits = read.awaits /\ new.refused = read.refused
  BY <1>5
<1>7. IsReadout(w, new)
  BY <1>1, <1>4, <1>5, <1>6 DEF IsReadout
<1>8. n + 1 \notin PathsTo(c, w, n + 1)
  BY <1>2 DEF PathsTo
<1>9. ~Misfit(c, w, n + 1)
  BY <1>3, <1>8 DEF Misfit, Parsed
<1>10. \A f \in Fields[c] : new.values[f] = read.values[f] /\ SetAt(c, w, n + 1)[1] # f
  <2>1. \A f \in Fields[c] : f # "none"
    BY DefaultsAccepted DEF Midway
  <2> QED BY <1>3, <1>6, <2>1
<1>11. PathsRead(c, w, n + 1, new.paths)
  BY <1>6, <1>8, SamePaths
<1>12. ReadRight(c, w, n + 1, new)
  BY <1>1, <1>2, <1>4, <1>6, <1>7, <1>9, <1>10, <1>11, SettingRead
<1> QED BY <1>12 DEF new, yes

(* Where the paths are, with a word that is one.                            *)
LEMMA PathPlaces ==
  ASSUME NEW c, NEW w, NEW n, NEW read, Midway(c, w, n, read), read.awaits = "none",
         w[n + 1] \notin OptionWords
  PROVE  /\ \A i : i \in PathsTo(c, w, n + 1) <=> i \in PathsTo(c, w, n) \/ i = n + 1
         /\ \A i \in PathsTo(c, w, n) : i \in 1..n
         /\ n + 1 \notin PathsTo(c, w, n)
         /\ \A i : i \in Named(c, w, n + 1)
                   <=> i \in Named(c, w, n) \/ (i = n + 1 /\ (c = "inspect" => w[n + 1] # ""))
<1>1. /\ n \in Nat /\ n + 1 \in 1..Len(w) /\ n + 1 \in OwnWords(c, w) /\ n + 1 \notin ValuePositions(c, w)
  BY OwnWord
<1>4. 1..(n + 1) = 1..n \cup {n + 1} /\ n + 1 \notin 1..n
  BY <1>1
<1>5. \A i : i \in PathsTo(c, w, n + 1) <=> i \in PathsTo(c, w, n) \/ i = n + 1
  BY <1>1, <1>4 DEF PathsTo
<1>6. (\A i \in PathsTo(c, w, n) : i \in 1..n) /\ n + 1 \notin PathsTo(c, w, n)
  BY <1>4 DEF PathsTo
<1>7. \A i : i \in Named(c, w, n + 1)
              <=> i \in Named(c, w, n) \/ (i = n + 1 /\ (c = "inspect" => w[n + 1] # ""))
  BY <1>5 DEF Named
<1> QED BY <1>5, <1>6, <1>7

(* A word that is a path sets no option and waits for none; it is refused    *)
(* behind another one, except in a batch.                                   *)
LEMMA PathWord ==
  ASSUME NEW c, NEW w, NEW n, NEW read, Midway(c, w, n, read), read.awaits = "none",
         w[n + 1] \notin OptionWords
  PROVE  /\ Misfit(c, w, n + 1) <=> c # "batch" /\ Named(c, w, n) # {}
         /\ SetAt(c, w, n + 1) = <<"none", "none">> /\ ~Takes(c, w[n + 1]) /\ w[n + 1] # "--json"
<1>1. /\ n \in Nat /\ n + 1 \in 1..Len(w) /\ n + 1 \in OwnWords(c, w) /\ n + 1 \notin ValuePositions(c, w)
  BY OwnWord
<1>2. w[n + 1] \notin DOMAIN Carried /\ ~Takes(c, w[n + 1]) /\ w[n + 1] # "--json"
  BY DEF OptionWords, Takes
<1>3. SetAt(c, w, n + 1) = <<"none", "none">>
  BY <1>1, <1>2 DEF SetAt
<1>4. /\ \A i : i \in PathsTo(c, w, n + 1) <=> i \in PathsTo(c, w, n) \/ i = n + 1
      /\ \A i \in PathsTo(c, w, n) : i \in 1..n
  BY PathPlaces
<1>5. \A j \in Named(c, w, n + 1) : j < n + 1 => j \in Named(c, w, n)
  <2>1. ~(n + 1 < n + 1)
    BY <1>1
  <2> QED BY <1>4, <2>1 DEF Named
<1>6. \A j \in Named(c, w, n) : j \in Named(c, w, n + 1) /\ j < n + 1
  <2>1. \A j \in 1..n : j < n + 1
    BY <1>1
  <2> QED BY <1>4, <2>1 DEF Named
<1>7. n + 1 \in PathsTo(c, w, n + 1)
  BY <1>4
<1> QED BY <1>2, <1>3, <1>5, <1>6, <1>7 DEF Misfit, Parsed

(* Reading a path changes the paths only.                                   *)
LEMMA PathTaken ==
  ASSUME NEW c, NEW w, NEW n, NEW read, Midway(c, w, n, read), read.awaits = "none",
         w[n + 1] \notin OptionWords, c = "batch" \/ Named(c, w, n) = {},
         NEW new, IsReadout(w, new), PathsRead(c, w, n + 1, new.paths),
         new.values = read.values, new.json = read.json, new.awaits = "none", ~new.refused
  PROVE  ReadRight(c, w, n + 1, new)
<1>1. /\ Misfit(c, w, n + 1) <=> c # "batch" /\ Named(c, w, n) # {}
      /\ SetAt(c, w, n + 1) = <<"none", "none">> /\ ~Takes(c, w[n + 1]) /\ w[n + 1] # "--json"
  BY PathWord
<1>2. \A f \in Fields[c] : f # "none"
  BY DefaultsAccepted DEF Midway
<1> QED BY <1>1, <1>2, SettingRead

(* A path that is put behind the others.                                    *)
LEMMA PathAppended ==
  ASSUME NEW c, NEW w, NEW n, NEW read, Midway(c, w, n, read), read.awaits = "none",
         w[n + 1] \notin OptionWords, c = "batch" \/ Named(c, w, n) = {},
         PathsRead(c, w, n + 1, Append(read.paths, w[n + 1]))
  PROVE  ReadRight(c, w, n + 1, [read EXCEPT !.paths = Append(@, w[n + 1])])
<1> DEFINE more == Append(read.paths, w[n + 1])
           new == [read EXCEPT !.paths = Append(@, w[n + 1])]
<1>1. n + 1 \in 1..Len(w) /\ IsReadout(w, read) /\ ~read.refused
  BY OwnWord
<1>2. more \in Seq(Words(w))
  <2>1. w[n + 1] \in Words(w) /\ read.paths \in Seq(Words(w))
    BY <1>1 DEF Words, IsReadout
  <2> QED BY <2>1, AppendProperties
<1>3. new = [read EXCEPT !.paths = more]
  OBVIOUS
<1>4. new = [values |-> read.values, paths |-> more, json |-> read.json,
             awaits |-> read.awaits, refused |-> read.refused]
  <2> HIDE DEF more, new
  <2> QED BY <1>1, <1>3 DEF IsReadout
<1> HIDE DEF new, more
<1>5. /\ new.values = read.values /\ new.paths = more /\ new.json = read.json
      /\ new.awaits = read.awaits /\ new.refused = read.refused
  BY <1>4
<1>6. IsReadout(w, new)
  BY <1>1, <1>2, <1>4, <1>5 DEF IsReadout
<1>7. PathsRead(c, w, n + 1, new.paths)
  BY <1>5 DEF more
<1>8. ReadRight(c, w, n + 1, new)
  BY <1>1, <1>5, <1>6, <1>7, PathTaken
<1> QED BY <1>8 DEF new

(* One more path of a batch.                                                *)
LEMMA OneMoreApart ==
  ASSUME NEW S, NEW paths \in Seq(S), NEW p \in S
  PROVE  /\ Len(Append(paths, p)) = Len(paths) + 1
         /\ Cleaned(Append(paths, p)) = Cleaned(paths) \cup {Clean(p)}
         /\ Apart(Append(paths, p)) <=> Apart(paths) /\ Clean(p) \notin Cleaned(paths)
<1> DEFINE more == Append(paths, p)
<1>1. /\ Len(paths) \in Nat /\ Len(more) = Len(paths) + 1
      /\ \A k \in 1..Len(paths) : more[k] = paths[k]
      /\ more[Len(paths) + 1] = p
  BY AppendProperties, LenProperties
<1> HIDE DEF more
<1>2. 1..Len(more) = 1..Len(paths) \cup {Len(paths) + 1} /\ Len(paths) + 1 \notin 1..Len(paths)
  BY <1>1
<1>3. Cleaned(more) = Cleaned(paths) \cup {Clean(p)}
  BY <1>1, <1>2 DEF Cleaned
<1>4. Apart(more) => Apart(paths) /\ Clean(p) \notin Cleaned(paths)
  BY <1>1, <1>2 DEF Apart, Cleaned
<1>5. Apart(paths) /\ Clean(p) \notin Cleaned(paths) => Apart(more)
  BY <1>1, <1>2 DEF Apart, Cleaned
<1> QED BY <1>1, <1>3, <1>4, <1>5 DEF more

(* A path of a batch: what is read are the paths there are, as often as they *)
(* are there.                                                               *)
LEMMA BatchPathRead ==
  ASSUME NEW c, NEW w, NEW n, NEW read, Midway(c, w, n, read), read.awaits = "none",
         w[n + 1] \notin OptionWords, c = "batch"
  PROVE  PathsRead(c, w, n + 1, Append(read.paths, w[n + 1]))
<1> DEFINE p == w[n + 1]
           P == PathsTo(c, w, n)
           Q == PathsTo(c, w, n + 1)
           paths == read.paths
           more == Append(read.paths, p)
<1>1. n \in Nat /\ n + 1 \in 1..Len(w) /\ IsReadout(w, read)
  BY OwnWord
<1>2. /\ \A i : i \in Q <=> i \in P \/ i = n + 1
      /\ \A i \in P : i \in 1..n
      /\ n + 1 \notin P
  BY PathPlaces
<1>3. /\ Len(paths) = Cardinality(P) /\ Cleaned(paths) = {Clean(w[i]) : i \in P}
      /\ Apart(paths) <=> ApartAt(w, P)
  BY DEF Midway, ReadRight, PathsRead
<1>4. /\ Len(more) = Len(paths) + 1 /\ Cleaned(more) = Cleaned(paths) \cup {Clean(p)}
      /\ Apart(more) <=> Apart(paths) /\ Clean(p) \notin Cleaned(paths)
  <2>1. paths \in Seq(Words(w)) /\ p \in Words(w)
    BY <1>1 DEF Words, IsReadout
  <2> HIDE DEF p, paths
  <2>2. /\ Len(Append(paths, p)) = Len(paths) + 1
        /\ Cleaned(Append(paths, p)) = Cleaned(paths) \cup {Clean(p)}
        /\ Apart(Append(paths, p)) <=> Apart(paths) /\ Clean(p) \notin Cleaned(paths)
    BY <2>1, OneMoreApart
  <2> QED BY <2>2 DEF paths
<1> HIDE DEF P, Q, paths, more
<1>5. Q = P \cup {n + 1} /\ IsFiniteSet(P)
  <2>1. Q = P \cup {n + 1}
    BY <1>2
  <2>2. P \subseteq 1..n /\ IsFiniteSet(1..n)
    BY <1>1, <1>2, FS_Interval
  <2> QED BY <2>1, <2>2, FS_Subset
<1>6. Len(more) = Cardinality(Q)
  <2>1. Cardinality(P \cup {n + 1}) = Cardinality(P) + 1
    BY <1>2, <1>5, FS_AddElement
  <2> QED BY <1>3, <1>4, <1>5, <2>1
<1>7. Cleaned(more) = {Clean(w[i]) : i \in Q}
  BY <1>3, <1>4, <1>5
<1>8. ApartAt(w, Q) => ApartAt(w, P) /\ Clean(p) \notin Cleaned(paths)
  BY <1>2, <1>3 DEF ApartAt
<1>9. ApartAt(w, P) /\ Clean(p) \notin Cleaned(paths) => ApartAt(w, Q)
  BY <1>2, <1>3 DEF ApartAt
<1>10. Apart(more) <=> ApartAt(w, Q)
  BY <1>3, <1>4, <1>8, <1>9
<1> QED BY <1>6, <1>7, <1>10 DEF PathsRead, Q, more

(* The path of an inspection or of an inventory.                            *)
LEMMA OnePathRead ==
  ASSUME NEW c, NEW w, NEW n, NEW read, Midway(c, w, n, read), read.awaits = "none",
         w[n + 1] \notin OptionWords, c # "batch", read.paths = <<>>
  PROVE  IF c = "inspect" /\ w[n + 1] = "" THEN PathsRead(c, w, n + 1, read.paths)
         ELSE PathsRead(c, w, n + 1, Append(read.paths, w[n + 1]))
<1>1. n \in Nat
  BY OwnWord
<1>2. /\ \A i : i \in PathsTo(c, w, n + 1) <=> i \in PathsTo(c, w, n) \/ i = n + 1
      /\ \A i \in PathsTo(c, w, n) : i \in 1..n
      /\ \A i : i \in Named(c, w, n + 1)
                <=> i \in Named(c, w, n) \/ (i = n + 1 /\ (c = "inspect" => w[n + 1] # ""))
  BY PathPlaces
<1>3. Len(<<>>) = 0 /\ Named(c, w, n) = {}
  BY DEF Midway, ReadRight, PathsRead
<1>4. CASE c = "inspect" /\ w[n + 1] = ""
  <2>1. Named(c, w, n + 1) = {}
    BY <1>2, <1>3, <1>4
  <2> QED BY <1>4, <2>1 DEF PathsRead
<1>5. CASE ~(c = "inspect" /\ w[n + 1] = "")
  <2>1. n + 1 \in Named(c, w, n + 1) /\ \A i \in Named(c, w, n + 1) : i = n + 1
    BY <1>2, <1>3, <1>5
  <2>2. \A j \in PathsTo(c, w, n + 1) : j # n + 1 => j < n + 1
    <3>1. \A j \in 1..n : j < n + 1
      BY <1>1
    <3> QED BY <1>2, <3>1
  <2>3. Len(Append(read.paths, w[n + 1])) = 1
    BY <1>3
  <2> HIDE DEF PathsRead
  <2>4. PathsRead(c, w, n + 1, Append(read.paths, w[n + 1]))
    <3> DEFINE more == Append(read.paths, w[n + 1])
    <3>1. Len(more) = 1
      BY <2>3
    <3> HIDE DEF more
    <3>2. PathsRead(c, w, n + 1, more)
      BY <2>1, <2>2, <3>1 DEF PathsRead
    <3> QED BY <3>2 DEF more
  <2> QED BY <1>5, <2>4
<1> QED BY <1>4, <1>5

(* A path, wherever it comes: it is taken, or is one too many.              *)
LEMMA PathRead ==
  ASSUME NEW c, NEW w, NEW n, NEW read, Midway(c, w, n, read), read.awaits = "none",
         w[n + 1] \notin OptionWords
  PROVE  ReadRight(c, w, n + 1, ReadPath(c, read, w[n + 1]))
<1>1. n \in Nat /\ n + 1 \in 1..Len(w) /\ IsReadout(w, read) /\ ~read.refused
  BY OwnWord
<1>2. CASE c = "batch"
  <2>1. ReadPath(c, read, w[n + 1]) = [read EXCEPT !.paths = Append(@, w[n + 1])]
    BY <1>2 DEF ReadPath
  <2> QED BY <1>2, <2>1, BatchPathRead, PathAppended
<1>3. CASE c # "batch" /\ read.paths # <<>>
  <2>1. ReadPath(c, read, w[n + 1]) = [read EXCEPT !.refused = TRUE]
    BY <1>3 DEF ReadPath
  <2>2. Named(c, w, n) # {}
    BY <1>3 DEF Midway, ReadRight, PathsRead
  <2>3. Misfit(c, w, n + 1)
    BY <1>3, <2>2, PathWord
  <2>4. n + 1 \in 1..(n + 1)
    BY <1>1
  <2> DEFINE new == [read EXCEPT !.refused = TRUE]
  <2>5. new.refused = TRUE /\ IsReadout(w, new)
    BY <1>1, RefusalRead
  <2> HIDE DEF new
  <2>6. ReadRight(c, w, n + 1, new)
    BY <2>3, <2>4, <2>5 DEF ReadRight
  <2> QED BY <2>1, <2>6 DEF new
<1>4. CASE c # "batch" /\ read.paths = <<>>
  <2>1. Named(c, w, n) = {}
    <3>1. Len(<<>>) = 0
      OBVIOUS
    <3> QED BY <1>4, <3>1 DEF Midway, ReadRight, PathsRead
  <2>2. CASE c = "inspect" /\ w[n + 1] = ""
    <3>1. ReadPath(c, read, w[n + 1]) = read
      BY <1>4, <2>2 DEF ReadPath
    <3>2. PathsRead(c, w, n + 1, read.paths)
      BY <1>4, <2>2, OnePathRead
    <3> QED BY <1>1, <2>1, <3>1, <3>2, PathTaken
  <2>3. CASE ~(c = "inspect" /\ w[n + 1] = "")
    <3>1. ReadPath(c, read, w[n + 1]) = [read EXCEPT !.paths = Append(@, w[n + 1])]
      BY <1>4, <2>3 DEF ReadPath
    <3>2. PathsRead(c, w, n + 1, Append(read.paths, w[n + 1]))
      BY <1>4, <2>3, OnePathRead
    <3> QED BY <2>1, <3>1, <3>2, PathAppended
  <2> QED BY <2>2, <2>3
<1> QED BY <1>2, <1>3, <1>4

(* An option, wherever one is looked for.                                   *)
LEMMA OptionRead ==
  ASSUME NEW c, NEW w, NEW n, NEW read, Midway(c, w, n, read), read.awaits = "none",
         w[n + 1] \in OptionWords
  PROVE  ReadRight(c, w, n + 1, ReadOption(c, read, w[n + 1]))
<1>1. /\ ~(w[n + 1] = "--json" /\ Takes(c, w[n + 1])) /\ ~(w[n + 1] = "--json" /\ Carries(c, w[n + 1]))
      /\ ~(Takes(c, w[n + 1]) /\ Carries(c, w[n + 1]))
  BY DEF Takes, Carries, Awaiting, Carried
<1>2. CASE w[n + 1] = "--json"
  <2>1. ReadOption(c, read, w[n + 1]) = [read EXCEPT !.json = TRUE]
    BY <1>1, <1>2 DEF ReadOption
  <2> QED BY <1>2, <2>1, JsonRead
<1>3. CASE Takes(c, w[n + 1])
  <2>1. ReadOption(c, read, w[n + 1]) = [read EXCEPT !.awaits = Awaiting[w[n + 1]]]
    BY <1>1, <1>3 DEF ReadOption
  <2> QED BY <1>3, <2>1, AwaitingRead
<1>4. CASE Carries(c, w[n + 1])
  <2>1. ReadOption(c, read, w[n + 1]) = Assign(read, Carried[w[n + 1]][1], Carried[w[n + 1]][2])
    BY <1>1, <1>4 DEF ReadOption
  <2> QED BY <1>4, <2>1, CarriedRead
<1>5. CASE w[n + 1] # "--json" /\ ~Takes(c, w[n + 1]) /\ ~Carries(c, w[n + 1])
  <2>1. ReadOption(c, read, w[n + 1]) = [read EXCEPT !.refused = TRUE]
    BY <1>5 DEF ReadOption
  <2> QED BY <1>5, <2>1, UnknownRead
<1> QED BY <1>2, <1>3, <1>4, <1>5

(* One turn of a parser's loop keeps it right. parseInspectArgs,            *)
(* parseBatchArgs, parseInventoryArgs.                                      *)
LEMMA NextWordRead ==
  ASSUME NEW c \in {"inspect", "batch", "inventory"}, NEW w, Len(w) \in Nat,
         NEW n \in 0..(Len(w) - 1), NEW read, ReadRight(c, w, n, read)
  PROVE  ReadRight(c, w, n + 1, ReadWord(c, read, w[n + 1]))
<1>1. CASE read.refused
  <2>1. ReadWord(c, read, w[n + 1]) = read
    BY <1>1 DEF ReadWord
  <2>2. PICK i \in 1..n : Misfit(c, w, i)
    BY <1>1 DEF ReadRight
  <2>3. i \in 1..(n + 1)
    OBVIOUS
  <2>4. ReadRight(c, w, n + 1, read)
    BY <1>1, <2>2, <2>3 DEF ReadRight
  <2> QED BY <2>1, <2>4
<1>2. CASE ~read.refused
  <2>1. Midway(c, w, n, read)
    BY <1>2 DEF Midway
  <2>2. CASE read.awaits # "none"
    <3>1. ReadWord(c, read, w[n + 1]) = Assign(read, read.awaits, w[n + 1])
      BY <1>2, <2>2 DEF ReadWord
    <3> QED BY <2>1, <2>2, <3>1, ValueRead
  <2>3. CASE read.awaits = "none" /\ w[n + 1] \in OptionWords
    <3>1. ReadWord(c, read, w[n + 1]) = ReadOption(c, read, w[n + 1])
      BY <1>2, <2>3 DEF ReadWord
    <3> QED BY <2>1, <2>3, <3>1, OptionRead
  <2>4. CASE read.awaits = "none" /\ w[n + 1] \notin OptionWords
    <3>1. ReadWord(c, read, w[n + 1]) = ReadPath(c, read, w[n + 1])
      BY <1>2, <2>4 DEF ReadWord
    <3> QED BY <2>1, <2>4, <3>1, PathRead
  <2> QED BY <2>2, <2>3, <2>4
<1> QED BY <1>1, <1>2

(* So the loop is right behind every word.                                  *)
LEMMA WordsReadRight ==
  ASSUME NEW c \in {"inspect", "batch", "inventory"}, NEW S, NEW w \in Seq(S)
  PROVE  ReadRight(c, w, Len(w), Readings(c, w)[DOMAIN w])
<1>1. Len(w) \in Nat /\ DOMAIN w = 1..Len(w)
  BY LenProperties
<1>2. /\ After(c, w, 0) = Unread
      /\ \A n \in 0..(Len(w) - 1) : After(c, w, n + 1) = ReadWord(c, After(c, w, n), w[n + 1])
  BY <1>1, OneWordMore
<1> DEFINE N == {n \in Nat : n <= Len(w) => ReadRight(c, w, n, After(c, w, n))}
<1>3. 0 \in N
  BY <1>2, NothingIsRead
<1>4. ASSUME NEW n \in Nat, n \in N PROVE n + 1 \in N
  <2> SUFFICES ASSUME n + 1 <= Len(w) PROVE ReadRight(c, w, n + 1, After(c, w, n + 1))
    OBVIOUS
  <2>1. n \in 0..(Len(w) - 1) /\ n <= Len(w)
    BY <1>1
  <2>2. ReadRight(c, w, n, After(c, w, n))
    BY <1>4, <2>1
  <2>3. ReadRight(c, w, n + 1, ReadWord(c, After(c, w, n), w[n + 1]))
    BY <1>1, <2>1, <2>2, NextWordRead
  <2> QED BY <1>2, <2>1, <2>3
<1>5. Len(w) \in N
  <2> HIDE DEF N
  <2> QED BY <1>1, <1>3, <1>4, NatSetInduction
<1> QED BY <1>1, <1>5 DEF After

-----------------------------------------------------------------------------
(* What the loop has read, against the words and their positions.           *)
Unfit(c, w, i) ==
  i \in OwnWords(c, w) /\ w[i] \in OptionWords /\ w[i] # "--json" /\ ~Takes(c, w[i]) /\ ~Carries(c, w[i])
LeftOpen(c, w) == Len(w) \in OwnWords(c, w) /\ Takes(c, w[Len(w)])

(* Every option is known and has its value unless the loop refused one, or   *)
(* ended where it waited for a value.                                       *)
LEMMA OptionsRead ==
  ASSUME NEW c \in {"inspect", "batch", "inventory"}, NEW w, Len(w) \in Nat
  PROVE  OptionsKnown(c, w) <=> ~LeftOpen(c, w) /\ ~(\E i \in 1..Len(w) : Unfit(c, w, i))
<1>1. /\ ValuePositions(c, w) \in SUBSET (1..Len(w))
      /\ AreValues(c, w, ValuePositions(c, w), Len(w))
  BY ValuesAreKnown
<1>2. ASSUME NEW i \in OwnWords(c, w)
      PROVE  i + 1 \in ValuePositions(c, w) <=> i # Len(w) /\ Takes(c, w[i])
  <2>1. i \in 1..Len(w) /\ i \notin ValuePositions(c, w) /\ (i + 1) - 1 = i
    BY DEF OwnWords
  <2>2. CASE i = Len(w)
    <3>1. i + 1 \notin 1..Len(w)
      BY <2>2
    <3> QED BY <1>1, <2>2, <3>1
  <2>3. CASE i # Len(w)
    <3>1. i + 1 \in 1..Len(w) /\ i + 1 > 1
      BY <2>1, <2>3
    <3> QED BY <1>1, <2>1, <2>3, <3>1 DEF AreValues
  <2> QED BY <2>2, <2>3
<1>3. \A x : Takes(c, x) => x \in OptionWords /\ x # "--json" /\ ~Carries(c, x)
  BY OptionsApart
<1>4. \A i \in OwnWords(c, w) : i \in 1..Len(w)
  BY DEF OwnWords
<1>5. OptionsKnown(c, w) =>
        /\ \A i \in OwnWords(c, w) : ~Unfit(c, w, i)
        /\ ~LeftOpen(c, w)
  BY <1>2, <1>3 DEF OptionsKnown, Unfit, LeftOpen
<1>6. ~LeftOpen(c, w) /\ (\A i \in OwnWords(c, w) : ~Unfit(c, w, i)) => OptionsKnown(c, w)
  BY <1>2, <1>3 DEF OptionsKnown, Unfit, LeftOpen
<1> QED BY <1>4, <1>5, <1>6 DEF Unfit

(* The value the loop has for a field is in range when the last one given    *)
(* is.                                                                      *)
LEMMA ValuesRead ==
  ASSUME NEW c \in {"inspect", "batch", "inventory"}, NEW w, NEW f \in Fields[c], Len(w) \in Nat,
         NEW value, LastSet(c, w, Len(w), f, value)
  PROVE  LastIsAccepted(c, w, f) <=> value \in Accepted[f]
<1>1. Defaults[f] \in Accepted[f]
  BY DefaultsAccepted
<1>2. CASE value = Defaults[f] /\ \A i \in 1..Len(w) : SetAt(c, w, i)[1] # f
  BY <1>1, <1>2 DEF LastIsAccepted
<1>3. ASSUME NEW i \in 1..Len(w), SetAt(c, w, i)[1] = f, value = SetAt(c, w, i)[2],
             \A j \in (i + 1)..Len(w) : SetAt(c, w, j)[1] # f
      PROVE  LastIsAccepted(c, w, f) <=> value \in Accepted[f]
  <2>1. ASSUME NEW k \in 1..Len(w), SetAt(c, w, k)[1] = f, \A j \in (k + 1)..Len(w) : SetAt(c, w, j)[1] # f
        PROVE  k = i
    <3>1. ~(k < i)
      <4>1. k < i => i \in (k + 1)..Len(w)
        OBVIOUS
      <4> QED BY <1>3, <2>1, <4>1
    <3>2. ~(i < k)
      <4>1. i < k => k \in (i + 1)..Len(w)
        OBVIOUS
      <4> QED BY <1>3, <2>1, <4>1
    <3> QED BY <3>1, <3>2
  <2> QED BY <1>3, <2>1 DEF LastIsAccepted
<1> QED BY <1>2, <1>3 DEF LastSet

(* The paths are as many as they may be, unless one was refused on the way   *)
(* or the last look finds too few, too many or one twice.                   *)
TooMany(c, w, i) == c # "batch" /\ i \in PathsTo(c, w, i) /\ \E j \in Named(c, w, i) : j < i
(* A path too many is found. *)
LEMMA PathsRefused ==
  ASSUME NEW c \in {"inspect", "batch", "inventory"}, NEW w, Len(w) \in Nat,
         NEW i \in 1..Len(w), TooMany(c, w, i)
  PROVE  ~PathsGiven(c, w)
<1> DEFINE paths == {k \in OwnWords(c, w) : w[k] \notin OptionWords}
<1>1. i \in paths /\ c # "batch"
  BY DEF TooMany, PathsTo
<1>2. PICK j \in paths : j < i /\ (c = "inspect" => w[j] # "")
  BY DEF TooMany, Named, PathsTo
<1>3. i \in Int /\ j \in Int /\ \A k \in paths : k \in Int
  <2>1. \A k \in paths : k \in 1..Len(w)
    BY DEF OwnWords
  <2>2. \A k \in 1..Len(w) : k \in Int
    OBVIOUS
  <2> HIDE DEF paths
  <2> QED BY <1>2, <2>1, <2>2
<1> HIDE DEF paths
<1>6. j < i /\ ~(i < j) /\ i # j
  <2>1. j < i
    BY <1>2, Zenon
  <2> QED BY <1>3, <2>1
<1>4. CASE c = "inventory"
  <2>1. i # j
    BY <1>3, <1>6
  <2>2. ~(\A x, y \in paths : x = y)
    BY <1>1, <1>2, <2>1
  <2> QED BY <1>4, <2>2 DEF PathsGiven, paths
<1>5. CASE c = "inspect"
  <2>1. ASSUME NEW k \in paths, \A x \in paths : x # k => x < k /\ w[x] = "" PROVE FALSE
    <3>1. k = j
      BY <1>2, <1>5, <2>1
    <3>2. i < k
      BY <1>1, <1>2, <1>3, <2>1, <3>1
    <3> QED BY <1>3, <1>6, <3>1, <3>2
  <2> QED BY <1>5, <2>1 DEF PathsGiven, paths
<1> QED BY <1>1, <1>4, <1>5

(* When none was refused on the way, the last look decides.                 *)
LEMMA PathsLookedAt ==
  ASSUME NEW c \in {"inspect", "batch", "inventory"}, NEW w, Len(w) \in Nat,
         NEW S, NEW paths \in Seq(S), PathsRead(c, w, Len(w), paths)
  PROVE  PathsGiven(c, w) <=> PathsAccepted(c, paths)
<1> DEFINE P == {k \in OwnWords(c, w) : w[k] \notin OptionWords}
<1>1. P = PathsTo(c, w, Len(w)) /\ P \subseteq 1..Len(w)
  BY DEF PathsTo, OwnWords
<1>2. Named(c, w, Len(w)) = {i \in P : c = "inspect" => w[i] # ""}
  BY <1>1 DEF Named
<1>3. Len(paths) \in Nat /\ (paths = <<>> <=> Len(paths) = 0)
  BY LenProperties, EmptySeq
<1> HIDE DEF P
<1>4. CASE c = "inspect"
  <2>1. PathsAccepted(c, paths) <=> paths # <<>>
    BY <1>4 DEF PathsAccepted
  <2>2. PathsGiven(c, w) <=> \E i \in P : w[i] # "" /\ \A j \in P : j # i => j < i /\ w[j] = ""
    BY <1>4 DEF PathsGiven, P
  <2>3. \/ paths = <<>> /\ Named(c, w, Len(w)) = {}
        \/ Len(paths) = 1 /\ \E i \in Named(c, w, Len(w)) :
                              \A j \in P : j # i => j < i /\ j \notin Named(c, w, Len(w))
    BY <1>1, <1>4 DEF PathsRead
  <2>4. \A i : i \in Named(c, w, Len(w)) <=> i \in P /\ w[i] # ""
    BY <1>2, <1>4
  <2>5. CASE paths = <<>> /\ Named(c, w, Len(w)) = {}
    BY <2>1, <2>2, <2>4, <2>5
  <2>6. ASSUME Len(paths) = 1, NEW i \in Named(c, w, Len(w)),
               \A j \in P : j # i => j < i /\ j \notin Named(c, w, Len(w))
        PROVE  PathsGiven(c, w) <=> PathsAccepted(c, paths)
    <3>1. paths # <<>>
      BY <1>3, <2>6
    <3>2. i \in P /\ w[i] # "" /\ \A j \in P : j # i => j < i /\ w[j] = ""
      BY <2>4, <2>6
    <3> QED BY <2>1, <2>2, <3>1, <3>2
  <2> QED BY <2>3, <2>5, <2>6
<1>5. CASE c = "inventory"
  <2>1. PathsAccepted(c, paths)
    BY <1>5 DEF PathsAccepted
  <2>2. PathsGiven(c, w) <=> \A i, j \in P : i = j
    BY <1>5 DEF PathsGiven, P
  <2>3. \/ Named(c, w, Len(w)) = {}
        \/ \E i \in Named(c, w, Len(w)) : \A j \in P : j # i => j \notin Named(c, w, Len(w))
    BY <1>1, <1>5 DEF PathsRead
  <2>4. Named(c, w, Len(w)) = P
    BY <1>2, <1>5
  <2> QED BY <2>1, <2>2, <2>3, <2>4
<1>6. CASE c = "batch"
  <2>1. PathsAccepted(c, paths) <=> Len(paths) \in 1..MaxPaths /\ Apart(paths)
    BY <1>6 DEF PathsAccepted, Apart
  <2>2. PathsGiven(c, w) <=> P # {} /\ Cardinality(P) <= MaxPaths /\ ApartAt(w, P)
    BY <1>6 DEF PathsGiven, P, ApartAt
  <2>3. Len(paths) = Cardinality(P) /\ (Apart(paths) <=> ApartAt(w, P))
    BY <1>1, <1>6 DEF PathsRead
  <2>4. Cardinality(P) = 0 <=> P = {}
    <3>1. IsFiniteSet(1..Len(w))
      BY FS_Interval
    <3>2. IsFiniteSet(P)
      BY <1>1, <3>1, FS_Subset
    <3> QED BY <3>2, FS_EmptySet
  <2> QED BY <1>3, <2>1, <2>2, <2>3, <2>4, CommandAssumption
<1> QED BY <1>4, <1>5, <1>6

(* A misfit is an unknown option, a number that is none, or a path too many. *)
LEMMA MisfitIs ==
  ASSUME NEW c, NEW w, NEW i
  PROVE  Misfit(c, w, i) <=>
           \/ Unfit(c, w, i)
           \/ SetAt(c, w, i)[1] \in Parsed /\ SetAt(c, w, i)[2] \notin Numbers[SetAt(c, w, i)[1]]
           \/ TooMany(c, w, i)
BY DEF Misfit, Unfit, TooMany

(* What a parser concludes agrees with the words: it refuses what does not   *)
(* keep the grammar, and nothing else.                                      *)
LEMMA RefusedRightly ==
  ASSUME NEW c \in {"inspect", "batch", "inventory"}, NEW S, NEW w \in Seq(S)
  PROVE  Parse(c, w).refused <=> ~(/\ OptionsKnown(c, w) /\ NumbersGiven(c, w) /\ PathsGiven(c, w)
                                   /\ \A f \in Fields[c] : LastIsAccepted(c, w, f))
<1> DEFINE read == Readings(c, w)[DOMAIN w]
<1>1. Len(w) \in Nat /\ ReadRight(c, w, Len(w), read)
  BY LenProperties, WordsReadRight
<1>2. Parse(c, w) = Concluded(c, w, read)
  BY ParseConcludes
<1> HIDE DEF read
<1>3. Parse(c, w).refused <=>
        \/ read.refused \/ read.awaits # "none" \/ ~PathsAccepted(c, read.paths)
        \/ \E f \in Fields[c] : read.values[f] \notin Accepted[f]
  BY <1>2 DEF Concluded
<1>4. OptionsKnown(c, w) <=> ~LeftOpen(c, w) /\ ~(\E i \in 1..Len(w) : Unfit(c, w, i))
  BY <1>1, OptionsRead
<1>5. CASE read.refused
  <2>1. PICK i \in 1..Len(w) : Misfit(c, w, i)
    BY <1>1, <1>5 DEF ReadRight
  <2>2. CASE Unfit(c, w, i)
    BY <1>3, <1>4, <1>5, <2>2
  <2>3. CASE SetAt(c, w, i)[1] \in Parsed /\ SetAt(c, w, i)[2] \notin Numbers[SetAt(c, w, i)[1]]
    BY <1>3, <1>5, <2>3 DEF NumbersGiven
  <2>4. CASE TooMany(c, w, i)
    <3>1. ~PathsGiven(c, w)
      BY <1>1, <2>4, PathsRefused
    <3> QED BY <1>3, <1>5, <3>1
  <2> QED BY <2>1, <2>2, <2>3, <2>4, MisfitIs
<1>6. CASE ~read.refused
  <2>1. \A i \in 1..Len(w) : ~Misfit(c, w, i)
    BY <1>1, <1>6 DEF ReadRight
  <2>2. (\A i \in 1..Len(w) : ~Unfit(c, w, i)) /\ NumbersGiven(c, w)
    BY <2>1, MisfitIs DEF NumbersGiven
  <2>3. read.awaits # "none" <=> LeftOpen(c, w)
    <3>1. read.awaits = IF LeftOpen(c, w) THEN Awaiting[w[Len(w)]] ELSE "none"
      BY <1>1, <1>6 DEF ReadRight, LeftOpen
    <3>2. LeftOpen(c, w) => Awaiting[w[Len(w)]] \in Fields[c]
      BY OptionsApart DEF LeftOpen
    <3>3. \A f \in Fields[c] : f # "none"
      BY DefaultsAccepted
    <3> QED BY <3>1, <3>2, <3>3
  <2>4. PathsGiven(c, w) <=> PathsAccepted(c, read.paths)
    <3>1. PathsRead(c, w, Len(w), read.paths) /\ read.paths \in Seq(Words(w))
      BY <1>1, <1>6 DEF ReadRight, IsReadout
    <3> QED BY <1>1, <3>1, PathsLookedAt
  <2>5. ASSUME NEW f \in Fields[c] PROVE LastIsAccepted(c, w, f) <=> read.values[f] \in Accepted[f]
    <3>1. LastSet(c, w, Len(w), f, read.values[f])
      BY <1>1, <1>6 DEF ReadRight
    <3> QED BY <1>1, <3>1, ValuesRead
  <2> QED BY <1>3, <1>4, <1>6, <2>2, <2>3, <2>4, <2>5
<1> QED BY <1>5, <1>6

(* Every parser agrees with the grammar of its command on every command line. *)
LEMMA ArgumentsRight ==
  ASSUME NEW c \in {"inspect", "batch", "inventory"}, NEW S, NEW w \in Seq(S)
  PROVE  ArgumentsReadRight(c, w)
<1> DEFINE read == Readings(c, w)[DOMAIN w]
           answer == Parse(c, w)
<1>1. Len(w) \in Nat /\ ReadRight(c, w, Len(w), read)
  BY LenProperties, WordsReadRight
<1>2. answer = Concluded(c, w, read)
  BY ParseConcludes
<1> HIDE DEF read
<1>3. /\ answer.json = IF answer.refused THEN Contains(w, "--json") ELSE read.json
      /\ answer.refused <=>
           \/ read.refused \/ read.awaits # "none" \/ ~PathsAccepted(c, read.paths)
           \/ \E f \in Fields[c] : read.values[f] \notin Accepted[f]
  BY <1>2 DEF Concluded
<1>4. answer.json <=>
        \E i \in (IF answer.refused THEN 1..Len(w) ELSE OwnWords(c, w)) : w[i] = "--json"
  <2> HIDE DEF answer
  <2>1. CASE answer.refused
    BY <1>3, <2>1 DEF Contains
  <2>2. CASE ~answer.refused
    <3>1. OwnWords(c, w) \cap 1..Len(w) = OwnWords(c, w)
      BY DEF OwnWords
    <3>2. read.json <=> \E i \in OwnWords(c, w) \cap 1..Len(w) : w[i] = "--json"
      BY <1>1, <1>3, <2>2 DEF ReadRight
    <3> QED BY <1>3, <2>2, <3>1, <3>2
  <2> QED BY <2>1, <2>2
<1>5. answer.refused <=> ~(/\ OptionsKnown(c, w) /\ NumbersGiven(c, w) /\ PathsGiven(c, w)
                           /\ \A f \in Fields[c] : LastIsAccepted(c, w, f))
  BY RefusedRightly
<1> QED BY <1>4, <1>5 DEF ArgumentsReadRight

(* What is not refused has the places a command works on.                   *)
LEMMA PlacesRead ==
  ASSUME NEW c \in {"inspect", "batch", "inventory"}, NEW S, NEW w \in Seq(S), ~Parse(c, w).refused
  PROVE  /\ c = "inspect" => Len(Parse(c, w).paths) = 1
         /\ c = "batch" => Len(Parse(c, w).paths) \in 1..MaxPaths
<1> DEFINE read == Readings(c, w)[DOMAIN w]
<1>1. ReadRight(c, w, Len(w), read)
  BY WordsReadRight
<1>2. Parse(c, w) = Concluded(c, w, read)
  BY ParseConcludes
<1> HIDE DEF read
<1>3. /\ Parse(c, w).paths = read.paths /\ ~read.refused /\ PathsAccepted(c, read.paths)
  BY <1>2 DEF Concluded
<1>4. PathsRead(c, w, Len(w), read.paths)
  BY <1>1, <1>3 DEF ReadRight
<1>5. CASE c = "inspect"
  <2>1. read.paths # <<>>
    BY <1>3, <1>5 DEF PathsAccepted
  <2> QED BY <1>3, <1>4, <1>5, <2>1 DEF PathsRead
<1>6. CASE c = "batch"
  BY <1>3, <1>6 DEF PathsAccepted
<1> QED BY <1>5, <1>6

-----------------------------------------------------------------------------
(* What a command has done by each step, and what is left to be done.       *)
Deciding == {"absent", "main", "reading", "stat", "opening", "resolving", "locating", "supervised",
             "dispatched"}
Testing == {"selftest", "tested", "probing"}
Answered == {"written", "uncaught", "exited"}

CommandStages ==
  /\ step \in {"main", "reading"} => places = 0 /\ command \in Commands
  /\ step = "reading" => command \in Inspections
  /\ step \in {"stat", "opening"} => command \in {"inspect", "batch"} /\ Len(items) < places
  /\ step = "resolving" => command = "inventory" /\ places = 0
  /\ step \in {"locating", "supervised", "returned"} =>
       /\ command \in Inspections /\ Len(items) = places
       /\ command = "inspect" => items = <<"file">>
  /\ step = "returned" => command # "inspect"
  /\ step \in Testing \cup {"dispatched", "absent"} => command \notin Inspections /\ places = 0
  /\ command = "inspect" => places <= 1
  /\ items \in Seq(Handing)
  /\ temporary => step \in {"tested", "killed"}

(* What the answer is, once there is one.                                   *)
CommandAnswers ==
  /\ "E_CANCELLED" \in {endedBy, result.code} => interrupted
  /\ step \in Deciding => result = NoResult
  /\ step \in Testing => result.status \in {"ok", "error"}
  /\ step = "returned" => result.status \in {"ok", "partial", "error"}
  /\ step \in Answered =>
       /\ exitCode = ExitCodeOf(result)
       /\ result.status \in {"ok", "partial", "unsupported", "corrupt", "error", "refused"}
       /\ result.status = "corrupt" => command = "inspect"
       /\ command \in {"batch", "inventory"} /\ endedBy # "no" => result.status \in {"error", "refused"}

(* Which goroutines are at work, and what they have open.                   *)
CommandFiles ==
  \A k \in Places :
    /\ goroutine[k] \in {"none", "opening"} \cup OpenErrors => descriptor[k] = "nothing"
    /\ goroutine[k] = "file" => descriptor[k] = "checked"
    /\ k < Current => goroutine[k] \in {"none", "done"}
    /\ k = Current /\ goroutine[k] # "none" =>
         step = "opening" \/ (step \in {"written", "uncaught"} /\ k <= places /\ result.code # "none")
    /\ k > Current => goroutine[k] = "none"

CommandFacts == CommandTypeOK /\ CommandStages /\ CommandAnswers /\ CommandFiles

(* The exit codes are those of the usage text. *)
LEMMA ExitCodes ==
  ASSUME NEW answer
  PROVE  /\ ExitCodeOf(answer) \in 0..3
         /\ ExitCodeOf(answer) = 2 <=> answer.status = "refused"
         /\ ExitCodeOf(answer) = 1 <=> answer.status = "error"
         /\ ExitCodeOf(answer) = 3 <=> answer.status = "corrupt"
<1>1. CASE answer.status = "refused"
  BY <1>1 DEF ExitCodeOf
<1>2. CASE answer.status = "error"
  BY <1>2 DEF ExitCodeOf
<1>3. CASE answer.status = "corrupt"
  BY <1>3 DEF ExitCodeOf
<1>4. CASE answer.status \notin {"refused", "error", "corrupt"}
  BY <1>4 DEF ExitCodeOf
<1> QED BY <1>1, <1>2, <1>3, <1>4

(* Writing an answer leaves a command in order if the answer is in order.   *)
Sending == {"reading", "stat", "opening", "resolving", "locating", "supervised", "returned",
            "dispatched", "probing"}
(* Writing an answer leaves a command in order. *)
LEMMA EmitKeeps ==
  ASSUME CommandFacts, NEW from \in Sending, NEW answer, Emit(from, answer),
         UNCHANGED <<command, places, contextVars, items, outsideVars>>,
         answer.status \in {"ok", "partial", "unsupported", "corrupt", "error", "refused"},
         answer.status = "corrupt" => command = "inspect",
         command \in {"batch", "inventory"} /\ endedBy # "no" => answer.status \in {"error", "refused"},
         answer.code = "E_CANCELLED" => interrupted
  PROVE  CommandStages' /\ CommandAnswers' /\ exitCode' \in 0..3 /\ step' = "written"
<1>1. step = from /\ step' = "written" /\ result' = answer /\ exitCode' = ExitCodeOf(answer)
  BY DEF Emit, Goto
<1>2. UNCHANGED <<command, places, endedBy, interrupted, items, temporary>>
  BY DEF contextVars, outsideVars
<1>3. CommandStages'
  BY <1>1, <1>2 DEF CommandFacts, CommandStages, Sending, Testing
<1>4. CommandAnswers'
  BY <1>1, <1>2 DEF CommandFacts, CommandAnswers, Deciding, Testing, Answered
<1> QED BY <1>1, <1>3, <1>4, ExitCodes

(* What nobody opens, closes or hands over stays as it is.                  *)
LEMMA FilesUntouched ==
  ASSUME CommandFacts, UNCHANGED <<openVars, items>>,
         UNCHANGED <<step, places, result>> \/ step \notin {"opening", "written", "uncaught"}
  PROVE  CommandFiles'
BY DEF CommandFacts, CommandFiles, openVars, Current

(* A command that starts, or is absent, is in order. *)
LEMMA CommandStarts == CommandInit \/ CommandAbsent => CommandFacts
<1> SUFFICES ASSUME CommandInit \/ CommandAbsent PROVE CommandFacts
  OBVIOUS
<1>1. /\ places = 0 /\ step \in {"main", "absent"} /\ endedBy = "no" /\ interrupted = FALSE
      /\ goroutine = [k \in Places |-> "none"] /\ items = <<>>
      /\ descriptor = [k \in Places |-> "nothing"]
      /\ result = NoResult /\ exitCode = 0 /\ temporary = FALSE /\ hangs = "nothing"
  BY DEF CommandInit, CommandAbsent
<1>2. argv \in Seq(STRING)
  BY CommandAssumption, EmptySeq DEF CommandInit, CommandAbsent
<1>3. /\ step = "main" => command \in Commands
      /\ step = "absent" => command = "none"
  BY DEF CommandInit, CommandAbsent, CommandOf, Commands
<1>4. <<>> \in Seq(Handing) /\ Len(<<>>) = 0
  BY EmptySeq
<1>5. CommandTypeOK
  <2>1. 0 \in 0..MaxPaths /\ 1..0 = {} /\ 0 \in 0..3
    BY CommandAssumption
  <2>2. Len(items) <= places /\ \A k \in 1..Len(items) : items[k] \in Handing
    BY <1>1, <1>4, <2>1
  <2>3. /\ goroutine \in [Places -> {"none", "opening", "done"} \cup Handing]
        /\ descriptor \in [Places -> {"nothing", "checked"}]
    BY <1>1
  <2>4. step \in CommandSteps
    BY <1>1 DEF CommandSteps
  <2> QED BY <1>1, <1>2, <1>3, <2>1, <2>2, <2>3, <2>4 DEF CommandTypeOK, HangingCalls
<1>6. CommandStages
  BY <1>1, <1>3, <1>4 DEF CommandStages, Testing, Inspections
<1>7. CommandAnswers
  BY <1>1 DEF CommandAnswers, NoResult, Deciding, Testing, Answered
<1>8. CommandFiles
  BY <1>1 DEF CommandFiles
<1> QED BY <1>5, <1>6, <1>7, <1>8 DEF CommandFacts

(* The types of what a step changes that opens nothing. *)
LEMMA TypesKept ==
  ASSUME CommandFacts, UNCHANGED <<command, places, openVars, items, hangs>>, argv' \in {argv, <<>>},
         interrupted' \in BOOLEAN, temporary' \in BOOLEAN, exitCode' \in 0..3,
         endedBy' \in {"no", "E_CANCELLED", "E_TIMEOUT"}, step' \in CommandSteps
  PROVE  CommandTypeOK'
<1>1. argv' \in Seq(STRING)
  BY EmptySeq DEF CommandFacts, CommandTypeOK
<1>2. UNCHANGED <<goroutine, descriptor>>
  BY DEF openVars
<1> QED BY <1>1, <1>2 DEF CommandFacts, CommandTypeOK

(* The ways out that write an answer.                                       *)
LEMMA RefusalKeeps ==
  ASSUME CommandFacts, RefuseArguments \/ RefuseHelper
  PROVE  CommandFacts'
<1> DEFINE answer == [status |-> "refused", code |-> "E_USAGE"]
<1>1. answer.status = "refused" /\ answer.code = "E_USAGE"
  OBVIOUS
<1>2. PICK from \in {"reading", "dispatched"} : Emit(from, answer)
  BY DEF RefuseArguments, RefuseHelper
<1> HIDE DEF answer
<1>3. /\ UNCHANGED <<command, places, contextVars, openVars, items, outsideVars>> /\ argv' = <<>>
  BY DEF RefuseArguments, RefuseHelper
<1>4. CommandStages' /\ CommandAnswers' /\ exitCode' \in 0..3 /\ step' = "written" /\ step = from
  BY <1>1, <1>2, <1>3, EmitKeeps DEF Sending, Emit, Goto
<1>5. CommandTypeOK'
  BY <1>3, <1>4, TypesKept DEF contextVars, outsideVars, CommandFacts, CommandTypeOK, CommandSteps
<1>6. CommandFiles'
  BY <1>3, <1>4, FilesUntouched
<1> QED BY <1>4, <1>5, <1>6 DEF CommandFacts

(* An answer that is no success, and one that the worker or a helper gave.  *)
LEMMA AnswerKeeps ==
  ASSUME CommandFacts, NEW from \in Sending \ {"opening"}, NEW answer, Emit(from, answer),
         UNCHANGED <<command, places, contextVars, openVars, items, outsideVars>>, argv' \in {argv, <<>>},
         answer.status \in {"ok", "partial", "unsupported", "corrupt", "error", "refused"},
         answer.status = "corrupt" => command = "inspect",
         command \in {"batch", "inventory"} /\ endedBy # "no" => answer.status \in {"error", "refused"},
         answer.code = "E_CANCELLED" => interrupted
  PROVE  CommandFacts'
<1>1. CommandStages' /\ CommandAnswers' /\ exitCode' \in 0..3 /\ step' = "written"
  BY EmitKeeps
<1>2. step = from
  BY DEF Emit, Goto
<1>3. CommandTypeOK'
  BY <1>1, TypesKept DEF contextVars, outsideVars, CommandFacts, CommandTypeOK, CommandSteps
<1>4. CommandFiles'
  BY <1>2, FilesUntouched DEF Sending
<1> QED BY <1>1, <1>3, <1>4 DEF CommandFacts

(* The answers a command gives leave it in order. *)
LEMMA AnsweringKeeps ==
  ASSUME CommandFacts,
         \/ \E code \in {"E_TIMEOUT", "E_CANCELLED", "E_FILE_ACCESS", "E_PATH_CHANGED"} : WalkFails(code)
         \/ ExecutableUnknown \/ DeliverInspection \/ DeliverCollection \/ RunHelper \/ ReportProbes
  PROVE  CommandFacts'
<1>1. endedBy = "E_CANCELLED" => interrupted
  BY DEF CommandFacts, CommandAnswers
<1>2. ASSUME NEW code, WalkFails(code) PROVE CommandFacts'
  <2>1. Problem(code).status = "error" /\ Problem(code).code = code
    BY DEF Problem
  <2>2. Emit("resolving", Problem(code)) /\ UNCHANGED <<inputVars, contextVars, openVars, items, outsideVars>>
    BY <1>2 DEF WalkFails
  <2>3. Problem(code).code = "E_CANCELLED" => interrupted
    BY <1>1, <1>2, <2>1 DEF WalkFails
  <2> QED BY <2>1, <2>2, <2>3, AnswerKeeps DEF inputVars, Sending
<1>3. CASE ExecutableUnknown
  <2>1. Problem("E_INTERNAL").status = "error" /\ Problem("E_INTERNAL").code = "E_INTERNAL"
    BY DEF Problem
  <2> QED BY <1>3, <2>1, AnswerKeeps DEF ExecutableUnknown, inputVars, Sending
<1>4. CASE DeliverInspection
  <2>1. PICK answer \in SupervisorResults : Emit("supervised", answer)
    BY <1>4 DEF DeliverInspection
  <2>2. answer.status \in {"ok", "partial", "unsupported", "corrupt", "error"}
    BY DEF SupervisorResults, Problem
  <2>3. answer.code = "E_CANCELLED" => interrupted
    BY <1>1 DEF SupervisorResults, Problem, WorkerErrors
  <2> QED BY <1>4, <2>1, <2>2, <2>3, AnswerKeeps DEF DeliverInspection, inputVars, Sending
<1>5. CASE DeliverCollection
  <2> DEFINE answer == IF endedBy = "no" THEN result ELSE Problem(endedBy)
  <2>1. Emit("returned", answer) /\ step = "returned"
    BY <1>5 DEF DeliverCollection, Emit, Goto
  <2>2. /\ answer.status \in {"ok", "partial", "error"}
        /\ endedBy # "no" => answer.status = "error"
        /\ answer.code = "E_CANCELLED" => interrupted
    BY <1>1, <2>1 DEF CommandFacts, CommandAnswers, Problem
  <2> HIDE DEF answer
  <2> QED BY <1>5, <2>1, <2>2, AnswerKeeps DEF DeliverCollection, inputVars, Sending
<1>6. CASE RunHelper
  <2>1. PICK answer \in {[status |-> "ok", code |-> "none"], Problem("none")} : Emit("dispatched", answer)
    BY <1>6 DEF RunHelper
  <2>2. answer.status \in {"ok", "error"} /\ answer.code = "none"
    BY DEF Problem
  <2>3. command \notin Inspections
    BY <1>6 DEF RunHelper
  <2> QED BY <1>6, <2>1, <2>2, <2>3, AnswerKeeps DEF RunHelper, Inspections, Sending
<1>7. CASE ReportProbes
  <2>1. Emit("probing", result) /\ step = "probing"
    BY <1>7 DEF ReportProbes, Emit, Goto
  <2>2. result.status \in {"ok", "error"} /\ command \notin Inspections
    BY <2>1 DEF CommandFacts, CommandAnswers, CommandStages, Testing
  <2>3. result.code = "E_CANCELLED" => interrupted
    BY DEF CommandFacts, CommandAnswers
  <2> QED BY <1>7, <2>1, <2>2, <2>3, AnswerKeeps DEF ReportProbes, Inspections, Sending, inputVars
<1> QED BY <1>2, <1>3, <1>4, <1>5, <1>6, <1>7

(* The steps between, which write nothing and open nothing.                 *)
LEMMA PassingKeeps ==
  ASSUME CommandFacts, StartCommand \/ WalkCollects \/ StartWorker \/ CollectionReturns
  PROVE  CommandFacts'
<1>1. /\ UNCHANGED <<inputVars, contextVars, openVars, items, exitCode, outsideVars>>
      /\ step \in {"main", "resolving", "locating", "supervised"}
      /\ step' \in {"reading", "dispatched", "locating", "supervised", "returned"}
  BY DEF StartCommand, WalkCollects, StartWorker, CollectionReturns, Goto, answerVars
<1>2. CommandTypeOK'
  BY <1>1, TypesKept DEF inputVars, contextVars, outsideVars, CommandFacts, CommandTypeOK, CommandSteps
<1>3. CommandFiles'
  BY <1>1, FilesUntouched
<1>4. CommandStages'
  <2>1. UNCHANGED <<command, places, items, temporary>>
    BY <1>1 DEF inputVars, outsideVars
  <2>2. CASE StartCommand
    BY <2>1, <2>2 DEF CommandFacts, CommandStages, StartCommand, Goto, Testing, Inspections
  <2>3. CASE WalkCollects
    <3>1. command = "inventory" /\ places = 0 /\ Len(items) = 0
      <4>1. step = "resolving"
        BY <2>3 DEF WalkCollects, Goto
      <4>2. Len(items) \in Nat /\ Len(items) <= places
        BY LenProperties DEF CommandFacts, CommandStages, CommandTypeOK
      <4> QED BY <4>1, <4>2 DEF CommandFacts, CommandStages
    <3> QED BY <2>1, <2>3, <3>1 DEF CommandFacts, CommandStages, WalkCollects, Goto, Testing, Inspections
  <2>4. CASE StartWorker
    BY <2>1, <2>4 DEF CommandFacts, CommandStages, StartWorker, Goto, Testing, Inspections
  <2>5. CASE CollectionReturns
    BY <2>1, <2>5 DEF CommandFacts, CommandStages, CollectionReturns, Goto, Testing, Inspections
  <2> QED BY <2>2, <2>3, <2>4, <2>5
<1>5. CommandAnswers'
  <2>1. UNCHANGED <<command, endedBy, interrupted>>
    BY <1>1 DEF inputVars, contextVars
  <2>2. CASE StartCommand \/ WalkCollects \/ StartWorker
    <3>1. result' = result
      BY <2>2 DEF StartCommand, WalkCollects, StartWorker, answerVars
    <3> QED BY <1>1, <2>1, <2>2, <3>1
        DEF CommandFacts, CommandAnswers, StartCommand, WalkCollects, StartWorker, Goto, Deciding, Testing,
            Answered
  <2>3. CASE CollectionReturns
    <3>1. step' = "returned" /\ result' \in SupervisorResults /\ command # "inspect"
      BY <2>3 DEF CollectionReturns, Goto
    <3>2. result'.status \in {"ok", "partial", "error"}
      BY <3>1 DEF SupervisorResults, Problem
    <3>3. result'.code = "E_CANCELLED" => interrupted
      BY <3>1 DEF SupervisorResults, Problem, WorkerErrors, CommandFacts, CommandAnswers
    <3> QED BY <2>1, <3>1, <3>2, <3>3 DEF CommandFacts, CommandAnswers, Deciding, Testing, Answered
  <2> QED BY <2>2, <2>3
<1> QED BY <1>2, <1>3, <1>4, <1>5 DEF CommandFacts

(* So do the probes of the doctor command. *)
LEMMA TestingKeeps ==
  ASSUME CommandFacts, BeginDoctor \/ MakeTemporary \/ SelfTestFails \/ SelfTestPasses
  PROVE  CommandFacts'
<1>1. /\ UNCHANGED <<command, places, contextVars, openVars, items, exitCode, hangs>>
      /\ argv' \in {argv, <<>>} /\ step \in {"dispatched", "selftest", "tested"} /\ step' \in Testing
      /\ temporary' => step' = "tested"
      /\ \/ result' \in {[status |-> "ok", code |-> "none"], Problem("none")}
         \/ result' = result /\ step \in Testing
  <2>1. CASE BeginDoctor
    <3>1. ~temporary
      BY <2>1 DEF BeginDoctor, Goto, CommandFacts, CommandStages
    <3> QED BY <2>1, <3>1 DEF BeginDoctor, Goto, outsideVars, Testing
  <2>2. CASE MakeTemporary
    BY <2>2 DEF MakeTemporary, Goto, inputVars, answerVars, Testing
  <2>3. CASE SelfTestFails \/ SelfTestPasses
    BY <2>3 DEF SelfTestFails, SelfTestPasses, Goto, inputVars, answerVars, Testing
  <2> QED BY <2>1, <2>2, <2>3
<1>2. temporary' \in BOOLEAN
  BY DEF CommandFacts, CommandTypeOK, BeginDoctor, MakeTemporary, SelfTestFails, SelfTestPasses, outsideVars
<1>3. CommandTypeOK'
  BY <1>1, <1>2, TypesKept DEF contextVars, CommandFacts, CommandTypeOK, CommandSteps, Testing
<1>4. CommandFiles'
  BY <1>1, FilesUntouched
<1>5. command \notin Inspections /\ places = 0
  BY <1>1 DEF CommandFacts, CommandStages, Testing
<1>6. CommandStages'
  BY <1>1, <1>5 DEF CommandFacts, CommandStages, Testing, Inspections
<1>7. result'.status \in {"ok", "error"} /\ (result'.code = "E_CANCELLED" => interrupted)
  BY <1>1 DEF CommandFacts, CommandAnswers, Problem, Testing
<1>8. UNCHANGED <<endedBy, interrupted>>
  BY <1>1 DEF contextVars
<1>9. CommandAnswers'
  BY <1>1, <1>7, <1>8 DEF CommandFacts, CommandAnswers, Testing, Deciding, Answered
<1> QED BY <1>3, <1>4, <1>6, <1>9 DEF CommandFacts

(* The end of the context, by a signal or by time.                          *)
LEMMA EndingKeeps ==
  ASSUME CommandFacts, SignalCaught \/ DeadlinePasses
  PROVE  CommandFacts'
<1>1. /\ UNCHANGED <<inputVars, step, openVars, items, answerVars, outsideVars>>
      /\ step \notin Answered
      /\ endedBy' \in {endedBy, "E_CANCELLED", "E_TIMEOUT"} /\ interrupted' \in {TRUE, interrupted}
      /\ endedBy' = "E_CANCELLED" => interrupted'
  BY DEF SignalCaught, DeadlinePasses, Catching, Gone, Answered, CommandFacts, CommandAnswers
<1>2. CommandTypeOK'
  BY <1>1, TypesKept DEF inputVars, outsideVars, answerVars, CommandFacts, CommandTypeOK
<1>3. CommandFiles'
  BY <1>1, FilesUntouched DEF inputVars, answerVars
<1>4. CommandStages'
  BY <1>1 DEF CommandFacts, CommandStages, inputVars, outsideVars
<1>5. CommandAnswers'
  <2>1. UNCHANGED <<command, result, exitCode>>
    BY <1>1 DEF inputVars, answerVars
  <2>2. interrupted => interrupted'
    BY <1>1 DEF CommandFacts, CommandTypeOK
  <2>3. "E_CANCELLED" \in {endedBy', result'.code} => interrupted'
    BY <1>1, <2>1, <2>2 DEF CommandFacts, CommandAnswers
  <2> QED BY <1>1, <2>1, <2>3 DEF CommandFacts, CommandAnswers
<1> QED BY <1>2, <1>3, <1>4, <1>5 DEF CommandFacts

(* The place that is being opened is one of the command's.                  *)
LEMMA CurrentPlace ==
  ASSUME CommandFacts, step \in {"stat", "opening"}
  PROVE  /\ Current \in Places /\ Current <= places /\ Len(items) \in Nat /\ places \in Nat
         /\ command \in {"inspect", "batch"} /\ items \in Seq(Handing)
         /\ command = "inspect" => Current = places /\ items = <<>>
<1>1. /\ items \in Seq(Handing) /\ places \in 0..MaxPaths /\ Len(items) < places
      /\ command \in {"inspect", "batch"} /\ (command = "inspect" => places <= 1)
  BY DEF CommandFacts, CommandStages, CommandTypeOK
<1>2. Len(items) \in Nat /\ (Len(items) = 0 => items = <<>>)
  BY <1>1, LenProperties, EmptySeq
<1>3. Current = Len(items) + 1
  BY DEF Current
<1> QED BY <1>1, <1>2, <1>3, CommandAssumption DEF Places

(* A place is settled, and the command goes on to the next, or to the worker. *)
LEMMA MovingOnKeeps ==
  ASSUME CommandFacts, step \in {"stat", "opening"}, NEW entry \in Handing,
         command = "inspect" => entry = "file",
         items' = Append(items, entry), step' = IF Current = places THEN "locating" ELSE "stat",
         UNCHANGED <<inputVars, contextVars, answerVars, outsideVars>>
  PROVE  /\ CommandStages' /\ CommandAnswers' /\ items' \in Seq(Handing)
         /\ Len(items') <= places /\ Current' = Current + 1
<1>1. /\ Current \in Places /\ Current <= places /\ Len(items) \in Nat /\ places \in Nat
      /\ command \in {"inspect", "batch"} /\ items \in Seq(Handing)
      /\ command = "inspect" => Current = places /\ items = <<>>
  BY CurrentPlace
<1>2. items' \in Seq(Handing) /\ Len(items') = Current
  BY <1>1, AppendProperties DEF Current
<1>3. UNCHANGED <<command, places, endedBy, interrupted, result, exitCode, temporary>>
  BY DEF inputVars, contextVars, answerVars, outsideVars
<1>4. Current' = Current + 1
  BY <1>2 DEF Current
<1>5. command = "inspect" => items' = <<"file">>
  BY <1>1
<1>6. Current # places => Len(items') < places
  BY <1>1, <1>2 DEF Places
<1>7. ~temporary
  BY DEF CommandFacts, CommandStages
<1>8. CommandStages'
  BY <1>1, <1>2, <1>3, <1>5, <1>6, <1>7 DEF CommandFacts, CommandStages, Testing, Inspections
<1>9. CommandAnswers'
  BY <1>3 DEF CommandFacts, CommandAnswers, Deciding, Testing, Answered
<1> QED BY <1>1, <1>2, <1>4, <1>8, <1>9

(* An open that failed is the answer, or one more place is settled.         *)
LEMMA FailingKeeps ==
  ASSUME CommandFacts, NEW from \in {"stat", "opening"}, NEW code, OpenFailed(from, code),
         code \in OpenErrors \/ (code = endedBy /\ endedBy # "no"),
         UNCHANGED <<inputVars, contextVars, outsideVars>>
  PROVE  /\ step = from /\ CommandStages' /\ CommandAnswers' /\ items' \in Seq(Handing)
         /\ Len(items') <= places /\ exitCode' \in 0..3 /\ step' \in CommandSteps
         /\ \/ step' = "written" /\ items' = items /\ result'.code # "none"
            \/ step' # "written" /\ Current' = Current + 1
<1>1. step = from
  BY DEF OpenFailed, Emit, Goto
<1>2. /\ Current \in Places /\ Current <= places /\ Len(items) \in Nat /\ places \in Nat
      /\ command \in {"inspect", "batch"} /\ items \in Seq(Handing)
  BY <1>1, CurrentPlace
<1>3. code \in OpenErrors \/ code \in {"E_CANCELLED", "E_TIMEOUT"}
  BY DEF CommandFacts, CommandTypeOK
<1>4. CASE command = "inspect" \/ code \in {"E_TIMEOUT", "E_CANCELLED"}
  <2>1. Emit(from, Problem(code)) /\ items' = items /\ result' = Problem(code)
    BY <1>4 DEF OpenFailed, Emit
  <2>2. Problem(code).status = "error" /\ Problem(code).code = code
    BY DEF Problem
  <2>3. code = "E_CANCELLED" => interrupted
    BY DEF CommandFacts, CommandAnswers, OpenErrors
  <2>4. CommandStages' /\ CommandAnswers' /\ exitCode' \in 0..3 /\ step' = "written"
    BY <2>1, <2>2, <2>3, EmitKeeps DEF Sending, inputVars
  <2>5. result'.code # "none"
    BY <1>3, <2>1, <2>2 DEF OpenErrors
  <2>6. Len(items') <= places
    BY <2>1 DEF CommandFacts, CommandTypeOK
  <2> QED BY <1>1, <1>2, <2>1, <2>4, <2>5, <2>6 DEF CommandSteps
<1>5. CASE ~(command = "inspect" \/ code \in {"E_TIMEOUT", "E_CANCELLED"})
  <2>1. /\ items' = Append(items, code) /\ step' = IF Current = places THEN "locating" ELSE "stat"
        /\ UNCHANGED answerVars
    BY <1>5 DEF OpenFailed, Goto
  <2>2. code \in Handing
    BY <1>3, <1>5 DEF Handing
  <2>3. /\ CommandStages' /\ CommandAnswers' /\ items' \in Seq(Handing)
        /\ Len(items') <= places /\ Current' = Current + 1
    BY <1>1, <1>5, <2>1, <2>2, MovingOnKeeps
  <2>4. exitCode' \in 0..3
    BY <2>1 DEF CommandFacts, CommandTypeOK, answerVars
  <2> QED BY <1>1, <2>1, <2>3, <2>4 DEF CommandSteps
<1> QED BY <1>4, <1>5

(* What becomes of the goroutine of the place that was settled.             *)
LEMMA SettlingFiles ==
  ASSUME CommandFacts, step \in {"stat", "opening"}, Len(items') \in Nat,
         \/ goroutine' = goroutine /\ (step = "stat" \/ step' = "written")
         \/ goroutine' = [goroutine EXCEPT ![Current] = "done"],
         \/ descriptor' = descriptor
         \/ goroutine'[Current] = "done" /\ descriptor' = [descriptor EXCEPT ![Current] = "nothing"],
         UNCHANGED places,
         \/ step' = "written" /\ items' = items /\ result'.code # "none"
         \/ step' # "written" /\ Current' = Current + 1
  PROVE  CommandFiles'
<1>1. /\ Current \in Places /\ Current <= places /\ Len(items) \in Nat /\ places \in Nat
  BY CurrentPlace
<1>2. /\ goroutine \in [Places -> {"none", "opening", "done"} \cup Handing]
      /\ descriptor \in [Places -> {"nothing", "checked"}]
  BY DEF CommandFacts, CommandTypeOK
<1>3. \A k \in Places : k # Current => goroutine'[k] = goroutine[k] /\ descriptor'[k] = descriptor[k]
  BY <1>2
<1>4. goroutine'[Current] = "done" \/ (UNCHANGED openVars /\ (step = "stat" \/ step' = "written"))
  BY <1>1, <1>2 DEF openVars
<1>5. step = "stat" => goroutine[Current] = "none"
  BY <1>1 DEF CommandFacts, CommandFiles
<1>6. CASE step' = "written" /\ items' = items /\ result'.code # "none"
  <2>1. Current' = Current
    BY <1>6 DEF Current
  <2> SUFFICES ASSUME NEW k \in Places
               PROVE  /\ goroutine'[k] \in {"none", "opening"} \cup OpenErrors => descriptor'[k] = "nothing"
                      /\ goroutine'[k] = "file" => descriptor'[k] = "checked"
                      /\ k < Current => goroutine'[k] \in {"none", "done"}
                      /\ k = Current /\ goroutine'[k] # "none" =>
                           step' = "written" /\ k <= places /\ result'.code # "none"
                      /\ k > Current => goroutine'[k] = "none"
    BY <2>1 DEF CommandFiles
  <2>2. CASE k # Current
    BY <1>3, <2>2 DEF CommandFacts, CommandFiles
  <2>3. CASE k = Current
    BY <1>1, <1>4, <1>6, <2>3 DEF CommandFacts, CommandFiles, openVars, OpenErrors, Places
  <2> QED BY <2>2, <2>3
<1>7. CASE step' # "written" /\ Current' = Current + 1
  <2>1. goroutine'[Current] = "done" \/ (goroutine'[Current] = "none" /\ UNCHANGED openVars)
    BY <1>4, <1>5, <1>7 DEF openVars
  <2> SUFFICES ASSUME NEW k \in Places
               PROVE  /\ goroutine'[k] \in {"none", "opening"} \cup OpenErrors => descriptor'[k] = "nothing"
                      /\ goroutine'[k] = "file" => descriptor'[k] = "checked"
                      /\ k < Current + 1 => goroutine'[k] \in {"none", "done"}
                      /\ ~(k = Current + 1 /\ goroutine'[k] # "none")
                      /\ k > Current + 1 => goroutine'[k] = "none"
    BY <1>7 DEF CommandFiles
  <2>2. k \in Int /\ Current \in Int
    BY <1>1 DEF Places
  <2>3. CASE k # Current
    BY <1>3, <2>2, <2>3 DEF CommandFacts, CommandFiles
  <2>4. CASE k = Current
    BY <1>1, <2>1, <2>2, <2>4 DEF CommandFacts, CommandFiles, openVars, OpenErrors
  <2> QED BY <2>3, <2>4
<1> QED BY <1>6, <1>7

(* The types, when a place has been settled.                                *)
LEMMA SettledTypes ==
  ASSUME CommandFacts, UNCHANGED <<inputVars, contextVars, outsideVars>>,
         items' \in Seq(Handing), Len(items') <= places, exitCode' \in 0..3, step' \in CommandSteps,
         goroutine' \in {goroutine, [goroutine EXCEPT ![Current] = "done"]},
         descriptor' \in {descriptor, [descriptor EXCEPT ![Current] = "nothing"]}
  PROVE  CommandTypeOK'
<1>1. /\ goroutine' \in [Places -> {"none", "opening", "done"} \cup Handing]
      /\ descriptor' \in [Places -> {"nothing", "checked"}]
  BY DEF CommandFacts, CommandTypeOK
<1>2. \A k \in 1..Len(items') : items'[k] \in Handing
  BY ElementOfSeq
<1>3. UNCHANGED <<argv, command, places, endedBy, interrupted, temporary, hangs>>
  BY DEF inputVars, contextVars, outsideVars
<1> QED BY <1>1, <1>2, <1>3 DEF CommandFacts, CommandTypeOK

(* A place is settled: by os.Stat, by the end of the context, by what the   *)
(* goroutine found.                                                         *)
LEMMA OpeningKeeps ==
  ASSUME CommandFacts, StatRejects \/ AbandonOpen \/ ReceiveOpened
  PROVE  CommandFacts'
<1> DEFINE Settles ==
      /\ CommandStages' /\ CommandAnswers' /\ items' \in Seq(Handing)
      /\ Len(items') <= places /\ exitCode' \in 0..3 /\ step' \in CommandSteps
      /\ \/ step' = "written" /\ items' = items /\ result'.code # "none"
         \/ step' # "written" /\ Current' = Current + 1
<1>1. UNCHANGED <<inputVars, contextVars, outsideVars>>
  BY DEF StatRejects, AbandonOpen, ReceiveOpened
<1> HIDE DEF Settles
<1>S. Settles => Len(items') \in Nat /\ places' = places /\ step' \in CommandSteps
  <2>1. Settles => items' \in Seq(Handing) /\ step' \in CommandSteps
    BY DEF Settles
  <2> QED BY <1>1, <2>1, LenProperties DEF inputVars
<1>T. Settles => \/ step' = "written" /\ items' = items /\ result'.code # "none"
                 \/ step' # "written" /\ Current' = Current + 1
  BY DEF Settles
<1>2. CASE StatRejects
  <2>1. step = "stat" /\ Settles
    <3>1. "E_NOT_REGULAR_FILE" \in OpenErrors
      BY DEF OpenErrors
    <3> QED BY <1>1, <1>2, <3>1, FailingKeeps DEF StatRejects, Settles
  <2>2. UNCHANGED <<goroutine, descriptor>>
    BY <1>2 DEF StatRejects, openVars
  <2>3. CommandTypeOK'
    BY <1>1, <2>1, <2>2, SettledTypes DEF Settles
  <2>4. CommandFiles'
    BY <1>1, <2>1, <2>2, <1>S, <1>T, SettlingFiles
  <2> QED BY <2>1, <2>3, <2>4 DEF Settles, CommandFacts
<1>3. CASE AbandonOpen
  <2>1. step = "opening" /\ Settles
    BY <1>1, <1>3, FailingKeeps DEF AbandonOpen, Settles
  <2>2. UNCHANGED <<goroutine, descriptor>>
    BY <1>3 DEF AbandonOpen, openVars
  <2>3. step' = "written"
    BY <1>3 DEF AbandonOpen, OpenFailed, Emit, Goto, CommandFacts, CommandTypeOK
  <2>4. CommandTypeOK'
    BY <1>1, <2>1, <2>2, SettledTypes DEF Settles
  <2>5. CommandFiles'
    BY <1>1, <2>1, <2>2, <2>3, <1>S, <1>T, SettlingFiles
  <2> QED BY <2>1, <2>4, <2>5 DEF Settles, CommandFacts
<1>4. CASE ReceiveOpened
  <2>1. /\ step = "opening" /\ goroutine[Current] \in Handing
        /\ goroutine' = [goroutine EXCEPT ![Current] = "done"]
        /\ descriptor' \in {descriptor, [descriptor EXCEPT ![Current] = "nothing"]}
    BY <1>4 DEF ReceiveOpened
  <2>2. Settles
    <3>1. CASE endedBy # "no"
      BY <1>1, <1>4, <2>1, <3>1, FailingKeeps DEF ReceiveOpened, Settles
    <3>2. CASE endedBy = "no" /\ goroutine[Current] # "file"
      <4>1. goroutine[Current] \in OpenErrors /\ OpenFailed("opening", goroutine[Current])
        BY <1>4, <2>1, <3>2 DEF ReceiveOpened, Handing
      <4> QED BY <1>1, <4>1, FailingKeeps DEF Settles
    <3>3. CASE endedBy = "no" /\ goroutine[Current] = "file"
      <4>1. /\ items' = Append(items, "file") /\ UNCHANGED answerVars
            /\ step' = IF Current = places THEN "locating" ELSE "stat"
        BY <1>4, <3>3 DEF ReceiveOpened, Goto
      <4>2. "file" \in Handing
        BY DEF Handing
      <4>3. /\ CommandStages' /\ CommandAnswers' /\ items' \in Seq(Handing)
            /\ Len(items') <= places /\ Current' = Current + 1
        BY <1>1, <2>1, <4>1, <4>2, MovingOnKeeps
      <4>4. exitCode' \in 0..3 /\ step' \in CommandSteps /\ step' # "written"
        BY <4>1 DEF answerVars, CommandFacts, CommandTypeOK, CommandSteps
      <4> QED BY <4>3, <4>4 DEF Settles
    <3> QED BY <3>1, <3>2, <3>3
  <2>3. goroutine'[Current] = "done"
    <3>1. Current \in Places
      BY <2>1, CurrentPlace
    <3> QED BY <2>1, <3>1 DEF CommandFacts, CommandTypeOK
  <2>4. CommandTypeOK'
    BY <1>1, <2>1, <2>2, SettledTypes DEF Settles
  <2>5. CommandFiles'
    BY <1>1, <2>1, <2>2, <2>3, <1>S, <1>T, SettlingFiles
  <2> QED BY <2>2, <2>4, <2>5 DEF Settles, CommandFacts
<1> QED BY <1>2, <1>3, <1>4

(* The words of the command behind its name. *)
LEMMA ArgumentsTyped == CommandTypeOK => ArgumentsOf(argv) \in Seq(STRING)
<1> SUFFICES ASSUME CommandTypeOK, argv # <<>> PROVE Tail(argv) \in Seq(STRING)
  BY DEF ArgumentsOf, CommandTypeOK
<1> QED BY HeadTailProperties DEF CommandTypeOK

(* So does the first look at the paths of an inspection. *)
LEMMA BeginningKeeps ==
  ASSUME CommandFacts, BeginInspection
  PROVE  CommandFacts'
<1> DEFINE answer == Parse(command, ArgumentsOf(argv))
<1>1. /\ step = "reading" /\ ~answer.refused /\ argv' = <<>>
      /\ places' = IF command = "inventory" THEN 0 ELSE Len(answer.paths)
      /\ step' = IF command = "inventory" THEN "resolving" ELSE "stat"
      /\ hangs' \in HangingCalls
      /\ UNCHANGED <<command, endedBy, interrupted, goroutine, descriptor, items, result, exitCode,
                     temporary>>
  BY DEF BeginInspection, contextVars, openVars, answerVars, HangingCalls
<1>2. command \in {"inspect", "batch", "inventory"} /\ places = 0 /\ items \in Seq(Handing)
      /\ Len(items) = 0 /\ ~temporary /\ result = NoResult
  <2>1. /\ command \in Inspections /\ places = 0 /\ items \in Seq(Handing) /\ Len(items) <= places
        /\ ~temporary
    BY <1>1 DEF CommandFacts, CommandStages, CommandTypeOK
  <2>2. Len(items) \in Nat
    BY <2>1, LenProperties
  <2>3. result = NoResult
    BY <1>1 DEF CommandFacts, CommandAnswers, Deciding
  <2> QED BY <2>1, <2>2, <2>3 DEF Inspections
<1>3. /\ command = "inspect" => places' = 1
      /\ command = "batch" => places' \in 1..MaxPaths
      /\ command = "inventory" => places' = 0
  <2>1. ArgumentsOf(argv) \in Seq(STRING)
    BY ArgumentsTyped DEF CommandFacts
  <2>2. /\ command = "inspect" => Len(answer.paths) = 1
        /\ command = "batch" => Len(answer.paths) \in 1..MaxPaths
    BY <1>1, <1>2, <2>1, PlacesRead
  <2> QED BY <1>1, <2>2
<1> HIDE DEF answer
<1>4. CommandTypeOK'
  <2>1. argv' \in Seq(STRING) /\ places' \in 0..MaxPaths /\ Len(items') <= places'
    <3>1. argv' \in Seq(STRING)
      BY <1>1, EmptySeq
    <3>2. MaxPaths \in Nat /\ MaxPaths >= 1
      BY CommandAssumption
    <3>3. places' \in 0..MaxPaths
      BY <1>2, <1>3, <3>2
    <3> QED BY <1>1, <1>2, <3>1, <3>3
  <2>2. step' \in CommandSteps
    BY <1>1 DEF CommandSteps
  <2> QED BY <1>1, <2>1, <2>2 DEF CommandFacts, CommandTypeOK
<1>5. CommandStages'
  <2>1. CASE command = "inventory"
    BY <1>1, <1>2, <1>3, <2>1 DEF CommandFacts, CommandStages, Testing, Inspections
  <2>2. CASE command # "inventory"
    <3>1. places' \in Nat /\ Len(items) < places'
      BY <1>2, <1>3, <2>2
    <3>2. step' = "stat" /\ command' \in {"inspect", "batch"} /\ items' = items /\ temporary' = temporary
      BY <1>1, <1>2, <2>2
    <3>3. Len(items') < places' /\ (command' = "inspect" => places' <= 1)
      <4>1. command = "inspect" => places' <= 1
        BY <1>3
      <4> QED BY <1>1, <3>1, <3>2, <4>1
    <3> QED BY <1>2, <3>2, <3>3 DEF CommandStages, Testing
  <2> QED BY <2>1, <2>2
<1>6. CommandAnswers'
  BY <1>1, <1>2 DEF CommandFacts, CommandAnswers, Deciding, Testing, Answered
<1>7. CommandFiles'
  BY <1>1 DEF CommandFacts, CommandFiles, Current
<1> QED BY <1>4, <1>5, <1>6, <1>7 DEF CommandFacts

(* The goroutine of a place, and what it leaves open. *)
LEMMA GoroutineKeeps ==
  ASSUME CommandFacts, step # "absent",
         \/ StartOpen
         \/ \E k \in Places : GoroutineStep(k)
  PROVE  CommandFacts'
<1>1. /\ UNCHANGED <<inputVars, contextVars, items, answerVars, outsideVars>>
      /\ step' = step \/ (step = "stat" /\ step' = "opening")
  BY DEF StartOpen, GoroutineStep, OpenReturns, OpenerGivesUp, Goto
<1>2. UNCHANGED <<argv, command, places, endedBy, interrupted, items, result, exitCode, temporary, hangs>>
  BY <1>1 DEF inputVars, contextVars, answerVars, outsideVars
<1>3. /\ goroutine \in [Places -> {"none", "opening", "done"} \cup Handing]
      /\ descriptor \in [Places -> {"nothing", "checked"}]
  BY DEF CommandFacts, CommandTypeOK
<1>4. CommandStages'
  BY <1>1, <1>2 DEF CommandFacts, CommandStages, Testing
<1>5. CommandAnswers'
  BY <1>1, <1>2 DEF CommandFacts, CommandAnswers, Deciding, Testing, Answered
<1>6. step' \in CommandSteps
  BY <1>1 DEF CommandFacts, CommandTypeOK, CommandSteps
<1>7. CASE StartOpen
  <2>1. /\ step = "stat" /\ step' = "opening" /\ descriptor' = descriptor
        /\ goroutine' = [goroutine EXCEPT ![Current] = "opening"]
    BY <1>7 DEF StartOpen, Goto
  <2>2. Current \in Places
    BY <2>1, CurrentPlace
  <2>3. goroutine' \in [Places -> {"none", "opening", "done"} \cup Handing]
    BY <1>3, <2>1
  <2>4. CommandTypeOK'
    BY <1>2, <1>3, <1>6, <2>1, <2>3 DEF CommandFacts, CommandTypeOK
  <2>5. goroutine[Current] = "none"
    BY <2>1, <2>2 DEF CommandFacts, CommandFiles
  <2>6. Current' = Current
    BY <1>2 DEF Current
  <2>7. CommandFiles'
    <3>1. goroutine'[Current] = "opening" /\ descriptor'[Current] = "nothing"
      BY <1>3, <2>1, <2>2, <2>5 DEF CommandFacts, CommandFiles
    <3>2. \A k \in Places : k # Current => goroutine'[k] = goroutine[k] /\ descriptor'[k] = descriptor[k]
      BY <1>3, <2>1
    <3>3. Current \in Int /\ \A k \in Places : k \in Int
      BY <2>2 DEF Places
    <3> SUFFICES ASSUME NEW k \in Places
                 PROVE  /\ goroutine'[k] \in {"none", "opening"} \cup OpenErrors => descriptor'[k] = "nothing"
                        /\ goroutine'[k] = "file" => descriptor'[k] = "checked"
                        /\ k < Current => goroutine'[k] \in {"none", "done"}
                        /\ k > Current => goroutine'[k] = "none"
      BY <2>1, <2>6 DEF CommandFiles
    <3>4. CASE k = Current
      BY <3>1, <3>3, <3>4 DEF OpenErrors
    <3>5. CASE k # Current
      BY <3>2, <3>5 DEF CommandFacts, CommandFiles
    <3> QED BY <3>4, <3>5
  <2> QED BY <1>4, <1>5, <2>4, <2>7 DEF CommandFacts
<1>8. ASSUME NEW k \in Places, GoroutineStep(k) PROVE CommandFacts'
  <2>1. PICK found \in Handing \cup {"done"} :
          /\ goroutine[k] \in Handing \cup {"opening"} /\ step' = step
          /\ goroutine' = [goroutine EXCEPT ![k] = found]
          /\ descriptor' = [descriptor EXCEPT ![k] = IF found = "file" THEN "checked" ELSE "nothing"]
    BY <1>8 DEF GoroutineStep, OpenReturns, OpenerGivesUp, Handing, OpenErrors
  <2>2. /\ goroutine' \in [Places -> {"none", "opening", "done"} \cup Handing]
        /\ descriptor' \in [Places -> {"nothing", "checked"}]
    BY <1>3, <2>1
  <2>3. CommandTypeOK'
    BY <1>2, <1>6, <2>2 DEF CommandFacts, CommandTypeOK
  <2>4. Current' = Current /\ k = Current
        /\ (step = "opening" \/ (step \in {"written", "uncaught"} /\ k <= places /\ result.code # "none"))
    <3>1. goroutine[k] \notin {"none", "done"}
      BY <2>1 DEF Handing, OpenErrors
    <3>2. Current \in Int /\ k \in Int
      BY LenProperties DEF CommandFacts, CommandStages, Current, Places
    <3> QED BY <1>2, <3>1, <3>2 DEF CommandFacts, CommandFiles, Current
  <2>5. CommandFiles'
    BY <1>2, <1>3, <2>1, <2>4 DEF CommandFacts, CommandFiles, Handing, OpenErrors
  <2> QED BY <1>4, <1>5, <2>3, <2>5 DEF CommandFacts
<1> QED BY <1>7, <1>8

(* The end of a command: its files are closed, and then all of it goes.     *)
LEMMA StoppingKeeps ==
  ASSUME CommandFacts, StopCatching \/ Exit \/ SignalKills
  PROVE  CommandFacts'
<1>1. /\ UNCHANGED <<inputVars, contextVars, items, answerVars, outsideVars>>
      /\ \/ step = "written" /\ step' = "uncaught"
         \/ step = "uncaught" /\ step' = "exited" /\ ReleaseAll
         \/ step' = "killed" /\ ReleaseAll
  BY DEF StopCatching, Exit, SignalKills, Goto
<1>2. UNCHANGED <<argv, command, places, endedBy, interrupted, items, result, exitCode, temporary, hangs>>
  BY <1>1 DEF inputVars, contextVars, answerVars, outsideVars
<1>3. /\ goroutine \in [Places -> {"none", "opening", "done"} \cup Handing]
      /\ descriptor \in [Places -> {"nothing", "checked"}]
  BY DEF CommandFacts, CommandTypeOK
<1>4. CommandStages'
  BY <1>1, <1>2 DEF CommandFacts, CommandStages, Testing
<1>5. CommandAnswers'
  BY <1>1, <1>2 DEF CommandFacts, CommandAnswers, Deciding, Testing, Answered
<1>6. step' \in CommandSteps
  BY <1>1 DEF CommandSteps, Gone
<1>7. /\ goroutine' \in [Places -> {"none", "opening", "done"} \cup Handing]
      /\ descriptor' \in [Places -> {"nothing", "checked"}]
  BY <1>1, <1>3 DEF StopCatching, Exit, SignalKills, ReleaseAll
<1>8. CommandTypeOK'
  BY <1>2, <1>6, <1>7 DEF CommandFacts, CommandTypeOK
<1>9. CommandFiles'
  <2>1. Current' = Current /\ Current \in Int /\ Current = Len(items) + 1 /\ Len(items) \in Int
    BY <1>2, LenProperties DEF CommandFacts, CommandStages, Current
  <2>2. CASE ReleaseAll
    BY <2>2 DEF CommandFiles, ReleaseAll, OpenErrors
  <2>3. CASE StopCatching
    <3>1. /\ step = "written" /\ step' = "uncaught" /\ goroutine' = goroutine
          /\ descriptor' = [k \in Places |->
                              IF k <= Len(items) /\ items[k] = "file" THEN "nothing" ELSE descriptor[k]]
      BY <2>3 DEF StopCatching, Goto
    <3>2. ASSUME NEW k \in Places
          PROVE  goroutine[k] = "file" => descriptor'[k] = descriptor[k]
      <4>1. goroutine[k] = "file" => ~(k < Current)
        BY DEF CommandFacts, CommandFiles
      <4> QED BY <2>1, <3>1, <4>1 DEF Places
    <3> QED BY <1>2, <2>1, <3>1, <3>2 DEF CommandFacts, CommandFiles
  <2> QED BY <1>1, <2>2, <2>3 DEF StopCatching, Exit, SignalKills
<1> QED BY <1>4, <1>5, <1>8, <1>9 DEF CommandFacts

(* So does every step of a command. *)
LEMMA CommandNextKeeps ==
  ASSUME CommandFacts, step # "absent", CommandNext
  PROVE  CommandFacts'
<1>1. CASE CommandStep
  BY <1>1, RefusalKeeps, AnsweringKeeps, PassingKeeps, TestingKeeps, OpeningKeeps, BeginningKeeps,
     GoroutineKeeps, StoppingKeeps DEF CommandStep, WalkStep, Helper
<1>2. CASE SignalCaught \/ DeadlinePasses \/ SignalKills \/ \E k \in Places : GoroutineStep(k)
  BY <1>2, EndingKeeps, StoppingKeeps, GoroutineKeeps
<1> QED BY <1>1, <1>2 DEF CommandNext

(* The facts about a run of finspect that an exit can be explained from hold *)
(* at every step of it.                                                     *)
THEOREM CommandInvariance == OpensSpec => []CommandFacts
<1>1. OpensInit => CommandFacts
  BY CommandStarts DEF OpensInit
<1>2. CommandFacts /\ [OpensNext]_opensVars => CommandFacts'
  <2> SUFFICES ASSUME CommandFacts, [OpensNext]_opensVars PROVE CommandFacts'
    OBVIOUS
  <2>1. CASE UNCHANGED commandVars
    <3>1. UNCHANGED <<argv, command, places, step, endedBy, interrupted, goroutine, descriptor, items,
                      result, exitCode, temporary, hangs>>
      BY <2>1 DEF commandVars, inputVars, contextVars, openVars, answerVars, outsideVars
    <3> QED BY <3>1 DEF CommandFacts, CommandTypeOK, CommandStages, CommandAnswers, CommandFiles, Current
  <2>2. CASE step # "absent" /\ CommandNext
    BY <2>2, CommandNextKeeps
  <2> QED BY <2>1, <2>2 DEF OpensNext, CommandRests, opensVars
<1> QED BY <1>1, <1>2, PTL DEF OpensSpec

(* What explains the exit: the facts at each step, and the grammar of the   *)
(* command line.                                                            *)
LEMMA FactsExplain == CommandFacts => ExitTellsOutcome
<1> SUFFICES ASSUME CommandFacts, step # "absent"
             PROVE  CommandTypeOK /\ ArgumentsAgree /\ CauseNamed /\ PlacesAnswered /\ NothingLeft
  BY DEF ExitTellsOutcome
<1>1. CommandTypeOK
  BY DEF CommandFacts
<1>2. ArgumentsAgree
  <2> SUFFICES ASSUME step = "reading" PROVE ArgumentsReadRight(command, ArgumentsOf(argv))
    BY DEF ArgumentsAgree
  <2>1. command \in {"inspect", "batch", "inventory"}
    BY DEF CommandFacts, CommandStages, Inspections
  <2> QED BY <1>1, <2>1, ArgumentsTyped, ArgumentsRight
<1>3. CauseNamed
  <2> SUFFICES ASSUME step \in {"written", "uncaught", "exited"}
               PROVE  /\ result.code = "E_CANCELLED" => interrupted
                      /\ command \in {"batch", "inventory"} /\ endedBy # "no" => exitCode # 0
                      /\ exitCode = 3 => command = "inspect"
                      /\ exitCode = 2 <=> result.status = "refused"
                      /\ exitCode = 0 <=> result.status \in {"ok", "partial", "unsupported"}
    BY DEF CauseNamed
  <2>1. /\ exitCode = ExitCodeOf(result)
        /\ result.status \in {"ok", "partial", "unsupported", "corrupt", "error", "refused"}
        /\ result.status = "corrupt" => command = "inspect"
        /\ command \in {"batch", "inventory"} /\ endedBy # "no" => result.status \in {"error", "refused"}
        /\ result.code = "E_CANCELLED" => interrupted
    BY DEF CommandFacts, CommandAnswers, Answered
  <2>2. /\ exitCode \in 0..3
        /\ exitCode = 2 <=> result.status = "refused"
        /\ exitCode = 1 <=> result.status = "error"
        /\ exitCode = 3 <=> result.status = "corrupt"
    BY <2>1, ExitCodes
  <2> QED BY <2>1, <2>2
<1>4. PlacesAnswered
  BY DEF CommandFacts, CommandStages, PlacesAnswered
<1>5. NothingLeft
  BY DEF CommandFacts, CommandStages, NothingLeft
<1> QED BY <1>1, <1>2, <1>3, <1>4, <1>5

(* Whatever the words of its command line and whenever signals, the deadline *)
(* and the worker come, what finspect refuses is what the usage text does    *)
(* not allow, its exit code and error code name what happened, every place  *)
(* has its answer before the worker starts and nothing of a self-test is    *)
(* left. main, parseInspectArgs, parseBatchArgs, parseInventoryArgs,        *)
(* openBatchInputs, emitResult, runDoctor.                                  *)
THEOREM ExitIsHonest == OpensSpec => []ExitTellsOutcome
BY CommandInvariance, FactsExplain, PTL

-----------------------------------------------------------------------------

(* A step of the places is one of the contract if it is a step of it, or    *)
(* none, for each of them.                                                  *)
PlaceKept(k) ==
  /\ Request(k)' = Request(k) /\ (endedBy' # "no" <=> endedBy # "no")
  /\ descriptor'[k] = descriptor[k]

(* Steps that keep or move every place by the contract are the contract's. *)
LEMMA PlacesStep ==
  ASSUME \A k \in Places : PlaceKept(k) \/ CommandPromise!OpenStep(k)
  PROVE  CommandPromise!ContractNext
BY DEF PlaceKept, CommandPromise!ContractNext, CommandPromise!Becomes

(* What a place shows, by how far the command is.                           *)
LEMMA RequestIs ==
  ASSUME CommandFacts, NEW k \in Places
  PROVE  /\ Current = Len(items) + 1 /\ Len(items) \in Nat /\ k \in Nat
         /\ k < Current => Request(k) = IF items[k] = "file" THEN "file" ELSE "error"
         /\ k = Current /\ step \in {"stat", "opening"} => Request(k) = "asked"
         /\ k = Current /\ k <= places /\ step \notin {"stat", "opening"} /\ result.code # "none" =>
              Request(k) = IF result.code \in {"E_TIMEOUT", "E_CANCELLED"} THEN "context" ELSE "error"
         /\ k = Current /\ step \notin {"stat", "opening"} /\ ~(k <= places /\ result.code # "none") =>
              Request(k) = "idle"
         /\ k > Current => Request(k) = "idle"
<1>1. Current = Len(items) + 1 /\ Len(items) \in Nat /\ k \in Nat
  BY LenProperties DEF CommandFacts, CommandStages, Current, Places
<1>2. k < Current <=> k <= Len(items)
  BY <1>1
<1>3. CASE k < Current
  BY <1>1, <1>2, <1>3 DEF Request
<1>4. CASE k = Current
  BY <1>1, <1>2, <1>4 DEF Request
<1>5. CASE k > Current
  BY <1>1, <1>2, <1>5 DEF Request
<1> QED BY <1>1, <1>3, <1>4, <1>5

(* A command's places start as the contract says. *)
LEMMA PlacesStart == OpensInit => CommandPromise!ContractInit
<1> SUFFICES ASSUME OpensInit PROVE CommandPromise!ContractInit
  OBVIOUS
<1>1. CommandFacts
  BY CommandStarts DEF OpensInit
<1>2. /\ places = 0 /\ step \in {"absent", "main"} /\ endedBy = "no" /\ items = <<>>
      /\ descriptor = [k \in Places |-> "nothing"]
  BY DEF OpensInit, CommandInit, CommandAbsent
<1>3. Len(items) = 0
  BY <1>2, EmptySeq
<1>4. ASSUME NEW k \in Places PROVE Request(k) = "idle"
  <2>1. k >= 1 /\ k \in Nat
    BY DEF Places
  <2> QED BY <1>1, <1>2, <1>3, <2>1, RequestIs
<1> QED BY <1>2, <1>4 DEF CommandPromise!ContractInit

(* The steps the contract sees nothing of: all places are answered, or      *)
(* there are none yet.                                                      *)
LEMMA QuietStep ==
  ASSUME CommandFacts, CommandFacts', Len(items) = places, NEW k \in Places,
         UNCHANGED <<places, endedBy, descriptor, items>>,
         step \notin {"stat", "opening"}, step' \notin {"stat", "opening"}
  PROVE  PlaceKept(k)
<1>1. Current' = Current
  BY DEF Current
<1>2. /\ Current = Len(items) + 1 /\ Len(items) \in Nat /\ k \in Nat
  BY RequestIs
<1>3. ~(k = Current /\ k <= places)
  BY <1>2
<1>4. Request(k)' = Request(k)
  BY <1>1, <1>3 DEF Request
<1> QED BY <1>4 DEF PlaceKept

(* Steps that open nothing keep every place. *)
LEMMA QuietSteps ==
  ASSUME CommandFacts, CommandFacts', NEW k \in Places,
         StartCommand \/ RefuseArguments \/ WalkStep \/ ExecutableUnknown \/ StartWorker
           \/ DeliverInspection \/ CollectionReturns \/ DeliverCollection \/ Helper
  PROVE  PlaceKept(k)
<1>1. /\ step \in {"main", "reading", "resolving", "locating", "supervised", "returned", "dispatched"}
           \cup Testing
      /\ step' \notin {"stat", "opening"}
      /\ UNCHANGED <<places, endedBy, descriptor, items>>
  <2>1. CASE StartCommand \/ StartWorker \/ CollectionReturns \/ WalkCollects
    BY <2>1 DEF StartCommand, StartWorker, CollectionReturns, WalkCollects, Goto, inputVars,
                contextVars, openVars
  <2>2. CASE \/ RefuseArguments \/ ExecutableUnknown \/ DeliverInspection \/ DeliverCollection
             \/ \E code \in {"E_TIMEOUT", "E_CANCELLED", "E_FILE_ACCESS", "E_PATH_CHANGED"} : WalkFails(code)
             \/ RefuseHelper \/ RunHelper \/ ReportProbes
    BY <2>2 DEF RefuseArguments, ExecutableUnknown, DeliverInspection, DeliverCollection, WalkFails,
                RefuseHelper, RunHelper, ReportProbes, Emit, Goto, Testing, inputVars, contextVars, openVars
  <2>3. CASE BeginDoctor \/ MakeTemporary \/ SelfTestFails \/ SelfTestPasses
    BY <2>3 DEF BeginDoctor, MakeTemporary, SelfTestFails, SelfTestPasses, Goto, Testing, inputVars,
                contextVars, openVars
  <2> QED BY <2>1, <2>2, <2>3 DEF WalkStep, Helper
<1>2. Len(items) = places
  <2>1. Len(items) \in Nat /\ Len(items) <= places
    BY LenProperties DEF CommandFacts, CommandStages, CommandTypeOK
  <2> QED BY <1>1, <2>1 DEF CommandFacts, CommandStages
<1> QED BY <1>1, <1>2, QuietStep DEF Testing

(* The command asks for its first place.                                    *)
LEMMA BeginningShown ==
  ASSUME CommandFacts, CommandFacts', BeginInspection, NEW k \in Places
  PROVE  PlaceKept(k) \/ CommandPromise!OpenStep(k)
<1>1. /\ step = "reading" /\ step' = (IF command = "inventory" THEN "resolving" ELSE "stat")
      /\ command = "inventory" => places' = 0
      /\ UNCHANGED <<endedBy, descriptor, items>>
  BY DEF BeginInspection, contextVars, openVars
<1>2. k >= 1 /\ Len(items) = 0 /\ Len(items)' = 0 /\ places = 0
  <2>1. Len(items) \in Nat /\ Len(items) <= places /\ places = 0
    BY <1>1, LenProperties DEF CommandFacts, CommandStages, CommandTypeOK
  <2> QED BY <1>1, <2>1 DEF Places
<1>3. Current = 1 /\ Current' = 1 /\ k \in Nat
  BY <1>2 DEF Current, Places
<1>4. Request(k) = "idle"
  BY <1>1, <1>2, <1>3, RequestIs
<1>5. CASE command = "inventory" \/ k # 1
  <2>1. Request(k)' = "idle"
    BY <1>1, <1>2, <1>3, <1>5 DEF Request
  <2> QED BY <1>1, <1>4, <2>1 DEF PlaceKept
<1>6. CASE command # "inventory" /\ k = 1
  <2>1. Request(k)' = "asked"
    BY <1>1, <1>2, <1>3, <1>6 DEF Request
  <2>2. CommandPromise!Ask(k)
    BY <1>1, <1>4, <2>1 DEF CommandPromise!Ask, CommandPromise!Becomes
  <2> QED BY <2>2 DEF CommandPromise!OpenStep
<1> QED BY <1>5, <1>6

(* A place is settled, or its failure is the answer of the command.         *)
Settled(reply) ==
  \/ /\ reply \in {"error", "context"} /\ step' = "written" /\ items' = items
     /\ result'.code # "none"
     /\ reply = IF result'.code \in {"E_TIMEOUT", "E_CANCELLED"} THEN "context" ELSE "error"
  \/ /\ reply \in {"error", "file"} /\ step' = IF Current = places THEN "locating" ELSE "stat"
     /\ \E entry \in Handing : items' = Append(items, entry) /\ (reply = "file" <=> entry = "file")

(* What that shows: the place is answered, and the next one, if there is    *)
(* one, is asked for.                                                       *)
LEMMA SettledShown ==
  ASSUME CommandFacts, CommandFacts', step \in {"stat", "opening"}, UNCHANGED places,
         NEW reply, Settled(reply), NEW k \in Places
  PROVE  /\ k = Current => Request(k) = "asked" /\ Request(k)' = reply
         /\ k # Current =>
              \/ Request(k)' = Request(k)
              \/ Request(k) = "idle" /\ Request(k)' = "asked"
<1>1. /\ Current \in Places /\ Current <= places /\ Len(items) \in Nat /\ places \in Nat
      /\ Current = Len(items) + 1 /\ k \in Nat /\ items \in Seq(Handing)
  BY CurrentPlace, RequestIs
<1>2. /\ k < Current => Request(k) = IF items[k] = "file" THEN "file" ELSE "error"
      /\ k = Current => Request(k) = "asked"
      /\ k > Current => Request(k) = "idle"
  BY RequestIs
<1>3. CASE /\ reply \in {"error", "context"} /\ step' = "written" /\ items' = items
           /\ result'.code # "none"
           /\ reply = IF result'.code \in {"E_TIMEOUT", "E_CANCELLED"} THEN "context" ELSE "error"
  <2>1. Len(items') = Len(items)
    BY <1>3
  <2>2. CASE k < Current
    BY <1>1, <1>2, <1>3, <2>1, <2>2 DEF Request
  <2>3. CASE k = Current
    BY <1>1, <1>2, <1>3, <2>1, <2>3 DEF Request, Current
  <2>4. CASE k > Current
    BY <1>1, <1>2, <1>3, <2>1, <2>4 DEF Request, Current
  <2> QED BY <1>1, <2>2, <2>3, <2>4
<1>4. ASSUME reply \in {"error", "file"}, step' = IF Current = places THEN "locating" ELSE "stat",
             NEW entry \in Handing, items' = Append(items, entry), reply = "file" <=> entry = "file"
      PROVE  /\ k = Current => Request(k)' = reply
             /\ k # Current => \/ Request(k)' = Request(k)
                               \/ Request(k) = "idle" /\ Request(k)' = "asked"
  <2>1. /\ Len(items') = Current
        /\ items'[Current] = entry
        /\ \A i \in 1..Len(items) : items'[i] = items[i]
    BY <1>1, <1>4, AppendProperties
  <2>2. Current' = Current + 1
    BY <2>1 DEF Current
  <2>3. CASE k < Current
    <3>1. items'[k] = items[k] /\ k <= Len(items')
      BY <1>1, <2>1, <2>3 DEF Places
    <3>2. Request(k)' = IF items'[k] = "file" THEN "file" ELSE "error"
      BY <3>1, <1>1, <2>1, <2>2, <2>3 DEF Request
    <3> QED BY <1>1, <1>2, <2>3, <3>1, <3>2
  <2>4. CASE k = Current
    <3>1. Request(k)' = IF items'[k] = "file" THEN "file" ELSE "error"
      BY <1>1, <2>1, <2>2, <2>4 DEF Request
    <3> QED BY <1>4, <2>1, <2>4, <3>1
  <2>5. CASE k > Current
    <3>1. ~(k <= Len(items')) /\ (k = Current' => k = Current + 1)
      BY <1>1, <2>1, <2>2, <2>5
    <3>2. CASE Current = places
      <4>1. step' = "locating" /\ ~(k <= places')
        BY <1>1, <1>4, <2>5, <3>2
      <4>2. Request(k)' = "idle"
        BY <3>1, <4>1 DEF Request
      <4> QED BY <1>1, <1>2, <2>5, <4>2
    <3>3. CASE Current # places
      <4>1. step' = "stat"
        BY <1>4, <3>3
      <4>2. Request(k)' \in {"idle", "asked"}
        BY <3>1, <4>1 DEF Request
      <4> QED BY <1>1, <1>2, <2>5, <4>2
    <3> QED BY <3>2, <3>3
  <2> QED BY <1>1, <2>3, <2>4, <2>5
<1> QED BY <1>2, <1>3, <1>4 DEF Settled

(* An open that fails settles its place. *)
LEMMA FailureSettles ==
  ASSUME CommandFacts, NEW from \in {"stat", "opening"}, NEW code, OpenFailed(from, code),
         code \in OpenErrors \/ (code = endedBy /\ endedBy # "no")
  PROVE  /\ step = from
         /\ Settled(IF code \in OpenErrors THEN "error" ELSE "context")
<1>1. step = from
  BY DEF OpenFailed, Emit, Goto
<1>2. code \in OpenErrors \/ code \in {"E_CANCELLED", "E_TIMEOUT"}
  BY DEF CommandFacts, CommandTypeOK
<1>3. CASE command = "inspect" \/ code \in {"E_TIMEOUT", "E_CANCELLED"}
  <2>1. step' = "written" /\ items' = items /\ result'.code = code
    BY <1>3 DEF OpenFailed, Emit, Goto, Problem
  <2> QED BY <1>1, <1>2, <2>1 DEF Settled, OpenErrors
<1>4. CASE ~(command = "inspect" \/ code \in {"E_TIMEOUT", "E_CANCELLED"})
  <2>1. items' = Append(items, code) /\ step' = IF Current = places THEN "locating" ELSE "stat"
    BY <1>4 DEF OpenFailed, Goto
  <2>2. code \in Handing /\ code # "file"
    BY <1>2, <1>4 DEF Handing, OpenErrors
  <2> QED BY <1>1, <1>2, <1>4, <2>1, <2>2 DEF Settled
<1> QED BY <1>3, <1>4

(* What the contract sees of it: the place asked for is answered, with a    *)
(* file that was looked at, an error when nothing is open for it, or the    *)
(* end of the context once that has come.                                   *)
LEMMA OpeningShown ==
  ASSUME CommandFacts, CommandFacts', StatRejects \/ AbandonOpen \/ ReceiveOpened, NEW k \in Places
  PROVE  PlaceKept(k) \/ CommandPromise!OpenStep(k)
<1>1. UNCHANGED <<places, endedBy>> /\ step \in {"stat", "opening"}
  BY DEF StatRejects, AbandonOpen, ReceiveOpened, OpenFailed, Emit, Goto, inputVars, contextVars
<1>2. Current \in Places
  BY <1>1, CurrentPlace
<1>3. /\ descriptor'[Current] \in {descriptor[Current], "nothing"}
      /\ \A i \in Places \ {Current} : descriptor'[i] = descriptor[i]
  BY <1>2 DEF StatRejects, AbandonOpen, ReceiveOpened, openVars, CommandFacts, CommandTypeOK
<1>4. PICK reply \in {"error", "context", "file"} :
        /\ Settled(reply)
        /\ reply = "file" => endedBy = "no" /\ descriptor[Current] = "checked" /\ descriptor' = descriptor
        /\ reply = "error" => descriptor[Current] = "nothing" /\ descriptor' = descriptor
        /\ reply = "context" => endedBy # "no"
  <2>1. CASE StatRejects
    <3>1. step = "stat" /\ Settled("error")
      <4>1. "E_NOT_REGULAR_FILE" \in OpenErrors
        BY DEF OpenErrors
      <4> QED BY <2>1, <4>1, FailureSettles DEF StatRejects
    <3>2. descriptor[Current] = "nothing"
      BY <1>2, <3>1 DEF CommandFacts, CommandFiles
    <3> QED BY <2>1, <3>1, <3>2 DEF StatRejects, openVars
  <2>2. CASE AbandonOpen
    <3>1. endedBy \notin OpenErrors
      BY DEF CommandFacts, CommandTypeOK, OpenErrors
    <3>2. Settled("context")
      BY <2>2, <3>1, FailureSettles DEF AbandonOpen
    <3> QED BY <2>2, <3>2 DEF AbandonOpen
  <2>3. CASE ReceiveOpened /\ endedBy # "no"
    <3>1. endedBy \notin OpenErrors
      BY DEF CommandFacts, CommandTypeOK, OpenErrors
    <3>2. Settled("context")
      BY <2>3, <3>1, FailureSettles DEF ReceiveOpened
    <3> QED BY <2>3, <3>2
  <2>4. CASE ReceiveOpened /\ endedBy = "no" /\ goroutine[Current] # "file"
    <3>1. goroutine[Current] \in OpenErrors /\ OpenFailed("opening", goroutine[Current])
      BY <2>4 DEF ReceiveOpened, Handing
    <3>2. Settled("error")
      BY <3>1, FailureSettles
    <3>3. descriptor[Current] = "nothing" /\ descriptor' = descriptor
      BY <1>2, <2>4, <3>1 DEF ReceiveOpened, CommandFacts, CommandFiles
    <3> QED BY <3>2, <3>3
  <2>5. CASE ReceiveOpened /\ endedBy = "no" /\ goroutine[Current] = "file"
    <3>1. items' = Append(items, "file") /\ step' = IF Current = places THEN "locating" ELSE "stat"
      BY <2>5 DEF ReceiveOpened, Goto
    <3>2. Settled("file")
      BY <3>1 DEF Settled, Handing
    <3>3. descriptor[Current] = "checked" /\ descriptor' = descriptor
      BY <1>2, <2>5 DEF ReceiveOpened, CommandFacts, CommandFiles
    <3> QED BY <2>5, <3>2, <3>3
  <2> QED BY <2>1, <2>2, <2>3, <2>4, <2>5
<1>5. CASE k = Current
  <2>1. Request(k) = "asked" /\ Request(k)' = reply
    BY <1>1, <1>4, <1>5, SettledShown
  <2>2. CASE reply = "file"
    <3>1. CommandPromise!AnswerFile(k)
      BY <1>1, <1>4, <1>5, <2>1, <2>2 DEF CommandPromise!AnswerFile, CommandPromise!Becomes
    <3> QED BY <3>1 DEF CommandPromise!OpenStep
  <2>3. CASE reply = "error"
    <3>1. CommandPromise!AnswerError(k)
      BY <1>1, <1>4, <1>5, <2>1, <2>3 DEF CommandPromise!AnswerError, CommandPromise!Becomes
    <3> QED BY <3>1 DEF CommandPromise!OpenStep
  <2>4. CASE reply = "context"
    <3>1. CommandPromise!AnswerContext(k)
      BY <1>1, <1>3, <1>4, <1>5, <2>1, <2>4 DEF CommandPromise!AnswerContext, CommandPromise!Becomes
    <3> QED BY <3>1 DEF CommandPromise!OpenStep
  <2> QED BY <2>2, <2>3, <2>4
<1>6. CASE k # Current
  <2>1. Request(k)' = Request(k) \/ (Request(k) = "idle" /\ Request(k)' = "asked")
    BY <1>1, <1>4, <1>6, SettledShown
  <2>2. descriptor'[k] = descriptor[k]
    BY <1>3, <1>6
  <2>3. CASE Request(k)' = Request(k)
    BY <1>1, <2>2, <2>3 DEF PlaceKept
  <2>4. CASE Request(k) = "idle" /\ Request(k)' = "asked"
    <3>1. CommandPromise!Ask(k)
      BY <1>1, <2>2, <2>4 DEF CommandPromise!Ask, CommandPromise!Becomes
    <3> QED BY <3>1 DEF CommandPromise!OpenStep
  <2> QED BY <2>1, <2>3, <2>4
<1> QED BY <1>5, <1>6

(* Nothing but the step of the command, its places and its answer decides   *)
(* what a place shows.                                                      *)
LEMMA RequestSame ==
  ASSUME UNCHANGED <<places, items, result>>,
         step' \in {"stat", "opening"} <=> step \in {"stat", "opening"}, NEW k \in Places
  PROVE  Request(k)' = Request(k) /\ Current' = Current
BY DEF Request, Current

(* The goroutine opens for a place that was asked for, perhaps answered by   *)
(* now, and closes what nobody takes.                                       *)
LEMMA GoroutineShown ==
  ASSUME CommandFacts, CommandFacts',
         StartOpen \/ \E i \in Places : GoroutineStep(i), NEW k \in Places
  PROVE  PlaceKept(k) \/ CommandPromise!OpenStep(k)
<1>1. /\ UNCHANGED <<places, items, result, endedBy>>
      /\ step' \in {"stat", "opening"} <=> step \in {"stat", "opening"}
  BY DEF StartOpen, GoroutineStep, OpenReturns, OpenerGivesUp, Goto, inputVars, answerVars, contextVars
<1>2. Request(k)' = Request(k)
  BY <1>1, RequestSame
<1>3. CASE descriptor'[k] = descriptor[k]
  BY <1>1, <1>2, <1>3 DEF PlaceKept
<1>4. CASE descriptor'[k] # descriptor[k]
  <2>1. GoroutineStep(k)
    BY <1>4 DEF StartOpen, GoroutineStep, OpenReturns, OpenerGivesUp, CommandFacts, CommandTypeOK
  <2>2. goroutine[k] \in {"opening"} \cup Handing /\ k \in Nat /\ Current \in Nat
    BY <2>1, RequestIs DEF GoroutineStep, OpenReturns, OpenerGivesUp, Places
  <2>3. goroutine[k] \notin {"none", "done"}
    BY <2>2 DEF Handing, OpenErrors
  <2>4. /\ k = Current
        /\ step = "opening" \/ (step \in {"written", "uncaught"} /\ k <= places /\ result.code # "none")
    BY <2>2, <2>3 DEF CommandFacts, CommandFiles
  <2>5. Request(k) \in {"asked", "context", "error"}
    BY <2>4, RequestIs
  <2>6. CASE \E found \in Handing : OpenReturns(k, found)
    <3>1. descriptor[k] = "nothing" /\ descriptor'[k] = "checked"
      BY <1>4, <2>6 DEF OpenReturns, CommandFacts, CommandFiles, CommandTypeOK
    <3>2. CommandPromise!Open(k)
      BY <1>1, <1>2, <2>5, <3>1 DEF CommandPromise!Open, CommandPromise!Becomes
    <3> QED BY <3>2 DEF CommandPromise!OpenStep
  <2>7. CASE OpenerGivesUp(k)
    <3>1. descriptor'[k] = "nothing"
      BY <2>7 DEF OpenerGivesUp, CommandFacts, CommandTypeOK
    <3>2. CommandPromise!Discard(k)
      BY <1>1, <1>2, <2>5, <3>1 DEF CommandPromise!Discard, CommandPromise!Becomes
    <3> QED BY <3>2 DEF CommandPromise!OpenStep
  <2> QED BY <2>1, <2>6, <2>7 DEF GoroutineStep
<1> QED BY <1>3, <1>4

(* The files a command took are closed at its end, and with the process     *)
(* whatever is left.                                                        *)
LEMMA StoppingShown ==
  ASSUME CommandFacts, CommandFacts', StopCatching \/ Exit \/ SignalKills, NEW k \in Places
  PROVE  PlaceKept(k) \/ CommandPromise!OpenStep(k)
<1>1. /\ UNCHANGED <<places, items, result, endedBy>>
      /\ step \notin {"stat", "opening"} /\ step' \notin {"stat", "opening"}
  BY DEF StopCatching, Exit, SignalKills, Goto, Catching, Inspections, Gone, inputVars, answerVars,
         contextVars, CommandFacts, CommandStages
<1>2. Request(k)' = Request(k)
  BY <1>1, RequestSame
<1>3. CASE descriptor'[k] = descriptor[k]
  BY <1>1, <1>2, <1>3 DEF PlaceKept
<1>4. CASE descriptor'[k] # descriptor[k]
  <2>1. descriptor'[k] = "nothing"
    BY <1>4 DEF StopCatching, Exit, SignalKills, ReleaseAll
  <2>2. CASE Request(k) = "file"
    <3>1. CommandPromise!Close(k)
      BY <1>1, <1>2, <2>1, <2>2 DEF CommandPromise!Close, CommandPromise!Becomes
    <3> QED BY <3>1 DEF CommandPromise!OpenStep
  <2>3. CASE Request(k) # "file"
    <3>1. CommandPromise!Discard(k)
      BY <1>1, <1>2, <2>1, <2>3 DEF CommandPromise!Discard, CommandPromise!Becomes
    <3> QED BY <3>1 DEF CommandPromise!OpenStep
  <2> QED BY <2>2, <2>3
<1> QED BY <1>3, <1>4

(* The context of all the places is one, and it ends once.                  *)
LEMMA EndingShown ==
  ASSUME CommandFacts, CommandFacts', SignalCaught \/ DeadlinePasses, NEW k \in Places
  PROVE  PlaceKept(k) \/ CommandPromise!OpenStep(k)
<1>1. /\ UNCHANGED <<places, items, result, step, descriptor>>
      /\ endedBy # "no" => endedBy' = endedBy
      /\ endedBy' # "no"
  BY DEF SignalCaught, DeadlinePasses, inputVars, answerVars, openVars
<1>2. Request(k)' = Request(k)
  BY <1>1, RequestSame
<1>3. CASE endedBy # "no"
  BY <1>1, <1>2, <1>3 DEF PlaceKept
<1>4. CASE endedBy = "no"
  <2>1. CommandPromise!End(k)
    BY <1>1, <1>2, <1>4 DEF CommandPromise!End, CommandPromise!Becomes
  <2> QED BY <2>1 DEF CommandPromise!OpenStep
<1> QED BY <1>3, <1>4

(* Every step of a command is one of the contract. *)
LEMMA CommandNextShown ==
  ASSUME CommandFacts, CommandFacts', CommandNext
  PROVE  CommandPromise!ContractNext
<1> SUFFICES ASSUME NEW k \in Places PROVE PlaceKept(k) \/ CommandPromise!OpenStep(k)
  BY PlacesStep
<1>1. CASE CommandStep
  BY <1>1, QuietSteps, BeginningShown, OpeningShown, GoroutineShown, StoppingShown DEF CommandStep
<1>2. CASE SignalCaught \/ DeadlinePasses \/ SignalKills \/ \E i \in Places : GoroutineStep(i)
  BY <1>2, EndingShown, StoppingShown, GoroutineShown
<1> QED BY <1>1, <1>2 DEF CommandNext

(* openCLIFile implements the contract of an open for each place of a        *)
(* command: no file is taken after the end of the context, what a file is   *)
(* answered with was looked at and stays open until the command closes it,  *)
(* and what arrives for nobody is closed.                                   *)
THEOREM CommandContractKept == OpensSpec => CommandKeepsContract
<1>1. OpensInit => CommandPromise!ContractInit
  BY PlacesStart
<1>2. CommandFacts /\ CommandFacts' /\ [OpensNext]_opensVars
        => [CommandPromise!ContractNext]_(CommandPromise!contractVars)
  <2> SUFFICES ASSUME CommandFacts, CommandFacts', [OpensNext]_opensVars
               PROVE  [CommandPromise!ContractNext]_(CommandPromise!contractVars)
    OBVIOUS
  <2>1. CASE UNCHANGED commandVars
    <3>1. UNCHANGED <<places, items, result, step, endedBy, descriptor>>
      BY <2>1 DEF commandVars, inputVars, contextVars, openVars, answerVars
    <3>2. \A k \in Places : Request(k)' = Request(k)
      BY <3>1, RequestSame
    <3> QED BY <3>1, <3>2 DEF CommandPromise!contractVars
  <2>2. CASE CommandNext
    BY <2>2, CommandNextShown
  <2> QED BY <2>1, <2>2 DEF OpensNext, CommandRests, opensVars
<1> QED BY CommandInvariance, <1>1, <1>2, PTL DEF OpensSpec, CommandKeepsContract,
       CommandPromise!ContractSafety
=============================================================================
