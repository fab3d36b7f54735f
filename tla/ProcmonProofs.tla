--------------------------- MODULE ProcmonProofs ---------------------------
(***************************************************************************)
(* Proofs about a supervised process for any limits, any number of          *)
(* descendants, and both ways of running it.                                *)
(***************************************************************************)
EXTENDS Procmon, TLAPS

(* A process just started satisfies the invariant.                          *)
LEMMA InitIInv == Init => IInv
<1> SUFFICES ASSUME Init PROVE IInv
  OBVIOUS
<1>1. TypeOK
  <2>1. run \in RunPhases /\ branch \in Branches \cup {"none"}
    BY DEF Init, RunPhases, Branches
  <2>2. length \in [Streams -> 0..Limit]
    BY ProcmonAssumption DEF Init
  <2>3. overflow \in [Streams -> BOOLEAN]
    BY DEF Init
  <2>4. leader \in {"running", "killed", "exited", "reaped"} /\ clean \in BOOLEAN
    BY DEF Init
  <2>5. helper \in [Helpers -> {"unborn", "running", "killed", "gone"}] /\ holders \subseteq Helpers
    BY DEF Init
  <2>6. overClosed \in BOOLEAN /\ waitCh \in BOOLEAN /\ swollen \in BOOLEAN
    BY DEF Init
  <2> QED BY <2>1, <2>2, <2>3, <2>4, <2>5, <2>6 DEF Init, TypeOK
<1>2. ~Overflowed
  BY DEF Init, Overflowed
<1>3. RunFacts /\ OutcomeFacts
  BY <1>2 DEF Init, RunFacts, OutcomeFacts
<1>4. KilledTreeStaysDead /\ VerdictNamesCause
  BY DEF Init, KilledTreeStaysDead, VerdictNamesCause
<1> QED BY <1>1, <1>3, <1>4 DEF IInv

(* The processes: none is started by a dead one, and an exit status is set  *)
(* before the wait returns.                                                 *)
LEMMA ProcessKeeps ==
  ASSUME IInv, ProcessStep
  PROVE  IInv'
<1>1. TypeOK'
  <2>1. ASSUME NEW h \in Helpers, NEW b \in BOOLEAN, Spawn(h, b)
        PROVE  TypeOK'
    BY <2>1 DEF IInv, TypeOK, Spawn, bufferVars
  <2>2. ASSUME NEW b \in BOOLEAN, LeaderExits(b)
        PROVE  TypeOK'
    BY <2>2 DEF IInv, TypeOK, LeaderExits, bufferVars
  <2>3. ASSUME NEW h \in Helpers, HelperExits(h)
        PROVE  TypeOK'
    BY <2>3 DEF IInv, TypeOK, HelperExits, bufferVars
  <2>4. ASSUME NEW why \in {"cancelled", "deadline"}, ContextEnds(why)
        PROVE  TypeOK'
    BY <2>4 DEF IInv, TypeOK, ContextEnds, processVars, bufferVars
  <2>5. ASSUME MemoryChanges
        PROVE  TypeOK'
    <3>1. swollen' \in BOOLEAN
      BY <2>5 DEF MemoryChanges
    <3> QED BY <2>5, <3>1 DEF IInv, TypeOK, MemoryChanges, processVars, bufferVars
  <2> QED BY <2>1, <2>2, <2>3, <2>4, <2>5 DEF ProcessStep
<1>2. RunFacts'
  BY DEF IInv, TypeOK, RunFacts, Overflowed, ProcessStep, Spawn, LeaderExits, HelperExits,
         ContextEnds, MemoryChanges, processVars, bufferVars
<1>3. OutcomeFacts' /\ VerdictNamesCause'
  BY DEF IInv, TypeOK, RunFacts, OutcomeFacts, VerdictNamesCause, Overflowed, ProcessStep, Spawn,
         LeaderExits, HelperExits, ContextEnds, MemoryChanges, processVars, bufferVars
<1>4. KilledTreeStaysDead'
  BY DEF IInv, TypeOK, KilledTreeStaysDead, ProcessStep, Spawn, LeaderExits, HelperExits,
         ContextEnds, MemoryChanges, processVars, bufferVars
<1> QED BY <1>1, <1>2, <1>3, <1>4 DEF IInv

(* The goroutines of cmd: bytes are counted up to the limit, the overflow   *)
(* channel is closed with the flag, and nothing is written after the wait.  *)
LEMMA CmdKeeps ==
  ASSUME IInv, CmdStep
  PROVE  IInv'
<1>1. CASE \E s \in Streams : Write(s)
  <2>1. PICK s \in Streams : Write(s)
    BY <1>1
  <2>2. TypeOK'
    <3>1. run' \in RunPhases
      BY <2>1 DEF IInv, TypeOK, Write, RunPhases
    <3>2. length' \in [Streams -> 0..Limit]
      BY <2>1, ProcmonAssumption DEF IInv, TypeOK, Write
    <3>3. overflow' \in [Streams -> BOOLEAN] /\ overClosed' \in BOOLEAN
      BY <2>1 DEF IInv, TypeOK, Write
    <3>4. UNCHANGED <<inherit, branch, leader, clean, helper, holders, waitCh, ctx, swollen, outcome, verdict>>
      BY <2>1 DEF Write, processVars
    <3> QED BY <3>1, <3>2, <3>3, <3>4 DEF IInv, TypeOK
  <2>3. RunFacts'
    BY <2>1 DEF IInv, TypeOK, RunFacts, Overflowed, Write, processVars
  <2>4. outcome = "none" /\ verdict = "none" /\ UNCHANGED <<outcome, verdict>>
    BY <2>1 DEF IInv, RunFacts, Write
  <2>5. OutcomeFacts' /\ VerdictNamesCause'
    BY <2>4 DEF OutcomeFacts, VerdictNamesCause
  <2>6. KilledTreeStaysDead'
    BY <2>1 DEF IInv, KilledTreeStaysDead, Write, processVars
  <2> QED BY <2>2, <2>3, <2>5, <2>6 DEF IInv
<1>2. CASE Reap \/ WaitReturns
  <2>1. TypeOK'
    <3>1. leader' \in {"running", "killed", "exited", "reaped"} /\ waitCh' \in BOOLEAN
      BY <1>2 DEF IInv, TypeOK, Reap, WaitReturns, processVars
    <3>2. UNCHANGED <<inherit, run, branch, clean, helper, holders, length, overflow, overClosed, ctx,
                      swollen, outcome, verdict>>
      BY <1>2 DEF Reap, WaitReturns, processVars, bufferVars
    <3> QED BY <3>1, <3>2 DEF IInv, TypeOK
  <2>2. RunFacts' /\ OutcomeFacts'
    BY <1>2 DEF IInv, RunFacts, OutcomeFacts, Overflowed, Reap, WaitReturns, processVars, bufferVars
  <2>3. VerdictNamesCause' /\ KilledTreeStaysDead'
    BY <1>2 DEF IInv, VerdictNamesCause, KilledTreeStaysDead, Overflowed, Reap, WaitReturns,
                processVars, bufferVars
  <2> QED BY <2>1, <2>2, <2>3 DEF IInv
<1> QED BY <1>1, <1>2 DEF CmdStep

(* The select: each branch leaves Run knowing why it was taken.             *)
LEMMA SelectKeeps ==
  ASSUME IInv, TakeWait \/ TakeOverflow \/ TakeContext \/ TakeMemory
  PROVE  IInv'
<1>1. TypeOK'
  BY DEF IInv, TypeOK, TakeWait, TakeOverflow, TakeContext, TakeMemory, Take, Return, processVars,
         bufferVars, RunPhases, Branches
<1>2. RunFacts' /\ OutcomeFacts'
  BY DEF IInv, TypeOK, RunFacts, OutcomeFacts, Overflowed, TakeWait, TakeOverflow, TakeContext,
         TakeMemory, Take, Return, processVars, bufferVars
<1>3. VerdictNamesCause' /\ KilledTreeStaysDead'
  BY DEF IInv, TypeOK, RunFacts, VerdictNamesCause, KilledTreeStaysDead, TakeWait, TakeOverflow,
         TakeContext, TakeMemory, Take, Return
<1> QED BY <1>1, <1>2, <1>3 DEF IInv

(* The kill: the group signal comes last, so what the loop missed, or what  *)
(* was started behind it, is killed too.                                    *)
LEMMA KillKeeps ==
  ASSUME IInv, StopLeader \/ FindGroup \/ KillGroup \/ \E h \in Helpers : KillMember(h)
  PROVE  IInv'
<1>1. TypeOK'
  BY DEF IInv, TypeOK, StopLeader, FindGroup, KillGroup, KillMember, processVars, bufferVars, RunPhases
<1>2. RunFacts' /\ OutcomeFacts' /\ VerdictNamesCause'
  BY DEF IInv, TypeOK, RunFacts, OutcomeFacts, VerdictNamesCause, Overflowed, StopLeader, FindGroup,
         KillGroup, KillMember, processVars, bufferVars
<1>3. KilledTreeStaysDead'
  BY DEF IInv, TypeOK, KilledTreeStaysDead, StopLeader, FindGroup, KillGroup, KillMember, processVars
<1> QED BY <1>1, <1>2, <1>3 DEF IInv

(* Returning and classifying: the outcome follows the branch, the verdict   *)
(* the context first and the outcome after it.                              *)
LEMMA ReturnKeeps ==
  ASSUME IInv, ReturnStopped \/ Classify
  PROVE  IInv'
<1>1. CASE ReturnStopped
  BY <1>1 DEF IInv, TypeOK, RunFacts, OutcomeFacts, VerdictNamesCause, KilledTreeStaysDead, Overflowed,
              ReturnStopped, Return, processVars, bufferVars, RunPhases, Branches
<1>2. CASE Classify
  <2>1. PICK r \in {"result", "E_WORKER_PROTOCOL"} :
          /\ outcome = "ok" => verdict' = r
          /\ outcome # "ok" /\ ctx = "cancelled" => verdict' = "E_CANCELLED"
          /\ outcome # "ok" /\ ctx = "deadline" => verdict' = "E_TIMEOUT"
          /\ outcome = "ErrMemory" /\ ctx = "live" => verdict' = "E_MEMORY_LIMIT"
          /\ outcome = "ErrOutput" /\ ctx = "live" => verdict' = "E_RESPONSE_TOO_LARGE"
          /\ outcome = "exit" /\ ctx = "live" => verdict' = "E_WORKER_FAILED"
    BY <1>2 DEF Classify
  <2>2. outcome \in {"ok", "exit", "ErrOutput", "ErrMemory", "ctxErr"} /\ run = "returned"
        /\ (outcome = "ctxErr" => ctx # "live") /\ ctx \in {"live", "cancelled", "deadline"}
    BY <1>2 DEF Classify, IInv, TypeOK, RunFacts, OutcomeFacts
  <2>3. TypeOK'
    BY <1>2, <2>1, <2>2 DEF IInv, TypeOK, Classify, processVars, bufferVars, RunPhases
  <2>4. RunFacts' /\ OutcomeFacts'
    BY <1>2, <2>1, <2>2 DEF IInv, RunFacts, OutcomeFacts, Overflowed, Classify, processVars, bufferVars
  <2>5. VerdictNamesCause' /\ KilledTreeStaysDead'
    BY <1>2, <2>1, <2>2 DEF IInv, OutcomeFacts, VerdictNamesCause, KilledTreeStaysDead, Overflowed,
                           Classify, processVars, bufferVars
  <2> QED BY <2>3, <2>4, <2>5 DEF IInv
<1> QED BY <1>1, <1>2

(* Every step keeps the invariant. *)
LEMMA NextKeeps == IInv /\ [Next]_vars => IInv'
<1> SUFFICES ASSUME IInv, [Next]_vars PROVE IInv'
  OBVIOUS
<1>1. CASE Ended \/ UNCHANGED vars
  BY <1>1 DEF Ended, vars, IInv, TypeOK, RunFacts, OutcomeFacts, VerdictNamesCause,
              KilledTreeStaysDead, Overflowed
<1>2. CASE Next
  BY <1>1, <1>2, ProcessKeeps, CmdKeeps, SelectKeeps, KillKeeps, ReturnKeeps DEF Next, RunStep
<1> QED BY <1>1, <1>2

(* The invariant holds for every limit and every set of descendants. *)
THEOREM Invariance == Spec => []IInv
BY InitIInv, NextKeeps, PTL DEF Spec

-----------------------------------------------------------------------------
(* Output cut at its limit, or a process that was stopped, never passes for *)
(* a complete reply, however the exit, the overflow, the sample and the     *)
(* context race.                                                            *)
THEOREM BreachesAreExplicit == Spec => []BreachIsExplicit
<1>1. IInv => BreachIsExplicit
  BY DEF IInv, RunFacts, OutcomeFacts, BreachIsExplicit
<1> QED BY Invariance, <1>1, PTL

(* A verdict names something that happened. *)
THEOREM VerdictsAreHonest == Spec => []VerdictNamesCause
<1>1. IInv => VerdictNamesCause
  BY DEF IInv
<1> QED BY Invariance, <1>1, PTL

(* A group that was found is dead before Run waits for it. *)
THEOREM KillIsComplete == Spec => []KilledTreeStaysDead
<1>1. IInv => KilledTreeStaysDead
  BY DEF IInv
<1> QED BY Invariance, <1>1, PTL

(* What Run handed back no longer changes. *)
THEOREM ResultsAreFinal == Spec => OutputIsFinal
<1>1. IInv /\ [Next]_vars => (outcome # "none" => UNCHANGED <<length, overflow>>) \/ UNCHANGED vars
  BY DEF IInv, RunFacts, Next, ProcessStep, CmdStep, RunStep, Ended, Spawn, LeaderExits, HelperExits,
         ContextEnds, MemoryChanges, Write, Reap, WaitReturns, TakeWait, TakeOverflow, TakeContext,
         TakeMemory, Take, StopLeader, FindGroup, KillMember, KillGroup, ReturnStopped, Classify,
         bufferVars
<1> QED BY Invariance, <1>1, PTL DEF Spec, OutputIsFinal
=============================================================================
