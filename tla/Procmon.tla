------------------------------ MODULE Procmon ------------------------------
(***************************************************************************)
(* One supervised process: procmon.Run starts it, copies its two output     *)
(* streams into bounded buffers, and waits in one select for its end, for   *)
(* a buffer to overflow, for the context, and for the memory sample; and    *)
(* the verdict the supervisor draws from what Run returned.                 *)
(*                                                                          *)
(* "leader" is the process Run started, Helpers the processes it or its     *)
(* descendants may start in the same group (the worker's external probes).  *)
(* A helper may have inherited the leader's output pipes, in which case     *)
(* cmd.Wait does not return before it too has ended.                        *)
(***************************************************************************)
EXTENDS Naturals

CONSTANTS Helpers,  \* the descendants a run may have
          Limit     \* bytes a stream may carry, StdoutBytes and StderrBytes

ASSUME ProcmonAssumption == Limit \in Nat \ {0}

Streams == {"stdout", "stderr"}

VARIABLES
  inherit,   \* Spec.InheritProcessGroup, set for a probe that the worker runs
  run,       \* where Run stands
  branch,    \* the select branch it took, or "none"
  leader,    \* "running", "killed" (the signal is on its way), "exited" or "reaped"
  clean,     \* the leader exited with status 0
  helper,    \* "unborn", "running", "killed" or "gone"
  holders,   \* the helpers that inherited the output pipes
  length,    \* bytes kept in each limitedBuffer
  overflow,  \* limitedBuffer.overflow, and its spent sync.Once
  overClosed,\* the overflow channel the two buffers share is closed
  waitCh,    \* cmd.Wait has returned
  ctx,       \* "live", "cancelled" or "deadline"
  swollen,   \* the memory sample would exceed MemoryBytes
  outcome,   \* what Run returned
  verdict    \* what the supervisor made of it

vars == <<inherit, run, branch, leader, clean, helper, holders, length, overflow, overClosed,
          waitCh, ctx, swollen, outcome, verdict>>
processVars == <<leader, clean, helper, holders>>
bufferVars  == <<length, overflow, overClosed>>

RunPhases == {"selecting", "stopping", "killing", "draining", "waiting", "returned",
              "classified", "panicked"}
Branches  == {"overflow", "context", "memory"}

Init ==
  /\ inherit \in BOOLEAN
  /\ run = "selecting" /\ branch = "none"
  /\ leader = "running" /\ clean = FALSE
  /\ helper = [h \in Helpers |-> "unborn"] /\ holders = {}
  /\ length = [s \in Streams |-> 0] /\ overflow = [s \in Streams |-> FALSE]
  /\ overClosed = FALSE /\ waitCh = FALSE
  /\ ctx = "live" /\ swollen = FALSE
  /\ outcome = "none" /\ verdict = "none"

-----------------------------------------------------------------------------
(* The processes. A killed process executes no more of its own code. *)

Alive(h) == helper[h] \in {"running", "killed"}

Spawn(h, holds) ==
  /\ leader = "running" \/ \E g \in Helpers : helper[g] = "running"
  /\ helper[h] = "unborn"
  /\ helper' = [helper EXCEPT ![h] = "running"]
  /\ holders' = IF holds THEN holders \cup {h} ELSE holders
  /\ UNCHANGED <<inherit, run, branch, leader, clean, bufferVars, waitCh, ctx, swollen, outcome, verdict>>

LeaderExits(status) ==
  /\ leader \in {"running", "killed"}
  /\ status => leader = "running"
  /\ leader' = "exited" /\ clean' = status
  /\ UNCHANGED <<inherit, run, branch, helper, holders, bufferVars, waitCh, ctx, swollen, outcome, verdict>>

HelperExits(h) ==
  /\ Alive(h)
  /\ helper' = [helper EXCEPT ![h] = "gone"]
  /\ UNCHANGED <<inherit, run, branch, leader, clean, holders, bufferVars, waitCh, ctx, swollen,
                 outcome, verdict>>

(* The group grows past its memory budget, or shrinks again. *)
MemoryChanges ==
  /\ run = "selecting"
  /\ swollen' = ~swollen
  /\ UNCHANGED <<inherit, run, branch, processVars, bufferVars, waitCh, ctx, outcome, verdict>>

ContextEnds(why) ==
  /\ ctx = "live" /\ ctx' = why
  /\ UNCHANGED <<inherit, run, branch, processVars, bufferVars, waitCh, swollen, outcome, verdict>>

-----------------------------------------------------------------------------
(* The goroutines of cmd: one copies each stream, one waits. *)

(* Mutant of Write: one byte more than the limit is kept. *)
WriteOneMore(s) ==
  /\ run # "panicked" /\ ~waitCh
  /\ IF length[s] <= Limit
     THEN /\ length' = [length EXCEPT ![s] = @ + 1]
          /\ UNCHANGED <<run, overflow, overClosed>>
     ELSE /\ ~overflow[s]
          /\ overflow' = [overflow EXCEPT ![s] = TRUE]
          /\ overClosed' = TRUE
          /\ run' = IF overClosed THEN "panicked" ELSE run
          /\ UNCHANGED length
  /\ UNCHANGED <<inherit, branch, processVars, waitCh, ctx, swollen, outcome, verdict>>

(* limitedBuffer.Write, for the next byte of a stream. What a process wrote *)
(* is still read from the pipe after it died, until Wait has returned. The  *)
(* two buffers close one channel, each under a sync.Once of its own: the    *)
(* second close panics and takes the process with it.                       *)
Write(s) ==
  /\ run # "panicked" /\ ~waitCh
  /\ IF length[s] < Limit
     THEN /\ length' = [length EXCEPT ![s] = @ + 1]
          /\ UNCHANGED <<run, overflow, overClosed>>
     ELSE /\ ~overflow[s]
          /\ overflow' = [overflow EXCEPT ![s] = TRUE]
          /\ overClosed' = TRUE
          /\ run' = IF overClosed THEN "panicked" ELSE run
          /\ UNCHANGED length
  /\ UNCHANGED <<inherit, branch, processVars, waitCh, ctx, swollen, outcome, verdict>>

Reap ==
  /\ run # "panicked" /\ leader = "exited"
  /\ leader' = "reaped"
  /\ UNCHANGED <<inherit, run, branch, clean, helper, holders, bufferVars, waitCh, ctx, swollen,
                 outcome, verdict>>

(* Wait returns when the process is reaped and both pipes have no writer. *)
WaitReturns ==
  /\ run # "panicked" /\ leader = "reaped" /\ ~waitCh
  /\ \A h \in holders : ~Alive(h)
  /\ waitCh' = TRUE
  /\ UNCHANGED <<inherit, run, branch, processVars, bufferVars, ctx, swollen, outcome, verdict>>

-----------------------------------------------------------------------------
(* Run: when several branches of the select are ready, any may be taken. *)

Overflowed == \E s \in Streams : overflow[s]

Return(o) == run' = "returned" /\ outcome' = o

(* Mutant of TakeWait: a process that ended by itself is not asked whether  *)
(* its output was cut.                                                      *)
TakeWaitUnchecked ==
  /\ run = "selecting" /\ waitCh
  /\ Return(IF clean THEN "ok" ELSE "exit")
  /\ UNCHANGED <<inherit, branch, processVars, bufferVars, waitCh, ctx, swollen, verdict>>

TakeWait ==
  /\ run = "selecting" /\ waitCh
  /\ Return(IF Overflowed THEN "ErrOutput" ELSE IF clean THEN "ok" ELSE "exit")
  /\ UNCHANGED <<inherit, branch, processVars, bufferVars, waitCh, ctx, swollen, verdict>>

Take(b) ==
  /\ run = "selecting"
  /\ run' = "stopping" /\ branch' = b
  /\ UNCHANGED <<inherit, processVars, bufferVars, waitCh, ctx, swollen, outcome, verdict>>

TakeOverflow == overClosed /\ Take("overflow")
TakeContext  == ctx # "live" /\ Take("context")

(* The sample reads the leader alone or its whole group; a process that is  *)
(* gone cannot be sampled, and the error is ignored.                        *)
Sampled == IF inherit THEN leader \in {"running", "killed"} ELSE leader # "reaped"

TakeMemory == swollen /\ Sampled /\ Take("memory")

(* stopProcess of a probe kills the process Run started and no other. *)
StopLeader ==
  /\ run = "stopping" /\ inherit
  /\ leader' = IF leader = "running" THEN "killed" ELSE leader
  /\ run' = "waiting"
  /\ UNCHANGED <<inherit, branch, clean, helper, holders, bufferVars, waitCh, ctx, swollen, outcome, verdict>>

(* killProcessTree: without its leader the group cannot be found, and       *)
(* nothing is killed.                                                       *)
FindGroup ==
  /\ run = "stopping" /\ ~inherit
  /\ run' = IF leader = "reaped" THEN "waiting" ELSE "killing"
  /\ UNCHANGED <<inherit, branch, processVars, bufferVars, waitCh, ctx, swollen, outcome, verdict>>

(* Members other than the leader are killed one at a time while the rest go *)
(* on running and may start more, until none is left or 100 ms have passed. *)
KillMember(h) ==
  /\ run = "killing" /\ helper[h] = "running"
  /\ helper' = [helper EXCEPT ![h] = "killed"]
  /\ UNCHANGED <<inherit, run, branch, leader, clean, holders, bufferVars, waitCh, ctx, swollen,
                 outcome, verdict>>

(* Mutant of KillGroup: only the leader is signalled. *)
KillLeaderOnly ==
  /\ run = "killing"
  /\ leader' = IF leader = "running" THEN "killed" ELSE leader
  /\ run' = "draining"
  /\ UNCHANGED <<inherit, branch, clean, helper, holders, bufferVars, waitCh, ctx, swollen, outcome, verdict>>

KillGroup ==
  /\ run = "killing"
  /\ helper' = [h \in Helpers |-> IF helper[h] = "running" THEN "killed" ELSE helper[h]]
  /\ leader' = IF leader = "running" THEN "killed" ELSE leader
  /\ run' = "draining"
  /\ UNCHANGED <<inherit, branch, clean, holders, bufferVars, waitCh, ctx, swollen, outcome, verdict>>

(* Mutant of ReturnStopped: Run does not wait for the process it stopped. *)
ReturnUnreaped ==
  /\ run \in {"draining", "waiting"}
  /\ Return(CASE branch = "overflow" -> "ErrOutput"
              [] branch = "memory"   -> "ErrMemory"
              [] branch = "context"  -> "ctxErr")
  /\ UNCHANGED <<inherit, branch, processVars, bufferVars, waitCh, ctx, swollen, verdict>>

(* Run waits for cmd.Wait before it reports why it stopped the process. *)
ReturnStopped ==
  /\ run \in {"draining", "waiting"} /\ waitCh
  /\ Return(CASE branch = "overflow" -> "ErrOutput"
              [] branch = "memory"   -> "ErrMemory"
              [] branch = "context"  -> "ctxErr")
  /\ UNCHANGED <<inherit, branch, processVars, bufferVars, waitCh, ctx, swollen, verdict>>

(* Mutant of Classify: every end of the context is a timeout. *)
ClassifyTimeout ==
  /\ run = "returned" /\ ~inherit
  /\ run' = "classified"
  /\ \E r \in {"result", "E_WORKER_PROTOCOL"} :
       verdict' = CASE outcome = "ok"          -> r
                    [] outcome # "ok" /\ ctx # "live" -> "E_TIMEOUT"
                    [] outcome = "ErrMemory" /\ ctx = "live" -> "E_MEMORY_LIMIT"
                    [] outcome = "ErrOutput" /\ ctx = "live" -> "E_RESPONSE_TOO_LARGE"
                    [] outcome = "exit" /\ ctx = "live"      -> "E_WORKER_FAILED"
  /\ UNCHANGED <<inherit, branch, processVars, bufferVars, waitCh, ctx, swollen, outcome>>

(* supervisor.Run, RunBatch, RunInventory: the context is looked at again,  *)
(* and blamed first, but only when Run returned an error. "E_WORKER_PROTOCOL"*)
(* is a reply that breaks its schema. A probe's outcome is not classified.  *)
Classify ==
  /\ run = "returned" /\ ~inherit
  /\ run' = "classified"
  /\ \E r \in {"result", "E_WORKER_PROTOCOL"} :
       verdict' = CASE outcome = "ok"          -> r
                    [] outcome # "ok" /\ ctx = "cancelled" -> "E_CANCELLED"
                    [] outcome # "ok" /\ ctx = "deadline"  -> "E_TIMEOUT"
                    [] outcome = "ErrMemory" /\ ctx = "live" -> "E_MEMORY_LIMIT"
                    [] outcome = "ErrOutput" /\ ctx = "live" -> "E_RESPONSE_TOO_LARGE"
                    [] outcome = "exit" /\ ctx = "live"      -> "E_WORKER_FAILED"
  /\ UNCHANGED <<inherit, branch, processVars, bufferVars, waitCh, ctx, swollen, outcome>>

-----------------------------------------------------------------------------
ProcessStep ==
  \/ \E h \in Helpers, b \in BOOLEAN : Spawn(h, b)
  \/ \E b \in BOOLEAN : LeaderExits(b)
  \/ \E h \in Helpers : HelperExits(h)
  \/ \E why \in {"cancelled", "deadline"} : ContextEnds(why)
  \/ MemoryChanges

CmdStep == (\E s \in Streams : Write(s)) \/ Reap \/ WaitReturns

RunStep ==
  \/ TakeWait \/ TakeOverflow \/ TakeContext \/ TakeMemory
  \/ StopLeader \/ FindGroup \/ KillGroup \/ ReturnStopped \/ Classify
  \/ \E h \in Helpers : KillMember(h)

Ended ==
  /\ run \in {"classified", "panicked"} \/ (run = "returned" /\ inherit)
  /\ UNCHANGED vars

Next == ProcessStep \/ CmdStep \/ RunStep \/ Ended

Spec == Init /\ [][Next]_vars

(* Goroutines are scheduled, the kill loop ends after 100 ms, and a killed  *)
(* process dies. Nothing makes a process that is not killed exit.           *)
ProcmonFairness ==
  /\ WF_vars(Reap) /\ WF_vars(WaitReturns)
  /\ WF_vars(TakeContext \/ TakeWait \/ TakeOverflow \/ TakeMemory) /\ WF_vars(StopLeader)
  /\ WF_vars(FindGroup) /\ WF_vars(KillGroup) /\ WF_vars(ReturnStopped) /\ WF_vars(Classify)
  /\ WF_vars(leader = "killed" /\ LeaderExits(FALSE))
  /\ \A h \in Helpers : WF_vars(helper[h] = "killed" /\ HelperExits(h))

FairSpec == Spec /\ ProcmonFairness

-----------------------------------------------------------------------------
TypeOK ==
  /\ inherit \in BOOLEAN
  /\ run \in RunPhases /\ branch \in Branches \cup {"none"}
  /\ leader \in {"running", "killed", "exited", "reaped"} /\ clean \in BOOLEAN
  /\ helper \in [Helpers -> {"unborn", "running", "killed", "gone"}] /\ holders \subseteq Helpers
  /\ length \in [Streams -> 0..Limit] /\ overflow \in [Streams -> BOOLEAN]
  /\ overClosed \in BOOLEAN /\ waitCh \in BOOLEAN
  /\ ctx \in {"live", "cancelled", "deadline"} /\ swollen \in BOOLEAN
  /\ outcome \in {"none", "ok", "exit", "ErrOutput", "ErrMemory", "ctxErr"}
  /\ verdict \in {"none", "result", "E_WORKER_PROTOCOL", "E_CANCELLED", "E_TIMEOUT",
                  "E_MEMORY_LIMIT", "E_RESPONSE_TOO_LARGE", "E_WORKER_FAILED"}

(* A limit breach is explicit: output that was cut at its limit, or a       *)
(* process that was stopped, never passes for a complete reply, although    *)
(* the exit, the overflow and the memory sample race in one select.         *)
BreachIsExplicit ==
  (outcome = "ok" \/ verdict \in {"result", "E_WORKER_PROTOCOL"}) =>
     ~Overflowed /\ branch = "none" /\ leader = "reaped"

(* Each verdict names something that happened to this process. *)
VerdictNamesCause ==
  /\ verdict = "E_TIMEOUT" => ctx = "deadline"
  /\ verdict = "E_CANCELLED" => ctx = "cancelled"
  /\ verdict = "E_RESPONSE_TOO_LARGE" => Overflowed
  /\ verdict = "E_MEMORY_LIMIT" => branch = "memory"
  /\ verdict = "E_WORKER_FAILED" => branch = "none" /\ ~clean

(* Run returns only after the leader is reaped and both streams are at      *)
(* their end, so what it hands back no longer changes.                      *)
OutputIsFinal == [][(outcome # "none") => UNCHANGED <<length, overflow>>]_vars

(* When the group was found, the kill is complete: none of its processes    *)
(* executes its own code any more, the ones started during the kill loop    *)
(* included, and none is started after.                                     *)
KilledTreeStaysDead ==
  run = "draining" => leader # "running" /\ \A h \in Helpers : helper[h] # "running"

(* The inductive invariant: what each place of Run implies about the wait,  *)
(* the branch it took and the buffers.                                      *)
RunFacts ==
  /\ overClosed <=> Overflowed
  /\ waitCh => leader = "reaped"
  /\ run \in {"returned", "classified"} => waitCh
  /\ outcome # "none" <=> run \in {"returned", "classified"}
  /\ verdict # "none" <=> run = "classified"
  /\ run = "selecting" => branch = "none"
  /\ run \in {"stopping", "killing", "draining", "waiting"} => branch # "none"
  /\ branch = "overflow" => Overflowed
  /\ branch = "context" => ctx # "live"

OutcomeFacts ==
  /\ outcome = "ok" => ~Overflowed /\ branch = "none" /\ clean
  /\ outcome = "exit" => branch = "none" /\ ~clean
  /\ outcome = "ErrOutput" => Overflowed
  /\ outcome = "ErrMemory" => branch = "memory"
  /\ outcome = "ctxErr" => ctx # "live"
  /\ verdict \in {"result", "E_WORKER_PROTOCOL"} => outcome = "ok"

IInv ==
  /\ TypeOK /\ RunFacts /\ OutcomeFacts
  /\ KilledTreeStaysDead /\ VerdictNamesCause

(* A run that hits a limit or whose context ends comes back, whatever its   *)
(* processes were doing, with one exception: the leader was already reaped, *)
(* so nothing could be killed, or only the leader is ever killed, and a     *)
(* helper still holds the output pipes.                                     *)
StoppedRunReturns ==
  (ctx # "live" \/ run = "stopping") ~>
     \/ run \in {"returned", "classified", "panicked"}
     \/ run = "waiting" /\ leader = "reaped" /\ \E h \in holders : helper[h] = "running"

(* PRODUCT_MODEL: "A limit breach is explicit": two streams over their      *)
(* limits are reported like one, and never end the program that supervises. *)
BreachNeverPanics == run # "panicked"
=============================================================================
