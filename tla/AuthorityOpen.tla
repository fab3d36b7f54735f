--------------------------- MODULE AuthorityOpen ---------------------------
(***************************************************************************)
(* OpenRelativeContext: a path is opened by a goroutine of its own, so that *)
(* a file-system call that blocks cannot hold back a caller whose context   *)
(* has ended. openSlots bounds those goroutines; the descriptor changes     *)
(* hands over an unbuffered channel, and whichever side sees the context    *)
(* end closes it.                                                           *)
(*                                                                          *)
(* An element of Opens is one call of the function. A file of the workspace *)
(* is an inode and whether it is regular; other programs may put another    *)
(* file in its place at any time.                                           *)
(***************************************************************************)
EXTENDS Naturals, FiniteSets

CONSTANTS Opens,      \* the calls of OpenRelativeContext of a run
          Inodes,     \* the files that come to stand at the requested path
          NoInode,    \* no file stands there
          OpenSlots,  \* capacity of openSlots, 4 in the code
          Callers     \* calls the MCP server lets run at once, maxConcurrentCalls

ASSUME OpenAssumption ==
  /\ IsFiniteSet(Opens)
  /\ OpenSlots \in Nat \ {0}
  /\ Callers \in Nat \ {0}
  /\ NoInode \notin Inodes

VARIABLES
  slots,     \* tokens in openSlots
  caller,    \* where the caller of each open stands
  opener,    \* where the goroutine of each open stands
  ended,     \* the open's context is done
  seen,      \* the inode the last Lstat of openRelative saw
  fd,        \* the inode the open descriptor refers to, or NoInode
  owner,     \* who must close the descriptor: "nobody", "opener" or "caller"
  outcome,   \* what the caller returned: "none", "file", "error" or "context"
  path,      \* the inode that stands at the requested path
  regular    \* the inodes that are regular files

vars == <<slots, caller, opener, ended, seen, fd, owner, outcome, path, regular>>

CallerPhases == {"idle", "admitting", "waiting", "received", "returned"}
OpenerPhases == {"none", "looking", "opening", "checking", "failed", "opened",
                 "releasing", "gone"}

Alive(o)  == opener[o] \notin {"none", "gone"}
Active    == {o \in Opens : caller[o] \in {"admitting", "waiting", "received"}}
Openers   == {o \in Opens : Alive(o)}

Init ==
  /\ slots = 0
  /\ caller = [o \in Opens |-> "idle"]
  /\ opener = [o \in Opens |-> "none"]
  /\ ended = [o \in Opens |-> FALSE]
  /\ seen = [o \in Opens |-> NoInode]
  /\ fd = [o \in Opens |-> NoInode]
  /\ owner = [o \in Opens |-> "nobody"]
  /\ outcome = [o \in Opens |-> "none"]
  /\ path \in Inodes \cup {NoInode}
  /\ regular \in SUBSET Inodes

-----------------------------------------------------------------------------
(* The environment: contexts end, and the file at the path is replaced. *)

ContextEnds(o) ==
  /\ ~ended[o]
  /\ ended' = [ended EXCEPT ![o] = TRUE]
  /\ UNCHANGED <<slots, caller, opener, seen, fd, owner, outcome, path, regular>>

Replace(i) ==
  /\ i # path
  /\ path' = i
  /\ UNCHANGED <<slots, caller, opener, ended, seen, fd, owner, outcome, regular>>

-----------------------------------------------------------------------------
(* The caller. *)

Return(o, r) ==
  /\ caller' = [caller EXCEPT ![o] = "returned"]
  /\ outcome' = [outcome EXCEPT ![o] = r]

(* Called with a call slot held, so at most Callers run at once. *)
Begin(o) ==
  /\ caller[o] = "idle" /\ Cardinality(Active) < Callers
  /\ caller' = [caller EXCEPT ![o] = "admitting"]
  /\ UNCHANGED <<slots, opener, ended, seen, fd, owner, outcome, path, regular>>

(* The first select: with a free slot and an ended context either branch   *)
(* is taken.                                                               *)
TakeOpenSlot(o) ==
  /\ caller[o] = "admitting" /\ slots < OpenSlots
  /\ slots' = slots + 1
  /\ caller' = [caller EXCEPT ![o] = "waiting"]
  /\ opener' = [opener EXCEPT ![o] = "looking"]
  /\ UNCHANGED <<ended, seen, fd, owner, outcome, path, regular>>

(* Either select gives the context's error back; the goroutine, if it was  *)
(* started, is left to itself.                                             *)
GiveUp(o) ==
  /\ caller[o] \in {"admitting", "waiting"} /\ ended[o]
  /\ Return(o, "context")
  /\ UNCHANGED <<slots, opener, ended, seen, fd, owner, path, regular>>

(* The rendezvous on the unbuffered channel, with what openRelative         *)
(* returned; the goroutine has only its deferred slot release left.         *)
HandOver(o) ==
  /\ caller[o] = "waiting" /\ opener[o] \in {"opened", "failed"}
  /\ caller' = [caller EXCEPT ![o] = "received"]
  /\ opener' = [opener EXCEPT ![o] = "releasing"]
  /\ owner' = [owner EXCEPT ![o] = IF fd[o] = NoInode THEN "nobody" ELSE "caller"]
  /\ UNCHANGED <<slots, ended, seen, fd, outcome, path, regular>>

(* Mutant of KeepOutcome: no second look at the context. *)
KeepOutcomeUnchecked(o) ==
  /\ caller[o] = "received"
  /\ Return(o, IF fd[o] = NoInode THEN "error" ELSE "file")
  /\ UNCHANGED <<slots, opener, ended, seen, fd, owner, path, regular>>

(* The caller looks at its context once more before it keeps the file. *)
KeepOutcome(o) ==
  /\ caller[o] = "received" /\ ~ended[o]
  /\ Return(o, IF fd[o] = NoInode THEN "error" ELSE "file")
  /\ UNCHANGED <<slots, opener, ended, seen, fd, owner, path, regular>>

CloseLate(o) ==
  /\ caller[o] = "received" /\ ended[o]
  /\ fd' = [fd EXCEPT ![o] = NoInode]
  /\ owner' = [owner EXCEPT ![o] = "nobody"]
  /\ Return(o, "context")
  /\ UNCHANGED <<slots, opener, ended, seen, path, regular>>

-----------------------------------------------------------------------------
(* The goroutine: openRelative, then the select that delivers its result.   *)

(* The Lstat of every component; a path that is refused for its form, or    *)
(* whose last component is not a regular file, ends here.                   *)
LookUp(o) ==
  /\ opener[o] = "looking"
  /\ \/ /\ path \in regular
        /\ seen' = [seen EXCEPT ![o] = path]
        /\ opener' = [opener EXCEPT ![o] = "opening"]
     \/ /\ opener' = [opener EXCEPT ![o] = "failed"]
        /\ UNCHANGED seen
  /\ UNCHANGED <<slots, caller, ended, fd, owner, outcome, path, regular>>

(* root.Open, which opens whatever stands at the path by now. *)
OpenFile(o) ==
  /\ opener[o] = "opening"
  /\ \/ /\ path # NoInode
        /\ fd' = [fd EXCEPT ![o] = path]
        /\ owner' = [owner EXCEPT ![o] = "opener"]
        /\ opener' = [opener EXCEPT ![o] = "checking"]
     \/ /\ opener' = [opener EXCEPT ![o] = "failed"]
        /\ UNCHANGED <<fd, owner>>
  /\ UNCHANGED <<slots, caller, ended, seen, outcome, path, regular>>

(* file.Stat and os.SameFile: the descriptor is kept only when it is the    *)
(* regular file the Lstat saw, and closed otherwise.                        *)
CheckIdentity(o) ==
  /\ opener[o] = "checking"
  /\ \/ /\ fd[o] \in regular /\ fd[o] = seen[o]
        /\ opener' = [opener EXCEPT ![o] = "opened"]
        /\ UNCHANGED <<fd, owner>>
     \/ /\ opener' = [opener EXCEPT ![o] = "failed"]
        /\ fd' = [fd EXCEPT ![o] = NoInode]
        /\ owner' = [owner EXCEPT ![o] = "nobody"]
  /\ UNCHANGED <<slots, caller, ended, seen, outcome, path, regular>>

(* Mutant of DropResult: once the caller has left, the goroutine can only   *)
(* send.                                                                    *)
DropResultWhileAwaited(o) ==
  /\ opener[o] \in {"opened", "failed"} /\ ended[o] /\ caller[o] = "waiting"
  /\ fd' = [fd EXCEPT ![o] = NoInode]
  /\ owner' = [owner EXCEPT ![o] = "nobody"]
  /\ opener' = [opener EXCEPT ![o] = "releasing"]
  /\ UNCHANGED <<slots, caller, ended, seen, outcome, path, regular>>

(* The goroutine's select sees the context end: it closes what it opened,   *)
(* whether or not the caller is still waiting.                              *)
DropResult(o) ==
  /\ opener[o] \in {"opened", "failed"} /\ ended[o]
  /\ fd' = [fd EXCEPT ![o] = NoInode]
  /\ owner' = [owner EXCEPT ![o] = "nobody"]
  /\ opener' = [opener EXCEPT ![o] = "releasing"]
  /\ UNCHANGED <<slots, caller, ended, seen, outcome, path, regular>>

(* Mutant of ReleaseOpenSlot: only a goroutine whose caller still waited     *)
(* gives its slot back.                                                      *)
ReleaseIfReceived(o) ==
  /\ opener[o] = "releasing"
  /\ slots' = IF caller[o] = "received" THEN slots - 1 ELSE slots
  /\ opener' = [opener EXCEPT ![o] = "gone"]
  /\ UNCHANGED <<caller, ended, seen, fd, owner, outcome, path, regular>>

ReleaseOpenSlot(o) ==
  /\ opener[o] = "releasing"
  /\ slots' = slots - 1
  /\ opener' = [opener EXCEPT ![o] = "gone"]
  /\ UNCHANGED <<caller, ended, seen, fd, owner, outcome, path, regular>>

(* The caller is done with the file it was given and closes it. *)
CloseByCaller(o) ==
  /\ caller[o] = "returned" /\ outcome[o] = "file" /\ owner[o] = "caller"
  /\ fd' = [fd EXCEPT ![o] = NoInode]
  /\ owner' = [owner EXCEPT ![o] = "nobody"]
  /\ UNCHANGED <<slots, caller, opener, ended, seen, outcome, path, regular>>

-----------------------------------------------------------------------------
FileSystemStep(o) == LookUp(o) \/ OpenFile(o) \/ CheckIdentity(o)
CallerStep(o) == TakeOpenSlot(o) \/ GiveUp(o) \/ HandOver(o) \/ KeepOutcome(o) \/ CloseLate(o)
OpenerStep(o) == DropResult(o) \/ ReleaseOpenSlot(o)

Next ==
  \/ \E o \in Opens : \/ Begin(o) \/ ContextEnds(o) \/ CloseByCaller(o)
                      \/ CallerStep(o) \/ FileSystemStep(o) \/ OpenerStep(o)
  \/ \E i \in Inodes \cup {NoInode} : Replace(i)

Spec == Init /\ [][Next]_vars

(* Goroutines are scheduled and a call's deadline passes. *)
SchedulerFairness ==
  \A o \in Opens : WF_vars(CallerStep(o)) /\ WF_vars(OpenerStep(o)) /\ WF_vars(ContextEnds(o))

(* The file system answers in the end. *)
FileSystemFairness == \A o \in Opens : WF_vars(FileSystemStep(o))

(* A file system that may never answer. *)
BlockedSpec == Spec /\ SchedulerFairness

-----------------------------------------------------------------------------
TypeOK ==
  /\ slots \in Nat
  /\ caller \in [Opens -> CallerPhases] /\ opener \in [Opens -> OpenerPhases]
  /\ ended \in [Opens -> BOOLEAN]
  /\ seen \in [Opens -> Inodes \cup {NoInode}] /\ fd \in [Opens -> Inodes \cup {NoInode}]
  /\ owner \in [Opens -> {"nobody", "opener", "caller"}]
  /\ outcome \in [Opens -> {"none", "file", "error", "context"}]
  /\ path \in Inodes \cup {NoInode} /\ regular \subseteq Inodes

(* openSlots holds one token per living goroutine, so abandoned opens are   *)
(* bounded by its capacity and never counted twice or lost.                 *)
SlotPerOpener == slots = Cardinality(Openers) /\ slots <= OpenSlots

(* An open descriptor always has exactly one side left that will close it,  *)
(* and that side can still do so: the goroutine before the rendezvous, the  *)
(* caller after it. An abandoned open leaks nothing once its goroutine is   *)
(* gone.                                                                    *)
DescriptorHasOwner ==
  \A o \in Opens :
    /\ fd[o] # NoInode <=> owner[o] # "nobody"
    /\ owner[o] = "opener" => opener[o] \in {"checking", "opened"}
    /\ owner[o] = "caller" => \/ caller[o] = "received"
                              \/ caller[o] = "returned" /\ outcome[o] = "file"

(* A descriptor a caller may use is the regular file the path was validated *)
(* against, whatever was put at the path in between.                        *)
KeptFileWasValidated ==
  \A o \in Opens : owner[o] = "caller" => fd[o] \in regular /\ fd[o] = seen[o]

(* A file is returned only by a caller that found its context live after    *)
(* the hand-over: no call proceeds past an ended context with a file that   *)
(* came late.                                                               *)
NoFileAfterEnd ==
  [][\A o \in Opens : (outcome[o] = "none" /\ ended[o]) => outcome'[o] \in {"none", "context"}]_vars

(* The inductive invariant: what ties the two sides of an open together.    *)
OpenFacts(o) ==
  /\ opener[o] \in {"none", "looking", "opening", "failed"} => owner[o] = "nobody"
  /\ opener[o] \in {"checking", "opened"} <=> owner[o] = "opener"
  /\ opener[o] = "opened" => fd[o] \in regular /\ fd[o] = seen[o]
  /\ caller[o] \in {"idle", "admitting"} => opener[o] = "none"
  /\ caller[o] \in {"waiting", "received"} => opener[o] # "none"
  /\ caller[o] = "received" => opener[o] \in {"releasing", "gone"}
  /\ outcome[o] = "none" <=> caller[o] # "returned"
  /\ outcome[o] \in {"file", "error"} => opener[o] \in {"releasing", "gone"}

IInv ==
  /\ TypeOK /\ SlotPerOpener /\ DescriptorHasOwner /\ KeptFileWasValidated
  /\ \A o \in Opens : OpenFacts(o)

(* A call as a request for an open file; an error of the path is not        *)
(* answered once the context has ended.                                     *)
RequestOf(o) ==
  CASE caller[o] = "idle" -> "idle" [] caller[o] = "returned" -> outcome[o] [] OTHER -> "asked"

HeldFor(o) ==
  IF fd[o] = NoInode THEN "nothing"
  ELSE IF fd[o] \in regular /\ fd[o] = seen[o] THEN "checked" ELSE "unchecked"

Promise ==
  INSTANCE OpenContract
    WITH LateErrors <- FALSE, request <- [o \in Opens |-> RequestOf(o)],
         held <- [o \in Opens |-> HeldFor(o)]

(* Every open keeps the contract of an open, whichever side of the hand-over *)
(* sees its context end: a caller gets a file only while its context is     *)
(* live, the file that was validated, and what an abandoned open finds is    *)
(* closed by no one but its goroutine. OpenRelativeContext.                  *)
AuthorityKeepsContract == Promise!ContractSafety

(* The deadline reaches a caller even while the file system is blocked, in  *)
(* its own goroutine's calls or in those of the openers holding every slot. *)
EndReleasesCaller ==
  \A o \in Opens : (ended[o] /\ caller[o] # "idle") ~> (caller[o] = "returned")

(* If the file system answers, the slots of abandoned opens come back. *)
SlotsComeBack == FileSystemFairness => \A o \in Opens : Alive(o) ~> (opener[o] = "gone")
=============================================================================
