--------------------------- MODULE InventoryWalk ---------------------------
(***************************************************************************)
(* The walk of a workspace inventory: CollectRegularFilesContext goes      *)
(* through the directories below the requested one, breadth first and      *)
(* under limits, and opens every regular file it meets, while other        *)
(* programs change the tree and the call's context may end.                *)
(*                                                                         *)
(* A path is the sequence of names that lead to it from the requested      *)
(* directory, which is the workspace root itself, and a name is a number,  *)
(* in the order in which names sort. An entry is known by its kind and the *)
(* change that made it, which is what os.SameFile tells apart.             *)
(***************************************************************************)
EXTENDS Integers, Sequences, FiniteSets

CONSTANTS Paths,
          MaxDepth, MaxFiles, MaxDirectories, MaxEntries,
          MaxChanges   \* bound: entries that other programs change

Top == <<>>
Parent(p) == SubSeq(p, 1, Len(p) - 1)

ASSUME WalkAssumption ==
  /\ IsFiniteSet(Paths) /\ Paths \subseteq Seq(Nat) \ {Top}
  /\ \A p \in Paths : Parent(p) \in Paths \cup {Top}
  /\ MaxDepth \in Nat /\ MaxChanges \in Nat
  /\ {MaxFiles, MaxDirectories, MaxEntries} \subseteq Nat \ {0}

VARIABLES fs,           \* the tree: what stands at each path
          changes,      \* entries changed so far
          interrupted,  \* the call's context has ended
          at,           \* where the walk stands
          queue,        \* directories still to be read
          current,      \* the directory being read, its entry when first looked at
          entries,      \* names of it that are still to be looked at
          candidate,    \* the file being opened, as first looked at and as opened
          files,        \* the files collected, each with an open descriptor
          entriesScanned, directoriesScanned,
          symlinksSkipped, specialSkipped,
          truncated

treeVars == <<fs, changes>>
counters == <<entriesScanned, directoriesScanned, symlinksSkipped, specialSkipped>>
walkVars == <<treeVars, interrupted, at, queue, current, entries, candidate, files,
              counters, truncated>>

Kinds == {"absent", "regular", "directory", "symlink", "special"}
Entry(kind, change) == [kind |-> kind, change |-> change]
Absent == Entry("absent", 0)
Nobody == [path |-> Top, seen |-> Absent, opened |-> Absent]

(* Nothing stands below anything but a directory. *)
WalkInit ==
  /\ \E kind \in {k \in [Paths \cup {Top} -> Kinds] : k[Top] = "directory"} :
       /\ \A p \in Paths : kind[p] # "absent" => kind[Parent(p)] = "directory"
       /\ fs = [p \in Paths \cup {Top} |-> Entry(kind[p], 0)]
  /\ changes = 0 /\ interrupted = FALSE
  /\ at = "starting"
  /\ queue = <<>> /\ entries = {} /\ files = <<>>
  /\ current = Nobody /\ candidate = Nobody
  /\ entriesScanned = 0 /\ directoriesScanned = 0
  /\ symlinksSkipped = 0 /\ specialSkipped = 0
  /\ truncated = FALSE

Walking == at \notin {"returned", "failed"}

Beneath(p) == {q \in Paths : Len(q) > Len(p) /\ SubSeq(q, 1, Len(p)) = p}

(* Another program puts something else at a path, or removes what is there. *)
(* A directory goes with its contents, and the one that comes is empty; a    *)
(* symlink in the place of a directory leads nowhere.                       *)
Change(p, kind) ==
  /\ Walking /\ changes < MaxChanges
  /\ fs[Parent(p)].kind = "directory"
  /\ ~(kind = "absent" /\ fs[p].kind = "absent")
  /\ changes' = changes + 1
  /\ fs' = [q \in DOMAIN fs |->
              IF q = p THEN Entry(kind, changes + 1)
              ELSE IF q \in Beneath(p) THEN Entry("absent", changes + 1)
              ELSE fs[q]]
  /\ UNCHANGED <<interrupted, at, queue, current, entries, candidate, files, counters, truncated>>

ContextEnds ==
  /\ Walking /\ ~interrupted
  /\ interrupted' = TRUE
  /\ UNCHANGED <<treeVars, at, queue, current, entries, candidate, files, counters, truncated>>

-----------------------------------------------------------------------------
(* An error ends the walk; collection.Close closes what it had collected.   *)
Fail ==
  /\ at' = "failed"
  /\ files' = <<>>
  /\ UNCHANGED <<treeVars, interrupted, queue, current, entries, candidate, counters, truncated>>

(* The root is refused: not granted, not a directory, a path that is not    *)
(* valid, a component that is a symlink.                                    *)
RefuseRoot == at = "starting" /\ Fail

AcceptRoot ==
  /\ at = "starting"
  /\ at' = "directory" /\ queue' = <<Top>>
  /\ UNCHANGED <<treeVars, interrupted, current, entries, candidate, files, counters, truncated>>

(* The loop over directories. Its condition comes first: with nothing left  *)
(* to read the walk succeeds, even in an ended context.                     *)
EndOfQueue ==
  /\ at = "directory" /\ queue = <<>>
  /\ at' = "returned"
  /\ UNCHANGED <<treeVars, interrupted, queue, current, entries, candidate, files, counters,
                 truncated>>

(* The context is looked at before a directory, after it was read, and      *)
(* before each of its entries.                                              *)
Abandon ==
  /\ interrupted
  /\ \/ at = "directory" /\ queue # <<>>
     \/ at = "listing"
     \/ at = "entry" /\ entries # {}
  /\ Fail

RemainingEntries == MaxEntries - entriesScanned
OverLimit == directoriesScanned >= MaxDirectories \/ RemainingEntries <= 0

StopAtLimit ==
  /\ at = "directory" /\ queue # <<>> /\ ~interrupted /\ OverLimit
  /\ at' = "returned" /\ truncated' = TRUE
  /\ UNCHANGED <<treeVars, interrupted, queue, current, entries, candidate, files, counters>>

Names(p) == {q \in Paths : Parent(q) = p /\ fs[q].kind # "absent"}

(* readDirectoryStable: the directory is looked at, opened and read, ...    *)
ReadDirectory ==
  /\ at = "directory" /\ queue # <<>> /\ ~interrupted /\ ~OverLimit
  /\ fs[Head(queue)].kind = "directory"
  /\ at' = "listing"
  /\ queue' = Tail(queue)
  /\ current' = [Nobody EXCEPT !.path = Head(queue), !.seen = fs[Head(queue)]]
  /\ entries' = Names(Head(queue))
  /\ UNCHANGED <<treeVars, interrupted, candidate, files, counters, truncated>>

(* Mutant of OverEntries: one name too many is taken for a full directory. *)
OverEntriesByTwo(names) == Cardinality(names) > RemainingEntries + 1
OverEntries(names) == Cardinality(names) > RemainingEntries

(* ... and must still be there afterwards. Of more names than the budget    *)
(* has left the first ones read are kept, in whatever order the file system *)
(* lists them, and nothing else is descended into.                          *)
ConfirmListing ==
  /\ at = "listing" /\ ~interrupted
  /\ fs[current.path] = current.seen
  /\ LET cut == OverEntries(entries)
     IN  /\ \E prefix \in SUBSET entries :
              /\ IF cut THEN Cardinality(prefix) = RemainingEntries ELSE prefix = entries
              /\ entries' = prefix
              /\ entriesScanned' = entriesScanned + Cardinality(prefix)
         /\ queue' = IF cut THEN <<>> ELSE queue
         /\ truncated' = (truncated \/ cut)
  /\ directoriesScanned' = directoriesScanned + 1
  /\ at' = "entry"
  /\ UNCHANGED <<treeVars, interrupted, current, candidate, files, symlinksSkipped,
                 specialSkipped>>

(* A directory that is not what it was, or cannot be read, fails the walk.  *)
DirectoryFails ==
  /\ \/ at = "directory" /\ queue # <<>> /\ ~interrupted /\ ~OverLimit
     \/ at = "listing" /\ ~interrupted
  /\ Fail

EndOfDirectory ==
  /\ at = "entry" /\ entries = {}
  /\ at' = "directory"
  /\ UNCHANGED <<treeVars, interrupted, queue, current, entries, candidate, files, counters,
                 truncated>>

-----------------------------------------------------------------------------
(* The loop over the entries of a directory, in the order of their names.   *)
Name(p) == p[Len(p)]

LookAt(p) ==
  /\ at = "entry" /\ ~interrupted
  /\ p \in entries /\ \A q \in entries : Name(p) <= Name(q)

NextEntry(p) == at' = "entry" /\ entries' = entries \ {p}

(* Gone or unreadable: a concurrent change, and the flag says so. *)
EntryVanished(p) ==
  /\ LookAt(p) /\ NextEntry(p)
  /\ truncated' = TRUE
  /\ UNCHANGED <<treeVars, interrupted, queue, current, candidate, files, counters>>

SkipSymlink(p) ==
  /\ LookAt(p) /\ fs[p].kind = "symlink" /\ NextEntry(p)
  /\ symlinksSkipped' = symlinksSkipped + 1
  /\ UNCHANGED <<treeVars, interrupted, queue, current, candidate, files, entriesScanned,
                 directoriesScanned, specialSkipped, truncated>>

SkipSpecial(p) ==
  /\ LookAt(p) /\ fs[p].kind = "special" /\ NextEntry(p)
  /\ specialSkipped' = specialSkipped + 1
  /\ UNCHANGED <<treeVars, interrupted, queue, current, candidate, files, entriesScanned,
                 directoriesScanned, symlinksSkipped, truncated>>

(* The depth of a directory is the length of its path. *)
QueueDirectory(p) ==
  /\ LookAt(p) /\ fs[p].kind = "directory" /\ NextEntry(p)
  /\ IF Len(current.path) >= MaxDepth
     THEN truncated' = TRUE /\ UNCHANGED queue
     ELSE queue' = Append(queue, p) /\ UNCHANGED truncated
  /\ UNCHANGED <<treeVars, interrupted, current, candidate, files, counters>>

StopAtFiles(p) ==
  /\ LookAt(p) /\ fs[p].kind = "regular" /\ Len(files) >= MaxFiles
  /\ at' = "directory" /\ entries' = {} /\ queue' = <<>>
  /\ truncated' = TRUE
  /\ UNCHANGED <<treeVars, interrupted, current, candidate, files, counters>>

ChooseFile(p) ==
  /\ LookAt(p) /\ fs[p].kind = "regular" /\ Len(files) < MaxFiles
  /\ at' = "opening" /\ entries' = entries \ {p}
  /\ candidate' = [Nobody EXCEPT !.path = p, !.seen = fs[p]]
  /\ UNCHANGED <<treeVars, interrupted, queue, current, files, counters, truncated>>

(* The open finds what stands at the path by now; a symlink opens what it   *)
(* points to, a file from elsewhere.                                        *)
OpenFile ==
  /\ at = "opening" /\ fs[candidate.path].kind # "absent"
  /\ at' = "checking"
  /\ candidate' = [candidate EXCEPT !.opened =
                     IF fs[candidate.path].kind = "symlink" THEN Entry("regular", -1)
                     ELSE fs[candidate.path]]
  /\ UNCHANGED <<treeVars, interrupted, queue, current, entries, files, counters, truncated>>

(* Mutant of OpenFails: the file is passed over in silence. *)
OpenFailsUnseen ==
  /\ at = "opening"
  /\ at' = "entry"
  /\ UNCHANGED <<treeVars, interrupted, queue, current, entries, candidate, files, counters,
                 truncated>>

OpenFails ==
  /\ at = "opening"
  /\ at' = "entry" /\ truncated' = TRUE
  /\ UNCHANGED <<treeVars, interrupted, queue, current, entries, candidate, files, counters>>

Validated ==
  /\ candidate.opened.kind = "regular"
  /\ candidate.seen = candidate.opened
  /\ candidate.opened = fs[candidate.path]

KeepFile ==
  /\ at = "checking" /\ Validated
  /\ at' = "entry"
  /\ files' = Append(files, [path |-> candidate.path, entry |-> candidate.opened])
  /\ UNCHANGED <<treeVars, interrupted, queue, current, entries, candidate, counters, truncated>>

(* The descriptor is closed; a failing Stat or Lstat leads here as well. *)
DropFile ==
  /\ at = "checking"
  /\ at' = "entry" /\ truncated' = TRUE
  /\ UNCHANGED <<treeVars, interrupted, queue, current, entries, candidate, files, counters>>

LookAtEntry(p) ==
  \/ EntryVanished(p) \/ SkipSymlink(p) \/ SkipSpecial(p)
  \/ QueueDirectory(p) \/ StopAtFiles(p) \/ ChooseFile(p)

WalkStep ==
  \/ RefuseRoot \/ AcceptRoot \/ EndOfQueue \/ Abandon \/ StopAtLimit
  \/ ReadDirectory \/ ConfirmListing \/ DirectoryFails \/ EndOfDirectory
  \/ \E p \in Paths : LookAtEntry(p)
  \/ OpenFile \/ OpenFails \/ KeepFile \/ DropFile

WalkNext ==
  \/ WalkStep \/ ContextEnds
  \/ \E p \in Paths, kind \in Kinds : Change(p, kind)
=============================================================================
