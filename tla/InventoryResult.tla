-------------------------- MODULE InventoryResult --------------------------
(***************************************************************************)
(* What an inventory answers: the collected files go to one worker, which  *)
(* inspects them one after the other, sums them up by format and cuts the  *)
(* result to its response budget. The worker has a deadline of its own.    *)
(***************************************************************************)
EXTENDS InventoryWalk, Functions

CONSTANT FileFormats  \* formats an inspected file may turn out to have

ASSUME FormatsAssumption == IsFiniteSet(FileFormats)

VARIABLES stage,        \* where the inspection stands
          lapsed,       \* the worker's deadline has passed
          items,        \* one for each collected file, in order
          filesScanned,
          formats,      \* how many scanned files are of each format
          limitsTruncated,
          diagnostics,
          status, error

resultVars == <<stage, lapsed, items, filesScanned, formats, limitsTruncated, diagnostics,
                status, error>>
inventoryVars == <<walkVars, resultVars>>

UnknownFormat == "unknown"
Formats == FileFormats \cup {UnknownFormat}

(* What a quick inspection says of a file: its format is known, it is not,   *)
(* or the inspection failed.                                                *)
ItemStatuses == {"ok", "unsupported", "error"}

InventoryInit ==
  /\ WalkInit
  /\ stage = "waiting" /\ lapsed = FALSE
  /\ items = <<>> /\ filesScanned = 0
  /\ formats = [f \in Formats |-> 0]
  /\ limitsTruncated = FALSE /\ diagnostics = {}
  /\ status = "ok" /\ error = "none"

(* What has become of the walk, for the worker: its request. *)
StartInspection ==
  /\ stage = "waiting" /\ at = "returned"
  /\ stage' = "inspecting"
  /\ limitsTruncated' = truncated
  /\ UNCHANGED <<walkVars, lapsed, items, filesScanned, formats, diagnostics, status, error>>

(* PublicInventoryError: a new result, of which only the error is left.     *)
ReplaceInventory(code) ==
  /\ stage' = "done" /\ status' = "error" /\ error' = code
  /\ items' = <<>> /\ filesScanned' = 0 /\ formats' = [f \in Formats |-> 0]
  /\ limitsTruncated' = FALSE /\ diagnostics' = {}
  /\ UNCHANGED <<walkVars, lapsed>>

(* A walk that failed is answered with its error, and so is a list of files *)
(* that is over the transport budget of a request.                          *)
AnswerFailure == stage = "waiting" /\ at = "failed" /\ ReplaceInventory("E_WALK")
RefuseInventory == stage = "waiting" /\ at = "returned" /\ ReplaceInventory("E_INVALID_INPUT")

(* The worker panics, which it catches; or it refuses the request, is        *)
(* killed, fails or answers out of its schema, which the supervisor reports *)
(* as "E_WORKER" (Procmon has the reasons apart).                           *)
InventoryPanics == stage \in {"inspecting", "fitting"} /\ ReplaceInventory("E_INTERNAL")
InventoryWorkerFails == stage \in {"inspecting", "fitting"} /\ ReplaceInventory("E_WORKER")

DeadlineLapses ==
  /\ stage = "inspecting" /\ ~lapsed
  /\ lapsed' = TRUE
  /\ UNCHANGED <<walkVars, stage, items, filesScanned, formats, limitsTruncated, diagnostics,
                 status, error>>

Uninspected == files[Len(items) + 1]

AddItem(itemStatus) ==
  /\ items' = Append(items, [path |-> Uninspected.path, status |-> itemStatus])
  /\ status' = IF itemStatus = "error" /\ status = "ok" THEN "partial" ELSE status

(* A descriptor the worker cannot use is an item, but not a scanned file.   *)
SourceFails ==
  /\ stage = "inspecting" /\ Len(items) < Len(files)
  /\ AddItem("error")
  /\ UNCHANGED <<walkVars, stage, lapsed, filesScanned, formats, limitsTruncated, diagnostics,
                 error>>

(* After the deadline every inspection fails. *)
InspectFile(itemStatus, format) ==
  /\ stage = "inspecting" /\ Len(items) < Len(files)
  /\ lapsed => itemStatus = "error"
  /\ format = UnknownFormat <=> itemStatus # "ok"
  /\ AddItem(itemStatus)
  /\ filesScanned' = filesScanned + 1
  /\ formats' = [formats EXCEPT ![format] = @ + 1]
  /\ UNCHANGED <<walkVars, stage, lapsed, limitsTruncated, diagnostics, error>>

EndInspection ==
  /\ stage = "inspecting" /\ Len(items) = Len(files)
  /\ stage' = "fitting"
  /\ IF truncated
     THEN status' = "partial" /\ diagnostics' = diagnostics \cup {"INVENTORY_LIMIT"}
     ELSE UNCHANGED <<status, diagnostics>>
  /\ UNCHANGED <<walkVars, lapsed, items, filesScanned, formats, limitsTruncated, error>>

(* fitInventoryResponse: without its last items the response gets shorter.  *)
(* How many of them fit is up to their contents.                            *)
Fits ==
  /\ stage = "fitting"
  /\ stage' = "done"
  /\ UNCHANGED <<walkVars, lapsed, items, filesScanned, formats, limitsTruncated, diagnostics,
                 status, error>>

FitsWithout(n) ==
  /\ stage = "fitting" /\ n \in 1..Len(items)
  /\ stage' = "done"
  /\ items' = SubSeq(items, 1, Len(items) - n)
  /\ diagnostics' = diagnostics \cup {"INVENTORY_RESPONSE_TRUNCATED"}
  /\ limitsTruncated' = TRUE /\ status' = "partial"
  /\ UNCHANGED <<walkVars, lapsed, filesScanned, formats, error>>

NeverFits ==
  /\ stage = "fitting"
  /\ stage' = "done"
  /\ items' = <<>>
  /\ diagnostics' = diagnostics \cup {"INVENTORY_RESPONSE_TRUNCATED"}
  /\ limitsTruncated' = (limitsTruncated \/ items # <<>>)
  /\ status' = "error" /\ error' = "E_RESPONSE_TOO_LARGE"
  /\ UNCHANGED <<walkVars, lapsed, filesScanned, formats>>

(* The result that fits may still break the published schema.               *)
InventoryInvalid == stage = "fitting" /\ ReplaceInventory("E_RESULT_SCHEMA")

InspectionStep ==
  \/ StartInspection \/ AnswerFailure \/ RefuseInventory \/ DeadlineLapses
  \/ InventoryPanics \/ InventoryWorkerFails \/ InventoryInvalid
  \/ SourceFails
  \/ \E s \in ItemStatuses, f \in Formats : InspectFile(s, f)
  \/ EndInspection
  \/ Fits \/ (\E n \in 1..MaxFiles : FitsWithout(n)) \/ NeverFits

InventoryNext == (WalkNext /\ UNCHANGED resultVars) \/ InspectionStep

InventorySpec == InventoryInit /\ [][InventoryNext]_inventoryVars

-----------------------------------------------------------------------------
Collected == {files[i].path : i \in 1..Len(files)}

(* Entries nobody changed since the walk began, from the top down. *)
PathsAbove(p) == {SubSeq(p, 1, n) : n \in 0..Len(p)}
Undisturbed(p) == \A q \in PathsAbove(p) : fs[q].change = 0
Present == {p \in Paths : fs[p].kind = "regular" /\ Undisturbed(p)}

(* Where the walk is going, or is about to. *)
Ahead(q) ==
  \/ \E i \in 1..Len(queue) : queue[i] = q
  \/ at \in {"listing", "entry", "opening", "checking"} /\ q \in entries
  \/ at \in {"opening", "checking"} /\ q = candidate.path
  \/ at = "starting"

Pending(p) == \E q \in PathsAbove(p) : Ahead(q)

WalkFacts ==
  /\ at \in {"starting", "directory", "listing", "entry", "opening", "checking", "returned",
             "failed"}
  /\ fs \in [Paths \cup {Top} -> [kind : Kinds, change : Nat]]
  /\ interrupted \in BOOLEAN /\ truncated \in BOOLEAN
  /\ entries \subseteq Paths /\ queue \in Seq(Paths \cup {Top})
  /\ Len(files) <= MaxFiles /\ entriesScanned <= MaxEntries
  /\ directoriesScanned <= MaxDirectories
  /\ \A i \in 1..Len(queue) : Len(queue[i]) <= MaxDepth
  /\ \A i, j \in 1..Len(files) : files[i].path = files[j].path => i = j
  /\ \A i \in 1..Len(files) : files[i].entry.kind = "regular"
  /\ at = "failed" => files = <<>>

(* Nothing that stays in place gets lost on the way: it is collected, or    *)
(* still to come, or the flag says that something is missing.               *)
NothingLost ==
  Walking \/ at = "returned" =>
    \A p \in Present : p \in Collected \/ Pending(p) \/ truncated

(* A walk that missed nothing accounts for every entry it read.             *)
EntriesAddUp ==
  at = "returned" /\ ~truncated =>
    entriesScanned = Len(files) + symlinksSkipped + specialSkipped + directoriesScanned - 1

InventoryIInv ==
  /\ WalkFacts /\ NothingLost /\ EntriesAddUp
  /\ Len(items) <= Len(files)
  /\ \A i \in 1..Len(items) : items[i].path = files[i].path
  /\ filesScanned = SumFunction(formats)

(* A result that says "ok" is complete: it lists every regular file that    *)
(* stood in place from beginning to end, each inspected, and its counts     *)
(* account for every entry that was read. A result that lacks something     *)
(* says which limit cut it, and the counts by format still cover all the    *)
(* files that were inspected, listed or not. An error of the whole comes    *)
(* without items, and hides no limit unless it replaced the result.         *)
Replaced == error \notin {"none", "E_RESPONSE_TOO_LARGE"}

InventoryIsHonest ==
  stage = "done" =>
    /\ error # "none" => status = "error" /\ items = <<>>
    /\ status = "ok" =>
         /\ error = "none" /\ diagnostics = {} /\ ~limitsTruncated
         /\ Present \subseteq {items[i].path : i \in 1..Len(items)}
         /\ \A i \in 1..Len(items) : items[i].status # "error"
         /\ entriesScanned = Len(items) + symlinksSkipped + specialSkipped + directoriesScanned - 1
    /\ ~Replaced /\ truncated => "INVENTORY_LIMIT" \in diagnostics /\ limitsTruncated
    /\ ~Replaced /\ Len(items) < Len(files) =>
         "INVENTORY_RESPONSE_TRUNCATED" \in diagnostics /\ limitsTruncated
    /\ error = "none" => filesScanned >= Cardinality({i \in 1..Len(items) : items[i].status # "error"})
=============================================================================
