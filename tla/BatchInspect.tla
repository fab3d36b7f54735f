---------------------------- MODULE BatchInspect ----------------------------
(***************************************************************************)
(* A batch: the paths of one call are opened in order, the open files go   *)
(* to one worker as numbered descriptors, and the worker inspects them     *)
(* under one hash budget and fits the result to one response budget.       *)
(*                                                                         *)
(* A path is its position in the call; the file that was opened at it has  *)
(* the same number. Other programs may append to the files.                *)
(***************************************************************************)
EXTENDS Integers, Sequences, FiniteSets, Functions

CONSTANTS Count,       \* paths in the call
          HashBudget,  \* MaxHashBytes, for one file and for all of them
          LargestFile  \* bound: size of a file

ASSUME BatchAssumption ==
  Count \in Nat \ {0} /\ HashBudget \in Nat /\ LargestFile \in Nat

VARIABLES job,          \* where the batch stands
          hashing,      \* the call asks for digests
          size,         \* how long each file is
          grown,        \* the files something was appended to
          descriptors,  \* the open files, in the order the worker inherits them
          request,      \* an item for each path: its error, or its descriptor
          sources,      \* what the worker makes of each item
          measured,     \* the size the next file was admitted to the budget with
          remaining,    \* hash bytes left
          results,      \* one for each source
          itemsAs,      \* what the list of results is encoded as
          batchStatus, batchError

batchVars == <<job, hashing, size, grown, descriptors, request, sources, measured, remaining,
               results, itemsAs, batchStatus, batchError>>

inputVars == <<hashing, size, grown>>
openVars == <<descriptors, request>>
hashVars == <<measured, remaining>>
answerVars == <<itemsAs, batchStatus, batchError>>

NoFile == 0

BatchInit ==
  /\ job = "opening" /\ hashing \in BOOLEAN
  /\ size \in [1..Count -> 0..LargestFile] /\ grown = {}
  /\ descriptors = <<>> /\ request = <<>> /\ sources = <<>> /\ results = <<>>
  /\ measured = 0 /\ remaining = HashBudget /\ itemsAs = "array"
  /\ batchStatus = "ok" /\ batchError = "none"

Grow(p) ==
  /\ job # "done" /\ size[p] < LargestFile
  /\ size' = [size EXCEPT ![p] = @ + 1] /\ grown' = grown \cup {p}
  /\ UNCHANGED <<job, hashing, openVars, sources, hashVars, results, answerVars>>

-----------------------------------------------------------------------------
(* Mutant of OpenOne: the descriptor is numbered by the path. *)
OpenOneByPath ==
  /\ job = "opening" /\ Len(request) < Count
  /\ request' = Append(request, [error |-> "none", descriptor |-> Len(request)])
  /\ descriptors' = Append(descriptors, Len(request) + 1)
  /\ UNCHANGED <<job, inputVars, sources, hashVars, results, answerVars>>

(* handleBatchCall: a path that cannot be opened is an item with an error.  *)
OpenOne ==
  /\ job = "opening" /\ Len(request) < Count
  /\ request' = Append(request, [error |-> "none", descriptor |-> Len(descriptors)])
  /\ descriptors' = Append(descriptors, Len(request) + 1)
  /\ UNCHANGED <<job, inputVars, sources, hashVars, results, answerVars>>

OpenOneFails ==
  /\ job = "opening" /\ Len(request) < Count
  /\ request' = Append(request, [error |-> "E_OPEN", descriptor |-> 0])
  /\ UNCHANGED <<job, inputVars, descriptors, sources, hashVars, results, answerVars>>

Answer(status, error) ==
  /\ job' = "done"
  /\ batchStatus' = status /\ batchError' = error

(* PublicBatchError: a new result, of which only the error is left.         *)
ReplaceBatch(code) ==
  /\ Answer("error", code)
  /\ results' = <<>> /\ itemsAs' = "array"
  /\ UNCHANGED <<inputVars, openVars, sources, hashVars>>

SendRequest ==
  /\ job = "opening" /\ Len(request) = Count
  /\ job' = "taking"
  /\ UNCHANGED <<inputVars, openVars, sources, hashVars, results, answerVars>>

(* The supervisor refuses a request over its transport budget. *)
RefuseRequest ==
  /\ job = "opening" /\ Len(request) = Count
  /\ ReplaceBatch("E_INVALID_INPUT")

(* The worker panics, which it catches; or it refuses the request, is        *)
(* killed, fails or answers out of its schema, which the supervisor reports *)
(* as "E_WORKER" (Procmon has the reasons apart).                           *)
BatchPanics ==
  /\ job \in {"inspecting", "measured", "fitting", "validating"}
  /\ ReplaceBatch("E_INTERNAL")

BatchWorkerFails ==
  /\ job \in {"taking", "inspecting", "measured", "fitting", "validating"}
  /\ ReplaceBatch("E_WORKER")

(* worker.RunBatch: an item's own error comes first, then the descriptor    *)
(* with its number, which may turn out not to be usable.                    *)
SourceOf(item) ==
  IF item.error # "none" THEN {[error |-> item.error, file |-> NoFile]}
  ELSE {[error |-> "E_FILE_STAT", file |-> NoFile]} \cup
       {[error |-> "none", file |-> descriptors[n]] :
          n \in {item.descriptor + 1} \cap DOMAIN descriptors}

TakeSource ==
  /\ job = "taking"
  /\ \E source \in SourceOf(request[Len(sources) + 1]) : sources' = Append(sources, source)
  /\ job' = IF Len(sources) + 1 = Count THEN "inspecting" ELSE "taking"
  /\ UNCHANGED <<inputVars, openVars, hashVars, results, answerVars>>

-----------------------------------------------------------------------------
(* InspectBatch, one source after the other. *)
NextIndex == Len(results) + 1
NextFile == sources[NextIndex].file

Item(file, status, code, hashed) ==
  [index |-> Len(results), path |-> NextIndex, file |-> file, status |-> status, code |-> code,
   hashed |-> hashed]

ReportError ==
  /\ job = "inspecting" /\ Len(results) < Count /\ sources[NextIndex].error # "none"
  /\ results' = Append(results, Item(NoFile, "error", sources[NextIndex].error, 0))
  /\ UNCHANGED <<job, inputVars, openVars, sources, hashVars, answerVars>>

(* The size that is held against the budget is the descriptor's own, ...    *)
Measure ==
  /\ job = "inspecting" /\ Len(results) < Count /\ sources[NextIndex].error = "none"
  /\ measured' = size[NextFile]
  /\ job' = "measured"
  /\ UNCHANGED <<inputVars, openVars, sources, remaining, results, answerVars>>

HashAdmitted == hashing /\ measured <= remaining

(* ... and the inspection asks for it again. A file of more than the whole   *)
(* budget is not hashed, a digest may fail, and either makes the result      *)
(* partial; the deadline or the response budget may fail the item after its *)
(* digest was computed.                                                     *)
Inspect(status, hashed) ==
  /\ job = "measured"
  /\ hashed \in IF HashAdmitted /\ size[NextFile] <= HashBudget THEN {0, size[NextFile]} ELSE {0}
  /\ status = "ok" => (HashAdmitted => hashed = size[NextFile]) /\ (hashing => HashAdmitted)
  /\ results' = Append(results,
                  Item(NextFile, status, IF status = "error" THEN "E_INSPECT" ELSE "none", hashed))
  /\ remaining' = IF HashAdmitted /\ status # "error" THEN remaining - size[NextFile] ELSE remaining
  /\ job' = "inspecting"
  /\ UNCHANGED <<inputVars, openVars, sources, measured, answerVars>>

Completed == {k \in 1..Len(results) : results[k].status # "error"}

CollectionStatus(completed, total) ==
  IF completed = 0 THEN "error" ELSE IF completed < total THEN "partial" ELSE "ok"

EndBatch ==
  /\ job = "inspecting" /\ Len(results) = Count
  /\ job' = "fitting"
  /\ batchStatus' = CollectionStatus(Cardinality(Completed), Count)
  /\ UNCHANGED <<inputVars, openVars, sources, hashVars, results, itemsAs, batchError>>

(* fitBatchResponse: as it is, without the entry names of archives, with    *)
(* the last n items replaced by an error, or not at all.                    *)
FitsWhole ==
  /\ job = "fitting"
  /\ job' = "validating"
  /\ UNCHANGED <<inputVars, openVars, sources, hashVars, results, answerVars>>

FitsWithoutNames ==
  /\ job = "fitting" /\ Completed # {}
  /\ job' = "validating" /\ batchStatus' = "partial"
  /\ UNCHANGED <<inputVars, openVars, sources, hashVars, results, itemsAs, batchError>>

FitsWithErrors(n) ==
  /\ job = "fitting"
  /\ job' = "validating" /\ batchStatus' = "partial"
  /\ results' = [k \in 1..Count |->
                   IF k <= Count - n THEN results[k]
                   ELSE [results[k] EXCEPT !.file = NoFile, !.status = "error",
                                           !.code = "E_BATCH_RESPONSE_LIMIT", !.hashed = 0]]
  /\ UNCHANGED <<inputVars, openVars, sources, hashVars, itemsAs, batchError>>

FitsNever ==
  /\ job = "fitting"
  /\ job' = "validating"
  /\ results' = <<>> /\ itemsAs' = "null"
  /\ batchStatus' = "error" /\ batchError' = "E_RESPONSE_TOO_LARGE"
  /\ UNCHANGED <<inputVars, openVars, sources, hashVars>>

(* The published schema wants an array of items, and a list that was set to *)
(* nil is encoded as null.                                                  *)
Validate ==
  /\ job = "validating" /\ itemsAs = "array"
  /\ Answer(batchStatus, batchError)
  /\ UNCHANGED <<inputVars, openVars, sources, hashVars, results, itemsAs>>

BatchInvalid == job = "validating" /\ itemsAs = "null" /\ ReplaceBatch("E_RESULT_SCHEMA")

BatchNext ==
  \/ OpenOne \/ OpenOneFails \/ SendRequest \/ RefuseRequest
  \/ BatchPanics \/ BatchWorkerFails
  \/ TakeSource \/ ReportError \/ Measure
  \/ \E status \in {"ok", "partial", "error"}, hashed \in 0..LargestFile : Inspect(status, hashed)
  \/ EndBatch \/ FitsWhole \/ FitsWithoutNames \/ (\E n \in 1..Count : FitsWithErrors(n))
  \/ FitsNever \/ Validate \/ BatchInvalid
  \/ \E p \in 1..Count : Grow(p)

BatchSpec == BatchInit /\ [][BatchNext]_batchVars

-----------------------------------------------------------------------------
(* Descriptors are numbered by the files that were opened, not by the       *)
(* paths, and still lead back to the path they were opened at.              *)
DescriptorsMatch ==
  /\ \A k \in 1..Len(request) :
       request[k].error = "none" => /\ request[k].descriptor < Len(descriptors)
                                    /\ descriptors[request[k].descriptor + 1] = k
  /\ \A k \in 1..Len(sources) : sources[k].file = IF sources[k].error = "none" THEN k ELSE NoFile

Hashed == [k \in DOMAIN results |-> results[k].hashed]

(* What was hashed for the items that did not fail is charged to the budget, *)
(* which is overdrawn only by a file that grew after it was admitted.       *)
BudgetIsKept ==
  /\ SumFunctionOnSet(Hashed, Completed) + remaining <= HashBudget
  /\ remaining < 0 => grown # {}

BatchIInv ==
  /\ Len(descriptors) <= Len(request) /\ Len(request) <= Count
  /\ Len(sources) <= Count /\ Len(results) <= Len(sources)
  /\ DescriptorsMatch /\ BudgetIsKept
  /\ itemsAs = "null" => results = <<>>

(* A batch that is answered has an item for each path, in the order of the  *)
(* call, and an item that speaks of a file speaks of the one at its path; a  *)
(* path that could not be opened says so. "ok" is said of a batch only if   *)
(* every item was inspected, and an error of the whole comes without items. *)
BatchIsHonest ==
  job = "done" =>
    IF batchError # "none" THEN batchStatus = "error" /\ results = <<>>
    ELSE /\ Len(results) = Count
         /\ \A k \in 1..Count :
              /\ results[k].index = k - 1 /\ results[k].path = k
              /\ results[k].file \in {k, NoFile}
              /\ results[k].file = NoFile => results[k].status = "error"
              /\ request[k].error # "none" =>
                   results[k].code \in {request[k].error, "E_BATCH_RESPONSE_LIMIT"}
         /\ batchStatus = "ok" => Completed = 1..Count

(* A batch that outgrows its response budget is answered with that: the      *)
(* error fitBatchResponse decides on reaches the client, unless the worker  *)
(* fails before it has answered.                                            *)
OversizeIsExplicit ==
  [][batchError = "E_RESPONSE_TOO_LARGE" =>
       batchError' \in {batchError, "E_INTERNAL", "E_WORKER"}]_batchVars
=============================================================================
