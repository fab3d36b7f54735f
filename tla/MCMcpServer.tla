---------------------------- MODULE MCMcpServer ----------------------------
EXTENDS McpServerProps, TLC
CONSTANTS i1, i2, c1, c2

Request(method, id, meta, params, tool, target, paths) ==
  [frame |-> "request", method |-> method, id |-> id, meta |-> meta, params |-> params,
   tool |-> tool, target |-> target, paths |-> paths]

ToolCall(id, meta, tool, paths) == Request("tools/call", id, meta, TRUE, tool, NoId, paths)
Cancel(id)  == Request("notifications/cancelled", NoId, "none", TRUE, "unknownTool", id, 1)
Initialize  == Request("initialize", i1, "none", TRUE, "unknownTool", NoId, 1)

(* The tool that opens by path and the one that walks, for the runs with     *)
(* fairness.                                                                 *)
LiveLines == {ToolCall(i1, "modern", "file_inspect", 1), ToolCall(i1, "modern", "workspace_inventory", 1)}
WalkLines == {ToolCall(i1, "modern", "workspace_inventory", 1), Cancel(i1)}

(* Every kind of line the reader or a call treats differently; two lines    *)
(* share the id i1, one of them from a client that never initializes.       *)
EveryLine == LiveLines \cup
  {ToolCall(i1, "none", "file_inspect", 1),
   ToolCall(i1, "modern", "file_inspect_batch", 2),
   ToolCall(i2, "modern", "workspace_inventory", 1),
   [ToolCall(i2, "modern", "file_inspect", 1) EXCEPT !.params = FALSE],
   [ToolCall(i2, "modern", "file_inspect", 1) EXCEPT !.tool = "unknownTool"],
   ToolCall(i2, "unsupportedVersion", "file_inspect", 1),
   Cancel(i1), Cancel(i2), Initialize,
   [Initialize EXCEPT !.meta = "modern"],
   [Initialize EXCEPT !.method = "tools/list"],
   [Initialize EXCEPT !.frame = "tooLarge"]}

(* Calls that share an id: as many as the slots hold, and one more; with the *)
(* line that cancels the id and one that the reader answers itself.          *)
ContendedLines ==
  {ToolCall(i1, "modern", "file_inspect", 1), Cancel(i1), [Initialize EXCEPT !.frame = "tooLarge"]}

(* Bound of the run with three calls: the session is not shut down. *)
NoShutdown == ~shutdown

(* Bound of the live run, on what its client sends: every line as long as    *)
(* there is one call, and two calls by LiveLines with no other line.         *)
Session ==
  \/ Calls \ Unread \subseteq {c1}
  \/ reader = "reading" /\ ~initialized /\ \A c \in Calls \ Unread : line[c] \in LiveLines

LiveNext ==
  \/ ClientStep /\ Session'
  \/ ReaderStep
  \/ \E c \in Calls : OwnStep(c) \/ OpenPath(c) \/ WalkStep(c) \/ WorkerReturns(c) \/ Deadline(c)
  \/ Shutdown
  \/ Terminated

LiveSpec == Init /\ [][LiveNext]_vars /\ ServerFairness /\ FilesystemResponds

Symmetry == Permutations(Calls)
=============================================================================
