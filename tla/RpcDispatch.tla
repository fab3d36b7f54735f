---------------------------- MODULE RpcDispatch ----------------------------
(***************************************************************************)
(* The decisions the MCP server takes about one input line, without state: *)
(* which lines Serve answers itself, ignores, treats as a cancellation or  *)
(* admits as a tool call; what handleSync answers; and which answers a     *)
(* tool call gets before it may queue for a call slot.                     *)
(*                                                                         *)
(* A line is abstracted to what those decisions look at: whether it fits   *)
(* the transport budget and parses, its method, its id, the shape of its   *)
(* params._meta, and whether its method-specific params are valid.         *)
(***************************************************************************)
EXTENDS Naturals

CONSTANTS Ids,      \* the request ids a client uses (the raw JSON text is the key)
          NoId,     \* a line without an id, or with a null one
          MaxPaths  \* most files one collection call opens (16 per batch, 32 per inventory)

ASSUME DispatchAssumption ==
  /\ NoId \notin Ids
  /\ MaxPaths \in Nat \ {0}

Frames  == {"tooLarge", "notJson", "invalid", "request"}
Methods == {"initialize", "server/discover", "ping", "tools/list",
            "tools/call", "notifications/cancelled", "unknown"}
Metas   == {"none", "modern", "unsupportedVersion", "badCapabilities",
            "badClientInfo", "notObject"}
Tools   == {"file_inspect", "file_inspect_batch", "workspace_inventory"}

(* A line of the transport. "invalid" is a JSON object whose jsonrpc is not *)
(* 2.0 or whose method is empty. "target" is the requestId a cancellation  *)
(* names; "params" says whether the method's own params are well formed;   *)
(* "paths" is how many files a tool call asks for (an inventory finds its  *)
(* own, at most that many).                                                *)
LineShape ==
  [frame  : Frames,
   method : Methods,
   id     : Ids \cup {NoId},
   meta   : Metas,
   params : BOOLEAN,
   tool   : Tools \cup {"unknownTool"},
   target : Ids \cup {NoId},
   paths  : 1..MaxPaths]

-----------------------------------------------------------------------------
(* requestProtocol: the error it returns, or "none". *)
ProtocolError(l) ==
  CASE l.meta \in {"none", "modern"} -> "none"
    [] l.meta = "unsupportedVersion" -> "unsupportedVersion"
    [] OTHER                         -> "invalidParams"

IsModern(l) == l.meta = "modern"

(* What Serve does with a line before any handler runs. *)
Disposition(l) ==
  IF l.frame # "request" THEN "answer"
  ELSE IF l.method = "notifications/cancelled" THEN "cancel"
  ELSE IF l.id = NoId THEN "ignore"
  ELSE IF l.method = "tools/call" THEN "admit"
  ELSE "answer"

InitializeAnswer(l, initialized) ==
  IF IsModern(l) THEN "methodNotFound"
  ELSE IF ~l.params THEN "invalidParams"
  ELSE IF initialized THEN "alreadyInitialized"
  ELSE "initializeResult"

(* handleSync, for a request that is neither a tool call nor a cancellation. *)
HandleSyncAnswer(l, initialized) ==
  CASE l.method = "initialize"      -> InitializeAnswer(l, initialized)
    [] l.method = "server/discover" -> IF IsModern(l) THEN "discovery" ELSE "invalidParams"
    [] l.method = "ping"            -> "pong"
    [] l.method = "tools/list"      ->
         IF IsModern(l) \/ initialized THEN "tools" ELSE "notInitialized"
    [] OTHER                        -> "methodNotFound"

(* Every answer the reader itself writes to a line it does not admit. *)
SyncAnswer(l, initialized) ==
  CASE l.frame \in {"tooLarge", "notJson"} -> "parseError"
    [] l.frame = "invalid"                 -> "invalidRequest"
    [] l.frame = "request"                 ->
         IF ProtocolError(l) # "none" THEN ProtocolError(l)
         ELSE HandleSyncAnswer(l, initialized)

(* Whether handleSync takes the initialize branch that sets s.initialized.  *)
Initializes(l) ==
  /\ l.frame = "request" /\ l.method = "initialize" /\ l.id # NoId
  /\ l.meta = "none" /\ l.params

(* Mutant of EarlyAnswer: the two conditions of the legacy check joined by  *)
(* or.                                                                      *)
EarlyAnswerEither(l, initialized) ==
  IF ProtocolError(l) # "none" THEN ProtocolError(l)
  ELSE IF ~IsModern(l) \/ ~initialized THEN "notInitialized"
  ELSE IF l.tool = "unknownTool" THEN "invalidParams"
  ELSE IF ~l.params THEN "E_INVALID_INPUT"
  ELSE "none"

(* handleToolCall up to acquireCallSlot: the answer that ends the call, or  *)
(* "none" when the call goes on to queue for a slot.                        *)
EarlyAnswer(l, initialized) ==
  IF ProtocolError(l) # "none" THEN ProtocolError(l)
  ELSE IF ~IsModern(l) /\ ~initialized THEN "notInitialized"
  ELSE IF l.tool = "unknownTool" THEN "invalidParams"
  ELSE IF ~l.params THEN "E_INVALID_INPUT"
  ELSE "none"

EarlyAnswers == {"unsupportedVersion", "invalidParams", "notInitialized", "E_INVALID_INPUT"}
SyncAnswers  == {"parseError", "invalidRequest", "unsupportedVersion", "invalidParams",
                 "methodNotFound", "alreadyInitialized", "initializeResult",
                 "discovery", "pong", "tools", "notInitialized"}
=============================================================================
