----------------------------- MODULE MCWorker ------------------------------
(* The requests a worker serves, one of them per behaviour: the others      *)
(* stand still. What the parsers read off the bytes of one file is a        *)
(* behaviour of its own, with nothing but the content.                      *)
EXTENDS InventoryResult, BatchInspect, InspectFile, ContentFacts

VARIABLE serves

workerVars == <<inventoryVars, batchVars, fileVars, contentVars, serves>>

MCPaths == {<<1>>, <<2>>, <<3>>, <<1, 1>>, <<1, 2>>}

(* Bound: the trees the walk starts from. *)
TreeShapes ==
  /\ fs[<<2>>].kind # "directory"
  /\ fs[<<3>>].kind \in {"absent", "regular", "directory"}
  /\ fs[<<1, 2>>].kind \in {"absent", "regular"}

(* Bound: the files, which differ from the plainest of their kind only in   *)
(* what the code looks at.                                                  *)
MCFiles ==
  {f \in AllFiles :
     /\ f.system # Unknown => f.signature \in {Unknown, "json", "png"}
     /\ f.extension # "none" =>
          \/ Kind[f.signature] = "text" \/ f.system = "plain"
          \/ f.extension \in {"png", "docx"} /\ f.signature = "zip"
          \/ f.extension = "png" /\ f.signature = "png"
     /\ f.extension \in DOMAIN MainPart => f.extension = "docx"
     /\ f.system = "plain" => f.extension \notin {"png", "zip", "docx"} /\ ~f.active
     /\ Kind[f.signature] = "archive" => f.sound /\ f.size = "window"
     /\ ~f.readable => f.size = "window" /\ f.system = Unknown /\ f.signature \in {"plain", "json", "svg", "png"}
     /\ f.size = "huge" => f.signature \in {"movie", "svg"}}

(* Bound: a plain document or workbook in which up to two parts are missing  *)
(* or in another condition, with what may be declared and related to.       *)
Plain(main) == [p \in {"types", "rels", main, "first.rels"} |-> "good"]
With(parts, p, condition) ==
  [q \in (DOMAIN parts \cup {p}) \ (IF condition = "absent" THEN {p} ELSE {}) |->
     IF q = p THEN condition ELSE parts[q]]
MCPackages ==
  {[parts |-> With(With(Plain(declared[1]), p, c), q, d), kinds |-> declared[2], targets |-> declared[3],
    outside |-> {"rels", "first.rels", "second.rels"}] :
     p \in Parts, q \in Parts, c \in Conditions \cup {"absent"}, d \in {"absent", "good"},
     declared \in {<<"document", {"docx"}, {"document"}>>, <<"workbook", {"docm", "xlsx"}, {"workbook"}>>,
                   <<"workbook", {"xlsm"}, {"workbook"}>>,
                   <<"workbook", {"docx", "xlsx"}, {"document", "workbook"}>>}}

(* Bound: what is asked about a file; an archive is not hashed as well.     *)
OptionShapes ==
  /\ options.expected # "none" => ~options.hash
  /\ options.mode = "other" => ~options.hash /\ options.expected = "none"
  /\ archive # NoArchive => options = [mode |-> "deep", hash |-> FALSE, expected |-> "none"]

(* A request the worker does not serve has the plainest input. *)
NoInventory == InventoryInit /\ \A p \in Paths : fs[p].kind = "absent"
NoBatch == BatchInit /\ ~hashing /\ \A k \in 1..Count : size[k] = 0
NoFileRequest ==
  /\ file = CHOOSE f \in MCFiles : f.signature = Unknown /\ f.system = Unknown /\ f.extension = "none"
  /\ options = [mode |-> "quick", hash |-> FALSE, expected |-> "none"]
  /\ FileInit

NoContent == facts = NoFacts /\ content = [kind |-> "none"]

WorkerInit ==
  \/ serves = "inventory" /\ NoFileRequest /\ NoBatch /\ NoContent /\ InventoryInit /\ TreeShapes
  \/ serves = "batch" /\ NoFileRequest /\ NoInventory /\ NoContent /\ BatchInit
  \/ serves = "file" /\ NoInventory /\ NoBatch /\ NoContent /\ FileInit /\ OptionShapes
  \/ serves = "content" /\ NoInventory /\ NoBatch /\ NoFileRequest /\ ContentInit

(* The client has its answer. *)
Answered ==
  /\ serves # "content" => [inventory |-> stage, batch |-> job, file |-> point][serves] = "done"
  /\ serves = "content" => facts # NoFacts
  /\ UNCHANGED workerVars

WorkerNext ==
  \/ serves = "inventory" /\ InventoryNext /\ UNCHANGED <<batchVars, fileVars, contentVars, serves>>
  \/ serves = "batch" /\ BatchNext /\ UNCHANGED <<inventoryVars, fileVars, contentVars, serves>>
  \/ serves = "file" /\ FileNext /\ UNCHANGED <<inventoryVars, batchVars, contentVars, serves>>
  \/ serves = "content" /\ ContentNext /\ UNCHANGED <<inventoryVars, batchVars, fileVars, serves>>
  \/ Answered

WorkerSpec == WorkerInit /\ [][WorkerNext]_workerVars

(* The inductive invariants of the collections and the types of a file's    *)
(* inspection.                                                              *)
WorkerIInv == InventoryIInv /\ BatchIInv /\ FileTypeOK
=============================================================================
