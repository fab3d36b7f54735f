-------------------------- MODULE CommandArguments --------------------------
(***************************************************************************)
(* What finspect makes of the words of its command line: which command it  *)
(* is, whether it refuses the arguments, and in what form it answers.      *)
(*                                                                         *)
(* A word is looked at in one of two places: on its own, where it is an    *)
(* option or a path, and behind an option that takes a value, where it is  *)
(* that value whatever it looks like.                                      *)
(***************************************************************************)
EXTENDS Integers, Sequences, SequencesExt

CONSTANTS MaxPaths   \* files of one batch

(* The options that carry their value: the field they set, and to what. *)
Carried ==
  [w \in {"--quick", "--mode=deep", "--mode=fast", "--sha256", "--timeout=1h", "--max-depth=9"} |->
     CASE w = "--quick" -> <<"mode", "quick">>
       [] w = "--mode=deep" -> <<"mode", "deep">>
       [] w = "--mode=fast" -> <<"mode", "fast">>
       [] w = "--sha256" -> <<"hash", "sha256">>
       [] w = "--timeout=1h" -> <<"timeout", "1h">>
       [] w = "--max-depth=9" -> <<"depth", "9">>]

(* The options whose value is the next word. *)
Awaiting ==
  [w \in {"--mode", "--timeout", "--expect-sha256", "--max-depth"} |->
     CASE w = "--mode" -> "mode"
       [] w = "--timeout" -> "timeout"
       [] w = "--expect-sha256" -> "expected"
       [] w = "--max-depth" -> "depth"]

OptionWords == DOMAIN Carried \cup DOMAIN Awaiting \cup {"--json", "--frobnicate"}

(* The fields a command knows; an option for another is an unknown option.  *)
Fields ==
  [c \in {"inspect", "batch", "inventory"} |->
     CASE c = "inspect" -> {"mode", "hash", "timeout", "expected"}
       [] c = "batch" -> {"mode", "hash", "timeout"}
       [] c = "inventory" -> {"depth", "timeout"}]

(* Fields whose value has to be a number where it stands; the others, and    *)
(* the ranges, are looked at when all the words are read.                   *)
Parsed == {"timeout", "depth"}
Numbers == [timeout |-> {"5s", "1h"}, depth |-> {"1", "9"}]
Accepted ==
  [mode |-> {"quick", "standard", "deep"}, hash |-> {"none", "sha256"}, timeout |-> {"5s", "10s"},
   expected |-> {"", "digest"}, depth |-> {"1", "4"}]
Defaults ==
  [mode |-> "standard", hash |-> "none", timeout |-> "10s", expected |-> "", depth |-> "4"]

(* filepath.Clean, of the paths that differ only in how they are written. *)
Clean(path) == CASE path = "./a" -> "a" [] path = "" -> "." [] OTHER -> path

Unread == [values |-> Defaults, paths |-> <<>>, json |-> FALSE, awaits |-> "none", refused |-> FALSE]

Assign(read, field, value) ==
  [read EXCEPT !.values[field] = value, !.awaits = "none",
               !.refused = field \in Parsed /\ value \notin Numbers[field]]

(* The options that are options to a command: with the value behind them,    *)
(* and with their own.                                                      *)
Takes(command, word) == word \in DOMAIN Awaiting /\ Awaiting[word] \in Fields[command]
Carries(command, word) == word \in DOMAIN Carried /\ Carried[word][1] \in Fields[command]

ReadOption(command, read, word) ==
  CASE word = "--json" -> [read EXCEPT !.json = TRUE]
    [] Takes(command, word) -> [read EXCEPT !.awaits = Awaiting[word]]
    [] Carries(command, word) -> Assign(read, Carried[word][1], Carried[word][2])
    [] OTHER -> [read EXCEPT !.refused = TRUE]

(* A second path is refused at once by two of the parsers. The empty path    *)
(* leaves the path of an inspection unset.                                  *)
ReadPath(command, read, word) ==
  CASE command = "inspect" /\ word = "" /\ read.paths = <<>> -> read
    [] command # "batch" /\ read.paths # <<>> -> [read EXCEPT !.refused = TRUE]
    [] OTHER -> [read EXCEPT !.paths = Append(@, word)]

(* Mutant of ReadWord: an option is one wherever it stands. *)
ReadWordEverywhere(command, read, word) ==
  IF read.refused THEN read
  ELSE IF word = "--json" THEN [read EXCEPT !.json = TRUE, !.awaits = "none"]
  ELSE IF read.awaits # "none" THEN Assign(read, read.awaits, word)
  ELSE IF word \in OptionWords THEN ReadOption(command, read, word)
  ELSE ReadPath(command, read, word)

(* One turn of the loop of parseInspectArgs, parseBatchArgs and             *)
(* parseInventoryArgs.                                                      *)
ReadWord(command, read, word) ==
  IF read.refused THEN read
  ELSE IF read.awaits # "none" THEN Assign(read, read.awaits, word)
  ELSE IF word \in OptionWords THEN ReadOption(command, read, word)
  ELSE ReadPath(command, read, word)

(* What is looked at when the words are read: an inspection needs a path,   *)
(* a batch one to MaxPaths different ones.                                   *)
PathsAccepted(command, paths) ==
  CASE command = "inspect" -> paths # <<>>
    [] command = "inventory" -> TRUE
    [] command = "batch" ->
         /\ Len(paths) \in 1..MaxPaths
         /\ \A i, j \in 1..Len(paths) : Clean(paths[i]) = Clean(paths[j]) => i = j

Parse(command, words) ==
  LET Turn(read, word) == ReadWord(command, read, word)
      read == FoldLeft(Turn, Unread, words)
      refused == \/ read.refused \/ read.awaits # "none"
                 \/ ~PathsAccepted(command, read.paths)
                 \/ \E f \in Fields[command] : read.values[f] \notin Accepted[f]
  IN [refused |-> refused, paths |-> read.paths,
      json |-> IF refused THEN Contains(words, "--json") ELSE read.json]

(* The command the first word names; anything else is an inspection of what *)
(* is there, and so is nothing at all.                                      *)
Commands == {"inspect", "batch", "inventory", "doctor", "schema", "version", "help", "mcp",
             "__worker-inspect", "__worker-batch", "__worker-inventory"}
CommandOf(words) ==
  IF words # <<>> /\ words[1] \in Commands THEN words[1] ELSE "inspect"
ArgumentsOf(words) ==
  IF words # <<>> /\ words[1] \in Commands THEN Tail(words) ELSE words

(* The words a schema is known by; none means the output of an inspection. *)
SchemaNames == {"input", "output", "result", "batch-input", "batch-output", "inventory-input",
                "inventory-output"}
SchemaRefused(words) == Len(words) > 1 \/ (Len(words) = 1 /\ words[1] \notin SchemaNames)
DoctorRefused(words) == words \notin {<<>>, <<"--json">>}

-----------------------------------------------------------------------------
(* The positions that are the value of an option: those right behind an     *)
(* option that takes one, unless that is a value itself.                     *)
ValuePositions(command, words) ==
  CHOOSE V \in SUBSET (1..Len(words)) :
    \A i \in 1..Len(words) :
      i \in V <=> i > 1 /\ i - 1 \notin V /\ Takes(command, words[i - 1])

(* The words that stand on their own, and what each word sets to what.      *)
OwnWords(command, words) == 1..Len(words) \ ValuePositions(command, words)
SetAt(command, words, i) ==
  CASE i \in OwnWords(command, words) /\ words[i] \in DOMAIN Carried -> Carried[words[i]]
    [] i \in ValuePositions(command, words) -> <<Awaiting[words[i - 1]], words[i]>>
    [] OTHER -> <<"none", "none">>

(* Every option is one of the command's and has its value.                  *)
OptionsKnown(command, words) ==
  \A i \in OwnWords(command, words) :
    words[i] \in OptionWords =>
      words[i] = "--json" \/ Carries(command, words[i]) \/ i + 1 \in ValuePositions(command, words)

NumbersGiven(command, words) ==
  \A i \in 1..Len(words) :
    SetAt(command, words, i)[1] \in Parsed =>
      SetAt(command, words, i)[2] \in Numbers[SetAt(command, words, i)[1]]

(* The last value a field is given is in its range.                         *)
LastIsAccepted(command, words, f) ==
  \A i \in 1..Len(words) :
    /\ SetAt(command, words, i)[1] = f
    /\ \A j \in i + 1..Len(words) : SetAt(command, words, j)[1] # f
    => SetAt(command, words, i)[2] \in Accepted[f]

(* An inspection has one path, and no other behind it; empty ones before it  *)
(* do not count. An inventory has at most one, a batch as many as it may.    *)
PathsGiven(command, words) ==
  LET paths == {i \in OwnWords(command, words) : words[i] \notin OptionWords}
  IN CASE command = "inspect" ->
            \E i \in paths : words[i] # "" /\ \A j \in paths : j # i => j < i /\ words[j] = ""
       [] command = "batch" ->
            /\ paths # {} /\ Cardinality(paths) <= MaxPaths
            /\ \A i, j \in paths : Clean(words[i]) = Clean(words[j]) => i = j
       [] command = "inventory" -> \A i, j \in paths : i = j

(* A command line is refused, and answered in JSON, as a reader of the usage *)
(* text would say from the words and their positions: every option is known  *)
(* and has its value, the last value of each is in range and every number is *)
(* one, the paths are as many as they may be; --json counts where it is an   *)
(* option, and anywhere in what is refused. parseInspectArgs,                *)
(* parseBatchArgs, parseInventoryArgs and the scans for --json.              *)
ArgumentsReadRight(command, words) ==
  LET answer == Parse(command, words)
  IN /\ answer.refused <=> ~(/\ OptionsKnown(command, words) /\ NumbersGiven(command, words)
                            /\ PathsGiven(command, words)
                            /\ \A f \in Fields[command] : LastIsAccepted(command, words, f))
     /\ answer.json <=>
          \E i \in (IF answer.refused THEN 1..Len(words) ELSE OwnWords(command, words)) :
            words[i] = "--json"
=============================================================================
