------------------------------ MODULE MCOpens -------------------------------
(* The two places that open a file under a context, one of them per         *)
(* behaviour: the authority of the MCP server, and the command line.        *)
EXTENDS AuthorityOpen, CommandLine

(* Bound: up to four words, of those that matter to the command.            *)
Behind(first, words, n) == {first \o s : s \in BoundedSeq(words, n)}

MCCommandLines ==
  Behind(<<>>, {"a", "", "--json", "--mode", "quick", "--timeout=1h"}, 3)
    \cup Behind(<<"inspect">>, {"a", "--json", "--expect-sha256", "digest", "--quick", "--mode=fast",
                                "--frobnicate"}, 3)
    \cup Behind(<<"batch">>, {"a", "./a", "b", "--json", "--timeout", "5s"}, 3)
    \cup Behind(<<"inventory">>, {"a", "--json", "--max-depth", "1", "--max-depth=9", "--sha256"}, 3)
    \cup Behind(<<"doctor">>, {"--json", "a"}, 2) \cup Behind(<<"schema">>, {"result", "a"}, 2)
    \cup {<<c>> : c \in Commands}

opensVars == <<vars, commandVars>>

OpensInit ==
  \/ Init /\ CommandAbsent
  \/ Init /\ path = NoInode /\ regular = {} /\ CommandInit

(* The process is gone. *)
CommandRests == step \in Gone /\ UNCHANGED opensVars

OpensNext ==
  \/ step = "absent" /\ Next /\ UNCHANGED commandVars
  \/ step # "absent" /\ CommandNext /\ UNCHANGED vars
  \/ CommandRests

(* SchedulerFairness, of the behaviours that are the server's. *)
ServerFairness ==
  \A o \in Opens : /\ WF_vars(step = "absent" /\ CallerStep(o))
                   /\ WF_vars(step = "absent" /\ OpenerStep(o))
                   /\ WF_vars(step = "absent" /\ ContextEnds(o))

OpensSpec == OpensInit /\ [][OpensNext]_opensVars /\ ServerFairness /\ CommandFairness

(* The end of the context releases whoever waits for an open: a caller of    *)
(* OpenRelativeContext whatever the file system or the other opens do, and   *)
(* a command, which then exits, unless the system keeps it in os.Stat or in  *)
(* a call of the walk.                                                      *)
EndReleases == EndReleasesCaller /\ CommandReturns
=============================================================================
