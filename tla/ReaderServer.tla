---------------------------- MODULE ReaderServer ----------------------------
(***************************************************************************)
(* What the coordinator takes a PostgreSQL server for, without files,      *)
(* reloads or requests: a reader role that one provision makes and owns    *)
(* for good, and that is opened only behind the rules of its owner.        *)
(***************************************************************************)
CONSTANTS Ops, None,
          Withdrawals     \* whether rules may be taken out again (BOOLEAN)

VARIABLES owner,    \* the provision whose marker the role bears
          stage     \* "clean": no role; "role": closed, rules missing; "files": closed,
                    \* rules loaded; "ready": open behind them; "exposed": open without

serverVars == <<owner, stage>>

ServerInit == owner = None /\ stage = "clean"

Turn(from, to) == stage = from /\ stage' = to

MakeRole(o) == Turn("clean", "role") /\ owner' = o

LoadRules == (Turn("role", "files") \/ Turn("exposed", "ready")) /\ UNCHANGED owner

OpenRole == Turn("files", "ready") /\ UNCHANGED owner

ShutRole == (Turn("ready", "files") \/ Turn("exposed", "role")) /\ UNCHANGED owner

WithdrawRules ==
    /\ Withdrawals
    /\ Turn("files", "role") \/ Turn("ready", "exposed")
    /\ UNCHANGED owner

ServerNext ==
    (\E o \in Ops : MakeRole(o)) \/ LoadRules \/ OpenRole \/ ShutRole \/ WithdrawRules

ServerSpec == ServerInit /\ [][ServerNext]_serverVars
=============================================================================
