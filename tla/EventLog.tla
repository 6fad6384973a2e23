------------------------------ MODULE EventLog ------------------------------
(***************************************************************************)
(* What an operation's journal promises: events are appended, and once an  *)
(* append is acknowledged no crash takes it or anything before it away.  A *)
(* crash may drop a suffix that nobody was told of.                        *)
(***************************************************************************)
EXTENDS Naturals, Sequences

CONSTANTS Logs, Events

VARIABLES
    log,        \* per log, its events
    acked       \* per log, how many of them are acknowledged

logVars == <<log, acked>>

LogInit ==
    /\ log = [l \in Logs |-> <<>>]
    /\ acked = [l \in Logs |-> 0]

AppendEvent(l, e) ==
    /\ log' = [log EXCEPT ![l] = Append(@, e)]
    /\ UNCHANGED acked

Acknowledge(l) ==
    /\ acked' = [acked EXCEPT ![l] = Len(log[l])]
    /\ UNCHANGED log

\* Every log keeps its acknowledged events and a prefix of the others.
Crash ==
    /\ log' = [l \in Logs |-> log'[l]]
    /\ \A l \in Logs : \E k \in acked[l] .. Len(log[l]) : log'[l] = SubSeq(log[l], 1, k)
    /\ UNCHANGED acked

LogNext ==
    \/ \E l \in Logs, e \in Events : AppendEvent(l, e)
    \/ \E l \in Logs : Acknowledge(l)
    \/ Crash

LogSpec == LogInit /\ [][LogNext]_logVars
=============================================================================
