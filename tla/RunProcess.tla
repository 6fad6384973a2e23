----------------------------- MODULE RunProcess -----------------------------
(***************************************************************************)
(* run_process (process.py): one child with its standard input and output  *)
(* on pipes, a deadline, and a limit to what it may answer.                *)
(*                                                                         *)
(* The parent feeds and drains in one select loop.  The child is any       *)
(* program: it decides what it does next and is blocked until that can be  *)
(* done; what it writes is finite.  Data is counted in units.              *)
(***************************************************************************)
EXTENDS Integers

CONSTANTS Payload,    \* units of standard input
          Capacity,   \* units a pipe holds
          Limit,      \* units of output that are accepted
          MaxOutput,  \* bound: units the child writes
          None        \* the absent value

ASSUME RunProcessAssumption ==
    /\ Payload \in Nat /\ Limit \in Nat /\ MaxOutput \in Nat /\ Capacity \in Nat \ {0}
    /\ None \notin {"answer", "TIMEOUT", "EXECUTOR_FAILED", "INTERRUPTED"}

VARIABLES at,       \* where run_process is
          unsent,   \* units not yet written; the parent closes stdin when there are none
          inpipe,   \* units on their way to the child
          outpipe,  \* units on their way to the parent
          got,      \* units the parent has read
          reading,  \* no end of file on stdout yet
          late,     \* the deadline has passed
          child,    \* the child process
          wants,    \* what the child does next
          put,      \* units the child has written
          outcome   \* what run_process returns or raises

parent == <<at, unsent, got, reading, outcome>>
processVars == <<parent, inpipe, outpipe, late, child, wants, put>>

Wants == {"read", "write", "exit"}

ProcessTypeOK ==
    /\ at \in {"idle", "loop", "wait", "ended"}
    /\ unsent \in 0 .. Payload /\ inpipe \in 0 .. Capacity
    /\ put \in 0 .. MaxOutput /\ outpipe \in 0 .. Capacity /\ got \in 0 .. Limit + 1
    /\ reading \in BOOLEAN /\ late \in BOOLEAN
    /\ child \in {"none", "running", "silent", "exited", "killed"} /\ wants \in Wants
    /\ outcome \in {None, "answer", "TIMEOUT", "EXECUTOR_FAILED", "INTERRUPTED"}

ProcessInit ==
    /\ at = "idle" /\ unsent = 0 /\ got = 0 /\ reading = TRUE /\ outcome = None
    /\ inpipe = 0 /\ outpipe = 0 /\ late = FALSE
    /\ child = "none" /\ wants = "read" /\ put = 0

-----------------------------------------------------------------------------
(* The parent                                                              *)

Alive == child \in {"running", "silent"}

\* What a child that goes on decides to do next
Decide(may) == wants' \in {w \in may : w = "write" => put' < MaxOutput}

Smaller(a, b) == IF a <= b THEN a ELSE b

\* Popen
Open ==
    /\ at \in {"idle", "ended"} /\ at' = "loop"
    /\ unsent' = Payload /\ inpipe' = 0 /\ outpipe' = 0 /\ put' = 0
    /\ child' = "running" /\ Decide(Wants)
    /\ got' = 0 /\ reading' = TRUE /\ late' = FALSE /\ outcome' = None

OpenFails ==
    /\ at \in {"idle", "ended"} /\ at' = "ended" /\ outcome' = "EXECUTOR_FAILED"
    /\ UNCHANGED <<unsent, got, reading, inpipe, outpipe, late, child, wants, put>>

\* What is raised passes the finally clause: a child that is still there is
\* killed with its group and waited for.  Pipe, clock and plan of the child are
\* of no account any more.
Raise(error) ==
    /\ at' = "ended" /\ outcome' = error
    /\ child' = IF Alive THEN "killed" ELSE child
    /\ inpipe' = 0 /\ late' = FALSE /\ wants' = "exit"
    /\ UNCHANGED <<unsent, got, reading, outpipe, put>>

\* Variant: output is read only when all input is written.
ReadableAfter == reading /\ unsent = 0 /\ (outpipe > 0 \/ child # "running")

Readable == reading /\ (outpipe > 0 \/ child # "running")
Writable == unsent > 0 /\ (inpipe < Capacity \/ ~Alive)

\* Variant: a child that has ended has said all.
BusyWithChild == (reading /\ child = "running") \/ unsent > 0

Busy == reading \/ unsent > 0

\* One round of the loop: what select reports is read, then written.  A pipe
\* the child does not read any more raises OSError.
Chunk == Smaller(outpipe, Limit + 1 - got)
Round ==
    /\ at = "loop" /\ Busy /\ ~late /\ (Readable \/ Writable)
    /\ ~(Readable /\ got + Chunk > Limit) /\ (Writable => Alive)
    /\ IF Readable
       THEN /\ got' = got + Chunk /\ outpipe' = outpipe - Chunk
            /\ reading' = (Chunk > 0)
       ELSE UNCHANGED <<got, outpipe, reading>>
    /\ LET count == IF Writable THEN Smaller(Capacity - inpipe, unsent) ELSE 0
       IN  inpipe' = inpipe + count /\ unsent' = unsent - count
    /\ UNCHANGED <<at, outcome, late, child, wants, put>>

RoundFails ==
    /\ at = "loop" /\ Busy /\ ~late
    /\ \/ Readable /\ got + Chunk > Limit
       \/ Writable /\ ~Alive
    /\ Raise("EXECUTOR_FAILED")

\* Both pipes are done with; the child has not ended perhaps.
Await ==
    /\ at = "loop" /\ ~Busy /\ at' = "wait"
    /\ UNCHANGED <<unsent, got, reading, outcome, inpipe, outpipe, late, child, wants, put>>

Answer ==
    /\ at = "wait" /\ child = "exited"
    /\ Raise("answer")

TimeOut ==
    /\ late
    /\ (at = "loop" /\ Busy) \/ (at = "wait" /\ child # "exited")
    /\ Raise("TIMEOUT")

Interrupt ==
    /\ at \in {"loop", "wait"}
    /\ Raise("INTERRUPTED")

DeadlinePasses ==
    /\ at \in {"loop", "wait"} /\ ~late /\ late' = TRUE
    /\ UNCHANGED <<parent, inpipe, outpipe, child, wants, put>>

ParentStep == Round \/ RoundFails \/ Await \/ Answer \/ TimeOut

-----------------------------------------------------------------------------
(* The child                                                               *)

Take ==
    /\ child = "running" /\ wants = "read" /\ inpipe > 0
    /\ inpipe' = inpipe - 1
    /\ UNCHANGED put /\ Decide(Wants)
    /\ UNCHANGED <<parent, outpipe, late, child>>

TakeEnd ==
    /\ child = "running" /\ wants = "read" /\ inpipe = 0 /\ unsent = 0
    /\ UNCHANGED put /\ Decide({"write", "exit"})
    /\ UNCHANGED <<parent, inpipe, outpipe, late, child>>

Put ==
    /\ child = "running" /\ wants = "write" /\ outpipe < Capacity
    /\ outpipe' = outpipe + 1 /\ put' = put + 1 /\ Decide(Wants)
    /\ UNCHANGED <<parent, inpipe, late, child>>

\* It may close its output before it ends.
Exit ==
    /\ \/ child = "running" /\ wants = "exit" /\ child' \in {"silent", "exited"}
       \/ child = "silent" /\ child' = "exited"
    /\ UNCHANGED <<parent, inpipe, outpipe, late, wants, put>>

ChildStep == Take \/ TakeEnd \/ Put \/ Exit

ProcessNext == Open \/ OpenFails \/ ParentStep \/ Interrupt \/ DeadlinePasses \/ ChildStep

-----------------------------------------------------------------------------
(* Properties                                                              *)

\* Parent and child never wait for each other: while the loop runs, one of them
\* can go on, whatever the child wants to do next (docstring of run_process:
\* neither pipe may defeat the deadline).
ChildReady ==
    CASE wants = "read"  -> inpipe > 0 \/ unsent = 0
      [] wants = "write" -> outpipe < Capacity
      [] OTHER           -> TRUE
NeverBothBlocked == at = "loop" /\ child = "running" => Readable \/ Writable \/ ChildReady

\* What is returned is all the child has written, and not more than the limit,
\* from a child that ended by itself and was offered all of its input.
AnswerIsWhole ==
    at = "ended" /\ outcome = "answer" =>
        /\ child = "exited" /\ unsent = 0
        /\ got = put /\ got <= Limit /\ outpipe = 0
=============================================================================
