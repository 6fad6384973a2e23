---------------------------- MODULE Verification ----------------------------
(***************************************************************************)
(* Verifying a generation against the live database: the coordinator's     *)
(* accept-refuse-accept (_verify_generation), each of the three a run of   *)
(* run_verification or run_policy_verification, which pins the target and  *)
(* the credential directory, has docker run a worker in a container of its *)
(* own, looks at both again, and removes the container.                    *)
(*                                                                         *)
(* The docker client is a child of run_process (RunProcess): it may write  *)
(* anything, or end, at any time.  The daemon works on, whatever happens   *)
(* to the client.  Target, server, policy and directory change on their    *)
(* own.  Shorter calls of docker are one step with any outcome.            *)
(***************************************************************************)
EXTENDS RunProcess, Sequences

CONSTANTS MaxChanges,  \* bound: changes of the world
          Policies     \* what the server may let in: sets of ways to connect

Uncertain == {"TIMEOUT", "INTERRUPTED"}
CallErrors == Uncertain \cup {"EXECUTOR_FAILED"}
WorkerErrors == {"TIMEOUT", "VERIFICATION_FAILED", "CONNECTION_FAILED"}
Errors == CallErrors \cup WorkerErrors
            \cup {"TARGET_MISMATCH", "TARGET_DRIFT", "CREDENTIAL_ACCESS_DENIED", "EXECUTOR_CLEANUP_FAILED"}

ASSUME VerificationAssumption ==
    /\ MaxChanges \in Nat /\ Policies \subseteq SUBSET {"cert", "nocert", "plain"}
    /\ None \notin Errors \cup {"succeeded", "remaining"} /\ None \notin {1, 2}

VARIABLES vpc,        \* where the executor is
          run,        \* which of the three runs
          pinned,     \* the directory opened, and its revision
          prior,      \* prior_error: what clean-up must not replace
          raised,     \* the exception on its way
          result,     \* the worker's result as it will be returned
          removal,    \* how docker rm has failed
          answer,     \* what the coordinator is told in the end
          box,        \* Runs -> the container
          mount,      \* the directory the container was given
          verdict,    \* what the worker says
          saw,        \* what the worker's probes have met
          passed,     \* the probes that have gone as they should, in order
          world       \* path, revisions, start and readiness of the target, policy

executor == <<vpc, run, pinned, prior, raised, result, removal, answer>>
worker == <<verdict, saw, passed>>
vars == <<processVars, executor, worker, box, mount, world>>

Accept == <<"cert">>
Refuse == <<"nocert", "plain">>
Probes == <<Accept, Refuse, Accept>>
Runs == DOMAIN Probes
Dirs == {1, 2}

World == [path : Dirs, revs : [Dirs -> 0 .. MaxChanges], start : 0 .. MaxChanges,
          ready : BOOLEAN, policy : Policies, changes : 0 .. MaxChanges]

TypeOK ==
    /\ ProcessTypeOK
    /\ vpc \in {"inspect", "open", "pin", "docker", "reinspect", "recheck", "remove", "observe",
                "verified", "failed"}
    /\ run \in Runs
    /\ pinned \in [dir : Dirs, rev : 0 .. MaxChanges] \cup {None}
    /\ prior \in Errors \cup {None} /\ raised \in Errors \cup {None}
    /\ result \in WorkerErrors \cup {"succeeded", None} /\ removal \in CallErrors \cup {None}
    /\ answer \in Errors \cup {None}
    /\ box \in [Runs -> {"none", "asked", "there", "gone"}] /\ mount \in Dirs \cup {None}
    /\ verdict \in WorkerErrors \cup {"succeeded", None}
    /\ saw \subseteq [dir : Dirs, rev : 0 .. MaxChanges, start : 0 .. MaxChanges, ready : BOOLEAN]
    /\ world \in World

Init ==
    /\ ProcessInit
    /\ vpc = "inspect" /\ run = 1 /\ pinned = None
    /\ prior = None /\ raised = None /\ result = None /\ removal = None /\ answer = None
    /\ box = [r \in Runs |-> "none"] /\ mount = None
    /\ verdict = None /\ saw = {} /\ passed = <<>>
    /\ world \in [path : {1}, revs : {[d \in Dirs |-> 0]}, start : {0}, ready : {TRUE},
                  policy : Policies, changes : {0}]

-----------------------------------------------------------------------------
(* The executor                                                            *)

Stay == UNCHANGED <<processVars, worker, box, mount, world>>

\* The end of a run, which returns or raises o.
Return(o) ==
    IF o = "succeeded" /\ run < Len(Probes)
    THEN /\ vpc' = "inspect" /\ run' = run + 1 /\ pinned' = None
         /\ prior' = None /\ raised' = None /\ result' = None /\ removal' = None
         /\ UNCHANGED answer
    ELSE /\ vpc' = IF o = "succeeded" THEN "verified" ELSE "failed"
         /\ answer' = IF o = "succeeded" THEN None ELSE o
         /\ UNCHANGED <<run, pinned, prior, raised, result, removal>>

\* target_snapshot: a call that fails is a target that does not match, unless
\* it was interrupted.
Snapshots ==
    (IF world.start = 0 THEN {None} ELSE {}) \cup {"TARGET_MISMATCH", "INTERRUPTED"}

Inspect ==
    /\ vpc = "inspect"
    /\ \E error \in Snapshots :
          IF error = None
          THEN /\ vpc' = "open"
               /\ UNCHANGED <<run, pinned, prior, raised, result, removal, answer>>
          ELSE Return(error)
    /\ Stay

\* The directory is pinned by a descriptor, then compared with its path.
OpenDirectory ==
    /\ vpc = "open"
    /\ vpc' = "pin" /\ pinned' = [dir |-> world.path, rev |-> 0]
    /\ UNCHANGED <<run, prior, raised, result, removal, answer>>
    /\ Stay

\* Nothing is started yet: there is nothing to clean up.
Pin ==
    /\ vpc = "pin"
    /\ \/ /\ world.path = pinned.dir
          /\ vpc' = "docker" /\ pinned' = [pinned EXCEPT !.rev = world.revs[pinned.dir]]
          /\ UNCHANGED <<run, prior, raised, result, removal, answer>>
       \/ Return("CREDENTIAL_ACCESS_DENIED")
    /\ Stay

\* docker run
StartDocker ==
    /\ vpc = "docker" /\ box[run] = "none"
    /\ \/ Open /\ box' = [box EXCEPT ![run] = "asked"]
       \/ OpenFails /\ box' = [box EXCEPT ![run] = "gone"]
    /\ mount' = None /\ verdict' = None /\ saw' = {}
    /\ UNCHANGED <<executor, passed, world>>

DockerRuns == vpc = "docker" /\ box[run] # "none"

Fail(error) == raised' = error /\ prior' = error /\ vpc' = "remove"

\* What docker() makes of the client's answer: the worker's result, if its whole
\* output and its exit code say so.
DockerReturns ==
    /\ DockerRuns /\ at = "ended"
    /\ \/ /\ outcome = "answer" /\ verdict # None /\ put = 1
          /\ vpc' = "reinspect" /\ result' = verdict
          /\ UNCHANGED <<prior, raised>>
       \/ /\ outcome = "answer" /\ Fail("EXECUTOR_FAILED")
          /\ UNCHANGED result
       \/ /\ outcome # "answer" /\ Fail(outcome)
          /\ UNCHANGED result
    /\ UNCHANGED <<run, pinned, removal, answer>>
    /\ Stay

\* Variant: the target is not looked at again.
ReinspectNever ==
    /\ vpc = "reinspect" /\ vpc' = "recheck"
    /\ UNCHANGED <<run, pinned, prior, raised, result, removal, answer>>
    /\ Stay

Reinspect ==
    /\ vpc = "reinspect"
    /\ \E error \in Snapshots :
          IF error = None THEN vpc' = "recheck" /\ UNCHANGED <<prior, raised>>
                          ELSE Fail(error)
    /\ UNCHANGED <<run, pinned, result, removal, answer>>
    /\ Stay

\* The path and the revision again.  A path that is gone raises OSError, which
\* leaves prior_error alone.  A result TIMEOUT is kept as if it were raised.
Recheck ==
    /\ vpc = "recheck" /\ vpc' = "remove"
    /\ \/ /\ world.path = pinned.dir /\ world.revs[pinned.dir] = pinned.rev
          /\ prior' = IF result = "TIMEOUT" THEN "TIMEOUT" ELSE prior
          /\ UNCHANGED raised
       \/ /\ world.path # pinned.dir \/ world.revs[pinned.dir] # pinned.rev
          /\ prior' = "TARGET_DRIFT" /\ raised' = "TARGET_DRIFT"
       \/ raised' = "CREDENTIAL_ACCESS_DENIED" /\ UNCHANGED prior
    /\ UNCHANGED <<run, pinned, result, removal, answer>>
    /\ Stay

\* What the finally clause leaves of the run when clean-up says so.
Outcome == IF raised # None THEN raised ELSE result

\* Variant: clean-up has the last word.
CleanedLoud(error) == Return(IF error # None THEN error ELSE Outcome)

Cleaned(error) == Return(IF error # None /\ prior = None THEN error ELSE Outcome)

\* Variant: a removal that fails for good has nothing to remove.
RemoveUnobserved ==
    /\ vpc = "remove"
    /\ \E error \in CallErrors \cup {None} :
          /\ box' = IF error = None /\ box[run] = "there" THEN [box EXCEPT ![run] = "gone"] ELSE box
          /\ Cleaned(IF error \in Uncertain THEN error ELSE None)
    /\ UNCHANGED <<processVars, worker, mount, world>>

\* docker rm -f: it removes a container that is there; of what is not there it
\* may complain.  A call that fails may have removed it all the same.
Remove ==
    /\ vpc = "remove"
    /\ \E error \in CallErrors \cup {None}, done \in BOOLEAN :
          /\ error = None => done
          /\ box' = IF done /\ box[run] = "there" THEN [box EXCEPT ![run] = "gone"] ELSE box
          /\ IF error = None
             THEN Cleaned(None)
             ELSE /\ vpc' = "observe" /\ removal' = error
                  /\ UNCHANGED <<run, pinned, prior, raised, result, answer>>
    /\ UNCHANGED <<processVars, worker, mount, world>>

\* docker ps: the first uncertainty stays, whatever is observed.
Observe ==
    /\ vpc = "observe"
    /\ \E observed \in CallErrors \cup {IF box[run] = "there" THEN "remaining" ELSE None} :
          Cleaned(IF removal \in Uncertain THEN removal
                  ELSE IF observed \in Uncertain \cup {None} THEN observed
                  ELSE "EXECUTOR_CLEANUP_FAILED")
    /\ Stay

Executor ==
    \/ Inspect \/ OpenDirectory \/ Pin \/ StartDocker \/ DockerReturns
    \/ Reinspect \/ Recheck \/ Remove \/ Observe

-----------------------------------------------------------------------------
(* The docker client, the daemon and the worker                            *)

CallStep ==
    /\ DockerRuns /\ ParentStep
    /\ UNCHANGED <<executor, worker, box, mount, world>>
CallInterrupt ==
    /\ DockerRuns /\ Interrupt
    /\ UNCHANGED <<executor, worker, box, mount, world>>
Clock ==
    /\ DockerRuns /\ DeadlinePasses
    /\ UNCHANGED <<executor, worker, box, mount, world>>
Client ==
    /\ DockerRuns /\ ChildStep
    /\ UNCHANGED <<executor, worker, box, mount, world>>

\* The daemon acts on the request when it likes, also when the client is gone;
\* --rm removes a container whose worker has ended.
Create(r) ==
    /\ box[r] = "asked" /\ box' = [box EXCEPT ![r] = "there"]
    /\ mount' = IF r = run THEN world.path ELSE mount
    /\ UNCHANGED <<processVars, executor, worker, world>>
Reap ==
    /\ box[run] = "there" /\ verdict # None
    /\ box' = [box EXCEPT ![run] = "gone"]
    /\ UNCHANGED <<processVars, executor, worker, mount, world>>

\* The worker has its request; nothing else is on the output.
WorkerRuns ==
    /\ DockerRuns /\ child = "running" /\ box[run] = "there" /\ verdict = None
    /\ unsent = 0 /\ inpipe = 0 /\ put = 0

\* The next probe of this run: as many as it has passed are behind it.
Behind == Len(passed) - (IF run = 1 THEN 0 ELSE IF run = 2 THEN 1 ELSE 3)
Probe == Probes[run][Behind + 1]
LetIn == world.ready /\ Probe \in world.policy

\* Variant: no connection is as good as a refusal.
AsItShouldLoose == IF Probes[run] = Accept THEN LetIn ELSE ~LetIn

\* Connections with the certificate are let in; the others are refused by a
\* server that is there (expected_refusal).
AsItShould == IF Probes[run] = Accept THEN LetIn ELSE world.ready /\ ~LetIn

Sight == [dir |-> mount, rev |-> world.revs[mount], start |-> world.start, ready |-> world.ready]

ProbePasses ==
    /\ WorkerRuns /\ AsItShould
    /\ passed' = Append(passed, Probe) /\ saw' = saw \cup {Sight}
    /\ verdict' = IF Behind + 1 = Len(Probes[run]) THEN "succeeded" ELSE None
    /\ UNCHANGED <<processVars, executor, box, mount, world>>

\* A connection that should not be, none where one should be, or the alarm
ProbeFails ==
    /\ WorkerRuns
    /\ \/ ~AsItShould /\ verdict' = IF LetIn THEN "VERIFICATION_FAILED" ELSE "CONNECTION_FAILED"
       \/ verdict' = "TIMEOUT"
    /\ UNCHANGED <<processVars, executor, saw, passed, box, mount, world>>

-----------------------------------------------------------------------------
(* The world                                                               *)

Change(w) ==
    /\ vpc \notin {"verified", "failed"} /\ world.changes < MaxChanges
    /\ world' = [w EXCEPT !.changes = @ + 1]
    /\ UNCHANGED <<processVars, executor, worker, box, mount>>

\* A start of the container is never repeated: it has a time.
Restart == Change([world EXCEPT !.start = @ + 1])
ServerFlips == Change([world EXCEPT !.ready = ~@])
PolicyLoads == \E p \in Policies \ {world.policy} : Change([world EXCEPT !.policy = p])
\* A file of the directory is edited or replaced.
Edit == Change([world EXCEPT !.revs[world.path] = @ + 1])
\* Another directory is renamed to the path: a rename changes its ctime.
Swap == Change([world EXCEPT !.path = 3 - @, !.revs[3 - world.path] = @ + 1])

Next ==
    \/ Executor \/ CallStep \/ CallInterrupt \/ Clock \/ Client
    \/ \E r \in Runs : Create(r)
    \/ Reap \/ ProbePasses \/ ProbeFails
    \/ Restart \/ ServerFlips \/ PolicyLoads \/ Edit \/ Swap

Spec == Init /\ [][Next]_vars

\* The executor goes on; and the client does, or else the clock.
FairSpec ==
    /\ Spec /\ WF_vars(Executor \/ CallStep)
    /\ WF_vars(Client) \/ WF_vars(Clock)

-----------------------------------------------------------------------------
(* Properties                                                              *)

\* A success is about what was pinned: each probe of the worker has met the
\* target at its bound start, running, and the credential directory at the
\* revision the run had opened, although the daemon resolves the path itself
\* and no lock is held (run_verification, 269-271); and a generation that is
\* verified has been accepted, refused twice, and accepted, in this order.
SuccessIsPinned ==
    /\ (vpc \in {"remove", "observe"} /\ raised = None /\ result = "succeeded") =>
          \A s \in saw : s = [dir |-> pinned.dir, rev |-> pinned.rev, start |-> 0, ready |-> TRUE]
    /\ vpc = "verified" => passed = Accept \o Refuse \o Accept

Done == vpc \in {"verified", "failed"}

\* What has gone wrong first in a run: the exception on its way, or else the
\* failure its worker has found.
FirstError == IF raised # None THEN raised ELSE IF result = "succeeded" THEN None ELSE result

\* The errors prior_error does not hold: what the worker has found, a timeout
\* apart, and the OSError that becomes CREDENTIAL_ACCESS_DENIED.
NotHeld == {"VERIFICATION_FAILED", "CONNECTION_FAILED", "CREDENTIAL_ACCESS_DENIED"}

\* What the code does promise once docker was asked.  A timeout or interrupt of
\* the run is reported whatever becomes of clean-up (docs/local-executor.md:81),
\* and so is every other error but those NotHeld.  One of these, or a success,
\* gives way to an error of clean-up only if removing the container has failed;
\* and it does give way when the removal timed out or was interrupted, also if
\* the container is seen to be gone afterwards (cleanup_container, 67-70).
\* docs/local-lifecycle.md:108 (the first error is returned as it is) and the
\* docstring of cleanup_container (the original failure is not replaced) make no
\* exemption for NotHeld; the code does (349-354), and so does this property.
FirstErrorOrCleanUp ==
    Done /\ box[run] # "none" =>
        /\ outcome \in Uncertain => answer = outcome
        /\ FirstError \notin NotHeld \cup {None} => answer = FirstError
        /\ FirstError \in NotHeld \cup {None} =>
              /\ removal \in Uncertain => answer = removal
              /\ \/ answer = FirstError
                 \/ removal # None /\ answer \in Uncertain \cup {"EXECUTOR_CLEANUP_FAILED"}

\* A success, and a failure the worker has found, are told as such only when the
\* container is known to be gone, and cannot come any more: a container that is
\* left, or can still come, is behind an error of clean-up or behind an exception
\* of the run itself.  The latter keeps its own code, also one, as TARGET_DRIFT,
\* that tells nothing of the container (docs/local-executor.md:82 would have
\* EXECUTOR_CLEANUP_FAILED then).
LeftIsTold ==
    Done => \A r \in Runs : box[r] \in {"asked", "there"} =>
        r = run /\ (raised # None \/ answer \in Uncertain \cup {"EXECUTOR_CLEANUP_FAILED"})

\* Every verification comes to an end.
Ends == <>Done
=============================================================================
