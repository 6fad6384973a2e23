------------------------- MODULE VerificationProofs -------------------------
(***************************************************************************)
(* Proofs about RunProcess and Verification, for every size of pipes,      *)
(* inputs and outputs and any number of changes of the world.              *)
(***************************************************************************)
EXTENDS Verification, SequenceTheorems, TLAPS

-----------------------------------------------------------------------------
(* run_process                                                             *)

\* The Boolean variables are apart: another prover looks after them.
Sizes ==
    /\ at \in {"idle", "loop", "wait", "ended"}
    /\ unsent \in 0 .. Payload /\ inpipe \in 0 .. Capacity
    /\ put \in 0 .. MaxOutput /\ outpipe \in 0 .. Capacity /\ got \in 0 .. Limit + 1
    /\ child \in {"none", "running", "silent", "exited", "killed"} /\ wants \in Wants
    /\ outcome \in {None, "answer", "TIMEOUT", "EXECUTOR_FAILED", "INTERRUPTED"}

Flags == reading \in BOOLEAN /\ late \in BOOLEAN

ProcessInv ==
    /\ Sizes /\ Flags
    /\ put = got + outpipe
    /\ wants = "write" => put < MaxOutput
    /\ at \in {"idle", "ended"} => ~Alive
    /\ at = "ended" => outcome # None
    /\ at \in {"loop", "wait"} => got <= Limit
    /\ ~reading => child # "running" /\ outpipe = 0
    /\ at = "wait" => ~reading /\ unsent = 0
    /\ AnswerIsWhole

LEMMA ProcessInit0 == ProcessInit => ProcessInv
<1> SUFFICES ASSUME ProcessInit PROVE ProcessInv
    OBVIOUS
<1> USE RunProcessAssumption DEF ProcessInit
<1>1. Sizes
      BY DEF Sizes, Wants
<1>0. Flags
      BY DEF Flags
<1>2. ~Alive /\ AnswerIsWhole
      BY DEF Alive, AnswerIsWhole
<1> QED BY <1>0, <1>1, <1>2 DEF ProcessInv

LEMMA OpenInv == ProcessInv /\ (Open \/ OpenFails) => ProcessInv'
<1> SUFFICES ASSUME ProcessInv, Open \/ OpenFails PROVE ProcessInv'
    OBVIOUS
<1> USE RunProcessAssumption DEF ProcessInv
<1>1. CASE Open
  <2>1. Sizes' /\ (wants' = "write" => put' < MaxOutput)
        BY <1>1 DEF Open, Decide, Sizes, Wants
  <2>0. Flags'
        BY <1>1 DEF Open, Flags
  <2>2. AnswerIsWhole'
        BY <1>1 DEF Open, AnswerIsWhole
  <2> QED BY <1>1, <2>0, <2>1, <2>2 DEF Open
<1>2. CASE OpenFails
  <2>1. Sizes' /\ Flags'
        BY <1>2 DEF OpenFails, Sizes, Flags
  <2>2. AnswerIsWhole' /\ ~Alive'
        BY <1>2 DEF OpenFails, AnswerIsWhole, Alive
  <2> QED BY <1>2, <2>1, <2>2 DEF OpenFails
<1> QED BY <1>1, <1>2

LEMMA RoundInv == ProcessInv /\ Round => ProcessInv'
<1> SUFFICES ASSUME ProcessInv, Round PROVE ProcessInv'
    OBVIOUS
<1> USE RunProcessAssumption DEF ProcessInv, Sizes
<1>1. /\ at = "loop" /\ Busy
      /\ UNCHANGED <<at, outcome, late, child, wants, put>>
      BY DEF Round
<1>2. /\ inpipe' \in 0 .. Capacity /\ unsent' \in 0 .. Payload
      BY DEF Round, Smaller
<1>3. /\ got' \in 0 .. Limit /\ outpipe' \in 0 .. Capacity /\ put = got' + outpipe'
  <2>1. CASE Readable
    <3>1. got + Chunk <= Limit /\ got' = got + Chunk /\ outpipe' = outpipe - Chunk
          BY <2>1 DEF Round, Chunk, Smaller
    <3>2. Chunk \in 0 .. outpipe
          BY <1>1 DEF Chunk, Smaller
    <3> QED BY <3>1, <3>2
  <2>2. CASE ~Readable
        BY <1>1, <2>2 DEF Round
  <2> QED BY <2>1, <2>2
<1>4. ~reading' => child # "running" /\ outpipe' = 0
  <2>1. CASE Readable /\ ~reading'
    <3>1. /\ reading' = (Chunk > 0) /\ outpipe' = outpipe - Chunk
          /\ reading /\ (outpipe > 0 \/ child # "running")
          BY <2>1 DEF Round, Readable
    <3>2. ~(Chunk > 0)
          BY <2>1, <3>1
    <3>3. outpipe = 0 /\ Chunk = 0
          BY <1>1, <3>2 DEF Chunk, Smaller
    <3> QED BY <3>1, <3>3
  <2>2. CASE ~Readable
        BY <2>2 DEF Round
  <2> QED BY <2>1, <2>2
<1>5. Sizes'
      BY <1>1, <1>2, <1>3
<1>0. Flags'
  <2>1. late' \in BOOLEAN
        BY <1>1 DEF Flags
  <2>2. CASE Readable
        BY <2>1, <2>2 DEF Round, Flags
  <2>3. CASE ~Readable
        BY <2>1, <2>3 DEF Round, Flags
  <2> QED BY <2>2, <2>3
<1>6. AnswerIsWhole'
      BY <1>1 DEF AnswerIsWhole
<1>7. wants' = "write" => put' < MaxOutput
      BY <1>1
<1>8. put' = got' + outpipe' /\ got' <= Limit
  <2> HIDE DEF ProcessInv, Sizes
  <2>1. put' = put /\ got' <= Limit
        BY <1>1, <1>3
  <2> QED BY <1>3, <2>1
<1> QED BY <1>0, <1>1, <1>4, <1>5, <1>6, <1>7, <1>8

LEMMA RaiseInv ==
    ASSUME ProcessInv, NEW error \in {"answer", "TIMEOUT", "EXECUTOR_FAILED", "INTERRUPTED"},
           Raise(error), error = "answer" => at = "wait" /\ child = "exited"
    PROVE  ProcessInv'
<1> USE RunProcessAssumption DEF ProcessInv
<1>1. /\ at' = "ended" /\ outcome' = error /\ child' = IF Alive THEN "killed" ELSE child
      /\ inpipe' = 0 /\ late' = FALSE /\ wants' = "exit"
      /\ UNCHANGED <<unsent, got, reading, outpipe, put>>
      BY DEF Raise
<1>2. Sizes'
      BY <1>1 DEF Sizes, Wants
<1>0. Flags'
      BY <1>1 DEF Flags
<1>3. ~Alive' /\ (~reading' => child' # "running")
      BY <1>1 DEF Alive
<1>4. AnswerIsWhole'
  <2>1. CASE error = "answer"
        BY <1>1, <2>1 DEF AnswerIsWhole, Alive, Sizes
  <2>2. CASE error # "answer"
        BY <1>1, <2>2 DEF AnswerIsWhole
  <2> QED BY <2>1, <2>2
<1> QED BY <1>0, <1>1, <1>2, <1>3, <1>4

LEMMA ChildInv == ProcessInv /\ ChildStep => ProcessInv'
<1> SUFFICES ASSUME ProcessInv, ChildStep PROVE ProcessInv'
    OBVIOUS
<1> USE RunProcessAssumption
        DEF ProcessInv, Sizes, Flags, Alive, AnswerIsWhole, Wants, Decide, parent
<1>1. CASE Take
      BY <1>1 DEF Take
<1>2. CASE TakeEnd
      BY <1>2 DEF TakeEnd
<1>3. CASE Put
      BY <1>3 DEF Put
<1>4. CASE Exit
      BY <1>4 DEF Exit
<1> QED BY <1>1, <1>2, <1>3, <1>4 DEF ChildStep

LEMMA ProcessStepInv == ProcessInv /\ [ProcessNext]_processVars => ProcessInv'
<1> SUFFICES ASSUME ProcessInv, [ProcessNext]_processVars PROVE ProcessInv'
    OBVIOUS
<1>1. CASE Open \/ OpenFails
      BY <1>1, OpenInv
<1>2. CASE Round
      BY <1>2, RoundInv
<1>3. CASE RoundFails \/ TimeOut \/ Interrupt
      BY <1>3, RaiseInv DEF RoundFails, TimeOut, Interrupt
<1>4. CASE Answer
      BY <1>4, RaiseInv DEF Answer
<1>5. CASE Await
      BY <1>5 DEF Await, Busy, ProcessInv, Sizes, Flags, Alive, AnswerIsWhole
<1>6. CASE DeadlinePasses
      BY <1>6 DEF DeadlinePasses, parent, ProcessInv, Sizes, Flags, Alive, AnswerIsWhole
<1>7. CASE ChildStep
      BY <1>7, ChildInv
<1>8. CASE UNCHANGED processVars
      BY <1>8 DEF processVars, parent, ProcessInv, Sizes, Flags, Alive, AnswerIsWhole
<1> QED BY <1>1, <1>2, <1>3, <1>4, <1>5, <1>6, <1>7, <1>8 DEF ProcessNext, ParentStep

LEMMA NotBlocked == ProcessInv => NeverBothBlocked
BY RunProcessAssumption
   DEF ProcessInv, Sizes, Flags, NeverBothBlocked, Readable, Writable, ChildReady, Alive, Wants

-----------------------------------------------------------------------------
(* What becomes of the container, and of errors                            *)

Fresh == {"inspect", "open", "pin"}
Labels == Fresh \cup {"docker", "reinspect", "recheck", "remove", "observe", "verified", "failed"}
Made == {"there", "gone"}

Results == {"succeeded", "TIMEOUT", "VERIFICATION_FAILED", "CONNECTION_FAILED"}

Boxes ==
    /\ run \in Runs /\ vpc \in Labels
    /\ box \in [Runs -> {"none", "asked", "there", "gone"}]
    /\ \A r \in Runs : (r < run => box[r] = "gone") /\ (r > run => box[r] = "none")
    /\ (verdict # None /\ box[run] # "none") => box[run] \in Made
    /\ verdict \in Results \cup {None}

\* Clean-up is on: what is known then of the run
Ending ==
    /\ raised \notin {"succeeded", "VERIFICATION_FAILED", "CONNECTION_FAILED"} /\ box[run] # "none"
    /\ raised = None => /\ box[run] \in Made /\ outcome = "answer" /\ result \in Results
                        /\ prior \in {None, "TIMEOUT"}
                        /\ prior = "TIMEOUT" <=> result = "TIMEOUT"
    /\ raised \notin {None, "CREDENTIAL_ACCESS_DENIED"} => prior = raised
    /\ raised = "CREDENTIAL_ACCESS_DENIED" => outcome = "answer" /\ prior = None
    /\ outcome \in Uncertain => raised = outcome

Blank == prior = None /\ raised = None /\ result = None /\ removal = None

Tidy ==
    /\ Boxes
    /\ vpc \in Fresh => box[run] = "none" /\ Blank
    /\ vpc = "docker" => Blank
    /\ vpc \in {"reinspect", "recheck"} =>
          /\ box[run] \in Made /\ outcome = "answer"
          /\ prior = None /\ raised = None /\ result \in Results /\ removal = None
    /\ vpc \in {"remove", "observe"} => Ending
    /\ vpc = "remove" => removal = None
    /\ vpc = "observe" => removal \in CallErrors
    /\ FirstErrorOrCleanUp /\ LeftIsTold

LEMMA RunsAre == Runs = {1, 2, 3} /\ Len(Probes) = 3
BY DEF Runs, Probes

LEMMA InitTidy == Init => Tidy
<1> SUFFICES ASSUME Init PROVE Tidy
    OBVIOUS
<1> USE RunsAre, VerificationAssumption DEF Init
<1>1. Boxes
      BY DEF Boxes, Labels, Fresh
<1>2. FirstErrorOrCleanUp /\ LeftIsTold
      BY DEF FirstErrorOrCleanUp, LeftIsTold, Done
<1> QED BY <1>1, <1>2 DEF Tidy, Fresh, Blank

\* A run that ends before docker was asked for anything
LEMMA EarlyReturn ==
    ASSUME Tidy, vpc \in Fresh, NEW error \in Errors, Return(error),
           UNCHANGED <<box, verdict, outcome>>
    PROVE  Tidy'
<1> USE RunsAre, VerificationAssumption DEF Tidy
<1>1. /\ vpc' = "failed" /\ answer' = error
      /\ UNCHANGED <<run, pinned, prior, raised, result, removal>>
      BY DEF Return, Errors, CallErrors, WorkerErrors, Uncertain
<1>2. Boxes'
      BY <1>1 DEF Boxes, Labels
<1>3. FirstErrorOrCleanUp'
      BY <1>1 DEF FirstErrorOrCleanUp, Done, Blank, Errors, WorkerErrors
<1>4. LeftIsTold'
      BY <1>1 DEF LeftIsTold, Done, Boxes
<1> QED BY <1>1, <1>2, <1>3, <1>4 DEF Fresh

LEMMA CleanedStep ==
    ASSUME Tidy, vpc \in {"remove", "observe"},
           NEW error \in {None, "EXECUTOR_CLEANUP_FAILED"} \cup Uncertain, Cleaned(error),
           UNCHANGED <<verdict, outcome>>,
           box' \in [Runs -> {"none", "asked", "there", "gone"}],
           \A r \in Runs \ {run} : box'[r] = box[r],
           box'[run] = box[run] \/ (box[run] = "there" /\ box'[run] = "gone"),
           error = None => box'[run] # "there",
           IF vpc = "remove" THEN error = None
                             ELSE removal \in Uncertain => error = removal
    PROVE  Tidy'
<1> USE RunsAre, VerificationAssumption DEF Tidy
<1> DEFINE o == IF error # None /\ prior = None THEN error ELSE Outcome
<1>1. Return(o) /\ Ending /\ Boxes
      BY DEF Cleaned
<1>2. CASE o = "succeeded"
  <2>1. raised = None /\ result = "succeeded" /\ prior = None /\ error = None
        BY <1>1, <1>2 DEF Outcome, Ending, Uncertain
  <2>2. box'[run] = "gone"
        BY <1>1, <2>1 DEF Ending, Made
  <2>3. CASE run < 3
    <3>1. /\ vpc' = "inspect" /\ run' = run + 1 /\ pinned' = None
          /\ prior' = None /\ raised' = None /\ result' = None /\ removal' = None
          BY <1>1, <1>2, <2>3 DEF Return
    <3>2. Boxes'
          BY <1>1, <2>2, <2>3, <3>1 DEF Boxes, Labels, Fresh, Made
    <3>3. box'[run'] = "none"
          BY <1>1, <2>3, <3>1 DEF Boxes
    <3> QED BY <3>1, <3>2, <3>3 DEF Fresh, Blank, FirstErrorOrCleanUp, LeftIsTold, Done
  <2>4. CASE ~(run < 3)
    <3>1. /\ vpc' = "verified" /\ answer' = None
          /\ UNCHANGED <<run, pinned, prior, raised, result, removal>>
          BY <1>1, <1>2, <2>4 DEF Return
    <3>2. Boxes'
          BY <1>1, <2>2, <3>1 DEF Boxes, Labels, Made
    <3>3. LeftIsTold'
          BY <1>1, <2>2, <2>4, <3>1 DEF LeftIsTold, Boxes
    <3>4. FirstErrorOrCleanUp'
      <4>1. FirstError' = None /\ removal' \notin Uncertain
            BY <2>1, <3>1 DEF FirstError, Uncertain, CallErrors, Errors
      <4>2. outcome \notin Uncertain /\ None \notin Uncertain
            BY <1>1, <2>1 DEF Ending, Uncertain, CallErrors, Errors
      <4> QED BY <3>1, <4>1, <4>2 DEF FirstErrorOrCleanUp
    <3> QED BY <3>1, <3>2, <3>3, <3>4 DEF Fresh
  <2> QED BY <2>3, <2>4
<1>3. CASE o # "succeeded"
  <2>1. /\ vpc' = "failed" /\ answer' = o
        /\ UNCHANGED <<run, pinned, prior, raised, result, removal>>
        BY <1>1, <1>3 DEF Return
  <2>2. Boxes'
        BY <1>1, <2>1 DEF Boxes, Labels, Made
  <2>3. FirstErrorOrCleanUp'
    <3>0. /\ removal \in CallErrors \cup {None} /\ (removal \in Uncertain => error = removal)
          /\ (error # None => removal # None) /\ FirstError' = FirstError
          BY <1>1, <2>1 DEF FirstError, Uncertain, CallErrors, Errors
    <3>1. CASE prior # None
      <4>1. FirstError = prior /\ answer' = prior /\ prior \notin NotHeld
            BY <1>1, <2>1, <3>1 DEF Ending, Outcome, FirstError, NotHeld, Results
      <4>2. outcome \in Uncertain => prior = outcome
            BY <1>1, <3>1 DEF Ending, Uncertain
      <4> QED BY <3>0, <3>1, <4>1, <4>2 DEF FirstErrorOrCleanUp
    <3>2. CASE prior = None
      <4>1. FirstError \in NotHeld \cup {None} /\ outcome \notin Uncertain
            BY <1>1, <3>2 DEF Ending, FirstError, NotHeld, Results, Uncertain
      <4>2. answer' = error \/ (error = None /\ answer' = FirstError)
            BY <1>1, <1>3, <2>1, <3>2 DEF Outcome, FirstError
      <4>3. removal \in Uncertain => answer' = removal
            BY <2>1, <3>0, <3>2, <4>2 DEF Uncertain, Errors, CallErrors
      <4>4. \/ answer' = FirstError
            \/ removal # None /\ answer' \in Uncertain \cup {"EXECUTOR_CLEANUP_FAILED"}
            BY <1>3, <2>1, <3>0, <3>2, <4>2 DEF Outcome, FirstError
      <4> QED BY <2>1, <3>0, <4>1, <4>3, <4>4 DEF FirstErrorOrCleanUp
    <3> QED BY <3>1, <3>2
  <2>4. LeftIsTold'
    <3> SUFFICES ASSUME NEW r \in Runs, box'[r] \in {"asked", "there"}
                 PROVE  r = run /\ (raised # None \/ o \in Uncertain \cup {"EXECUTOR_CLEANUP_FAILED"})
        BY <2>1 DEF LeftIsTold
    <3>1. r = run
          BY <1>1 DEF Boxes
    <3>2. CASE raised = None
          BY <1>1, <3>1, <3>2 DEF Ending, Made, Outcome, Uncertain
    <3> QED BY <3>1, <3>2
  <2> QED BY <2>1, <2>2, <2>3, <2>4 DEF Fresh
<1> QED BY <1>2, <1>3

\* Steps of the executor between these
LEMMA ExecutorTidy == ProcessInv /\ Tidy /\ Executor => Tidy'
<1> SUFFICES ASSUME ProcessInv, Tidy, Executor PROVE Tidy'
    OBVIOUS
<1> USE RunsAre, VerificationAssumption
<1>0. Boxes /\ Snapshots \subseteq {None} \cup Errors
      BY DEF Tidy, Snapshots, Errors, CallErrors, Uncertain
<1>1. CASE Inspect
  <2>1. PICK error \in Snapshots :
           IF error = None
           THEN /\ vpc' = "open"
                /\ UNCHANGED <<run, pinned, prior, raised, result, removal, answer>>
           ELSE Return(error)
        BY <1>1 DEF Inspect
  <2>2. UNCHANGED <<box, verdict, outcome>> /\ vpc \in Fresh
        BY <1>1 DEF Inspect, Stay, processVars, parent, worker, Fresh
  <2>3. CASE error = None
        BY <1>0, <2>1, <2>2, <2>3
           DEF Tidy, Boxes, Labels, Fresh, Blank, FirstErrorOrCleanUp, LeftIsTold, Done
  <2>4. CASE error # None
        BY <1>0, <2>1, <2>2, <2>4, EarlyReturn
  <2> QED BY <2>3, <2>4
<1>2. CASE OpenDirectory
  <2>1. UNCHANGED <<box, verdict, outcome>> /\ vpc = "open" /\ vpc' = "pin"
        BY <1>2 DEF OpenDirectory, Stay, processVars, parent, worker
  <2> QED BY <1>0, <1>2, <2>1
          DEF OpenDirectory, Tidy, Boxes, Labels, Fresh, Blank, FirstErrorOrCleanUp, LeftIsTold, Done
<1>3. CASE Pin
  <2>1. UNCHANGED <<box, verdict, outcome>> /\ vpc = "pin"
        BY <1>3 DEF Pin, Stay, processVars, parent, worker
  <2>2. CASE Return("CREDENTIAL_ACCESS_DENIED")
        BY <2>1, <2>2, EarlyReturn DEF Fresh, Errors
  <2>3. CASE vpc' = "docker" /\ UNCHANGED <<run, prior, raised, result, removal, answer>>
        BY <1>0, <2>1, <2>3
           DEF Tidy, Boxes, Labels, Fresh, Blank, FirstErrorOrCleanUp, LeftIsTold, Done
  <2> QED BY <1>3, <2>2, <2>3 DEF Pin
<1>4. CASE StartDocker
  <2>1. /\ vpc = "docker" /\ vpc' = "docker" /\ verdict' = None
        /\ UNCHANGED <<run, prior, raised, result, removal, answer>>
        /\ \E b \in {"asked", "gone"} : box' = [box EXCEPT ![run] = b]
        BY <1>4 DEF StartDocker, executor
  <2> QED BY <1>0, <2>1
          DEF Tidy, Boxes, Labels, Fresh, Blank, FirstErrorOrCleanUp, LeftIsTold, Done
<1>5. CASE DockerReturns
  <2>1. /\ vpc = "docker" /\ box[run] # "none" /\ Blank
        /\ UNCHANGED <<box, verdict, outcome, run, answer, removal>>
        BY <1>5 DEF DockerReturns, DockerRuns, Stay, processVars, parent, worker, Tidy
  <2>2. CASE /\ outcome = "answer" /\ verdict # None
             /\ vpc' = "reinspect" /\ result' = verdict /\ UNCHANGED <<prior, raised>>
        BY <1>0, <2>1, <2>2
           DEF Tidy, Boxes, Labels, Fresh, Blank, FirstErrorOrCleanUp, LeftIsTold, Done
  <2>3. CASE outcome = "answer" /\ Fail("EXECUTOR_FAILED") /\ UNCHANGED result
        BY <1>0, <2>1, <2>3
           DEF Tidy, Boxes, Labels, Fresh, Blank, Ending, FirstErrorOrCleanUp, LeftIsTold, Done, Fail,
               Uncertain, Errors, CallErrors
  <2>4. CASE outcome # "answer" /\ Fail(outcome) /\ UNCHANGED result
    <3>1. outcome \in CallErrors
          BY <1>5, <2>4 DEF DockerReturns, ProcessInv, Sizes, CallErrors, Uncertain
    <3> QED BY <1>0, <2>1, <2>4, <3>1
            DEF Tidy, Boxes, Labels, Fresh, Blank, Ending, FirstErrorOrCleanUp, LeftIsTold, Done, Fail,
                Uncertain, Errors, CallErrors
  <2> QED BY <1>5, <2>2, <2>3, <2>4 DEF DockerReturns
<1>6. CASE Reinspect
  <2>1. PICK error \in Snapshots :
           IF error = None THEN vpc' = "recheck" /\ UNCHANGED <<prior, raised>> ELSE Fail(error)
        BY <1>6 DEF Reinspect
  <2>2. vpc = "reinspect" /\ UNCHANGED <<box, verdict, outcome, run, result, answer, removal>>
        BY <1>6 DEF Reinspect, Stay, processVars, parent, worker
  <2>3. CASE error = None
        BY <1>0, <2>1, <2>2, <2>3
           DEF Tidy, Boxes, Labels, Fresh, Blank, FirstErrorOrCleanUp, LeftIsTold, Done
  <2>4. CASE error # None
    <3>1. error \in {"TARGET_MISMATCH", "INTERRUPTED"}
          BY <2>4 DEF Snapshots
    <3> QED BY <1>0, <2>1, <2>2, <2>4, <3>1
            DEF Tidy, Boxes, Labels, Fresh, Blank, Ending, FirstErrorOrCleanUp, LeftIsTold, Done, Fail,
                Uncertain, Errors, CallErrors, Made
  <2> QED BY <2>3, <2>4
<1>7. CASE Recheck
  <2>1. /\ vpc = "recheck" /\ vpc' = "remove"
        /\ UNCHANGED <<box, verdict, outcome, run, result, answer, removal>>
        /\ \/ prior' = (IF result = "TIMEOUT" THEN "TIMEOUT" ELSE prior) /\ raised' = raised
           \/ prior' = "TARGET_DRIFT" /\ raised' = "TARGET_DRIFT"
           \/ raised' = "CREDENTIAL_ACCESS_DENIED" /\ prior' = prior
        BY <1>7 DEF Recheck, Stay, processVars, parent, worker
  <2>2. Boxes' /\ removal' = None
        BY <1>0, <2>1 DEF Tidy, Boxes, Labels, Fresh
  <2>3. Ending'
    <3>1. /\ box'[run'] \in Made /\ box'[run'] # "none" /\ outcome' = "answer"
          /\ result' \in Results /\ prior = None /\ raised = None
          BY <2>1 DEF Tidy, Made
    <3>2. None \notin Results \cup {"TARGET_DRIFT", "CREDENTIAL_ACCESS_DENIED"}
          BY DEF Errors, CallErrors, WorkerErrors, Uncertain, Results
    <3>3. CASE raised' = raised /\ prior' = (IF result = "TIMEOUT" THEN "TIMEOUT" ELSE prior)
          BY <2>1, <3>1, <3>2, <3>3 DEF Ending, Uncertain, Results
    <3>4. CASE prior' = "TARGET_DRIFT" /\ raised' = "TARGET_DRIFT"
          BY <2>1, <3>1, <3>2, <3>4 DEF Ending, Uncertain
    <3>5. CASE raised' = "CREDENTIAL_ACCESS_DENIED" /\ prior' = prior
          BY <2>1, <3>1, <3>2, <3>5 DEF Ending, Uncertain
    <3> QED BY <2>1, <3>3, <3>4, <3>5
  <2> QED BY <2>1, <2>2, <2>3 DEF Tidy, Fresh, FirstErrorOrCleanUp, LeftIsTold, Done
<1>8. CASE Remove
  <2>1. PICK error \in CallErrors \cup {None}, done \in BOOLEAN :
          /\ error = None => done
          /\ box' = IF done /\ box[run] = "there" THEN [box EXCEPT ![run] = "gone"] ELSE box
          /\ IF error = None
             THEN Cleaned(None)
             ELSE /\ vpc' = "observe" /\ removal' = error
                  /\ UNCHANGED <<run, pinned, prior, raised, result, answer>>
        BY <1>8 DEF Remove
  <2>2. vpc = "remove" /\ UNCHANGED <<verdict, outcome>>
        BY <1>8 DEF Remove, processVars, parent, worker
  <2>3. /\ box' \in [Runs -> {"none", "asked", "there", "gone"}]
        /\ \A r \in Runs \ {run} : box'[r] = box[r]
        /\ box'[run] = box[run] \/ (box[run] = "there" /\ box'[run] = "gone")
        /\ error = None => box'[run] # "there"
        BY <1>0, <2>1 DEF Boxes
  <2>4. CASE error = None
        BY <2>1, <2>2, <2>3, <2>4, CleanedStep
  <2>5. CASE error # None
    <3>1. /\ vpc' = "observe" /\ removal' \in CallErrors
          /\ UNCHANGED <<run, pinned, prior, raised, result, answer>>
          BY <2>1, <2>5
    <3>2. Boxes'
          BY <1>0, <2>2, <2>3, <3>1 DEF Boxes, Labels, Made
    <3>3. Ending'
          BY <2>2, <2>3, <3>1 DEF Tidy, Ending, Made
    <3> QED BY <3>1, <3>2, <3>3 DEF Tidy, Fresh, FirstErrorOrCleanUp, LeftIsTold, Done
  <2> QED BY <2>4, <2>5
<1>9. CASE Observe
  <2> DEFINE error(o) == IF removal \in Uncertain THEN removal
                         ELSE IF o \in Uncertain \cup {None} THEN o
                         ELSE "EXECUTOR_CLEANUP_FAILED"
  <2>1. PICK observed \in CallErrors \cup {IF box[run] = "there" THEN "remaining" ELSE None} :
          Cleaned(error(observed))
        BY <1>9 DEF Observe
  <2>2. vpc = "observe" /\ UNCHANGED <<box, verdict, outcome>>
        BY <1>9 DEF Observe, Stay, processVars, parent, worker
  <2>3. /\ error(observed) \in {None, "EXECUTOR_CLEANUP_FAILED"} \cup Uncertain
        /\ error(observed) = None => box[run] # "there"
        /\ removal \in Uncertain => error(observed) = removal
        BY <2>1, VerificationAssumption DEF Uncertain, CallErrors, Errors
  <2> HIDE DEF error
  <2> QED BY <1>0, <2>1, <2>2, <2>3, CleanedStep DEF Boxes
<1> QED BY <1>1, <1>2, <1>3, <1>4, <1>5, <1>6, <1>7, <1>8, <1>9 DEF Executor

\* A step that leaves the executor alone, and the outcome unless docker runs.
LEMMA OtherTidy ==
    ASSUME Tidy, UNCHANGED executor, vpc # "docker" => UNCHANGED outcome, Boxes',
           box[run] = "none" <=> box'[run] = "none",
           \A r \in Runs : box'[r] \in {"asked", "there"} => box[r] \in {"asked", "there"},
           box[run] \in Made => box'[run] \in Made
    PROVE  Tidy'
<1> USE RunsAre DEF Tidy, executor
<1>1. FirstErrorOrCleanUp'
  <2>1. CASE Done
    <3>1. /\ UNCHANGED <<outcome, answer, removal, run, FirstError>>
          /\ box'[run'] # "none" <=> box[run] # "none"
          BY <2>1 DEF Done, FirstError
    <3> QED BY <2>1, <3>1 DEF Done, FirstErrorOrCleanUp
  <2>2. CASE ~Done
        BY <2>2 DEF Done, FirstErrorOrCleanUp
  <2> QED BY <2>1, <2>2
<1>2. LeftIsTold'
      BY DEF LeftIsTold, Done, Boxes
<1>3. vpc \in Fresh \cup {"docker"} => Blank' /\ (vpc \in Fresh => box'[run'] = "none")
      BY DEF Blank, Fresh
<1>4. vpc \in {"remove", "observe"} => Ending'
      BY DEF Ending, Boxes
<1> QED BY <1>1, <1>2, <1>3, <1>4 DEF Fresh

LEMMA OthersTidy ==
    ASSUME Tidy, Next, ~Executor
    PROVE  Tidy'
<1> USE RunsAre
<1>0. Boxes
      BY DEF Tidy
<1>1. CASE CallStep \/ CallInterrupt \/ Clock \/ Client
  <2>1. UNCHANGED <<executor, box, verdict>> /\ vpc = "docker"
        BY <1>1 DEF CallStep, CallInterrupt, Clock, Client, DockerRuns, worker
  <2> QED BY <1>0, <2>1, OtherTidy DEF Boxes, executor
<1>2. CASE \E r \in Runs : Create(r)
  <2>1. PICK r \in Runs : Create(r)
        BY <1>2
  <2>2. /\ UNCHANGED executor /\ UNCHANGED <<outcome, verdict>>
        /\ box[r] = "asked" /\ box' = [box EXCEPT ![r] = "there"]
        BY <2>1 DEF Create, processVars, parent, worker
  <2>3. r = run
        BY <1>0, <2>2 DEF Boxes
  <2>4. Boxes'
        BY <1>0, <2>2, <2>3 DEF Boxes, executor, Made
  <2> QED BY <1>0, <2>2, <2>3, <2>4, OtherTidy DEF Boxes, Made
<1>3. CASE Reap
  <2>1. /\ UNCHANGED executor /\ UNCHANGED <<outcome, verdict>>
        /\ box[run] = "there" /\ box' = [box EXCEPT ![run] = "gone"]
        BY <1>3 DEF Reap, processVars, parent, worker
  <2>2. Boxes'
        BY <1>0, <2>1 DEF Boxes, executor, Made
  <2> QED BY <1>0, <2>1, <2>2, OtherTidy DEF Boxes, Made
<1>4. CASE ProbePasses \/ ProbeFails
  <2>1. UNCHANGED executor /\ UNCHANGED <<outcome, box>> /\ box[run] = "there"
        BY <1>4 DEF ProbePasses, ProbeFails, WorkerRuns, processVars, parent
  <2>2. verdict' \in Results \cup {None}
        BY <1>4 DEF ProbePasses, ProbeFails, Results
  <2>3. Boxes'
        BY <1>0, <2>1, <2>2 DEF Boxes, executor, Made
  <2> QED BY <2>1, <2>3, OtherTidy
<1>5. CASE Restart \/ ServerFlips \/ PolicyLoads \/ Edit \/ Swap
  <2>1. UNCHANGED executor /\ UNCHANGED <<outcome, box, verdict>>
        BY <1>5 DEF Restart, ServerFlips, PolicyLoads, Edit, Swap, Change, processVars, parent, worker
  <2> QED BY <1>0, <2>1, OtherTidy DEF Boxes, executor
<1> QED BY <1>1, <1>2, <1>3, <1>4, <1>5 DEF Next

LEMMA NextIsProcessStep == Next => [ProcessNext]_processVars
<1> SUFFICES ASSUME Next PROVE [ProcessNext]_processVars
    OBVIOUS
<1>1. CASE Executor
      BY <1>1 DEF Executor, Inspect, OpenDirectory, Pin, StartDocker, DockerReturns, Reinspect,
                  Recheck, Remove, Observe, Stay, ProcessNext
<1>2. CASE CallStep \/ CallInterrupt \/ Clock \/ Client
      BY <1>2 DEF CallStep, CallInterrupt, Clock, Client, ProcessNext
<1>3. CASE (\E r \in Runs : Create(r)) \/ Reap \/ ProbePasses \/ ProbeFails
      BY <1>3 DEF Create, Reap, ProbePasses, ProbeFails
<1>4. CASE Restart \/ ServerFlips \/ PolicyLoads \/ Edit \/ Swap
      BY <1>4 DEF Restart, ServerFlips, PolicyLoads, Edit, Swap, Change
<1> QED BY <1>1, <1>2, <1>3, <1>4 DEF Next

IInv == ProcessInv /\ Tidy

LEMMA SpecIInv == Spec => []IInv
<1>1. Init => IInv
      BY ProcessInit0, InitTidy DEF Init, IInv
<1>2. IInv /\ [Next]_vars => IInv'
  <2> SUFFICES ASSUME IInv, [Next]_vars PROVE IInv'
      OBVIOUS
  <2>1. CASE Next
    <3>1. ProcessInv'
          BY <2>1, NextIsProcessStep, ProcessStepInv DEF IInv
    <3>2. Tidy'
          BY <2>1, ExecutorTidy, OthersTidy DEF IInv
    <3> QED BY <3>1, <3>2 DEF IInv
  <2>2. CASE UNCHANGED vars
    <3>1. UNCHANGED processVars /\ UNCHANGED <<executor, box, verdict, outcome>>
          BY <2>2 DEF vars, processVars, parent, worker
    <3>2. ProcessInv'
          BY <3>1, ProcessStepInv DEF IInv
    <3>3. Tidy'
          BY <3>1, OtherTidy DEF IInv, Tidy, Boxes, executor
    <3> QED BY <3>2, <3>3 DEF IInv
  <2> QED BY <2>1, <2>2
<1> QED BY <1>1, <1>2, PTL DEF Spec

\* For every number of changes of the world, every size and every fault: what is
\* reported is the first error of the run, unless prior_error does not hold it and
\* the removal of the container has failed; a removal whose end is uncertain is
\* then reported, whatever docker ps has seen (run_verification, 349-363, and
\* cleanup_container).
THEOREM FirstErrorOrCleanUpTheorem == Spec => []FirstErrorOrCleanUp
<1>1. IInv => FirstErrorOrCleanUp
      BY DEF IInv, Tidy
<1> QED BY <1>1, SpecIInv, PTL

\* A verdict that leaves nothing uncertain is told only when the container of
\* the run is gone (cleanup_container: rm, then ps).
THEOREM LeftIsToldTheorem == Spec => []LeftIsTold
<1>1. IInv => LeftIsTold
      BY DEF IInv, Tidy
<1> QED BY <1>1, SpecIInv, PTL

\* The call of docker run never blocks on its pipes, in any of the runs.
THEOREM NeverBothBlockedTheorem == Spec => []NeverBothBlocked
<1>1. IInv => NeverBothBlocked
      BY NotBlocked DEF IInv
<1> QED BY <1>1, SpecIInv, PTL

\* What docker run is said to have answered is all the client wrote.
THEOREM AnswerIsWholeTheorem == Spec => []AnswerIsWhole
<1>1. IInv => AnswerIsWhole
      BY DEF IInv, ProcessInv
<1> QED BY <1>1, SpecIInv, PTL

-----------------------------------------------------------------------------
(* What a success is about                                                 *)

\* What world is, without the bounds of the model checker
WorldOK ==
    /\ world = [path |-> world.path, revs |-> world.revs, start |-> world.start,
                ready |-> world.ready, policy |-> world.policy, changes |-> world.changes]
    /\ world.path \in Dirs /\ world.revs \in [Dirs -> Nat] /\ world.start \in Nat

Held == {"docker", "reinspect", "recheck"}
Pinned ==
    /\ pinned = [dir |-> pinned.dir, rev |-> pinned.rev]
    /\ pinned.dir \in Dirs
    /\ pinned.rev \in Nat /\ pinned.rev <= world.revs[pinned.dir]

\* A sight is of the directory the container was given, at a revision since it
\* was pinned, and of a start of the target until now.
Sighted(s) ==
    /\ s = [dir |-> mount, rev |-> s.rev, start |-> s.start, ready |-> TRUE]
    /\ s.rev \in Nat /\ s.start \in Nat /\ s.start <= world.start
    /\ mount = pinned.dir => pinned.rev <= s.rev /\ s.rev <= world.revs[pinned.dir]

\* Another directory can be at the path only now, or has left a new revision.
Watched ==
    /\ mount \in Dirs \cup {None}
    /\ box[run] = "asked" => mount = None /\ saw = {}
    /\ (mount # pinned.dir /\ mount # None) =>
          world.path # pinned.dir \/ world.revs[pinned.dir] > pinned.rev
    /\ box[run] = "there" => mount \in Dirs
    /\ saw # {} => mount \in Dirs
    /\ \A s \in saw : Sighted(s)

SightsPinned ==
    \A s \in saw : s = [dir |-> pinned.dir, rev |-> pinned.rev, start |-> 0, ready |-> TRUE]

Watch ==
    /\ WorldOK
    /\ vpc = "pin" => pinned = [dir |-> pinned.dir, rev |-> pinned.rev] /\ pinned.dir \in Dirs
    /\ vpc \in Held => Pinned
    /\ (vpc \in Held /\ box[run] # "none") => Watched
    /\ vpc = "recheck" => \A s \in saw : s.start = 0
    /\ (vpc \in {"remove", "observe"} /\ raised = None /\ result = "succeeded") => SightsPinned

LEMMA InitWatch == Init => Watch
BY RunsAre DEF Init, Watch, WorldOK, Dirs, Held

LEMMA ExecutorWatch == ProcessInv /\ Tidy /\ Watch /\ Executor => Watch'
<1> SUFFICES ASSUME ProcessInv, Tidy, Watch, Executor PROVE Watch'
    OBVIOUS
<1> USE RunsAre, VerificationAssumption
<1>0. Boxes /\ WorldOK
      BY DEF Tidy, Watch
<1>1. CASE Inspect \/ Remove \/ Observe
  <2>1. /\ UNCHANGED <<saw, world>> /\ vpc \in {"inspect", "remove", "observe"}
        /\ vpc' \notin {"pin", "docker", "reinspect", "recheck"}
        /\ vpc' \in {"remove", "observe"} =>
              vpc \in {"remove", "observe"} /\ UNCHANGED <<pinned, raised, result>>
        BY <1>1 DEF Inspect, Remove, Observe, Cleaned, Return, Stay, worker
  <2> QED BY <1>0, <2>1 DEF Watch, WorldOK, Held, SightsPinned
<1>2. CASE OpenDirectory
  <2>1. /\ UNCHANGED world /\ vpc' = "pin" /\ pinned' = [dir |-> world.path, rev |-> 0]
        BY <1>2 DEF OpenDirectory, Stay
  <2> QED BY <1>0, <2>1 DEF Watch, WorldOK, Held
<1>3. CASE Pin
  <2>1. UNCHANGED <<world, box>> /\ vpc = "pin"
        BY <1>3 DEF Pin, Stay
  <2>2. CASE Return("CREDENTIAL_ACCESS_DENIED")
    <3>1. vpc' = "failed"
          BY <2>2 DEF Return
    <3> QED BY <1>0, <2>1, <3>1 DEF Watch, WorldOK, Held
  <2>3. CASE /\ vpc' = "docker" /\ pinned' = [pinned EXCEPT !.rev = world.revs[pinned.dir]]
             /\ run' = run
    <3>1. pinned = [dir |-> pinned.dir, rev |-> pinned.rev] /\ pinned.dir \in Dirs
          BY <2>1 DEF Watch
    <3>2. pinned' = [dir |-> pinned.dir, rev |-> world.revs[pinned.dir]]
          BY <2>3, <3>1
    <3>3. world.revs[pinned.dir] \in Nat
          BY <1>0, <3>1 DEF WorldOK
    <3>4. box[run] = "none"
          BY <2>1 DEF Tidy, Fresh
    <3> QED BY <1>0, <2>1, <2>3, <3>1, <3>2, <3>3, <3>4 DEF Watch, WorldOK, Held, Pinned
  <2> QED BY <1>3, <2>2, <2>3 DEF Pin
<1>4. CASE StartDocker
  <2>1. /\ vpc = "docker" /\ UNCHANGED <<vpc, run, pinned, world>> /\ mount' = None /\ saw' = {}
        /\ \E b \in {"asked", "gone"} : box' = [box EXCEPT ![run] = b]
        BY <1>4 DEF StartDocker, executor
  <2>2. Watched'
        BY <1>0, <2>1 DEF Watched, Boxes
  <2> QED BY <1>0, <2>1, <2>2 DEF Watch, WorldOK, Held, Pinned
<1>5. CASE DockerReturns
  <2>1. /\ vpc = "docker" /\ box[run] # "none" /\ outcome # None
        /\ UNCHANGED <<run, pinned, world, mount, saw, box>>
        BY <1>5 DEF DockerReturns, DockerRuns, Stay, worker, ProcessInv
  <2>2. \/ vpc' = "reinspect"
        \/ vpc' = "remove" /\ raised' # None
    <3>1. "EXECUTOR_FAILED" # None
          BY DEF Errors, CallErrors
    <3> QED BY <1>5, <2>1, <3>1 DEF DockerReturns, Fail
  <2> QED BY <1>0, <2>1, <2>2 DEF Watch, WorldOK, Held, Pinned, Watched, Sighted
<1>6. CASE Reinspect
  <2>1. PICK error \in Snapshots :
           IF error = None THEN vpc' = "recheck" /\ UNCHANGED <<prior, raised>> ELSE Fail(error)
        BY <1>6 DEF Reinspect
  <2>2. vpc = "reinspect" /\ box[run] # "none"
        BY <1>6 DEF Reinspect, Tidy, Made
  <2>3. UNCHANGED <<run, pinned, world, mount, saw, box>>
        BY <1>6 DEF Reinspect, Stay, worker
  <2>4. CASE error = None
    <3>1. world.start = 0
          BY <2>1, <2>4 DEF Snapshots, Errors, CallErrors, Uncertain
    <3>2. \A s \in saw : s.start = 0
          BY <1>0, <2>2, <3>1 DEF Watch, Held, Watched, Sighted, WorldOK
    <3> QED BY <1>0, <2>1, <2>2, <2>3, <2>4, <3>2
            DEF Watch, WorldOK, Held, Pinned, Watched, Sighted
  <2>5. CASE error # None
    <3>1. vpc' = "remove" /\ raised' # None
          BY <2>1, <2>5 DEF Fail
    <3> QED BY <1>0, <2>2, <2>3, <3>1 DEF Watch, WorldOK, Held
  <2> QED BY <2>4, <2>5
<1>7. CASE Recheck
  <2>1. vpc = "recheck" /\ vpc' = "remove" /\ UNCHANGED <<run, pinned, world, saw, result>>
        BY <1>7 DEF Recheck, Stay, worker
  <2>2. CASE raised' # None
        BY <1>0, <2>1, <2>2 DEF Watch, WorldOK, Held
  <2>3. CASE raised' = None
    <3>1. world.path = pinned.dir /\ world.revs[pinned.dir] = pinned.rev
          BY <1>7, <2>3 DEF Recheck, Errors
    <3>2. /\ Pinned /\ Watched
          /\ \A s \in saw : s.start = 0
          BY <2>1 DEF Watch, Held, Tidy, Made
    <3>3. ASSUME NEW s \in saw
          PROVE  s = [dir |-> pinned.dir, rev |-> pinned.rev, start |-> 0, ready |-> TRUE]
      <4>1. mount = pinned.dir
            BY <3>1, <3>2 DEF Watched, Pinned, Dirs
      <4>2. /\ s = [dir |-> mount, rev |-> s.rev, start |-> s.start, ready |-> TRUE]
            /\ s.rev \in Nat /\ pinned.rev <= s.rev /\ s.rev <= world.revs[pinned.dir]
            BY <3>2, <4>1 DEF Watched, Sighted
      <4>3. s.rev = pinned.rev /\ s.start = 0
            BY <3>1, <3>2, <4>2 DEF Pinned
      <4> QED BY <4>1, <4>2, <4>3
    <3> QED BY <1>0, <2>1, <3>3 DEF Watch, WorldOK, Held, SightsPinned
  <2> QED BY <2>2, <2>3
<1> QED BY <1>1, <1>2, <1>3, <1>4, <1>5, <1>6, <1>7 DEF Executor

\* What the world may do: revisions and starts go up, and a swap leaves a mark.
LEMMA ChangeOK ==
    ASSUME WorldOK, Restart \/ ServerFlips \/ PolicyLoads \/ Edit \/ Swap
    PROVE  /\ WorldOK' /\ world.start <= world'.start
           /\ \A d \in Dirs : world.revs[d] <= world'.revs[d]
           /\ world'.path # world.path => world.revs[world'.path] < world'.revs[world'.path]
<1> USE DEF WorldOK
<1>1. CASE Restart \/ ServerFlips \/ PolicyLoads
  <2>1. /\ world' = [path |-> world'.path, revs |-> world'.revs, start |-> world'.start,
                      ready |-> world'.ready, policy |-> world'.policy, changes |-> world'.changes]
        /\ world'.path = world.path /\ world'.revs = world.revs
        /\ world'.start \in {world.start, world.start + 1}
        BY <1>1 DEF Restart, ServerFlips, PolicyLoads, Change
  <2> QED BY <2>1
<1>2. CASE Edit
  <2>1. /\ world' = [path |-> world.path, revs |-> [world.revs EXCEPT ![world.path] = @ + 1],
                      start |-> world.start, ready |-> world.ready,
                      policy |-> world.policy, changes |-> world.changes + 1]
        BY <1>2 DEF Edit, Change
  <2> QED BY <2>1
<1>3. CASE Swap
  <2>1. world' = [path |-> 3 - world.path,
                  revs |-> [world.revs EXCEPT ![3 - world.path] = world.revs[3 - world.path] + 1],
                  start |-> world.start, ready |-> world.ready,
                  policy |-> world.policy, changes |-> world.changes + 1]
        BY <1>3 DEF Swap, Change
  <2>2. 3 - world.path \in Dirs
        BY DEF Dirs
  <2> QED BY <2>1, <2>2
<1> QED BY <1>1, <1>2, <1>3

LEMMA OthersWatch == Tidy /\ Watch /\ Next /\ ~Executor => Watch'
<1> SUFFICES ASSUME Tidy, Watch, Next, ~Executor PROVE Watch'
    OBVIOUS
<1> USE RunsAre, VerificationAssumption
<1>0. Boxes /\ WorldOK
      BY DEF Tidy, Watch
<1>1. CASE CallStep \/ CallInterrupt \/ Clock \/ Client
  <2>1. UNCHANGED <<executor, saw, box, mount, world>>
        BY <1>1 DEF CallStep, CallInterrupt, Clock, Client, worker
  <2> QED BY <1>0, <2>1 DEF Watch, WorldOK, Held, Pinned, Watched, Sighted, SightsPinned, executor
<1>2. CASE \E r \in Runs : Create(r)
  <2>1. PICK r \in Runs : Create(r)
        BY <1>2
  <2>2. /\ UNCHANGED executor /\ UNCHANGED <<saw, world>>
        /\ box[r] = "asked" /\ box' = [box EXCEPT ![r] = "there"]
        /\ mount' = IF r = run THEN world.path ELSE mount
        BY <2>1 DEF Create, worker
  <2>3. r = run
        BY <1>0, <2>2 DEF Boxes
  <2>4. (vpc \in Held /\ box[run] # "none") => Watched'
        BY <1>0, <2>2, <2>3 DEF Watch, Watched, WorldOK, Boxes, executor, Dirs
  <2> QED BY <1>0, <2>2, <2>3, <2>4
          DEF Watch, WorldOK, Held, Pinned, SightsPinned, executor, Boxes
<1>3. CASE Reap
  <2>1. /\ UNCHANGED executor /\ UNCHANGED <<saw, world, mount>>
        /\ box[run] = "there" /\ box' = [box EXCEPT ![run] = "gone"]
        BY <1>3 DEF Reap, worker
  <2>2. (vpc \in Held /\ box[run] # "none") => Watched'
        BY <1>0, <2>1 DEF Watch, Watched, Sighted, Boxes, executor
  <2> QED BY <1>0, <2>1, <2>2 DEF Watch, WorldOK, Held, Pinned, SightsPinned, executor, Boxes
<1>4. CASE ProbePasses
  <2>1. /\ UNCHANGED executor /\ UNCHANGED <<world, mount, box>>
        /\ vpc = "docker" /\ box[run] = "there" /\ saw' = saw \cup {Sight}
        /\ world.ready = TRUE
    <3>1. world.ready = TRUE
      <4>1. world.ready
            BY <1>4 DEF ProbePasses, AsItShould, LetIn
      <4> QED BY <4>1, <1>4 DEF ProbePasses
    <3> QED BY <1>4, <3>1 DEF ProbePasses, WorkerRuns, DockerRuns
  <2>2. Pinned /\ Watched /\ mount \in Dirs
        BY <2>1 DEF Watch, Held, Watched
  <2>3. Sighted(Sight)
    <3>1. Sight = [dir |-> mount, rev |-> world.revs[mount], start |-> world.start, ready |-> TRUE]
          BY <2>1 DEF Sight
    <3> QED BY <1>0, <2>2, <3>1 DEF Sighted, Pinned, WorldOK
  <2>4. Watched'
        BY <2>1, <2>2, <2>3 DEF Watched, Sighted, executor
  <2> QED BY <1>0, <2>1, <2>2, <2>4 DEF Watch, WorldOK, Held, Pinned, executor
<1>5. CASE ProbeFails
  <2>1. UNCHANGED <<executor, saw, box, mount, world>>
        BY <1>5 DEF ProbeFails
  <2> QED BY <1>0, <2>1 DEF Watch, WorldOK, Held, Pinned, Watched, Sighted, SightsPinned, executor
<1>6. CASE Restart \/ ServerFlips \/ PolicyLoads \/ Edit \/ Swap
  <2>1. UNCHANGED <<executor, saw, box, mount>>
        BY <1>6 DEF Restart, ServerFlips, PolicyLoads, Edit, Swap, Change, worker
  <2>2. WorldOK' /\ world.start <= world'.start
        BY <1>0, <1>6, ChangeOK
  <2>3. \A d \in Dirs : world.revs[d] <= world'.revs[d]
        BY <1>0, <1>6, ChangeOK
  <2>4. world'.path # world.path => world.revs[world'.path] < world'.revs[world'.path]
        BY <1>0, <1>6, ChangeOK
  <2>5. Pinned => Pinned'
        BY <1>0, <2>1, <2>2, <2>3 DEF Pinned, WorldOK, executor
  <2>6. Pinned /\ Watched => Watched'
    <3> SUFFICES ASSUME Pinned, Watched PROVE Watched'
        OBVIOUS
    <3>1. \A s \in saw : Sighted(s)'
          BY <1>0, <2>1, <2>2, <2>3 DEF Watched, Sighted, WorldOK, Pinned, executor
    <3>2. (mount # pinned.dir /\ mount # None) =>
             world'.path # pinned.dir \/ world'.revs[pinned.dir] > pinned.rev
          BY <1>0, <2>1, <2>2, <2>3, <2>4 DEF Watched, WorldOK, Pinned
    <3> QED BY <2>1, <3>1, <3>2 DEF Watched, executor
  <2> QED BY <1>0, <2>1, <2>2, <2>5, <2>6 DEF Watch, Held, SightsPinned, executor
<1> QED BY <1>1, <1>2, <1>3, <1>4, <1>5, <1>6 DEF Next

\* The probes passed when the first r runs have succeeded
Through(r) ==
    CASE r = 0 -> <<>>
      [] r = 1 -> <<"cert">>
      [] r = 2 -> <<"cert", "nocert", "plain">>
      [] r = 3 -> <<"cert", "nocert", "plain", "cert">>

Ordered ==
    /\ (vpc \in Fresh \/ (vpc = "docker" /\ box[run] = "none")) => passed = Through(run - 1)
    /\ (vpc = "docker" /\ box[run] # "none") =>
          /\ verdict = None =>
                passed = Through(run - 1) \/ (run = 2 /\ passed = <<"cert", "nocert">>)
          /\ verdict = "succeeded" => passed = Through(run)
    /\ (vpc \in {"reinspect", "recheck", "remove", "observe"} /\ result = "succeeded") =>
          passed = Through(run)
    /\ vpc = "verified" => passed = Through(3)

LEMMA InitOrdered == Init => Ordered
BY RunsAre DEF Init, Ordered, Fresh, Through

LEMMA CleanedOrdered ==
    ASSUME Tidy, Ordered, vpc \in {"remove", "observe"},
           NEW error \in {None, "EXECUTOR_CLEANUP_FAILED"} \cup Uncertain, Cleaned(error),
           UNCHANGED passed
    PROVE  Ordered'
<1> USE RunsAre, VerificationAssumption
<1> DEFINE o == IF error # None /\ prior = None THEN error ELSE Outcome
<1>1. Return(o) /\ Ending /\ Boxes
      BY DEF Cleaned, Tidy
<1>2. CASE o = "succeeded"
  <2>1. result = "succeeded"
        BY <1>1, <1>2 DEF Outcome, Ending, Uncertain
  <2>2. passed' = Through(run)
        BY <2>1 DEF Ordered
  <2>3. CASE run < 3
    <3>1. vpc' = "inspect" /\ run' = run + 1 /\ run \in Nat
          BY <1>1, <1>2, <2>3 DEF Return, Boxes
    <3> QED BY <2>2, <3>1 DEF Ordered, Fresh
  <2>4. CASE ~(run < 3)
    <3>1. vpc' = "verified" /\ run = 3
          BY <1>1, <1>2, <2>4 DEF Return, Boxes
    <3> QED BY <2>2, <3>1 DEF Ordered, Fresh
  <2> QED BY <2>3, <2>4
<1>3. CASE o # "succeeded"
  <2>1. vpc' = "failed"
        BY <1>1, <1>3 DEF Return
  <2> QED BY <2>1 DEF Ordered, Fresh
<1> QED BY <1>2, <1>3

LEMMA ExecutorOrdered == ProcessInv /\ Tidy /\ Ordered /\ Executor => Ordered'
<1> SUFFICES ASSUME ProcessInv, Tidy, Ordered, Executor PROVE Ordered'
    OBVIOUS
<1> USE RunsAre, VerificationAssumption
<1>0. Boxes
      BY DEF Tidy
<1>1. CASE Inspect \/ OpenDirectory \/ Pin
  <2>1. /\ UNCHANGED <<passed, box>> /\ vpc \in Fresh
        /\ \/ vpc' \in {"open", "pin", "docker"} /\ UNCHANGED run
           \/ vpc' = "failed"
        BY <1>1 DEF Inspect, OpenDirectory, Pin, Return, Snapshots, Stay, worker, Fresh
  <2>2. box[run] = "none"
        BY <2>1 DEF Tidy
  <2> QED BY <2>1, <2>2 DEF Ordered, Fresh
<1>2. CASE StartDocker
  <2>1. /\ vpc = "docker" /\ box[run] = "none" /\ verdict' = None
        /\ UNCHANGED <<vpc, run, passed>>
        BY <1>2 DEF StartDocker, executor
  <2>2. box'[run] # "none"
        BY <1>0, <1>2 DEF StartDocker, Boxes
  <2> QED BY <2>1, <2>2 DEF Ordered, Fresh
<1>3. CASE DockerReturns
  <2>1. /\ vpc = "docker" /\ box[run] # "none" /\ Blank
        /\ UNCHANGED <<run, passed>>
        BY <1>3 DEF DockerReturns, DockerRuns, Stay, worker, Tidy
  <2>2. \/ vpc' = "reinspect" /\ result' = verdict
        \/ vpc' = "remove" /\ result' = None
        BY <1>3, <2>1 DEF DockerReturns, Fail, Blank
  <2> QED BY <2>1, <2>2 DEF Ordered, Fresh
<1>4. CASE Reinspect \/ Recheck
  <2>1. /\ vpc \in {"reinspect", "recheck"} /\ vpc' \in {"recheck", "remove"}
        /\ UNCHANGED <<run, passed, result>>
        BY <1>4 DEF Reinspect, Recheck, Fail, Stay, worker
  <2> QED BY <2>1 DEF Ordered, Fresh
<1>5. CASE Remove
  <2>1. PICK error \in CallErrors \cup {None} :
           IF error = None
           THEN Cleaned(None)
           ELSE vpc' = "observe" /\ UNCHANGED <<run, result>>
        BY <1>5 DEF Remove
  <2>2. vpc = "remove" /\ UNCHANGED passed
        BY <1>5 DEF Remove, worker
  <2>3. CASE error = None
        BY <2>1, <2>2, <2>3, CleanedOrdered
  <2>4. CASE error # None
        BY <2>1, <2>2, <2>4 DEF Ordered, Fresh
  <2> QED BY <2>3, <2>4
<1>6. CASE Observe
  <2>1. PICK error \in {None, "EXECUTOR_CLEANUP_FAILED"} \cup Uncertain : Cleaned(error)
        BY <1>6 DEF Observe
  <2>2. vpc = "observe" /\ UNCHANGED passed
        BY <1>6 DEF Observe, Stay, worker
  <2> QED BY <2>1, <2>2, CleanedOrdered
<1> QED BY <1>1, <1>2, <1>3, <1>4, <1>5, <1>6 DEF Executor

LEMMA AppendSecond == ASSUME NEW a, NEW b PROVE Append(<<a>>, b) = <<a, b>>
<1> DEFINE s == Append(<<a>>, b)
           t == <<a, b>>
           S == {a, b}
<1>1. <<a>> \in Seq(S) /\ t \in Seq(S) /\ b \in S
      OBVIOUS
<1>2. s \in Seq(S) /\ Len(s) = 2 /\ Len(t) = 2
      BY <1>1
<1>3. \A i \in 1 .. 2 : s[i] = t[i]
  <2>1. s[1] = a /\ s[2] = b
        BY <1>1
  <2>2. t[1] = a /\ t[2] = b
        OBVIOUS
  <2> HIDE DEF s, t
  <2> QED BY <2>1, <2>2
<1> HIDE DEF s, t, S
<1>4. s = t
      BY <1>1, <1>2, <1>3, SeqEqual
<1> QED BY <1>4 DEF s, t

LEMMA AppendThird == ASSUME NEW a, NEW b, NEW c PROVE Append(<<a, b>>, c) = <<a, b, c>>
<1> DEFINE s == Append(<<a, b>>, c)
           t == <<a, b, c>>
           S == {a, b, c}
<1>1. <<a, b>> \in Seq(S) /\ t \in Seq(S) /\ c \in S
      OBVIOUS
<1>2. s \in Seq(S) /\ Len(s) = 3 /\ Len(t) = 3
      BY <1>1
<1>3. \A i \in 1 .. 3 : s[i] = t[i]
  <2>1. s[1] = a /\ s[2] = b /\ s[3] = c
        BY <1>1
  <2>2. t[1] = a /\ t[2] = b /\ t[3] = c
        OBVIOUS
  <2> HIDE DEF s, t
  <2> QED BY <2>1, <2>2
<1> HIDE DEF s, t, S
<1>4. s = t
      BY <1>1, <1>2, <1>3, SeqEqual
<1> QED BY <1>4 DEF s, t

LEMMA AppendFourth == ASSUME NEW a, NEW b, NEW c, NEW d PROVE Append(<<a, b, c>>, d) = <<a, b, c, d>>
<1> DEFINE s == Append(<<a, b, c>>, d)
           t == <<a, b, c, d>>
           S == {a, b, c, d}
<1>1. <<a, b, c>> \in Seq(S) /\ t \in Seq(S) /\ d \in S
      OBVIOUS
<1>2. s \in Seq(S) /\ Len(s) = 4 /\ Len(t) = 4
      BY <1>1
<1>3. \A i \in 1 .. 4 : s[i] = t[i]
  <2>1. s[1] = a /\ s[2] = b /\ s[3] = c /\ s[4] = d
        BY <1>1
  <2>2. t[1] = a /\ t[2] = b /\ t[3] = c /\ t[4] = d
        OBVIOUS
  <2> HIDE DEF s, t
  <2> QED BY <2>1, <2>2
<1> HIDE DEF s, t, S
<1>4. s = t
      BY <1>1, <1>2, <1>3, SeqEqual
<1> QED BY <1>4 DEF s, t

LEMMA OthersOrdered == Tidy /\ Ordered /\ Next /\ ~Executor => Ordered'
<1> SUFFICES ASSUME Tidy, Ordered, Next, ~Executor PROVE Ordered'
    OBVIOUS
<1> USE RunsAre, VerificationAssumption
<1>0. Boxes
      BY DEF Tidy
<1>1. CASE ~ProbePasses /\ ~ProbeFails
  <2>1. UNCHANGED executor /\ UNCHANGED <<passed, verdict>>
        BY <1>1 DEF Next, CallStep, CallInterrupt, Clock, Client, Create, Reap, Restart, ServerFlips,
                    PolicyLoads, Edit, Swap, Change, worker
  <2>2. box[run] = "none" <=> box'[run] = "none"
    <3>1. CASE \E r \in Runs : Create(r)
          BY <1>0, <3>1 DEF Create, Boxes
    <3>2. CASE Reap
          BY <1>0, <3>2 DEF Reap, Boxes
    <3>3. CASE ~Reap /\ ~(\E r \in Runs : Create(r))
          BY <1>1, <3>3 DEF Next, CallStep, CallInterrupt, Clock, Client, Restart, ServerFlips,
                    PolicyLoads, Edit, Swap, Change
    <3> QED BY <3>1, <3>2, <3>3
  <2> QED BY <2>1, <2>2 DEF Ordered, executor
<1>2. CASE ProbeFails
  <2>1. /\ UNCHANGED executor /\ UNCHANGED <<passed, box>>
        /\ vpc = "docker" /\ box[run] = "there" /\ verdict' \in WorkerErrors
        BY <1>2 DEF ProbeFails, WorkerRuns, DockerRuns, WorkerErrors
  <2>2. verdict' \notin {None, "succeeded"}
        BY <2>1 DEF Errors, WorkerErrors
  <2> QED BY <2>1, <2>2 DEF Ordered, executor, Fresh
<1>3. CASE ProbePasses
  <2>1. /\ UNCHANGED executor /\ UNCHANGED box
        /\ vpc = "docker" /\ box[run] = "there" /\ verdict = None
        /\ passed' = Append(passed, Probe)
        /\ verdict' = IF Behind + 1 = Len(Probes[run]) THEN "succeeded" ELSE None
        BY <1>3 DEF ProbePasses, WorkerRuns, DockerRuns
  <2>2. run \in {1, 2, 3}
        BY <1>0 DEF Boxes
  <2>3. passed = Through(run - 1) \/ (run = 2 /\ passed = <<"cert", "nocert">>)
        BY <2>1 DEF Ordered
  <2>8. /\ Probes[1] = <<"cert">> /\ Probes[2] = <<"nocert", "plain">> /\ Probes[3] = <<"cert">>
        BY DEF Probes, Accept, Refuse
  <2>9. Len(<<"cert">>) = 1 /\ Len(<<"nocert", "plain">>) = 2 /\ Len(<<"cert", "nocert">>) = 2
        /\ Len(<<"cert", "nocert", "plain">>) = 3
        OBVIOUS
  <2>4. CASE run = 1
    <3>1. passed = <<>> /\ Behind = 0 /\ Probes[run] = <<"cert">> /\ Probe = "cert"
          BY <2>3, <2>4 DEF Through, Behind, Probe, Probes, Accept
    <3>2. passed' = <<"cert">> /\ verdict' = "succeeded"
          BY <2>1, <3>1
    <3> QED BY <2>1, <2>4, <3>2 DEF Ordered, executor, Fresh, Through
  <2>5. CASE run = 3
    <3>0. passed = <<"cert", "nocert", "plain">>
          BY <2>3, <2>5 DEF Through
    <3>1. Behind = 0
          BY <2>5, <2>9, <3>0 DEF Behind
    <3>2. Probe = "cert"
          BY <2>5, <2>8, <3>1 DEF Probe
    <3>3. passed' = <<"cert", "nocert", "plain", "cert">>
          BY <2>1, <3>0, <3>2, AppendFourth
    <3>4. verdict' = "succeeded"
          BY <2>1, <2>5, <2>8, <2>9, <3>1
    <3> QED BY <2>1, <2>5, <3>3, <3>4 DEF Ordered, executor, Fresh, Through
  <2>6. CASE run = 2 /\ passed = <<"cert">>
    <3>1. Behind = 0
          BY <2>6, <2>9 DEF Behind
    <3>2. Probe = "nocert"
          BY <2>6, <2>8, <3>1 DEF Probe
    <3>3. passed' = <<"cert", "nocert">>
          BY <2>1, <2>6, <3>2, AppendSecond
    <3>4. verdict' = None
          BY <2>1, <2>6, <2>8, <2>9, <3>1
    <3> QED BY <2>1, <2>6, <3>3, <3>4 DEF Ordered, executor, Fresh, Through
  <2>7. CASE run = 2 /\ passed = <<"cert", "nocert">>
    <3>1. Behind = 1
          BY <2>7, <2>9 DEF Behind
    <3>2. Probe = "plain"
          BY <2>7, <2>8, <3>1 DEF Probe
    <3>3. passed' = <<"cert", "nocert", "plain">>
          BY <2>1, <2>7, <3>2, AppendThird
    <3>4. verdict' = "succeeded"
          BY <2>1, <2>7, <2>8, <2>9, <3>1
    <3>5. passed' = Through(2) /\ run = 2
          BY <2>7, <3>3 DEF Through
    <3>6. run' = run /\ vpc' = "docker"
          BY <2>1 DEF executor
    <3> QED BY <2>1, <3>4, <3>5, <3>6 DEF Ordered, Fresh
  <2> QED BY <2>2, <2>3, <2>4, <2>5, <2>6, <2>7 DEF Through
<1> QED BY <1>1, <1>2, <1>3

LEMMA SpecWatch == Spec => [](Watch /\ Ordered)
<1>1. Init => Watch /\ Ordered
      BY InitWatch, InitOrdered
<1>2. IInv /\ Watch /\ Ordered /\ [Next]_vars => (Watch /\ Ordered)'
  <2> SUFFICES ASSUME IInv, Watch, Ordered, [Next]_vars PROVE (Watch /\ Ordered)'
      OBVIOUS
  <2>1. CASE Next
        BY <2>1, ExecutorWatch, OthersWatch, ExecutorOrdered, OthersOrdered DEF IInv
  <2>2. CASE UNCHANGED vars
        BY <2>2 DEF vars, executor, worker, Watch, WorldOK, Held, Pinned, Watched, Sighted,
                    SightsPinned, Ordered
  <2> QED BY <2>1, <2>2
<1> QED BY <1>1, <1>2, SpecIInv, PTL DEF Spec

\* Whatever the daemon mounts, and whatever is edited, renamed or restarted
\* while docker run goes on: a success is about the directory revision the run
\* had opened and the start of the target it was bound to, and a verified
\* generation has been accepted, refused twice and accepted.
THEOREM SuccessIsPinnedTheorem == Spec => []SuccessIsPinned
<1>1. Watch /\ Ordered => SuccessIsPinned
  <2>1. Through(3) = Accept \o Refuse \o Accept
        BY DEF Through, Accept, Refuse
  <2> QED BY <2>1 DEF Watch, Ordered, SuccessIsPinned, SightsPinned
<1> QED BY <1>1, SpecWatch, PTL

-----------------------------------------------------------------------------
(* Types                                                                   *)

\* What a run has come to
Notes ==
    /\ prior \in Errors \cup {None} /\ raised \in Errors \cup {None}
    /\ result \in WorkerErrors \cup {"succeeded", None} /\ removal \in CallErrors \cup {None}
    /\ answer \in Errors \cup {None}
    /\ verdict \in WorkerErrors \cup {"succeeded", None}

\* A change of the world makes at most one revision and one start: the bound of
\* changes bounds them all.
WorldBounded ==
    /\ world \in World /\ world.start <= world.changes
    /\ \A d \in Dirs : world.revs[d] <= world.changes

\* What has been seen of the world
Sights ==
    /\ pinned \in [dir : Dirs, rev : 0 .. MaxChanges] \cup {None}
    /\ mount \in Dirs \cup {None}
    /\ saw \subseteq [dir : Dirs, rev : 0 .. MaxChanges, start : 0 .. MaxChanges, ready : BOOLEAN]

LEMMA InitTyped == Init => Notes /\ WorldBounded /\ Sights
<1> SUFFICES ASSUME Init PROVE Notes /\ WorldBounded /\ Sights
    OBVIOUS
<1>1. Notes /\ Sights
      BY DEF Init, Notes, Sights
<1>2. PICK policy \in Policies :
         world = [path |-> 1, revs |-> [d \in Dirs |-> 0], start |-> 0, ready |-> TRUE,
                  policy |-> policy, changes |-> 0]
  <2>1. /\ world = [path |-> world.path, revs |-> world.revs, start |-> world.start,
                    ready |-> world.ready, policy |-> world.policy, changes |-> world.changes]
        /\ world.path = 1 /\ world.revs = [d \in Dirs |-> 0] /\ world.start = 0
        /\ world.ready = TRUE /\ world.policy \in Policies /\ world.changes = 0
        BY DEF Init
  <2> QED BY <2>1
<1>3. WorldBounded
  <2>1. 0 \in 0 .. MaxChanges /\ 1 \in Dirs
        BY VerificationAssumption DEF Dirs
  <2>2. [d \in Dirs |-> 0] \in [Dirs -> 0 .. MaxChanges]
        BY <2>1
  <2> QED BY <1>2, <2>1, <2>2 DEF WorldBounded, World
<1> QED BY <1>1, <1>3

LEMMA ReturnNotes ==
    ASSUME Notes, NEW o \in Errors \cup {"succeeded", None}, Return(o), UNCHANGED verdict
    PROVE  Notes'
<1>1. /\ prior' \in {prior, None} /\ raised' \in {raised, None} /\ result' \in {result, None}
      /\ removal' \in {removal, None}
      BY DEF Return
<1>2. answer' = answer \/ answer' = None \/ (answer' = o /\ o # "succeeded")
      BY DEF Return
<1> QED BY <1>1, <1>2 DEF Notes

\* What the steps write down is what it is to be.
LEMMA NextNotes == IInv /\ Notes /\ [Next]_vars => Notes'
<1> SUFFICES ASSUME IInv, Notes, [Next]_vars PROVE Notes'
    OBVIOUS
<1>0. /\ CallErrors \subseteq Errors /\ WorkerErrors \subseteq Errors /\ Uncertain \subseteq CallErrors
      /\ Snapshots \subseteq Errors \cup {None}
      /\ {"CREDENTIAL_ACCESS_DENIED", "TARGET_DRIFT", "EXECUTOR_CLEANUP_FAILED"} \subseteq Errors
      /\ {"TIMEOUT", "VERIFICATION_FAILED", "CONNECTION_FAILED"} \subseteq WorkerErrors
      BY DEF Errors, CallErrors, WorkerErrors, Uncertain, Snapshots
<1>1. CASE Inspect
  <2>1. UNCHANGED verdict
        BY <1>1 DEF Inspect, Stay, worker
  <2>2. PICK error \in Snapshots :
             \/ UNCHANGED <<prior, raised, result, removal, answer>>
             \/ Return(error)
        BY <1>1 DEF Inspect
  <2> QED BY <1>0, <2>1, <2>2, ReturnNotes DEF Notes
<1>2. CASE OpenDirectory \/ Pin \/ StartDocker
  <2>1. UNCHANGED verdict \/ verdict' = None
        BY <1>2 DEF OpenDirectory, Pin, StartDocker, Stay, worker
  <2>2. CASE UNCHANGED <<prior, raised, result, removal, answer>>
        BY <2>1, <2>2 DEF Notes
  <2>3. CASE Pin /\ Return("CREDENTIAL_ACCESS_DENIED")
        BY <1>0, <2>3, ReturnNotes DEF Pin, Stay, worker
  <2> QED BY <1>2, <2>2, <2>3 DEF OpenDirectory, Pin, StartDocker, executor
<1>3. CASE DockerReturns \/ Reinspect
  <2>1. /\ UNCHANGED <<removal, answer, verdict>>
        /\ result' \in {result, verdict}
        BY <1>3 DEF DockerReturns, Reinspect, Stay, worker
  <2>2. PICK error \in Errors :
             UNCHANGED <<prior, raised>> \/ (prior' = error /\ raised' = error)
    <3>1. CASE DockerReturns
      <4>1. outcome # "answer" => outcome \in Errors
            BY <1>0, <3>1 DEF DockerReturns, IInv, ProcessInv, Sizes, CallErrors, Uncertain
      <4>2. "EXECUTOR_FAILED" \in Errors
            BY <1>0 DEF CallErrors
      <4> QED BY <3>1, <4>1, <4>2 DEF DockerReturns, Fail
    <3>2. CASE Reinspect
      <4>1. PICK error \in Snapshots :
                 IF error = None THEN UNCHANGED <<prior, raised>> ELSE Fail(error)
            BY <3>2 DEF Reinspect
      <4>2. "TIMEOUT" \in Errors
            BY <1>0
      <4> QED BY <1>0, <4>1, <4>2 DEF Fail
    <3> QED BY <1>3, <3>1, <3>2
  <2> QED BY <1>0, <2>1, <2>2 DEF Notes
<1>4. CASE Recheck
  <2>1. UNCHANGED <<result, removal, answer, verdict>>
        BY <1>4 DEF Recheck, Stay, worker
  <2>2. prior' \in Errors \cup {None} /\ raised' \in Errors \cup {None}
        BY <1>0, <1>4 DEF Recheck, Notes
  <2> QED BY <2>1, <2>2 DEF Notes
<1>5. ASSUME NEW error \in Errors \cup {None}, Cleaned(error), UNCHANGED verdict
      PROVE  Notes'
  <2>1. Outcome \in Errors \cup {"succeeded", None}
        BY <1>0 DEF Outcome, Notes
  <2> QED BY <1>5, <2>1, ReturnNotes DEF Cleaned
<1>6. CASE Remove
  <2>1. PICK error \in CallErrors \cup {None} :
             IF error = None THEN Cleaned(None)
             ELSE removal' = error /\ UNCHANGED <<prior, raised, result, answer>>
        BY <1>6 DEF Remove
  <2>2. UNCHANGED verdict
        BY <1>6 DEF Remove, worker
  <2> QED BY <1>5, <2>1, <2>2 DEF Notes
<1>7. CASE Observe
  <2>1. PICK error \in Errors \cup {None} : Cleaned(error)
        BY <1>0, <1>7 DEF Observe, Notes
  <2>2. UNCHANGED verdict
        BY <1>7 DEF Observe, Stay, worker
  <2> QED BY <1>5, <2>1, <2>2
<1>8. CASE ~Executor /\ Next
  <2>1. UNCHANGED executor
        BY <1>8 DEF Next, CallStep, CallInterrupt, Clock, Client, Create, Reap, ProbePasses,
                    ProbeFails, Restart, ServerFlips, PolicyLoads, Edit, Swap, Change
  <2>2. verdict' = verdict \/ verdict' \in WorkerErrors \cup {"succeeded", None}
        BY <1>0, <1>8 DEF Next, CallStep, CallInterrupt, Clock, Client, Create, Reap, ProbePasses,
                    ProbeFails, Restart, ServerFlips, PolicyLoads, Edit, Swap, Change, worker
  <2> QED BY <2>1, <2>2 DEF Notes, executor
<1>9. CASE UNCHANGED vars
      BY <1>9 DEF vars, executor, worker, Notes
<1> QED BY <1>1, <1>2, <1>3, <1>4, <1>6, <1>7, <1>8, <1>9 DEF Next, Executor

LEMMA NextWorldBounded == WorldBounded /\ [Next]_vars => WorldBounded'
<1> SUFFICES ASSUME WorldBounded, [Next]_vars PROVE WorldBounded'
    OBVIOUS
<1> USE VerificationAssumption
<1>1. CASE Restart \/ ServerFlips \/ PolicyLoads \/ Edit \/ Swap
  <2>1. PICK path \in Dirs, revs \in [Dirs -> 0 .. MaxChanges], start \in 0 .. MaxChanges,
             ready \in BOOLEAN, policy \in Policies, changes \in 0 .. MaxChanges :
             world = [path |-> path, revs |-> revs, start |-> start, ready |-> ready,
                      policy |-> policy, changes |-> changes]
        BY DEF WorldBounded, World
  <2>2. /\ changes < MaxChanges /\ start <= changes
        /\ \A d \in Dirs : revs[d] <= changes
        BY <1>1, <2>1 DEF Restart, ServerFlips, PolicyLoads, Edit, Swap, Change, WorldBounded
  <2>3. 3 - path \in Dirs
        BY DEF Dirs
  <2>4. changes + 1 \in 0 .. MaxChanges
        BY <2>2
  <2>5. ASSUME NEW p \in Dirs, NEW v \in [Dirs -> 0 .. MaxChanges], NEW t \in 0 .. MaxChanges,
               NEW y \in BOOLEAN, NEW o \in Policies,
               t <= changes + 1, \A d \in Dirs : v[d] <= changes + 1,
               world' = [path |-> p, revs |-> v, start |-> t, ready |-> y, policy |-> o,
                         changes |-> changes + 1]
        PROVE  WorldBounded'
        BY <2>4, <2>5 DEF WorldBounded, World
  <2>6. CASE Restart
    <3>1. world' = [path |-> path, revs |-> revs, start |-> start + 1, ready |-> ready,
                    policy |-> policy, changes |-> changes + 1]
          BY <2>1, <2>6 DEF Restart, Change
    <3>2. start + 1 \in 0 .. MaxChanges /\ start + 1 <= changes + 1
          BY <2>2
    <3> QED BY <2>2, <2>5, <3>1, <3>2
  <2>7. CASE ServerFlips
    <3>1. PICK y \in BOOLEAN :
             world' = [path |-> path, revs |-> revs, start |-> start, ready |-> y,
                       policy |-> policy, changes |-> changes + 1]
      <4>1. world' = [path |-> path, revs |-> revs, start |-> start, ready |-> ~ready,
                      policy |-> policy, changes |-> changes + 1]
            BY <2>1, <2>7 DEF ServerFlips, Change
      <4>2. CASE ready = TRUE
        <5>1. (~ready) = FALSE
              BY <4>2
        <5> QED BY <4>1, <5>1
      <4>3. CASE ready = FALSE
        <5>1. (~ready) = TRUE
              BY <4>3
        <5> QED BY <4>1, <5>1
      <4> QED BY <4>2, <4>3
    <3> QED BY <2>2, <2>5, <3>1
  <2>8. CASE PolicyLoads
    <3>1. PICK o \in Policies :
             world' = [path |-> path, revs |-> revs, start |-> start, ready |-> ready,
                       policy |-> o, changes |-> changes + 1]
          BY <2>1, <2>8 DEF PolicyLoads, Change
    <3> QED BY <2>2, <2>5, <3>1
  <2>9. CASE Edit
    <3>1. /\ [revs EXCEPT ![path] = @ + 1] \in [Dirs -> 0 .. MaxChanges]
          /\ \A d \in Dirs : [revs EXCEPT ![path] = @ + 1][d] <= changes + 1
          BY <2>2
    <3>2. world' = [path |-> path, revs |-> [revs EXCEPT ![path] = @ + 1], start |-> start,
                    ready |-> ready, policy |-> policy, changes |-> changes + 1]
          BY <2>1, <2>9 DEF Edit, Change
    <3> QED BY <2>2, <2>5, <3>1, <3>2
  <2>10. CASE Swap
    <3>1. /\ [revs EXCEPT ![3 - path] = revs[3 - path] + 1] \in [Dirs -> 0 .. MaxChanges]
          /\ \A d \in Dirs : [revs EXCEPT ![3 - path] = revs[3 - path] + 1][d] <= changes + 1
          BY <2>2, <2>3
    <3>2. world' = [path |-> 3 - path, revs |-> [revs EXCEPT ![3 - path] = revs[3 - path] + 1],
                    start |-> start, ready |-> ready, policy |-> policy, changes |-> changes + 1]
          BY <2>1, <2>10 DEF Swap, Change
    <3> QED BY <2>2, <2>3, <2>5, <3>1, <3>2
  <2> QED BY <1>1, <2>6, <2>7, <2>8, <2>9, <2>10
<1>2. CASE UNCHANGED world
      BY <1>2 DEF WorldBounded
<1> QED BY <1>1, <1>2 DEF Next, Executor, Inspect, OpenDirectory, Pin, StartDocker, DockerReturns,
                          Reinspect, Recheck, Remove, Observe, Stay, CallStep, CallInterrupt, Clock,
                          Client, Create, Reap, ProbePasses, ProbeFails, vars

LEMMA NextSights ==
    ASSUME IInv, Watch, WorldBounded, Sights, [Next]_vars
    PROVE  Sights'
<1>0. /\ world.path \in Dirs /\ world.start \in 0 .. MaxChanges
      /\ \A d \in Dirs : world.revs[d] \in 0 .. MaxChanges
      /\ world.ready \in BOOLEAN
      BY DEF WorldBounded, World
<1>1. CASE OpenDirectory
  <2>1. pinned' = [dir |-> world.path, rev |-> 0] /\ UNCHANGED <<mount, saw>>
        BY <1>1 DEF OpenDirectory, Stay, worker
  <2>2. pinned' \in [dir : Dirs, rev : 0 .. MaxChanges]
        BY <1>0, <2>1, VerificationAssumption
  <2> QED BY <2>1, <2>2 DEF Sights
<1>2. CASE Pin
  <2>1. UNCHANGED <<mount, saw>>
        BY <1>2 DEF Pin, Stay, worker
  <2>2. pinned' \in {pinned, None, [pinned EXCEPT !.rev = world.revs[pinned.dir]]}
        BY <1>2 DEF Pin, Return
  <2>3. pinned' \in [dir : Dirs, rev : 0 .. MaxChanges] \cup {None}
    <3>1. pinned = [dir |-> pinned.dir, rev |-> pinned.rev] /\ pinned.dir \in Dirs
          BY <1>2 DEF Pin, Watch
    <3>2. [pinned EXCEPT !.rev = world.revs[pinned.dir]]
             = [dir |-> pinned.dir, rev |-> world.revs[pinned.dir]]
          BY <3>1
    <3> QED BY <1>0, <2>2, <3>1, <3>2 DEF Sights
  <2> QED BY <2>1, <2>2, <2>3 DEF Sights
<1>3. CASE Inspect \/ StartDocker \/ DockerReturns \/ Reinspect \/ Recheck \/ Remove \/ Observe
  <2>1. pinned' \in {pinned, None}
        BY <1>3 DEF Inspect, StartDocker, DockerReturns, Reinspect, Recheck, Remove, Observe, Cleaned,
                    Return, Fail, executor
  <2>2. mount' \in {mount, None} /\ saw' \in {saw, {}}
        BY <1>3 DEF Inspect, StartDocker, DockerReturns, Reinspect, Recheck, Remove, Observe, Stay,
                    worker
  <2> QED BY <2>1, <2>2 DEF Sights
<1>4. CASE ProbePasses
  <2>1. /\ UNCHANGED <<executor, mount>> /\ saw' = saw \cup {Sight}
        /\ vpc = "docker" /\ box[run] = "there"
        BY <1>4 DEF ProbePasses, WorkerRuns, DockerRuns
  <2>2. mount \in Dirs
        BY <2>1 DEF Watch, Held, Watched
  <2>3. Sight \in [dir : Dirs, rev : 0 .. MaxChanges, start : 0 .. MaxChanges, ready : BOOLEAN]
        BY <1>0, <2>2 DEF Sight
  <2> QED BY <2>1, <2>3 DEF Sights, executor
<1>5. CASE \/ CallStep \/ CallInterrupt \/ Clock \/ Client \/ (\E r \in Runs : Create(r)) \/ Reap
           \/ ProbeFails \/ Restart \/ ServerFlips \/ PolicyLoads \/ Edit \/ Swap \/ UNCHANGED vars
  <2>1. UNCHANGED <<executor, saw>> /\ mount' \in {mount, world.path}
        BY <1>5 DEF CallStep, CallInterrupt, Clock, Client, Create, Reap, ProbeFails, Restart,
                    ServerFlips, PolicyLoads, Edit, Swap, Change, vars, worker
  <2> QED BY <1>0, <2>1 DEF Sights, executor
<1> QED BY <1>1, <1>2, <1>3, <1>4, <1>5 DEF Next, Executor

\* Whatever the client, the daemon and the world do, every variable keeps its
\* type: no step uses a pinned directory, a mount or a result that is not there.
THEOREM VerificationTypeOK == Spec => []TypeOK
<1>1. IInv /\ Notes /\ WorldBounded /\ Sights => TypeOK
      BY DEF IInv, ProcessInv, Sizes, Flags, ProcessTypeOK, Tidy, Boxes, Labels, Fresh, Notes,
             WorldBounded, Sights, TypeOK
<1>2. Init => Notes /\ WorldBounded /\ Sights
      BY InitTyped
<1>3. IInv /\ Watch /\ Notes /\ WorldBounded /\ Sights /\ [Next]_vars
         => (Notes /\ WorldBounded /\ Sights)'
      BY NextNotes, NextWorldBounded, NextSights
<1> QED BY <1>1, <1>2, <1>3, SpecIInv, SpecWatch, PTL DEF Spec
=============================================================================
