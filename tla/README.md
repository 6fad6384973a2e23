# query-passport: a verification development

query-passport is a command line tool that issues client certificates from a private CA, lets a
PostgreSQL container accept them, verifies a candidate with real connections and publishes it in a
delivery store the reading application mounts. Every command is one short-lived process; what a
command did lives in files and in the server, and an interrupted command is simply run again. The
development models that: what durable state the commands leave, in which order, and what a rerun or
a competing command finds.

Paths below are those of the repository.

## The system

| part | state it keeps | operations | what makes it correct |
|---|---|---|---|
| coordinator, `local_lifecycle.py` | none of its own: it orders the others | `prepare`, `issue`, `apply`, `deliver`, `rotate`, `status` | phases in the journal are backed by work; the live credential was tried on a server its lineage configured; competing plans do not both win; a rerun completes what was begun |
| operation store, `operation_store.py` | a directory per operation: `plan.json`, `events.jsonl`, write-once artifacts, a lock; a lock per container | create, record, write and read artifacts, lock | events are appended in sequence, never after a torn line; an artifact has one writer and one value; one process per operation and per container |
| delivery store, `credential_delivery.py` | `owner.json`, `lock`, `active.json`, `versions/<operation>/{bundle,receipt.json}` | deliver, inspect | sealed versions never change; `active.json` is a compare-and-set register over sealed versions |
| database administration, `db_admin.py` | in the server: the reader role, `pg_hba.conf`, `pg_ident.conf`, `postgresql.auto.conf`, the CA file | snapshot, apply, verify_applied | the role can log in only after the rules are loaded; foreign text and roles are preserved |
| authentication rules, `db_config.py` | none | parse and propose owned blocks | the block is first, once, and everything else is unchanged |
| local PKI, `local_pki.py` | the authority directory, a directory per issued generation | initialize-authority, issue-client | one certificate per operation; half-made directories are never used |
| executor, `executor.py` | helper containers | target snapshot, verification, clean-up | which error is reported when clean-up fails too; no helper container is left behind a success |
| process runner, `process.py` | pipes of a child | run | bounded by size and deadline, no mutual blocking |
| verification, `policy_verification.py`, `policy_worker.py`, `verify_worker.py` | none | accept, refuse, accept | a credential passes only if weaker access was refused in between, all of it on the pinned directory and target |
| command line, `cli.py` | an interval timer | main | one response, and a deadline that may end a command anywhere |
| contracts, `contract.py`, `lifecycle_contract.py`, `lifecycle_binding.py` | none | validate | closed inputs |

A command takes the lock of its container and then the lock of its operation, both without waiting;
the delivery store has a lock of its own, because two containers may be bound to one store. The
issuer runs as a child process, PostgreSQL is reached through `docker exec`. What is hard here:

- **ends anywhere**: the deadline of `cli.py` raises from a signal handler, SIGKILL loses the
  process, and nothing is rolled back; torn files are refused for ever;
- **reruns**: every step must recognise its own finished or half-finished work;
- **competing plans**: several operations may be prepared on the same state and run in any order;
- **two locks or none**: processes of different containers meet in the store without a common
  target lock, and issuers that lost their parent meet on a generation without any;
- **names and inodes**: a configuration file cannot be replaced only if it is unchanged, so it is
  moved away, looked at and linked back, and the directory a helper container mounts is resolved
  again by the daemon;
- **work that outlives its caller**: a statement, a script or a container goes on after the docker
  client was killed at its deadline;
- **an outside world**: the container restarts, an administrator edits configuration or closes the
  role, certificates expire.

The hazards list of `PROJECT.json` has them at their lines.

## Modules

| module | models | checked by |
|---|---|---|
| `Lifecycle` | `prepare` and `execute` of the coordinator, with the durable part of every component it calls | `MCLifecycle` |
| `CredentialHistory` | abstract: what a delivery store promises its readers | refined by the two below |
| `LifecycleHistory` | the mapping from plans to a history | `MCLifecycleHistory` |
| `DeliveryStore` | `credential_delivery` file by file | `MCDeliveryStore` |
| `DeliveryHistory` | the mapping from receipts to a history | `MCDeliveryStore` |
| `DeliveryStoreProofs` | theorems about `DeliveryStore`, and its refinement `DeliveryHistory` | tlapm |
| `OperationStore` | `operation_store`: the journal and its artifacts across process and host crashes | `MCOperationStore` |
| `LifecycleProofs` | theorems about `Lifecycle`, and its refinement `LifecycleHistory` | tlapm |
| `DbAdmin` | `db_admin.apply` call by call against the server, its administrator and late requests | `MCDbAdmin` |
| `DbAdminProofs` | theorems about `DbAdmin` | tlapm |
| `ReaderServer` | abstract: the role of one server and the stages it goes through | refined by `DbAdmin` and by each server of `Lifecycle` |
| `EventLog` | abstract: an append-only log whose acknowledged part survives | refined by `OperationStore` |
| `OperationStoreProofs` | theorems about `OperationStore` | tlapm |
| `AuthRules` | `db_config`: reading blocks and proposing a new one, and a reference for both | `MCConfigCas` |
| `AuthRulesProofs` | theorems about `AuthRules`, for every text | tlapm |
| `ConfigCas` | the script that replaces a configuration file, name by name and inode by inode, with an administrator at work | `MCConfigCas` |
| `ConfigRegister` | abstract: a file changed by compare-and-set only | refined by `ConfigCas` |
| `ConfigCasProofs` | theorems about `ConfigCas` | tlapm |
| `LocalPki` | `local_pki`: authority and generations, file by file, with orphaned issuers | `MCLocalPki` |
| `IssueOnce` | abstract: one certificate per place, ever | refined by `LocalPki` |
| `LocalPkiProofs` | theorems about `LocalPki` | tlapm |
| `RunProcess` | `process.run_process` and any child behind its pipes | `MCVerification` |
| `Verification` | `executor.run_verification`, `cleanup_container`, `policy_verification` and the worker's probes | `MCVerification` |
| `VerificationProofs` | theorems about `RunProcess` and `Verification` | tlapm |

### Lifecycle

A process has a program counter `pc` (one label per call that reads or changes something another
process, a crash or an administrator can meet), its command, operation and target, and what
`prepare` has read. `Permitted` collects the checks of the handlers, label by label; an action for a
label has `Permitted` as its guard, and `Refuse` is the `ContractError` when it fails. `Stop` ends a
process between two steps, `TearJournal` and `TearArtifact` end it inside a write. Both locks are
released by every end, as flock does.

Abstractions: a plan keeps the fields some guard depends on; digests are equalities of those fields;
`events.jsonl` is the set of its phases, its last phase and whether its last line is torn, which is
all the handlers ask; an unreadable plan is an absent one; the server is the stage `apply` reached,
the operation that owns it and a revision for foreign edits; an issued generation and a version are
absent, partial or complete; the three connections of `_verify_generation` pass when
`verify_applied` does, which holds before and after them. The comparisons of authority digests in
`_rotate` are left out with the authority, which `LocalPki` has; so are `status`, which only reads,
and the store's creation and lock, which `DeliveryStore` has.

Two limits of the tool show in the model and are by design: a plan names the start of its container,
so after a restart no operation of the old start goes on (`docs/quickstart.md:140`), and torn or
half-made files are never repaired (`docs/local-lifecycle.md:113-114`).

### DeliveryStore

Processes call `deliver(operation, expected_revision)` with any revision they may have seen, fresh
or stale, and share only the store. The store is created file by file, `owner.json` last; a version
likewise, `receipt.json` last; both through a staging name that gives the file two links for a
moment, which all readers refuse. The comparison of the pointer and the rename that replaces it are
two steps. Not modelled: changes of a sealed version from outside (the receipt records inode and
times, and `_receipt` refuses them), renames of the whole store.

### OperationStore

`record` reads the journal to count it, then appends one line and syncs file and directory;
artifacts are created exclusively, written and synced. The module keeps apart what the kernel holds
(`journal`, `file`) and what an fsync has covered (`durable`, `synced`, `entries`): the end of a
process loses only the process, a crash of the host also loses or cuts what no fsync covers, names of
files included. `acked` and `saved` are what `record` and `write_artifact` have returned for. The size
limit of a journal is `MaxEvents`, in lines.

`events` and `read_artifact` only read and are part of the actions that use them. The target lock is
in `Lifecycle`. mkdir of a new operation and the sync of its parent are one step: before it returns
nobody knows the directory. The directories above it are taken to exist (`_open_root` makes them once
and syncs none of them). One consequence of the code is visible here and promised by no document: an
artifact that a rerun accepts by comparing it (`_save_once`) has been synced by nobody if its first
writer ended before the sync, see the hazards.

### DbAdmin

`apply` is a sequence of `docker exec` calls, one label each. The server side has the role with its
marker, three files (`pg_ident.conf`, `pg_hba.conf`, `postgresql.auto.conf`), the CA bundle of each
operation, what PostgreSQL has loaded and whether a reload is pending. A file is the set of
operations with a block in it, a revision of all other lines, and whether it is whole. `Effect` is
what a request does; a client waits for it (`Change`), or has ended (`Abandon`): then the request is
an orphan, which takes effect at any later time (`Late`) or never (`Vanish`), and may have got only
a part of its input (`CutKinds`). SQL that is cut is rolled back with its transaction.

Abstractions: each script is one step (the moves and links of a replacement are `ConfigCas`); of a cut file
it matters whether it still parses and whether a block of the tool is complete; the audit of the
role's privileges is part of its marker, since nothing in the repository changes it afterwards; the
container does not restart here (`Lifecycle` has that), and nobody edits the CA file the bundle starts
with. `_reload` gives up after twelve polls: the
model waits for the postmaster, and `End` covers the giving up. One command runs at a time, as the
target lock has it. After a provision is applied nothing more happens to it in this module, so
deadlock is not checked.

### AuthRules, ConfigCas and ConfigRegister

A text is a sequence of lines, a line a kind and a number: a marker of an operation, its rules, a line
with a marker's words that is none, a line that is continued on the next, any other line. `Pass` is
the one pass of `_blocks` (a recursive function over the lines), `Propose` is `propose_config`.
`Unambiguous` and `IsBlock` say the same without a pass. Line ends are left out.

`ConfigCas` is `_CAS_SCRIPT` command by command: the file's name is a pointer to an inode, and what a
script has moved (`prior`) or prepared (`content`) are further names. An inode has its text and the
number of the last write in place, which stands for size and times. Scripts run one after the other
as long as their clients live; one that lost its client runs beside that of a rerun. The administrator
edits in place, replaces by a rename, or makes a file where none is. `ConfigRegister` says what all of
this amounts to for everybody else: the register is the file, or, while there is none, what was moved
away last.

The comparison of ownership and modes is part of `AsExpected`; an editor that holds a descriptor while
the file is moved, and the script's trap for TERM, are left out. After `Restore` the file has two
names, as `ln -P` leaves it, and every later run refuses it until somebody removes the other one. With
the fault "crowd" an administrator makes a file in the gap of one script and a second script takes that
away too: the register is then not one (what was moved away last is not what comes back), which the
module can show and no document promises; nothing is destroyed even so, as the theorems say.

### LocalPki and IssueOnce

A process of the issuer handles one request: the authority, or a generation of an operation. It claims
the directory with mkdir and makes the files in `Order`, each under a staging name that is synced,
linked, synced, removed, synced. Files are told apart by the run that made them, so that a directory is
`Whole` when every file there should be is there, none else, and all are of one run. `kept` is what the
syncs of directories cover. Faults: a run ends anywhere (its alarm), the host crashes, certificates
expire. A coordinator that is killed ends nothing, its issuer goes on, and two targets may share an
authority: so any number of runs meet.

Abstractions: keys, digests, names and lifetimes of a request are one input; the private modes and the
contents of X.509 are left out; the server's CA file is part of the input; the directory above the
generations is taken to exist. In `IssueOnce` a place is issued once, and an answer is of what was issued
for the place that was asked for; the mapping takes what the disk will still have after a crash. One
step may issue several places at once: a crash of the host loses what no sync covers, and by that may
settle that a file is a whole one, in the directory of the authority and in that of a generation alike.

### RunProcess and Verification

`RunProcess` has the select loop round by round: read what is there, write what fits, refuse more than
the limit, raise at the deadline; the child is any program, which decides anew what it does whenever
it has done something, is blocked until it can do it, and may close its output before it ends. Data is
counted in units. Descendants of a child that hold its output open are left out: the parent then reads
until the deadline, as with a child that never ends.

`Verification` EXTENDS it: `docker run` is a call of `RunProcess`, and its client's behaviour is any.
The daemon creates the container when it likes, also after the client is gone, and resolves the
credential path then. `Executor` is `run_verification` line by line, with the errors of every step:
`raised` is the exception on its way, `prior` is `prior_error`, which decides whether an error of
clean-up may replace it. Three runs follow each other, with the probes of `policy_worker` and
`verify_worker` in order. The world changes anywhere: restarts, a server that comes and goes, rules
that are loaded, files edited, directories renamed (rename changes the ctime of a directory).

Abstractions: target_snapshot is one look, whose failures are TARGET_MISMATCH (it reports a timeout
so too) or an interrupt; the credential directory is a number and a revision; a worker's own checks
are one outcome per probe; docker rm of a container that is not there may complain or not; an
interrupt (KeyboardInterrupt, the alarm of `cli.py`) comes inside docker calls. `set_runtime_permissions`
uses the same clean-up and is not modelled apart. The three runs pin the directory anew each, and
nothing compares the pins with each other: that they see one bundle rests on the candidate being
immutable, which is `DeliveryStore`'s. `docs/local-executor.md:81-82`, `docs/local-lifecycle.md:108` and
the docstring of `cleanup_container` differ on which error is told when clean-up fails as well;
`FirstErrorOrCleanUp` is what the code does, its exemptions named (see the disagreements below).

### CredentialHistory, EventLog and ReaderServer

`CredentialHistory` has a sequence of generations per store. Publishing appends a sealed generation
that was never live. Both concrete modules have no such sequence: it is computed from the plans, or
the receipts, by following `previous` back from the live generation, so that the refinement says that
this chain only ever grows at its end: a lost update or a return to an old credential would cut it.
`EventLog` is an append-only sequence with an acknowledged prefix.

`ReaderServer` is what the coordinator takes a server for: no role, a closed role with or without its
rules loaded, an open role behind its rules, and one whose rules were taken out while it was open. It
is the seam between two modules that model the server at different depths. `DbAdmin` computes the stage
from the role and from the blocks that are loaded in all three files (`Stage`); `Lifecycle` keeps the
stage itself and makes `apply` three steps. Both are shown to implement it. `Lifecycle` lets nobody
take rules out (`Withdrawals` is FALSE there), and in `DbAdmin` only the fault "Restore" does. The
refinement goes one way: of the requests that outlive their command `Lifecycle` has only the one that
closes the role (`LoseLogin`), while in `DbAdmin` a late creation, load or opening is a step of the
same server too.

## Runs

| run | instance | shows |
|---|---|---|
| `lifecycle_faults` | 2 processes, 2 operations, 1 target, every fault, 1 restart, 1 foreign edit | journal and artifacts agree, the live credential is vouched for, the server is left alone while a credential is live, activation is a compare-and-set; refinement of `ReaderServer` |
| `lifecycle_history` | 2 processes, 3 operations, 1 target | competing provisions and rotations, a rotation of a rotation; refinement of `CredentialHistory` |
| `lifecycle_liveness` | 1 process, 2 operations, 2 targets, no faults but interruptions | a plan is executed only on its own target; rerunning completes |
| `lifecycle_owner` | 1 process, 2 operations | **violated**: see below |
| `delivery_store` | 2 processes, 3 generations | sealed versions, compare-and-set, refinement; a sealed generation does not stay behind |
| `db_apply` | 2 provisions of one role, 1 late request, 1 edit, blocks taken out, cut bundles and settings | marker, blocks and bundles are of one operation; the role is opened only behind loaded rules; edits are kept; refinement of `ReaderServer`; rerunning `apply` completes |
| `db_cut_input` | 1 provision, 1 late request with a cut file | **violated**: see below |
| `db_late_disable` | 1 provision, 1 late request | **violated**: see below |
| `operation_store` | 2 processes, 1 operation, 3 events, 1 artifact | sequence, torn lines, an artifact that was left is not taken up again, acknowledged events survive a host crash, refinement of `EventLog` |
| `config_cas` | every text of up to 3 lines and 4 markers in any order, 2 owners, 2 scripts, 1 write of the administrator | texts are read as they are, proposals keep the rest, nothing is destroyed, refinement of `ConfigRegister` |
| `local_pki` | 3 issuers, the authority and 1 generation, 2 inputs | records come last, equal requests are answered alike, a claimed directory is finished, refinement of `IssueOnce` |
| `verification` | 3 runs, pipes of 1 unit, input of 2, limit 1, output up to 2, 2 changes of the world, 3 policies | no mutual blocking, whole answers, success is of what was pinned, the first error or that of a failed clean-up is told, no container is left behind a success or a verdict of the worker, everything ends |

Bounds. `Ops` bounds how often `prepare` creates an operation: two are a competition or a
rotation, three a rotation of a rotation and a competition after a success, the longest patterns the
guards distinguish (previous, owner). Processes are otherwise serialised by the locks, so that two
suffice to meet at one. `MaxEpoch` and `MaxRev` bound restarts and foreign edits; the guards only
compare for equality, one change of each makes the difference. `MaxEvents` is the journal's size
limit, small so that it is reached; one operation is enough there, since directories of operations
share nothing and the theorems hold for any number. `MaxOrphans` bounds requests without a client; the
theorems are for any number of them. In `db_apply` an input that is cut is one of the
bundle or of `postgresql.auto.conf`; cut ident and hba files are what `db_cut_input` is about.
`MaxLines` bounds the texts of `config_cas`: a block has three lines, and what the pass can get wrong
(order, nesting, doubling, continuation, a line behind a block) needs no more; the four markers in any
order add two blocks. `MaxEdits` there is one write between any two commands of two scripts, and the
fault "crowd" is left out. In `verification` a payload larger than a pipe makes both sides wait, a
limit below `MaxOutput` makes the child exceed it, and two changes are one and its undoing.
`Faults` selects the faults of an instance: the runs with three
operations leave most of them out to stay small. Processes and operation ids are symmetric where no
liveness is checked.

Fairness. `lifecycle_liveness` assumes that a started process goes on (weak fairness of its steps),
that the operator keeps rerunning the command that is due until the operation is verified, whatever
else is run in between (`docs/local-lifecycle.md:92-94`), that interruptions stop some day, and that
the last record of an operation is not interrupted every time. `delivery_store` assumes
the same of callers of `deliver` and that repeats do not all meet a held lock: the lock does not
wait, so two callers that alternate exactly would refuse each other for ever, and
`docs/quickstart.md:119` tells the operator to wait for the other one.

`db_apply` assumes that a started `apply` goes on, that the postmaster handles its signal, and that
`apply` is rerun; `Interrupted` leaves out the ends that are the command's own refusal, which a
stuck rerun repeats for ever.

`local_pki` assumes that a started issuer goes on; that it is ended, or time runs out, is part of the
property. `verification` assumes that the executor goes on, and that the docker client does or else
the clock: a client may hang for ever, and then the deadline of `run_process` is what ends it.

### Disagreements with the documentation

`lifecycle_owner` finds: a provision is verified; a rotation of it is verified; the operator runs
`deliver` of the provision once more. The command is in order (`applied` is recorded), so it records
`checking_delivery` and `delivering` and is refused with `DELIVERY_DRIFT`. The owner's journal now
ends in `delivering`. `_rotation_owner` demands that it ends in `verified`
(`local_lifecycle.py:402`), so every later `prepare` or `rotate` of this credential is refused with
`OPERATION_ORDER_INVALID`, and no command brings the journal back. `docs/local-lifecycle.md:93-94`
has completed deliveries compared and reused, and failed commands repaired by a rerun.

`db_cut_input` finds: the docker client of a replacement of `pg_ident.conf` or `pg_hba.conf` ends while it
sends the new file (`run_process` kills it at the deadline). The script reads its input with `cat`,
which ends with what has come, checks the size against a maximum only (`db_admin.py:521-522`) and
installs the shorter file. `docs/local-lifecycle.md:11` promises that existing rules are preserved;
the old file is in a temporary directory, and every rerun is refused. The server runs with the old
rules until the next reload, which only an administrator or a restart would cause.

`db_late_disable` finds: `apply` ends within `_disable`; the rerun completes and is recorded as applied;
the first statement is carried out then and closes the role. `db.applied.json` keeps `apply` from
being called again (`local_lifecycle.py:548`), and `verify_applied` refuses from then on.
`process.py:24-26` asks callers to reconcile such work. The statement must be late by the length of a
whole `apply`, which is unusual but bounded by nothing: its own timeouts start when the server
receives it.

A fourth disagreement has no run of its own, because the documents disagree among themselves: which
error is told when clean-up fails too. `docs/local-lifecycle.md:108` has the first error returned as it
is, and the docstring of `cleanup_container` (`executor.py:65-67`) has the original failure never
replaced. But `prior_error` does not hold two errors (`executor.py:349-354`): an OSError after the worker,
told as CREDENTIAL_ACCESS_DENIED, and a failure the worker has found other than a timeout or interrupt.
When `docker rm` fails then, `cleanup_container` raises its own error in their place: the worker succeeds,
the credential path is gone, the removal times out, and TIMEOUT is told instead of
CREDENTIAL_ACCESS_DENIED. `docs/local-executor.md:81-82` says a third thing: only timeouts and interrupts
are kept, and every other failure of clean-up is EXECUTOR_CLEANUP_FAILED; the code does not do that for
the errors `prior_error` holds, such as TARGET_DRIFT. `FirstErrorOrCleanUp` is what the code does: an error
`prior_error` holds is told itself, the others give way to clean-up only when the removal has failed.
`LeftIsTold` is as strong as the code and no stronger: a container that may be left is never behind a
success or a verdict of the worker, but an exception of the run is told without a word about the container.

## Proofs

For every set of processes and generations, from the assumption that `None` is neither:

- `DeliveryStoreProofs`: the invariant `IInv` adds to the properties what each label of a call has
  established: who is inside holds the lock of a whole store (`LockInv`), one process at most creates
  it and it is not whole before (`CreatorInv`), and the version of a call is as far as its label, its
  receipt made on the expected revision, and for the renaming process the pointer unchanged since it
  was compared (`VersionInv`). None of the properties is inductive alone: that the rename replaces the
  compared pointer needs the lock, the lock needs the store's creation. From it: `StoreTypeOK`,
  `StoreOneWriter`, `StoreActiveIsSealed`, `StorePublishIsCompareAndSet`, `StoreSealedForEver`.

  The refinement `StoreImplementsHistory` maps the store to a history computed along the receipts
  (`Lineage`, a recursive function). `HistoryInv` is needed for that to be one: what a receipt or a caller
  names is sealed (`NamedInv`), so that receipts form no circle (`RankInv`: each generation has a rank
  above its predecessor's) and the recursion has a solution (`LineageInv`). What holds along a chain is
  shown of a counterexample of least rank.
- `OperationStoreProofs`, from the assumption that the null values are no processes, operations or
  contents and the limit is a natural number: the invariant says that an open operation is locked by
  who has it open (`Holders`), that a journal's lines are numbered whether or not a cut line follows
  and that acknowledged lines and the name of their file are synced (`Journals`), and the same of
  artifacts (`ArtifactsInv`). `WholeIsReadable` is not inductive: a crash of the host may take a cut
  tail away and make the lines before it readable again, so they must have been numbered all along.
  From it: `OperationTypeOK`, `OperationWholeIsReadable`, `OperationReturnedSurvives`,
  `OperationTornIsLast`, `OperationWrittenOnce`, and `OperationImplementsLog`, the refinement of
  `EventLog`.

- `LifecycleProofs`, from `LifecycleAssumption` and `NoPlanAssumption` (the null value is no process,
  operation, target or plan): `LockInv` says that a running command holds the lock of its target and,
  from the writing of its plan on, that of its operation; `PlanInv` that past loading its plan is
  there and on its target; `DeliveryInv` that on the way to publication "delivering" is recorded and
  the owner's artifact is saved. `ActivationIsCompareAndSet` compares a pointer read at one label with
  the one replaced labels later, and what keeps it unchanged in between is the lock; hence the
  invariant. From it: `LifecycleTypeOK`, `LifecycleActivationIsCompareAndSet`.

  What the records of `Lifecycle` say of each other needs a second invariant on top (`RInv`).
  `LineageInv`: a provision owns itself, a rotation has the owner of what it replaces, and that was
  `verified` when it was planned; `PrepareInv` says the same of a plan that is being made. `JournalInv`:
  what a recorded phase stands for, artifact by artifact and of the owner too. `StepInv` says of every
  label what its command has achieved by then (`Achieved`), since a phase is recorded steps after its
  work. `LiveInv`: what a live credential rests on. None of the properties is inductive alone:
  that the rules of a live credential stay needs that an owner was applied, which is in the
  journal of another operation, whose plan was made by a command that has ended long ago. From it:
  `LifecycleRecords`, `LifecycleRecordsBacked`, `LifecycleActiveIsVouchedFor`,
  `LifecycleOwnerIsProvision` (for a chain of renewals of any length), and
  `LifecycleServerUntouchedWhileLive`.

  The refinement `LifecycleImplementsHistory` reads the history of every server's store off the plans. A
  third invariant says that what a plan names, and what `prepare` has seen, was planned before
  (`PlannedInv`), so that each operation has one lineage of planned operations, without repetition
  (`ChainInv`; `OneLineage` by a shortest counterexample). A new plan then changes nobody else's lineage,
  and the rename of `_publish`, whose checks compare `active` with the revision of the plan, appends.

  `OwnerStaysUsable`, which the run `lifecycle_owner` finds violated, is proved under a condition
  (`LifecycleOwnerStaysUsable`): no command is begun again on an operation whose revision a rotation has
  replaced (`OwnersLeftAlone`). Nothing else that runs or fails can break it, so that the finding has
  this cause only; it is also what an operator can hold himself to. The invariant `OwnersInv`: an owner
  configured the server of all it owns (`OwnerTargets`), so that the lock of that server keeps commands
  on the owner and on its rotations apart; a first record is never one after "verified"
  (`FirstRecord`); the owner of a rotation that is under way (`RotatingOwner`) or live (`LiveOwner`) ends
  in "verified" or in a cut line. A cut line counts as usable in the property since it is another,
  documented limit (torn files are never repaired).

  `LifecycleImplementsServers`: each server goes through the stages of `ReaderServer`. `ServersInv` says
  that a server without an owner has no role, and that at "files" and "login" the owner is the one the
  process wrote a step before, which the target's lock keeps.

- `DbAdminProofs`, from `DbAdminAssumption`, for any provisions, faults, cut inputs and bounds: the
  invariant follows the order of `apply`. `CommandInv`: past its label "role" the role is its own, and
  nobody takes it back. `PlanInv`: plans were made when there was no block, so that what is replaced
  (`SeenInv`, and the expectation of every late request, `RequestInv`) is a file without blocks; a late
  replacement therefore cannot touch a file with rules. `RulesInv`: rules are in the files, then
  loaded since `loaded_at` was read, then the role is opened, and a request to open it keeps them as
  long as it is under way. From it: `DbTypeOK`, `DbOneOwner`, `DbOpensBehindRules`. That an administrator
  takes blocks out only while nothing runs (`Restore`) is part of the model, and the proof needs it.
  `DbImplementsReader`, the refinement of `ReaderServer`, needs that what is loaded is still in the files
  (`LoadedThere`): no request, late or cut, takes a block away, so that a reload never withdraws rules.

  Two properties the code breaks are proved to hold otherwise, so that the runs that find them violated
  show the only cause. `DbForeignTextKept`, from the assumption that no input of a late replacement of
  `pg_ident.conf` or `pg_hba.conf` is cut: a replacement expects the file its plan was made on
  (`RequestInv`), so what it installs has that file's revision, however late. `DbAppliedStaysOpen`, from
  the assumption that no command ends early: who changes the role owns it and is not applied
  (`AppliedInv`), which a request left over by an ended command is not held to.

- `AuthRulesProofs`, for texts of any length over the lines of `AuthRules`: the pass is a recursive
  function, which is first shown to exist (`PassExists`), so that what holds of it can be proved by
  induction over the lines. The induction is over a set of line numbers (`Induction`, from the
  well-foundedness of the naturals): the provers cannot instantiate a theorem about all predicates, but
  a set is a value. `Sound` says what the pass knows after k lines. `PassReadsTrue`: it accepts just
  the unambiguous texts and finds each block. `ProposalsTrue`: a proposal can be read and proposed
  again, and keeps what was there, whether a block is put in front or the first one replaced.

- `ConfigCasProofs`, for any scripts, texts, writes and faults, "crowd" included: `Shape` says that names
  point to inodes that were made, `MovedOnce` that a script has moved nothing before its `mv` and
  something after it. `NothingDestroyed` is inductive only with them: a second `mv` of a script, or a
  new inode that is not new, would lose a text. From it: `NothingDestroyedTheorem`,
  `MissingIsHeldTheorem`, `CasTypeOK`. `TextInv` says that every inode has a text and that a request is an
  accepted text without a block of its operation; with `AuthRulesProofs` it gives `TextsAreReadTheorem` and
  `ProposalsKeepTheRestTheorem`. For finitely many scripts and without "crowd", `Unnamed` (a new file
  has no other name before it is linked), `Alone` (one script in its gap, and nobody else about when an
  administrator fills the name) and `Standing` (what was moved is what the request was made of) give the
  refinement `CasImplementsRegister`.

- `LocalPkiProofs`, from the assumptions of `LocalPki`, for any runs, operations, inputs and faults.
  `RunInv`: what a run has at its label; `OwnInv`: who has claimed a directory fills it alone, and nobody
  else's file is ever in it; `FillInv`: files come in `Order`, each synced before the next; `NameInv`:
  names that are kept are kept with their contents; `AnswerInv`: a run that has succeeded was given the
  certificate of the whole directory. `RecordIsBacked` is about what would be left after a crash, and what
  is left is decided by syncs made long before, hence `FillInv`. From it: `LocalPkiTypeOK`,
  `LocalPkiRecordIsBacked`, `LocalPkiSameAnswer`, and `LocalPkiImplementsIssueOnce`, the refinement. The
  proof found that a crash of the host may settle several places in one step, which a bounded run with
  one generation had not shown.

- `VerificationProofs`, for every size of pipes, input, output and limit, any policies and any number of
  changes: `ProcessInv` balances the units (what was put is what was got and what is in the pipe) and
  says what the end of the output means; from it `NeverBothBlockedTheorem`, `AnswerIsWholeTheorem`. For
  the executor `Tidy` relates label, `raised`, `prior`, `result` and the container of the run
  (an error on its way is the prior one, except CREDENTIAL_ACCESS_DENIED, and a failed removal comes before clean-up raises), giving `FirstErrorOrCleanUpTheorem`
  and `LeftIsToldTheorem`; and, for `SuccessIsPinnedTheorem`, `Watch`: what the worker saw lies between the
  pinned revision and the present one, so that the comparison after the worker squeezes them together,
  and `Ordered`: `passed` is the probes of the runs behind it. A start of the container is never repeated and
  revisions only grow; that is what makes a comparison of before and after enough. `VerificationTypeOK` needs
  more than types: that a step uses a mount, a result or a view of the worker only where there is one
  (`Notes`, `Sights`), and that the bound on changes of the world bounds revisions (`WorldBounded`).

The type invariants of all these modules are proved and repeated by no run; the same holds of `OneWriter`.

Only model-checked: all liveness (`ProvisionCompletes`, `RotationCompletes`, `SealedIsPublished`,
`ApplyCompletes`, `MadeIsFinished`, `Ends`), which is out of the prover's reach, and the three
violations. Every other property of the runs that pass is a theorem.

## Plan

1. Late creations, loads and openings of a role in `Lifecycle`: they are steps of `ReaderServer` already,
   and `Lifecycle` would take any of them instead of `LoseLogin` alone.
2. Changes of a sealed version from outside in `DeliveryStore`.

## Not modelled

Validation of requests and bindings (`contract.py`, `lifecycle_contract.py`, `lifecycle_binding.py`) has no
state: it maps a document to fields or an error. So have JSON, X.509 contents and response envelopes.
`verify_request` of version 2 bindings and the `verify_applied` around the three runs are not in
`Verification`; `Lifecycle` has the latter. The scripts for `postgresql.auto.conf` and for the CA bundle
are one step each in `DbAdmin`: the first moves, looks and links as the script of `ConfigCas` does, with
its block last instead of first, the second makes a file with a name of its own. `status`,
`inspect_delivery` and `snapshot` only read.
