------------------------------- MODULE DbAdmin -------------------------------
(***************************************************************************)
(* Database administration (db_admin.py) and its server: the reader role,  *)
(* the three configuration files apply writes, the bundle of client CAs,   *)
(* and what PostgreSQL has loaded of them.                                 *)
(*                                                                         *)
(* Every change is a docker exec.  When the client ends, by its deadline   *)
(* or with the command, the daemon goes on with what it has accepted       *)
(* (process.py:24-26): the request becomes an orphan and takes effect at   *)
(* any later time, or never.  The target lock keeps commands apart, so     *)
(* that one runs at a time; it does not keep orphans away.                 *)
(***************************************************************************)
EXTENDS Integers, FiniteSets

CONSTANTS Ops,        \* provisions prepared for the same role of one server
          None,       \* the absent value
          Faults,     \* subset of the faults below
          CutKinds,   \* requests whose input may arrive incomplete
          MaxOrphans, \* bound: requests outstanding without a client
          MaxEdits    \* bound: changes of the files by an administrator

ASSUME DbAdminAssumption ==
    /\ None \notin Ops
    /\ Faults \subseteq {"End", "Edit", "Restore"}
    /\ CutKinds \subseteq {"bundle", "ident", "hba", "auto"}
    /\ MaxOrphans \in Nat /\ MaxEdits \in Nat

Files == {"ident", "hba", "auto"}     \* auto: postgresql.auto.conf

\* A file: the operations that own a block of it, the revision of everything
\* else, and whether it is as somebody wrote it.  "lost": cut at the end of a
\* line, later ones are missing; "torn": cut elsewhere, it does not parse;
\* "broken": the tool's own block at its end is cut.
Text == [blocks : SUBSET Ops, rev : 0..MaxEdits, state : {"whole", "lost", "torn", "broken"}]

Kinds == {"create", "disable", "bundle", "ident", "hba", "auto", "reload", "enable"}

Request == [kind : Kinds, op : Ops, expected : Text \cup {None}]

VARIABLES role,     \* the reader role: owner by its marker (None: no role), and whether it may log in
          file,     \* Files -> Text
          bundle,   \* Ops -> the CA file of the operation
          loaded,   \* Files -> the Text the server runs with
          sighup,   \* a reload has been requested and not yet done
          plan,     \* Ops -> None, or the files plan.json was made on ("before")
          pc, op,   \* the running command and its operation
          seen,     \* what apply has read: the first snapshot, then the installed auto
          fresh,    \* the server has loaded its files since apply read loaded_at
          applied,  \* operations with db.applied.json
          orphans   \* requests whose client has ended

server == <<role, file, bundle, loaded, sighup>>
client == <<pc, op, seen, fresh>>
vars == <<server, plan, client, applied, orphans>>

Labels == {"idle", "snapshot", "observe", "role", "bundle", "ident", "hba", "auto",
           "rules", "loadtime", "reload", "poll", "recheck", "enable", "verify"}

TypeOK ==
    /\ role \in [owner : Ops \cup {None}, login : BOOLEAN]
    /\ file \in [Files -> Text] /\ loaded \in [Files -> Text]
    /\ bundle \in [Ops -> {"absent", "whole", "cut"}]
    /\ sighup \in BOOLEAN /\ fresh \in BOOLEAN
    /\ plan \in [Ops -> [Files -> Text] \cup {None}]
    /\ pc \in Labels /\ op \in Ops \cup {None} /\ applied \subseteq Ops
    /\ seen \in [role : Ops \cup {None}, file : [Files -> Text]]
    /\ orphans \subseteq Request

Original == [blocks |-> {}, rev |-> 0, state |-> "whole"]

Init ==
    /\ role = [owner |-> None, login |-> FALSE]
    /\ file = [f \in Files |-> Original] /\ loaded = file
    /\ bundle = [o \in Ops |-> "absent"]
    /\ sighup = FALSE /\ fresh = FALSE
    /\ plan = [o \in Ops |-> None]
    /\ pc = "idle" /\ op = None /\ applied = {} /\ orphans = {}
    /\ seen = [role |-> None, file |-> file]

\* What apply makes of a file of the plan: propose_config, and the block of
\* _AUTO_SCRIPT.  Base is the file without the block, which the script digests.
Rules(o, f) == [plan[o][f] EXCEPT !.blocks = @ \cup {o}]
Base(o, text) == [text EXCEPT !.blocks = @ \ {o}]

\* _layout, as far as these files go: parse_ok
Parses(text) == text.state \in {"whole", "lost"}
Layout == \A f \in Files : Parses(file[f])

\* ssl_ca_file, which names the operation's own bundle once auto is loaded
CaSetting == loaded["auto"].blocks

-----------------------------------------------------------------------------
(* What a request does to the server, whoever still waits for it.           *)

\* Variant: a role that is there already is taken over.
CreateRoleAnyway(r) ==
    /\ r.kind = "create"
    /\ role' = [owner |-> r.op, login |-> FALSE]
    /\ UNCHANGED <<file, bundle, loaded, sighup>>

CreateRole(r) ==
    /\ r.kind = "create"
    /\ role.owner = None
    /\ role' = [owner |-> r.op, login |-> FALSE]
    /\ UNCHANGED <<file, bundle, loaded, sighup>>

DisableRole(r) ==
    /\ r.kind = "disable"
    /\ role.owner = r.op
    /\ role' = [role EXCEPT !.login = FALSE]
    /\ UNCHANGED <<file, bundle, loaded, sighup>>

EnableRole(r) ==
    /\ r.kind = "enable"
    /\ role.owner = r.op /\ ~role.login
    /\ role' = [role EXCEPT !.login = TRUE]
    /\ UNCHANGED <<file, bundle, loaded, sighup>>

\* _CA_SCRIPT: the bundle is linked once; an existing one must be the same.
WriteBundle(r, input) ==
    /\ r.kind = "bundle"
    /\ bundle[r.op] \in {"absent", input}
    /\ bundle' = [bundle EXCEPT ![r.op] = input]
    /\ UNCHANGED <<role, file, loaded, sighup>>

\* Variant: the file is replaced whatever is in it now.
ReplaceFileBlindly(r, input) ==
    /\ r.kind \in {"ident", "hba"} /\ input = "whole"
    /\ file' = [file EXCEPT ![r.kind] = Rules(r.op, r.kind)]
    /\ UNCHANGED <<role, bundle, loaded, sighup>>

\* _CAS_SCRIPT: the file is replaced by the input if it is the expected one.
\* The script does not know how much input it should have got.
ReplaceFile(r, input) ==
    /\ r.kind \in {"ident", "hba"}
    /\ file[r.kind] = r.expected
    /\ IF input = "whole"
       THEN file' = [file EXCEPT ![r.kind] = Rules(r.op, r.kind)]
       ELSE \E blocks \in {{}, Rules(r.op, r.kind).blocks}, state \in {"lost", "torn"} :
               file' = [file EXCEPT ![r.kind].blocks = blocks, ![r.kind].state = state]
    /\ UNCHANGED <<role, bundle, loaded, sighup>>

\* _AUTO_SCRIPT install: the block is appended unless it is there; what is
\* left without it must be what the plan was made on.
InstallAuto(r, input) ==
    /\ r.kind = "auto"
    /\ Base(r.op, file["auto"]) = r.expected
    /\ IF r.op \in file["auto"].blocks
       THEN input = "whole" /\ UNCHANGED file
       ELSE IF input = "whole"
            THEN file' = [file EXCEPT !["auto"] = Rules(r.op, "auto")]
            ELSE file' = [file EXCEPT !["auto"].state = "broken"]
    /\ UNCHANGED <<role, bundle, loaded, sighup>>

\* pg_reload_conf only signals the postmaster.
RequestReload(r) ==
    /\ r.kind = "reload"
    /\ sighup' = TRUE
    /\ UNCHANGED <<role, file, bundle, loaded>>

\* SQL that is cut is rolled back; a script runs with the input it got.
Effect(r, input) ==
    \/ input = "whole" /\ (CreateRole(r) \/ DisableRole(r) \/ EnableRole(r) \/ RequestReload(r))
    \/ WriteBundle(r, input)
    \/ ReplaceFile(r, input)
    \/ InstallAuto(r, input)

\* The other outcome: an error, which changes nothing.
Fails(r) ==
    CASE r.kind = "create" -> role.owner # None
      [] r.kind = "disable" -> role.owner # r.op
      [] r.kind = "enable" -> role.owner # r.op \/ role.login
      [] r.kind = "bundle" -> bundle[r.op] = "cut"
      [] r.kind \in {"ident", "hba"} -> file[r.kind] # r.expected
      [] r.kind = "auto" -> Base(r.op, file["auto"]) # r.expected
      [] r.kind = "reload" -> FALSE

-----------------------------------------------------------------------------
(* apply, one action per call                                              *)

\* prepare: snapshot and validate_provision
Prepare(o) ==
    /\ pc = "idle" /\ plan[o] = None
    /\ Layout /\ role.owner = None
    /\ plan' = [plan EXCEPT ![o] = file]
    /\ UNCHANGED <<server, client, applied, orphans>>

\* The coordinator calls apply while the operation has no db.applied.json.
Begin(o) ==
    /\ pc = "idle" /\ plan[o] # None /\ o \notin applied
    /\ pc' = "snapshot" /\ op' = o
    /\ UNCHANGED <<server, plan, seen, fresh, applied, orphans>>

\* Variant: only untouched files are gone on from.
ResumableUntouched ==
    /\ Layout
    /\ \A f \in {"ident", "hba"} : file[f] = plan[op][f]
    /\ role.owner \in {None, op}

\* apply goes on from files that are as planned or already as intended, and
\* from a role that is its own.
Resumable ==
    /\ Layout
    /\ \A f \in {"ident", "hba"} : file[f] \in {plan[op][f], Rules(op, f)}
    /\ CaSetting \in {plan[op]["auto"].blocks, plan[op]["auto"].blocks \cup {op}}
    /\ role.owner \in {None, op}

\* _check_rules reads the files, not what is loaded.
RulesThere == \A f \in {"ident", "hba"} : op \in file[f].blocks /\ Parses(file[f])

\* Variant: any load counts, also one before the files were written.
ReloadedEver == op \in CaSetting /\ Layout

\* The answer _reload polls for.
Reloaded == op \in CaSetting /\ Layout /\ fresh

\* The second snapshot, before the role is opened.
AsIntended ==
    /\ Layout /\ role = [owner |-> op, login |-> FALSE]
    /\ op \in CaSetting /\ bundle[op] = "whole"
    /\ file["auto"] = seen.file["auto"]
    /\ \A f \in {"ident", "hba"} : file[f] = Rules(op, f)

\* verify_applied compares blocks only.
Reconciled ==
    /\ Layout /\ role = [owner |-> op, login |-> TRUE]
    /\ \A f \in Files : op \in file[f].blocks
    /\ op \in CaSetting /\ bundle[op] = "whole"

Permitted ==
    CASE pc = "snapshot" -> Resumable
      [] pc = "observe"  -> Base(op, file["auto"]) = plan[op]["auto"]
      [] pc = "rules"    -> RulesThere
      [] pc = "poll"     -> Reloaded
      [] pc = "recheck"  -> AsIntended
      [] pc = "verify"   -> Reconciled
      [] OTHER           -> TRUE

\* Variant: the files are written before there is a role of the operation.
AfterFilesFirst ==
    [snapshot |-> "observe", observe |-> "ident", ident |-> "hba", hba |-> "role", role |-> "bundle",
     bundle |-> "auto", auto |-> "rules", rules |-> "loadtime", loadtime |-> "reload",
     reload |-> "poll", poll |-> "recheck", recheck |-> "enable", enable |-> "verify",
     verify |-> "idle"]

\* The calls of apply in their order
After == [snapshot |-> "observe", observe |-> "role", role |-> "bundle", bundle |-> "ident",
          ident |-> "hba", hba |-> "auto", auto |-> "rules", rules |-> "loadtime",
          loadtime |-> "reload", reload |-> "poll", poll |-> "recheck", recheck |-> "enable",
          enable |-> "verify", verify |-> "idle"]

Goto(label) ==
    /\ pc' = label
    /\ op' = IF label = "idle" THEN None ELSE op

Snapshot ==
    /\ pc = "snapshot" /\ Permitted
    /\ seen' = [role |-> role.owner, file |-> file]
    /\ Goto(After[pc])
    /\ UNCHANGED <<server, plan, fresh, applied, orphans>>

\* _auto observe, _check_rules, the polls of _reload, the second snapshot
Read ==
    /\ pc \in {"observe", "rules", "poll", "recheck"} /\ Permitted
    /\ Goto(After[pc])
    /\ UNCHANGED <<server, plan, seen, fresh, applied, orphans>>

\* The request a label makes: ident and hba are replaced against the snapshot,
\* auto against the plan.
RequestOf(label) ==
    LET kind == IF label = "role" THEN IF seen.role = None THEN "create" ELSE "disable"
                                  ELSE label
    IN [kind |-> kind, op |-> op,
        expected |-> CASE kind \in {"ident", "hba"} -> seen.file[kind]
                       [] kind = "auto" -> plan[op]["auto"]
                       [] OTHER -> None]

Changes == {"role", "bundle", "ident", "hba", "auto", "reload", "enable"}

\* apply replaces a file only if the snapshot did not have its rules.
Needed(label) == label \in {"ident", "hba"} => seen.file[label] # Rules(op, label)

Change ==
    /\ pc \in Changes /\ Needed(pc)
    /\ Effect(RequestOf(pc), "whole")
    /\ seen' = IF pc = "auto" THEN [seen EXCEPT !.file["auto"] = file'["auto"]] ELSE seen
    /\ Goto(After[pc])
    /\ UNCHANGED <<plan, fresh, applied, orphans>>

Skip ==
    /\ pc \in Changes /\ ~Needed(pc)
    /\ Goto(After[pc])
    /\ UNCHANGED <<server, plan, seen, fresh, applied, orphans>>

\* _reload reads loaded_at before it asks for the reload.
ReadLoadTime ==
    /\ pc = "loadtime"
    /\ fresh' = FALSE
    /\ Goto(After[pc])
    /\ UNCHANGED <<server, plan, seen, applied, orphans>>

\* verify_applied, and the coordinator saves db.applied.json
Verify ==
    /\ pc = "verify" /\ Permitted
    /\ applied' = applied \cup {op}
    /\ Goto("idle")
    /\ UNCHANGED <<server, plan, seen, fresh, orphans>>

\* A ContractError.  While the postmaster has not answered _reload polls; that
\* it gives up after twelve of them is one of the places where End bites.
Refuse ==
    /\ pc # "idle"
    /\ \/ ~Permitted
       \/ pc \in Changes /\ Needed(pc) /\ Fails(RequestOf(pc))
    /\ ~(pc = "poll" /\ sighup)
    /\ Goto("idle")
    /\ UNCHANGED <<server, plan, seen, fresh, applied, orphans>>

-----------------------------------------------------------------------------
(* Faults, the server and its administrator                                *)

\* The command ends, by its deadline or a signal, between two calls ...
End ==
    /\ "End" \in Faults /\ pc # "idle"
    /\ Goto("idle")
    /\ UNCHANGED <<server, plan, seen, fresh, applied, orphans>>

\* ... or within one, whose request stays.
Abandon ==
    /\ "End" \in Faults /\ pc \in Changes /\ Needed(pc)
    /\ Cardinality(orphans) < MaxOrphans
    /\ orphans' = orphans \cup {RequestOf(pc)}
    /\ Goto("idle")
    /\ UNCHANGED <<server, plan, seen, fresh, applied>>

\* An orphan takes effect, with as much of its input as the client had sent.
Late(r) ==
    /\ \/ Effect(r, "whole")
       \/ r.kind \in CutKinds /\ Effect(r, "cut")
    /\ orphans' = orphans \ {r}
    /\ UNCHANGED <<plan, client, applied>>

\* An orphan fails or was never accepted.
Vanish(r) ==
    /\ orphans' = orphans \ {r}
    /\ UNCHANGED <<server, plan, client, applied>>

\* The postmaster reads its files; one that does not parse is not taken over.
Load ==
    /\ sighup /\ sighup' = FALSE
    /\ loaded' = [f \in Files |-> IF Parses(file[f]) THEN file[f] ELSE loaded[f]]
    /\ fresh' = TRUE
    /\ UNCHANGED <<role, file, bundle, plan, pc, op, seen, applied, orphans>>

\* An administrator changes a file, at any time, and reloads or not.
Edit(f) ==
    /\ "Edit" \in Faults /\ file["ident"].rev + file["hba"].rev + file["auto"].rev < MaxEdits
    /\ file' = [file EXCEPT ![f].rev = @ + 1]
    /\ sighup' \in {sighup, TRUE}
    /\ UNCHANGED <<role, bundle, loaded, plan, client, applied, orphans>>

\* An administrator takes the tool's blocks out of a file and reloads, while
\* nothing of the tool runs.
Restore(f) ==
    /\ "Restore" \in Faults /\ pc = "idle" /\ orphans = {}
    /\ file[f].blocks # {} /\ ~sighup /\ Layout
    /\ file' = [file EXCEPT ![f].blocks = {}]
    /\ loaded' = file'
    /\ UNCHANGED <<role, bundle, sighup, plan, client, applied, orphans>>

-----------------------------------------------------------------------------
Work == Snapshot \/ Read \/ Change \/ Skip \/ ReadLoadTime \/ Verify

Next ==
    \/ \E o \in Ops : Prepare(o) \/ Begin(o)
    \/ Work \/ Refuse \/ End \/ Abandon
    \/ \E r \in orphans : Late(r) \/ Vanish(r)
    \/ Load
    \/ \E f \in Files : Edit(f) \/ Restore(f)

Spec == Init /\ [][Next]_vars

\* An end that is not the command's own refusal
Interrupted == (End \/ Abandon) /\ ~Refuse

\* A started command goes on, the postmaster handles its signal, the operator
\* reruns apply, and interruptions stop some day.
FairSpec ==
    /\ Spec
    /\ WF_vars(Work \/ Refuse) /\ WF_vars(Load)
    /\ \A o \in Ops : SF_vars(Begin(o))
    /\ <>[][~Interrupted]_vars

-----------------------------------------------------------------------------
(* Properties                                                              *)

\* Whose role it is decides whose rules there are: blocks in the files, what
\* the server has loaded and the bundles all belong to the operation whose
\* marker the role bears.  Competing provisions, and requests that outlive
\* their command, never mix (db_admin.py apply, 906-920).
OneOwner ==
    \A o \in Ops :
        (\/ \E f \in Files : o \in file[f].blocks \cup loaded[f].blocks
         \/ bundle[o] # "absent")
        => role.owner = o

\* The role is opened only when the server runs with its rules
\* (db_config.py:6: a new role must remain NOLOGIN until those rules are loaded):
\* the reload is asynchronous, and a rerun may find files that were changed
\* back in between.
OpensBehindRules ==
    [][~role.login /\ role'.login =>
          \A f \in Files : role.owner \in loaded[f].blocks]_vars

\* What an administrator wrote is neither put back to an older revision nor cut
\* (docs/local-lifecycle.md:11: apply preserves the existing HBA and ident):
\* a replacement computed from an old snapshot, or an orphan of an ended
\* command, must not overwrite an edit made since.
ForeignTextKept ==
    [][\A f \in Files : /\ file'[f].rev >= file[f].rev
                        /\ file'[f].state \in {"lost", "torn"} => file[f].state = file'[f].state]_vars

\* An operation that was applied stays applied as far as the tool goes
\* (process.py:24-26: a caller must reconcile the work its daemon goes on with).
AppliedStaysOpen == \A o \in applied : role = [owner |-> o, login |-> TRUE]

\* What apply refuses to touch: somebody else's role, a cut bundle, and files
\* that are no longer what the plan was made on.
Obstructed(o) ==
    \/ role.owner \notin {None, o}
    \/ bundle[o] = "cut"
    \/ plan[o] # None /\ \E f \in Files : \/ file[f].rev # plan[o][f].rev
                                         \/ file[f].state # "whole"

\* Rerunning apply completes, whatever half of it earlier runs have done,
\* whatever their requests still do, and though blocks were taken out meanwhile.
ApplyCompletes == \A o \in Ops : plan[o] # None ~> o \in applied \/ Obstructed(o)

\* What the coordinator takes this server for: the stage of the role.
Behind == \A f \in Files : role.owner \in loaded[f].blocks

Stage == IF role.owner = None THEN "clean"
         ELSE IF role.login THEN IF Behind THEN "ready" ELSE "exposed"
                            ELSE IF Behind THEN "files" ELSE "role"

Reader == INSTANCE ReaderServer
    WITH owner <- role.owner, stage <- Stage, Withdrawals <- "Restore" \in Faults

\* Whatever requests of ended commands still do and whatever is edited, the
\* server is the one the coordinator works with: its role keeps its owner, opens
\* only from behind the loaded rules, and loses them only to an administrator
\* who takes them out (db_admin.py apply, 901-958).
ImplementsReader == Reader!ServerSpec
=============================================================================
