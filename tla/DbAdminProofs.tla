---------------------------- MODULE DbAdminProofs ----------------------------
(***************************************************************************)
(* Theorems about DbAdmin, for any provisions, faults and bounds: one      *)
(* owner, the role is opened only behind its loaded rules, and the server  *)
(* is the ReaderServer the coordinator works with.                         *)
(***************************************************************************)
EXTENDS DbAdmin, TLAPS

Auth == {"ident", "hba"}     \* the files that are replaced

Resumed == {"observe", "role", "bundle", "ident", "hba"}
Opening == {"recheck", "enable", "verify"}
Reloading == {"loadtime", "reload", "poll"} \cup Opening
Past == {"bundle", "ident", "hba", "auto", "rules"} \cup Reloading

\* A running apply has a plan, and past its "role" the role is its own; a role
\* that the snapshot saw is still there.
CommandInv ==
    pc # "idle" =>
        /\ op \in Ops /\ plan[op] # None
        /\ pc \in Past => role.owner = op
        /\ pc \in {"observe", "role"} =>
             seen.role \in {None, op} /\ (seen.role # None => role.owner = op)

\* Plans were made while there was no block of anybody.
PlanInv == \A o \in Ops : plan[o] # None => \A f \in Files : plan[o][f].blocks = {}

\* What apply replaces: a file that was as planned, without blocks.
SeenInv ==
    pc \in Resumed => \A f \in Auth : seen.file[f] \in {plan[op][f], Rules(op, f)}

\* A request is of the role's owner, unless it is to create the role, and
\* replaces a file without blocks, the one its plan was made on.
RequestInv(r) ==
    /\ plan[r.op] # None
    /\ r.kind # "create" => role.owner = r.op
    /\ r.kind \in Auth => /\ r.expected = plan[r.op][r.kind]
                          /\ r.expected \in Text /\ r.expected.blocks = {}
    /\ r.kind = "auto" => r.expected = plan[r.op]["auto"]

\* The rules are in the files, then loaded, before the role is opened; and a
\* request to open it that is still on its way does not outlive them.
RulesInv ==
    /\ pc \in {"rules"} \cup Reloading => op \in file["auto"].blocks
    /\ pc \in Reloading => \A f \in Auth : op \in file[f].blocks /\ Parses(file[f])
    /\ pc \in {"reload", "poll"} /\ fresh => \A f \in Auth : op \in loaded[f].blocks
    /\ pc \in Opening => \A f \in Files : op \in loaded[f].blocks
    /\ \A r \in orphans : r.kind = "enable" =>
         \A f \in Files : r.op \in file[f].blocks /\ r.op \in loaded[f].blocks

IInv ==
    /\ TypeOK /\ OneOwner
    /\ CommandInv /\ PlanInv /\ SeenInv /\ RulesInv
    /\ \A r \in orphans : RequestInv(r)

\* A null is no record.
LEMMA PlanTyped ==
    ASSUME TypeOK, NEW o \in Ops, plan[o] # None
    PROVE  plan[o] \in [Files -> Text]
  BY DEF TypeOK

\* The texts apply writes: one block, the operation's own.
LEMMA RulesTyped ==
    ASSUME TypeOK, PlanInv, NEW o \in Ops, NEW f \in Files, plan[o] # None
    PROVE  /\ Rules(o, f) \in Text
           /\ Rules(o, f).blocks = {o}
           /\ Rules(o, f) # plan[o][f]
<1>1. plan[o][f] \in Text /\ plan[o][f].blocks = {}
  BY PlanTyped DEF PlanInv
<1> QED
  BY <1>1 DEF Rules, Text

LEMMA InitIInv == Init => IInv
<1> SUFFICES ASSUME Init PROVE IInv
  OBVIOUS
<1>1. Original \in Text /\ Original.blocks = {}
  BY DbAdminAssumption DEF Original, Text
<1>2. TypeOK
  BY <1>1 DEF Init, TypeOK, Labels
<1>3. OneOwner
  BY <1>1 DEF Init, OneOwner
<1>4. CommandInv /\ PlanInv /\ SeenInv /\ RulesInv /\ \A r \in orphans : RequestInv(r)
  BY DEF Init, CommandInv, PlanInv, SeenInv, RulesInv, Resumed, Reloading, Opening, Past
<1> QED
  BY <1>2, <1>3, <1>4 DEF IInv

-----------------------------------------------------------------------------
(* Effects of requests                                                     *)

\* What a request may do to the server.  Blocks are never taken away by one, and
\* a file that has some is not replaced.
Steady ==
    /\ role' \in [owner : Ops \cup {None}, login : BOOLEAN]
    /\ file' \in [Files -> Text]
    /\ bundle' \in [Ops -> {"absent", "whole", "cut"}]
    /\ sighup' \in BOOLEAN
    /\ loaded' = loaded
    /\ role.owner # None => role'.owner = role.owner
    /\ \A f \in Files : file[f].blocks \subseteq file'[f].blocks
    /\ \A f \in Auth : file[f].blocks # {} => file'[f] = file[f]
    /\ \A f \in Files, o \in Ops : o \in file'[f].blocks => o \in file[f].blocks \/ role'.owner = o
    /\ \A o \in Ops : bundle'[o] # "absent" => bundle[o] # "absent" \/ role'.owner = o

LEMMA ReplaceFileSteady ==
    ASSUME IInv, NEW r \in Request, RequestInv(r), NEW input \in {"whole", "cut"},
           ReplaceFile(r, input)
    PROVE  Steady
<1> DEFINE k == r.kind
<1>1. r.op \in Ops /\ k \in Auth /\ k \in Files /\ plan[r.op] # None
  BY DEF Request, ReplaceFile, RequestInv, Auth, Files
<1>2. file \in [Files -> Text] /\ file[k].blocks = {} /\ role.owner = r.op
  BY <1>1 DEF IInv, TypeOK, RequestInv, ReplaceFile, Auth
<1>3. Rules(r.op, k) \in Text /\ Rules(r.op, k).blocks = {r.op}
  BY <1>1, RulesTyped DEF IInv
<1>4. PICK text \in Text : /\ text.blocks \subseteq {r.op}
                           /\ file' = [file EXCEPT ![k] = text]
  <2>1. CASE input = "whole"
    BY <1>3, <2>1 DEF ReplaceFile
  <2>2. CASE input # "whole"
    <3>1. PICK blocks \in {{}, Rules(r.op, k).blocks}, state \in {"lost", "torn"} :
             file' = [file EXCEPT ![k].blocks = blocks, ![k].state = state]
      BY <2>2 DEF ReplaceFile
    <3>2. blocks \in SUBSET Ops /\ blocks \subseteq {r.op}
      BY <1>1, <1>3, <3>1
    <3> DEFINE text == [file[k] EXCEPT !.blocks = blocks, !.state = state]
    <3>3. text \in Text /\ text.blocks = blocks
      BY <1>1, <1>2, <3>1, <3>2 DEF Text
    <3>4. file' = [file EXCEPT ![k] = text]
      BY <3>1
    <3> QED
      BY <3>2, <3>3, <3>4
  <2> QED
    BY <2>1, <2>2
<1>5. UNCHANGED <<role, bundle, loaded, sighup>>
  BY DEF ReplaceFile
<1>6. file' \in [Files -> Text] /\ file'[k] = text /\ \A f \in Files \ {k} : file'[f] = file[f]
  BY <1>1, <1>2, <1>4
<1> QED
  BY <1>1, <1>2, <1>4, <1>5, <1>6 DEF Steady, IInv, TypeOK, Auth, Files

LEMMA InstallAutoSteady ==
    ASSUME IInv, NEW r \in Request, RequestInv(r), NEW input \in {"whole", "cut"},
           InstallAuto(r, input)
    PROVE  Steady
<1>1. r.op \in Ops /\ plan[r.op] # None /\ "auto" \in Files /\ r.kind = "auto"
  BY DEF Request, InstallAuto, RequestInv, Files
<1>2. file \in [Files -> Text] /\ role.owner = r.op
  BY <1>1 DEF IInv, TypeOK, RequestInv
<1>3. Rules(r.op, "auto") \in Text /\ Rules(r.op, "auto").blocks = {r.op}
  BY <1>1, RulesTyped DEF IInv
<1>4. UNCHANGED <<role, bundle, loaded, sighup>>
  BY DEF InstallAuto
<1>5. file["auto"].blocks \subseteq {r.op}
  BY <1>1, <1>2 DEF IInv, OneOwner, Text
<1>6. CASE r.op \in file["auto"].blocks
  <2>1. file' = file
    BY <1>6 DEF InstallAuto
  <2> QED
    BY <1>2, <1>4, <2>1 DEF Steady, IInv, TypeOK
<1>7. CASE r.op \notin file["auto"].blocks
  <2>1. PICK text \in Text : /\ text.blocks \subseteq {r.op}
                             /\ file' = [file EXCEPT !["auto"] = text]
    <3>1. CASE input = "whole"
      BY <1>3, <1>7, <3>1 DEF InstallAuto
    <3>2. CASE input # "whole"
      <4> DEFINE text == [file["auto"] EXCEPT !.state = "broken"]
      <4>1. file' = [file EXCEPT !["auto"] = text]
        BY <1>7, <3>2 DEF InstallAuto
      <4>2. text \in Text /\ text.blocks = file["auto"].blocks
        BY <1>1, <1>2 DEF Text
      <4> QED
        BY <1>5, <4>1, <4>2
    <3> QED
      BY <3>1, <3>2
  <2>2. file' \in [Files -> Text] /\ file'["auto"] = text
        /\ \A f \in Files \ {"auto"} : file'[f] = file[f]
    BY <1>1, <1>2, <2>1
  <2>3. file["auto"].blocks = {}
    BY <1>5, <1>7
  <2> QED
    BY <1>1, <1>2, <1>4, <2>1, <2>2, <2>3 DEF Steady, IInv, TypeOK, Auth, Files
<1> QED
  BY <1>6, <1>7

LEMMA EffectSteady ==
    ASSUME IInv, NEW r \in Request, RequestInv(r), NEW input \in {"whole", "cut"},
           Effect(r, input)
    PROVE  Steady
<1>1. r.op \in Ops
  BY DEF Request
<1>2. CASE CreateRole(r)
  BY <1>1, <1>2 DEF CreateRole, Steady, IInv, TypeOK
<1>3. CASE DisableRole(r)
  BY <1>1, <1>3 DEF DisableRole, Steady, IInv, TypeOK
<1>4. CASE EnableRole(r)
  BY <1>1, <1>4 DEF EnableRole, Steady, IInv, TypeOK
<1>5. CASE RequestReload(r)
  BY <1>1, <1>5 DEF RequestReload, Steady, IInv, TypeOK
<1>6. CASE WriteBundle(r, input)
  BY <1>1, <1>6 DEF WriteBundle, Steady, IInv, TypeOK, RequestInv
<1>7. CASE ReplaceFile(r, input)
  BY <1>7, ReplaceFileSteady
<1>8. CASE InstallAuto(r, input)
  BY <1>8, InstallAutoSteady
<1> QED
  BY <1>2, <1>3, <1>4, <1>5, <1>6, <1>7, <1>8 DEF Effect

-----------------------------------------------------------------------------
(* Steps                                                                   *)

\* Whatever acts on the server through requests keeps their conditions and
\* those on the files, the command standing still.
LEMMA SteadyKeeps ==
    ASSUME IInv, Steady, UNCHANGED plan
    PROVE  /\ OneOwner' /\ PlanInv'
           /\ \A r \in orphans : RequestInv(r)'
           /\ \A o \in Ops, f \in Files : Rules(o, f)' = Rules(o, f)
           /\ \A o \in Ops, f \in Files : o \in file[f].blocks => o \in file'[f].blocks
           /\ \A o \in Ops, f \in Auth : o \in file[f].blocks => Parses(file[f])' = Parses(file[f])
<1>1. OneOwner'
  <2> SUFFICES ASSUME NEW o \in Ops,
                      \/ \E f \in Files : o \in file'[f].blocks \cup loaded'[f].blocks
                      \/ bundle'[o] # "absent"
               PROVE  role'.owner = o
    BY DEF OneOwner
  <2>1. o # None
    BY DbAdminAssumption
  <2>2. role.owner = o => role'.owner = o
    BY <2>1 DEF Steady
  <2> QED
    BY <2>2 DEF Steady, IInv, OneOwner
<1>2. PlanInv'
  BY DEF IInv, PlanInv
<1>3. \A r \in orphans : RequestInv(r)'
  <2> SUFFICES ASSUME NEW r \in orphans PROVE RequestInv(r)'
    OBVIOUS
  <2>1. r.op \in Ops /\ r.op # None
    BY DbAdminAssumption DEF IInv, TypeOK, Request
  <2> QED
    BY <2>1 DEF IInv, RequestInv, Steady
<1>4. \A o \in Ops, f \in Files : Rules(o, f)' = Rules(o, f)
  BY DEF Rules
<1>5. \A o \in Ops, f \in Files : o \in file[f].blocks => o \in file'[f].blocks
  BY DEF Steady
<1>6. \A o \in Ops, f \in Auth : o \in file[f].blocks => Parses(file[f])' = Parses(file[f])
  BY DEF Steady, Parses, Auth, Files
<1> QED
  BY <1>1, <1>2, <1>3, <1>4, <1>5, <1>6

\* A step that changes neither server nor plan keeps what is said of these.
LEMMA QuietSteady ==
    ASSUME IInv, UNCHANGED server
    PROVE  Steady
  BY DEF IInv, TypeOK, Steady, server

\* What apply asks for is a request.
LEMMA RequestOfTyped ==
    ASSUME IInv, pc \in Changes, Needed(pc)
    PROVE  /\ RequestOf(pc) \in Request
           /\ RequestInv(RequestOf(pc))
           /\ RequestOf(pc).op = op
           /\ RequestOf(pc).kind = "enable" => pc = "enable"
           /\ pc = "enable" => RequestOf(pc).kind = "enable"
<1> DEFINE kind == IF pc = "role" THEN IF seen.role = None THEN "create" ELSE "disable"
                                  ELSE pc
           expected == CASE kind \in {"ident", "hba"} -> seen.file[kind]
                         [] kind = "auto" -> plan[op]["auto"]
                         [] OTHER -> None
<1>1. RequestOf(pc) = [kind |-> kind, op |-> op, expected |-> expected]
  BY DEF RequestOf
<1>2. kind \in Kinds
  BY DEF Changes, Kinds
<1>3. op \in Ops /\ plan[op] # None
  BY DEF IInv, CommandInv, Changes
<1>4. plan[op]["auto"] \in Text
  BY <1>3, PlanTyped DEF IInv, Files
<1>5. kind \in {"ident", "hba"} =>
        expected = plan[op][kind] /\ expected \in Text /\ expected.blocks = {}
  <2> SUFFICES ASSUME kind \in {"ident", "hba"}
               PROVE  expected = plan[op][kind] /\ expected \in Text /\ expected.blocks = {}
    OBVIOUS
  <2>1. pc = kind /\ kind \in Auth /\ kind \in Files /\ expected = seen.file[kind]
    BY DEF Auth, Files
  <2>2. seen.file[kind] \in {plan[op][kind], Rules(op, kind)}
    BY <2>1 DEF IInv, SeenInv, Resumed, Auth
  <2>3. seen.file[kind] = plan[op][kind]
    BY <2>1, <2>2 DEF Needed
  <2>4. plan[op][kind] \in Text /\ plan[op][kind].blocks = {}
    BY <1>3, <2>1, PlanTyped DEF IInv, PlanInv
  <2> QED
    BY <2>1, <2>3, <2>4
<1>6. expected \in Text \cup {None}
  BY <1>4, <1>5
<1>7. RequestOf(pc) \in Request
  BY <1>1, <1>2, <1>3, <1>6 DEF Request
<1>8. kind # "create" => role.owner = op
  BY DEF IInv, CommandInv, Past, Reloading, Opening, Changes
<1>9. RequestInv(RequestOf(pc))
  BY <1>1, <1>3, <1>5, <1>8 DEF RequestInv, Auth
<1> QED
  BY <1>1, <1>7, <1>9

\* The command ends: what is left are the requests without a client.
LEMMA IdleKeeps ==
    ASSUME IInv, UNCHANGED <<server, plan, seen, fresh>>, Goto("idle"),
           applied' \subseteq Ops, orphans' \subseteq Request,
           \A r \in orphans' : RequestInv(r),
           \A r \in orphans' : r.kind = "enable" =>
               \A f \in Files : r.op \in file[f].blocks /\ r.op \in loaded[f].blocks
    PROVE  IInv'
<1>1. pc' = "idle" /\ op' = None
  BY DEF Goto
<1>2. TypeOK'
  BY <1>1 DEF IInv, TypeOK, server, Labels
<1>3. OneOwner' /\ PlanInv'
  BY QuietSteady, SteadyKeeps DEF server
<1>4. CommandInv' /\ SeenInv'
  BY <1>1 DEF CommandInv, SeenInv, Resumed
<1>5. RulesInv'
  BY <1>1 DEF RulesInv, Reloading, Opening, server
<1>6. \A r \in orphans' : RequestInv(r)'
  BY DEF RequestInv, server
<1> QED
  BY <1>2, <1>3, <1>4, <1>5, <1>6 DEF IInv

LEMMA EndKeeps ==
    ASSUME IInv, Refuse \/ End \/ Abandon \/ Verify
    PROVE  IInv'
<1>1. UNCHANGED <<server, plan, seen, fresh>> /\ Goto("idle")
  BY DEF Refuse, End, Abandon, Verify
<1>2. applied' \subseteq Ops
  BY DEF Refuse, End, Abandon, Verify, IInv, TypeOK, CommandInv
<1>3. CASE orphans' = orphans
  BY <1>1, <1>2, <1>3, IdleKeeps DEF IInv, TypeOK, RulesInv
<1>4. CASE Abandon
  <2> DEFINE r == RequestOf(pc)
  <2>1. orphans' = orphans \cup {r} /\ pc \in Changes /\ Needed(pc)
    BY <1>4 DEF Abandon
  <2>2. r \in Request /\ RequestInv(r) /\ r.op = op /\ (r.kind = "enable" => pc = "enable")
    BY <2>1, RequestOfTyped
  <2>3. r.kind = "enable" => \A f \in Files : r.op \in file[f].blocks /\ r.op \in loaded[f].blocks
    BY <2>2 DEF IInv, RulesInv, Reloading, Opening, Auth, Files
  <2> HIDE DEF r
  <2> QED
    BY <1>1, <1>2, <2>1, <2>2, <2>3, IdleKeeps DEF IInv, TypeOK, RulesInv
<1> QED
  BY <1>3, <1>4 DEF Refuse, End, Verify

LEMMA PrepareKeeps ==
    ASSUME IInv, NEW o \in Ops, Prepare(o)
    PROVE  IInv'
<1>1. /\ pc = "idle" /\ plan[o] = None /\ role.owner = None
      /\ plan' = [plan EXCEPT ![o] = file]
      /\ UNCHANGED <<server, client, applied, orphans>>
  BY DEF Prepare
<1>2. file \in [Files -> Text] /\ plan \in [Ops -> [Files -> Text] \cup {None}]
  BY DEF IInv, TypeOK
<1>3. plan'[o] = file /\ \A q \in Ops \ {o} : plan'[q] = plan[q]
  BY <1>1, <1>2
<1>4. \A f \in Files : file[f].blocks = {}
  <2>1. \A f \in Files : file[f].blocks \subseteq Ops
    BY <1>2 DEF Text
  <2>2. \A f \in Files, q \in Ops : q \in file[f].blocks => role.owner = q
    BY DEF IInv, OneOwner
  <2> QED
    BY <1>1, <2>1, <2>2, DbAdminAssumption
<1>5. TypeOK'
  BY <1>1, <1>2, <1>3 DEF IInv, TypeOK, server, client
<1>6. OneOwner'
  BY <1>1 DEF IInv, OneOwner, server
<1>7. CommandInv' /\ SeenInv'
  BY <1>1 DEF CommandInv, SeenInv, Resumed, client
<1>8. PlanInv'
  BY <1>3, <1>4 DEF IInv, PlanInv
<1>9. RulesInv'
  BY <1>1 DEF IInv, RulesInv, Reloading, Opening, client, server, Parses
<1>10. \A r \in orphans' : RequestInv(r)'
  <2> SUFFICES ASSUME NEW r \in orphans PROVE RequestInv(r)'
    BY <1>1
  <2>1. r.op \in Ops /\ r.op # o
    BY <1>1 DEF IInv, TypeOK, Request, RequestInv
  <2> QED
    BY <1>1, <1>3, <2>1 DEF IInv, RequestInv, server
<1> QED
  BY <1>5, <1>6, <1>7, <1>8, <1>9, <1>10 DEF IInv

\* A step of the command that leaves the server alone.
LEMMA QuietKeeps ==
    ASSUME IInv, UNCHANGED <<server, plan, orphans, applied>>,
           pc' \in Labels, op' \in Ops \cup {None}, fresh' \in BOOLEAN,
           seen' \in [role : Ops \cup {None}, file : [Files -> Text]],
           CommandInv', SeenInv', RulesInv'
    PROVE  IInv'
<1>1. TypeOK'
  BY DEF IInv, TypeOK, server
<1>2. OneOwner' /\ PlanInv' /\ \A r \in orphans : RequestInv(r)'
  BY QuietSteady, SteadyKeeps
<1> QED
  BY <1>1, <1>2 DEF IInv

LEMMA BeginKeeps ==
    ASSUME IInv, NEW o \in Ops, Begin(o)
    PROVE  IInv'
<1>1. /\ pc' = "snapshot" /\ op' = o /\ plan[o] # None
      /\ UNCHANGED <<server, plan, seen, fresh, applied, orphans>>
  BY DEF Begin
<1>2. CommandInv' /\ SeenInv'
  BY <1>1 DEF CommandInv, SeenInv, Past, Reloading, Opening, Resumed
<1>3. RulesInv'
  BY <1>1 DEF IInv, RulesInv, Reloading, Opening, server
<1> QED
  BY <1>1, <1>2, <1>3, QuietKeeps DEF IInv, TypeOK, Labels

LEMMA SnapshotKeeps ==
    ASSUME IInv, Snapshot
    PROVE  IInv'
<1>1. /\ pc = "snapshot" /\ pc' = "observe" /\ op' = op /\ Resumable
      /\ seen' = [role |-> role.owner, file |-> file]
      /\ UNCHANGED <<server, plan, fresh, applied, orphans>>
  BY DEF Snapshot, Permitted, Goto, After
<1>2. CommandInv'
  BY <1>1 DEF IInv, CommandInv, Past, Reloading, Opening, Resumable, server
<1>3. SeenInv'
  BY <1>1 DEF SeenInv, Resumable, Auth, Rules
<1>4. RulesInv'
  BY <1>1 DEF IInv, RulesInv, Reloading, Opening, server
<1> QED
  BY <1>1, <1>2, <1>3, <1>4, QuietKeeps DEF IInv, TypeOK, Labels

LEMMA ReadKeeps ==
    ASSUME IInv, Read
    PROVE  IInv'
<1>1. /\ op' = op
      /\ UNCHANGED <<server, plan, seen, fresh, applied, orphans>>
      /\ \/ pc = "observe" /\ pc' = "role"
         \/ pc = "rules" /\ pc' = "loadtime" /\ RulesThere
         \/ pc = "poll" /\ pc' = "recheck" /\ Reloaded
         \/ pc = "recheck" /\ pc' = "enable"
  BY DEF Read, Permitted, Goto, After
<1>2. CommandInv'
  BY <1>1 DEF IInv, CommandInv, Past, Reloading, Opening, server
<1>3. SeenInv'
  BY <1>1 DEF IInv, SeenInv, Resumed, Rules, Auth
<1>4. RulesInv'
  <2>1. CASE pc = "observe"
    BY <1>1, <2>1 DEF IInv, RulesInv, Reloading, Opening, server
  <2>2. CASE pc = "rules"
    BY <1>1, <2>2 DEF IInv, RulesInv, Reloading, Opening, server, RulesThere, Auth, Parses
  <2>3. CASE pc = "poll"
    BY <1>1, <2>3 DEF IInv, RulesInv, Reloading, Opening, server, Reloaded, CaSetting, Auth, Files, Parses
  <2>4. CASE pc = "recheck"
    BY <1>1, <2>4 DEF IInv, RulesInv, Reloading, Opening, server, Parses
  <2> QED
    BY <1>1, <2>1, <2>2, <2>3, <2>4
<1> QED
  BY <1>1, <1>2, <1>3, <1>4, QuietKeeps DEF IInv, TypeOK, Labels

LEMMA ReadLoadTimeKeeps ==
    ASSUME IInv, ReadLoadTime
    PROVE  IInv'
<1>1. /\ pc = "loadtime" /\ pc' = "reload" /\ op' = op /\ fresh' = FALSE
      /\ UNCHANGED <<server, plan, seen, applied, orphans>>
  BY DEF ReadLoadTime, Goto, After
<1>2. CommandInv' /\ SeenInv'
  BY <1>1 DEF IInv, CommandInv, SeenInv, Resumed, Past, Reloading, Opening, server
<1>3. RulesInv'
  BY <1>1 DEF IInv, RulesInv, Reloading, Opening, server, Parses
<1> QED
  BY <1>1, <1>2, <1>3, QuietKeeps DEF IInv, TypeOK, Labels

LEMMA SkipKeeps ==
    ASSUME IInv, Skip
    PROVE  IInv'
<1>1. /\ op' = op
      /\ UNCHANGED <<server, plan, seen, fresh, applied, orphans>>
      /\ \/ pc = "ident" /\ pc' = "hba"
         \/ pc = "hba" /\ pc' = "auto"
  BY DEF Skip, Needed, Goto, After
<1>2. CommandInv' /\ SeenInv'
  BY <1>1 DEF IInv, CommandInv, SeenInv, Resumed, Past, Reloading, Opening, server, Rules
<1>3. RulesInv'
  BY <1>1 DEF IInv, RulesInv, Reloading, Opening, server
<1> QED
  BY <1>1, <1>2, <1>3, QuietKeeps DEF IInv, TypeOK, Labels

LEMMA ChangeKeeps ==
    ASSUME IInv, Change
    PROVE  IInv'
<1> DEFINE r == RequestOf(pc)
<1>1. /\ pc \in Changes /\ Needed(pc) /\ Effect(r, "whole")
      /\ pc' = After[pc] /\ op' = op /\ op \in Ops
      /\ UNCHANGED <<plan, fresh, applied, orphans>>
      /\ pc # "auto" => seen' = seen
  BY DEF Change, Goto, After, Changes, IInv, CommandInv
<1>2. r \in Request /\ RequestInv(r) /\ r.op = op /\ (r.kind = "enable" <=> pc = "enable")
  BY <1>1, RequestOfTyped
<1>3. Steady
  BY <1>1, <1>2, EffectSteady
<1>4. /\ OneOwner' /\ PlanInv' /\ \A q \in orphans : RequestInv(q)'
      /\ \A o \in Ops, f \in Files : Rules(o, f)' = Rules(o, f)
      /\ \A o \in Ops, f \in Files : o \in file[f].blocks => o \in file'[f].blocks
      /\ \A o \in Ops, f \in Auth : o \in file[f].blocks => Parses(file[f])' = Parses(file[f])
  BY <1>1, <1>3, SteadyKeeps
<1>5. role'.owner = op
  <2>1. CASE pc = "role"
    <3>1. CreateRole(r) \/ DisableRole(r)
      BY <1>1, <2>1 DEF Effect, RequestOf, CreateRole, DisableRole, EnableRole, RequestReload,
         WriteBundle, ReplaceFile, InstallAuto
    <3>2. CASE CreateRole(r)
      BY <1>2, <3>2 DEF CreateRole
    <3>3. CASE DisableRole(r)
      BY <1>2, <3>3 DEF DisableRole, IInv, TypeOK
    <3> QED
      BY <3>1, <3>2, <3>3
  <2>2. CASE pc # "role"
    <3>1. role.owner = op
      BY <1>1, <2>2 DEF IInv, CommandInv, Past, Reloading, Opening, Changes
    <3> QED
      BY <1>1, <1>3, <3>1, DbAdminAssumption DEF Steady
  <2> QED
    BY <2>1, <2>2
<1>6. seen' \in [role : Ops \cup {None}, file : [Files -> Text]]
  <2>1. CASE pc = "auto"
    <3>1. seen' = [seen EXCEPT !.file["auto"] = file'["auto"]]
      BY <2>1 DEF Change
    <3>2. file'["auto"] \in Text
      BY <1>3 DEF Steady, Files
    <3>3. seen.file \in [Files -> Text] /\ seen \in [role : Ops \cup {None}, file : [Files -> Text]]
      BY DEF IInv, TypeOK
    <3>4. [seen.file EXCEPT !["auto"] = file'["auto"]] \in [Files -> Text]
      BY <3>2, <3>3
    <3> QED
      BY <3>1, <3>3, <3>4
  <2>2. CASE pc # "auto"
    BY <1>1, <2>2 DEF IInv, TypeOK
  <2> QED
    BY <2>1, <2>2
<1>7. TypeOK'
  BY <1>1, <1>3, <1>6 DEF IInv, TypeOK, Steady, Labels, Changes, After
<1>8. CommandInv'
  BY <1>1, <1>5 DEF IInv, CommandInv, Changes, After
<1>9. SeenInv'
  BY <1>1, <1>4 DEF IInv, SeenInv, Changes, After, Resumed, Auth, Files
<1>10. pc = "auto" => op \in file'["auto"].blocks
  <2> SUFFICES ASSUME pc = "auto" PROVE op \in file'["auto"].blocks
    OBVIOUS
  <2>1. InstallAuto(r, "whole")
    BY <1>1 DEF Effect, RequestOf, CreateRole, DisableRole, EnableRole, RequestReload,
         WriteBundle, ReplaceFile
  <2>2. Rules(op, "auto").blocks = {op}
    BY <1>1, RulesTyped DEF IInv, CommandInv, Files
  <2>3. file \in [Files -> Text] /\ "auto" \in Files
    BY DEF IInv, TypeOK, Files
  <2> QED
    BY <1>2, <2>1, <2>2, <2>3 DEF InstallAuto
<1>11. RulesInv'
  <2>1. pc' \in {"rules"} \cup Reloading => op' \in file'["auto"].blocks
    BY <1>1, <1>4, <1>10 DEF IInv, RulesInv, Changes, After, Reloading, Opening, Files
  <2>2. pc' \in Reloading => \A f \in Auth : op' \in file'[f].blocks /\ Parses(file[f])'
    BY <1>1, <1>4 DEF IInv, RulesInv, Changes, After, Reloading, Opening, Auth, Files
  <2>3. pc' \in {"reload", "poll"} /\ fresh' => \A f \in Auth : op' \in loaded'[f].blocks
    BY <1>1, <1>3 DEF IInv, RulesInv, Changes, After, Steady
  <2>4. pc' \in Opening => \A f \in Files : op' \in loaded'[f].blocks
    BY <1>1, <1>3 DEF IInv, RulesInv, Changes, After, Opening, Steady
  <2>5. \A q \in orphans' : q.kind = "enable" =>
          \A f \in Files : q.op \in file'[f].blocks /\ q.op \in loaded'[f].blocks
    BY <1>1, <1>3, <1>4 DEF IInv, TypeOK, Request, RulesInv, Steady
  <2> QED
    BY <2>1, <2>2, <2>3, <2>4, <2>5 DEF RulesInv
<1> QED
  BY <1>1, <1>4, <1>7, <1>8, <1>9, <1>11 DEF IInv

\* A late request: the command is where it was.
LEMMA LateKeeps ==
    ASSUME IInv, NEW r \in orphans, Late(r) \/ Vanish(r)
    PROVE  IInv'
<1>1. /\ UNCHANGED <<plan, pc, op, seen, fresh, applied>> /\ orphans' \subseteq orphans
  BY DEF Late, Vanish, client
<1>2. r \in Request /\ RequestInv(r)
  BY DEF IInv, TypeOK
<1>3. Steady
  BY <1>2, EffectSteady, QuietSteady DEF Late, Vanish
<1>4. /\ OneOwner' /\ PlanInv' /\ \A q \in orphans : RequestInv(q)'
      /\ \A o \in Ops, f \in Files : Rules(o, f)' = Rules(o, f)
      /\ \A o \in Ops, f \in Files : o \in file[f].blocks => o \in file'[f].blocks
      /\ \A o \in Ops, f \in Auth : o \in file[f].blocks => Parses(file[f])' = Parses(file[f])
  BY <1>1, <1>3, SteadyKeeps
<1>5. TypeOK'
  BY <1>1, <1>3 DEF IInv, TypeOK, Steady
<1>6. CommandInv'
  BY <1>1, <1>3, DbAdminAssumption DEF IInv, CommandInv, Steady
<1>7. SeenInv'
  BY <1>1, <1>4 DEF IInv, SeenInv, CommandInv, Resumed, Auth, Files
<1>8. RulesInv'
  <2>1. op \in Ops \/ pc = "idle"
    BY DEF IInv, CommandInv
  <2>2. pc \in {"rules"} \cup Reloading => op \in file'["auto"].blocks
    BY <1>4, <2>1 DEF IInv, RulesInv, Reloading, Opening, Files
  <2>3. pc \in Reloading => \A f \in Auth : op \in file'[f].blocks /\ Parses(file[f])'
    BY <1>4, <2>1 DEF IInv, RulesInv, Reloading, Opening, Auth, Files
  <2>4. \A q \in orphans' : q.kind = "enable" =>
          \A f \in Files : q.op \in file'[f].blocks /\ q.op \in loaded'[f].blocks
    BY <1>1, <1>3, <1>4 DEF IInv, TypeOK, Request, RulesInv, Steady
  <2> QED
    BY <1>1, <1>3, <2>2, <2>3, <2>4 DEF IInv, RulesInv, Steady
<1> QED
  BY <1>1, <1>4, <1>5, <1>6, <1>7, <1>8 DEF IInv

LEMMA LoadKeeps ==
    ASSUME IInv, Load
    PROVE  IInv'
<1>1. /\ loaded' = [f \in Files |-> IF Parses(file[f]) THEN file[f] ELSE loaded[f]]
      /\ fresh' = TRUE /\ sighup' = FALSE
      /\ UNCHANGED <<role, file, bundle, plan, pc, op, seen, applied, orphans>>
  BY DEF Load
<1>2. \A f \in Files : loaded'[f] \in {file[f], loaded[f]}
                       /\ (Parses(file[f]) => loaded'[f] = file[f])
  BY <1>1
<1>3. TypeOK'
  BY <1>1, <1>2 DEF IInv, TypeOK
<1>4. OneOwner'
  BY <1>1, <1>2 DEF IInv, OneOwner
<1>5. CommandInv' /\ PlanInv' /\ SeenInv' /\ \A r \in orphans' : RequestInv(r)'
  BY <1>1 DEF IInv, CommandInv, PlanInv, SeenInv, RequestInv, Rules
<1>6. RulesInv'
  <2>1. pc \in {"reload", "poll"} => \A f \in Auth : op \in loaded'[f].blocks
    BY <1>2 DEF IInv, RulesInv, Reloading, Auth, Files
  <2>2. pc \in Opening => \A f \in Files : op \in loaded'[f].blocks
    BY <1>2 DEF IInv, RulesInv, Reloading, Auth, Files
  <2>3. \A r \in orphans : r.kind = "enable" => \A f \in Files : r.op \in loaded'[f].blocks
    BY <1>2 DEF IInv, RulesInv
  <2> QED
    BY <1>1, <2>1, <2>2, <2>3 DEF IInv, RulesInv, Parses
<1> QED
  BY <1>3, <1>4, <1>5, <1>6 DEF IInv

LEMMA EditKeeps ==
    ASSUME IInv, NEW e \in Files, Edit(e)
    PROVE  IInv'
<1>2. file \in [Files -> Text]
  BY DEF IInv, TypeOK
<1>0. file[e].rev < MaxEdits
  <2>1. \A f \in Files : file[f].rev \in Nat
    BY <1>2 DEF Text
  <2> QED
    BY <2>1, DbAdminAssumption DEF Edit, Files
<1>1. /\ UNCHANGED <<role, bundle, loaded, plan, pc, op, seen, fresh, applied, orphans>>
      /\ sighup' \in BOOLEAN
      /\ file[e].rev < MaxEdits
      /\ file' = [file EXCEPT ![e].rev = @ + 1]
  BY <1>0 DEF Edit, client, IInv, TypeOK
<1>3. /\ file' \in [Files -> Text]
      /\ \A f \in Files : file'[f].blocks = file[f].blocks /\ file'[f].state = file[f].state
  BY <1>1, <1>2, DbAdminAssumption DEF Text
<1>4. TypeOK'
  BY <1>1, <1>3 DEF IInv, TypeOK
<1>5. OneOwner' /\ PlanInv' /\ CommandInv' /\ SeenInv' /\ \A r \in orphans' : RequestInv(r)'
  BY <1>1, <1>3 DEF IInv, OneOwner, CommandInv, PlanInv, SeenInv, RequestInv, Rules
<1>6. RulesInv'
  BY <1>1, <1>3 DEF IInv, RulesInv, Parses, Auth, Files
<1> QED
  BY <1>4, <1>5, <1>6 DEF IInv

LEMMA RestoreKeeps ==
    ASSUME IInv, NEW e \in Files, Restore(e)
    PROVE  IInv'
<1>1. /\ UNCHANGED <<role, bundle, sighup, plan, pc, op, seen, fresh, applied, orphans>>
      /\ pc = "idle" /\ orphans = {} /\ loaded' = file'
      /\ file' = [file EXCEPT ![e].blocks = {}]
  BY DEF Restore, client
<1>2. file \in [Files -> Text]
  BY DEF IInv, TypeOK
<1>3. /\ file' \in [Files -> Text]
      /\ \A f \in Files : file'[f].blocks \subseteq file[f].blocks
  BY <1>1, <1>2 DEF Text
<1>4. TypeOK'
  BY <1>1, <1>3 DEF IInv, TypeOK
<1>5. OneOwner'
  BY <1>1, <1>3 DEF IInv, OneOwner
<1>6. PlanInv' /\ CommandInv' /\ SeenInv' /\ RulesInv' /\ \A r \in orphans' : RequestInv(r)'
  BY <1>1 DEF IInv, CommandInv, PlanInv, SeenInv, RulesInv, Resumed, Reloading, Opening
<1> QED
  BY <1>4, <1>5, <1>6 DEF IInv

LEMMA NextIInv == IInv /\ [Next]_vars => IInv'
<1> SUFFICES ASSUME IInv, [Next]_vars PROVE IInv'
  OBVIOUS
<1>1. CASE UNCHANGED vars
  BY <1>1 DEF vars, server, client, IInv, TypeOK, OneOwner, CommandInv, PlanInv, SeenInv, RulesInv,
              RequestInv, Rules, Parses
<1>2. ASSUME NEW o \in Ops, Prepare(o) \/ Begin(o) PROVE IInv'
  BY <1>2, PrepareKeeps, BeginKeeps
<1>3. CASE Work
  BY <1>3, SnapshotKeeps, ReadKeeps, ChangeKeeps, SkipKeeps, ReadLoadTimeKeeps, EndKeeps DEF Work
<1>4. CASE Refuse \/ End \/ Abandon
  BY <1>4, EndKeeps
<1>5. ASSUME NEW r \in orphans, Late(r) \/ Vanish(r) PROVE IInv'
  BY <1>5, LateKeeps
<1>6. CASE Load
  BY <1>6, LoadKeeps
<1>7. ASSUME NEW f \in Files, Edit(f) \/ Restore(f) PROVE IInv'
  BY <1>7, EditKeeps, RestoreKeeps
<1> QED
  BY <1>1, <1>2, <1>3, <1>4, <1>5, <1>6, <1>7 DEF Next

LEMMA SpecIInv == Spec => []IInv
<1>1. Init => IInv
  BY InitIInv
<1>2. IInv /\ [Next]_vars => IInv'
  BY NextIInv
<1> QED
  BY <1>1, <1>2, PTL DEF Spec

-----------------------------------------------------------------------------
(* The role is opened by a request to open it, of a command or left over.    *)

OpensBehind ==
    ~role.login /\ role'.login => \A f \in Files : role.owner \in loaded[f].blocks

LEMMA EffectOpens ==
    ASSUME TypeOK, NEW r, NEW input, Effect(r, input), ~role.login, role'.login
    PROVE  r.kind = "enable" /\ role.owner = r.op
<1>1. CASE CreateRole(r)
  BY <1>1 DEF CreateRole
<1>2. CASE DisableRole(r)
  BY <1>2 DEF DisableRole, TypeOK
<1>3. CASE EnableRole(r)
  BY <1>3 DEF EnableRole
<1>4. CASE UNCHANGED role
  BY <1>4
<1> QED
  BY <1>1, <1>2, <1>3, <1>4 DEF Effect, RequestReload, WriteBundle, ReplaceFile, InstallAuto

LEMMA NextOpens == IInv /\ [Next]_vars => OpensBehind
<1> SUFFICES ASSUME IInv, [Next]_vars, ~role.login, role'.login
             PROVE  \A f \in Files : role.owner \in loaded[f].blocks
  BY DEF OpensBehind
<1>1. role' # role
  OBVIOUS
<1>2. CASE Change
  <2>1. pc \in Changes /\ Needed(pc) /\ Effect(RequestOf(pc), "whole")
    BY <1>2 DEF Change
  <2>2. pc = "enable" /\ role.owner = op
    BY <2>1, EffectOpens, RequestOfTyped DEF IInv
  <2> QED
    BY <2>2 DEF IInv, RulesInv, Opening
<1>3. ASSUME NEW r \in orphans, Late(r)
      PROVE  \A f \in Files : role.owner \in loaded[f].blocks
  <2>1. r.kind = "enable" /\ role.owner = r.op
    BY <1>3, EffectOpens DEF Late, IInv
  <2> QED
    BY <2>1 DEF IInv, RulesInv
<1>4. CASE Snapshot \/ Read \/ Skip \/ ReadLoadTime \/ Verify
  BY <1>1, <1>4 DEF server, Snapshot, Read, Skip, ReadLoadTime, Verify
<1>5. CASE Refuse \/ End \/ Abandon \/ Load
  BY <1>1, <1>5 DEF server, Refuse, End, Abandon, Load
<1>6. CASE \E o \in Ops : Prepare(o) \/ Begin(o)
  BY <1>1, <1>6 DEF server, Prepare, Begin
<1>7. CASE \E f \in Files : Edit(f) \/ Restore(f)
  BY <1>1, <1>7 DEF Edit, Restore
<1>8. CASE \E r \in orphans : Vanish(r)
  BY <1>1, <1>8 DEF server, Vanish
<1>9. CASE UNCHANGED vars
  BY <1>1, <1>9 DEF vars, server
<1> QED
  BY <1>2, <1>3, <1>4, <1>5, <1>6, <1>7, <1>8, <1>9 DEF Next, Work

-----------------------------------------------------------------------------
\* Every variable of the database administration has its type.
THEOREM DbTypeOK == Spec => []TypeOK
<1>1. IInv => TypeOK
  BY DEF IInv
<1> QED
  BY <1>1, SpecIInv, PTL

\* For any number of provisions and late requests: blocks, loaded blocks and
\* bundles belong to the operation whose marker the role bears
\* (db_admin.py apply, 906-920).
THEOREM DbOneOwner == Spec => []OneOwner
<1>1. IInv => OneOwner
  BY DEF IInv
<1> QED
  BY <1>1, SpecIInv, PTL

\* The role is opened only when the server runs with its rules, whoever edits
\* files, and also by a request that outlived its command
\* (db_config.py:6, db_admin.py:940-950).
THEOREM DbOpensBehindRules == Spec => OpensBehindRules
<1>1. IInv /\ [Next]_vars => [OpensBehind]_vars
  BY NextOpens
<1>2. [OpensBehind]_vars =>
        [~role.login /\ role'.login => \A f \in Files : role.owner \in loaded[f].blocks]_vars
  BY DEF OpensBehind
<1> QED
  BY <1>1, <1>2, SpecIInv, PTL DEF Spec, OpensBehindRules

-----------------------------------------------------------------------------
(* What others wrote.                                                        *)

\* A file keeps its revision, and is not cut.
Kept(f) == /\ file'[f].rev >= file[f].rev
           /\ file'[f].state \in {"lost", "torn"} => file[f].state = file'[f].state

LEMMA SameKept ==
    ASSUME IInv, NEW f \in Files, file'[f].rev = file[f].rev, file'[f].state = file[f].state
    PROVE  Kept(f)
<1>1. file[f].rev \in Nat
  BY DbAdminAssumption DEF IInv, TypeOK, Text
<1> QED
  BY <1>1 DEF Kept

\* A request with all its input puts a block into the file its plan was made
\* on; one that is cut leaves a block of the tool itself cut.
LEMMA EffectKeeps ==
    ASSUME IInv, NEW r \in Request, RequestInv(r), NEW input, Effect(r, input),
           r.kind \in Auth => input = "whole", NEW f \in Files
    PROVE  Kept(f)
<1>1. file \in [Files -> Text] /\ r.op \in Ops /\ plan[r.op] # None
  BY DEF IInv, TypeOK, Request, RequestInv
<1>2. \A g \in Files : /\ Rules(r.op, g).rev = plan[r.op][g].rev
                       /\ Rules(r.op, g).state = plan[r.op][g].state
  <2>1. \A g \in Files : plan[r.op][g] \in Text
    BY <1>1, PlanTyped DEF IInv
  <2> QED
    BY <2>1 DEF Rules, Text
<1>3. CASE UNCHANGED file
  BY <1>3, SameKept
<1>4. CASE ReplaceFile(r, input)
  <2>1. /\ file[r.kind] = plan[r.op][r.kind] /\ r.kind \in Files
        /\ file' = [file EXCEPT ![r.kind] = Rules(r.op, r.kind)]
    BY <1>4 DEF ReplaceFile, RequestInv, Auth, Files
  <2> QED
    BY <1>1, <1>2, <2>1, SameKept
<1>5. CASE InstallAuto(r, input) /\ file' # file
  <2>1. Base(r.op, file["auto"]) = plan[r.op]["auto"] /\ "auto" \in Files
    BY <1>5 DEF InstallAuto, RequestInv, Files
  <2>2. file["auto"].rev = plan[r.op]["auto"].rev /\ file["auto"].state = plan[r.op]["auto"].state
    BY <1>1, <2>1 DEF Base, Text
  <2>3. CASE file' = [file EXCEPT !["auto"] = Rules(r.op, "auto")]
    BY <1>1, <1>2, <2>1, <2>2, <2>3, SameKept
  <2>4. CASE file' = [file EXCEPT !["auto"].state = "broken"]
    <3>1. file'[f].rev = file[f].rev /\ file[f].rev \in Nat
      BY <1>1, <2>1, <2>4, DbAdminAssumption DEF Text
    <3>2. file'[f].state \in {"lost", "torn"} => file[f].state = file'[f].state
      BY <1>1, <2>1, <2>4 DEF Text
    <3> QED
      BY <3>1, <3>2 DEF Kept
  <2> QED
    BY <1>5, <2>3, <2>4 DEF InstallAuto
<1> QED
  BY <1>3, <1>4, <1>5 DEF Effect, CreateRole, DisableRole, EnableRole, RequestReload, WriteBundle

LEMMA NextKeeps ==
    ASSUME IInv, CutKinds \cap Auth = {}, [Next]_vars, NEW f \in Files
    PROVE  Kept(f)
<1>1. CASE Change
  <2>1. pc \in Changes /\ Needed(pc) /\ Effect(RequestOf(pc), "whole")
    BY <1>1 DEF Change
  <2> QED
    BY <2>1, RequestOfTyped, EffectKeeps
<1>2. ASSUME NEW r \in orphans, Late(r) PROVE Kept(f)
  <2>1. PICK input : Effect(r, input) /\ (r.kind \in Auth => input = "whole")
    BY <1>2 DEF Late
  <2>2. r \in Request /\ RequestInv(r)
    BY DEF IInv, TypeOK
  <2> QED
    BY <2>1, <2>2, EffectKeeps
<1>3. ASSUME NEW e \in Files, Edit(e) PROVE Kept(f)
  <2>1. file' = [file EXCEPT ![e].rev = @ + 1] /\ file \in [Files -> Text]
    BY <1>3 DEF Edit, IInv, TypeOK
  <2>2. file[f].rev \in Nat /\ file'[f].rev \in {file[f].rev, file[f].rev + 1}
        /\ file'[f].state = file[f].state
    BY <2>1, DbAdminAssumption DEF Text
  <2> QED
    BY <2>2 DEF Kept
<1>4. ASSUME NEW e \in Files, Restore(e) PROVE Kept(f)
  <2>1. file' = [file EXCEPT ![e].blocks = {}] /\ file \in [Files -> Text]
    BY <1>4 DEF Restore, IInv, TypeOK
  <2>2. file'[f].rev = file[f].rev /\ file'[f].state = file[f].state
    BY <2>1 DEF Text
  <2> QED
    BY <2>2, SameKept
<1>5. CASE UNCHANGED file
  BY <1>5, SameKept
<1>6. CASE Snapshot \/ Read \/ Skip \/ ReadLoadTime \/ Verify
  BY <1>5, <1>6 DEF server, Snapshot, Read, Skip, ReadLoadTime, Verify
<1>7. CASE Refuse \/ End \/ Abandon \/ Load
  BY <1>5, <1>7 DEF server, Refuse, End, Abandon, Load
<1>8. CASE (\E o \in Ops : Prepare(o) \/ Begin(o)) \/ (\E r \in orphans : Vanish(r))
  BY <1>5, <1>8 DEF server, Prepare, Begin, Vanish
<1>9. CASE UNCHANGED vars
  BY <1>5, <1>9 DEF vars, server
<1> QED
  BY <1>1, <1>2, <1>3, <1>4, <1>6, <1>7, <1>8, <1>9 DEF Next, Work

\* Unless the input of a late replacement may be cut, no request takes back or
\* cuts what an administrator wrote, however long it was on its way and whatever
\* was edited since its plan (docs/local-lifecycle.md:11).  That a cut one does
\* is what the run db_cut_input shows.
THEOREM DbForeignTextKept ==
    ASSUME CutKinds \cap Auth = {}
    PROVE  Spec => ForeignTextKept
<1>1. IInv /\ [Next]_vars =>
        [\A f \in Files : /\ file'[f].rev >= file[f].rev
                          /\ file'[f].state \in {"lost", "torn"} =>
                               file[f].state = file'[f].state]_vars
  BY NextKeeps DEF Kept
<1> QED
  BY <1>1, SpecIInv, PTL DEF Spec, ForeignTextKept

-----------------------------------------------------------------------------
(* What was applied.                                                         *)

\* Without requests that outlive their command, only the running one changes
\* the role, and it works on an operation that is not applied.
AppliedInv == orphans = {} /\ op \notin applied /\ AppliedStaysOpen

\* A command that changes the role finds it its own or absent, so that nothing
\* is applied.
LEMMA ChangeKeepsApplied ==
    ASSUME IInv, AppliedInv, Change
    PROVE  AppliedStaysOpen'
<1>1. /\ pc \in Changes /\ op \in Ops /\ RequestOf(pc).op = op
      /\ Effect(RequestOf(pc), "whole") /\ applied' = applied
  BY RequestOfTyped DEF Change, IInv, CommandInv, Changes
<1> DEFINE r == RequestOf(pc)
<1>2. CASE CreateRole(r) \/ DisableRole(r) \/ EnableRole(r)
  <2>1. role.owner \in {None, op}
    BY <1>1, <1>2 DEF CreateRole, DisableRole, EnableRole
  <2>2. applied = {}
    <3>1. \A o \in applied : role.owner = o /\ o \in Ops
      BY DEF AppliedInv, AppliedStaysOpen, IInv, TypeOK
    <3> QED
      BY <2>1, <3>1, DbAdminAssumption DEF AppliedInv
  <2> QED
    BY <1>1, <2>2 DEF AppliedStaysOpen
<1>3. CASE UNCHANGED role
  BY <1>1, <1>3 DEF AppliedInv, AppliedStaysOpen
<1> QED
  BY <1>1, <1>2, <1>3 DEF Effect, RequestReload, WriteBundle, ReplaceFile, InstallAuto

LEMMA NextAppliedInv ==
    ASSUME "End" \notin Faults, IInv, AppliedInv, [Next]_vars
    PROVE  AppliedInv'
<1> USE DbAdminAssumption
<1>0. None \notin applied /\ orphans = {} /\ op \notin applied /\ AppliedStaysOpen
  BY DEF IInv, TypeOK, AppliedInv
<1>1. CASE Change
  BY <1>0, <1>1, ChangeKeepsApplied DEF AppliedInv, Change, Goto
<1>2. CASE Verify
  <2>1. role = [owner |-> op, login |-> TRUE]
    BY <1>2 DEF Verify, Permitted, Reconciled
  <2>2. op \in Ops
    BY <1>2 DEF Verify, IInv, CommandInv
  <2>3. applied' = applied \cup {op} /\ op' = None /\ role' = role /\ orphans' = orphans
    BY <1>2 DEF Verify, Goto, server
  <2> QED
    BY <1>0, <2>1, <2>2, <2>3 DEF AppliedInv, AppliedStaysOpen
<1>3. CASE Snapshot \/ Read \/ Skip \/ ReadLoadTime \/ Refuse
  BY <1>0, <1>3 DEF Snapshot, Read, Skip, ReadLoadTime, Refuse, Goto, server, AppliedInv,
     AppliedStaysOpen
<1>4. ASSUME NEW o \in Ops, Prepare(o) \/ Begin(o) PROVE AppliedInv'
  BY <1>0, <1>4 DEF Prepare, Begin, server, client, AppliedInv, AppliedStaysOpen
<1>5. CASE Load
  BY <1>0, <1>5 DEF Load, AppliedInv, AppliedStaysOpen
<1>6. ASSUME NEW f \in Files, Edit(f) \/ Restore(f) PROVE AppliedInv'
  BY <1>0, <1>6 DEF Edit, Restore, client, AppliedInv, AppliedStaysOpen
<1>7. CASE UNCHANGED vars
  BY <1>0, <1>7 DEF vars, server, client, AppliedInv, AppliedStaysOpen
<1> QED
  BY <1>0, <1>1, <1>2, <1>3, <1>4, <1>5, <1>6, <1>7 DEF Next, Work, End, Abandon

\* As long as every call is seen to its end, an operation that was applied keeps
\* its open role, whatever other provisions are tried and rules are edited or
\* taken out (apply, 906-920): requests that outlive their command are the only
\* way to what the run db_late_disable finds.
THEOREM DbAppliedStaysOpen ==
    ASSUME "End" \notin Faults
    PROVE  Spec => []AppliedStaysOpen
<1>1. Init => AppliedInv
  BY DEF Init, AppliedInv, AppliedStaysOpen
<1>2. IInv /\ AppliedInv /\ [Next]_vars => AppliedInv'
  BY NextAppliedInv
<1>3. AppliedInv => AppliedStaysOpen
  BY DEF AppliedInv
<1> QED
  BY <1>1, <1>2, <1>3, SpecIInv, PTL DEF Spec

-----------------------------------------------------------------------------
(* The server as the coordinator sees it.                                    *)

\* What is loaded is still in the files: no request takes a block away.
LoadedThere == \A f \in Files : loaded[f].blocks \subseteq file[f].blocks

ReaderSteps == [Reader!ServerNext]_<<role.owner, Stage>>

\* How a server can change: by a request, its postmaster or an administrator.
LEMMA ServerChanges ==
    ASSUME IInv, [Next]_vars
    PROVE  \/ \E r \in Request, input \in {"whole", "cut"} : RequestInv(r) /\ Effect(r, input)
           \/ UNCHANGED server
           \/ Load
           \/ \E e \in Files : Edit(e) \/ Restore(e)
<1>1. CASE Change
  <2>1. pc \in Changes /\ Needed(pc) /\ Effect(RequestOf(pc), "whole")
    BY <1>1 DEF Change
  <2> QED
    BY <2>1, RequestOfTyped
<1>2. ASSUME NEW r \in orphans, Late(r)
      PROVE  \E q \in Request, input \in {"whole", "cut"} : RequestInv(q) /\ Effect(q, input)
  <2>1. r \in Request /\ RequestInv(r)
    BY DEF IInv, TypeOK
  <2> QED
    BY <1>2, <2>1 DEF Late
<1>3. CASE Snapshot \/ Read \/ Skip \/ ReadLoadTime \/ Verify
  BY <1>3 DEF Snapshot, Read, Skip, ReadLoadTime, Verify
<1>4. CASE Refuse \/ End \/ Abandon \/ UNCHANGED vars
  BY <1>4 DEF Refuse, End, Abandon, vars
<1>5. CASE (\E o \in Ops : Prepare(o) \/ Begin(o)) \/ (\E r \in orphans : Vanish(r))
  BY <1>5 DEF Prepare, Begin, Vanish
<1> QED
  BY <1>1, <1>2, <1>3, <1>4, <1>5 DEF Next, Work

\* A role keeps its owner and its rules, or what it gains is them.
LEMMA SameRole ==
    ASSUME UNCHANGED role, Behind => Behind'
    PROVE  ReaderSteps
<1>1. CASE Behind' <=> Behind
  BY <1>1 DEF ReaderSteps, Stage
<1>2. CASE ~Behind /\ Behind' /\ role.owner # None /\ role.login
  <2>1. Stage = "exposed" /\ Stage' = "ready" /\ role'.owner = role.owner
    BY <1>2 DEF Stage
  <2> QED
    BY <2>1 DEF ReaderSteps, Reader!ServerNext, Reader!LoadRules, Reader!Turn
<1>3. CASE ~Behind /\ Behind' /\ role.owner # None /\ ~role.login
  <2>1. Stage = "role" /\ Stage' = "files" /\ role'.owner = role.owner
    BY <1>3 DEF Stage
  <2> QED
    BY <2>1 DEF ReaderSteps, Reader!ServerNext, Reader!LoadRules, Reader!Turn
<1>4. CASE role.owner = None
  <2>1. Stage = "clean" /\ Stage' = "clean" /\ role'.owner = role.owner
    BY <1>4 DEF Stage
  <2> QED
    BY <2>1 DEF ReaderSteps
<1> QED
  BY <1>1, <1>2, <1>3, <1>4

LEMMA EffectStage ==
    ASSUME IInv, NEW r \in Request, NEW input \in {"whole", "cut"}, Effect(r, input), OpensBehind
    PROVE  ReaderSteps
<1>1. loaded' = loaded
  BY DEF Effect, CreateRole, DisableRole, EnableRole, RequestReload, WriteBundle, ReplaceFile,
     InstallAuto
<1>2. r.op \in Ops /\ r.op # None
  BY DbAdminAssumption DEF Request
<1>3. CASE CreateRole(r)
  <2>1. role.owner = None /\ role' = [owner |-> r.op, login |-> FALSE]
    BY <1>3 DEF CreateRole
  <2>2. r.op \notin loaded["ident"].blocks /\ "ident" \in Files
    BY <1>2, <2>1 DEF IInv, OneOwner, Files
  <2>3. ~Behind' /\ role'.owner = r.op /\ ~role'.login
    BY <1>1, <2>1, <2>2 DEF Behind
  <2>4. Stage = "clean" /\ Stage' = "role" /\ role'.owner = r.op
    BY <1>2, <2>1, <2>3 DEF Stage
  <2> QED
    BY <1>2, <2>4 DEF ReaderSteps, Reader!ServerNext, Reader!MakeRole, Reader!Turn
<1>4. CASE DisableRole(r)
  <2>1. role.owner = r.op /\ role'.owner = role.owner /\ ~role'.login
    BY <1>4 DEF DisableRole, IInv, TypeOK
  <2>2. Behind' <=> Behind
    BY <1>1, <2>1 DEF Behind
  <2>3. CASE role.login /\ Behind
    <3>1. Stage = "ready" /\ Stage' = "files"
      BY <1>2, <2>1, <2>2, <2>3 DEF Stage
    <3> QED
      BY <2>1, <3>1 DEF ReaderSteps, Reader!ServerNext, Reader!ShutRole, Reader!Turn
  <2>4. CASE role.login /\ ~Behind
    <3>1. Stage = "exposed" /\ Stage' = "role"
      BY <1>2, <2>1, <2>2, <2>4 DEF Stage
    <3> QED
      BY <2>1, <3>1 DEF ReaderSteps, Reader!ServerNext, Reader!ShutRole, Reader!Turn
  <2>5. CASE ~role.login
    <3>1. Stage' = Stage
      BY <2>1, <2>2, <2>5 DEF Stage
    <3> QED
      BY <2>1, <3>1 DEF ReaderSteps
  <2> QED
    BY <2>3, <2>4, <2>5
<1>5. CASE EnableRole(r)
  <2>1. role.owner = r.op /\ ~role.login /\ role'.owner = role.owner /\ role'.login
    BY <1>5 DEF EnableRole, IInv, TypeOK
  <2>2. Behind /\ Behind'
    BY <1>1, <2>1 DEF Behind, OpensBehind
  <2>3. Stage = "files" /\ Stage' = "ready"
    BY <1>2, <2>1, <2>2 DEF Stage
  <2> QED
    BY <2>1, <2>3 DEF ReaderSteps, Reader!ServerNext, Reader!OpenRole, Reader!Turn
<1>6. CASE UNCHANGED role
  <2>1. Behind' <=> Behind
    BY <1>1, <1>6 DEF Behind
  <2> QED
    BY <1>6, <2>1, SameRole
<1> QED
  BY <1>3, <1>4, <1>5, <1>6 DEF Effect, RequestReload, WriteBundle, ReplaceFile, InstallAuto

LEMMA RestoreStage ==
    ASSUME IInv, LoadedThere, NEW e \in Files, Restore(e)
    PROVE  ReaderSteps
<1>1. UNCHANGED role /\ loaded' = file' /\ file' = [file EXCEPT ![e].blocks = {}]
  BY DEF Restore
<1>2. "Restore" \in Faults
  BY DEF Restore
<1>3. loaded'[e].blocks = {}
  BY <1>1 DEF IInv, TypeOK, Text
<1>4. ~Behind'
  BY <1>3 DEF Behind
<1>5. CASE ~Behind
  BY <1>1, <1>5, SameRole
<1>6. CASE Behind /\ role.owner # None /\ role.login
  <2>1. Stage = "ready" /\ Stage' = "exposed" /\ role'.owner = role.owner
    BY <1>1, <1>4, <1>6 DEF Stage
  <2> QED
    BY <1>2, <2>1 DEF ReaderSteps, Reader!ServerNext, Reader!WithdrawRules, Reader!Turn
<1>7. CASE Behind /\ role.owner # None /\ ~role.login
  <2>1. Stage = "files" /\ Stage' = "role" /\ role'.owner = role.owner
    BY <1>1, <1>4, <1>7 DEF Stage
  <2> QED
    BY <1>2, <2>1 DEF ReaderSteps, Reader!ServerNext, Reader!WithdrawRules, Reader!Turn
<1>8. CASE role.owner = None
  <2>1. Stage = "clean" /\ Stage' = "clean" /\ role'.owner = role.owner
    BY <1>1, <1>8 DEF Stage
  <2> QED
    BY <2>1 DEF ReaderSteps
<1> QED
  BY <1>5, <1>6, <1>7, <1>8

LEMMA NextReader ==
    ASSUME IInv, LoadedThere, [Next]_vars
    PROVE  LoadedThere' /\ ReaderSteps
<1>1. ASSUME NEW r \in Request, NEW input \in {"whole", "cut"}, RequestInv(r), Effect(r, input)
      PROVE  LoadedThere' /\ ReaderSteps
  <2>1. Steady
    BY <1>1, EffectSteady
  <2>2. OpensBehind
    BY NextOpens
  <2> QED
    BY <1>1, <2>1, <2>2, EffectStage DEF Steady, LoadedThere
<1>2. CASE UNCHANGED server
  <2>1. UNCHANGED <<role, file, loaded>> /\ (Behind' <=> Behind)
    BY <1>2 DEF server, Behind
  <2> QED
    BY <2>1, SameRole DEF LoadedThere
<1>3. CASE Load
  <2>1. UNCHANGED <<role, file>>
    BY <1>3 DEF Load
  <2>2. \A f \in Files : loaded'[f] \in {file[f], loaded[f]}
    BY <1>3 DEF Load
  <2>3. \A f \in Files : loaded[f].blocks \subseteq loaded'[f].blocks
    BY <2>2 DEF LoadedThere
  <2>4. Behind => Behind'
    BY <2>1, <2>3 DEF Behind
  <2> QED
    BY <2>1, <2>2, <2>4, SameRole DEF LoadedThere
<1>4. ASSUME NEW e \in Files, Edit(e) PROVE LoadedThere' /\ ReaderSteps
  <2>1. UNCHANGED <<role, loaded>> /\ file' = [file EXCEPT ![e].rev = @ + 1]
    BY <1>4 DEF Edit
  <2>2. \A f \in Files : file'[f].blocks = file[f].blocks
    BY <2>1 DEF IInv, TypeOK, Text
  <2>3. Behind' <=> Behind
    BY <2>1 DEF Behind
  <2> QED
    BY <2>1, <2>2, <2>3, SameRole DEF LoadedThere
<1>5. ASSUME NEW e \in Files, Restore(e) PROVE LoadedThere' /\ ReaderSteps
  <2>1. loaded' = file'
    BY <1>5 DEF Restore
  <2> QED
    BY <1>5, <2>1, RestoreStage DEF LoadedThere
<1> QED
  BY <1>1, <1>2, <1>3, <1>4, <1>5, ServerChanges

\* For any provisions, edits and late or cut requests, the server is what the
\* coordinator takes it for, and only an administrator who takes the blocks out
\* withdraws rules (db_admin.py apply, 901-958): LifecycleImplementsServers is
\* the other half, for the servers of Lifecycle.
THEOREM DbImplementsReader == Spec => ImplementsReader
<1>1. Init => LoadedThere /\ Reader!ServerInit
  BY DEF Init, LoadedThere, Reader!ServerInit, Stage
<1>2. IInv /\ LoadedThere /\ [Next]_vars => LoadedThere'
  BY NextReader
<1>3. IInv /\ LoadedThere /\ [Next]_vars => [Reader!ServerNext]_<<role.owner, Stage>>
  BY NextReader DEF ReaderSteps
<1> QED
  BY <1>1, <1>2, <1>3, SpecIInv, PTL DEF Spec, ImplementsReader, Reader!ServerSpec, Reader!serverVars

=============================================================================
