------------------------------ MODULE LocalPki ------------------------------
(***************************************************************************)
(* The local issuer (local_pki.py): initialize-authority and issue-client, *)
(* each a process of its own that claims a directory with mkdir and fills  *)
(* it file by file, the one that describes the others last.                *)
(*                                                                         *)
(* The coordinator waits for its issuer under the target lock, but an      *)
(* issuer outlives a coordinator that is killed, and the authority and the *)
(* generations are shared by all targets: any number of issuers may run on *)
(* one directory.  A file is made under a staging name, synced, linked to  *)
(* its name, and the staging name is removed, with a sync of the directory *)
(* after each (_write_exclusive).                                          *)
(***************************************************************************)
EXTENDS Naturals, Sequences

CONSTANTS Runs,     \* processes of the issuer; each handles one request
          Ops,      \* operation ids
          Inputs,   \* what a request asks: an authority id, or the digests,
                    \* name, lifetime and server CA of a certificate
          None      \* the absent value

Places == Ops \cup {"authority"}

ASSUME LocalPkiAssumption == None \notin Runs \cup Places \cup Inputs /\ "authority" \notin Ops

\* Variant: the record is written before what it describes.
OrderRecordFirst(d) ==
    IF d = "authority" THEN <<"authority.json", "ca.key", "ca.crt">>
                       ELSE <<"operation.json", "client.key", "client.crt", "ca.crt">>

\* The files of a directory in the order they are made.  The keys, and what
\* bundle/ holds besides, are before the certificate's own record.
Order(d) == IF d = "authority" THEN <<"ca.key", "ca.crt", "authority.json">>
                               ELSE <<"client.key", "client.crt", "ca.crt", "operation.json">>
Names == {"ca.key", "ca.crt", "authority.json", "client.key", "client.crt", "operation.json"}
NamesOf(d) == {Order(d)[i] : i \in DOMAIN Order(d)}
Record(d) == IF d = "authority" THEN "authority.json" ELSE "operation.json"

VARIABLES made,     \* directories that exist
          name,     \* Places -> Names -> the run whose file has the name, or None
          staged,   \* Places -> the names that a staging file is (still) there for
          kept,     \* name and staged as the last syncs have them
          expired,  \* directories whose certificate is past its time
          pc, req,  \* Runs -> label, request
          at,       \* Runs -> the file being made, as an index of Order
          ca,       \* Runs -> the authority a run works with
          result    \* Runs -> the certificate it answered with, by its maker

files == <<made, name, staged, kept>>
runs == <<pc, req, at, ca, result>>
vars == <<files, expired, runs>>

Requests == [dir : Places, input : Inputs]
ASSUME NoRequestAssumption == None \notin Requests
Labels == {"new", "load", "claim", "stage", "link", "sync", "unlink", "settle", "validate",
           "done", "refused", "ended"}
Running == Labels \ {"new", "done", "refused", "ended"}

TypeOK ==
    /\ made \subseteq Places /\ expired \subseteq Places
    /\ name \in [Places -> [Names -> Runs \cup {None}]]
    /\ staged \in [Places -> SUBSET Names]
    /\ kept \in [name : [Places -> [Names -> Runs \cup {None}]], staged : [Places -> SUBSET Names]]
    /\ pc \in [Runs -> Labels] /\ req \in [Runs -> Requests \cup {None}]
    /\ at \in [Runs -> 0..4]
    /\ ca \in [Runs -> Runs \cup {None}] /\ result \in [Runs -> Runs \cup {None}]

Init ==
    /\ made = {} /\ expired = {}
    /\ name = [d \in Places |-> [n \in Names |-> None]]
    /\ staged = [d \in Places |-> {}]
    /\ kept = [name |-> name, staged |-> staged]
    /\ pc = [p \in Runs |-> "new"] /\ req = [p \in Runs |-> None]
    /\ at = [p \in Runs |-> 0]
    /\ ca = [p \in Runs |-> None] /\ result = [p \in Runs |-> None]

-----------------------------------------------------------------------------
Dir(p) == req[p].dir
File(p) == Order(Dir(p))[at[p]]
Maker(d) == name[d][Record(d)]

\* Exactly the files there should be (_entries), all of one maker: the key
\* belongs to the certificate and the record describes it.
Whole(d) ==
    /\ d \in made /\ staged[d] = {} /\ Maker(d) # None
    /\ \A n \in NamesOf(d) : name[d][n] = Maker(d)

\* _load_authority without an id
AuthorityUsable == Whole("authority") /\ "authority" \notin expired

\* Variant: whatever certificate is there will do.
ValidAny(p) == Whole(Dir(p)) /\ Dir(p) \notin expired

\* _load_authority with an id, and _validate_generation: what is there is what
\* was asked for, by this authority, and in time.
Valid(p) ==
    LET d == Dir(p)
    IN  /\ Whole(d) /\ d \notin expired
        /\ req[Maker(d)].input = req[p].input
        /\ ca[Maker(d)] = ca[p]

Goto(p, label) == pc' = [pc EXCEPT ![p] = label]

\* A process is started with a request on its standard input.
Start(p) ==
    /\ pc[p] = "new"
    /\ \E r \in Requests :
          /\ req' = [req EXCEPT ![p] = r]
          /\ Goto(p, IF r.dir = "authority" THEN "claim" ELSE "load")
    /\ UNCHANGED <<files, expired, at, ca, result>>

LoadAuthority(p) ==
    /\ pc[p] = "load" /\ AuthorityUsable
    /\ ca' = [ca EXCEPT ![p] = Maker("authority")]
    /\ Goto(p, "claim")
    /\ UNCHANGED <<files, expired, req, at, result>>

\* Variant: a directory that is there already is filled as well (exist_ok).
ClaimShared(p) ==
    /\ pc[p] = "claim"
    /\ ~Valid(p)
    /\ made' = made \cup {Dir(p)}
    /\ at' = [at EXCEPT ![p] = 1]
    /\ Goto(p, "stage")
    /\ UNCHANGED <<name, staged, kept, expired, req, ca, result>>

\* _mkdir: the directory and its sync; others refuse it before and after that.
\* Who makes a directory, fills it.
Claim(p) ==
    /\ pc[p] = "claim" /\ Dir(p) \notin made
    /\ made' = made \cup {Dir(p)}
    /\ at' = [at EXCEPT ![p] = 1]
    /\ Goto(p, "stage")
    /\ UNCHANGED <<name, staged, kept, expired, req, ca, result>>

Reuse(p) ==
    /\ pc[p] = "claim" /\ Dir(p) \in made /\ Valid(p)
    /\ result' = [result EXCEPT ![p] = Maker(Dir(p))]
    /\ Goto(p, "done")
    /\ UNCHANGED <<files, expired, req, at, ca>>

\* The certificate is made before the first file: not under an authority that
\* has expired meanwhile.
InTime(p) == (at[p] = 1 /\ Dir(p) # "authority") => "authority" \notin expired

\* A new inode under a fresh staging name, written and synced.
Stage(p) ==
    /\ pc[p] = "stage" /\ InTime(p)
    /\ staged' = [staged EXCEPT ![Dir(p)] = @ \cup {File(p)}]
    /\ Goto(p, "link")
    /\ UNCHANGED <<made, name, kept, expired, req, at, ca, result>>

\* os.link refuses a name that is taken.
Link(p) ==
    /\ pc[p] = "link" /\ name[Dir(p)][File(p)] = None
    /\ name' = [name EXCEPT ![Dir(p)][File(p)] = p]
    /\ Goto(p, "sync")
    /\ UNCHANGED <<made, staged, kept, expired, req, at, ca, result>>

\* Variant: the directory is synced only once, after the staging name is gone.
SyncOnce(p) ==
    /\ pc[p] = "sync"
    /\ Goto(p, "unlink")
    /\ UNCHANGED <<files, expired, req, at, ca, result>>

\* fsync(directory): both names of the inode are there after a crash.
Sync(p) ==
    /\ pc[p] = "sync"
    /\ kept' = [name |-> [kept.name EXCEPT ![Dir(p)] = name[Dir(p)]],
                staged |-> [kept.staged EXCEPT ![Dir(p)] = staged[Dir(p)]]]
    /\ Goto(p, "unlink")
    /\ UNCHANGED <<made, name, staged, expired, req, at, ca, result>>

Unlink(p) ==
    /\ pc[p] = "unlink"
    /\ staged' = [staged EXCEPT ![Dir(p)] = @ \ {File(p)}]
    /\ Goto(p, "settle")
    /\ UNCHANGED <<made, name, kept, expired, req, at, ca, result>>

\* The second fsync of _write_exclusive, and on to the next file.
Settle(p) ==
    /\ pc[p] = "settle"
    /\ kept' = [name |-> [kept.name EXCEPT ![Dir(p)] = name[Dir(p)]],
                staged |-> [kept.staged EXCEPT ![Dir(p)] = staged[Dir(p)]]]
    /\ IF at[p] = Len(Order(Dir(p)))
       THEN at' = at /\ Goto(p, "validate")
       ELSE at' = [at EXCEPT ![p] = @ + 1] /\ Goto(p, "stage")
    /\ UNCHANGED <<made, name, staged, expired, req, ca, result>>

\* What was made is read back before it is answered.
Validate(p) ==
    /\ pc[p] = "validate" /\ Valid(p)
    /\ result' = [result EXCEPT ![p] = Maker(Dir(p))]
    /\ Goto(p, "done")
    /\ UNCHANGED <<files, expired, req, at, ca>>

\* A PkiError: it ends the process and repairs nothing.
Refused(p) ==
    CASE pc[p] = "load"     -> ~AuthorityUsable
      [] pc[p] = "claim"    -> Dir(p) \in made /\ ~Valid(p)
      [] pc[p] = "stage"    -> ~InTime(p)
      [] pc[p] = "link"     -> name[Dir(p)][File(p)] # None
      [] pc[p] = "validate" -> ~Valid(p)
      [] OTHER              -> FALSE

Refuse(p) ==
    /\ Refused(p) /\ Goto(p, "refused")
    /\ UNCHANGED <<files, expired, req, at, ca, result>>

-----------------------------------------------------------------------------
(* Faults and time                                                         *)

\* The alarm of the issuer, or the coordinator's deadline.  A coordinator that
\* is killed ends nothing: its issuer goes on.
Stop(p) ==
    /\ pc[p] \in Running /\ Goto(p, "ended")
    /\ UNCHANGED <<files, expired, req, at, ca, result>>

\* The host crashes: of what no sync covers, any part is lost.
HostCrash ==
    \E lost \in SUBSET {e \in Places \X Names : name[e[1]][e[2]] # kept.name[e[1]][e[2]]},
       back \in SUBSET {e \in Places \X Names : e[2] \in kept.staged[e[1]] \ staged[e[1]]},
       gone \in SUBSET {e \in Places \X Names : e[2] \in staged[e[1]] \ kept.staged[e[1]]} :
      /\ name' = [d \in Places |-> [n \in Names |->
                     IF <<d, n>> \in lost THEN kept.name[d][n] ELSE name[d][n]]]
      /\ staged' = [d \in Places |->
                       {n \in Names : \/ n \in staged[d] /\ <<d, n>> \notin gone
                                      \/ <<d, n>> \in back}]
      /\ kept' = [name |-> name', staged |-> staged']
      /\ pc' = [p \in Runs |-> IF pc[p] \in Running THEN "ended" ELSE pc[p]]
      /\ UNCHANGED <<made, expired, req, at, ca, result>>

\* A certificate is issued for no longer than its authority lives.
Expire(d) ==
    /\ Maker(d) # None /\ d \notin expired
    /\ expired' = IF d = "authority" THEN Places ELSE expired \cup {d}
    /\ UNCHANGED <<files, runs>>

-----------------------------------------------------------------------------
Work(p) ==
    \/ LoadAuthority(p) \/ Claim(p) \/ Reuse(p) \/ Stage(p) \/ Link(p) \/ Sync(p)
    \/ Unlink(p) \/ Settle(p) \/ Validate(p)

Next ==
    \/ \E p \in Runs : Start(p) \/ Work(p) \/ Refuse(p) \/ Stop(p)
    \/ HostCrash
    \/ \E d \in Places : Expire(d)

Spec == Init /\ [][Next]_vars

\* A process that was started goes on.
FairSpec == Spec /\ \A p \in Runs : WF_vars(Work(p) \/ Refuse(p))

-----------------------------------------------------------------------------
(* Properties                                                              *)

\* A record (operation.json, authority.json) is never there without all it
\* describes, of the same making, whichever issuers run and whatever a crash
\* of the host takes away (_issue_client, 604-617: the record is written last).
RecordIsBacked ==
    \A d \in Places : Maker(d) # None =>
        \A n \in NamesOf(d) : name[d][n] = Maker(d) /\ (n # Record(d) => kept.name[d][n] = Maker(d))

\* An answer is what was asked for: all runs of one directory that succeed are
\* given the same certificate, made for their own input by the authority they
\* have loaded (test_local_pki.py:122-129: equal requests are answered alike,
\* others are refused).
SameAnswer ==
    \A p, q \in Runs :
        (result[p] # None /\ result[q] # None /\ Dir(p) = Dir(q)) =>
            /\ result[p] = result[q]
            /\ req[result[p]].input = req[p].input
            /\ ca[result[p]] = ca[p]

\* A generation is issued once and for all, when a sync or a crash makes its
\* record last, and an answer is the certificate of the place asked for.
Issued == [d \in Places |-> kept.name[d][Record(d)]]
Asked == [p \in Runs |-> IF req[p] = None THEN None ELSE Dir(p)]
Once == INSTANCE IssueOnce WITH issued <- Issued, asked <- Asked
ImplementsIssueOnce == Once!Spec

\* A directory somebody made is finished, whoever else looks at it, tries it or
\* is refused meanwhile, unless an issuer of it was ended or time ran out.
MadeIsFinished ==
    \A d \in Places : d \in made ~>
        \/ Whole(d)
        \/ "authority" \in expired \/ d \in expired
        \/ \E p \in Runs : pc[p] = "ended" /\ Dir(p) = d
=============================================================================
