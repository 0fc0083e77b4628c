---------------------------- MODULE TemplateStore ----------------------------
(***************************************************************************)
(* Templates, their versions and the requests that read and write them:    *)
(* store/template.go, service/template.go, service/import_export.go, the   *)
(* template part of SandboxService.Create and the handlers in front.       *)
(*                                                                         *)
(* All requests are about one template name; the row under the name may be *)
(* deleted and created again with another id.  A request is a plan: the    *)
(* sequence of the queries and transactions it still has to run, each one  *)
(* an action, with those of other requests in between.  Only the UPDATE,   *)
(* the INSERT and the COMMIT of one transaction are a single step: SQLite  *)
(* runs one writing transaction at a time, and the reads of the template   *)
(* functions go through s.db, outside the transaction they belong to.      *)
(*                                                                         *)
(* A spec and the metadata are data nobody looks into: every request       *)
(* carries its own, so that what is stored tells who wrote it.             *)
(***************************************************************************)
EXTENDS Naturals, Sequences, FiniteSets, FiniteSetsExt

CONSTANTS MaxTplRequests,   \* bound on the concurrent requests
          MaxStoredVersions \* versions the template may have to begin with

ASSUME TplAssumption == MaxTplRequests \in Nat \ {0} /\ MaxStoredVersions \in Nat \ {0}

TplRequests == 1 .. MaxTplRequests
Original == 0               \* spec and metadata of the versions stored before
Keep == MaxTplRequests + 1  \* an update that leaves the metadata as they are
TplIds == 1 .. 1 + MaxTplRequests
MaxTplVersion == MaxStoredVersions + MaxTplRequests
TplSpecs == TplRequests \cup {Original}

VARIABLES
    tplRows,     \* the rows of templates: id -> [latest, meta], of the live ids
    tplVersions, \* the rows of template_versions: [id, version, spec]
    tplOps,      \* what each request is doing
    tplAcked     \* history: the versions whose writer was told of success

tplVars == <<tplRows, tplVersions, tplOps, tplAcked>>

Strategies == {"create-only", "update-only", "create-or-update"}

Live == DOMAIN tplRows

VersionsOf(id) == {v \in tplVersions : v.id = id}

\* GetVersion: the specs stored under a version, none or one.
GetVersion(id, n) == {v.spec : v \in {w \in VersionsOf(id) : w.version = n}}

Waiting == [kind |-> "none", todo |-> <<>>, reply |-> "none", asked |-> 0, meta |-> Keep,
            id |-> 0, latest |-> 0, had |-> Keep, seen |-> {}, spec |-> {}, used |-> 0, told |-> 0]

-----------------------------------------------------------------------------
(* Requests and their plans.  Get runs two queries, for the row and for the *)
(* latest spec; the second is left out where its answer is not used.        *)

CreatePlan == <<"exists", "insert">>

UpdatePlan == <<"row", "commit">>

RollbackPlan == <<"row", "target", "commit">>

\* GetSpecForSandbox, then Get for the version the sandbox is labelled with.
SandboxPlanLabelFirst == <<"label", "row", "target">>

SandboxPlan == <<"row", "target", "label">>

\* ExportToYAML: the latest spec comes with the template, another version
\* with GetVersionByName.
ExportPlan(asked) ==
    IF asked = 0 THEN <<"row", "spec", "use">> ELSE <<"row", "row", "target">>

PlanOf(kind, asked) ==
    CASE kind = "create" -> CreatePlan
      [] kind = "update" -> UpdatePlan
      [] kind = "rollback" -> RollbackPlan
      [] kind = "sandbox" -> SandboxPlan
      [] kind = "export" -> ExportPlan(asked)
      [] kind = "delete" -> <<"delete">>
      [] kind \in Strategies -> <<"lookup">>

\* processTemplate's choice once it knows whether the template exists; both
\* ways end with a Get that reports the version.
ImportPlan(strategy, exists) ==
    CASE strategy = "create-only" /\ exists -> <<>>
      [] strategy = "update-only" /\ ~exists -> <<>>
      [] OTHER -> (IF exists THEN UpdatePlan ELSE CreatePlan) \o <<"confirm">>

\* What a handler may be asked: the name and the spec are valid (the others are
\* answered 400 before anything is read), a version asked for is at least 1
\* unless the latest one will do.
Request(c, call) ==
    [Waiting EXCEPT !.kind = call[1], !.asked = call[2], !.meta = IF call[3] THEN c ELSE Keep,
                    !.spec = {c}, !.todo = PlanOf(call[1], call[2])]

\* Kind, version asked for, and whether the metadata are set.
TplCalls == << <<"create", 0, TRUE>>, <<"update", 0, TRUE>>, <<"update", 0, FALSE>>,
               <<"rollback", 1, FALSE>>, <<"rollback", 2, FALSE>>, <<"delete", 0, FALSE>>,
               <<"sandbox", 0, FALSE>>, <<"sandbox", 1, FALSE>>, <<"sandbox", 2, FALSE>>,
               <<"export", 0, FALSE>>, <<"export", 2, FALSE>>, <<"create-only", 0, TRUE>>,
               <<"update-only", 0, TRUE>>, <<"create-or-update", 0, TRUE>> >>

\* A database that holds no template, or one with some versions, and requests
\* on their way: one whose first query has not run has as good as not arrived.
\* Requests are interchangeable, so they are taken in the order of TplCalls.
TemplateInit ==
    /\ \E n \in 0 .. MaxStoredVersions :
        /\ tplRows = [id \in IF n = 0 THEN {} ELSE {1} |-> [latest |-> n, meta |-> Original]]
        /\ tplVersions = {[id |-> 1, version |-> v, spec |-> Original] : v \in 1 .. n}
    /\ \E k \in [TplRequests -> 1 .. Len(TplCalls)] :
        /\ \A c, d \in TplRequests : c < d => k[c] <= k[d]
        /\ tplOps = [c \in TplRequests |-> Request(c, TplCalls[k[c]])]
    /\ tplAcked = {}

At(c, step) == tplOps[c].todo # <<>> /\ Head(tplOps[c].todo) = step

\* An answered request is forgotten, up to what a sandbox was made from.
Finish(op, reply) ==
    IF op.kind = "sandbox"
    THEN [op EXCEPT !.todo = <<>>, !.reply = reply, !.latest = 0, !.had = Keep, !.seen = {}]
    ELSE [Waiting EXCEPT !.kind = "answered", !.reply = reply]

\* The step done, the next one follows; the last one is answered with success.
Proceed(op) ==
    IF Len(op.todo) = 1 THEN Finish(op, "ok") ELSE [op EXCEPT !.todo = Tail(@)]

Reads(c, op) == tplOps' = [tplOps EXCEPT ![c] = op] /\ UNCHANGED <<tplRows, tplVersions, tplAcked>>

\* The row of the name, by its id: UNIQUE(name) leaves at most one.
Found(op, id) ==
    Proceed([op EXCEPT !.id = id, !.latest = tplRows[id].latest, !.had = tplRows[id].meta])

-----------------------------------------------------------------------------
(* Reads. *)

\* Get's first query in Update, Rollback, GetSpecForSandbox and the exports.
\* Update answers a template that is not there with nil and no error, which
\* the import takes for a success.
ReadRow(c) ==
    /\ At(c, "row")
    /\ LET op == tplOps[c] IN
       Reads(c, IF Live # {} THEN Found(op, CHOOSE id \in Live : TRUE)
                ELSE IF op.kind \in Strategies THEN [op EXCEPT !.todo = <<"confirm">>]
                ELSE Finish(op, "notfound"))

\* Get's second query, for the spec of the version the row named: a template
\* deleted in between is returned without a spec.
ReadSpec(c) ==
    /\ At(c, "spec")
    /\ LET op == tplOps[c] IN Reads(c, Proceed([op EXCEPT !.seen = GetVersion(op.id, op.latest)]))

\* GetVersion for the version a rollback, a sandbox or an export wants.
ReadTarget(c) ==
    /\ At(c, "target")
    /\ LET op == tplOps[c]
           n  == IF op.asked = 0 THEN op.latest ELSE op.asked
       IN Reads(c, IF GetVersion(op.id, n) = {} THEN Finish(op, "notfound")
                   ELSE Proceed([op EXCEPT !.spec = GetVersion(op.id, n), !.used = n]))

\* ExportToYAML dereferences the spec that Get returned.
UseSpec(c) ==
    /\ At(c, "use")
    /\ LET op == tplOps[c] IN
       Reads(c, Finish(op, IF op.seen = {} THEN "panic" ELSE "ok"))

\* The second Get of SandboxService.Create and of processTemplate.  Neither
\* looks whether the template is still there; Create dereferences it only when
\* no version was asked for, and labels with the version asked for otherwise.
ReadLabel(c) ==
    /\ \/ At(c, "label")
       \/ At(c, "confirm")
    /\ LET op == tplOps[c] IN
       Reads(c, IF op.asked > 0 THEN Proceed([op EXCEPT !.told = op.asked])
                ELSE IF Live = {} THEN Finish(op, "panic")
                ELSE Proceed([op EXCEPT !.told = tplRows[CHOOSE id \in Live : TRUE].latest]))

\* processTemplate asks whether the template exists and follows its strategy.
Lookup(c) ==
    /\ At(c, "lookup")
    /\ LET op   == tplOps[c]
           plan == ImportPlan(op.kind, Live # {})
       IN Reads(c, IF plan = <<>> THEN Finish(op, "skipped")
                   ELSE [op EXCEPT !.todo = plan])

\* TemplateService.Create looks for the name before it inserts.
Exists(c) ==
    /\ At(c, "exists")
    /\ Reads(c, IF Live # {} THEN Finish(tplOps[c], "conflict") ELSE Proceed(tplOps[c]))

-----------------------------------------------------------------------------
(* Writing transactions. *)

Ack(c, id, n) ==
    tplAcked' = tplAcked \cup {[id |-> id, version |-> n, spec |-> tplOps[c].spec, meta |-> tplOps[c].meta]}

\* A fresh id; 1 is the template's that was there to begin with.
NextTplId == 1 + Max({1} \cup {a.id : a \in tplAcked})

\* Nothing keeps a second template from having the name.
InsertAnother(c) ==
    /\ At(c, "insert")
    /\ tplRows' = [id \in Live \cup {NextTplId} |->
                     IF id \in Live THEN tplRows[id] ELSE [latest |-> 1, meta |-> tplOps[c].meta]]
    /\ tplVersions' = tplVersions \cup {[id |-> NextTplId, version |-> 1, spec |-> c]}
    /\ Ack(c, NextTplId, 1)
    /\ tplOps' = [tplOps EXCEPT ![c] = Proceed(@)]

\* TemplateStore.Create: UNIQUE(name) refuses the second of two that saw none.
Insert(c) ==
    /\ At(c, "insert")
    /\ IF Live # {}
       THEN Reads(c, Finish(tplOps[c], "conflict"))
       ELSE /\ tplRows' = [id \in {NextTplId} |-> [latest |-> 1, meta |-> tplOps[c].meta]]
            /\ tplVersions' = tplVersions \cup {[id |-> NextTplId, version |-> 1, spec |-> c]}
            /\ Ack(c, NextTplId, 1)
            /\ tplOps' = [tplOps EXCEPT ![c] = Proceed(@)]

\* The end of Update and of Rollback: the row takes the version after the one
\* that was read, and the metadata that were read with the request's in their
\* place; the version is inserted with the request's spec or the target's.
\* FOREIGN KEY refuses it when the template is gone, UNIQUE(template_id,
\* version) when somebody has stored that version; both undo the UPDATE.
Stored(c, others) ==
    LET op == tplOps[c] IN
    /\ tplRows' = [tplRows EXCEPT ![op.id] =
            [latest |-> op.latest + 1,
             meta |-> CASE op.kind = "rollback" -> @.meta
                        [] op.meta = Keep -> op.had
                        [] OTHER -> op.meta]]
    /\ tplVersions' = others \cup {[id |-> op.id, version |-> op.latest + 1, spec |-> s] : s \in op.spec}
    /\ Ack(c, op.id, op.latest + 1)
    /\ tplOps' = [tplOps EXCEPT ![c] = Proceed(@)]

\* Without UNIQUE(template_id, version) the version in the way is replaced.
CommitReplacing(c) ==
    /\ At(c, "commit")
    /\ LET op    == tplOps[c]
           inWay == {v \in VersionsOf(op.id) : v.version = op.latest + 1}
       IN \/ /\ op.id \in Live
             /\ Stored(c, tplVersions \ inWay)
          \/ /\ op.id \notin Live
             /\ Reads(c, Finish(op, "bad"))

Commit(c) ==
    /\ At(c, "commit")
    /\ LET op == tplOps[c] IN
       \/ /\ op.id \in Live /\ GetVersion(op.id, op.latest + 1) = {}
          /\ Stored(c, tplVersions)
       \/ /\ op.id \notin Live \/ GetVersion(op.id, op.latest + 1) # {}
          /\ Reads(c, Finish(op, "bad"))

\* Foreign keys not switched on for the connection.
DeleteRowOnly(c) ==
    /\ At(c, "delete")
    /\ tplRows' = [id \in {} |-> 0]
    /\ tplOps' = [tplOps EXCEPT ![c] = Finish(@, IF Live = {} THEN "notfound" ELSE "ok")]
    /\ UNCHANGED <<tplVersions, tplAcked>>

\* DELETE takes the versions along (ON DELETE CASCADE).
Delete(c) ==
    /\ At(c, "delete")
    /\ tplRows' = [id \in {} |-> 0]
    /\ tplVersions' = {}
    /\ tplOps' = [tplOps EXCEPT ![c] = Finish(@, IF Live = {} THEN "notfound" ELSE "ok")]
    /\ UNCHANGED tplAcked

TemplateNext ==
    \E c \in TplRequests :
        \/ ReadRow(c) \/ ReadSpec(c) \/ ReadTarget(c) \/ UseSpec(c) \/ ReadLabel(c)
        \/ Lookup(c) \/ Exists(c) \/ Insert(c) \/ Commit(c) \/ Delete(c)

TemplateSpec == TemplateInit /\ [][TemplateNext]_tplVars

-----------------------------------------------------------------------------
TemplateTypeOK ==
    /\ Live \subseteq TplIds /\ Cardinality(Live) <= 1
    /\ \A id \in Live : tplRows[id] \in [latest : 1 .. MaxTplVersion, meta : TplSpecs \cup {Keep}]
    /\ tplVersions \subseteq [id : TplIds, version : 1 .. MaxTplVersion, spec : TplSpecs]
    /\ \A c \in TplRequests :
        /\ tplOps[c].reply \in {"none", "ok", "skipped", "notfound", "conflict", "bad", "panic"}
        /\ tplOps[c].spec \subseteq TplSpecs /\ tplOps[c].seen \subseteq TplSpecs

\* The versions of a template that exists run from 1 to the latest without a
\* gap, and none outlives its template, whatever updates, rollbacks, imports
\* and deletions interleave: every version a client may ask for is there.
VersionsAreContiguous ==
    /\ \A id \in Live : {v.version : v \in VersionsOf(id)} = 1 .. tplRows[id].latest
    /\ \A v \in tplVersions : v.id \in Live

\* An update that was acknowledged is never lost to a concurrent one: as long
\* as its template exists, its version holds its spec, and the metadata are
\* those of the newest acknowledged version that set any.
NoUpdateIsLost ==
    \A id \in Live :
        LET mine == {a \in tplAcked : a.id = id}
            sets == {a \in mine : a.meta # Keep}
        IN /\ \A a \in mine : GetVersion(id, a.version) = a.spec
           /\ sets # {} => \E a \in sets : /\ \A b \in sets : b.version <= a.version
                                           /\ tplRows[id].meta = a.meta

\* A sandbox made from a version that was asked for is labelled with it.  One
\* made from the latest version is labelled with that version or with a later
\* one of the same template, never an earlier: Create asks for the spec first
\* and for the label afterwards (service/sandbox.go).
LabelNotOlderThanSpec ==
    \A c \in TplRequests :
        LET op == tplOps[c] IN
        op.kind = "sandbox" /\ op.reply = "ok" =>
            /\ op.asked > 0 => op.told = op.asked /\ op.used = op.asked
            /\ op.id \in Live => op.told >= op.used /\ op.spec = GetVersion(op.id, op.used)

=============================================================================
