------------------------ MODULE TemplateStoreProofs -------------------------
(***************************************************************************)
(* Proofs about TemplateStore, for any number of concurrent requests and   *)
(* of versions stored before.                                              *)
(*                                                                         *)
(* The argument: a request may hold an old copy of the row, but never a    *)
(* wrong one (CopyOK).  Its version and metadata were the row's at some    *)
(* time, and as every commit takes the next version, a copy with the row's *)
(* version still has the row's metadata.  The UNIQUE and FOREIGN KEY       *)
(* constraints let exactly the requests with such a copy commit.           *)
(***************************************************************************)
EXTENDS TemplateStore, FiniteSetTheorems, SequenceTheorems, TLAPS

Metas == TplSpecs \cup {Keep}

Rows == [latest : Nat \ {0}, meta : Metas]

Acks == [id : Nat \ {0}, version : Nat, spec : SUBSET TplSpecs, meta : Metas]

Replies == {"none", "ok", "skipped", "notfound", "conflict", "bad", "panic"}

Writes == {"create", "update"} \cup Strategies

TplKinds == Writes \cup {"rollback", "sandbox", "export", "delete", "answered"}

\* What is left of the plans, by what they end with.
Spent == {<<>>, <<"confirm">>}

CreateRests == {<<"exists", "insert">>, <<"insert">>,
                <<"exists", "insert", "confirm">>, <<"insert", "confirm">>}

UpdateRests == {<<"row", "commit">>, <<"commit">>,
                <<"row", "commit", "confirm">>, <<"commit", "confirm">>}

RollbackRests == {<<"row", "target", "commit">>, <<"target", "commit">>}

SandboxRests == {<<"row", "target", "label">>, <<"target", "label">>, <<"label">>}

ExportRests == {<<"row", "spec", "use">>, <<"spec", "use">>, <<"use">>,
                <<"row", "row", "target">>, <<"row", "target">>, <<"target">>}

OtherRests == {<<"delete">>, <<"lookup">>}

Rests == Spent \cup CreateRests \cup UpdateRests \cup RollbackRests
           \cup SandboxRests \cup ExportRests \cup OtherRests

TplOp == [kind : TplKinds, todo : Rests, reply : Replies, asked : Nat, meta : Metas,
          id : Nat, latest : Nat, had : Metas, seen : SUBSET TplSpecs,
          spec : SUBSET TplSpecs, used : Nat, told : Nat]

Types ==
    /\ tplRows \in [Live -> Rows]
    /\ Live \subseteq Nat \ {0}
    /\ tplVersions \subseteq [id : Nat, version : Nat \ {0}, spec : TplSpecs]
    /\ tplOps \in [TplRequests -> TplOp]
    /\ tplAcked \subseteq Acks

-----------------------------------------------------------------------------
(* The parts of the inductive invariant *)

\* The ids that were given out so far; there is always a largest one.
Known == {1} \cup {a.id : a \in tplAcked}

OneRow ==
    /\ \A i, j \in Live : i = j
    /\ Live \subseteq Known
    /\ \E m \in Known : \A i \in Known : i <= m

\* What was acknowledged for a template that is there is stored ...
AckedIsStored ==
    \A a \in tplAcked :
        a.id \in Live => /\ a.version <= tplRows[a.id].latest
                         /\ GetVersion(a.id, a.version) = a.spec

\* ... and a row has the metadata of the newest version that set any.
MetaOfNewest ==
    \A id \in Live :
        (\E a \in tplAcked : a.id = id /\ a.meta # Keep) =>
            \E a \in tplAcked :
                /\ a.id = id /\ a.meta # Keep /\ tplRows[id].meta = a.meta
                /\ \A b \in tplAcked : b.id = id /\ b.meta # Keep => b.version <= a.version

\* A request's copy of the row was the row's at some time.
CopyOK(op) ==
    /\ op.id \in Known \cup {0}
    /\ op.id \in Live =>
         /\ op.latest <= tplRows[op.id].latest
         /\ op.latest = tplRows[op.id].latest => op.had = tplRows[op.id].meta

\* Its spec is its own until it has read one.
SpecOK(c, op) ==
    /\ op.kind \in Writes => op.spec = {c}
    /\ op.todo # <<>> => op.spec # {}
    /\ op.used # 0 => /\ op.todo \in {<<>>, <<"label">>, <<"commit">>}
                      /\ op.spec # {}
                      /\ op.id \in Live => op.spec = GetVersion(op.id, op.used)

\* Where a request is in its plan.
PlanOK(op) ==
    /\ op.todo \in UpdateRests => op.kind \in Writes \cup {"rollback"}
    /\ op.todo \in RollbackRests => op.kind = "rollback"
    /\ op.todo \in ExportRests => op.kind = "export"
    /\ op.todo \in CreateRests => op.kind \in Writes
    /\ op.kind = "rollback" => op.meta = Keep
    /\ op.kind = "sandbox" => op.todo \in SandboxRests \cup {<<>>}
    /\ op.todo \in SandboxRests => op.kind = "sandbox"
    /\ op.todo = <<"lookup">> => op.kind \in Strategies
    /\ op.todo # <<>> => op.reply = "none"

\* What a sandbox is made from and labelled with.
SandboxOK(op) ==
    op.kind = "sandbox" /\ (op.todo = <<"label">> \/ op.reply = "ok") =>
        /\ op.used # 0
        /\ op.asked > 0 => op.used = op.asked
        /\ op.asked = 0 /\ op.id \in Live => op.used <= tplRows[op.id].latest
        /\ op.reply = "ok" =>
             /\ op.asked > 0 => op.told = op.asked
             /\ op.id \in Live => op.told >= op.used

Good(c, op) == CopyOK(op) /\ SpecOK(c, op) /\ PlanOK(op) /\ SandboxOK(op)

OpOK(c) == Good(c, tplOps[c])

\* Every request writes once at most, which bounds versions and ids.
SpentOps == {c \in TplRequests : tplOps[c].todo \in Spent}

Bounded ==
    /\ \A id \in Live : tplRows[id].latest <= MaxStoredVersions + Cardinality(SpentOps)
    /\ \A i \in Known : i <= 1 + Cardinality(SpentOps)

TplInv == /\ Types /\ OneRow /\ VersionsAreContiguous /\ AckedIsStored /\ MetaOfNewest
          /\ \A c \in TplRequests : OpOK(c)
          /\ Bounded

-----------------------------------------------------------------------------
(* Plans *)

\* A plan that begins with a step is one of those that have it.
LEMMA HeadOfRest ==
    ASSUME NEW q \in Rests, q # <<>>
    PROVE  /\ Head(q) = "row" => q \in {<<"row", "commit">>, <<"row", "commit", "confirm">>,
                <<"row", "target", "commit">>, <<"row", "target", "label">>,
                <<"row", "spec", "use">>, <<"row", "row", "target">>, <<"row", "target">>}
           /\ Head(q) = "spec" => q = <<"spec", "use">>
           /\ Head(q) = "use" => q = <<"use">>
           /\ Head(q) = "target" => q \in {<<"target", "commit">>, <<"target", "label">>, <<"target">>}
           /\ Head(q) = "label" => q = <<"label">>
           /\ Head(q) = "confirm" => q = <<"confirm">>
           /\ Head(q) = "lookup" => q = <<"lookup">>
           /\ Head(q) = "exists" => q \in {<<"exists", "insert">>, <<"exists", "insert", "confirm">>}
           /\ Head(q) = "insert" => q \in {<<"insert">>, <<"insert", "confirm">>}
           /\ Head(q) = "commit" => q \in {<<"commit">>, <<"commit", "confirm">>}
           /\ Head(q) = "delete" => q = <<"delete">>
  BY DEF Rests, Spent, CreateRests, UpdateRests, RollbackRests, SandboxRests, ExportRests, OtherRests

\* The rest of the rest of a plan.
LEMMA TailOfRest ==
    ASSUME NEW q \in Rests, Len(q) # 1, q # <<>>
    PROVE  /\ Tail(q) \in Rests
           /\ Tail(q) # <<>>
           /\ q \notin Spent \cup {<<"lookup">>, <<"label">>, <<"commit">>}
           /\ Tail(q) # <<"lookup">>
           /\ Tail(q) \in CreateRests => q \in CreateRests
           /\ Tail(q) \in UpdateRests => q \in UpdateRests \cup RollbackRests
           /\ Tail(q) \in RollbackRests => q \in RollbackRests
           /\ Tail(q) \in ExportRests => q \in ExportRests
           /\ Tail(q) \in SandboxRests <=> q \in SandboxRests
<1>1. /\ \A x, y : Len(<<x, y>>) = 2 /\ Tail(<<x, y>>) = <<y>>
      /\ \A x, y, z : Len(<<x, y, z>>) = 3 /\ Tail(<<x, y, z>>) = <<y, z>>
      /\ \A x : Len(<<x>>) = 1
  OBVIOUS
<1>2. q \in {<<"exists", "insert">>, <<"exists", "insert", "confirm">>, <<"insert", "confirm">>,
             <<"row", "commit">>, <<"row", "commit", "confirm">>, <<"commit", "confirm">>,
             <<"row", "target", "commit">>, <<"target", "commit">>,
             <<"row", "target", "label">>, <<"target", "label">>,
             <<"row", "spec", "use">>, <<"spec", "use">>, <<"row", "row", "target">>, <<"row", "target">>}
  BY DEF Rests, Spent, CreateRests, UpdateRests, RollbackRests, SandboxRests, ExportRests, OtherRests
<1> DEFINE t == Tail(q)
<1> HIDE DEF t
<1>3. \/ q = <<"exists", "insert">> /\ t = <<"insert">>
      \/ q = <<"exists", "insert", "confirm">> /\ t = <<"insert", "confirm">>
      \/ q = <<"insert", "confirm">> /\ t = <<"confirm">>
      \/ q = <<"row", "commit">> /\ t = <<"commit">>
      \/ q = <<"row", "commit", "confirm">> /\ t = <<"commit", "confirm">>
      \/ q = <<"commit", "confirm">> /\ t = <<"confirm">>
      \/ q = <<"row", "target", "commit">> /\ t = <<"target", "commit">>
      \/ q = <<"target", "commit">> /\ t = <<"commit">>
      \/ q = <<"row", "target", "label">> /\ t = <<"target", "label">>
      \/ q = <<"target", "label">> /\ t = <<"label">>
      \/ q = <<"row", "spec", "use">> /\ t = <<"spec", "use">>
      \/ q = <<"spec", "use">> /\ t = <<"use">>
      \/ q = <<"row", "row", "target">> /\ t = <<"row", "target">>
      \/ q = <<"row", "target">> /\ t = <<"target">>
  <2>1. ASSUME NEW x, NEW y, q = <<x, y>>
        PROVE  t = <<y>>
    BY <1>1, <2>1, Zenon DEF t
  <2>2. ASSUME NEW x, NEW y, NEW z, q = <<x, y, z>>
        PROVE  t = <<y, z>>
    BY <1>1, <2>2, Zenon DEF t
  <2>3. CASE q \in {<<"exists", "insert">>, <<"insert", "confirm">>, <<"row", "commit">>, <<"commit", "confirm">>}
    BY <2>1, <2>3, Zenon
  <2>4. CASE q \in {<<"target", "commit">>, <<"target", "label">>, <<"spec", "use">>, <<"row", "target">>}
    BY <2>1, <2>4, Zenon
  <2>5. CASE q \in {<<"exists", "insert", "confirm">>, <<"row", "commit", "confirm">>, <<"row", "target", "commit">>}
    BY <2>2, <2>5, Zenon
  <2>6. CASE q \in {<<"row", "target", "label">>, <<"row", "spec", "use">>, <<"row", "row", "target">>}
    BY <2>2, <2>6, Zenon
  <2> QED
    BY <1>2, <2>3, <2>4, <2>5, <2>6, Zenon
<1>4. t \in Rests
  BY <1>3 DEF Rests, Spent, CreateRests, UpdateRests, RollbackRests, SandboxRests, ExportRests, OtherRests
<1>5. t # <<>> /\ t # <<"lookup">>
  BY <1>3
<1>6. q \notin Spent \cup {<<"lookup">>, <<"label">>, <<"commit">>}
  BY <1>2 DEF Spent
<1>7. t \in CreateRests => q \in CreateRests
  BY <1>3 DEF CreateRests
<1>8. t \in UpdateRests => q \in UpdateRests \cup RollbackRests
  BY <1>3 DEF UpdateRests, RollbackRests
<1>10. t \in RollbackRests => q \in RollbackRests
  BY <1>3 DEF RollbackRests
<1>11. t \in ExportRests => q \in ExportRests
  BY <1>3 DEF ExportRests
<1>9. t \in SandboxRests <=> q \in SandboxRests
  BY <1>3 DEF SandboxRests
<1> QED
  BY <1>4, <1>5, <1>6, <1>7, <1>8, <1>9, <1>10, <1>11 DEF t

\* The plan of every call is one of the plans, and the one of its kind.
LEMMA PlanOfKind ==
    ASSUME NEW kind \in TplKinds \ {"answered"}, NEW asked \in Nat,
           NEW q, q = PlanOf(kind, asked)
    PROVE  /\ q \in Rests /\ q # <<>>
           /\ q \in CreateRests => kind = "create"
           /\ q \in UpdateRests => kind = "update"
           /\ q \in RollbackRests => kind = "rollback"
           /\ q \in ExportRests => kind = "export"
           /\ q \in SandboxRests <=> kind = "sandbox"
           /\ q = <<"lookup">> => kind \in Strategies
<1> USE DEF Rests, Spent, CreateRests, UpdateRests, RollbackRests, SandboxRests, ExportRests, OtherRests
<1>1. CASE kind = "create"
  <2>1. q = <<"exists", "insert">>
    BY <1>1 DEF Strategies, PlanOf, CreatePlan
  <2> QED
    BY <2>1, <1>1
<1>2. CASE kind = "update"
  <2>1. q = <<"row", "commit">>
    BY <1>2 DEF Strategies, PlanOf, UpdatePlan
  <2> QED
    BY <2>1, <1>2
<1>3. CASE kind = "rollback"
  <2>1. q = <<"row", "target", "commit">>
    BY <1>3 DEF Strategies, PlanOf, RollbackPlan
  <2> QED
    BY <2>1, <1>3
<1>4. CASE kind = "sandbox"
  <2>1. q = <<"row", "target", "label">>
    BY <1>4 DEF Strategies, PlanOf, SandboxPlan
  <2> QED
    BY <2>1, <1>4
<1>5. CASE kind = "export"
  <2>1. q = <<"row", "spec", "use">> \/ q = <<"row", "row", "target">>
    BY <1>5 DEF Strategies, PlanOf, ExportPlan
  <2> QED
    BY <2>1, <1>5
<1>6. CASE kind = "delete"
  <2>1. q = <<"delete">>
    BY <1>6 DEF Strategies, PlanOf
  <2> QED
    BY <2>1, <1>6
<1>7. CASE kind \in Strategies
  <2>1. q = <<"lookup">>
    BY <1>7 DEF Strategies, PlanOf
  <2> QED
    BY <2>1, <1>7 DEF Strategies
<1> QED
  BY <1>1, <1>2, <1>3, <1>4, <1>5, <1>6, <1>7 DEF TplKinds, Writes

\* Whatever is called: the parts of a call, and a rollback sets no metadata.
LEMMA CallParts ==
    ASSUME NEW i \in 1 .. Len(TplCalls)
    PROVE  /\ TplCalls[i][1] \in TplKinds \ {"answered"}
           /\ TplCalls[i][2] \in Nat
           /\ TplCalls[i][1] = "rollback" => ~TplCalls[i][3]
<1>1. i \in {1, 2, 3, 4, 5, 6, 7, 8, 9, 10, 11, 12, 13, 14}
  BY DEF TplCalls
<1>2. /\ TplCalls[1] = <<"create", 0, TRUE>>
      /\ TplCalls[2] = <<"update", 0, TRUE>>
      /\ TplCalls[3] = <<"update", 0, FALSE>>
      /\ TplCalls[4] = <<"rollback", 1, FALSE>>
      /\ TplCalls[5] = <<"rollback", 2, FALSE>>
      /\ TplCalls[6] = <<"delete", 0, FALSE>>
      /\ TplCalls[7] = <<"sandbox", 0, FALSE>>
      /\ TplCalls[8] = <<"sandbox", 1, FALSE>>
      /\ TplCalls[9] = <<"sandbox", 2, FALSE>>
      /\ TplCalls[10] = <<"export", 0, FALSE>>
      /\ TplCalls[11] = <<"export", 2, FALSE>>
      /\ TplCalls[12] = <<"create-only", 0, TRUE>>
      /\ TplCalls[13] = <<"update-only", 0, TRUE>>
      /\ TplCalls[14] = <<"create-or-update", 0, TRUE>>
  BY DEF TplCalls
<1>3. /\ TplCalls[1][1] = "create" /\ TplCalls[1][2] = 0
      /\ TplCalls[2][1] = "update" /\ TplCalls[2][2] = 0
      /\ TplCalls[3][1] = "update" /\ TplCalls[3][2] = 0
      /\ TplCalls[4][1] = "rollback" /\ TplCalls[4][2] = 1
      /\ TplCalls[5][1] = "rollback" /\ TplCalls[5][2] = 2
      /\ TplCalls[6][1] = "delete" /\ TplCalls[6][2] = 0
      /\ TplCalls[7][1] = "sandbox" /\ TplCalls[7][2] = 0
      /\ TplCalls[8][1] = "sandbox" /\ TplCalls[8][2] = 1
      /\ TplCalls[9][1] = "sandbox" /\ TplCalls[9][2] = 2
      /\ TplCalls[10][1] = "export" /\ TplCalls[10][2] = 0
      /\ TplCalls[11][1] = "export" /\ TplCalls[11][2] = 2
      /\ TplCalls[12][1] = "create-only" /\ TplCalls[12][2] = 0
      /\ TplCalls[13][1] = "update-only" /\ TplCalls[13][2] = 0
      /\ TplCalls[14][1] = "create-or-update" /\ TplCalls[14][2] = 0
  BY <1>2
<1>4. /\ TplCalls[i][1] \in {"create", "update", "rollback", "delete", "sandbox", "export",
                              "create-only", "update-only", "create-or-update"}
      /\ TplCalls[i][2] \in {0, 1, 2}
  BY SMTT(30), <1>1, <1>3
<1>5. TplCalls[i][1] = "rollback" => i \in {4, 5}
  BY <1>1, <1>3
<1>6. ~TplCalls[4][3] /\ ~TplCalls[5][3]
  BY <1>2
<1> QED
  BY <1>4, <1>5, <1>6 DEF TplKinds, Writes, Strategies

-----------------------------------------------------------------------------
(* Requests *)

\* A request is good while its first query has not run.
LEMMA RequestIsGood ==
    ASSUME 0 \notin Live, NEW c \in TplRequests, NEW i \in 1 .. Len(TplCalls)
    PROVE  /\ Request(c, TplCalls[i]) \in TplOp
           /\ Good(c, Request(c, TplCalls[i]))
<1> DEFINE kind == TplCalls[i][1]
           asked == TplCalls[i][2]
           op == Request(c, TplCalls[i])
<1>1. /\ kind \in TplKinds \ {"answered"} /\ asked \in Nat
      /\ kind = "rollback" => ~TplCalls[i][3]
  BY CallParts
<1>2. PICK q : q = PlanOf(kind, asked)
  OBVIOUS
<1>3. /\ q \in Rests /\ q # <<>>
      /\ q \in CreateRests => kind = "create"
      /\ q \in UpdateRests => kind = "update"
      /\ q \in RollbackRests => kind = "rollback"
      /\ q \in ExportRests => kind = "export"
      /\ q \in SandboxRests <=> kind = "sandbox"
      /\ q = <<"lookup">> => kind \in Strategies
  BY <1>1, <1>2, PlanOfKind
<1>4. PICK m \in Metas : /\ m = IF TplCalls[i][3] THEN c ELSE Keep
                         /\ kind = "rollback" => m = Keep
  BY <1>1 DEF Metas, TplSpecs
<1>5. op = [kind |-> kind, todo |-> q, reply |-> "none", asked |-> asked, meta |-> m, id |-> 0,
            latest |-> 0, had |-> Keep, seen |-> {}, spec |-> {c}, used |-> 0, told |-> 0]
  <2>1. op = [Waiting EXCEPT !.kind = kind, !.asked = asked, !.meta = m, !.spec = {c}, !.todo = q]
    BY <1>2, <1>4, Zenon DEF Request
  <2> HIDE DEF op, kind, asked
  <2> QED
    BY <2>1 DEF Waiting
<1> HIDE DEF op, kind, asked
<1>6. op \in TplOp
  BY <1>1, <1>3, <1>5 DEF TplOp, Metas, TplSpecs, Replies
<1>7. CopyOK(op) /\ SpecOK(c, op)
  BY <1>3, <1>5 DEF CopyOK, SpecOK
<1>8. PlanOK(op)
  BY <1>3, <1>4, <1>5 DEF PlanOK, Writes
<1>9. SandboxOK(op)
  <2>1. op.kind = "sandbox" => op.todo # <<"label">>
    <3>1. CASE kind = "sandbox"
      BY <1>2, <1>5, <3>1 DEF PlanOf, SandboxPlan, Strategies
    <3> QED
      BY <1>5, <3>1
  <2> QED
    BY <2>1, <1>5 DEF SandboxOK
<1> QED
  BY <1>6, <1>7, <1>8, <1>9 DEF Good, op

\* An answer that is not a success ends any request well, and so does any
\* answer to a request that makes no sandbox.
LEMMA FinishIsGood ==
    ASSUME 0 \notin Live, Types, NEW c \in TplRequests, NEW op \in TplOp, Good(c, op),
           NEW reply \in Replies, reply # "ok" \/ op.kind # "sandbox"
    PROVE  /\ Finish(op, reply) \in TplOp
           /\ Good(c, Finish(op, reply))
<1>1. CASE op.kind = "sandbox"
  <2> DEFINE new == Finish(op, reply)
  <2>1. new = [op EXCEPT !.todo = <<>>, !.reply = reply, !.latest = 0, !.had = Keep, !.seen = {}]
    BY <1>1 DEF Finish
  <2> HIDE DEF new
  <2>2. new \in TplOp
    BY <2>1 DEF TplOp, Rests, Spent, Metas
  <2>3. CopyOK(new)
    BY <2>1 DEF Good, CopyOK, Types, Rows, TplOp
  <2>4. SpecOK(c, new)
    BY <1>1, <2>1 DEF Good, SpecOK, TplOp, Writes, Strategies
  <2>5. PlanOK(new)
    BY <1>1, <2>1 DEF PlanOK, TplOp, CreateRests, UpdateRests, RollbackRests, SandboxRests, ExportRests
  <2>6. SandboxOK(new)
    BY <1>1, <2>1 DEF SandboxOK, TplOp
  <2> QED
    BY <2>2, <2>3, <2>4, <2>5, <2>6 DEF Good, new
<1>2. CASE op.kind # "sandbox"
  <2> DEFINE new == Finish(op, reply)
  <2>1. new = [kind |-> "answered", todo |-> <<>>, reply |-> reply, asked |-> 0, meta |-> Keep,
               id |-> 0, latest |-> 0, had |-> Keep, seen |-> {}, spec |-> {}, used |-> 0, told |-> 0]
    BY <1>2 DEF Finish, Waiting
  <2> HIDE DEF new
  <2>2. new \in TplOp
    BY <2>1 DEF TplOp, TplKinds, Rests, Spent, Metas
  <2>3. CopyOK(new) /\ SpecOK(c, new) /\ SandboxOK(new)
    BY <2>1 DEF CopyOK, SpecOK, SandboxOK, Writes, Strategies
  <2>4. PlanOK(new)
    BY <2>1 DEF PlanOK, CreateRests, UpdateRests, RollbackRests, SandboxRests, ExportRests
  <2> QED
    BY <2>2, <2>3, <2>4 DEF Good, new
<1> QED
  BY <1>1, <1>2

\* A request that makes no sandbox and has read no version may go on.
LEMMA ProceedIsGood ==
    ASSUME 0 \notin Live, Types, NEW c \in TplRequests, NEW op \in TplOp, Good(c, op),
           op.kind # "sandbox", op.todo # <<>>
    PROVE  /\ Proceed(op) \in TplOp
           /\ Good(c, Proceed(op))
<1>1. CASE Len(op.todo) = 1
  BY <1>1, FinishIsGood DEF Proceed, Replies
<1>2. CASE Len(op.todo) # 1
  <2> DEFINE new == Proceed(op)
  <2>1. PICK q : q = Tail(op.todo)
    OBVIOUS
  <2>2. new = [op EXCEPT !.todo = q]
    BY <1>2, <2>1 DEF Proceed
  <2> HIDE DEF new
  <2>3. op.todo \in Rests
    BY DEF TplOp
  <2>4. /\ q \in Rests /\ q # <<>>
        /\ op.todo \notin Spent \cup {<<"lookup">>, <<"label">>, <<"commit">>}
        /\ q # <<"lookup">>
        /\ q \in CreateRests => op.todo \in CreateRests
        /\ q \in UpdateRests => op.todo \in UpdateRests \cup RollbackRests
        /\ q \in RollbackRests => op.todo \in RollbackRests
        /\ q \in ExportRests => op.todo \in ExportRests
        /\ q \in SandboxRests <=> op.todo \in SandboxRests
    BY <1>2, <2>1, <2>3, TailOfRest
  <2>5. new \in TplOp
    BY <2>2, <2>4 DEF TplOp
  <2>6. CopyOK(new)
    BY <2>2 DEF Good, CopyOK, TplOp
  <2>7. SpecOK(c, new)
    BY <2>2, <2>4 DEF Good, SpecOK, TplOp, Spent
  <2>8. PlanOK(new)
    BY <2>2, <2>4 DEF Good, PlanOK, TplOp
  <2>9. SandboxOK(new)
    BY <2>2 DEF SandboxOK, TplOp
  <2> QED
    BY <2>5, <2>6, <2>7, <2>8, <2>9 DEF Good, new
<1> QED
  BY <1>1, <1>2

-----------------------------------------------------------------------------
(* The initial states *)

\* There are at most as many writes as requests.
LEMMA DoneIsFinite ==
    IsFiniteSet(SpentOps) /\ Cardinality(SpentOps) \in 0 .. MaxTplRequests
<1>1. IsFiniteSet(TplRequests) /\ Cardinality(TplRequests) = MaxTplRequests
  BY TplAssumption, FS_Interval DEF TplRequests
<1>2. SpentOps \in SUBSET TplRequests
  BY DEF SpentOps
<1> QED
  BY <1>1, <1>2, FS_Subset, FS_CardinalityType, TplAssumption

\* Requests that are done stay done; one more of them counts.
LEMMA DoneGrows ==
    ASSUME SpentOps \subseteq SpentOps'
    PROVE  /\ Cardinality(SpentOps) \in Nat /\ Cardinality(SpentOps') \in Nat
           /\ Cardinality(SpentOps) <= Cardinality(SpentOps')
           /\ SpentOps # SpentOps' => Cardinality(SpentOps) + 1 <= Cardinality(SpentOps')
<1>1. IsFiniteSet(TplRequests) /\ SpentOps' \in SUBSET TplRequests
  BY TplAssumption, FS_Interval DEF TplRequests, SpentOps
<1>2. IsFiniteSet(SpentOps') /\ Cardinality(SpentOps') \in Nat
  BY <1>1, FS_Subset, FS_CardinalityType
<1> QED
  BY <1>2, DoneIsFinite, FS_Subset

\* The initial states.
LEMMA TplInit == TemplateInit => TplInv
<1> SUFFICES ASSUME TemplateInit PROVE TplInv
  OBVIOUS
<1>1. PICK n \in 0 .. MaxStoredVersions :
        /\ tplRows = [id \in IF n = 0 THEN {} ELSE {1} |-> [latest |-> n, meta |-> Original]]
        /\ tplVersions = {[id |-> 1, version |-> v, spec |-> Original] : v \in 1 .. n}
  BY DEF TemplateInit
<1>2. PICK k \in [TplRequests -> 1 .. Len(TplCalls)] :
        tplOps = [c \in TplRequests |-> Request(c, TplCalls[k[c]])]
  BY DEF TemplateInit
<1>3. tplAcked = {} /\ Known = {1}
  BY DEF TemplateInit, Known
<1>4. Live = IF n = 0 THEN {} ELSE {1}
  BY <1>1 DEF Live
<1>5. n \in Nat /\ Original \in TplSpecs
  BY TplAssumption DEF TplSpecs, Original
<1>6. Types
  <2>1. tplRows \in [Live -> Rows] /\ Live \subseteq Nat \ {0}
    BY <1>1, <1>4, <1>5 DEF Rows, Metas
  <2>2. tplVersions \subseteq [id : Nat, version : Nat \ {0}, spec : TplSpecs]
    BY <1>1, <1>5
  <2>3. tplOps \in [TplRequests -> TplOp]
    BY <1>2, <1>4, RequestIsGood
  <2> QED
    BY <1>3, <2>1, <2>2, <2>3 DEF Types
<1>7. OneRow /\ AckedIsStored /\ MetaOfNewest
  BY <1>3, <1>4 DEF OneRow, AckedIsStored, MetaOfNewest
<1>8. VersionsAreContiguous
  <2>1. ASSUME n # 0
        PROVE  {v.version : v \in VersionsOf(1)} = 1 .. n
    <3>1. ASSUME NEW m \in 1 .. n
          PROVE  m \in {v.version : v \in VersionsOf(1)}
      <4>1. [id |-> 1, version |-> m, spec |-> Original] \in VersionsOf(1)
        BY <1>1 DEF VersionsOf
      <4> QED
        BY <4>1
    <3>2. \A v \in VersionsOf(1) : v.version \in 1 .. n
      BY <1>1 DEF VersionsOf
    <3> QED
      BY <3>1, <3>2
  <2>2. \A v \in tplVersions : v.id = 1 /\ n # 0
    BY <1>1
  <2> QED
    BY <1>1, <1>4, <2>1, <2>2 DEF VersionsAreContiguous
<1>9. \A c \in TplRequests : OpOK(c)
  BY <1>2, <1>4, RequestIsGood DEF OpOK
<1>10. Bounded
  BY <1>1, <1>3, <1>4, DoneIsFinite, TplAssumption DEF Bounded
<1> QED
  BY <1>6, <1>7, <1>8, <1>9, <1>10 DEF TplInv

-----------------------------------------------------------------------------
(* Reads *)

\* Only what the request that reads remembers has to be looked at.
LEMMA ReadsKeep ==
    ASSUME TplInv, NEW c \in TplRequests, NEW new \in TplOp, Good(c, new), Reads(c, new),
           tplOps[c].todo \in Spent => new.todo \in Spent
    PROVE  TplInv'
<1>1. /\ UNCHANGED <<tplRows, tplVersions, tplAcked>>
      /\ tplOps' = [tplOps EXCEPT ![c] = new]
  BY DEF Reads
<1>2. Types'
  BY <1>1 DEF TplInv, Types, Live
<1>3. (OneRow /\ VersionsAreContiguous /\ AckedIsStored /\ MetaOfNewest)'
  BY <1>1 DEF TplInv, OneRow, VersionsAreContiguous, AckedIsStored, MetaOfNewest, Known, Live,
              GetVersion, VersionsOf
<1>4. \A d \in TplRequests : OpOK(d)'
  <2> TAKE d \in TplRequests
  <2>1. tplOps'[d] = IF d = c THEN new ELSE tplOps[d]
    BY <1>1 DEF TplInv, Types
  <2>2. Good(d, tplOps'[d])
    BY <2>1 DEF TplInv, OpOK
  <2> QED
    BY <1>1, <2>2 DEF OpOK, Good, CopyOK, SpecOK, PlanOK, SandboxOK, Known, Live, GetVersion, VersionsOf
<1>5. Bounded'
  <2>1. SpentOps \subseteq SpentOps'
    BY <1>1 DEF TplInv, Types, SpentOps
  <2>2. /\ Cardinality(SpentOps) \in Nat /\ Cardinality(SpentOps') \in Nat
        /\ Cardinality(SpentOps) <= Cardinality(SpentOps')
    BY <2>1, DoneGrows
  <2>3. /\ \A id \in Live : tplRows[id].latest \in Nat
        /\ Known \subseteq Nat
    BY DEF TplInv, Types, Rows, Known, Acks
  <2>4. Bounded
    BY DEF TplInv
  <2>5. Live' = Live /\ Known' = Known
    BY <1>1 DEF Live, Known
  <2> QED
    BY <1>1, <2>2, <2>3, <2>4, <2>5, TplAssumption DEF Bounded
<1> QED
  BY <1>2, <1>3, <1>4, <1>5 DEF TplInv

\* No request is at "delete", "row" or the like once it is done.
LEMMA AtRest ==
    ASSUME NEW c \in TplRequests, tplOps[c] \in TplOp, NEW step, At(c, step), step # "confirm"
    PROVE  tplOps[c].todo \in Rests \ Spent
  BY DEF At, TplOp, Spent

\* What may be left to do for one template of an import.
LEMMA ImportRests ==
    ASSUME NEW q \in {<<"confirm">>, <<"exists", "insert", "confirm">>, <<"row", "commit", "confirm">>}
    PROVE  /\ q \in Rests /\ q # <<>> /\ q # <<"lookup">>
           /\ q \notin SandboxRests \cup RollbackRests \cup ExportRests
<1>1. q \in Rests
  BY DEF Rests, Spent, CreateRests, UpdateRests
<1>2. q # <<>> /\ q # <<"lookup">>
  OBVIOUS
<1>3. q \notin SandboxRests \cup RollbackRests \cup ExportRests
  BY DEF SandboxRests, RollbackRests, ExportRests
<1> QED
  BY <1>1, <1>2, <1>3

\* An import may be given another plan as long as it has read no version.
LEMMA ReplanIsGood ==
    ASSUME NEW c \in TplRequests, NEW op \in TplOp, Good(c, op), op.kind \in Strategies,
           op.todo # <<>>, op.used = 0,
           NEW q \in {<<"confirm">>, <<"exists", "insert", "confirm">>, <<"row", "commit", "confirm">>},
           NEW new, new = [op EXCEPT !.todo = q]
    PROVE  new \in TplOp /\ Good(c, new)
<1>1. /\ q \in Rests /\ q # <<>> /\ q # <<"lookup">>
      /\ q \notin SandboxRests \cup RollbackRests \cup ExportRests
  BY ImportRests
<1>2. new \in TplOp
  BY <1>1 DEF TplOp
<1>3. op.kind \in Writes /\ op.kind # "sandbox" /\ op.kind # "rollback"
  BY DEF Writes, Strategies
<1>4. CopyOK(new) /\ SpecOK(c, new)
  BY <1>1, <1>3 DEF Good, CopyOK, SpecOK, TplOp
<1>5. PlanOK(new) /\ SandboxOK(new)
  BY <1>1, <1>3 DEF Good, PlanOK, SandboxOK, TplOp
<1> QED
  BY <1>2, <1>4, <1>5 DEF Good

\* A plan of two steps and one more.
LEMMA AppendStep ==
    ASSUME NEW x, NEW y, NEW z
    PROVE  <<x, y>> \o <<z>> = <<x, y, z>>
<1> DEFINE S == {x, y, z}
           s == <<x, y>> \o <<z>>
           t == <<x, y, z>>
<1>1. Len(s) = 3 /\ s[1] = x /\ s[2] = y /\ s[3] = z
  OBVIOUS
<1>2. Len(t) = 3 /\ t[1] = x /\ t[2] = y /\ t[3] = z
  OBVIOUS
<1>3. s \in Seq(S) /\ t \in Seq(S)
  OBVIOUS
<1> HIDE DEF s, t, S
<1>4. \A i \in 1 .. Len(s) : s[i] = t[i]
  BY <1>1, <1>2
<1>5. s = t
  BY <1>1, <1>2, <1>3, <1>4, SeqEqual
<1> QED
  BY <1>5 DEF s, t

\* The template is looked up by its name.
LEMMA LookupKeeps ==
    ASSUME TplInv, NEW c \in TplRequests, Lookup(c)
    PROVE  TplInv'
<1> DEFINE op == tplOps[c]
<1>1. op \in TplOp /\ Good(c, op) /\ 0 \notin Live /\ Types
  BY DEF TplInv, Types, OpOK
<1>2. op.todo \in Rests \ Spent
  BY <1>1, AtRest DEF Lookup
<1>3. op.todo = <<"lookup">> /\ op.kind \in Strategies /\ op.used = 0
  BY <1>1, HeadOfRest DEF Lookup, At, TplOp, Good, PlanOK, SpecOK
<1>4. PICK plan : plan = ImportPlan(op.kind, Live # {})
  OBVIOUS
<1>5. plan \in {<<>>, <<"exists", "insert", "confirm">>, <<"row", "commit", "confirm">>}
  <2>1. /\ UpdatePlan \o <<"confirm">> = <<"row", "commit", "confirm">>
        /\ CreatePlan \o <<"confirm">> = <<"exists", "insert", "confirm">>
    BY AppendStep, Zenon DEF UpdatePlan, CreatePlan
  <2>2. \/ plan = <<>>
        \/ plan = (IF Live # {} THEN UpdatePlan ELSE CreatePlan) \o <<"confirm">>
    BY <1>4, Zenon DEF ImportPlan
  <2> QED
    BY <2>1, <2>2, Zenon
<1>6. PICK new : new = IF plan = <<>> THEN Finish(op, "skipped") ELSE [op EXCEPT !.todo = plan]
  OBVIOUS
<1>7. Reads(c, new)
  BY <1>4, <1>6 DEF Lookup
<1>8. new \in TplOp /\ Good(c, new)
  <2>1. CASE plan = <<>>
    <3>1. new = Finish(op, "skipped") /\ "skipped" \in Replies
      BY <1>6, <2>1, Zenon DEF Replies
    <3> QED
      BY <1>1, <3>1, FinishIsGood
  <2>2. CASE plan # <<>>
    <3>1. new = [op EXCEPT !.todo = plan]
      BY <1>6, <2>2, Zenon
    <3>2. op.todo # <<>>
      BY <1>3
    <3>3. plan \in {<<"confirm">>, <<"exists", "insert", "confirm">>, <<"row", "commit", "confirm">>}
      BY <1>5, <2>2
    <3> QED
      BY <1>1, <1>3, <3>1, <3>2, <3>3, ReplanIsGood
  <2> QED
    BY <2>1, <2>2
<1> QED
  BY <1>2, <1>7, <1>8, ReadsKeep

\* It is checked whether the name is taken.
LEMMA ExistsKeeps ==
    ASSUME TplInv, NEW c \in TplRequests, Exists(c)
    PROVE  TplInv'
<1> DEFINE op == tplOps[c]
<1>1. op \in TplOp /\ Good(c, op) /\ 0 \notin Live /\ Types
  BY DEF TplInv, Types, OpOK
<1>2. op.todo \in Rests \ Spent
  BY <1>1, AtRest DEF Exists
<1>3. op.todo \in CreateRests /\ op.todo # <<>>
  BY <1>1, <1>2, HeadOfRest DEF Exists, At, TplOp, CreateRests
<1>4. op.kind # "sandbox"
  BY <1>1, <1>3 DEF Good, PlanOK, Writes, Strategies
<1>5. PICK new : new = IF Live # {} THEN Finish(op, "conflict") ELSE Proceed(op)
  OBVIOUS
<1>6. Reads(c, new)
  BY <1>5 DEF Exists
<1>7. new \in TplOp /\ Good(c, new)
  <2>1. CASE Live # {}
    BY <1>1, <1>5, <2>1, FinishIsGood DEF Replies
  <2>2. CASE Live = {}
    BY <1>1, <1>3, <1>4, <1>5, <2>2, ProceedIsGood
  <2> QED
    BY <2>1, <2>2
<1> QED
  BY <1>2, <1>6, <1>7, ReadsKeep

\* A sandbox is created from the spec that was read.
LEMMA UseSpecKeeps ==
    ASSUME TplInv, NEW c \in TplRequests, UseSpec(c)
    PROVE  TplInv'
<1> DEFINE op == tplOps[c]
<1>1. op \in TplOp /\ Good(c, op) /\ 0 \notin Live /\ Types
  BY DEF TplInv, Types, OpOK
<1>2. op.todo \in Rests \ Spent
  BY <1>1, AtRest DEF UseSpec
<1>3. op.todo = <<"use">>
  BY <1>1, <1>2, HeadOfRest DEF UseSpec, At, TplOp
<1>4. op.kind # "sandbox"
  BY <1>1, <1>3 DEF Good, PlanOK, SandboxRests
<1>5. PICK reply \in Replies : Reads(c, Finish(op, reply))
  BY DEF UseSpec, Replies
<1> QED
  BY <1>1, <1>2, <1>4, <1>5, FinishIsGood, ReadsKeep

\* The spec is read.
LEMMA ReadSpecKeeps ==
    ASSUME TplInv, NEW c \in TplRequests, ReadSpec(c)
    PROVE  TplInv'
<1> DEFINE op == tplOps[c]
<1>1. op \in TplOp /\ Good(c, op) /\ 0 \notin Live /\ Types
  BY DEF TplInv, Types, OpOK
<1>2. op.todo \in Rests \ Spent
  BY <1>1, AtRest DEF ReadSpec
<1>3. op.todo = <<"spec", "use">> /\ op.todo # <<>>
  BY <1>1, <1>2, HeadOfRest DEF ReadSpec, At, TplOp, Spent
<1>4. op.kind # "sandbox"
  BY <1>1, <1>3 DEF Good, PlanOK, SandboxRests
<1>5. PICK seen : seen = GetVersion(op.id, op.latest)
  OBVIOUS
<1>6. seen \in SUBSET TplSpecs
  BY <1>1, <1>5 DEF GetVersion, VersionsOf, Types
<1>7. PICK read : read = [op EXCEPT !.seen = seen]
  OBVIOUS
<1>8. read \in TplOp /\ read.todo # <<>> /\ read.kind # "sandbox"
  BY <1>1, <1>3, <1>4, <1>6, <1>7 DEF TplOp
<1>9. Good(c, read)
  BY <1>1, <1>7 DEF Good, CopyOK, SpecOK, PlanOK, SandboxOK, TplOp
<1>10. Reads(c, Proceed(read))
  BY <1>5, <1>7 DEF ReadSpec
<1> QED
  BY <1>1, <1>2, <1>8, <1>9, <1>10, ProceedIsGood, ReadsKeep

\* A request that has read the row has a good copy of it.
LEMMA FoundIsGood ==
    ASSUME TplInv, NEW c \in TplRequests, At(c, "row"), NEW id \in Live
    PROVE  /\ Found(tplOps[c], id) \in TplOp
           /\ Good(c, Found(tplOps[c], id))
<1> DEFINE op == tplOps[c]
<1>1. op \in TplOp /\ Good(c, op) /\ 0 \notin Live /\ Types
  BY DEF TplInv, Types, OpOK
<1>2. /\ op.todo \in {<<"row", "commit">>, <<"row", "commit", "confirm">>,
                <<"row", "target", "commit">>, <<"row", "target", "label">>,
                <<"row", "spec", "use">>, <<"row", "row", "target">>, <<"row", "target">>}
      /\ op.todo # <<>>
  BY <1>1, HeadOfRest DEF At, TplOp
<1>3. op.used = 0
  BY <1>1, <1>2 DEF Good, SpecOK
<1>4. PICK read : read = [op EXCEPT !.id = id, !.latest = tplRows[id].latest, !.had = tplRows[id].meta]
  OBVIOUS
<1>5. /\ id \in Known /\ id \in Nat
      /\ tplRows[id].latest \in Nat /\ tplRows[id].meta \in Metas
  BY DEF TplInv, Types, Rows, OneRow
<1>6. read \in TplOp /\ read.todo = op.todo /\ read.kind = op.kind
  BY <1>1, <1>4, <1>5 DEF TplOp
<1>7. CopyOK(read)
  BY <1>1, <1>4, <1>5 DEF CopyOK, TplOp
<1>8. SpecOK(c, read) /\ PlanOK(read)
  BY <1>1, <1>3, <1>4 DEF Good, SpecOK, PlanOK, TplOp
<1>9. read.reply = "none" /\ read.used = 0
  BY <1>1, <1>2, <1>3, <1>4 DEF Good, PlanOK, TplOp
<1>10. SandboxOK(read)
  BY <1>2, <1>6, <1>9 DEF SandboxOK
<1>11. Good(c, read)
  BY <1>7, <1>8, <1>10 DEF Good
<1>12. CASE op.kind # "sandbox"
  BY <1>1, <1>2, <1>4, <1>6, <1>11, <1>12, ProceedIsGood DEF Found
<1>13. CASE op.kind = "sandbox"
  <2>1. op.todo = <<"row", "target", "label">>
    BY <1>1, <1>2, <1>13 DEF Good, PlanOK, SandboxRests
  <2>2. Len(op.todo) = 3 /\ Tail(op.todo) = <<"target", "label">>
    BY <2>1
  <2>3. PICK new : new = [read EXCEPT !.todo = <<"target", "label">>]
    OBVIOUS
  <2>4. Found(op, id) = new
    <3>1. Found(op, id) = Proceed(read)
      BY <1>4 DEF Found
    <3>2. Proceed(read) = [read EXCEPT !.todo = Tail(@)]
      BY <1>6, <2>2 DEF Proceed
    <3> QED
      BY <1>6, <2>2, <2>3, <3>1, <3>2
  <2>5. new \in TplOp
    BY <1>6, <2>3 DEF TplOp, Rests, SandboxRests
  <2>6. CopyOK(new)
    BY <1>6, <1>7, <2>3 DEF CopyOK, TplOp
  <2>7. SpecOK(c, new)
    BY <1>2, <1>6, <1>8, <1>9, <2>3 DEF SpecOK, TplOp
  <2>8. PlanOK(new)
    BY <1>6, <1>9, <1>13, <2>3 DEF PlanOK, TplOp, SandboxRests, CreateRests, UpdateRests, RollbackRests, ExportRests
  <2>9. SandboxOK(new)
    BY <1>6, <1>9, <2>3 DEF SandboxOK, TplOp
  <2> QED
    BY <2>4, <2>5, <2>6, <2>7, <2>8, <2>9 DEF Good
<1> QED
  BY <1>12, <1>13

\* The row is read.
LEMMA ReadRowKeeps ==
    ASSUME TplInv, NEW c \in TplRequests, ReadRow(c)
    PROVE  TplInv'
<1> DEFINE op == tplOps[c]
<1>1. op \in TplOp /\ Good(c, op) /\ 0 \notin Live /\ Types
  BY DEF TplInv, Types, OpOK
<1>2. op.todo \in Rests \ Spent
  BY <1>1, AtRest DEF ReadRow
<1>3. CASE Live # {}
  <2>1. PICK id \in Live : Reads(c, Found(op, id))
    BY <1>3 DEF ReadRow
  <2> QED
    BY <1>2, <2>1, FoundIsGood, ReadsKeep DEF ReadRow
<1>4. CASE Live = {} /\ op.kind \in Strategies
  <2>1. PICK new : new = [op EXCEPT !.todo = <<"confirm">>]
    OBVIOUS
  <2>2. Reads(c, new)
    BY <1>4, <2>1 DEF ReadRow
  <2>3. op.todo # <<>> /\ op.used = 0
    <3>1. op.todo \in {<<"row", "commit">>, <<"row", "commit", "confirm">>,
                <<"row", "target", "commit">>, <<"row", "target", "label">>,
                <<"row", "spec", "use">>, <<"row", "row", "target">>, <<"row", "target">>}
      BY <1>1, HeadOfRest DEF ReadRow, At, TplOp
    <3> QED
      BY <1>1, <3>1 DEF Good, SpecOK
  <2> QED
    BY <1>1, <1>2, <1>4, <2>1, <2>2, <2>3, ReplanIsGood, ReadsKeep
<1>5. CASE Live = {} /\ op.kind \notin Strategies
  <2>1. Reads(c, Finish(op, "notfound"))
    BY <1>5 DEF ReadRow
  <2> QED
    BY <1>1, <1>2, <2>1, FinishIsGood, ReadsKeep DEF Replies
<1> QED
  BY <1>3, <1>4, <1>5

\* A version that was found is stored under a template that is there.
LEMMA FoundVersion ==
    ASSUME TplInv, NEW id, NEW n, GetVersion(id, n) # {}
    PROVE  id \in Live /\ n \in 1 .. tplRows[id].latest /\ GetVersion(id, n) \in SUBSET TplSpecs
<1>1. PICK v \in tplVersions : v.id = id /\ v.version = n
  BY DEF GetVersion, VersionsOf
<1>2. id \in Live
  BY <1>1 DEF TplInv, VersionsAreContiguous
<1>3. n \in {w.version : w \in VersionsOf(id)}
  BY <1>1 DEF VersionsOf
<1>4. n \in 1 .. tplRows[id].latest
  BY <1>2, <1>3 DEF TplInv, VersionsAreContiguous
<1>5. GetVersion(id, n) \in SUBSET TplSpecs
  BY DEF GetVersion, VersionsOf, TplInv, Types
<1> QED
  BY <1>2, <1>4, <1>5

\* The version to roll back to is read.
LEMMA ReadTargetKeeps ==
    ASSUME TplInv, NEW c \in TplRequests, ReadTarget(c)
    PROVE  TplInv'
<1> DEFINE op == tplOps[c]
<1>1. op \in TplOp /\ Good(c, op) /\ 0 \notin Live /\ Types
  BY DEF TplInv, Types, OpOK
<1>2. op.todo \in Rests \ Spent
  BY <1>1, AtRest DEF ReadTarget
<1>3. op.todo \in {<<"target", "commit">>, <<"target", "label">>, <<"target">>}
  BY <1>1, HeadOfRest DEF ReadTarget, At, TplOp
<1>4. PICK n : n = IF op.asked = 0 THEN op.latest ELSE op.asked
  OBVIOUS
<1>5. CASE GetVersion(op.id, n) = {}
  <2>1. Reads(c, Finish(op, "notfound"))
    BY <1>4, <1>5 DEF ReadTarget
  <2> QED
    BY <1>1, <1>2, <2>1, FinishIsGood, ReadsKeep DEF Replies
<1>6. CASE GetVersion(op.id, n) # {}
  <2>1. PICK spec : spec = GetVersion(op.id, n)
    OBVIOUS
  <2>2. PICK read : read = [op EXCEPT !.spec = spec, !.used = n]
    OBVIOUS
  <2>3. Reads(c, Proceed(read))
    BY <1>4, <1>6, <2>1, <2>2 DEF ReadTarget
  <2>4. op.id \in Live /\ n \in 1 .. tplRows[op.id].latest /\ spec \in SUBSET TplSpecs
    BY <1>6, <2>1, FoundVersion
  <2>5. tplRows[op.id].latest \in Nat /\ n # 0 /\ n \in Nat
    <3>1. tplRows[op.id] \in Rows
      BY <2>4 DEF TplInv, Types
    <3>2. tplRows[op.id].latest \in Nat
      BY <3>1 DEF Rows
    <3> QED
      BY <2>4, <3>2
  <2>6. read \in TplOp /\ read.todo = op.todo /\ read.kind = op.kind
    BY <1>1, <2>2, <2>4, <2>5 DEF TplOp
  <2>7. op.reply = "none" /\ op.todo # <<>>
    BY SMTT(30), <1>1, <1>3 DEF Good, PlanOK
  <2>8. CASE op.todo = <<"target">>
    <3>1. Len(read.todo) = 1 /\ op.kind = "export"
      BY <1>1, <2>6, <2>8 DEF Good, PlanOK, ExportRests
    <3>2. Proceed(read) = Finish(op, "ok")
      BY <2>6, <3>1 DEF Proceed, Finish
    <3> QED
      BY <1>1, <1>2, <2>3, <3>1, <3>2, FinishIsGood, ReadsKeep DEF Replies
  <2>9. CASE op.todo \in {<<"target", "commit">>, <<"target", "label">>}
    <3>1. PICK q : q = Tail(op.todo)
      OBVIOUS
    <3>2. Len(op.todo) = 2
      BY <2>9
    <3>3. /\ op.todo = <<"target", "commit">> => q = <<"commit">>
          /\ op.todo = <<"target", "label">> => q = <<"label">>
      <4>1. \A x, y : Tail(<<x, y>>) = <<y>>
        OBVIOUS
      <4> QED
        BY <3>1, <4>1, Zenon
    <3>4. PICK new : new = [read EXCEPT !.todo = q]
      OBVIOUS
    <3>5. Proceed(read) = new
      BY <2>6, <3>1, <3>2, <3>4 DEF Proceed
    <3>6. \/ q = <<"commit">> /\ op.kind = "rollback"
          \/ q = <<"label">> /\ op.kind = "sandbox"
      BY <1>1, <2>9, <3>3 DEF Good, PlanOK, SandboxRests, RollbackRests
    <3>7. new \in TplOp
      BY <2>6, <3>4, <3>6 DEF TplOp, Rests, SandboxRests, UpdateRests
    <3>8. CopyOK(new)
      BY <1>1, <2>2, <3>4 DEF Good, CopyOK, TplOp
    <3>9. SpecOK(c, new)
      BY <1>1, <1>6, <2>1, <2>2, <3>4, <3>6 DEF SpecOK, TplOp, Writes, Strategies
    <3>10. PlanOK(new)
      BY <1>1, <2>2, <2>7, <3>4, <3>6 DEF Good, PlanOK, TplOp, CreateRests, UpdateRests,
                                          RollbackRests, SandboxRests, ExportRests
    <3>11. SandboxOK(new)
      <4>1. n = IF op.asked = 0 THEN op.latest ELSE op.asked
        BY <1>4
      <4>2. new.reply # "ok" /\ new.used = n /\ new.asked = op.asked /\ new.id = op.id
        BY <1>1, <2>2, <2>7, <3>4 DEF TplOp
      <4>3. n # 0 /\ n <= tplRows[op.id].latest
        BY <2>4, <2>5
      <4> QED
        BY <4>1, <4>2, <4>3, <1>1 DEF SandboxOK, TplOp
    <3> QED
      BY <1>2, <2>3, <3>5, <3>7, <3>8, <3>9, <3>10, <3>11, ReadsKeep DEF Good
  <2> QED
    BY <1>3, <2>8, <2>9
<1> QED
  BY <1>5, <1>6

\* The label of a sandbox, or the version an import reports, is read.
LEMMA ReadLabelKeeps ==
    ASSUME TplInv, NEW c \in TplRequests, ReadLabel(c)
    PROVE  TplInv'
<1> DEFINE op == tplOps[c]
<1>1. op \in TplOp /\ Good(c, op) /\ 0 \notin Live /\ Types
  BY DEF TplInv, Types, OpOK
<1>2. op.todo \in {<<"label">>, <<"confirm">>} /\ Len(op.todo) = 1
  BY <1>1, HeadOfRest DEF ReadLabel, At, TplOp
<1>3. ASSUME NEW reply
      PROVE  Finish(op, reply).todo \in Spent
  BY <1>1 DEF Finish, Waiting, Spent, TplOp
<1>4. CASE op.asked = 0 /\ Live = {}
  <2>1. Reads(c, Finish(op, "panic"))
    BY <1>4 DEF ReadLabel
  <2> QED
    BY <1>1, <1>3, <2>1, FinishIsGood, ReadsKeep DEF Replies
<1>5. CASE ~(op.asked = 0 /\ Live = {})
  <2>1. op.asked \in Nat /\ \A id \in Live : tplRows[id].latest \in Nat
    BY <1>1 DEF TplOp, TplInv, Types, Rows
  <2>2. PICK told \in Nat : /\ Reads(c, Proceed([op EXCEPT !.told = told]))
                            /\ op.asked > 0 => told = op.asked
                            /\ op.asked = 0 => \E id \in Live : told = tplRows[id].latest
    <3>1. CASE op.asked > 0
      <4>1. Reads(c, Proceed([op EXCEPT !.told = op.asked])) /\ op.asked # 0
        BY <2>1, <3>1 DEF ReadLabel
      <4> QED
        BY <2>1, <4>1
    <3>2. CASE op.asked = 0
      <4>1. PICK id \in Live : Reads(c, Proceed([op EXCEPT !.told = tplRows[id].latest]))
        BY <1>5, <3>2 DEF ReadLabel
      <4>2. ~(op.asked > 0)
        BY <3>2
      <4> QED
        BY <2>1, <4>1, <4>2
    <3>3. op.asked > 0 \/ op.asked = 0
      BY <2>1
    <3> QED
      BY <3>1, <3>2, <3>3
  <2>3. told \in Nat
    OBVIOUS
  <2>4. PICK read : read = [op EXCEPT !.told = told]
    OBVIOUS
  <2>5. Reads(c, Finish(read, "ok"))
    BY <1>1, <1>2, <2>2, <2>4 DEF Proceed, TplOp
  <2>6. CASE op.kind # "sandbox"
    <3>1. Finish(read, "ok") = Finish(op, "ok")
      BY <1>1, <2>4, <2>6 DEF Finish, TplOp
    <3> QED
      BY <1>1, <1>3, <2>5, <2>6, <3>1, FinishIsGood, ReadsKeep DEF Replies
  <2>7. CASE op.kind = "sandbox"
    <3>1. op.todo = <<"label">>
      <4>1. <<"confirm">> \notin SandboxRests \cup {<<>>}
        BY DEF SandboxRests
      <4> QED
        BY <1>1, <1>2, <2>7, <4>1 DEF Good, PlanOK
    <3>2. PICK new : new = [read EXCEPT !.todo = <<>>, !.reply = "ok", !.latest = 0, !.had = Keep, !.seen = {}]
      OBVIOUS
    <3>3. Finish(read, "ok") = new
      BY <1>1, <2>4, <2>7, <3>2 DEF Finish, TplOp
    <3>4. new \in TplOp /\ new.todo \in Spent
      BY <1>1, <2>3, <2>4, <3>2 DEF TplOp, Rests, Spent, Metas, Replies
    <3>5. CopyOK(new)
      BY <1>1, <2>4, <3>2 DEF Good, CopyOK, Types, Rows, TplOp
    <3>6. SpecOK(c, new)
      BY <1>1, <2>4, <2>7, <3>2 DEF Good, SpecOK, TplOp, Writes, Strategies
    <3>7. PlanOK(new)
      BY <1>1, <2>4, <2>7, <3>2 DEF PlanOK, TplOp, CreateRests, UpdateRests, RollbackRests,
                                    SandboxRests, ExportRests
    <3>8. SandboxOK(new)
      <4>1. /\ op.used # 0
            /\ op.asked > 0 => op.used = op.asked
            /\ op.asked = 0 /\ op.id \in Live => op.used <= tplRows[op.id].latest
        BY <1>1, <2>7, <3>1 DEF Good, SandboxOK
      <4>2. op.asked = 0 /\ op.id \in Live => told = tplRows[op.id].latest
        BY <2>2 DEF TplInv, OneRow
      <4>3. new.told = told /\ new.used = op.used /\ new.asked = op.asked /\ new.id = op.id
        BY <1>1, <2>4, <3>2 DEF TplOp
      <4>4. op.asked \in Nat /\ op.used \in Nat
        BY <1>1 DEF TplOp
      <4> QED
        BY <2>2, <2>3, <4>1, <4>2, <4>3, <4>4 DEF SandboxOK
    <3> QED
      BY <2>5, <3>3, <3>4, <3>5, <3>6, <3>7, <3>8, ReadsKeep DEF Good
  <2> QED
    BY <2>6, <2>7
<1> QED
  BY <1>4, <1>5

-----------------------------------------------------------------------------
(* Writing transactions *)

\* What requests are done with, once one of them has written.
LEMMA WriterIsDone ==
    ASSUME Types, NEW c \in TplRequests, At(c, "insert") \/ At(c, "commit"),
           tplOps' = [tplOps EXCEPT ![c] = Proceed(@)]
    PROVE  SpentOps \subseteq SpentOps' /\ SpentOps # SpentOps'
<1>1. tplOps[c] \in TplOp
  BY DEF Types
<1>2. PICK q : q = tplOps[c].todo
  OBVIOUS
<1>3. q \in Rests \ Spent
  BY <1>1, <1>2, AtRest
<1>4. q \in {<<"insert">>, <<"insert", "confirm">>, <<"commit">>, <<"commit", "confirm">>}
  BY <1>1, <1>2, HeadOfRest DEF At, TplOp
<1>5. Len(q) = 1 \/ Tail(q) = <<"confirm">>
  <2>1. \A x, y : Tail(<<x, y>>) = <<y>>
    OBVIOUS
  <2>2. \A x : Len(<<x>>) = 1
    OBVIOUS
  <2> QED
    BY <1>4, <2>1, <2>2, Zenon
<1>6. Proceed(tplOps[c]).todo \in Spent
  <2>1. CASE Len(q) = 1
    BY <1>1, <1>2, <2>1 DEF Proceed, Finish, Waiting, Spent, TplOp
  <2>2. CASE Len(q) # 1
    BY <1>1, <1>2, <1>5, <2>2 DEF Proceed, Spent, TplOp
  <2> QED
    BY <2>1, <2>2
<1>7. c \in SpentOps' /\ c \notin SpentOps
  BY <1>2, <1>3, <1>6 DEF SpentOps, Types
<1>8. SpentOps \subseteq SpentOps'
  BY <1>7 DEF SpentOps, Types
<1> QED
  BY <1>7, <1>8

\* The constraints let exactly an up to date copy be committed.
LEMMA CommitsUpToDate ==
    ASSUME TplInv, NEW op \in TplOp, CopyOK(op), op.id \in Live,
           GetVersion(op.id, op.latest + 1) = {}
    PROVE  /\ op.latest = tplRows[op.id].latest
           /\ op.had = tplRows[op.id].meta
<1>1. tplRows[op.id] \in Rows
  BY DEF TplInv, Types
<1>2. op.latest \in Nat /\ tplRows[op.id].latest \in Nat
  BY <1>1 DEF TplOp, Rows
<1>3. op.latest + 1 \notin {v.version : v \in VersionsOf(op.id)}
  BY DEF GetVersion
<1>4. op.latest + 1 \notin 1 .. tplRows[op.id].latest
  BY <1>3 DEF TplInv, VersionsAreContiguous
<1>5. op.latest <= tplRows[op.id].latest
  BY DEF CopyOK
<1>6. op.latest = tplRows[op.id].latest
  BY <1>2, <1>4, <1>5
<1> QED
  BY <1>6 DEF CopyOK

\* The transaction of an update or a rollback keeps what every request relies on.
LEMMA StoredKeepsGood ==
    ASSUME TplInv, NEW id \in Live, NEW spec, NEW m \in Metas,
           NEW n, n = tplRows[id].latest + 1, GetVersion(id, n) = {},
           tplRows' = [tplRows EXCEPT ![id] = [latest |-> n, meta |-> m]],
           \A i, k : GetVersion(i, k)' = IF i = id /\ k = n THEN spec ELSE GetVersion(i, k),
           Known' = Known,
           NEW d \in TplRequests, NEW o \in TplOp, Good(d, o)
    PROVE  Good(d, o)'
<1>1. Live' = Live
  BY DEF Live
<1>2. /\ tplRows[id] \in Rows /\ n \in Nat
      /\ tplRows[id].latest \in Nat
  BY DEF TplInv, Types, Rows
<1>3. \A i \in Live : tplRows'[i] = IF i = id THEN [latest |-> n, meta |-> m] ELSE tplRows[i]
  BY DEF TplInv, Types
<1>4. o.latest \in Nat /\ o.used \in Nat
  BY DEF TplOp
<1>5. CopyOK(o)'
  BY <1>1, <1>2, <1>3, <1>4 DEF Good, CopyOK
<1>6. SpecOK(d, o)'
  BY <1>1 DEF Good, SpecOK
<1>7. PlanOK(o)'
  BY DEF Good, PlanOK
<1>8. SandboxOK(o)'
  BY <1>1, <1>2, <1>3, <1>4 DEF Good, SandboxOK
<1> QED
  BY <1>5, <1>6, <1>7, <1>8 DEF Good

\* A version is stored, the row with it.
LEMMA StoredKeeps ==
    ASSUME TplInv, NEW c \in TplRequests, At(c, "commit"), tplOps[c].id \in Live,
           GetVersion(tplOps[c].id, tplOps[c].latest + 1) = {}, Stored(c, tplVersions)
    PROVE  TplInv'
<1> DEFINE op == tplOps[c]
<1>1. op \in TplOp /\ Good(c, op) /\ 0 \notin Live /\ Types
  BY DEF TplInv, Types, OpOK
<1>2. op.todo \in {<<"commit">>, <<"commit", "confirm">>}
  BY <1>1, HeadOfRest DEF At, TplOp
<1>3. /\ op.kind \in Writes \cup {"rollback"} /\ op.kind # "sandbox"
      /\ op.todo # <<>> /\ op.spec # {}
      /\ op.kind = "rollback" => op.meta = Keep
  BY SMTT(30), <1>1, <1>2 DEF Good, PlanOK, SpecOK, UpdateRests, Writes, Strategies
<1>4. PICK id \in Live : id = op.id
  OBVIOUS
<1>5. tplRows[id] \in Rows /\ id \in Nat \ {0} /\ id \in Known
  BY DEF TplInv, Types, OneRow
<1>6. op.latest = tplRows[id].latest /\ op.had = tplRows[id].meta
  BY <1>1, <1>4, CommitsUpToDate DEF Good
<1>7. PICK n : n = tplRows[id].latest + 1
  OBVIOUS
<1>8. n \in Nat \ {0} /\ tplRows[id].latest \in Nat
  BY <1>5, <1>7 DEF Rows
<1>9. PICK m : m = CASE op.kind = "rollback" -> tplRows[id].meta
                     [] op.meta = Keep -> op.had
                     [] OTHER -> op.meta
  OBVIOUS
<1>10. m \in Metas /\ m = IF op.meta = Keep THEN tplRows[id].meta ELSE op.meta
  BY <1>1, <1>3, <1>5, <1>6, <1>9 DEF TplOp, Rows
<1>11. PICK ack : ack = [id |-> id, version |-> n, spec |-> op.spec, meta |-> op.meta]
  OBVIOUS
<1>12. ack \in Acks
  BY <1>1, <1>5, <1>8, <1>11 DEF Acks, TplOp
<1>13. /\ tplRows' = [tplRows EXCEPT ![id] = [latest |-> n, meta |-> m]]
       /\ tplVersions' = tplVersions \cup {[id |-> id, version |-> n, spec |-> x] : x \in op.spec}
       /\ tplAcked' = tplAcked \cup {ack}
       /\ tplOps' = [tplOps EXCEPT ![c] = Proceed(@)]
  BY <1>4, <1>6, <1>7, <1>9, <1>11 DEF Stored, Ack
<1>14. PICK spec \in SUBSET TplSpecs : spec = op.spec /\ spec # {}
  BY <1>1, <1>3 DEF TplOp
<1> HIDE DEF op
<1>15. /\ Live' = Live
       /\ \A i \in Live : tplRows'[i] = IF i = id THEN [latest |-> n, meta |-> m] ELSE tplRows[i]
  BY <1>1, <1>13 DEF Live, Types
<1>16. \A i, k : GetVersion(i, k)' = IF i = id /\ k = n THEN spec ELSE GetVersion(i, k)
  <2> TAKE i, k
  <2>1. \A x : x \in GetVersion(i, k) <=>
                 \E v \in tplVersions : v.id = i /\ v.version = k /\ v.spec = x
    BY DEF GetVersion, VersionsOf
  <2>2. \A x : x \in GetVersion(i, k)' <=>
                 \E v \in tplVersions' : v.id = i /\ v.version = k /\ v.spec = x
    BY DEF GetVersion, VersionsOf
  <2>3. GetVersion(id, n) = {}
    BY <1>4, <1>6, <1>7 DEF op
  <2>4. \A v \in tplVersions : ~(v.id = id /\ v.version = n)
    BY <2>3 DEF GetVersion, VersionsOf
  <2>5. \A x : x \in GetVersion(i, k)' <=>
                 \/ x \in GetVersion(i, k)
                 \/ i = id /\ k = n /\ x \in spec
    <3> TAKE x
    <3>1. ASSUME NEW v \in tplVersions', v.id = i, v.version = k, v.spec = x, v \notin tplVersions
          PROVE  i = id /\ k = n /\ x \in spec
      BY <1>13, <1>14, <3>1
    <3>2. ASSUME i = id, k = n, x \in spec
          PROVE  x \in GetVersion(i, k)'
      <4>1. [id |-> id, version |-> n, spec |-> x] \in tplVersions'
        BY <1>13, <1>14, <3>2
      <4> QED
        BY <2>2, <3>2, <4>1
    <3>3. tplVersions \subseteq tplVersions'
      BY <1>13
    <3> QED
      BY <2>1, <2>2, <3>1, <3>2, <3>3
  <2>6. i = id /\ k = n => GetVersion(i, k) = {}
    BY <2>3
  <2> QED
    BY <2>5, <2>6
<1>17. Known' = Known
  BY <1>5, <1>11, <1>13 DEF Known
<1>18. Types'
  <2>1. tplRows' \in [Live' -> Rows] /\ Live' \subseteq Nat \ {0}
    <3>1. [latest |-> n, meta |-> m] \in Rows
      BY <1>8, <1>10 DEF Rows
    <3> QED
      BY <1>1, <1>13, <1>15, <3>1 DEF Types
  <2>2. tplVersions' \subseteq [id : Nat, version : Nat \ {0}, spec : TplSpecs]
    BY <1>1, <1>5, <1>8, <1>13, <1>14 DEF Types
  <2>3. Proceed(op) \in TplOp
    BY <1>1, <1>3, ProceedIsGood
  <2>4. tplOps' \in [TplRequests -> TplOp]
    BY <1>1, <1>13, <2>3 DEF Types, op
  <2> QED
    BY <1>1, <1>12, <1>13, <2>1, <2>2, <2>4 DEF Types
<1>19. OneRow'
  BY <1>15, <1>17 DEF TplInv, OneRow
<1>20. VersionsAreContiguous'
  <2>1. ASSUME NEW i \in Live
        PROVE  {v.version : v \in VersionsOf(i)}' = 1 .. tplRows'[i].latest
    <3>1. {v.version : v \in VersionsOf(i)} = 1 .. tplRows[i].latest
      BY DEF TplInv, VersionsAreContiguous
    <3>2. CASE i # id
      <4>1. VersionsOf(i)' = VersionsOf(i)
        BY <1>13, <3>2 DEF VersionsOf
      <4> QED
        BY <1>15, <3>1, <3>2, <4>1
    <3>3. CASE i = id
      <4>1. \A k : k \in {v.version : v \in VersionsOf(i)}' <=>
                     k \in {v.version : v \in VersionsOf(i)} \/ k = n
        <5>1. PICK x : x \in op.spec
          BY <1>14
        <5>2. [id |-> id, version |-> n, spec |-> x] \in tplVersions'
          BY <1>13, <5>1
        <5>3. \A v \in tplVersions' : v \in tplVersions \/ (v.id = id /\ v.version = n)
          BY <1>13
        <5>4. tplVersions \subseteq tplVersions'
          BY <1>13
        <5> HIDE DEF op
        <5>5. n \in {v.version : v \in VersionsOf(i)}'
          BY <3>3, <5>2 DEF VersionsOf
        <5> QED
          BY <3>3, <5>3, <5>4, <5>5 DEF VersionsOf
      <4>2. tplRows'[i].latest = n
        BY <1>15, <3>3
      <4> QED
        BY <1>7, <1>8, <3>1, <3>3, <4>1, <4>2
    <3> QED
      BY <3>2, <3>3
  <2>2. \A v \in tplVersions' : v.id \in Live
    BY <1>13 DEF TplInv, VersionsAreContiguous
  <2> QED
    BY <1>15, <2>1, <2>2 DEF VersionsAreContiguous
<1>21. AckedIsStored'
  <2> SUFFICES ASSUME NEW a \in tplAcked', a.id \in Live
               PROVE  /\ a.version <= tplRows'[a.id].latest
                      /\ GetVersion(a.id, a.version)' = a.spec
    BY <1>15 DEF AckedIsStored
  <2>1. CASE a = ack
    BY <1>8, <1>11, <1>14, <1>15, <1>16, <2>1
  <2>2. CASE a \in tplAcked
    <3>1. a.version <= tplRows[a.id].latest /\ GetVersion(a.id, a.version) = a.spec
      BY <2>2 DEF TplInv, AckedIsStored
    <3>2. a.version \in Nat
      BY <1>1, <2>2 DEF Types, Acks
    <3>3. a.id = id => a.version # n
      BY <1>7, <1>8, <3>1, <3>2
    <3> QED
      BY <1>7, <1>8, <1>15, <1>16, <3>1, <3>2, <3>3
  <2> QED
    BY <1>13, <2>1, <2>2
<1>22. MetaOfNewest'
  <2> SUFFICES ASSUME NEW i \in Live, \E a \in tplAcked' : a.id = i /\ a.meta # Keep
               PROVE  \E a \in tplAcked' :
                        /\ a.id = i /\ a.meta # Keep /\ tplRows'[i].meta = a.meta
                        /\ \A b \in tplAcked' : b.id = i /\ b.meta # Keep => b.version <= a.version
    BY <1>15 DEF MetaOfNewest
  <2>1. CASE i = id /\ op.meta # Keep
    <3>1. ack.id = i /\ ack.meta # Keep /\ tplRows'[i].meta = ack.meta /\ ack.version = n
      BY <1>10, <1>11, <1>15, <2>1
    <3>2. \A b \in tplAcked' : b.id = i => b.version <= n
      <4>1. \A b \in tplAcked : b.version \in Nat
        BY <1>1 DEF Types, Acks
      <4> QED
        BY <1>7, <1>8, <1>13, <2>1, <3>1, <4>1 DEF TplInv, AckedIsStored
    <3> QED
      BY <1>13, <3>1, <3>2
  <2>2. CASE ~(i = id /\ op.meta # Keep)
    <3>1. tplRows'[i].meta = tplRows[i].meta
      BY <1>10, <1>15, <2>2
    <3>2. ~(ack.id = i /\ ack.meta # Keep)
      BY <1>11, <2>2
    <3> QED
      BY <1>13, <3>1, <3>2 DEF TplInv, MetaOfNewest
  <2> QED
    BY <2>1, <2>2
<1>23. \A d \in TplRequests : OpOK(d)'
  <2> TAKE d \in TplRequests
  <2>1. tplOps'[d] \in TplOp /\ Good(d, tplOps'[d])
    <3>1. Proceed(op) \in TplOp /\ Good(c, Proceed(op))
      BY <1>1, <1>3, ProceedIsGood
    <3> QED
      BY <1>1, <1>13, <3>1 DEF Types, op, TplInv, OpOK
  <2>2. PICK o \in TplOp : o = tplOps'[d] /\ Good(d, o)
    BY <2>1
  <2>3. GetVersion(id, n) = {}
    BY <1>4, <1>6, <1>7 DEF op
  <2>4. Good(d, o)'
    BY <1>7, <1>10, <1>13, <1>16, <1>17, <2>2, <2>3, StoredKeepsGood
  <2> QED
    BY <2>2, <2>4 DEF OpOK
<1>24. Bounded'
  <2>1. SpentOps \subseteq SpentOps' /\ SpentOps # SpentOps'
    BY <1>1, <1>13, WriterIsDone
  <2>2. /\ Cardinality(SpentOps) \in Nat /\ Cardinality(SpentOps') \in Nat
        /\ Cardinality(SpentOps) + 1 <= Cardinality(SpentOps')
    BY <2>1, DoneGrows
  <2>3. /\ \A i \in Live : tplRows[i].latest \in Nat
        /\ Known \subseteq Nat
    BY DEF TplInv, Types, Rows, Known, Acks
  <2>4. Bounded
    BY DEF TplInv
  <2> QED
    BY <1>7, <1>15, <1>17, <2>2, <2>3, <2>4, TplAssumption DEF Bounded
<1> QED
  BY <1>18, <1>19, <1>20, <1>21, <1>22, <1>23, <1>24 DEF TplInv

\* The transaction of an update commits, or finds its version taken.
LEMMA CommitKeeps ==
    ASSUME TplInv, NEW c \in TplRequests, Commit(c)
    PROVE  TplInv'
<1> DEFINE op == tplOps[c]
<1>1. op \in TplOp /\ Good(c, op) /\ 0 \notin Live /\ Types
  BY DEF TplInv, Types, OpOK
<1>2. op.todo \in Rests \ Spent
  BY <1>1, AtRest DEF Commit
<1>3. CASE op.id \in Live /\ GetVersion(op.id, op.latest + 1) = {} /\ Stored(c, tplVersions)
  BY <1>3, StoredKeeps DEF Commit
<1>4. CASE Reads(c, Finish(op, "bad"))
  BY <1>1, <1>2, <1>4, FinishIsGood, ReadsKeep DEF Replies
<1> QED
  BY <1>3, <1>4 DEF Commit

\* A new template gets an id nobody has heard of.
LEMMA FreshId ==
    ASSUME OneRow, Types
    PROVE  /\ NextTplId \in Nat \ {0}
           /\ \A i \in Known : i < NextTplId
           /\ \A b \in Nat : (\A i \in Known : i <= b) => NextTplId <= b + 1
<1>1. Known \subseteq Nat
  BY DEF Types, Known, Acks
<1>2. PICK m \in Known : \A i \in Known : i <= m
  BY DEF OneRow
<1>3. \A y \in Known : m >= y
  BY <1>1, <1>2
<1>4. /\ Max(Known) \in Known
      /\ \A i \in Known : Max(Known) >= i
  BY <1>3 DEF Max
<1>5. NextTplId = 1 + Max(Known)
  BY DEF NextTplId, Known
<1>6. PICK max \in Nat : max = Max(Known)
  BY <1>1, <1>4
<1>7. max \in Known /\ \A i \in Known : i \in Nat /\ max >= i
  BY <1>1, <1>4, <1>6
<1> QED
  BY <1>5, <1>6, <1>7

\* A template is created.
LEMMA InsertKeeps ==
    ASSUME TplInv, NEW c \in TplRequests, Insert(c)
    PROVE  TplInv'
<1> DEFINE op == tplOps[c]
<1>1. op \in TplOp /\ Good(c, op) /\ 0 \notin Live /\ Types
  BY DEF TplInv, Types, OpOK
<1>2. op.todo \in Rests \ Spent
  BY <1>1, AtRest DEF Insert
<1>3. CASE Live # {}
  <2>1. Reads(c, Finish(op, "conflict"))
    BY <1>3 DEF Insert
  <2> QED
    BY <1>1, <1>2, <2>1, FinishIsGood, ReadsKeep DEF Replies
<1>4. CASE Live = {}
  <2>1. op.todo \in CreateRests /\ op.todo # <<>>
    BY <1>1, <1>2, HeadOfRest DEF Insert, At, TplOp, CreateRests
  <2>2. op.kind \in Writes /\ op.kind # "sandbox" /\ op.spec = {c}
    BY <1>1, <2>1 DEF Good, PlanOK, SpecOK, Writes, Strategies
  <2>3. PICK id : id = NextTplId
    OBVIOUS
  <2>4. /\ id \in Nat \ {0} /\ id \notin Known
        /\ \A i \in Known : i < id
        /\ \A b \in Nat : (\A i \in Known : i <= b) => id <= b + 1
    BY SMTT(30), <2>3, FreshId DEF TplInv, Types, Known, Acks
  <2>5. op.meta \in Metas /\ c \in TplSpecs
    BY <1>1 DEF TplOp, TplSpecs
  <2>6. PICK ack : ack = [id |-> id, version |-> 1, spec |-> {c}, meta |-> op.meta]
    OBVIOUS
  <2>7. ack \in Acks
    BY <2>4, <2>5, <2>6 DEF Acks
  <2>8. /\ tplRows' = [i \in {id} |-> [latest |-> 1, meta |-> op.meta]]
        /\ tplVersions' = tplVersions \cup {[id |-> id, version |-> 1, spec |-> c]}
        /\ tplAcked' = tplAcked \cup {ack}
        /\ tplOps' = [tplOps EXCEPT ![c] = Proceed(@)]
    BY <1>4, <2>2, <2>3, <2>6 DEF Insert, Ack
  <2>9. tplVersions = {}
    BY <1>4 DEF TplInv, VersionsAreContiguous
  <2>10. /\ Live' = {id}
         /\ tplRows'[id] = [latest |-> 1, meta |-> op.meta]
         /\ tplVersions' = {[id |-> id, version |-> 1, spec |-> c]}
         /\ Known' = Known \cup {id}
    BY <2>6, <2>8, <2>9 DEF Live, Known
  <2> HIDE DEF op
  <2>11. Types'
    <3>1. tplRows' \in [Live' -> Rows] /\ Live' \subseteq Nat \ {0}
      BY <2>4, <2>5, <2>8, <2>10 DEF Rows
    <3>2. tplVersions' \subseteq [id : Nat, version : Nat \ {0}, spec : TplSpecs]
      BY <2>4, <2>5, <2>10
    <3>3. Proceed(op) \in TplOp
      BY <1>1, <2>1, <2>2, ProceedIsGood
    <3>4. tplOps' \in [TplRequests -> TplOp]
      BY <1>1, <2>8, <3>3 DEF Types, op
    <3> QED
      BY <1>1, <2>7, <2>8, <3>1, <3>2, <3>4 DEF Types
  <2>12. OneRow'
    <3>1. Known \subseteq Nat
      BY <1>1 DEF Types, Known, Acks
    <3> QED
      BY <2>4, <2>10, <3>1 DEF OneRow
  <2>13. VersionsAreContiguous'
    <3>1. {v.version : v \in VersionsOf(id)}' = 1 .. 1
      <4>1. VersionsOf(id)' = {[id |-> id, version |-> 1, spec |-> c]}
        BY <2>10 DEF VersionsOf
      <4>2. {v.version : v \in VersionsOf(id)}' = {1}
        BY <4>1
      <4> QED
        BY <4>2
    <3>2. tplRows'[id].latest = 1
      BY <2>10
    <3>3. \A v \in tplVersions' : v.id \in Live'
      BY <2>10
    <3> QED
      BY <2>10, <3>1, <3>2, <3>3 DEF VersionsAreContiguous
  <2>14. \A a \in tplAcked' : a.id = id <=> a = ack
    BY <2>4, <2>6, <2>8 DEF Known
  <2>15. AckedIsStored'
    <3>1. GetVersion(id, 1)' = {c}
      <4>1. VersionsOf(id)' = {[id |-> id, version |-> 1, spec |-> c]}
        BY <2>10 DEF VersionsOf
      <4>2. \A x : x \in GetVersion(id, 1)' <=>
                    \E v \in VersionsOf(id)' : v.version = 1 /\ v.spec = x
        BY DEF GetVersion
      <4>3. \A x : x \in GetVersion(id, 1)' <=> x = c
        BY <4>1, <4>2
      <4> QED
        BY <4>3
    <3>2. tplRows'[id].latest = 1
      BY <2>10
    <3> QED
      BY SMTT(30), <2>6, <2>10, <2>14, <3>1, <3>2 DEF AckedIsStored
  <2>16. MetaOfNewest'
    BY <2>6, <2>10, <2>14 DEF MetaOfNewest
  <2>17. \A d \in TplRequests : OpOK(d)'
    <3> TAKE d \in TplRequests
    <3>1. tplOps'[d] \in TplOp /\ Good(d, tplOps'[d])
      <4>1. Proceed(op) \in TplOp /\ Good(c, Proceed(op))
        BY <1>1, <2>1, <2>2, ProceedIsGood
      <4> QED
        BY <1>1, <2>8, <4>1 DEF Types, op, TplInv, OpOK
    <3>2. PICK o \in TplOp : o = tplOps'[d] /\ Good(d, o)
      BY <3>1
    <3>3. o.id \notin Live' /\ o.id \in Known' \cup {0}
      BY <2>4, <2>10, <3>2 DEF Good, CopyOK
    <3>4. Good(d, o)'
      BY <1>4, <3>2, <3>3 DEF Good, CopyOK, SpecOK, PlanOK, SandboxOK
    <3> QED
      BY <3>2, <3>4 DEF OpOK
  <2>18. Bounded'
    <3>1. SpentOps \subseteq SpentOps' /\ SpentOps # SpentOps'
      BY <1>1, <2>8, WriterIsDone DEF Insert
    <3>2. /\ Cardinality(SpentOps) \in Nat /\ Cardinality(SpentOps') \in Nat
          /\ Cardinality(SpentOps) + 1 <= Cardinality(SpentOps')
      BY <3>1, DoneGrows
    <3>3. Known \subseteq Nat
      BY <1>1 DEF Types, Known, Acks
    <3>4. \A i \in Known : i <= 1 + Cardinality(SpentOps)
      BY DEF TplInv, Bounded
    <3>5. id <= 1 + Cardinality(SpentOps')
      BY <2>4, <3>2, <3>4
    <3>6. tplRows'[id].latest <= MaxStoredVersions + Cardinality(SpentOps')
      BY <2>10, <3>2, TplAssumption
    <3> QED
      BY <2>10, <3>2, <3>3, <3>4, <3>5, <3>6 DEF Bounded
  <2> QED
    BY <2>11, <2>12, <2>13, <2>15, <2>16, <2>17, <2>18 DEF TplInv
<1> QED
  BY <1>3, <1>4

\* A template is deleted.
LEMMA DeleteKeeps ==
    ASSUME TplInv, NEW c \in TplRequests, Delete(c)
    PROVE  TplInv'
<1> DEFINE op == tplOps[c]
<1>1. op \in TplOp /\ Good(c, op) /\ 0 \notin Live /\ Types
  BY DEF TplInv, Types, OpOK
<1>2. op.todo \in Rests \ Spent
  BY <1>1, AtRest DEF Delete
<1>3. op.kind # "sandbox"
  <2>1. op.todo = <<"delete">>
    BY <1>1, <1>2, HeadOfRest DEF Delete, At, TplOp
  <2>2. <<"delete">> \notin SandboxRests \cup {<<>>}
    BY DEF SandboxRests
  <2> QED
    BY <1>1, <2>1, <2>2 DEF Good, PlanOK
<1>4. PICK reply \in Replies : tplOps' = [tplOps EXCEPT ![c] = Finish(op, reply)]
  BY DEF Delete, Replies
<1>5. Finish(op, reply) \in TplOp /\ Good(c, Finish(op, reply))
  BY <1>1, <1>3, FinishIsGood
<1>6. /\ tplRows' = [i \in {} |-> 0] /\ Live' = {}
      /\ tplVersions' = {} /\ tplAcked' = tplAcked /\ Known' = Known
  BY DEF Delete, Live, Known
<1>7. Types'
  BY <1>1, <1>4, <1>5, <1>6 DEF Types
<1>8. (OneRow /\ VersionsAreContiguous /\ AckedIsStored /\ MetaOfNewest)'
  BY <1>6 DEF TplInv, OneRow, VersionsAreContiguous, AckedIsStored, MetaOfNewest
<1>9. \A d \in TplRequests : OpOK(d)'
  <2> TAKE d \in TplRequests
  <2>1. PICK o : o = tplOps'[d] /\ Good(d, o)
    BY <1>1, <1>4, <1>5 DEF Types, TplInv, OpOK
  <2>2. Good(d, o)'
    BY <1>6, <2>1 DEF Good, CopyOK, SpecOK, PlanOK, SandboxOK
  <2> QED
    BY <2>1, <2>2 DEF OpOK
<1>10. Bounded'
  <2>1. SpentOps \subseteq SpentOps'
    BY <1>1, <1>2, <1>4 DEF SpentOps, Types
  <2>2. /\ Cardinality(SpentOps) \in Nat /\ Cardinality(SpentOps') \in Nat
        /\ Cardinality(SpentOps) <= Cardinality(SpentOps')
    BY <2>1, DoneGrows
  <2>3. Known \subseteq Nat
    BY <1>1 DEF Types, Known, Acks
  <2> QED
    BY <1>6, <2>2, <2>3 DEF TplInv, Bounded
<1> QED
  BY <1>7, <1>8, <1>9, <1>10 DEF TplInv

-----------------------------------------------------------------------------
(* The theorems *)

\* Every step of every request keeps the invariant.
LEMMA TplStep == TplInv /\ [TemplateNext]_tplVars => TplInv'
<1> SUFFICES ASSUME TplInv, [TemplateNext]_tplVars PROVE TplInv'
  OBVIOUS
<1>1. ASSUME NEW c \in TplRequests,
             \/ ReadRow(c) \/ ReadSpec(c) \/ ReadTarget(c) \/ UseSpec(c) \/ ReadLabel(c)
             \/ Lookup(c) \/ Exists(c) \/ Insert(c) \/ Commit(c) \/ Delete(c)
      PROVE  TplInv'
  BY <1>1, ReadRowKeeps, ReadSpecKeeps, ReadTargetKeeps, UseSpecKeeps, ReadLabelKeeps,
     LookupKeeps, ExistsKeeps, InsertKeeps, CommitKeeps, DeleteKeeps
<1>2. CASE UNCHANGED tplVars
  BY <1>2 DEF tplVars, TplInv, Types, OneRow, VersionsAreContiguous, AckedIsStored, MetaOfNewest,
              OpOK, Good, CopyOK, SpecOK, PlanOK, SandboxOK, Bounded, SpentOps, Known, Live,
              GetVersion, VersionsOf
<1> QED
  BY <1>1, <1>2 DEF TemplateNext

\* The inductive invariant of the template store.
LEMMA TplInvariance == TemplateSpec => []TplInv
  BY TplInit, TplStep, PTL DEF TemplateSpec

\* Of the template's row, its versions and the requests under way: at most one
\* row holds the name, and no version or id is beyond what the requests of this
\* run can have written.
THEOREM TemplateTypeCorrect == TemplateSpec => []TemplateTypeOK
<1>1. TplInv => TemplateTypeOK
  <2> SUFFICES ASSUME TplInv PROVE TemplateTypeOK
    OBVIOUS
  <2>1. Types /\ Bounded /\ OneRow
    BY DEF TplInv
  <2>2. Cardinality(SpentOps) \in 0 .. MaxTplRequests
    BY DoneIsFinite
  <2>3. Cardinality(Live) <= 1
    <3>1. CASE Live = {}
      BY <3>1, FS_EmptySet
    <3>2. CASE Live # {}
      <4>1. PICK i : i \in Live
        BY <3>2
      <4>2. Live = {i}
        BY <2>1, <4>1 DEF OneRow
      <4>3. Cardinality({i}) = 1
        BY FS_Singleton
      <4> QED
        BY <4>2, <4>3
    <3> QED
      BY <3>1, <3>2
  <2>4. Live \subseteq TplIds
    BY <2>1, <2>2, TplAssumption DEF Types, OneRow, Bounded, TplIds
  <2>5. \A id \in Live : tplRows[id] \in [latest : 1 .. MaxTplVersion, meta : TplSpecs \cup {Keep}]
    <3> TAKE id \in Live
    <3>1. tplRows[id] \in Rows
      BY <2>1 DEF Types
    <3>2. tplRows[id].latest <= MaxStoredVersions + Cardinality(SpentOps)
      BY <2>1 DEF Bounded
    <3>3. tplRows[id].latest \in 1 .. MaxTplVersion
      BY <2>2, <3>1, <3>2, TplAssumption DEF Rows, MaxTplVersion
    <3> QED
      BY <3>1, <3>3 DEF Rows, Metas
  <2>6. tplVersions \subseteq [id : TplIds, version : 1 .. MaxTplVersion, spec : TplSpecs]
    <3> SUFFICES ASSUME NEW v \in tplVersions
                 PROVE  v \in [id : TplIds, version : 1 .. MaxTplVersion, spec : TplSpecs]
      OBVIOUS
    <3>1. v.id \in Live /\ v \in [id : Nat, version : Nat \ {0}, spec : TplSpecs]
      BY <2>1 DEF Types, TplInv, VersionsAreContiguous
    <3>2. v.version \in {w.version : w \in VersionsOf(v.id)}
      BY DEF VersionsOf
    <3>3. v.version \in 1 .. tplRows[v.id].latest
      BY <3>1, <3>2 DEF TplInv, VersionsAreContiguous
    <3>4. tplRows[v.id].latest \in 1 .. MaxTplVersion
      BY <2>5, <3>1
    <3>5. v.version \in 1 .. MaxTplVersion
      BY <3>3, <3>4, TplAssumption DEF MaxTplVersion
    <3> QED
      BY <2>4, <3>1, <3>5
  <2>7. \A c \in TplRequests :
          /\ tplOps[c].reply \in {"none", "ok", "skipped", "notfound", "conflict", "bad", "panic"}
          /\ tplOps[c].spec \subseteq TplSpecs /\ tplOps[c].seen \subseteq TplSpecs
    BY <2>1 DEF Types, TplOp, Replies
  <2> QED
    BY <2>3, <2>4, <2>5, <2>6, <2>7 DEF TemplateTypeOK
<1> QED
  BY <1>1, TplInvariance, PTL

\* However updates, rollbacks, imports, creations and deletions interleave, the
\* versions of a template that exists run from 1 to its latest without a gap,
\* and a deletion leaves none behind.
THEOREM VersionsStayContiguous == TemplateSpec => []VersionsAreContiguous
<1>1. TplInv => VersionsAreContiguous
  BY DEF TplInv
<1> QED
  BY <1>1, TplInvariance, PTL

\* Optimistic locking by the UNIQUE constraint is enough: no acknowledged update
\* is overwritten, in its version or in the metadata.
THEOREM AckedUpdatesSurvive == TemplateSpec => []NoUpdateIsLost
<1>1. TplInv => NoUpdateIsLost
  BY DEF TplInv, NoUpdateIsLost, AckedIsStored, MetaOfNewest
<1> QED
  BY <1>1, TplInvariance, PTL

\* A sandbox is never labelled with an older version than it was made from.
THEOREM LabelFollowsSpec == TemplateSpec => []LabelNotOlderThanSpec
<1>1. TplInv => LabelNotOlderThanSpec
  BY DEF TplInv, LabelNotOlderThanSpec, OpOK, Good, SandboxOK, SpecOK
<1> QED
  BY <1>1, TplInvariance, PTL
=============================================================================
