-------------------------- MODULE ControlPlaneProofs -------------------------
(***************************************************************************)
(* Proofs about the smaller services behind the API: authentication, image *)
(* prepull, network policies, the start of the processes and the backoff   *)
(* of deletions, for any number of requests, credentials, tasks,           *)
(* sandboxes, processes, attempts and faults, and any integer width.       *)
(***************************************************************************)
EXTENDS AdminAuth, ImagePrepull, NetworkPolicies, ServerStart, DeletionRetry,
        WellFoundedInduction, TLAPS

-----------------------------------------------------------------------------
(* Authentication.  A row is only ever made valid when its credential is    *)
(* handed out, which happens once, so that the row of a revoked credential  *)
(* is never valid again, and the middleware, which reads the row, lets      *)
(* nobody past on it.  That no request or goroutine names what was never    *)
(* handed out is what ties the histories together.                          *)

RequestKinds == {"login", "logout", "change-password", "create-key", "delete-key", "me"}

AuthOp == [kind : RequestKinds \cup {"none"}, cred : Credentials \cup {"none"},
           knows : Nat, target : APIKeys \cup {"none"},
           stage : {"none", "middleware", "handler", "checked"}]

RowKinds == {"none", "valid", "expired"}

\* A request only names credentials that were handed out.
Names(op, given) ==
    /\ op.kind \notin {"none", "login"} => op.cred \in given
    /\ op.kind = "delete-key" => op.target \in given
    /\ op.stage = "middleware" => op.kind \notin {"none", "login"}

AuthInv ==
    /\ credRows \in [Credentials -> RowKinds]
    /\ password \in 1 .. MaxPasswords
    /\ authOps \in [AuthRequests -> AuthOp]
    /\ later \subseteq {"touch", "drop"} \X issued
    /\ issued \subseteq Credentials /\ revoked \subseteq issued
    /\ \A r \in AuthRequests : Names(authOps[r], issued)
    /\ \A x \in Credentials \ issued : credRows[x] = "none"
    /\ \A x \in revoked : credRows[x] # "valid"

\* Steps that only change what the requests and the goroutines are doing.
LEMMA AuthQuietStep ==
    ASSUME AuthInv, UNCHANGED <<credRows, issued, revoked>>,
           password' \in 1 .. MaxPasswords,
           later' \subseteq {"touch", "drop"} \X issued,
           authOps' \in [AuthRequests -> AuthOp],
           \A r \in AuthRequests : Names(authOps'[r], issued)
    PROVE  AuthInv'
  BY DEF AuthInv

\* A request that is answered names nothing any more.
LEMMA FreeOp == Free \in AuthOp /\ \A given : Names(Free, given)
  BY DEF Free, AuthOp, Names

\* A request is answered.
LEMMA AnswerEffect ==
    ASSUME AuthInv, NEW r \in AuthRequests, Answer(r), issued \subseteq issued'
    PROVE  /\ authOps' \in [AuthRequests -> AuthOp]
           /\ \A q \in AuthRequests : Names(authOps'[q], issued')
<1>1. authOps' \in [AuthRequests -> AuthOp]
  BY FreeOp DEF AuthInv, Answer
<1>2. \A q \in AuthRequests : authOps'[q] = Free \/ authOps'[q] = authOps[q]
  BY DEF AuthInv, Answer
<1>3. \A q \in AuthRequests : Names(authOps[q], issued) => Names(authOps[q], issued')
  BY DEF Names
<1> QED
  BY <1>1, <1>2, <1>3, FreeOp DEF AuthInv

\* A request that gets on keeps its names.
LEMMA StageEffect ==
    ASSUME AuthInv, NEW r \in AuthRequests, NEW st \in {"handler", "checked"},
           authOps' = [authOps EXCEPT ![r].stage = st]
    PROVE  /\ authOps' \in [AuthRequests -> AuthOp]
           /\ \A q \in AuthRequests : Names(authOps'[q], issued)
<1>1. authOps \in [AuthRequests -> AuthOp] /\ \A q \in AuthRequests : Names(authOps[q], issued)
  BY DEF AuthInv
<1>2. PICK op \in AuthOp : op = authOps[r]
  BY <1>1
<1>3. PICK new : new = [op EXCEPT !.stage = st]
  OBVIOUS
<1>4. new \in AuthOp /\ Names(new, issued)
  <2>1. Names(op, issued)
    BY <1>1, <1>2
  <2> QED
    BY <1>2, <1>3, <2>1 DEF AuthOp, Names
<1>5. authOps' = [authOps EXCEPT ![r] = new]
  BY <1>2, <1>3
<1> QED
  BY <1>1, <1>4, <1>5

\* A request arrives.
LEMMA ArriveStep ==
    ASSUME AuthInv, NEW r \in AuthRequests, NEW kind \in RequestKinds,
           NEW cred \in Credentials \cup {"none"}, NEW knows \in 1 .. MaxPasswords,
           NEW target \in APIKeys \cup {"none"}, Arrive(r, kind, cred, knows, target)
    PROVE  AuthInv'
<1>1. PICK op : op = [kind |-> kind, cred |-> cred, knows |-> knows, target |-> target,
                      stage |-> IF kind = "login" THEN "handler" ELSE "middleware"]
  OBVIOUS
<1>2. knows \in Nat
  BY AuthAssumption
<1>3. op \in AuthOp
  BY <1>1, <1>2 DEF AuthOp
<1>4. Names(op, issued)
  BY <1>1 DEF Names, Arrive, RequestKinds
<1>5. authOps' = [authOps EXCEPT ![r] = op]
  BY <1>1 DEF Arrive
<1>6. /\ authOps' \in [AuthRequests -> AuthOp]
      /\ \A q \in AuthRequests : Names(authOps'[q], issued)
  BY <1>3, <1>4, <1>5 DEF AuthInv
<1> QED
  BY <1>6, AuthQuietStep DEF Arrive, AuthInv

\* The middleware looks at its credential.
LEMMA AuthenticateStep ==
    ASSUME AuthInv, NEW r \in AuthRequests, AuthenticateOK(r) \/ AuthenticateRefused(r)
    PROVE  AuthInv'
<1>1. Names(authOps[r], issued) /\ authOps[r].stage = "middleware"
  BY DEF AuthInv, AuthenticateOK, AuthenticateRefused
<1>2. authOps[r].cred \in issued
  BY <1>1 DEF Names
<1>3. later' \subseteq {"touch", "drop"} \X issued
  BY <1>2 DEF AuthInv, AuthenticateOK, AuthenticateRefused
<1>4. Answer(r) \/ authOps' = [authOps EXCEPT ![r].stage = "handler"]
  BY DEF AuthenticateOK, AuthenticateRefused
<1>5. UNCHANGED <<credRows, password, issued, revoked>>
  BY DEF AuthenticateOK, AuthenticateRefused
<1>6. /\ authOps' \in [AuthRequests -> AuthOp]
      /\ \A q \in AuthRequests : Names(authOps'[q], issued)
  BY <1>4, <1>5, AnswerEffect, StageEffect
<1> QED
  BY <1>3, <1>5, <1>6, AuthQuietStep DEF AuthInv

\* A password is checked or changed, the request is served, or its write fails.
LEMMA CheckStep ==
    ASSUME AuthInv, NEW r \in AuthRequests,
           CheckPassword(r) \/ ChangePassword(r) \/ Serve(r) \/ StoreFails(r)
    PROVE  AuthInv'
<1>1. Answer(r) \/ authOps' = [authOps EXCEPT ![r].stage = "checked"]
  BY DEF CheckPassword, ChangePassword, Serve, StoreFails
<1>2. UNCHANGED <<credRows, later, issued, revoked>>
  BY DEF CheckPassword, ChangePassword, Serve, StoreFails
<1>3. password' \in 1 .. MaxPasswords
  BY AuthAssumption DEF AuthInv, CheckPassword, ChangePassword, Serve, StoreFails
<1>4. /\ authOps' \in [AuthRequests -> AuthOp]
      /\ \A q \in AuthRequests : Names(authOps'[q], issued)
  BY <1>1, <1>2, AnswerEffect, StageEffect
<1> QED
  BY <1>2, <1>3, <1>4, AuthQuietStep DEF AuthInv

\* A credential is handed out: it was never handed out before, so it was never
\* revoked.
LEMMA HandStep ==
    ASSUME AuthInv, NEW r \in AuthRequests, LoginCreatesSession(r) \/ CreateAPIKey(r)
    PROVE  AuthInv'
<1>1. PICK x \in Credentials : Hand(x)
  BY DEF LoginCreatesSession, CreateAPIKey, Credentials
<1>2. Answer(r) /\ UNCHANGED <<password, later, revoked>>
  BY DEF LoginCreatesSession, CreateAPIKey
<1>3. /\ authOps' \in [AuthRequests -> AuthOp]
      /\ \A q \in AuthRequests : Names(authOps'[q], issued')
  BY <1>1, <1>2, AnswerEffect DEF Hand
<1>4. x \notin revoked
  BY <1>1 DEF AuthInv, Hand
<1> QED
  BY <1>1, <1>2, <1>3, <1>4 DEF AuthInv, Hand, RowKinds

\* Credentials that were handed out lose their rows or come to their end.
LEMMA RevokeStep ==
    ASSUME AuthInv, issued' = issued, password' = password,
           later' \subseteq {"touch", "drop"} \X issued,
           authOps' \in [AuthRequests -> AuthOp],
           \A q \in AuthRequests : Names(authOps'[q], issued),
           NEW gone, gone \subseteq issued, revoked' \subseteq revoked \cup gone,
           credRows' \in [Credentials -> RowKinds],
           \A x \in Credentials : credRows'[x] = credRows[x] \/ x \in gone,
           \A x \in gone \cap revoked' : credRows'[x] # "valid"
    PROVE  AuthInv'
  BY DEF AuthInv

\* A credential is removed by its owner, or the removal fails.
LEMMA RemoveStep ==
    ASSUME AuthInv, NEW r \in AuthRequests, Logout(r) \/ DeleteAPIKey(r)
    PROVE  AuthInv'
<1>1. Names(authOps[r], issued)
  BY DEF AuthInv
<1>2. PICK x \in issued :
        /\ Remove(x) \/ (UNCHANGED revoked /\ credRows' \in {credRows, [credRows EXCEPT ![x] = "none"]})
  <2>1. CASE Logout(r)
    BY <1>1, <2>1 DEF Names, Logout
  <2>2. CASE DeleteAPIKey(r)
    BY <1>1, <2>2 DEF Names, DeleteAPIKey
  <2> QED
    BY <2>1, <2>2
<1>3. Answer(r) /\ UNCHANGED <<password, later, issued>>
  BY DEF Logout, DeleteAPIKey
<1>4. revoked \subseteq revoked' /\ revoked' \subseteq revoked \cup {x}
  BY <1>2 DEF Remove
<1>5. /\ authOps' \in [AuthRequests -> AuthOp]
      /\ \A q \in AuthRequests : Names(authOps'[q], issued)
  BY <1>3, <1>4, AnswerEffect
<1>6. /\ credRows' \in [Credentials -> RowKinds]
      /\ \A y \in Credentials : credRows'[y] = credRows[y] \/ y \in {x}
      /\ \A y \in {x} \cap revoked' : credRows'[y] # "valid"
  BY <1>2 DEF AuthInv, Remove, RowKinds
<1>7. {x} \subseteq issued
  BY <1>2 DEF AuthInv
<1>8. later' \subseteq {"touch", "drop"} \X issued
  BY <1>3 DEF AuthInv
<1> QED
  BY <1>3, <1>4, <1>5, <1>6, <1>7, <1>8, RevokeStep

\* The goroutines and the clock.
LEMMA BackgroundStep ==
    ASSUME AuthInv, NEW x \in Credentials,
           UpdateAPIKeyLastUsed(x) \/ DeleteSession(x) \/ Expires(x)
    PROVE  AuthInv'
<1>1. CASE UpdateAPIKeyLastUsed(x)
  BY <1>1, AuthQuietStep DEF UpdateAPIKeyLastUsed, AuthInv
<1>2. CASE DeleteSession(x) \/ Expires(x)
  <2>1. x \in issued
    BY <1>2 DEF AuthInv, DeleteSession, Expires
  <2>2. /\ later' \subseteq {"touch", "drop"} \X issued
        /\ UNCHANGED <<password, authOps, issued>>
    BY <1>2 DEF AuthInv, DeleteSession, Expires
  <2>3. /\ credRows' \in [Credentials -> RowKinds]
        /\ \A y \in Credentials : credRows'[y] = credRows[y] \/ y \in {x}
        /\ \A y \in {x} \cap revoked' : credRows'[y] # "valid"
        /\ revoked \subseteq revoked' /\ revoked' \subseteq revoked \cup {x}
    BY <1>2, <2>1 DEF AuthInv, DeleteSession, Expires, RowKinds
  <2>4. {x} \subseteq issued
    BY <2>1, <2>2 DEF AuthInv
  <2>5. authOps' \in [AuthRequests -> AuthOp] /\ \A q \in AuthRequests : Names(authOps'[q], issued)
    BY <2>2, <2>3 DEF AuthInv, Names
  <2> QED
    BY <2>2, <2>3, <2>4, <2>5, RevokeStep
<1> QED
  BY <1>1, <1>2

\* Expired sessions are removed.
LEMMA CleanUpStep ==
    ASSUME AuthInv, DeleteExpiredSessions
    PROVE  AuthInv'
<1> DEFINE gone == {x \in Sessions : credRows[x] = "expired"}
<1>1. gone \subseteq issued
  BY DEF AuthInv, Credentials
<1>2. /\ credRows' \in [Credentials -> RowKinds]
      /\ \A y \in Credentials : credRows'[y] = credRows[y] \/ y \in gone
      /\ \A y \in gone : credRows'[y] # "valid"
  BY DEF AuthInv, DeleteExpiredSessions, Credentials, RowKinds
<1>3. UNCHANGED <<password, authOps, later, issued, revoked>>
  BY DEF DeleteExpiredSessions
<1>4. /\ authOps' \in [AuthRequests -> AuthOp] /\ later' \subseteq {"touch", "drop"} \X issued
      /\ \A q \in AuthRequests : Names(authOps'[q], issued)
      /\ revoked' \subseteq revoked \cup gone
  BY <1>3 DEF AuthInv
<1> HIDE DEF gone
<1> QED
  BY <1>1, <1>2, <1>3, <1>4, RevokeStep

\* The server restarts; the rows stay.
LEMMA AuthRestartStep ==
    ASSUME AuthInv, AuthServerRestarts
    PROVE  AuthInv'
<1>1. /\ authOps' \in [AuthRequests -> AuthOp]
      /\ \A q \in AuthRequests : Names(authOps'[q], issued)
  BY FreeOp DEF AuthServerRestarts
<1> QED
  BY <1>1, AuthQuietStep DEF AuthServerRestarts, AuthInv

\* The inductive invariant: rows, requests, goroutines and histories agree.
THEOREM AuthInvariance == AuthSpec => []AuthInv
<1>1. AuthInit => AuthInv
  BY FreeOp, AuthAssumption DEF AuthInit, AuthInv, RowKinds
<1>2. AuthInv /\ [AuthNext]_authVars => AuthInv'
  <2> SUFFICES ASSUME AuthInv, [AuthNext]_authVars PROVE AuthInv'
    OBVIOUS
  <2>1. ASSUME NEW r \in AuthRequests, NEW kind \in RequestKinds,
               NEW cred \in Credentials \cup {"none"}, NEW knows \in 1 .. MaxPasswords,
               NEW target \in APIKeys \cup {"none"}, Arrive(r, kind, cred, knows, target)
        PROVE  AuthInv'
    BY <2>1, ArriveStep
  <2>2. ASSUME NEW r \in AuthRequests,
               \/ AuthenticateOK(r) \/ AuthenticateRefused(r) \/ CheckPassword(r)
               \/ LoginCreatesSession(r) \/ CreateAPIKey(r) \/ ChangePassword(r)
               \/ Logout(r) \/ DeleteAPIKey(r) \/ StoreFails(r) \/ Serve(r)
        PROVE  AuthInv'
    BY <2>2, AuthenticateStep, CheckStep, HandStep, RemoveStep
  <2>3. CASE \E x \in Credentials : UpdateAPIKeyLastUsed(x) \/ DeleteSession(x) \/ Expires(x)
    BY <2>3, BackgroundStep
  <2>4. CASE DeleteExpiredSessions \/ AuthServerRestarts
    BY <2>4, CleanUpStep, AuthRestartStep
  <2>5. CASE UNCHANGED authVars
    BY <2>5, AuthQuietStep DEF authVars, AuthInv
  <2> QED
    BY <2>1, <2>2, <2>3, <2>4, <2>5 DEF AuthNext, RequestKinds
<1> QED
  BY <1>1, <1>2, PTL DEF AuthSpec

\* Rows, requests and goroutines keep their types.
THEOREM AuthTypeCorrect == AuthSpec => []AuthTypeOK
<1>1. AuthInv => AuthTypeOK
  BY DEF AuthInv, AuthTypeOK, AuthOp, RowKinds
<1> QED
  BY <1>1, AuthInvariance, PTL

\* No request gets past the middleware on a key that was deleted, a session
\* that was removed or a credential whose time of expiry has passed, whatever
\* goroutines, failing calls, concurrent requests and restarts do.
THEOREM RevocationIsFinal == AuthSpec => RevokedIsRefused
<1> DEFINE Gate(r) == authOps[r].stage = "middleware" /\ authOps'[r].stage = "handler"
                          => authOps[r].cred \notin revoked
<1>1. AuthInv /\ [AuthNext]_authVars => [\A r \in AuthRequests : Gate(r)]_authVars
  <2> SUFFICES ASSUME AuthInv, [AuthNext]_authVars, NEW r \in AuthRequests,
                      authOps[r].stage = "middleware", authOps'[r].stage = "handler"
               PROVE  authOps[r].cred \notin revoked
    OBVIOUS
  <2>1. authOps \in [AuthRequests -> AuthOp]
    BY DEF AuthInv
  <2>2. CASE AuthenticateOK(r)
    BY <2>2 DEF AuthInv, AuthenticateOK
  <2>3. \A q \in AuthRequests : authOps[q] # Free \/ q # r
    BY DEF Free
  <2>4. ASSUME NEW q \in AuthRequests, NEW new, q # r \/ new.stage # "handler",
               authOps' = [authOps EXCEPT ![q] = new]
        PROVE  FALSE
    BY <2>1, <2>4
  <2>5. ASSUME NEW q \in AuthRequests, Answer(q) PROVE FALSE
    BY <2>4, <2>5 DEF Answer, Free
  <2>6. ASSUME NEW q \in AuthRequests, NEW kind, NEW cred, NEW knows, NEW target,
               Arrive(q, kind, cred, knows, target)
        PROVE  FALSE
    BY <2>3, <2>4, <2>6 DEF Arrive
  <2>7. ASSUME NEW q \in AuthRequests, CheckPassword(q) PROVE FALSE
    <3>1. Answer(q) \/ authOps' = [authOps EXCEPT ![q].stage = "checked"]
      BY <2>7 DEF CheckPassword
    <3> QED
      BY <2>1, <2>5, <3>1 DEF AuthOp
  <2>8. ASSUME NEW q \in AuthRequests, AuthenticateOK(q), q # r PROVE FALSE
    <3>1. Answer(q) \/ authOps' = [authOps EXCEPT ![q].stage = "handler"]
      BY <2>8 DEF AuthenticateOK
    <3> QED
      BY <2>1, <2>5, <2>8, <3>1
  <2>9. ASSUME NEW q \in AuthRequests,
               \/ AuthenticateRefused(q) \/ LoginCreatesSession(q) \/ CreateAPIKey(q) \/ ChangePassword(q)
               \/ Logout(q) \/ DeleteAPIKey(q) \/ StoreFails(q) \/ Serve(q)
        PROVE  FALSE
    BY <2>5, <2>9 DEF AuthenticateRefused, LoginCreatesSession, CreateAPIKey, ChangePassword, Logout,
       DeleteAPIKey, StoreFails, Serve
  <2>10. ASSUME UNCHANGED authOps PROVE FALSE
    BY <2>10
  <2>11. CASE AuthServerRestarts
    BY <2>11 DEF AuthServerRestarts, Free
  <2>12. CASE DeleteExpiredSessions \/ UNCHANGED authVars
    BY <2>10, <2>12 DEF DeleteExpiredSessions, authVars
  <2>13. ASSUME NEW x \in Credentials, UpdateAPIKeyLastUsed(x) \/ DeleteSession(x) \/ Expires(x)
         PROVE  FALSE
    BY <2>10, <2>13 DEF UpdateAPIKeyLastUsed, DeleteSession, Expires
  <2> QED
    BY <2>2, <2>6, <2>7, <2>8, <2>9, <2>11, <2>12, <2>13 DEF AuthNext
<1> QED
  BY <1>1, AuthInvariance, PTL DEF AuthSpec, RevokedIsRefused

-----------------------------------------------------------------------------
(* Image prepull.  "completed" is written from an answer that was read      *)
(* some steps before, when the Job may be gone; what it says stays true     *)
(* because the history of what was pulled never shrinks to nothing.         *)

RowStates == {"none", "pending", "pulling", "completed", "failed"}

JobStates == {"none", "running", "succeeded", "failed"}

Look == [task : Tasks \cup {0}, saw : {"nothing", "pulling", "completed", "failed"}]

Deletion == [task : Tasks \cup {0}, next : {"none", "job", "row"}]

PrepullInv ==
    /\ ppRows \in [Tasks -> RowStates]
    /\ ppJobs \in [Tasks -> JobStates]
    /\ ppCreate \in [Tasks -> {"check", "insert", "job", "pulling", "failed", "done"}]
    /\ ppLook \in [Lookers -> Look]
    /\ ppDelete \in Deletion
    /\ ppDelete.next # "none" => ppDelete.task \in Tasks
    /\ ppPulled \in [Tasks -> SUBSET PrepullNodes]
    /\ \A t \in Tasks : ppJobs[t] = "succeeded" => ppPulled[t] # {}
    /\ \A l \in Lookers : ppLook[l].saw # "nothing" => ppLook[l].task \in Tasks
    /\ \A l \in Lookers : ppLook[l].saw = "completed" => ppPulled[ppLook[l].task] # {}
    /\ CompletedWasPulled

\* Nobody looks at a task or deletes one.
LEMMA PrepullDefaults ==
    /\ NotLooking \in Look /\ NotLooking.saw = "nothing"
    /\ NotDeleting \in Deletion /\ NotDeleting.next = "none"
  BY DEF NotLooking, NotDeleting, Look, Deletion

\* A status that is written is one that may be shown.
LEMMA UpdateStatusStep ==
    ASSUME PrepullInv, NEW t \in Tasks, NEW status \in RowStates, UpdateStatus(t, status),
           status = "completed" => ppPulled[t] # {}
    PROVE  /\ ppRows' \in [Tasks -> RowStates]
           /\ \A u \in Tasks : ppRows'[u] = "completed" => ppPulled[u] # {}
  BY DEF PrepullInv, UpdateStatus, RowStates, CompletedWasPulled

\* What the requests that create a task do.
LEMMA CreateStep ==
    ASSUME PrepullInv, NEW t \in Tasks,
           GetActiveByImage(t) \/ InsertPrepull(t) \/ CreatePrepullDaemonSet(t) \/ MarkCreated(t)
    PROVE  PrepullInv'
<1>1. CASE GetActiveByImage(t)
  BY <1>1 DEF PrepullInv, GetActiveByImage, CompletedWasPulled
<1>2. CASE InsertPrepull(t)
  BY <1>2 DEF PrepullInv, InsertPrepull, CompletedWasPulled, RowStates
<1>3. CASE CreatePrepullDaemonSet(t)
  <2>1. /\ ppJobs' \in [Tasks -> JobStates]
        /\ \A u \in Tasks : ppJobs'[u] = "succeeded" => ppJobs[u] = "succeeded"
    BY <1>3 DEF PrepullInv, CreatePrepullDaemonSet, JobStates
  <2>2. ppCreate' \in [Tasks -> {"check", "insert", "job", "pulling", "failed", "done"}]
    BY <1>3 DEF PrepullInv, CreatePrepullDaemonSet
  <2>3. UNCHANGED <<ppRows, ppLook, ppDelete, ppPulled>>
    BY <1>3 DEF CreatePrepullDaemonSet
  <2> QED
    BY <2>1, <2>2, <2>3 DEF PrepullInv, CompletedWasPulled
<1>4. CASE MarkCreated(t)
  <2>1. /\ ppRows' \in [Tasks -> RowStates]
        /\ \A u \in Tasks : ppRows'[u] = "completed" => ppPulled[u] # {}
    BY <1>4, UpdateStatusStep DEF PrepullInv, MarkCreated, RowStates, CompletedWasPulled
  <2>2. ppCreate' \in [Tasks -> {"check", "insert", "job", "pulling", "failed", "done"}]
    BY <1>4 DEF PrepullInv, MarkCreated
  <2>3. UNCHANGED <<ppJobs, ppLook, ppDelete, ppPulled>>
    BY <1>4 DEF MarkCreated
  <2> QED
    BY <2>1, <2>2, <2>3 DEF PrepullInv, CompletedWasPulled
<1> QED
  BY <1>1, <1>2, <1>3, <1>4

\* updateStatusFromK8s: a look that finds the Job complete is remembered with a
\* task that was pulled.
LEMMA LookStep ==
    ASSUME PrepullInv, NEW l \in Lookers,
           (\E t \in Tasks : LookAt(l, t)) \/ GetPrepullStatus(l) \/ WriteStatus(l)
    PROVE  PrepullInv'
<1>1. ASSUME NEW new \in Look, ppLook' = [ppLook EXCEPT ![l] = new],
             new.saw # "nothing" => new.task \in Tasks,
             new.saw = "completed" => ppPulled[new.task] # {},
             ppRows' \in [Tasks -> RowStates],
             \A u \in Tasks : ppRows'[u] = "completed" => ppPulled[u] # {},
             UNCHANGED <<ppJobs, ppCreate, ppDelete, ppPulled>>
      PROVE  PrepullInv'
  <2>1. /\ ppLook' \in [Lookers -> Look]
        /\ \A k \in Lookers : ppLook'[k] = new \/ ppLook'[k] = ppLook[k]
    BY <1>1 DEF PrepullInv
  <2> QED
    BY <1>1, <2>1 DEF PrepullInv, CompletedWasPulled
<1>2. ASSUME NEW t \in Tasks, LookAt(l, t) PROVE PrepullInv'
  <2>1. [task |-> t, saw |-> "nothing"] \in Look
    BY DEF Look
  <2> QED
    BY <1>1, <1>2, <2>1 DEF LookAt, PrepullInv, CompletedWasPulled
<1>3. CASE GetPrepullStatus(l)
  <2>1. PICK op \in Look : op = ppLook[l]
    BY DEF PrepullInv
  <2>2. op.task \in Tasks
    BY <1>3, <2>1 DEF GetPrepullStatus
  <2>3. PICK saw \in {"failed", "completed", "pulling"} :
           /\ saw = "completed" => ppPulled[op.task] # {}
           /\ ppLook' = [ppLook EXCEPT ![l].saw = saw]
    BY <1>3, <2>1, <2>2 DEF GetPrepullStatus, IsComplete, PrepullInv
  <2>4. PICK new : new = [op EXCEPT !.saw = saw]
    OBVIOUS
  <2>5. new \in Look /\ new.task = op.task /\ new.saw = saw
    BY <2>4 DEF Look
  <2>6. ppLook' = [ppLook EXCEPT ![l] = new]
    BY <2>1, <2>3, <2>4
  <2> QED
    BY <1>1, <1>3, <2>2, <2>3, <2>5, <2>6 DEF GetPrepullStatus, PrepullInv, CompletedWasPulled
<1>4. CASE WriteStatus(l)
  <2>1. /\ ppLook[l].task \in Tasks /\ ppLook[l].saw \in RowStates
        /\ ppLook[l].saw = "completed" => ppPulled[ppLook[l].task] # {}
    BY <1>4 DEF PrepullInv, WriteStatus, Look, RowStates
  <2>2. /\ ppRows' \in [Tasks -> RowStates]
        /\ \A u \in Tasks : ppRows'[u] = "completed" => ppPulled[u] # {}
    BY <1>4, <2>1, UpdateStatusStep DEF WriteStatus
  <2> QED
    BY <1>1, <1>4, <2>2, PrepullDefaults DEF WriteStatus
<1> QED
  BY <1>2, <1>3, <1>4

\* Deletions, the clean-up and the cluster: no row becomes completed, and a Job
\* that succeeds is remembered.
LEMMA PrepullOtherStep ==
    ASSUME PrepullInv,
           \/ DeletePrepullDaemonSet \/ DeleteRow \/ RequestDies
           \/ \E t \in Tasks : \/ DeletePrepull(t) \/ CleanupCompletedPrepulls(t)
                               \/ JobFinishes(t) \/ JobExpires(t)
    PROVE  PrepullInv'
<1>1. CASE DeletePrepullDaemonSet
  <2>1. ppDelete.task \in Tasks /\ ppDelete \in Deletion
    BY <1>1 DEF PrepullInv, DeletePrepullDaemonSet
  <2>2. /\ ppJobs' \in [Tasks -> JobStates]
        /\ \A u \in Tasks : ppJobs'[u] = "succeeded" => ppJobs[u] = "succeeded"
    BY <1>1, <2>1 DEF PrepullInv, DeletePrepullDaemonSet, JobStates
  <2>3. ppDelete' \in Deletion /\ (ppDelete'.next # "none" => ppDelete'.task \in Tasks)
    BY <1>1, <2>1, PrepullDefaults DEF DeletePrepullDaemonSet, Deletion
  <2> QED
    BY <1>1, <2>2, <2>3 DEF PrepullInv, DeletePrepullDaemonSet, CompletedWasPulled
<1>2. CASE DeleteRow
  <2>1. /\ ppRows' \in [Tasks -> RowStates]
        /\ \A u \in Tasks : ppRows'[u] = "completed" => ppRows[u] = "completed"
    BY <1>2 DEF PrepullInv, DeleteRow, RowStates
  <2> QED
    BY <1>2, <2>1, PrepullDefaults DEF PrepullInv, DeleteRow, CompletedWasPulled
<1>3. CASE RequestDies
  BY <1>3, PrepullDefaults DEF PrepullInv, RequestDies, CompletedWasPulled
<1>4. ASSUME NEW t \in Tasks, DeletePrepull(t) PROVE PrepullInv'
  <2>1. ppDelete' \in Deletion /\ ppDelete'.task \in Tasks
    BY <1>4 DEF DeletePrepull, Deletion
  <2> QED
    BY <1>4, <2>1 DEF PrepullInv, DeletePrepull, CompletedWasPulled
<1>5. ASSUME NEW t \in Tasks, CleanupCompletedPrepulls(t) \/ JobExpires(t) PROVE PrepullInv'
  <2>1. /\ ppJobs' \in [Tasks -> JobStates]
        /\ \A u \in Tasks : ppJobs'[u] = "succeeded" => ppJobs[u] = "succeeded"
    BY <1>5 DEF PrepullInv, CleanupCompletedPrepulls, JobExpires, JobStates
  <2> QED
    BY <1>5, <2>1 DEF PrepullInv, CleanupCompletedPrepulls, JobExpires, CompletedWasPulled
<1>6. ASSUME NEW t \in Tasks, JobFinishes(t) PROVE PrepullInv'
  <2>1. /\ ppJobs' \in [Tasks -> JobStates] /\ ppPulled' \in [Tasks -> SUBSET PrepullNodes]
        /\ \A u \in Tasks : ppPulled[u] # {} => ppPulled'[u] # {}
        /\ \A u \in Tasks : ppJobs'[u] = "succeeded" => ppPulled'[u] # {}
    BY <1>6 DEF PrepullInv, JobFinishes, JobStates
  <2> QED
    BY <1>6, <2>1 DEF PrepullInv, JobFinishes, CompletedWasPulled
<1> QED
  BY <1>1, <1>2, <1>3, <1>4, <1>5, <1>6

\* The inductive invariant of the prepull service.
THEOREM PrepullInvariance == PrepullSpec => []PrepullInv
<1>1. PrepullInit => PrepullInv
  BY PrepullDefaults DEF PrepullInit, PrepullInv, RowStates, JobStates, CompletedWasPulled
<1>2. PrepullInv /\ [PrepullNext]_ppVars => PrepullInv'
  <2> SUFFICES ASSUME PrepullInv, [PrepullNext]_ppVars PROVE PrepullInv'
    OBVIOUS
  <2>1. CASE UNCHANGED ppVars
    BY <2>1 DEF PrepullInv, ppVars, CompletedWasPulled
  <2>2. CASE Looks
    BY <2>2, LookStep DEF Looks
  <2> QED
    BY <2>1, <2>2, CreateStep, PrepullOtherStep DEF PrepullNext
<1> QED
  BY <1>1, <1>2, PTL DEF PrepullSpec

\* Rows, Jobs and requests keep their types.
THEOREM PrepullTypeCorrect == PrepullSpec => []PrepullTypeOK
<1>1. PrepullInv => PrepullTypeOK
  BY DEF PrepullInv, PrepullTypeOK, Look, RowStates, JobStates
<1> QED
  BY <1>1, PrepullInvariance, PTL

\* A task is only shown as completed when all pods of its Job have pulled the
\* image, whatever the order of the writes and although the Job may be gone.
THEOREM CompletedMeansPulled == PrepullSpec => []CompletedWasPulled
<1>1. PrepullInv => CompletedWasPulled
  BY DEF PrepullInv
<1> QED
  BY <1>1, PrepullInvariance, PTL

-----------------------------------------------------------------------------
(* Network policies.  A sandbox never reaches more than it was granted      *)
(* although the reconciler works on rows and templates that are stale: a    *)
(* sandbox is only created once under its id, so a row that was live when   *)
(* it was listed is live, shown as failed or has ended, and what the        *)
(* template says when a policy is applied is granted to every sandbox that  *)
(* may be running then.                                                     *)

NetStatuses == {"none", "live", "failed", "ended"}

NetRow == [status : NetStatuses, label : BOOLEAN]

PassRecord == [phase : {"idle", "apply", "delete"},
               rows : [NetSandboxes -> NetStatuses] \cup {<<>>},
               todo : SUBSET NetSandboxes, desired : SUBSET NetSandboxes]

NetTypes ==
    /\ basePolicies \subseteq {BasePolicies[i].name : i \in 1 .. Len(BasePolicies)}
    /\ ensured \in 0 .. Off
    /\ netRows \in [NetSandboxes -> NetRow]
    /\ netTemplate \in NetSpecs \cup {"gone"}
    /\ DOMAIN allowLists \subseteq NetSandboxes
    /\ \A s \in DOMAIN allowLists : allowLists[s] \in (SUBSET Hosts) \ {{}}
    /\ netPass \in PassRecord
    /\ netPass.phase # "idle" => netPass.rows \in [NetSandboxes -> NetStatuses]
    /\ granted \in [NetSandboxes -> SUBSET Public]

\* A sandbox that does not exist yet has no policy, and no pass takes it for
\* one that does.
Unborn(s) ==
    netRows[s].status = "none" =>
        /\ s \notin DOMAIN allowLists
        /\ netPass.phase # "idle" => netPass.rows[s] = "none"

\* What a sandbox has, or may be given by a pass, was granted; one that is
\* shown as failed may be running again before a policy reaches it.
Granted(s) ==
    MayRun(s) =>
        /\ AllowedDomains(netTemplate) \subseteq granted[s]
        /\ s \in DOMAIN allowLists => allowLists[s] \subseteq granted[s]
        /\ netRows[s].label => Public \subseteq granted[s]

NetInv == NetTypes /\ \A s \in NetSandboxes : Unborn(s) /\ Granted(s)

\* An allowlist names hosts of the Internet.
LEMMA Domains ==
    ASSUME NEW spec
    PROVE  AllowedDomains(spec) \subseteq Hosts /\ Hosts \subseteq Public
  BY DEF AllowedDomains, Hosts, Public

\* The policies in the order in which they are applied.
LEMMA FivePolicies ==
    /\ Len(BasePolicies) = 5
    /\ BasePolicies[1] = defaultDenyAllPolicy /\ BasePolicies[2] = allowDNSPolicy
    /\ BasePolicies[3] = denyK8sAPIPolicy /\ BasePolicies[4] = allowGatewayIngressPolicy
    /\ BasePolicies[5] = allowInternetEgressPolicy
  BY DEF BasePolicies

\* The invariant is what the property needs.
LEMMA InvReach ==
    ASSUME NetInv
    PROVE  ReachIsGranted
<1> SUFFICES ASSUME "default-deny-all" \in basePolicies, NEW s \in NetSandboxes, MayRun(s)
             PROVE  /\ Egress(s) \subseteq granted[s] \cup {"dns"}
                    /\ Ingress(s) \subseteq {"gateway"}
  BY DEF ReachIsGranted
<1>1. /\ netRows[s].label => Public \subseteq granted[s]
      /\ s \in DOMAIN allowLists => allowLists[s] \subseteq granted[s]
  BY DEF NetInv, Granted
<1>2. ASSUME NEW p \in Selecting(s)
      PROVE  p.out \subseteq granted[s] \cup {"dns"} /\ p.in \subseteq {"gateway"}
  <2>1. CASE s \in DOMAIN allowLists /\ p = domainAllowlistPolicy(allowLists[s])
    BY <1>1, <2>1 DEF domainAllowlistPolicy
  <2>2. CASE \E i \in 1 .. Len(BasePolicies) : p = BasePolicies[i] /\ (p.labelled => netRows[s].label)
    <3>1. PICK i \in 1 .. 5 : p = BasePolicies[i] /\ (p.labelled => netRows[s].label)
      BY <2>2, FivePolicies
    <3>2. \/ p = defaultDenyAllPolicy \/ p = allowDNSPolicy \/ p = denyK8sAPIPolicy
          \/ p = allowGatewayIngressPolicy \/ p = allowInternetEgressPolicy
      BY <3>1, FivePolicies
    <3>3. CASE p = allowInternetEgressPolicy
      BY <1>1, <3>1, <3>3 DEF allowInternetEgressPolicy
    <3>4. CASE p # allowInternetEgressPolicy
      BY <3>2, <3>4 DEF defaultDenyAllPolicy, allowDNSPolicy, denyK8sAPIPolicy, allowGatewayIngressPolicy
    <3> QED
      BY <3>3, <3>4
  <2> QED
    BY <2>1, <2>2 DEF Selecting
<1>3. PICK d \in Selecting(s) : "out" \in d.types /\ "in" \in d.types
  <2>1. defaultDenyAllPolicy \in {BasePolicies[i] : i \in 1 .. Len(BasePolicies)}
    BY FivePolicies
  <2>2. /\ defaultDenyAllPolicy.name = "default-deny-all" /\ defaultDenyAllPolicy.labelled = FALSE
        /\ "out" \in defaultDenyAllPolicy.types /\ "in" \in defaultDenyAllPolicy.types
    BY DEF defaultDenyAllPolicy
  <2>3. defaultDenyAllPolicy \in Selecting(s)
    BY <2>1, <2>2 DEF Selecting
  <2> QED
    BY <2>2, <2>3
<1>4. Egress(s) \subseteq granted[s] \cup {"dns"}
  <2>1. Egress(s) = UNION {p.out : p \in {q \in Selecting(s) : "out" \in q.types}}
    BY <1>3 DEF Egress
  <2> QED
    BY <1>2, <2>1
<1>5. Ingress(s) \subseteq {"gateway"}
  <2>1. Ingress(s) = UNION {p.in : p \in {q \in Selecting(s) : "in" \in q.types}}
    BY <1>3 DEF Ingress
  <2> QED
    BY <1>2, <2>1
<1> QED
  BY <1>4, <1>5

\* The start of the API server only adds base policies.
LEMMA EnsureStep ==
    ASSUME NetInv, ServerStarts \/ ensurePolicy \/ EnsureStops
    PROVE  NetInv'
<1>1. /\ ensured' \in 0 .. Off
      /\ basePolicies' \subseteq {BasePolicies[i].name : i \in 1 .. Len(BasePolicies)}
  BY FivePolicies DEF NetInv, NetTypes, ServerStarts, ensurePolicy, EnsureStops, Off
<1>2. UNCHANGED <<netRows, netTemplate, allowLists, netPass, granted>>
  BY DEF ServerStarts, ensurePolicy, EnsureStops
<1> QED
  BY <1>1, <1>2 DEF NetInv, NetTypes, Unborn, Granted, MayRun

\* A new sandbox is granted what its template lists; no policy is there that
\* could give it more.
LEMMA CreateSandboxStep ==
    ASSUME NetInv, NEW s \in NetSandboxes, CreateSandbox(s)
    PROVE  NetInv'
<1>1. PICK new \in NetRow : /\ netRows' = [netRows EXCEPT ![s] = new]
                            /\ new.status = "live"
                            /\ new.label => netTemplate = "open"
  <2>1. [status |-> "live", label |-> InternetLabel(netTemplate)] \in NetRow
    BY DEF NetRow, NetStatuses, InternetLabel
  <2> QED
    BY <2>1 DEF CreateSandbox, InternetLabel
<1>2. PICK gr \in SUBSET Public : /\ granted' = [granted EXCEPT ![s] = gr]
                                  /\ AllowedDomains(netTemplate) \subseteq gr
                                  /\ netTemplate = "open" => Public \subseteq gr
  <2>1. AllowedDomains(netTemplate) \subseteq Public
    BY Domains
  <2> QED
    BY <2>1 DEF CreateSandbox
<1>3. NetTypes /\ netRows[s].status = "none"
  BY DEF NetInv, CreateSandbox
<1>4. /\ netRows'[s] = new /\ granted'[s] = gr
      /\ \A x \in NetSandboxes \ {s} : netRows'[x] = netRows[x] /\ granted'[x] = granted[x]
      /\ netRows' \in [NetSandboxes -> NetRow] /\ granted' \in [NetSandboxes -> SUBSET Public]
  BY <1>1, <1>2, <1>3 DEF NetTypes
<1>5. UNCHANGED <<basePolicies, ensured, netTemplate, allowLists, netPass>>
  BY DEF CreateSandbox
<1>6. NetTypes'
  BY <1>3, <1>4, <1>5 DEF NetTypes
<1>7. s \notin DOMAIN allowLists
  BY <1>3 DEF NetInv, Unborn
<1>8. Unborn(s)' /\ Granted(s)'
  BY <1>1, <1>2, <1>4, <1>5, <1>7 DEF Unborn, Granted, MayRun
<1>9. \A x \in NetSandboxes \ {s} : Unborn(x)' /\ Granted(x)'
  BY <1>4, <1>5 DEF NetInv, Unborn, Granted, MayRun
<1> QED
  BY <1>6, <1>8, <1>9 DEF NetInv

\* A sandbox fails, comes back or ends.
LEMMA EndSandboxStep ==
    ASSUME NetInv, NEW s \in NetSandboxes, ChangeStatus(s) \/ EndSandbox(s)
    PROVE  NetInv'
<1>1. /\ netRows' \in [NetSandboxes -> NetRow] /\ netRows'[s].status # "none"
      /\ netRows'[s].label = netRows[s].label /\ MayRun(s)
      /\ \A x \in NetSandboxes \ {s} : netRows'[x] = netRows[x]
  BY DEF NetInv, NetTypes, ChangeStatus, EndSandbox, NetRow, NetStatuses
<1>2. UNCHANGED <<basePolicies, ensured, netTemplate, allowLists, netPass, granted>>
  BY DEF ChangeStatus, EndSandbox
<1> QED
  BY <1>1, <1>2 DEF NetInv, NetTypes, Unborn, Granted, MayRun

\* A template created again under its name grants what it lists to every sandbox
\* that lives.
LEMMA ChangeTemplateStep ==
    ASSUME NetInv, NEW spec \in NetSpecs \cup {"gone"}, ChangeTemplate(spec)
    PROVE  NetInv'
<1>1. AllowedDomains(spec) \subseteq Public
  BY Domains
<1>2. UNCHANGED <<basePolicies, ensured, netRows, allowLists, netPass>> /\ netTemplate' = spec
  BY DEF ChangeTemplate
<1>3. /\ granted' \in [NetSandboxes -> SUBSET Public]
      /\ \A s \in NetSandboxes :
            /\ granted[s] \subseteq granted'[s]
            /\ MayRun(s) => AllowedDomains(spec) \subseteq granted'[s]
  BY <1>1 DEF NetInv, NetTypes, ChangeTemplate
<1> QED
  BY <1>2, <1>3 DEF NetInv, NetTypes, Unborn, Granted, MayRun

\* Steps of the pass that do not touch the policies.
LEMMA PassMoves ==
    ASSUME NetInv, ListRows \/ ListManagedDomainAllowlistPolicies \/ PassEnds \/ PassAborts
    PROVE  NetInv'
<1>1. UNCHANGED <<basePolicies, ensured, netRows, netTemplate, allowLists, granted>>
  BY DEF ListRows, ListManagedDomainAllowlistPolicies, PassEnds, PassAborts
<1>2. /\ netPass' \in PassRecord
      /\ netPass'.phase # "idle" =>
            /\ netPass'.rows \in [NetSandboxes -> NetStatuses]
            /\ \A s \in NetSandboxes : netRows[s].status = "none" => netPass'.rows[s] = "none"
  <2>1. CASE ListRows
    <3>1. [s \in NetSandboxes |-> netRows[s].status] \in [NetSandboxes -> NetStatuses]
      BY DEF NetInv, NetTypes, NetRow
    <3>2. /\ netPass'.rows = [s \in NetSandboxes |-> netRows[s].status]
          /\ netPass' \in PassRecord
      BY <2>1, <3>1 DEF ListRows, PassRecord
    <3> QED
      BY <3>1, <3>2
  <2>2. CASE ListManagedDomainAllowlistPolicies
    <3>1. netPass \in PassRecord /\ DOMAIN allowLists \subseteq NetSandboxes /\ netPass.phase = "apply"
      BY <2>2 DEF NetInv, NetTypes, ListManagedDomainAllowlistPolicies
    <3>2. netPass' \in PassRecord /\ netPass'.rows = netPass.rows
      BY <2>2, <3>1 DEF ListManagedDomainAllowlistPolicies, PassRecord
    <3> QED
      BY <3>1, <3>2 DEF NetInv, NetTypes, Unborn
  <2>3. CASE PassEnds \/ PassAborts
    BY <2>3 DEF PassEnds, PassAborts, Idle, PassRecord
  <2> QED
    BY <2>1, <2>2, <2>3
<1> QED
  BY <1>1, <1>2 DEF NetInv, NetTypes, Unborn, Granted, MayRun

\* A policy is applied for a row that was live when it was listed: the sandbox
\* has ended, or may be running and was granted what the template says now.
LEMMA ApplyStep ==
    ASSUME NetInv, NEW s \in NetSandboxes, ApplyDomainAllowlistPolicy(s)
    PROVE  NetInv'
<1> DEFINE hosts == desiredAllowedDomains(netPass.rows[s])
<1>1. NetTypes /\ netPass.phase = "apply"
  BY DEF NetInv, ApplyDomainAllowlistPolicy
<1>2. UNCHANGED <<basePolicies, ensured, netRows, netTemplate, granted>>
  BY DEF ApplyDomainAllowlistPolicy
<1>3. /\ hosts \in SUBSET Hosts
      /\ hosts # {} => netRows[s].status # "none"
      /\ MayRun(s) => hosts \subseteq granted[s]
  BY Domains, <1>1 DEF NetInv, Unborn, Granted, desiredAllowedDomains
<1>4. netPass' \in PassRecord /\ netPass'.rows = netPass.rows /\ netPass'.phase = "apply"
  <2>1. PICK found \in SUBSET NetSandboxes :
           netPass' = [[netPass EXCEPT !.todo = @ \ {s}] EXCEPT !.desired = found]
    <3>1. netPass \in PassRecord /\ netPass.desired \in SUBSET NetSandboxes
      BY <1>1 DEF NetTypes, PassRecord
    <3>2. [netPass EXCEPT !.todo = @ \ {s}]
          = [[netPass EXCEPT !.todo = @ \ {s}] EXCEPT !.desired = netPass.desired]
      BY <3>1 DEF PassRecord
    <3>3. [netPass EXCEPT !.todo = @ \ {s}].desired = netPass.desired
      BY <3>1 DEF PassRecord
    <3> QED
      BY <3>1, <3>2, <3>3 DEF ApplyDomainAllowlistPolicy
  <2> QED
    BY <1>1, <2>1 DEF NetTypes, PassRecord
<1>5. \/ allowLists' = allowLists
      \/ /\ hosts # {}
         /\ DOMAIN allowLists' = DOMAIN allowLists \cup {s}
         /\ \A x \in DOMAIN allowLists' : allowLists'[x] = IF x = s THEN hosts ELSE allowLists[x]
  BY DEF ApplyDomainAllowlistPolicy
<1> HIDE DEF hosts
<1>6. NetTypes'
  <2>1. /\ DOMAIN allowLists' \subseteq NetSandboxes
        /\ \A x \in DOMAIN allowLists' : allowLists'[x] \in (SUBSET Hosts) \ {{}}
    <3>1. /\ DOMAIN allowLists \subseteq NetSandboxes
          /\ \A x \in DOMAIN allowLists : allowLists[x] \in (SUBSET Hosts) \ {{}}
      BY <1>1 DEF NetTypes
    <3> QED
      BY <1>3, <1>5, <3>1
  <2> QED
    BY <1>1, <1>2, <1>4, <2>1 DEF NetTypes
<1>7. \A x \in NetSandboxes : Unborn(x)' /\ Granted(x)'
  BY <1>1, <1>2, <1>3, <1>4, <1>5 DEF NetInv, Unborn, Granted, MayRun
<1> QED
  BY <1>6, <1>7 DEF NetInv

\* Its allowlist is deleted.
LEMMA DeletePolicyStep ==
    ASSUME NetInv, NEW s \in NetSandboxes, DeleteDomainAllowlistPolicy(s)
    PROVE  NetInv'
<1>1. NetTypes /\ netPass.phase = "delete"
  BY DEF NetInv, DeleteDomainAllowlistPolicy
<1>2. UNCHANGED <<basePolicies, ensured, netRows, netTemplate, granted>>
  BY DEF DeleteDomainAllowlistPolicy
<1>3. netPass' \in PassRecord /\ netPass'.rows = netPass.rows /\ netPass'.phase = "delete"
  BY <1>1 DEF NetTypes, DeleteDomainAllowlistPolicy, PassRecord
<1>4. /\ DOMAIN allowLists' \subseteq DOMAIN allowLists
      /\ \A x \in DOMAIN allowLists' : allowLists'[x] = allowLists[x]
  BY DEF DeleteDomainAllowlistPolicy
<1>5. NetTypes'
  BY <1>1, <1>2, <1>3, <1>4 DEF NetTypes
<1>6. \A x \in NetSandboxes : Unborn(x)' /\ Granted(x)'
  BY <1>1, <1>2, <1>3, <1>4 DEF NetInv, Unborn, Granted, MayRun
<1> QED
  BY <1>5, <1>6 DEF NetInv

\* The inductive invariant of the network policies.
THEOREM NetInvariance == NetworkSpec => []NetInv
<1>1. NetworkInit => NetInv
  <2> SUFFICES ASSUME NetworkInit PROVE NetInv
    OBVIOUS
  <2>1. NetTypes
    BY FivePolicies DEF NetworkInit, NetTypes, Off, NetRow, NetStatuses, Idle, PassRecord
  <2>2. \A s \in NetSandboxes : Unborn(s) /\ Granted(s)
    BY DEF NetworkInit, Unborn, Granted, MayRun, Idle
  <2> QED
    BY <2>1, <2>2 DEF NetInv
<1>2. NetInv /\ [NetworkNext]_netVars => NetInv'
  <2> SUFFICES ASSUME NetInv, [NetworkNext]_netVars PROVE NetInv'
    OBVIOUS
  <2>1. CASE UNCHANGED netVars
    BY <2>1 DEF netVars, NetInv, NetTypes, Unborn, Granted, MayRun
  <2> QED
    BY <2>1, EnsureStep, CreateSandboxStep, EndSandboxStep, ChangeTemplateStep, PassMoves,
       ApplyStep, DeletePolicyStep DEF NetworkNext, RunOnce
<1> QED
  BY <1>1, <1>2, PTL DEF NetworkSpec

\* Rows, templates, policies and the pass keep their types.
THEOREM NetworkTypeCorrect == NetworkSpec => []NetworkTypeOK
<1>1. NetInv => NetworkTypeOK
  BY DEF NetInv, NetTypes, NetworkTypeOK, NetRow, NetStatuses, PassRecord
<1> QED
  BY <1>1, NetInvariance, PTL

\* Wherever the start of the server and the pass of the reconciler stand, a
\* sandbox reaches DNS and what it was granted, and only the gateway reaches it.
THEOREM ReachSafety == NetworkSpec => []ReachIsGranted
<1>1. NetInv => ReachIsGranted
  BY InvReach
<1> QED
  BY <1>1, NetInvariance, PTL
-----------------------------------------------------------------------------
(* The start of the processes. *)

StartSteps == {"tables", "inspect", "alter", "index", "count", "create", "password", "up", "dead"}

\* A process goes on to another statement.
LEMMA GotoType ==
    ASSUME NEW p \in Processes, NEW step \in StartSteps, at \in [Processes -> StartSteps],
           at' = [at EXCEPT ![p] = step]
    PROVE  at' \in [Processes -> StartSteps]
  OBVIOUS

\* A statement of one process.
LEMMA StartStep ==
    ASSUME StartTypeOK, NEW p \in Processes, Starts(p) \/ Crash(p)
    PROVE  StartTypeOK'
<1>1. /\ schema \in [table : BOOLEAN, columns : SUBSET NewColumns, index : BOOLEAN]
      /\ admins \in {{}, {"env"}, {"own"}} /\ at \in [Processes -> StartSteps]
      /\ missing \in [Processes -> SUBSET NewColumns]
  BY DEF StartTypeOK, StartSteps
<1>2. at' \in [Processes -> StartSteps]
  <2>1. \E step \in StartSteps : at' = [at EXCEPT ![p] = step]
    <3>1. CASE \E c \in NewColumns : AddColumn(p, c)
      <4>1. at[p] \in StartSteps /\ "dead" \in StartSteps
        BY <1>1 DEF StartSteps
      <4> QED
        BY <3>1, <4>1 DEF AddColumn
    <3>2. CASE ~\E c \in NewColumns : AddColumn(p, c)
      BY <3>2
      DEF Starts, Crash, CreateTables, InspectColumns, DropIndex, CreateIndex, AdminCount, CreateAdmin,
          UpdateAdminPassword, Restarted, Goto, StartSteps
    <3> QED
      BY <3>1, <3>2
  <2> QED
    BY <1>1, <2>1, GotoType
<1>3. missing' \in [Processes -> SUBSET NewColumns]
  <2>1. missing' = missing \/ \E m \in SUBSET NewColumns : missing' = [missing EXCEPT ![p] = m]
    <3>1. CASE \E c \in NewColumns : AddColumn(p, c)
      <4>1. PICK c \in NewColumns : missing' = [missing EXCEPT ![p] = IF c \in schema.columns THEN {} ELSE @ \ {c}]
        BY <3>1 DEF AddColumn
      <4>2. (IF c \in schema.columns THEN {} ELSE missing[p] \ {c}) \in SUBSET NewColumns
        BY <1>1
      <4> QED
        BY <4>1, <4>2
    <3>2. CASE ~\E c \in NewColumns : AddColumn(p, c)
      BY <3>2
      DEF Starts, Crash, CreateTables, InspectColumns, MissingColumns, DropIndex, CreateIndex, AdminCount,
          CreateAdmin, UpdateAdminPassword, Restarted
    <3> QED
      BY <3>1, <3>2
  <2> QED
    BY <1>1, <2>1
<1>4. schema' \in [table : BOOLEAN, columns : SUBSET NewColumns, index : BOOLEAN]
  <2>1. CASE CreateTables(p)
    BY <1>1, <2>1 DEF CreateTables
  <2>2. CASE \E c \in NewColumns : AddColumn(p, c)
    <3>1. PICK c \in NewColumns : schema' = [schema EXCEPT !.columns = @ \cup {c}]
      BY <2>2 DEF AddColumn
    <3>2. schema.columns \cup {c} \in SUBSET NewColumns
      BY <1>1
    <3> QED
      BY <1>1, <3>1, <3>2
  <2>3. CASE DropIndex(p) \/ CreateIndex(p)
    BY <1>1, <2>3 DEF DropIndex, CreateIndex
  <2>4. CASE \/ InspectColumns(p) \/ AdminCount(p) \/ CreateAdmin(p) \/ UpdateAdminPassword(p)
             \/ Restarted(p) \/ Crash(p)
    BY <1>1, <2>4 DEF InspectColumns, AdminCount, CreateAdmin, UpdateAdminPassword, Restarted, Crash
  <2> QED
    BY <2>1, <2>2, <2>3, <2>4 DEF Starts
<1>5. admins' \in {{}, {"env"}, {"own"}}
  BY <1>1
  DEF Starts, Crash, CreateTables, InspectColumns, AddColumn, DropIndex, CreateIndex, AdminCount,
      CreateAdmin, UpdateAdminPassword, Restarted
<1> QED
  BY <1>2, <1>3, <1>4, <1>5 DEF StartTypeOK, StartSteps

\* However the statements of the starting processes interleave, the schema only
\* has columns of today's table and there is at most one administrator.
THEOREM StartTypeCorrect == StartSpec => []StartTypeOK
<1>1. StartInit => StartTypeOK
  <2> SUFFICES ASSUME StartInit PROVE StartTypeOK
    OBVIOUS
  <2>1. schema \in [table : BOOLEAN, columns : SUBSET NewColumns, index : BOOLEAN]
    <3>1. /\ [table |-> FALSE, columns |-> {}, index |-> FALSE]
                 \in [table : BOOLEAN, columns : SUBSET NewColumns, index : BOOLEAN]
          /\ [table |-> TRUE, columns |-> {}, index |-> FALSE]
                 \in [table : BOOLEAN, columns : SUBSET NewColumns, index : BOOLEAN]
          /\ [table |-> TRUE, columns |-> NewColumns, index |-> TRUE]
                 \in [table : BOOLEAN, columns : SUBSET NewColumns, index : BOOLEAN]
      OBVIOUS
    <3> QED
      BY <3>1, Zenon DEF StartInit
  <2>2. admins \in {{}, {"env"}, {"own"}}
    BY DEF StartInit
  <2>3. at \in [Processes -> StartSteps] /\ missing \in [Processes -> SUBSET NewColumns]
    BY DEF StartInit, StartSteps
  <2> QED
    BY <2>1, <2>2, <2>3 DEF StartTypeOK, StartSteps
<1>2. StartTypeOK /\ [StartNext]_startVars => StartTypeOK'
  <2>1. ASSUME StartTypeOK, PasswordChanged PROVE StartTypeOK'
    BY <2>1 DEF PasswordChanged, StartTypeOK
  <2>2. ASSUME StartTypeOK, UNCHANGED startVars PROVE StartTypeOK'
    BY <2>2 DEF startVars, StartTypeOK
  <2> QED
    BY <2>1, <2>2, StartStep DEF StartNext
<1> QED
  BY <1>1, <1>2, PTL DEF StartSpec

-----------------------------------------------------------------------------
(* The backoff of deletions on machine integers of any width.  It needs what *)
(* the powers of two are for every exponent, which is an induction: the      *)
(* library's induction theorems cannot be instantiated by the provers, but   *)
(* the well-foundedness of < can, with a set in place of the predicate.      *)

\* A set of natural numbers has a least element.
LEMMA LeastNumber ==
    ASSUME NEW T, T \subseteq Nat, T # {}
    PROVE  \E x \in T : \A y \in T : x <= y
<1>1. \E R : IsWellFoundedOn(R, Nat) /\ \A y, x \in Nat : y < x => <<y, x>> \in R
  BY NatLessThanWellFounded DEF OpToRel
<1>2. PICK R : IsWellFoundedOn(R, Nat) /\ \A y, x \in Nat : y < x => <<y, x>> \in R
  BY <1>1
<1>3. \E x \in T : \A y \in T : ~(<<y, x>> \in R)
  <2>1. IsWellFoundedOn(R, Nat) /\ T \subseteq Nat /\ T # {}
    BY <1>2
  <2> QED
    BY <2>1, WFMin, Zenon
<1>4. PICK x \in T : \A y \in T : ~(<<y, x>> \in R)
  BY <1>3
<1>5. \A y \in T : ~(y < x)
  BY <1>2, <1>4, Zenon
<1>6. \A y \in T : x <= y
  BY <1>5
<1> QED
  BY <1>6

\* Induction with the set of the numbers that have the property as a parameter,
\* in place of the property itself.
LEMMA SetInduction ==
  ASSUME NEW P, 0 \in P, \A n \in Nat : n \in P => n + 1 \in P
  PROVE  Nat \subseteq P
<1> SUFFICES ASSUME Nat \ P # {} PROVE FALSE
  OBVIOUS
<1>1. PICK m \in Nat \ P : \A y \in Nat \ P : m <= y
  <2>1. Nat \ P \subseteq Nat
     OBVIOUS
  <2> QED
    BY <2>1, LeastNumber
<1>2. m # 0 /\ m - 1 \in Nat
  BY <1>1
<1>3. m - 1 \in P
  BY <1>1, <1>2
<1> QED
  BY <1>1, <1>2, <1>3

\* g is the function of the powers of two, as far as n.
Doubling(g, n) == g[0] = 1 /\ \A i \in 1 .. n : g[i] = 2 * g[i - 1]

\* There is such a function for every n, and only one.
LEMMA DoublingExists ==
  ASSUME NEW n \in Nat
  PROVE  \E g \in [0 .. n -> Nat] : Doubling(g, n)
<1> DEFINE P == {k \in Nat : \E g \in [0 .. k -> Nat] : Doubling(g, k)}
<1>1. 0 \in P
  <2>1. [i \in 0 .. 0 |-> 1] \in [0 .. 0 -> Nat] /\ Doubling([i \in 0 .. 0 |-> 1], 0)
    BY DEF Doubling
  <2> QED
    BY <2>1
<1>2. ASSUME NEW k \in Nat, k \in P PROVE k + 1 \in P
  <2>1. PICK g \in [0 .. k -> Nat] : Doubling(g, k)
    BY <1>2
  <2> DEFINE h == [i \in 0 .. k + 1 |-> IF i = k + 1 THEN 2 * g[k] ELSE g[i]]
  <2>2. h \in [0 .. k + 1 -> Nat]
    BY <2>1
  <2>3. Doubling(h, k + 1)
    <3>1. h[0] = 1
      BY <2>1 DEF Doubling
    <3>2. ASSUME NEW i \in 1 .. k + 1 PROVE h[i] = 2 * h[i - 1]
      <4>1. CASE i = k + 1
        BY <2>1, <4>1
      <4>2. CASE i # k + 1
        <5>1. i \in 1 .. k /\ i - 1 \in 0 .. k /\ i - 1 # k + 1 /\ i - 1 \in 0 .. k + 1 /\ i \in 0 .. k + 1
          BY <4>2
        <5>2. g[i] = 2 * g[i - 1]
          BY <2>1, <5>1 DEF Doubling
        <5>3. h[i] = g[i] /\ h[i - 1] = g[i - 1]
          BY <4>2, <5>1
        <5> QED
          BY <5>2, <5>3
      <4> QED
        BY <4>1, <4>2
    <3> QED
      BY <3>1, <3>2 DEF Doubling
  <2> QED
    BY <2>2, <2>3
<1> HIDE DEF P
<1>3. Nat \subseteq P
  BY <1>1, <1>2, SetInduction
<1> QED
  BY <1>3 DEF P

\* Two such functions agree as far as both go.
LEMMA DoublingUnique ==
  ASSUME NEW m \in Nat, NEW n \in Nat, NEW g, NEW h, Doubling(g, m), Doubling(h, n), NEW i \in 0 .. m, i <= n
  PROVE  g[i] = h[i]
<1> DEFINE P == {k \in Nat : k <= m /\ k <= n => g[k] = h[k]}
<1>1. 0 \in P
  BY DEF Doubling
<1>2. ASSUME NEW k \in Nat, k \in P PROVE k + 1 \in P
  <2> SUFFICES ASSUME k + 1 <= m, k + 1 <= n PROVE g[k + 1] = h[k + 1]
    OBVIOUS
  <2>1. g[k] = h[k]
    BY <1>2
  <2>2. k + 1 \in 1 .. m /\ k + 1 \in 1 .. n /\ (k + 1) - 1 = k
    OBVIOUS
  <2> QED
    BY <2>1, <2>2 DEF Doubling
<1> HIDE DEF P
<1>3. Nat \subseteq P
  BY <1>1, <1>2, SetInduction
<1> QED
  BY <1>3 DEF P

\* So the recursive definition of Pow2 defines a function.
LEMMA Pow2Def ==
   Pow2 = [n \in Nat |-> IF n = 0 THEN 1 ELSE 2 * Pow2[n - 1]]
<1> DEFINE G(n) == CHOOSE g \in [0 .. n -> Nat] : Doubling(g, n)
           F == [n \in Nat |-> G(n)[n]]
<1>1. ASSUME NEW n \in Nat PROVE G(n) \in [0 .. n -> Nat] /\ Doubling(G(n), n)
  BY DoublingExists
<1> HIDE DEF G
<1>2. ASSUME NEW n \in Nat PROVE F[n] = IF n = 0 THEN 1 ELSE 2 * F[n - 1]
  <2>1. CASE n = 0
    BY <1>1, <2>1 DEF Doubling
  <2>2. CASE n # 0
    <3>1. n - 1 \in Nat /\ n - 1 \in 0 .. n - 1 /\ n \in 1 .. n
      BY <2>2
    <3>2. G(n)[n] = 2 * G(n)[n - 1]
      BY <1>1, <3>1 DEF Doubling
    <3>3. G(n - 1)[n - 1] = G(n)[n - 1]
      BY <1>1, <3>1, DoublingUnique
    <3> QED
      BY <2>2, <3>1, <3>2, <3>3
  <2> QED
    BY <2>1, <2>2
<1>3. F = [n \in Nat |-> IF n = 0 THEN 1 ELSE 2 * F[n - 1]]
  BY <1>2
<1>4. \E f : f = [n \in Nat |-> IF n = 0 THEN 1 ELSE 2 * f[n - 1]]
  BY <1>3
<1> HIDE DEF F
<1> QED
  BY <1>4 DEF Pow2

\* What is used of it.
LEMMA Pow2Rules ==
  ASSUME NEW n \in Nat
  PROVE  Pow2[0] = 1 /\ Pow2[n] \in Nat \ {0} /\ Pow2[n + 1] = 2 * Pow2[n]
<1>1. \A k \in Nat : Pow2[k] = IF k = 0 THEN 1 ELSE 2 * Pow2[k - 1]
  BY Pow2Def
<1>2. Pow2[0] = 1 /\ \A k \in Nat : Pow2[k + 1] = 2 * Pow2[k]
  BY <1>1
<1> DEFINE P == {k \in Nat : Pow2[k] \in Nat \ {0}}
<1>3. 0 \in P /\ \A k \in Nat : k \in P => k + 1 \in P
  BY <1>2
<1> HIDE DEF P
<1>4. Nat \subseteq P
  BY <1>3, SetInduction
<1> QED
  BY <1>2, <1>4 DEF P

\* Two's complement wraps into its range, and leaves what is in it alone.
LEMMA WrapRange ==
    ASSUME NEW n \in Int
    PROVE  /\ Pow2[IntWidth - 1] \in Nat \ {0}
           /\ Wrap(n) \in -Pow2[IntWidth - 1] .. (Pow2[IntWidth - 1] - 1)
           /\ 0 <= n /\ n < Pow2[IntWidth - 1] => Wrap(n) = n
<1>1. IntWidth - 1 \in Nat /\ (IntWidth - 1) + 1 = IntWidth
  BY RetryAssumption
<1>2. PICK h \in Nat \ {0} : h = Pow2[IntWidth - 1]
  BY <1>1, Pow2Rules
<1>3. Pow2[IntWidth] = 2 * h
  BY <1>1, <1>2, Pow2Rules
<1>4. Wrap(n) = ((n + h) % (2 * h)) - h
  BY <1>2, <1>3 DEF Wrap
<1>5. (n + h) % (2 * h) \in 0 .. 2 * h - 1
  OBVIOUS
<1>6. ASSUME 0 <= n, n < h PROVE (n + h) % (2 * h) = n + h
  <2>1. n + h \in 0 .. 2 * h - 1 /\ 2 * h \in Nat \ {0}
    BY <1>6
  <2> QED
    BY <2>1
<1>7. Wrap(n) \in -h .. (h - 1)
  BY <1>4, <1>5
<1>8. ASSUME 0 <= n, n < h PROVE Wrap(n) = n
  BY <1>4, <1>6, <1>8
<1> QED
  BY <1>2, <1>7, <1>8

\* A higher power is not smaller.
LEMMA Pow2Grows ==
    ASSUME NEW m \in Nat, NEW n \in Nat, m <= n
    PROVE  Pow2[m] <= Pow2[n]
<1> DEFINE P == {k \in Nat : Pow2[m] <= Pow2[m + k]}
<1>1. 0 \in P
  BY Pow2Rules
<1>2. ASSUME NEW k \in Nat, k \in P PROVE k + 1 \in P
  <2>1. m + k \in Nat /\ (m + k) + 1 = m + (k + 1)
    OBVIOUS
  <2>2. /\ Pow2[m] \in Nat /\ Pow2[m + k] \in Nat
        /\ Pow2[(m + k) + 1] = 2 * Pow2[m + k]
    BY <2>1, Pow2Rules
  <2> QED
    BY <1>2, <2>1, <2>2
<1> HIDE DEF P
<1>3. n - m \in P
  BY <1>1, <1>2, SetInduction
<1> QED
  BY <1>3 DEF P

\* A shift gives an integer.
LEMMA ShiftType ==
    ASSUME NEW n \in Nat
    PROVE  Shift(n) \in Int
<1>1. Pow2[n] \in Int
  BY Pow2Rules
<1> QED
  BY <1>1, WrapRange DEF Shift

\* The delay is in the range of the integers and at most the longest interval.
LEMMA RetryBound ==
    ASSUME NEW n \in Nat
    PROVE  /\ computeDeletionRetry(n) \in -Pow2[IntWidth - 1] .. (Pow2[IntWidth - 1] - 1)
           /\ computeDeletionRetry(n) <= MaxRetry
<1>1. PICK d : d = Wrap(RetryInterval * Shift(n))
  OBVIOUS
<1>2. RetryInterval * Shift(n) \in Int
  BY ShiftType, RetryAssumption
<1>3. Pow2[IntWidth - 1] \in Nat /\ d \in -Pow2[IntWidth - 1] .. (Pow2[IntWidth - 1] - 1)
  BY <1>1, <1>2, WrapRange
<1>4. computeDeletionRetry(n) = IF d > MaxRetry THEN MaxRetry ELSE d
  BY <1>1 DEF computeDeletionRetry
<1> QED
  BY <1>3, <1>4, RetryAssumption

\* Without a wrap-around the delay is at least the shortest interval.
LEMMA RetryFloor ==
    ASSUME NEW n \in Nat, RetryInterval * Pow2[n] < Pow2[IntWidth - 1]
    PROVE  computeDeletionRetry(n) >= RetryInterval
<1>1. PICK p \in Nat \ {0} : p = Pow2[n]
  BY Pow2Rules
<1>2. PICK r \in Nat \ {0} : r = RetryInterval
  BY RetryAssumption
<1>3. r * p \in Nat /\ r * p >= r /\ r * p >= p
  BY <1>1, <1>2
<1>4. IntWidth - 1 \in Nat /\ Pow2[IntWidth - 1] \in Nat
  BY RetryAssumption, Pow2Rules
<1>5. n < IntWidth
  <2> SUFFICES ASSUME IntWidth - 1 <= n PROVE FALSE
    BY RetryAssumption
  <2>1. Pow2[IntWidth - 1] <= p
    BY <1>1, <1>4, Pow2Grows
  <2> QED
    BY <1>1, <1>2, <1>3, <1>4, <2>1
<1>6. Wrap(p) = p
  BY <1>1, <1>2, <1>3, <1>4, WrapRange
<1>7. Shift(n) = p
  BY <1>1, <1>5, <1>6, RetryAssumption DEF Shift
<1>8. Wrap(r * p) = r * p
  BY <1>1, <1>2, <1>3, WrapRange
<1>9. computeDeletionRetry(n) = IF r * p > MaxRetry THEN MaxRetry ELSE r * p
  BY <1>2, <1>7, <1>8 DEF computeDeletionRetry
<1> QED
  BY <1>2, <1>3, <1>9, RetryAssumption

RetryInv == RetryTypeOK /\ retryIn <= MaxRetry

\* The inductive invariant of the backoff.
THEOREM RetryInvariance == RetrySpec => []RetryInv
<1>0. Pow2[IntWidth - 1] \in Nat \ {0}
  BY WrapRange
<1>1. RetryInit => RetryInv
  <2> SUFFICES ASSUME RetryInit PROVE RetryInv
    OBVIOUS
  <2>1. attempts \in 0 .. MaxAttempts /\ retryIn <= MaxRetry /\ retryIn = 0
    BY RetryAssumption DEF RetryInit
  <2>2. retryIn \in -Pow2[IntWidth - 1] .. (Pow2[IntWidth - 1] - 1)
    BY <1>0, <2>1
  <2>3. inPass \in BOOLEAN
    BY DEF RetryInit
  <2> QED
    BY <2>1, <2>2, <2>3 DEF RetryInv, RetryTypeOK
<1>2. RetryInv /\ [RetryNext]_retryVars => RetryInv'
  <2> SUFFICES ASSUME RetryInv, [RetryNext]_retryVars PROVE RetryInv'
    OBVIOUS
  <2>1. attempts \in 0 .. MaxAttempts /\ inPass \in BOOLEAN /\ MaxRetry \in Nat /\ MaxAttempts \in Nat
    BY RetryAssumption DEF RetryInv, RetryTypeOK
  <2>2. attempts' \in 0 .. MaxAttempts /\ inPass' \in BOOLEAN
    <3>1. \/ attempts' = attempts
          \/ attempts < MaxAttempts /\ attempts' = attempts + 1
      BY DEF RetryNext, RecordAttempt, MarkReadyForImmediateRetry, PassOver, TimePasses, retryVars
    <3>2. inPass' = inPass \/ inPass' = TRUE \/ inPass' = FALSE
      BY DEF RetryNext, RecordAttempt, MarkReadyForImmediateRetry, PassOver, TimePasses, retryVars
    <3>3. attempts' \in 0 .. MaxAttempts
      BY <2>1, <3>1
    <3>4. inPass' \in BOOLEAN
      BY <2>1, <3>2
    <3> QED
      BY <3>3, <3>4
  <2>3. retryIn' \in -Pow2[IntWidth - 1] .. (Pow2[IntWidth - 1] - 1) /\ retryIn' <= MaxRetry
    <3>1. CASE RecordAttempt
      BY <2>1, <3>1, RetryBound DEF RecordAttempt
    <3>2. CASE MarkReadyForImmediateRetry \/ PassOver \/ TimePasses \/ UNCHANGED retryVars
      BY <1>0, <2>1, <3>2
      DEF RetryInv, RetryTypeOK, MarkReadyForImmediateRetry, PassOver, TimePasses, retryVars
    <3> QED
      BY <3>1, <3>2 DEF RetryNext
  <2> QED
    BY <2>2, <2>3 DEF RetryInv, RetryTypeOK
<1> QED
  BY <1>1, <1>2, PTL DEF RetrySpec

\* The retry time never leaves the integers of its width.
THEOREM RetryTypeCorrect == RetrySpec => []RetryTypeOK
<1>1. RetryInv => RetryTypeOK
  BY DEF RetryInv
<1> QED
  BY <1>1, RetryInvariance, PTL

\* For every width of the integers, and after any number of attempts, the next
\* attempt is at most the longest interval away, and not nearer than the
\* shortest one unless the product has wrapped around.
THEOREM BackoffIsBounded == RetrySpec => []RetryStaysNear
<1>1. RetryInv => RetryStaysNear
  BY RetryFloor, RetryAssumption DEF RetryInv, RetryStaysNear
<1> QED
  BY <1>1, RetryInvariance, PTL
=============================================================================
