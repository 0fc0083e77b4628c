------------------------------ MODULE AdminAuth ------------------------------
(***************************************************************************)
(* The administrator's sessions, API keys and password: auth/middleware.go, *)
(* handler/auth.go and store/auth.go.                                      *)
(*                                                                         *)
(* Every request is authenticated by the middleware and served by its      *)
(* handler in a later step; the note of a key's last use and the removal   *)
(* of an expired session are left to goroutines of their own, which may    *)
(* run when the credential has long been revoked.  Any call of the store   *)
(* may fail, as when the client has gone or the database is locked.        *)
(***************************************************************************)
EXTENDS Naturals, FiniteSets

CONSTANTS Sessions,     \* session tokens a login may get
          APIKeys,      \* API keys that may be created
          AuthRequests, \* concurrent requests
          MaxPasswords  \* bound on the passwords the administrator goes through

ASSUME AuthAssumption ==
    MaxPasswords \in Nat \ {0} /\ Sessions \cap APIKeys = {} /\ "none" \notin Sessions \cup APIKeys

Credentials == Sessions \cup APIKeys

VARIABLES
    credRows,  \* the rows of sessions and api_keys: "none", "valid" or "expired"
    password,  \* the password behind admin_users.password_hash
    authOps,   \* what each request is doing
    later,     \* goroutines not run yet: <<"touch", key>> or <<"drop", session>>
    issued,    \* history: the credentials handed out
    revoked    \* history: deleted keys, expired credentials and sessions that a logout removed

authVars == <<credRows, password, authOps, later, issued, revoked>>

Free == [kind |-> "none", cred |-> "none", knows |-> 0, target |-> "none", stage |-> "none"]

AuthInit ==
    /\ credRows = [x \in Credentials |-> "none"]
    /\ password = 1
    /\ authOps = [r \in AuthRequests |-> Free]
    /\ later = {} /\ issued = {} /\ revoked = {}

\* A request arrives: with credentials it was given before, or a login; knows
\* is the password it carries.
Arrive(r, kind, cred, knows, target) ==
    /\ authOps[r] = Free
    /\ IF kind = "login" THEN cred = "none" ELSE cred \in issued
    /\ kind \notin {"login", "change-password"} => knows = 1
    /\ IF kind = "delete-key" THEN target \in issued \cap APIKeys ELSE target = "none"
    /\ authOps' = [authOps EXCEPT ![r] = [kind |-> kind, cred |-> cred, knows |-> knows, target |-> target,
                                          stage |-> IF kind = "login" THEN "handler" ELSE "middleware"]]
    /\ UNCHANGED <<credRows, password, later, issued, revoked>>

Answer(r) == authOps' = [authOps EXCEPT ![r] = Free]

\* AuthMiddleware and SessionOnlyMiddleware: the row is there and has not
\* expired, and only a session gets past the second.
AuthenticateOK(r) ==
    LET op == authOps[r] IN
    /\ op.stage = "middleware"
    /\ credRows[op.cred] = "valid"
    /\ IF op.cred \in Sessions \/ op.kind = "me"
       THEN authOps' = [authOps EXCEPT ![r].stage = "handler"]
       ELSE Answer(r)
    /\ later' = IF op.cred \in APIKeys THEN later \cup {<<"touch", op.cred>>} ELSE later
    /\ UNCHANGED <<credRows, password, issued, revoked>>

\* A query that fails is a refusal too.
AuthenticateRefused(r) ==
    LET op == authOps[r] IN
    /\ op.stage = "middleware"
    /\ \/ /\ credRows[op.cred] # "valid"
          /\ later' = IF op.cred \in Sessions /\ credRows[op.cred] = "expired"
                      THEN later \cup {<<"drop", op.cred>>} ELSE later
       \/ UNCHANGED later
    /\ Answer(r)
    /\ UNCHANGED <<credRows, password, issued, revoked>>

-----------------------------------------------------------------------------
(* The handlers. *)

\* Login compares the password with the row's hash first, which takes a while;
\* ChangePassword does the same with the old password.
CheckPassword(r) ==
    LET op == authOps[r] IN
    /\ op.kind \in {"login", "change-password"} /\ op.stage = "handler"
    /\ IF op.knows = password THEN authOps' = [authOps EXCEPT ![r].stage = "checked"] ELSE Answer(r)
    /\ UNCHANGED <<credRows, password, later, issued, revoked>>

Hand(x) ==
    /\ x \notin issued
    /\ credRows' = [credRows EXCEPT ![x] = "valid"]
    /\ issued' = issued \cup {x}

LoginCreatesSession(r) ==
    /\ authOps[r].kind = "login" /\ authOps[r].stage = "checked"
    /\ \E x \in Sessions : Hand(x)
    /\ Answer(r)
    /\ UNCHANGED <<password, later, revoked>>

CreateAPIKey(r) ==
    /\ authOps[r].kind = "create-key" /\ authOps[r].stage = "handler"
    /\ \E x \in APIKeys : Hand(x)
    /\ Answer(r)
    /\ UNCHANGED <<password, later, revoked>>

\* The new password is written over whatever the row holds by now.  Sessions
\* and keys are left as they are.
ChangePassword(r) ==
    /\ authOps[r].kind = "change-password" /\ authOps[r].stage = "checked"
    /\ password < MaxPasswords
    /\ password' = password + 1
    /\ Answer(r)
    /\ UNCHANGED <<credRows, later, issued, revoked>>

Remove(x) == credRows' = [credRows EXCEPT ![x] = "none"] /\ revoked' = revoked \cup {x}

\* The error of DeleteSession is discarded: the answer is a success either way.
Logout(r) ==
    /\ authOps[r].kind = "logout" /\ authOps[r].stage = "handler"
    /\ \/ Remove(authOps[r].cred)
       \/ UNCHANGED <<credRows, revoked>>
    /\ Answer(r)
    /\ UNCHANGED <<password, later, issued>>

\* 200, or 404 when there is no such key; an error is answered 500, and the
\* DELETE may have been carried out all the same.
DeleteAPIKey(r) ==
    /\ authOps[r].kind = "delete-key" /\ authOps[r].stage = "handler"
    /\ \/ Remove(authOps[r].target)
       \/ /\ credRows' \in {credRows, [credRows EXCEPT ![authOps[r].target] = "none"]}
          /\ UNCHANGED revoked
    /\ Answer(r)
    /\ UNCHANGED <<password, later, issued>>

\* The handlers that write answer 500 when their write fails.
StoreFails(r) ==
    /\ authOps[r].kind \in {"login", "change-password", "create-key"} /\ authOps[r].stage \in {"handler", "checked"}
    /\ Answer(r)
    /\ UNCHANGED <<credRows, password, later, issued, revoked>>

\* Me and every route of the API that only needs authentication.
Serve(r) ==
    /\ authOps[r].kind = "me" /\ authOps[r].stage = "handler"
    /\ Answer(r)
    /\ UNCHANGED <<credRows, password, later, issued, revoked>>

-----------------------------------------------------------------------------
(* Goroutines, the clock and the process. *)

\* The row is written back as it was when the key was looked up.
TouchWritesRow(x) ==
    /\ <<"touch", x>> \in later
    /\ credRows' = [credRows EXCEPT ![x] = "valid"]
    /\ later' = later \ {<<"touch", x>>}
    /\ UNCHANGED <<password, authOps, issued, revoked>>

\* UPDATE ... WHERE id = ?: a key that is gone stays gone.
UpdateAPIKeyLastUsed(x) ==
    /\ <<"touch", x>> \in later
    /\ later' = later \ {<<"touch", x>>}
    /\ UNCHANGED <<credRows, password, authOps, issued, revoked>>

\* The expired session goes, unless the call fails.
DeleteSession(x) ==
    /\ <<"drop", x>> \in later
    /\ later' = later \ {<<"drop", x>>}
    /\ credRows' \in {credRows, [credRows EXCEPT ![x] = "none"]}
    /\ UNCHANGED <<password, authOps, issued, revoked>>

\* The hourly clean-up.
DeleteExpiredSessions ==
    /\ \E x \in Sessions : credRows[x] = "expired"
    /\ credRows' = [x \in Credentials |-> IF x \in Sessions /\ credRows[x] = "expired" THEN "none" ELSE credRows[x]]
    /\ UNCHANGED <<password, authOps, later, issued, revoked>>

Expires(x) ==
    /\ credRows[x] = "valid"
    /\ credRows' = [credRows EXCEPT ![x] = "expired"]
    /\ revoked' = revoked \cup {x}
    /\ UNCHANGED <<password, authOps, later, issued>>

\* The process ends: requests and goroutines are lost, the rows stay.
AuthServerRestarts ==
    /\ authOps' = [r \in AuthRequests |-> Free]
    /\ later' = {}
    /\ UNCHANGED <<credRows, password, issued, revoked>>

AuthNext ==
    \/ \E r \in AuthRequests :
        \/ \E kind \in {"login", "logout", "change-password", "create-key", "delete-key", "me"},
              cred \in Credentials \cup {"none"}, knows \in 1 .. MaxPasswords, target \in APIKeys \cup {"none"} :
                Arrive(r, kind, cred, knows, target)
        \/ AuthenticateOK(r) \/ AuthenticateRefused(r) \/ CheckPassword(r) \/ LoginCreatesSession(r)
        \/ CreateAPIKey(r) \/ ChangePassword(r) \/ Logout(r) \/ DeleteAPIKey(r) \/ StoreFails(r) \/ Serve(r)
    \/ \E x \in Credentials : UpdateAPIKeyLastUsed(x) \/ DeleteSession(x) \/ Expires(x)
    \/ DeleteExpiredSessions \/ AuthServerRestarts

AuthSpec == AuthInit /\ [][AuthNext]_authVars

-----------------------------------------------------------------------------
AuthTypeOK ==
    /\ credRows \in [Credentials -> {"none", "valid", "expired"}]
    /\ password \in 1 .. MaxPasswords
    /\ \A r \in AuthRequests : authOps[r].stage \in {"none", "middleware", "handler", "checked"}
    /\ later \subseteq {"touch", "drop"} \X Credentials
    /\ issued \subseteq Credentials /\ revoked \subseteq issued

\* No request gets past the middleware on a credential that has come to its
\* end: once the deletion of a key was confirmed, a logout has removed the
\* session or the time of expiry has passed, no goroutine with a write left to
\* do for it, no failing call of the store, no concurrent request and no
\* restart makes it good again.
RevokedIsRefused ==
    [][\A r \in AuthRequests :
        authOps[r].stage = "middleware" /\ authOps'[r].stage = "handler" => authOps[r].cred \notin revoked]_authVars

\* "Logout invalidates the current session" (handler/auth.go): the code does
\* not keep this, as the answer is a success when the row could not be removed.
\* TLC refutes it as a property of ControlPlane.cfg.
LogoutEndsSession ==
    [][\A r \in AuthRequests : Logout(r) => credRows'[authOps[r].cred] # "valid"]_authVars

=============================================================================
