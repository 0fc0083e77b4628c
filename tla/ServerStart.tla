----------------------------- MODULE ServerStart -----------------------------
(***************************************************************************)
(* The start of the processes that share the database file: InitDB with    *)
(* createTables and ensureSandboxColumns (store/sqlite.go), EnsureAdmin    *)
(* (auth/admin.go) and the main functions around them, which end the       *)
(* process on any error; Kubernetes starts it again.                       *)
(*                                                                         *)
(* The file may be new, or hold the sandboxes table of an older version,   *)
(* or the processes are up already and one of them ends and starts again.  *)
(* Each statement is a step, and other processes run theirs in between.    *)
(***************************************************************************)
EXTENDS Naturals, FiniteSets

CONSTANTS Processes,       \* the processes that start
          APIServers,      \* those that are API servers
          NewColumns,      \* columns of today's sandboxes table
          LateColumns,     \* those that CREATE TABLE leaves to the migration
          MaxStartCrashes  \* bound on processes that die for other reasons

ASSUME StartAssumption ==
    /\ APIServers \subseteq Processes /\ LateColumns \subseteq NewColumns
    /\ MaxStartCrashes \in Nat

VARIABLES
    schema,   \* [table : there?, columns, index : the unique index on key_hash]
    admins,   \* the passwords in admin_users, "env" or "own", one per row
    at,       \* the next statement of each process
    missing,  \* the columns each still means to add
    startCrashes

startVars == <<schema, admins, at, missing, startCrashes>>

StartInit ==
    /\ schema \in {[table |-> FALSE, columns |-> {}, index |-> FALSE],
                   [table |-> TRUE, columns |-> {}, index |-> FALSE],
                   [table |-> TRUE, columns |-> NewColumns, index |-> TRUE]}
    /\ admins = IF schema.index THEN {"own"} ELSE {}
    /\ at = [p \in Processes |-> IF schema.index THEN "up" ELSE "tables"]
    /\ missing = [p \in Processes |-> {}]
    /\ startCrashes = 0

Goto(p, step) == at' = [at EXCEPT ![p] = step]

\* CREATE TABLE IF NOT EXISTS, and the indexes like it.
CreateTables(p) ==
    /\ at[p] = "tables"
    /\ schema' = IF schema.table THEN schema
                 ELSE [schema EXCEPT !.table = TRUE, !.columns = NewColumns \ LateColumns]
    /\ Goto(p, "inspect")
    /\ UNCHANGED <<admins, missing, startCrashes>>

\* Every column is taken for missing.
AllColumns(p) == NewColumns

\* PRAGMA table_info: the columns that the table does not have now.
MissingColumns(p) == NewColumns \ schema.columns

InspectColumns(p) ==
    /\ at[p] = "inspect"
    /\ missing' = [missing EXCEPT ![p] = MissingColumns(p)]
    /\ Goto(p, "alter")
    /\ UNCHANGED <<schema, admins, startCrashes>>

\* ALTER TABLE ADD COLUMN, in the order of a Go map; a column that another
\* process has added in the meantime is an error.
AddColumn(p, c) ==
    /\ at[p] = "alter" /\ c \in missing[p]
    /\ missing' = [missing EXCEPT ![p] = IF c \in schema.columns THEN {} ELSE @ \ {c}]
    /\ schema' = [schema EXCEPT !.columns = @ \cup {c}]
    /\ at' = [at EXCEPT ![p] = IF c \in schema.columns THEN "dead" ELSE @]
    /\ UNCHANGED <<admins, startCrashes>>

\* The index on key_hash is dropped in case it is the old one ...
DropIndex(p) ==
    /\ at[p] = "alter" /\ missing[p] = {}
    /\ schema' = [schema EXCEPT !.index = FALSE]
    /\ Goto(p, "index")
    /\ UNCHANGED <<admins, missing, startCrashes>>

\* ... and created as a unique one.
CreateIndex(p) ==
    /\ at[p] = "index"
    /\ schema' = [schema EXCEPT !.index = TRUE]
    /\ Goto(p, IF p \in APIServers THEN "count" ELSE "up")
    /\ UNCHANGED <<admins, missing, startCrashes>>

\* EnsureAdmin looks whether there is an administrator.
AdminCount(p) ==
    /\ at[p] = "count"
    /\ Goto(p, IF admins = {} THEN "create" ELSE "password")
    /\ UNCHANGED <<schema, admins, missing, startCrashes>>

\* UNIQUE(username) refuses the second of two that counted none.
CreateAdmin(p) ==
    /\ at[p] = "create"
    /\ Goto(p, IF admins = {} THEN "up" ELSE "dead")
    /\ admins' = IF admins = {} THEN {"env"} ELSE admins
    /\ UNCHANGED <<schema, missing, startCrashes>>

\* A password in the environment, other than the default one, replaces the
\* administrator's at every start; without one it is left alone.
UpdateAdminPassword(p) ==
    /\ at[p] = "password"
    /\ admins' \in {{"env"}, admins}
    /\ Goto(p, "up")
    /\ UNCHANGED <<schema, missing, startCrashes>>

\* Kubernetes restarts a container that has ended.
Restarted(p) ==
    /\ at[p] = "dead"
    /\ Goto(p, "tables")
    /\ UNCHANGED <<schema, admins, missing, startCrashes>>

Crash(p) ==
    /\ at[p] # "dead" /\ startCrashes < MaxStartCrashes
    /\ startCrashes' = startCrashes + 1
    /\ Goto(p, "dead")
    /\ missing' = [missing EXCEPT ![p] = {}]
    /\ UNCHANGED <<schema, admins>>

\* The administrator changes the password (handler/auth.go).
PasswordChanged ==
    /\ admins = {"env"} /\ \E p \in APIServers : at[p] = "up"
    /\ admins' = {"own"}
    /\ UNCHANGED <<schema, at, missing, startCrashes>>

Starts(p) ==
    \/ CreateTables(p) \/ InspectColumns(p) \/ DropIndex(p) \/ CreateIndex(p)
    \/ AdminCount(p) \/ CreateAdmin(p) \/ UpdateAdminPassword(p) \/ Restarted(p)
    \/ \E c \in NewColumns : AddColumn(p, c)

StartNext == PasswordChanged \/ \E p \in Processes : Starts(p) \/ Crash(p)

StartSpec == StartInit /\ [][StartNext]_startVars

-----------------------------------------------------------------------------
StartTypeOK ==
    /\ schema \in [table : BOOLEAN, columns : SUBSET NewColumns, index : BOOLEAN]
    /\ admins \in {{}, {"env"}, {"own"}}
    /\ at \in [Processes -> {"tables", "inspect", "alter", "index", "count", "create", "password", "up", "dead"}]
    /\ missing \in [Processes -> SUBSET NewColumns]

\* However the processes' statements interleave on a new or an old file, and
\* although those that lose a race end themselves, all of them are up in the
\* end, on a table with all its columns, with the unique index in place and an
\* administrator to log in as.
EveryProcessComesUp ==
    <>[](/\ \A p \in Processes : at[p] = "up"
         /\ schema = [table |-> TRUE, columns |-> NewColumns, index |-> TRUE]
         /\ APIServers # {} => Cardinality(admins) = 1)

=============================================================================
