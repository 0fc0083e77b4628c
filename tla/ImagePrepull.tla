---------------------------- MODULE ImagePrepull ----------------------------
(***************************************************************************)
(* Prepull tasks of one image: service/prepull.go, store/prepull.go and    *)
(* the Job functions of k8s/client.go.                                     *)
(*                                                                         *)
(* A task is a row with a status and a Kubernetes Job named after its id.  *)
(* The request that creates it writes the row, creates the Job and writes  *)
(* the row again; the status updater, and every Get and List of an active  *)
(* task, read the Job and write the row too, and no write looks at what it *)
(* overwrites.                                                             *)
(***************************************************************************)
EXTENDS Naturals, FiniteSets

CONSTANTS MaxTasks,      \* bound on the requests for the image
          PrepullReaders, \* Get and List requests
          PrepullNodes   \* the nodes of the cluster, all of them ready

ASSUME PrepullAssumption ==
    MaxTasks \in Nat \ {0} /\ "updater" \notin PrepullReaders /\ PrepullNodes # {}

Tasks == 1 .. MaxTasks \* a request and its task, in the order of the checks

Lookers == {"updater"} \cup PrepullReaders

VARIABLES
    ppRows,   \* the status column, "none" before the INSERT and after DELETE
    ppJobs,   \* the Job of each task
    ppCreate, \* where the request that creates the task stands
    ppLook,   \* what each looker holds: a task, and how its Job looked
    ppDelete, \* the task a DELETE request is about, and its next step
    ppPulled  \* history: the nodes that the pods of a task's Job ran on, once all have succeeded

ppVars == <<ppRows, ppJobs, ppCreate, ppLook, ppDelete, ppPulled>>

NotLooking == [task |-> 0, saw |-> "nothing"]

NotDeleting == [task |-> 0, next |-> "none"]

PrepullInit ==
    /\ ppRows = [t \in Tasks |-> "none"]
    /\ ppJobs = [t \in Tasks |-> "none"]
    /\ ppCreate = [t \in Tasks |-> "check"]
    /\ ppLook = [l \in Lookers |-> NotLooking]
    /\ ppDelete = NotDeleting
    /\ ppPulled = [t \in Tasks |-> {}]

ActivePrepull(t) == ppRows[t] \in {"pending", "pulling"}

\* UPDATE ... WHERE id = ?: nothing happens to a row that is gone.
UpdateStatus(t, status) ==
    ppRows' = [ppRows EXCEPT ![t] = IF @ = "none" THEN @ ELSE status]

-----------------------------------------------------------------------------
(* PrepullService.Create. *)

\* An active task of the image turns the request down.
GetActiveByImage(t) ==
    /\ ppCreate[t] = "check" /\ \A u \in 1 .. t - 1 : ppCreate[u] # "check"
    /\ ppCreate' = [ppCreate EXCEPT ![t] = IF \E u \in Tasks : ActivePrepull(u) THEN "done" ELSE "insert"]
    /\ UNCHANGED <<ppRows, ppJobs, ppLook, ppDelete, ppPulled>>

InsertPrepull(t) ==
    /\ ppCreate[t] = "insert"
    /\ ppRows' = [ppRows EXCEPT ![t] = "pending"]
    /\ ppCreate' = [ppCreate EXCEPT ![t] = "job"]
    /\ UNCHANGED <<ppJobs, ppLook, ppDelete, ppPulled>>

\* The Job is created or the API server refuses it; a call that times out may
\* have created it all the same.  It asks for as many pods as nodes are ready,
\* or for one when the nodes cannot be listed, and does not say where they run.
CreatePrepullDaemonSet(t) ==
    /\ ppCreate[t] = "job"
    /\ \E created, told \in BOOLEAN :
        /\ told => created
        /\ ppJobs' = [ppJobs EXCEPT ![t] = IF created THEN "running" ELSE @]
        /\ ppCreate' = [ppCreate EXCEPT ![t] = IF told THEN "pulling" ELSE "failed"]
    /\ UNCHANGED <<ppRows, ppLook, ppDelete, ppPulled>>

\* The outcome is written, unless the write fails (its error is ignored), as
\* when the client has gone and its context is cancelled.
MarkCreated(t) ==
    /\ ppCreate[t] \in {"pulling", "failed"}
    /\ \/ UpdateStatus(t, ppCreate[t])
       \/ UNCHANGED ppRows
    /\ ppCreate' = [ppCreate EXCEPT ![t] = "done"]
    /\ UNCHANGED <<ppJobs, ppLook, ppDelete, ppPulled>>

-----------------------------------------------------------------------------
(* updateStatusFromK8s, for a row that was active when it was read. *)

LookAt(l, t) ==
    /\ ppLook[l] = NotLooking
    /\ ActivePrepull(t)
    /\ ppLook' = [ppLook EXCEPT ![l] = [task |-> t, saw |-> "nothing"]]
    /\ UNCHANGED <<ppRows, ppJobs, ppCreate, ppDelete, ppPulled>>

\* A Job that stopped is taken for one that is done.
JobEnded(t) == ppJobs[t] \in {"succeeded", "failed"}

\* Succeeded >= Completions.
IsComplete(t) == ppJobs[t] = "succeeded"

\* A call that fails otherwise writes nothing: it is as good as no look.
GetPrepullStatus(l) ==
    LET t == ppLook[l].task IN
    /\ t \in Tasks /\ ppLook[l].saw = "nothing"
    /\ ppLook' = [ppLook EXCEPT ![l].saw = IF ppJobs[t] = "none" THEN "failed"
                                           ELSE IF IsComplete(t) THEN "completed" ELSE "pulling"]
    /\ UNCHANGED <<ppRows, ppJobs, ppCreate, ppDelete, ppPulled>>

\* A Job that is not there is left for a later look.
WriteIfFound(l) ==
    /\ ppLook[l].saw # "nothing"
    /\ \/ ppLook[l].saw # "failed" /\ UpdateStatus(ppLook[l].task, ppLook[l].saw)
       \/ ppLook[l].saw = "failed" /\ UNCHANGED ppRows
    /\ ppLook' = [ppLook EXCEPT ![l] = NotLooking]
    /\ UNCHANGED <<ppJobs, ppCreate, ppDelete, ppPulled>>

WriteStatus(l) ==
    /\ ppLook[l].saw # "nothing"
    /\ UpdateStatus(ppLook[l].task, ppLook[l].saw)
    /\ ppLook' = [ppLook EXCEPT ![l] = NotLooking]
    /\ UNCHANGED <<ppJobs, ppCreate, ppDelete, ppPulled>>

-----------------------------------------------------------------------------
(* PrepullService.Delete and the hourly clean-up. *)

DeletePrepull(t) ==
    /\ ppDelete = NotDeleting /\ ppRows[t] # "none"
    /\ ppDelete' = [task |-> t, next |-> "job"]
    /\ UNCHANGED <<ppRows, ppJobs, ppCreate, ppLook, ppPulled>>

\* A Job that is not there is fine; another error ends the request.
DeletePrepullDaemonSet ==
    /\ ppDelete.next = "job"
    /\ \/ /\ ppJobs' = [ppJobs EXCEPT ![ppDelete.task] = "none"]
          /\ ppDelete' = [ppDelete EXCEPT !.next = "row"]
       \/ ppDelete' = NotDeleting /\ UNCHANGED ppJobs
    /\ UNCHANGED <<ppRows, ppCreate, ppLook, ppPulled>>

DeleteRow ==
    /\ ppDelete.next = "row"
    /\ ppRows' = [ppRows EXCEPT ![ppDelete.task] = "none"]
    /\ ppDelete' = NotDeleting
    /\ UNCHANGED <<ppJobs, ppCreate, ppLook, ppPulled>>

CleanupCompletedPrepulls(t) ==
    /\ ppRows[t] = "completed" /\ ppJobs[t] # "none"
    /\ ppJobs' = [ppJobs EXCEPT ![t] = "none"]
    /\ UNCHANGED <<ppRows, ppCreate, ppLook, ppDelete, ppPulled>>

-----------------------------------------------------------------------------
(* The cluster, and the end of the server process. *)

\* The pods of the Job end, all well or, with BackoffLimit 0, one badly.  The
\* scheduler puts them on whatever nodes it likes, several on one or one on each.
JobFinishes(t) ==
    /\ ppJobs[t] = "running"
    /\ \/ /\ ppJobs' = [ppJobs EXCEPT ![t] = "succeeded"]
          /\ \E placed \in (SUBSET PrepullNodes) \ {{}} : ppPulled' = [ppPulled EXCEPT ![t] = placed]
       \/ /\ ppJobs' = [ppJobs EXCEPT ![t] = "failed"]
          /\ UNCHANGED ppPulled
    /\ UNCHANGED <<ppRows, ppCreate, ppLook, ppDelete>>

\* TTLSecondsAfterFinished.
JobExpires(t) ==
    /\ JobEnded(t)
    /\ ppJobs' = [ppJobs EXCEPT ![t] = "none"]
    /\ UNCHANGED <<ppRows, ppCreate, ppLook, ppDelete, ppPulled>>

\* The process ends in the middle of a request, which stays half done.
RequestDies ==
    \/ \E t \in Tasks :
        /\ ppCreate[t] \notin {"check", "done"}
        /\ ppCreate' = [ppCreate EXCEPT ![t] = "done"]
        /\ UNCHANGED <<ppRows, ppJobs, ppLook, ppDelete, ppPulled>>
    \/ /\ ppDelete # NotDeleting
       /\ ppDelete' = NotDeleting
       /\ UNCHANGED <<ppRows, ppJobs, ppCreate, ppLook, ppPulled>>

Looks == \E l \in Lookers : \/ \E t \in Tasks : LookAt(l, t)
                            \/ GetPrepullStatus(l) \/ WriteStatus(l)

PrepullNext ==
    \/ Looks
    \/ DeletePrepullDaemonSet \/ DeleteRow \/ RequestDies
    \/ \E t \in Tasks :
        \/ GetActiveByImage(t) \/ InsertPrepull(t) \/ CreatePrepullDaemonSet(t) \/ MarkCreated(t)
        \/ DeletePrepull(t) \/ CleanupCompletedPrepulls(t) \/ JobFinishes(t) \/ JobExpires(t)

PrepullSpec == PrepullInit /\ [][PrepullNext]_ppVars

\* The status updater runs every ten seconds and looks at every active task.
UpdaterGoesOn == GetPrepullStatus("updater") \/ WriteStatus("updater")

-----------------------------------------------------------------------------
PrepullTypeOK ==
    /\ ppRows \in [Tasks -> {"none", "pending", "pulling", "completed", "failed"}]
    /\ ppJobs \in [Tasks -> {"none", "running", "succeeded", "failed"}]
    /\ ppCreate \in [Tasks -> {"check", "insert", "job", "pulling", "failed", "done"}]
    /\ \A l \in Lookers : /\ ppLook[l].task \in Tasks \cup {0}
                          /\ ppLook[l].saw \in {"nothing", "pulling", "completed", "failed"}
    /\ ppPulled \in [Tasks -> SUBSET PrepullNodes]

\* A task shown as completed is one whose Job ran to its end: every pod it asked
\* for has pulled the image on its node, on one node of the cluster at least,
\* whatever the order of the writes of the request, the updater and the readers,
\* and although the Job itself may be long gone.
CompletedWasPulled == \A t \in Tasks : ppRows[t] = "completed" => ppPulled[t] # {}

\* That the image is then on every node is what design.md 10.2 of the templates
\* says ("on all nodes") and the code does not keep: nothing spreads the pods of
\* the Job over the nodes.  TLC refutes it as an invariant of ControlPlane.cfg.
CompletedIsEverywhere == \A t \in Tasks : ppRows[t] = "completed" => ppPulled[t] = PrepullNodes

\* No task stays active for ever once its Job has stopped running, is gone or
\* was never created: not when the server died between the row and the Job,
\* not when the last write of the request failed or came late, and not when
\* two requests both got past the check.  An active task is what keeps an
\* image from being pulled again.
PrepullSettles ==
    \A t \in Tasks : <>[](ppJobs[t] # "running") => <>[](~ActivePrepull(t))

=============================================================================
