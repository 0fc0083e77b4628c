------------------------------ MODULE Installer ------------------------------
(***************************************************************************)
(* The installer (tools/liteboxd-installer): apply and resume, which run   *)
(* the same list of steps from its beginning, node remove, the state file  *)
(* they mark each step in, and the hosts and the cluster they change over  *)
(* SSH.  An installer may be killed and a remote command may fail at any   *)
(* point; the operator then edits the configuration, or not, and runs a    *)
(* command again.  What the steps skip is decided by looking at the hosts  *)
(* and the cluster, never by the state file, whose records nobody reads:   *)
(* all that is kept of it is whether it can be parsed.                     *)
(*                                                                         *)
(* Every part of the configuration that is a version, a setting or the     *)
(* content of a file is the number conf.version, and which parts are       *)
(* switched on at all depends on that number.                              *)
(***************************************************************************)
EXTENDS Naturals, Sequences, FiniteSets

CONSTANTS Master,             \* the host of the K3s server
          Agents,             \* the hosts of K3s agents
          AgentLists,         \* the lists of agents that may be configured
          RemoveAbsentAgents, \* runtime.removeAbsentAgents
          WithoutMirrors,     \* the versions with an empty cluster.registries.mirrors
          WithoutLonghorn,    \* ... with storage.longhorn.enabled off
          WithoutSandbox,     \* ... with liteboxd.deploySandboxResources off
          MaxVersion,         \* bound on the configurations
          MaxCommands,        \* bound on the commands that are run
          MaxInstFaults       \* bound on kills, reboots and failed commands

Charts == {"install_cilium", "install_longhorn"}

ASSUME InstallerAssumption ==
    /\ Master \notin Agents /\ ({Master} \cup Agents) \cap Charts = {}
    /\ AgentLists \subseteq SUBSET Agents /\ RemoveAbsentAgents \in BOOLEAN
    /\ WithoutMirrors \cup WithoutLonghorn \cup WithoutSandbox \subseteq Nat
    /\ {MaxVersion, MaxCommands, MaxInstFaults} \subseteq Nat /\ MaxVersion > 0

VARIABLES
    conf,     \* the configuration file: [version, agents]
    file,     \* the state file: "absent", "whole" or "torn"
    cmd,      \* the command that runs: its steps left, and where it is in the first
    hosts,    \* [active : with K3s running, registries and loaded : a version for each host, iscsi,
              \*  missed : where the last command downloaded no K3s (history)]
    nodes,    \* the agents that have a Node object
    release,  \* the version of each release in the cluster, 0 when there is none
    recorded, \* the fingerprint kept of each chart
    cutOff,   \* hosts and charts whose script stopped between its change and its last line
    applied,  \* the last command was a full apply of conf, and it succeeded
    commands, instFaults

instVars == <<conf, file, cmd, hosts, nodes, release, recorded, cutOff, applied, commands, instFaults>>

InstHosts == {Master} \cup Agents
Overlays == {"system", "sandbox"}
Versions == 1..MaxVersion

HasMirrors == conf.version \notin WithoutMirrors
HasLonghorn == conf.version \notin WithoutLonghorn
HasSandbox == conf.version \notin WithoutSandbox

NoCommand == [steps |-> <<>>, stage |-> "mark", todo |-> {}, failed |-> FALSE, full |-> FALSE]

InstallerInit ==
    /\ conf \in [version : {1}, agents : AgentLists]
    /\ file = "absent"
    /\ cmd = NoCommand
    /\ hosts = [active |-> {}, registries |-> [h \in InstHosts |-> 0], loaded |-> [h \in InstHosts |-> 0],
                iscsi |-> {}, missed |-> {}]
    /\ nodes = {}
    /\ release = [c \in Charts \cup Overlays |-> 0]
    /\ recorded = [c \in Charts |-> 0]
    /\ cutOff = {} /\ applied = FALSE /\ commands = 0 /\ instFaults = 0

(***************************************************************************)
(* Commands.                                                               *)
(***************************************************************************)
ClusterSteps ==
    <<"precheck", "configure_registries", "install_master", "install_cilium", "read_k3s_token",
      "join_agents", "wait_nodes_ready">>
    \o (IF RemoveAbsentAgents THEN <<"reconcile_remove_absent_agents">> ELSE <<>>)
    \o <<"install_longhorn">>

DeploySteps == <<"deploy_liteboxd", "rollout_check">>

\* Apply, with neither flag, with --cluster-only or with --liteboxd-only.
Plans == {ClusterSteps \o DeploySteps, ClusterSteps, <<"precheck_cluster_connection">> \o DeploySteps}

\* LoadOrCreate fails on a state file that it cannot parse.
Launch(steps, todo) ==
    /\ cmd.steps = <<>> /\ file # "torn" /\ commands < MaxCommands
    /\ cmd' = [NoCommand EXCEPT !.steps = steps, !.todo = todo, !.full = Head(steps) = "precheck" /\ steps # ClusterSteps]
    /\ commands' = commands + 1 /\ applied' = FALSE
    /\ hosts' = [hosts EXCEPT !.missed = {}]
    /\ UNCHANGED <<conf, file, nodes, release, recorded, cutOff, instFaults>>

\* apply and resume.
runApply == \E steps \in Plans : Launch(steps, {})

\* node remove of one configured agent.
RemoveNodes == \E a \in conf.agents : Launch(<<"node_remove">>, {a})

\* The operator edits the configuration, or removes a state file that stops every command.
EditConfig ==
    /\ cmd.steps = <<>> /\ commands < MaxCommands
    /\ \E v \in Versions, as \in AgentLists : conf' = [version |-> v, agents |-> as]
    /\ conf' # conf /\ applied' = FALSE
    /\ UNCHANGED <<file, cmd, hosts, nodes, release, recorded, cutOff, commands, instFaults>>

RemoveStateFile ==
    /\ cmd.steps = <<>> /\ file = "torn" /\ file' = "absent"
    /\ UNCHANGED <<conf, cmd, hosts, nodes, release, recorded, cutOff, applied, commands, instFaults>>

(***************************************************************************)
(* runStep.                                                                *)
(***************************************************************************)
AtStep(step) == cmd.steps # <<>> /\ Head(cmd.steps) = step /\ cmd.stage # "mark"

\* The hosts that a step visits; Precheck, ConfigureRegistriesAllNodes and
\* InstallOrUpgradeLonghorn begin with the master, and the last two return at
\* once when there are no mirrors, or no Longhorn, in the configuration.
Visits(step) ==
    IF \/ step = "configure_registries" /\ ~HasMirrors
       \/ step = "install_longhorn" /\ ~HasLonghorn
    THEN {}
    ELSE IF step \in {"precheck", "configure_registries", "install_longhorn"} THEN {Master} \cup conf.agents
    ELSE IF step = "join_agents" THEN conf.agents
    ELSE IF step = "reconcile_remove_absent_agents" THEN nodes \ conf.agents
    ELSE cmd.todo

\* The state file is saved: the step is running, and the one before it done.
Mark ==
    /\ cmd.steps # <<>> /\ cmd.stage = "mark"
    /\ file' = "whole"
    /\ cmd' = [cmd EXCEPT !.stage = "run", !.todo = Visits(Head(cmd.steps))]
    /\ UNCHANGED <<conf, hosts, nodes, release, recorded, cutOff, applied, commands, instFaults>>

Done ==
    /\ cmd' = IF Len(cmd.steps) = 1 THEN NoCommand
              ELSE [cmd EXCEPT !.steps = Tail(@), !.stage = "mark", !.todo = {}]
    /\ applied' = (Len(cmd.steps) = 1 /\ cmd.full)

Stage(s) == cmd' = [cmd EXCEPT !.stage = s] /\ UNCHANGED applied

\* A step returns an error, which ends the command.
Failed == cmd' = NoCommand /\ UNCHANGED applied

Fault == instFaults < MaxInstFaults /\ instFaults' = instFaults + 1

\* The installer is killed, or a save fails; WriteFile truncates the file first.
Dies ==
    /\ cmd.steps # <<>> /\ Fault /\ Failed
    /\ file' \in IF cmd.stage = "mark" THEN {file, "torn"} ELSE {file}
    /\ UNCHANGED <<conf, hosts, nodes, release, recorded, cutOff, commands>>

\* A command on the master fails; what it had done is in the action of its step.
CommandFails ==
    /\ cmd.steps # <<>> /\ cmd.stage # "mark" /\ cmd.todo = {} /\ Fault /\ Failed
    /\ Head(cmd.steps) \notin {"precheck", "configure_registries", "join_agents"}
    /\ UNCHANGED <<conf, file, hosts, nodes, release, recorded, cutOff, commands>>

(***************************************************************************)
(* Steps that visit hosts, agents in parallel and all of them, even when   *)
(* one fails.                                                              *)
(***************************************************************************)
\* K3s starts on h: it reads registries.yaml, and an agent registers its node.
StartK3s(h) ==
    /\ hosts' = [hosts EXCEPT !.active = @ \cup {h}, !.missed = @ \ {h}, !.loaded[h] = hosts.registries[h]]
    /\ nodes' = IF h = Master THEN nodes ELSE nodes \cup {h}
    /\ cutOff' = cutOff \ {h}

\* applyRegistriesConfig: a changed file is copied, and K3s restarted if it is there.
applyRegistriesConfig(h) ==
    LET changed == hosts.registries[h] # conf.version
        restart == changed /\ h \in hosts.active
    IN  /\ hosts' = [hosts EXCEPT !.registries[h] = conf.version,
                                  !.loaded[h] = IF restart THEN conf.version ELSE @]
        /\ nodes' = IF restart /\ h # Master THEN nodes \cup {h} ELSE nodes
        /\ cutOff' = IF restart THEN cutOff \ {h} ELSE cutOff

\* The script copies the file and gets no further.
CopiedOnly(h) ==
    /\ hosts.registries[h] # conf.version
    /\ hosts' = [hosts EXCEPT !.registries[h] = conf.version]
    /\ cutOff' = IF h \in hosts.active THEN cutOff \cup {h} ELSE cutOff
    /\ UNCHANGED nodes

\* The service runs, or K3s is installed; see NothingFetched for the third outcome.
ensureAgentJoined(h) == IF h \in hosts.active THEN UNCHANGED <<hosts, nodes, cutOff>> ELSE StartK3s(h)

longhornPrerequisites(h) == hosts' = [hosts EXCEPT !.iscsi = @ \cup {h}] /\ UNCHANGED <<nodes, cutOff>>

VisitTurn(h) == cmd.stage = "run" /\ h \in cmd.todo /\ (Master \in cmd.todo => h = Master)

Visit(h) ==
    /\ VisitTurn(h)
    /\ \/ AtStep("precheck") /\ UNCHANGED <<hosts, nodes, cutOff>>
       \/ AtStep("configure_registries") /\ applyRegistriesConfig(h)
       \/ AtStep("join_agents") /\ ensureAgentJoined(h)
       \/ AtStep("install_longhorn") /\ longhornPrerequisites(h)
    /\ cmd' = [cmd EXCEPT !.todo = @ \ {h}]
    /\ UNCHANGED <<conf, file, release, recorded, applied, commands, instFaults>>

\* An error on the master returns at once, one on an agent once all are done.
VisitFails(h) ==
    /\ VisitTurn(h) /\ Fault
    /\ Head(cmd.steps) \in {"precheck", "configure_registries", "join_agents", "install_longhorn"}
    /\ \/ UNCHANGED <<hosts, nodes, cutOff>>
       \/ AtStep("configure_registries") /\ CopiedOnly(h)
       \/ AtStep("join_agents") /\ h \notin hosts.active /\ StartK3s(h)
    /\ IF h = Master THEN Failed
       ELSE cmd' = [cmd EXCEPT !.todo = @ \ {h}, !.failed = TRUE] /\ UNCHANGED applied
    /\ UNCHANGED <<conf, file, release, recorded, commands>>

\* wg.Wait is over: the first error, if any, is the step's.
AllVisited ==
    /\ cmd.todo = {}
    /\ \/ AtStep("precheck") \/ AtStep("configure_registries") \/ AtStep("join_agents")
       \/ AtStep("install_longhorn") /\ cmd.failed
    /\ IF cmd.failed THEN Failed ELSE Done
    /\ UNCHANGED <<conf, file, hosts, nodes, release, recorded, cutOff, commands, instFaults>>

\* The installation of K3s is curl -sfL ... | sh - without pipefail: when the
\* download fails, sh has nothing to run, and the command succeeds.
NothingFetched(h) ==
    /\ h \notin hosts.active /\ Fault
    /\ hosts' = [hosts EXCEPT !.missed = @ \cup {h}]
    /\ \/ AtStep("join_agents") /\ VisitTurn(h) /\ cmd' = [cmd EXCEPT !.todo = @ \ {h}] /\ UNCHANGED applied
       \/ AtStep("install_master") /\ h = Master /\ Done
    /\ UNCHANGED <<conf, file, nodes, release, recorded, cutOff, commands>>

(***************************************************************************)
(* Steps on the master.                                                    *)
(***************************************************************************)
\* K3s is installed unless its service is active, in whatever version (or
\* NothingFetched, and the charts fail).
InstallOrCheckMaster ==
    /\ AtStep("install_master")
    /\ IF Master \in hosts.active THEN UNCHANGED <<hosts, nodes, cutOff>> ELSE StartK3s(Master)
    /\ (Done /\ UNCHANGED instFaults) \/ (Failed /\ Fault)
    /\ UNCHANGED <<conf, file, release, recorded, commands>>

\* The chart is skipped as soon as it is installed.
SkipInstalled(c) == release[c] # 0

\* A chart that is installed with the fingerprint that is asked for is skipped.
UpToDate(c) == release[c] # 0 /\ recorded[c] = conf.version

ReadFingerprint(c) ==
    /\ AtStep(c) /\ cmd.stage = "run" /\ cmd.todo = {} /\ ~cmd.failed
    /\ IF UpToDate(c) \/ (c = "install_longhorn" /\ ~HasLonghorn) THEN Done ELSE Stage("upgrade")
    /\ UNCHANGED <<conf, file, hosts, nodes, release, recorded, cutOff, commands, instFaults>>

\* cilium install or upgrade, helm upgrade --install, which need a cluster.
Upgrade(c) ==
    /\ AtStep(c) /\ cmd.stage = "upgrade"
    /\ \/ /\ Master \in hosts.active
          /\ release' = [release EXCEPT ![c] = conf.version]
          /\ cutOff' = cutOff \cup {c}
          /\ Stage("rollout")
       \/ Master \notin hosts.active /\ Failed /\ UNCHANGED <<release, cutOff>>
    /\ UNCHANGED <<conf, file, hosts, nodes, recorded, commands, instFaults>>

\* The rollout is complete, and the fingerprint is written last.
RecordFingerprint(c) ==
    /\ AtStep(c) /\ cmd.stage = "rollout"
    /\ recorded' = [recorded EXCEPT ![c] = conf.version]
    /\ cutOff' = cutOff \ {c}
    /\ Done
    /\ UNCHANGED <<conf, file, hosts, nodes, release, commands, instFaults>>

\* Steps that change nothing: the token is read and kept in memory; a node
\* that is NotReady matches /Ready/ too, and an error lists no node, so that
\* WaitNodesReady waits for nothing; rolloutCheck waits until it is so.
ReadOnlyStep ==
    /\ AtStep("read_k3s_token") \/ AtStep("wait_nodes_ready") \/ AtStep("rollout_check")
    /\ Done
    /\ UNCHANGED <<conf, file, hosts, nodes, release, recorded, cutOff, commands, instFaults>>

precheckClusterConnection ==
    /\ AtStep("precheck_cluster_connection")
    /\ IF Master \in hosts.active THEN Done ELSE Failed
    /\ UNCHANGED <<conf, file, hosts, nodes, release, recorded, cutOff, commands, instFaults>>

\* deployLiteBoxd: kubectl apply of the one overlay and then, if it is asked
\* for, of the other.
Apply(overlay) ==
    /\ AtStep("deploy_liteboxd")
    /\ cmd.stage = (IF overlay = "system" THEN "run" ELSE "sandbox")
    /\ release' = [release EXCEPT ![overlay] = conf.version]
    /\ IF overlay = "system" /\ HasSandbox THEN Stage("sandbox") ELSE Done
    /\ UNCHANGED <<conf, file, hosts, nodes, recorded, cutOff, commands, instFaults>>

(***************************************************************************)
(* Nodes.                                                                  *)
(***************************************************************************)
\* removeNodeByHost: cordon, drain and delete the node, which has to be
\* there; node remove then uninstalls the agent, reconciling does not.
DeleteNode(a) ==
    /\ AtStep("node_remove") \/ AtStep("reconcile_remove_absent_agents")
    /\ cmd.stage = "run" /\ a \in cmd.todo
    /\ nodes' = nodes \ {a}
    /\ IF a \notin nodes THEN Failed
       ELSE IF AtStep("node_remove") THEN Stage("uninstall")
       ELSE cmd' = [cmd EXCEPT !.todo = @ \ {a}] /\ UNCHANGED applied
    /\ UNCHANGED <<conf, file, hosts, release, recorded, cutOff, commands, instFaults>>

ReconcileEnds ==
    /\ AtStep("reconcile_remove_absent_agents") /\ cmd.todo = {} /\ Done
    /\ UNCHANGED <<conf, file, hosts, nodes, release, recorded, cutOff, commands, instFaults>>

\* k3s-agent-uninstall.sh removes the service and /etc/rancher/k3s.
UninstallAgent(a) ==
    /\ AtStep("node_remove") /\ cmd.stage = "uninstall" /\ a \in cmd.todo
    /\ hosts' = [hosts EXCEPT !.active = @ \ {a}, !.registries[a] = 0, !.loaded[a] = 0]
    /\ cutOff' = cutOff \ {a}
    /\ Done
    /\ UNCHANGED <<conf, file, nodes, release, recorded, commands, instFaults>>

\* A command on the master or the way to the agent fails.
RemovalFails ==
    /\ AtStep("node_remove") \/ AtStep("reconcile_remove_absent_agents")
    /\ cmd.todo # {} /\ Fault /\ Failed
    /\ UNCHANGED <<conf, file, hosts, nodes, release, recorded, cutOff, commands>>

\* A host is rebooted, and K3s starts again.
Reboot(h) ==
    /\ h \in hosts.active /\ Fault /\ StartK3s(h)
    /\ UNCHANGED <<conf, file, cmd, release, recorded, applied, commands>>

InstallerNext ==
    \/ runApply \/ RemoveNodes \/ EditConfig \/ RemoveStateFile
    \/ Mark \/ Dies \/ CommandFails \/ AllVisited
    \/ \E h \in InstHosts : Visit(h) \/ VisitFails(h) \/ NothingFetched(h) \/ Reboot(h)
    \/ \E a \in Agents : DeleteNode(a) \/ UninstallAgent(a)
    \/ InstallOrCheckMaster \/ ReadOnlyStep \/ precheckClusterConnection \/ ReconcileEnds \/ RemovalFails
    \/ \E c \in Charts : ReadFingerprint(c) \/ Upgrade(c) \/ RecordFingerprint(c)
    \/ \E o \in Overlays : Apply(o)

InstallerSpec == InstallerInit /\ [][InstallerNext]_instVars

(***************************************************************************)
(* Properties.                                                             *)
(***************************************************************************)
InstallerTypeOK ==
    /\ conf \in [version : Versions, agents : AgentLists]
    /\ file \in {"absent", "whole", "torn"}
    /\ cmd.todo \subseteq InstHosts /\ {cmd.failed, cmd.full} \subseteq BOOLEAN
    /\ cmd.stage \in {"mark", "run", "upgrade", "rollout", "sandbox", "uninstall"}
    /\ hosts \in [active : SUBSET InstHosts, registries : [InstHosts -> 0..MaxVersion],
                  loaded : [InstHosts -> 0..MaxVersion], iscsi : SUBSET InstHosts, missed : SUBSET InstHosts]
    /\ nodes \subseteq Agents
    /\ release \in [Charts \cup Overlays -> 0..MaxVersion] /\ recorded \in [Charts -> 0..MaxVersion]
    /\ cutOff \subseteq InstHosts \cup Charts /\ applied \in BOOLEAN
    /\ commands \in 0..MaxCommands /\ instFaults \in 0..MaxInstFaults

\* An apply that succeeds, whatever failed, died or was configured before it,
\* leaves the hosts and the cluster as configured: K3s runs on the master, and
\* on every agent but those whose installation downloaded nothing in this very
\* apply (missed); the packages for Longhorn are on every host; the registries
\* are those of the configuration and in use; and charts and workloads have
\* its version.  Of what the configuration leaves out (mirrors, Longhorn, the
\* sandbox namespace) nothing is said: what an earlier one installed stays.
\* Excepted too is what an earlier script changed without reaching its last
\* line (cutOff).
ApplyInstalls ==
    applied =>
        /\ Master \in hosts.active /\ conf.agents \subseteq hosts.active \cup hosts.missed
        /\ HasMirrors => \A h \in {Master} \cup conf.agents :
              /\ hosts.registries[h] = conf.version
              /\ h \in hosts.active \ cutOff => hosts.loaded[h] = conf.version
        /\ HasLonghorn => {Master} \cup conf.agents \subseteq hosts.iscsi
        /\ \A c \in Charts : (c = "install_longhorn" => HasLonghorn) => c \in cutOff \/ release[c] = conf.version
        /\ release["system"] = conf.version /\ (HasSandbox => release["sandbox"] = conf.version)

\* README.md of the installer: the configured agents join the cluster, and an
\* apply after an edit of cluster.agents extends it.  The code does not keep it:
\* the apply succeeds when the install script of an agent could not be fetched.
\* TLC refutes it as an invariant of ControlPlane.cfg.
AgentsAreJoined == applied => conf.agents \subseteq hosts.active

=============================================================================
