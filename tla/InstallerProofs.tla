---------------------------- MODULE InstallerProofs --------------------------
(***************************************************************************)
(* Proofs about the installer, for any hosts, configurations, commands and *)
(* faults: an apply that succeeds installs what is configured, whatever    *)
(* failed before it.  The argument never looks at the order of the steps.  *)
(* A full apply has, of every step that is behind it, what that step       *)
(* leaves behind, and no later step of an apply takes it away; node remove *)
(* and an edit of the configuration could, and neither is part of one.     *)
(***************************************************************************)
EXTENDS Installer, SequenceTheorems, TLAPS

Steps ==
    {"precheck", "configure_registries", "install_master", "install_cilium", "read_k3s_token", "join_agents",
     "wait_nodes_ready", "reconcile_remove_absent_agents", "install_longhorn", "deploy_liteboxd",
     "rollout_check", "precheck_cluster_connection", "node_remove"}

VisitingSteps == {"precheck", "configure_registries", "join_agents", "install_longhorn"}

Stages == {"mark", "run", "upgrade", "rollout", "sandbox", "uninstall"}

CmdSet ==
    [steps : Seq(Steps), stage : Stages, todo : SUBSET InstHosts, failed : BOOLEAN, full : BOOLEAN]

HostSet ==
    [active : SUBSET InstHosts, registries : [InstHosts -> 0 .. MaxVersion],
     loaded : [InstHosts -> 0 .. MaxVersion], iscsi : SUBSET InstHosts, missed : SUBSET InstHosts]

Books ==
    /\ file \in {"absent", "whole", "torn"}
    /\ commands \in 0 .. MaxCommands /\ instFaults \in 0 .. MaxInstFaults

WorldTypes ==
    /\ conf \in [version : Versions, agents : AgentLists]
    /\ hosts \in HostSet /\ nodes \subseteq Agents
    /\ release \in [Charts \cup Overlays -> 0 .. MaxVersion] /\ recorded \in [Charts -> 0 .. MaxVersion]
    /\ cutOff \subseteq InstHosts \cup Charts

\* What runs and what was read are of one version unless a script was cut off,
\* and no chart was ever touched without a cluster.
LinkOK ==
    /\ \A h \in InstHosts : h \in hosts.active /\ h \notin cutOff => hosts.loaded[h] = hosts.registries[h]
    /\ \A c \in Charts : recorded[c] # 0 /\ c \notin cutOff => release[c] = recorded[c]
    /\ \A c \in Charts : c \in cutOff \/ release[c] # 0 => Master \in hosts.active

WorldOK == WorldTypes /\ LinkOK

Among(s, q) == \E i \in 1 .. Len(q) : q[i] = s

\* The command: a full apply never removes nodes, and an error on an agent is
\* remembered only within the step that visits it.
ShapeOK ==
    /\ applied => cmd.steps = <<>>
    /\ cmd.steps = <<>> => cmd.stage = "mark"
    /\ cmd.stage \in {"upgrade", "rollout"} => cmd.todo = {}
    /\ cmd.full => cmd.steps # <<>> /\ ~Among("node_remove", cmd.steps)
    /\ cmd.failed => cmd.steps # <<>> /\ cmd.steps[1] \in VisitingSteps /\ cmd.stage = "run"

Configured == {Master} \cup conf.agents

ChartIs(c) == c \in cutOff \/ release[c] = conf.version

Asked(c) == c = "install_longhorn" => HasLonghorn

\* What step s has done, but for the hosts that are still to be visited.
SoFar(s, todo) ==
    /\ s = "configure_registries" /\ HasMirrors => \A h \in Configured \ todo : hosts.registries[h] = conf.version
    /\ s = "join_agents" => conf.agents \ todo \subseteq hosts.active \cup hosts.missed
    /\ s = "install_longhorn" /\ HasLonghorn => Configured \ todo \subseteq hosts.iscsi

Midway(s, at) ==
    /\ s \in Charts /\ at = "rollout" => release[s] = conf.version
    /\ s = "deploy_liteboxd" /\ at = "sandbox" => release["system"] = conf.version

StepOK ==
    cmd.steps # <<>> /\ cmd.stage # "mark" =>
        /\ ~cmd.failed => SoFar(cmd.steps[1], cmd.todo)
        /\ Midway(cmd.steps[1], cmd.stage)

\* What a step leaves behind.
Result(s) ==
    /\ SoFar(s, {})
    /\ s \in Charts /\ Asked(s) => ChartIs(s)
    /\ s = "deploy_liteboxd" => release["system"] = conf.version /\ (HasSandbox => release["sandbox"] = conf.version)

\* A full apply has the results of the steps that are behind it.
ProgressOK == \A s \in Steps : (applied \/ cmd.full) /\ ~Among(s, cmd.steps) => Result(s)

CommandOK == cmd \in CmdSet /\ applied \in BOOLEAN /\ ShapeOK /\ StepOK /\ ProgressOK

InstInv == Books /\ WorldOK /\ CommandOK

-----------------------------------------------------------------------------
(* The lists of steps. *)

\* The steps of two lists, one after the other.
LEMMA AmongConcat ==
    ASSUME NEW q \in Seq(Steps), NEW r \in Seq(Steps), NEW s
    PROVE  q \o r \in Seq(Steps) /\ (Among(s, q \o r) <=> Among(s, q) \/ Among(s, r))
<1>1. /\ Len(q) \in Nat /\ Len(r) \in Nat /\ q \o r \in Seq(Steps) /\ Len(q \o r) = Len(q) + Len(r)
      /\ \A i \in 1 .. Len(q) : (q \o r)[i] = q[i]
      /\ \A i \in 1 .. Len(r) : (q \o r)[Len(q) + i] = r[i]
  BY ConcatProperties
<1>2. ASSUME Among(s, q \o r) PROVE Among(s, q) \/ Among(s, r)
  <2>1. PICK i \in 1 .. Len(q) + Len(r) : (q \o r)[i] = s
    BY <1>1, <1>2 DEF Among
  <2>2. CASE i <= Len(q)
    BY <1>1, <2>1, <2>2 DEF Among
  <2>3. CASE i > Len(q)
    <3>1. i - Len(q) \in 1 .. Len(r) /\ Len(q) + (i - Len(q)) = i
      BY <1>1, <2>1, <2>3
    <3> QED
      BY <1>1, <2>1, <3>1 DEF Among
  <2> QED
    BY <1>1, <2>1, <2>2, <2>3
<1>3. ASSUME Among(s, q) PROVE Among(s, q \o r)
  BY <1>1, <1>3 DEF Among
<1>4. ASSUME Among(s, r) PROVE Among(s, q \o r)
  <2>1. PICK i \in 1 .. Len(r) : r[i] = s
    BY <1>4 DEF Among
  <2>2. Len(q) + i \in 1 .. Len(q \o r)
    BY <1>1, <2>1
  <2> QED
    BY <1>1, <2>1, <2>2 DEF Among
<1> QED
  BY <1>1, <1>2, <1>3, <1>4

Wanted == {"configure_registries", "join_agents", "install_longhorn", "install_cilium", "deploy_liteboxd"}

\* A plan that begins with precheck and is not that of --cluster-only has every
\* step with a lasting result, and none has node_remove.
LEMMA PlanSteps ==
    ASSUME NEW steps \in Plans
    PROVE  /\ steps \in Seq(Steps) /\ steps # <<>> /\ ~Among("node_remove", steps)
           /\ Head(steps) = "precheck" /\ steps # ClusterSteps => \A s \in Wanted : Among(s, steps)
<1> DEFINE A == <<"precheck", "configure_registries", "install_master", "install_cilium", "read_k3s_token",
                  "join_agents", "wait_nodes_ready">>
           B == IF RemoveAbsentAgents THEN <<"reconcile_remove_absent_agents">> ELSE <<>>
           C == <<"install_longhorn">>
           E == <<"precheck_cluster_connection">>
<1>1. ClusterSteps = (A \o B) \o C
  BY DEF ClusterSteps
<1>2. /\ A \in Seq(Steps) /\ Len(A) = 7 /\ ~Among("node_remove", A)
      /\ \A s \in {"configure_registries", "install_cilium", "join_agents"} : Among(s, A)
  BY DEF Steps, Among
<1>3. B \in Seq(Steps) /\ ~Among("node_remove", B)
  <2>1. CASE RemoveAbsentAgents
    BY <2>1 DEF Steps, Among
  <2>2. CASE ~RemoveAbsentAgents
    BY <2>2 DEF Among
  <2> QED
    BY <2>1, <2>2
<1>4. C \in Seq(Steps) /\ ~Among("node_remove", C) /\ Among("install_longhorn", C)
  BY DEF Steps, Among
<1>5. DeploySteps \in Seq(Steps) /\ ~Among("node_remove", DeploySteps) /\ Among("deploy_liteboxd", DeploySteps)
  BY DEF Steps, Among, DeploySteps
<1>6. E \in Seq(Steps) /\ Len(E) = 1 /\ E[1] = "precheck_cluster_connection" /\ ~Among("node_remove", E)
  BY DEF Steps, Among
<1> HIDE DEF A, B, C, E
<1>7. A \o B \in Seq(Steps) /\ \A s : Among(s, A \o B) <=> Among(s, A) \/ Among(s, B)
  BY <1>2, <1>3, AmongConcat
<1>8. ClusterSteps \in Seq(Steps) /\ \A s : Among(s, ClusterSteps) <=> Among(s, A \o B) \/ Among(s, C)
  BY <1>1, <1>4, <1>7, AmongConcat
<1>9. /\ ClusterSteps \o DeploySteps \in Seq(Steps)
      /\ \A s : Among(s, ClusterSteps \o DeploySteps) <=> Among(s, ClusterSteps) \/ Among(s, DeploySteps)
  BY <1>5, <1>8, AmongConcat
<1>10. /\ E \o DeploySteps \in Seq(Steps)
       /\ \A s : Among(s, E \o DeploySteps) <=> Among(s, E) \/ Among(s, DeploySteps)
  BY <1>5, <1>6, AmongConcat
<1>11. \A q \in Seq(Steps) : q = <<>> => ~Among("deploy_liteboxd", q) /\ ~Among("install_longhorn", q)
  BY DEF Among
<1>12. CASE steps = ClusterSteps \o DeploySteps
  <2>1. ~Among("node_remove", steps)
    BY <1>2, <1>3, <1>4, <1>5, <1>7, <1>8, <1>9, <1>12
  <2>2. \A s \in Wanted : Among(s, steps)
    BY <1>2, <1>4, <1>5, <1>7, <1>8, <1>9, <1>12 DEF Wanted
  <2> QED
    BY <1>9, <1>11, <1>12, <2>1, <2>2 DEF Wanted
<1>13. CASE steps = ClusterSteps
  <2>1. ~Among("node_remove", steps) /\ Among("install_longhorn", steps)
    BY <1>2, <1>3, <1>4, <1>7, <1>8, <1>13
  <2> QED
    BY <1>8, <1>11, <1>13, <2>1
<1>14. CASE steps = E \o DeploySteps
  <2>1. ~Among("node_remove", steps) /\ Among("deploy_liteboxd", steps)
    BY <1>5, <1>6, <1>10, <1>14
  <2>2. Head(steps) = "precheck_cluster_connection"
    <3>1. (E \o DeploySteps)[1] = E[1]
      BY <1>5, <1>6, ConcatProperties
    <3> QED
      BY <1>6, <1>14, <3>1
  <2> QED
    BY <1>10, <1>11, <1>14, <2>1, <2>2
<1> QED
  BY <1>12, <1>13, <1>14 DEF Plans, E

-----------------------------------------------------------------------------
(* Hosts and cluster.  Keeps is what all steps of an apply have in common:   *)
(* nothing that is as configured stops being so.                             *)

Keeps ==
    /\ conf' = conf
    /\ hosts.active \cup hosts.missed \subseteq hosts'.active \cup hosts'.missed
    /\ hosts.iscsi \subseteq hosts'.iscsi
    /\ \A h \in InstHosts : hosts.registries[h] = conf.version => hosts'.registries[h] = conf.version
    /\ \A c \in Charts : ChartIs(c) => ChartIs(c)'
    /\ \A o \in Overlays : release[o] = conf.version => release'[o] = conf.version

\* Nothing but nodes is changed.
LEMMA WorldSame ==
    ASSUME WorldOK, UNCHANGED <<conf, hosts, release, recorded, cutOff>>,
           nodes' \subseteq nodes
    PROVE  WorldOK' /\ Keeps
  BY DEF WorldOK, WorldTypes, LinkOK, Keeps, ChartIs

\* The hosts are apart from the charts.
LEMMA HostsAndCharts ==
    ASSUME WorldOK
    PROVE  /\ InstHosts \cap Charts = {} /\ Overlays \cap Charts = {} /\ Master \notin Agents
           /\ conf.agents \subseteq Agents /\ Configured \subseteq InstHosts
           /\ conf.version \in 1 .. MaxVersion /\ MaxVersion \in Nat
  BY InstallerAssumption DEF WorldOK, WorldTypes, InstHosts, Charts, Overlays, Configured, Versions

\* A change of one host: what it leaves of the others, of the charts and of the
\* link between what runs and what was read.
LEMMA HostChange ==
    ASSUME WorldOK, NEW h \in InstHosts, hosts' \in HostSet, nodes' \subseteq Agents,
           UNCHANGED <<conf, release, recorded>>,
           cutOff' \subseteq InstHosts \cup Charts,
           \A x : x # h => (x \in cutOff' <=> x \in cutOff),
           \A x \in InstHosts : x # h => (x \in hosts'.active <=> x \in hosts.active)
                                         /\ hosts'.registries[x] = hosts.registries[x]
                                         /\ hosts'.loaded[x] = hosts.loaded[x],
           h \in hosts'.active /\ h \notin cutOff' => hosts'.loaded[h] = hosts'.registries[h],
           Master \in hosts.active => Master \in hosts'.active
    PROVE  /\ WorldOK'
           /\ \A c \in Charts : ChartIs(c) => ChartIs(c)'
<1>1. \A c \in Charts : c # h /\ (c \in cutOff' <=> c \in cutOff)
  BY HostsAndCharts
<1>2. WorldTypes'
  BY DEF WorldOK, WorldTypes
<1>3. LinkOK'
  BY <1>1 DEF WorldOK, LinkOK
<1>4. \A c \in Charts : ChartIs(c) => ChartIs(c)'
  BY <1>1 DEF ChartIs
<1> QED
  BY <1>2, <1>3, <1>4 DEF WorldOK

\* K3s starts on a host.
LEMMA WorldStart ==
    ASSUME WorldOK, NEW h \in InstHosts, StartK3s(h), UNCHANGED <<conf, release, recorded>>
    PROVE  WorldOK' /\ Keeps /\ h \in hosts'.active
<1>1. hosts \in HostSet /\ nodes \subseteq Agents /\ cutOff \subseteq InstHosts \cup Charts
  BY DEF WorldOK, WorldTypes
<1>2. /\ hosts' \in HostSet /\ hosts'.active = hosts.active \cup {h} /\ hosts'.iscsi = hosts.iscsi
      /\ hosts'.missed = hosts.missed \ {h}
      /\ hosts'.registries = hosts.registries
      /\ hosts'.loaded = [hosts.loaded EXCEPT ![h] = hosts.registries[h]]
  BY <1>1 DEF StartK3s, HostSet
<1>3. nodes' \subseteq Agents /\ cutOff' = cutOff \ {h}
  BY <1>1 DEF StartK3s, InstHosts
<1>4. /\ \A x \in InstHosts : x # h => (x \in hosts'.active <=> x \in hosts.active)
                                       /\ hosts'.registries[x] = hosts.registries[x]
                                       /\ hosts'.loaded[x] = hosts.loaded[x]
      /\ hosts'.loaded[h] = hosts'.registries[h]
  BY <1>1, <1>2 DEF HostSet
<1>5. WorldOK' /\ \A c \in Charts : ChartIs(c) => ChartIs(c)'
  BY <1>1, <1>2, <1>3, <1>4, HostChange
<1> QED
  BY <1>2, <1>5 DEF Keeps

\* A host gets the registries of the configuration.
LEMMA WorldRegistries ==
    ASSUME WorldOK, NEW h \in InstHosts, applyRegistriesConfig(h), UNCHANGED <<conf, release, recorded>>
    PROVE  WorldOK' /\ Keeps /\ hosts'.registries[h] = conf.version
<1>1. hosts \in HostSet /\ nodes \subseteq Agents /\ cutOff \subseteq InstHosts \cup Charts
      /\ conf.version \in 0 .. MaxVersion
  BY HostsAndCharts DEF WorldOK, WorldTypes
<1> DEFINE restart == hosts.registries[h] # conf.version /\ h \in hosts.active
<1>2. /\ hosts' \in HostSet /\ hosts'.active = hosts.active /\ hosts'.iscsi = hosts.iscsi
      /\ hosts'.missed = hosts.missed
      /\ hosts'.registries = [hosts.registries EXCEPT ![h] = conf.version]
      /\ hosts'.loaded = [hosts.loaded EXCEPT ![h] = IF restart THEN conf.version ELSE hosts.loaded[h]]
  BY <1>1 DEF applyRegistriesConfig, HostSet
<1>3. /\ nodes' \subseteq Agents /\ cutOff' \subseteq cutOff
      /\ \A x : x # h => (x \in cutOff' <=> x \in cutOff)
      /\ ~restart => cutOff' = cutOff
  BY <1>1 DEF applyRegistriesConfig, InstHosts
<1>4. /\ \A x \in InstHosts : x # h => (x \in hosts'.active <=> x \in hosts.active)
                                       /\ hosts'.registries[x] = hosts.registries[x]
                                       /\ hosts'.loaded[x] = hosts.loaded[x]
      /\ hosts'.registries[h] = conf.version
      /\ hosts'.loaded[h] = IF restart THEN conf.version ELSE hosts.loaded[h]
  BY <1>1, <1>2 DEF HostSet
<1>5. h \in hosts'.active /\ h \notin cutOff' => hosts'.loaded[h] = hosts'.registries[h]
  BY <1>2, <1>3, <1>4 DEF WorldOK, LinkOK
<1> HIDE DEF restart
<1>6. WorldOK' /\ \A c \in Charts : ChartIs(c) => ChartIs(c)'
  BY <1>1, <1>2, <1>3, <1>4, <1>5, HostChange
<1>7. \A x \in InstHosts : hosts.registries[x] = conf.version => hosts'.registries[x] = conf.version
  BY <1>4
<1> QED
  BY <1>2, <1>4, <1>6, <1>7 DEF Keeps

\* It gets the file alone.
LEMMA WorldCopied ==
    ASSUME WorldOK, NEW h \in InstHosts, CopiedOnly(h), UNCHANGED <<conf, release, recorded>>
    PROVE  WorldOK' /\ Keeps
<1>1. hosts \in HostSet /\ nodes \subseteq Agents /\ cutOff \subseteq InstHosts \cup Charts
      /\ conf.version \in 0 .. MaxVersion
  BY HostsAndCharts DEF WorldOK, WorldTypes
<1>2. /\ hosts' \in HostSet /\ hosts'.active = hosts.active /\ hosts'.iscsi = hosts.iscsi
      /\ hosts'.missed = hosts.missed
      /\ hosts'.registries = [hosts.registries EXCEPT ![h] = conf.version] /\ hosts'.loaded = hosts.loaded
  BY <1>1 DEF CopiedOnly, HostSet
<1>3. /\ nodes' \subseteq Agents /\ cutOff' \subseteq InstHosts \cup Charts
      /\ \A x : x # h => (x \in cutOff' <=> x \in cutOff)
      /\ h \in hosts.active => h \in cutOff'
  BY <1>1 DEF CopiedOnly
<1>4. /\ \A x \in InstHosts : x # h => (x \in hosts'.active <=> x \in hosts.active)
                                       /\ hosts'.registries[x] = hosts.registries[x]
                                       /\ hosts'.loaded[x] = hosts.loaded[x]
      /\ hosts'.registries[h] = conf.version
  BY <1>1, <1>2 DEF HostSet
<1>5. WorldOK' /\ \A c \in Charts : ChartIs(c) => ChartIs(c)'
  BY <1>1, <1>2, <1>3, <1>4, HostChange
<1>6. \A x \in InstHosts : hosts.registries[x] = conf.version => hosts'.registries[x] = conf.version
  BY <1>4
<1> QED
  BY <1>2, <1>5, <1>6 DEF Keeps

\* It gets the packages for Longhorn.
LEMMA WorldPackages ==
    ASSUME WorldOK, NEW h \in InstHosts, longhornPrerequisites(h), UNCHANGED <<conf, release, recorded>>
    PROVE  WorldOK' /\ Keeps /\ h \in hosts'.iscsi
<1>1. hosts \in HostSet
  BY DEF WorldOK, WorldTypes
<1>2. /\ hosts' \in HostSet /\ hosts'.active = hosts.active /\ hosts'.iscsi = hosts.iscsi \cup {h}
      /\ hosts'.missed = hosts.missed
      /\ hosts'.registries = hosts.registries /\ hosts'.loaded = hosts.loaded
  BY <1>1 DEF longhornPrerequisites, HostSet
<1>3. UNCHANGED <<nodes, cutOff>>
  BY DEF longhornPrerequisites
<1> QED
  BY <1>2, <1>3 DEF WorldOK, WorldTypes, LinkOK, Keeps, ChartIs

\* Its installation downloads nothing, or that of the last command is forgotten.
LEMMA WorldMissed ==
    ASSUME WorldOK, NEW m \in SUBSET InstHosts, hosts' = [hosts EXCEPT !.missed = m],
           UNCHANGED <<conf, nodes, release, recorded, cutOff>>
    PROVE  WorldOK' /\ (hosts.missed \subseteq m => Keeps) /\ hosts'.missed = m
<1>1. hosts \in HostSet
  BY DEF WorldOK, WorldTypes
<1>2. /\ hosts' \in HostSet /\ hosts'.active = hosts.active /\ hosts'.iscsi = hosts.iscsi
      /\ hosts'.missed = m /\ hosts'.registries = hosts.registries /\ hosts'.loaded = hosts.loaded
  BY <1>1 DEF HostSet
<1> QED
  BY <1>2 DEF WorldOK, WorldTypes, LinkOK, Keeps, ChartIs

\* An agent is uninstalled.
LEMMA WorldUninstall ==
    ASSUME WorldOK, NEW a \in Agents,
           hosts' = [hosts EXCEPT !.active = @ \ {a}, !.registries[a] = 0, !.loaded[a] = 0],
           cutOff' = cutOff \ {a}, UNCHANGED <<conf, nodes, release, recorded>>
    PROVE  WorldOK'
<1>1. /\ hosts \in HostSet /\ nodes \subseteq Agents /\ cutOff \subseteq InstHosts \cup Charts
      /\ 0 \in 0 .. MaxVersion /\ a \in InstHosts /\ a # Master
  BY InstallerAssumption DEF WorldOK, WorldTypes, InstHosts
<1>2. /\ hosts' \in HostSet /\ hosts'.active = hosts.active \ {a} /\ hosts'.iscsi = hosts.iscsi
      /\ hosts'.registries = [hosts.registries EXCEPT ![a] = 0]
      /\ hosts'.loaded = [hosts.loaded EXCEPT ![a] = 0]
  BY <1>1 DEF HostSet
<1>3. /\ \A x \in InstHosts : x # a => (x \in hosts'.active <=> x \in hosts.active)
                                       /\ hosts'.registries[x] = hosts.registries[x]
                                       /\ hosts'.loaded[x] = hosts.loaded[x]
      /\ a \notin hosts'.active
  BY <1>1, <1>2 DEF HostSet
<1> QED
  BY <1>1, <1>2, <1>3, HostChange

\* A chart or an overlay is applied.
LEMMA WorldRelease ==
    ASSUME WorldOK, NEW c \in Charts \cup Overlays, release' = [release EXCEPT ![c] = conf.version],
           cutOff' = IF c \in Charts THEN cutOff \cup {c} ELSE cutOff,
           c \in Charts => Master \in hosts.active,
           UNCHANGED <<conf, hosts, nodes, recorded>>
    PROVE  WorldOK' /\ Keeps /\ release'[c] = conf.version
<1>1. /\ release \in [Charts \cup Overlays -> 0 .. MaxVersion] /\ conf.version \in 0 .. MaxVersion
      /\ InstHosts \cap Charts = {} /\ Overlays \cap Charts = {} /\ cutOff \subseteq InstHosts \cup Charts
  BY HostsAndCharts DEF WorldOK, WorldTypes
<1>2. /\ release' \in [Charts \cup Overlays -> 0 .. MaxVersion] /\ release'[c] = conf.version
      /\ \A x \in Charts \cup Overlays : x # c => release'[x] = release[x]
  BY <1>1
<1>3. /\ cutOff' \subseteq InstHosts \cup Charts /\ (c \in Charts => c \in cutOff')
      /\ \A x : x # c => (x \in cutOff' <=> x \in cutOff)
      /\ \A h \in InstHosts : h \in cutOff' <=> h \in cutOff
  BY <1>1
<1>4. WorldTypes'
  BY <1>2, <1>3 DEF WorldOK, WorldTypes
<1>5. LinkOK'
  BY <1>2, <1>3 DEF WorldOK, LinkOK
<1>6. Keeps
  BY <1>2, <1>3 DEF Keeps, ChartIs
<1> QED
  BY <1>2, <1>4, <1>5, <1>6 DEF WorldOK

\* The fingerprint of a chart is recorded.
LEMMA WorldRecord ==
    ASSUME WorldOK, NEW c \in Charts, release[c] = conf.version, recorded' = [recorded EXCEPT ![c] = conf.version],
           cutOff' = cutOff \ {c}, UNCHANGED <<conf, hosts, nodes, release>>
    PROVE  WorldOK' /\ Keeps
<1>1. /\ recorded \in [Charts -> 0 .. MaxVersion] /\ conf.version \in 0 .. MaxVersion
      /\ InstHosts \cap Charts = {} /\ cutOff \subseteq InstHosts \cup Charts
  BY HostsAndCharts DEF WorldOK, WorldTypes
<1>2. /\ recorded' \in [Charts -> 0 .. MaxVersion] /\ recorded'[c] = conf.version
      /\ \A x \in Charts : x # c => recorded'[x] = recorded[x]
  BY <1>1
<1>3. /\ cutOff' \subseteq InstHosts \cup Charts
      /\ \A x : x # c => (x \in cutOff' <=> x \in cutOff)
      /\ \A h \in InstHosts : h \in cutOff' <=> h \in cutOff
  BY <1>1
<1>4. WorldTypes'
  BY <1>2, <1>3 DEF WorldOK, WorldTypes
<1>5. LinkOK'
  BY <1>2, <1>3 DEF WorldOK, LinkOK
<1>6. Keeps
  BY <1>2, <1>3 DEF Keeps, ChartIs
<1> QED
  BY <1>4, <1>5, <1>6 DEF WorldOK

-----------------------------------------------------------------------------
(* The command.  Each lemma is one way in which an action leaves it. *)

\* Results stay.
LEMMA KeepsResult ==
    ASSUME WorldOK, Keeps, NEW s, Result(s)
    PROVE  Result(s)'
<1>1. SoFar(s, {})'
  BY HostsAndCharts DEF Keeps, Result, SoFar, Configured, HasMirrors, HasLonghorn
<1>2. s \in Charts /\ Asked(s)' => ChartIs(s)'
  BY DEF Keeps, Result, Asked, HasLonghorn
<1>3. s = "deploy_liteboxd" => release'["system"] = conf.version /\ (HasSandbox' => release'["sandbox"] = conf.version)
  BY DEF Keeps, Result, Overlays, HasSandbox
<1> QED
  BY <1>1, <1>2, <1>3 DEF Keeps, Result

\* So does what a step has done so far.
LEMMA KeepsSoFar ==
    ASSUME WorldOK, Keeps, NEW s, NEW t, SoFar(s, t)
    PROVE  /\ s = "configure_registries" /\ HasMirrors' =>
                  \A h \in Configured' \ t : hosts'.registries[h] = conf'.version
           /\ s = "join_agents" => conf'.agents \ t \subseteq hosts'.active \cup hosts'.missed
           /\ s = "install_longhorn" /\ HasLonghorn' => Configured' \ t \subseteq hosts'.iscsi
  BY HostsAndCharts DEF Keeps, SoFar, Configured, HasMirrors, HasLonghorn

\* Facts about the command at a step.
LEMMA CommandFacts ==
    ASSUME CommandOK, cmd.steps # <<>>
    PROVE  /\ applied = FALSE /\ cmd.steps \in Seq(Steps) /\ Head(cmd.steps) = cmd.steps[1]
           /\ Len(cmd.steps) \in Nat \ {0} /\ cmd.steps[1] \in Steps
           /\ cmd.stage \in Stages /\ cmd.todo \subseteq InstHosts
           /\ cmd.failed \in BOOLEAN /\ cmd.full \in BOOLEAN
<1>1. cmd.steps \in Seq(Steps) /\ applied \in BOOLEAN
  BY DEF CommandOK, CmdSet
<1>2. Len(cmd.steps) \in Nat \ {0}
  BY <1>1, EmptySeq
<1> QED
  BY <1>1, <1>2 DEF CommandOK, CmdSet, ShapeOK

\* Nothing happens to it.
LEMMA CommandSame ==
    ASSUME WorldOK, CommandOK, Keeps, UNCHANGED <<cmd, applied, release>>
    PROVE  CommandOK'
<1>1. cmd' \in CmdSet /\ applied' \in BOOLEAN /\ ShapeOK'
  BY DEF CommandOK, ShapeOK
<1>2. StepOK'
  <2>1. PICK s, t : s = cmd.steps[1] /\ t = cmd.todo
    OBVIOUS
  <2> SUFFICES ASSUME cmd.steps # <<>>, cmd.stage # "mark"
               PROVE  (~cmd.failed => SoFar(s, t)') /\ Midway(s, cmd.stage)'
    BY <2>1 DEF StepOK, SoFar, Midway
  <2>2. (~cmd.failed => SoFar(s, t)) /\ Midway(s, cmd.stage)
    BY <2>1 DEF CommandOK, StepOK
  <2>3. ~cmd.failed => SoFar(s, t)'
    BY <2>2, KeepsSoFar DEF SoFar
  <2>4. Midway(s, cmd.stage)'
    BY <2>2 DEF Midway, Keeps
  <2> QED
    BY <2>3, <2>4
<1>3. ProgressOK'
  BY KeepsResult DEF CommandOK, ProgressOK
<1> QED
  BY <1>1, <1>2, <1>3 DEF CommandOK

\* It ends with an error.
LEMMA CommandFailed ==
    ASSUME CommandOK, cmd.steps # <<>>, Failed
    PROVE  CommandOK'
<1>1. cmd' = NoCommand /\ applied' = FALSE
  BY CommandFacts DEF Failed
<1>2. /\ NoCommand \in CmdSet /\ NoCommand.steps = <<>> /\ NoCommand.full = FALSE /\ NoCommand.failed = FALSE
      /\ NoCommand.stage = "mark"
  BY DEF NoCommand, CmdSet, Stages
<1> QED
  BY <1>1, <1>2 DEF CommandOK, ShapeOK, StepOK, ProgressOK

\* A step is done.
LEMMA CommandDone ==
    ASSUME WorldOK, CommandOK, Keeps, cmd.steps # <<>>, ~cmd.failed, Done,
           NEW first, cmd.steps[1] = first, Result(first)'
    PROVE  CommandOK'
<1>1. /\ applied = FALSE /\ cmd.steps \in Seq(Steps) /\ Len(cmd.steps) \in Nat \ {0}
      /\ first \in Steps /\ cmd \in CmdSet
  BY CommandFacts DEF CommandOK
<1>2. ASSUME NEW s \in Steps, cmd.full, ~Among(s, cmd.steps) PROVE Result(s)'
  BY <1>2, KeepsResult DEF CommandOK, ProgressOK
<1>3. CASE Len(cmd.steps) = 1
  <2>1. cmd' = NoCommand /\ (applied' <=> cmd.full) /\ applied' \in BOOLEAN
    BY <1>1, <1>3 DEF Done, CmdSet
  <2>2. /\ NoCommand \in CmdSet /\ NoCommand.steps = <<>> /\ NoCommand.full = FALSE /\ NoCommand.failed = FALSE
        /\ NoCommand.stage = "mark"
    BY DEF NoCommand, CmdSet, Stages
  <2>3. ASSUME NEW s \in Steps, cmd.full PROVE Result(s)'
    <3>1. CASE s = first
      BY <3>1
    <3>2. CASE s # first
      <4>1. ~Among(s, cmd.steps)
        BY <1>3, <3>2 DEF Among
      <4> QED
        BY <1>2, <2>3, <4>1
    <3> QED
      BY <3>1, <3>2
  <2> QED
    BY <2>1, <2>2, <2>3 DEF CommandOK, ShapeOK, StepOK, ProgressOK
<1>4. CASE Len(cmd.steps) # 1
  <2>1. PICK t : t = Tail(cmd.steps)
    OBVIOUS
  <2>2. /\ t \in Seq(Steps) /\ Len(t) = Len(cmd.steps) - 1
        /\ \A i \in 1 .. Len(t) : t[i] = cmd.steps[i + 1]
    BY <1>1, <2>1
  <2>3. t # <<>>
    <3>1. Len(t) # 0
      BY <1>1, <1>4, <2>2
    <3> QED
      BY <3>1
  <2>4. /\ cmd' \in CmdSet /\ cmd'.steps = t /\ cmd'.stage = "mark" /\ cmd'.todo = {}
        /\ cmd'.failed = cmd.failed /\ cmd'.full = cmd.full /\ applied' = FALSE
    <3>1. cmd' = [cmd EXCEPT !.steps = t, !.stage = "mark", !.todo = {}] /\ applied' = FALSE
      BY <1>1, <1>4, <2>1 DEF Done
    <3> QED
      BY <1>1, <2>2, <3>1 DEF CmdSet, Stages
  <2>5. \A s : Among(s, t) => Among(s, cmd.steps)
    <3>1. ASSUME NEW i \in 1 .. Len(t) PROVE i + 1 \in 1 .. Len(cmd.steps)
      BY <1>1, <2>2
    <3> QED
      BY <2>2, <3>1 DEF Among
  <2>6. \A s : Among(s, cmd.steps) => s = first \/ Among(s, t)
    <3>1. ASSUME NEW i \in 1 .. Len(cmd.steps), i # 1
          PROVE  i - 1 \in 1 .. Len(t) /\ t[i - 1] = cmd.steps[i]
      <4>1. i - 1 \in 1 .. Len(t) /\ (i - 1) + 1 = i
        BY <1>1, <2>2, <3>1
      <4> QED
        BY <2>2, <4>1
    <3> QED
      BY <3>1 DEF Among
  <2>7. ShapeOK'
    BY <2>3, <2>4, <2>5 DEF CommandOK, ShapeOK
  <2>8. StepOK'
    BY <2>4 DEF StepOK
  <2>9. ProgressOK'
    <3> SUFFICES ASSUME NEW s \in Steps, cmd.full, ~Among(s, t) PROVE Result(s)'
      BY <2>4 DEF ProgressOK
    <3>1. s = first \/ ~Among(s, cmd.steps)
      BY <2>6
    <3> QED
      BY <1>2, <3>1
  <2> QED
    BY <2>4, <2>7, <2>8, <2>9 DEF CommandOK
<1> QED
  BY <1>3, <1>4

\* A step goes from one stage to the next.
LEMMA CommandStage ==
    ASSUME WorldOK, CommandOK, Keeps, cmd.steps # <<>>, cmd.stage # "mark", ~cmd.failed,
           NEW st \in Stages, st # "mark", Stage(st), NEW first, cmd.steps[1] = first, Midway(first, st)',
           st \in {"upgrade", "rollout"} => cmd.todo = {}
    PROVE  CommandOK'
<1>1. /\ cmd' \in CmdSet /\ cmd'.steps = cmd.steps /\ cmd'.stage = st /\ cmd'.todo = cmd.todo
      /\ cmd'.failed = cmd.failed /\ cmd'.full = cmd.full /\ applied' = applied
  BY DEF Stage, CommandOK, CmdSet
<1>2. ShapeOK'
  BY <1>1 DEF CommandOK, ShapeOK
<1>3. StepOK'
  <2>1. PICK t : t = cmd.todo
    OBVIOUS
  <2>2. SoFar(first, t)
    BY <2>1 DEF CommandOK, StepOK
  <2>3. SoFar(first, t)'
    BY <2>2, KeepsSoFar DEF SoFar
  <2> QED
    BY <1>1, <2>1, <2>3 DEF StepOK
<1>4. ProgressOK'
  BY <1>1, KeepsResult DEF CommandOK, ProgressOK
<1> QED
  BY <1>1, <1>2, <1>3, <1>4 DEF CommandOK

\* A host has been visited, with or without success.
LEMMA CommandVisited ==
    ASSUME WorldOK, CommandOK, Keeps, cmd.steps # <<>>, cmd.stage = "run", NEW h, NEW failed \in BOOLEAN,
           NEW first, cmd.steps[1] = first, first \in VisitingSteps \/ ~failed, cmd.failed => failed,
           cmd' = [cmd EXCEPT !.todo = @ \ {h}, !.failed = failed], applied' = applied,
           ~failed => SoFar(first, InstHosts \ {h})'
    PROVE  CommandOK'
<1>1. /\ cmd' \in CmdSet /\ cmd'.steps = cmd.steps /\ cmd'.stage = "run" /\ cmd'.todo = cmd.todo \ {h}
      /\ cmd'.failed = failed /\ cmd'.full = cmd.full
  BY DEF CommandOK, CmdSet, Stages
<1>2. ShapeOK'
  BY <1>1 DEF CommandOK, ShapeOK
<1>3. StepOK'
  <2>1. PICK t : t = cmd.todo
    OBVIOUS
  <2>2. ASSUME ~failed PROVE SoFar(first, t \ {h})'
    <3>1. SoFar(first, t)
      BY <2>1, <2>2 DEF CommandOK, StepOK
    <3>2. SoFar(first, t)'
      BY <3>1, KeepsSoFar DEF SoFar
    <3>3. Configured' \subseteq InstHosts /\ conf'.agents \subseteq InstHosts
      BY HostsAndCharts DEF Keeps, Configured, InstHosts
    <3>4. SoFar(first, InstHosts \ {h})'
      BY <2>2
    <3> QED
      BY <3>2, <3>3, <3>4 DEF SoFar
  <2>3. Midway(first, "run")'
    BY DEF Midway
  <2> QED
    BY <1>1, <2>1, <2>2, <2>3 DEF StepOK
<1>4. ProgressOK'
  BY <1>1, KeepsResult DEF CommandOK, ProgressOK
<1> QED
  BY <1>1, <1>2, <1>3, <1>4 DEF CommandOK

-----------------------------------------------------------------------------
(* The actions. *)

\* A command is launched.
LEMMA LaunchStep ==
    ASSUME InstInv, NEW steps \in Seq(Steps), steps # <<>>, NEW todo \in SUBSET InstHosts, Launch(steps, todo),
           Head(steps) = "precheck" /\ steps # ClusterSteps =>
               ~Among("node_remove", steps) /\ \A s \in Wanted : Among(s, steps)
    PROVE  InstInv'
<1>1. /\ UNCHANGED <<conf, file, nodes, release, recorded, cutOff, instFaults>>
      /\ hosts' = [hosts EXCEPT !.missed = {}]
      /\ applied' = FALSE /\ commands < MaxCommands /\ commands' = commands + 1
  BY DEF Launch
<1>2. Books'
  BY <1>1, InstallerAssumption DEF InstInv, Books
<1>3. WorldOK'
  BY <1>1, WorldMissed DEF InstInv
<1>4. /\ cmd' \in CmdSet /\ cmd'.steps = steps /\ cmd'.stage = "mark" /\ cmd'.failed = FALSE
      /\ cmd'.full <=> Head(steps) = "precheck" /\ steps # ClusterSteps
  <2>1. PICK full \in BOOLEAN : full = (Head(steps) = "precheck" /\ steps # ClusterSteps)
    OBVIOUS
  <2>2. cmd' = [steps |-> steps, stage |-> "mark", todo |-> todo, failed |-> FALSE, full |-> full]
    BY <2>1 DEF Launch, NoCommand
  <2> QED
    BY <2>1, <2>2 DEF CmdSet, Stages
<1>5. ShapeOK' /\ StepOK'
  BY <1>1, <1>4 DEF ShapeOK, StepOK
<1>6. ProgressOK'
  <2> SUFFICES ASSUME NEW s \in Steps, \A w \in Wanted : Among(w, steps), ~Among(s, steps)
               PROVE  Result(s)'
    BY <1>1, <1>4 DEF ProgressOK
  <2>1. s \notin Wanted
    OBVIOUS
  <2> QED
    BY <2>1 DEF Wanted, Result, SoFar, Charts
<1> QED
  BY <1>1, <1>2, <1>3, <1>4, <1>5, <1>6 DEF InstInv, CommandOK

\* The operator runs a command, edits the configuration or removes a torn state file.
LEMMA OperatorStep ==
    ASSUME InstInv, runApply \/ RemoveNodes \/ EditConfig \/ RemoveStateFile
    PROVE  InstInv'
<1>1. CASE runApply
  BY <1>1, PlanSteps, LaunchStep DEF runApply
<1>2. CASE RemoveNodes
  <2>1. PICK a \in conf.agents : Launch(<<"node_remove">>, {a})
    BY <1>2 DEF RemoveNodes
  <2>2. {a} \in SUBSET InstHosts
    BY <2>1, HostsAndCharts DEF InstInv, InstHosts
  <2>3. /\ <<"node_remove">> \in Seq(Steps) /\ <<"node_remove">> # <<>>
        /\ Head(<<"node_remove">>) # "precheck"
    BY DEF Steps
  <2> QED
    BY <2>1, <2>2, <2>3, LaunchStep
<1>3. CASE EditConfig
  <2>1. /\ cmd.steps = <<>> /\ applied' = FALSE /\ cmd' = cmd
        /\ conf' \in [version : Versions, agents : AgentLists]
        /\ UNCHANGED <<file, hosts, nodes, release, recorded, cutOff, commands, instFaults>>
    <3>1. PICK v \in Versions, as \in AgentLists : conf' = [version |-> v, agents |-> as]
      BY <1>3 DEF EditConfig
    <3> QED
      BY <1>3, <3>1 DEF EditConfig
  <2>2. WorldOK' /\ Books'
    BY <2>1 DEF InstInv, WorldOK, WorldTypes, LinkOK, Books
  <2>3. CommandOK'
    BY <2>1 DEF InstInv, CommandOK, ShapeOK, StepOK, ProgressOK
  <2> QED
    BY <2>2, <2>3 DEF InstInv
<1>4. CASE RemoveStateFile
  <2>1. /\ UNCHANGED <<conf, cmd, hosts, nodes, release, recorded, cutOff, applied, commands, instFaults>>
        /\ file' = "absent"
    BY <1>4 DEF RemoveStateFile
  <2>2. WorldOK' /\ Keeps
    BY <2>1, WorldSame DEF InstInv
  <2>3. CommandOK'
    BY <2>1, <2>2, CommandSame DEF InstInv
  <2>4. Books'
    BY <2>1 DEF InstInv, Books
  <2> QED
    BY <2>2, <2>3, <2>4 DEF InstInv
<1> QED
  BY <1>1, <1>2, <1>3, <1>4

\* A fault is counted.
LEMMA FaultBooks ==
    ASSUME Books, Fault, commands' = commands, file' \in {"absent", "whole", "torn"}
    PROVE  Books'
  BY InstallerAssumption DEF Books, Fault

\* The command dies or fails without having changed anything.
LEMMA DeathStep ==
    ASSUME InstInv, Dies \/ CommandFails \/ RemovalFails
    PROVE  InstInv'
<1>1. /\ UNCHANGED <<conf, hosts, nodes, release, recorded, cutOff, commands>>
      /\ cmd.steps # <<>> /\ Failed /\ Fault
  BY DEF Dies, CommandFails, RemovalFails, AtStep
<1>2. file' \in {"absent", "whole", "torn"}
  BY DEF Dies, CommandFails, RemovalFails, InstInv, Books
<1>3. WorldOK' /\ Books'
  BY <1>1, <1>2, WorldSame, FaultBooks DEF InstInv
<1>4. CommandOK'
  BY <1>1, CommandFailed DEF InstInv
<1> QED
  BY <1>3, <1>4 DEF InstInv

\* A step begins.
LEMMA MarkStep ==
    ASSUME InstInv, Mark
    PROVE  InstInv'
<1>1. /\ UNCHANGED <<conf, hosts, nodes, release, recorded, cutOff, applied, commands, instFaults>>
      /\ cmd.steps # <<>> /\ cmd.stage = "mark" /\ file' = "whole"
      /\ cmd' = [cmd EXCEPT !.stage = "run", !.todo = Visits(Head(cmd.steps))]
  BY DEF Mark
<1>2. WorldOK' /\ Keeps /\ Books'
  BY <1>1, WorldSame DEF InstInv, Books
<1>3. PICK first : first = cmd.steps[1]
  OBVIOUS
<1>4. Head(cmd.steps) = first /\ cmd.todo \subseteq InstHosts /\ cmd \in CmdSet /\ ~cmd.failed
  BY <1>1, <1>3, CommandFacts DEF InstInv, CommandOK, ShapeOK
<1>5. PICK t : t = Visits(first)
  OBVIOUS
<1>6. /\ t \subseteq InstHosts
      /\ first = "configure_registries" /\ HasMirrors => Configured \subseteq t
      /\ first = "install_longhorn" /\ HasLonghorn => Configured \subseteq t
      /\ first = "join_agents" => conf.agents \subseteq t
  <2>1. nodes \subseteq InstHosts /\ conf.agents \subseteq InstHosts /\ Master \in InstHosts
    BY HostsAndCharts DEF InstInv, WorldOK, WorldTypes, InstHosts
  <2> QED
    BY <1>4, <1>5, <2>1 DEF Visits, Configured
<1>7. /\ cmd' \in CmdSet /\ cmd'.steps = cmd.steps /\ cmd'.stage = "run" /\ cmd'.todo = t
      /\ cmd'.failed = cmd.failed /\ cmd'.full = cmd.full
  BY <1>1, <1>4, <1>5, <1>6 DEF CmdSet, Stages
<1>8. ShapeOK'
  BY <1>1, <1>4, <1>7 DEF InstInv, CommandOK, ShapeOK
<1>9. StepOK'
  <2>1. SoFar(first, t)' /\ Midway(first, "run")'
    BY <1>1, <1>6 DEF SoFar, Midway, Configured, HasMirrors, HasLonghorn
  <2> QED
    BY <1>3, <1>7, <2>1 DEF StepOK
<1>10. ProgressOK'
  BY <1>1, <1>2, <1>7, KeepsResult DEF InstInv, CommandOK, ProgressOK
<1> QED
  BY <1>1, <1>2, <1>7, <1>8, <1>9, <1>10 DEF InstInv, CommandOK

\* The command at a step that has begun.
LEMMA AtStepFacts ==
    ASSUME InstInv, NEW s, AtStep(s)
    PROVE  /\ cmd.steps # <<>> /\ cmd.steps[1] = s /\ Head(cmd.steps) = s /\ cmd.stage # "mark" /\ s \in Steps
           /\ s \notin VisitingSteps => ~cmd.failed
           /\ ~cmd.failed => SoFar(s, cmd.todo)
           /\ Midway(s, cmd.stage)
           /\ s = "node_remove" => cmd.full = FALSE
<1>1. cmd.steps # <<>> /\ cmd.steps[1] = s /\ cmd.stage # "mark" /\ s \in Steps /\ Len(cmd.steps) \in Nat \ {0}
  BY CommandFacts DEF AtStep, InstInv
<1>2. s = "node_remove" => Among(s, cmd.steps)
  BY <1>1 DEF Among
<1>3. cmd.full \in BOOLEAN
  BY DEF InstInv, CommandOK, CmdSet
<1> QED
  BY <1>1, <1>2, <1>3 DEF AtStep, InstInv, CommandOK, ShapeOK, StepOK

\* A host is visited.
LEMMA VisitStep ==
    ASSUME InstInv, NEW h \in InstHosts, Visit(h)
    PROVE  InstInv'
<1>1. /\ UNCHANGED <<conf, file, release, recorded, applied, commands, instFaults>>
      /\ cmd' = [cmd EXCEPT !.todo = @ \ {h}] /\ cmd.stage = "run"
  BY DEF Visit, VisitTurn
<1>2. Books'
  BY <1>1 DEF InstInv, Books
<1>3. PICK failed \in BOOLEAN : failed = cmd.failed
  BY DEF InstInv, CommandOK, CmdSet
<1>4. cmd' = [cmd EXCEPT !.todo = @ \ {h}, !.failed = failed]
  BY <1>1, <1>3 DEF InstInv, CommandOK, CmdSet
<1>5. Configured \ (InstHosts \ {h}) \subseteq {h} /\ conf.agents \ (InstHosts \ {h}) \subseteq {h}
  BY HostsAndCharts DEF InstInv, InstHosts
<1>6. CASE AtStep("precheck") /\ UNCHANGED <<hosts, nodes, cutOff>>
  <2>1. WorldOK' /\ Keeps
    BY <1>1, <1>6, WorldSame DEF InstInv
  <2>2. SoFar("precheck", InstHosts \ {h})'
    BY DEF SoFar
  <2>3. CommandOK'
    BY <1>1, <1>3, <1>4, <1>6, <2>1, <2>2, AtStepFacts, CommandVisited DEF InstInv, VisitingSteps
  <2> QED
    BY <1>2, <2>1, <2>3 DEF InstInv
<1>7. CASE AtStep("configure_registries") /\ applyRegistriesConfig(h)
  <2>1. WorldOK' /\ Keeps /\ hosts'.registries[h] = conf.version
    BY <1>1, <1>7, WorldRegistries DEF InstInv
  <2>2. SoFar("configure_registries", InstHosts \ {h})'
    BY <1>1, <1>5, <2>1 DEF SoFar, Configured
  <2>3. CommandOK'
    BY <1>1, <1>3, <1>4, <1>7, <2>1, <2>2, AtStepFacts, CommandVisited DEF InstInv, VisitingSteps
  <2> QED
    BY <1>2, <2>1, <2>3 DEF InstInv
<1>8. CASE AtStep("join_agents") /\ ensureAgentJoined(h)
  <2>1. WorldOK' /\ Keeps /\ h \in hosts'.active
    <3>1. CASE h \in hosts.active
      BY <1>1, <1>8, <3>1, WorldSame DEF InstInv, ensureAgentJoined
    <3>2. CASE h \notin hosts.active
      BY <1>1, <1>8, <3>2, WorldStart DEF InstInv, ensureAgentJoined
    <3> QED
      BY <3>1, <3>2
  <2>2. SoFar("join_agents", InstHosts \ {h})'
    BY <1>1, <1>5, <2>1 DEF SoFar
  <2>3. CommandOK'
    BY <1>1, <1>3, <1>4, <1>8, <2>1, <2>2, AtStepFacts, CommandVisited DEF InstInv, VisitingSteps
  <2> QED
    BY <1>2, <2>1, <2>3 DEF InstInv
<1>9. CASE AtStep("install_longhorn") /\ longhornPrerequisites(h)
  <2>1. WorldOK' /\ Keeps /\ h \in hosts'.iscsi
    BY <1>1, <1>9, WorldPackages DEF InstInv
  <2>2. SoFar("install_longhorn", InstHosts \ {h})'
    BY <1>1, <1>5, <2>1 DEF SoFar, Configured
  <2>3. CommandOK'
    BY <1>1, <1>3, <1>4, <1>9, <2>1, <2>2, AtStepFacts, CommandVisited DEF InstInv, VisitingSteps
  <2> QED
    BY <1>2, <2>1, <2>3 DEF InstInv
<1> QED
  BY <1>6, <1>7, <1>8, <1>9 DEF Visit

\* A visit fails, having done part of its work or all of it.
LEMMA VisitFailsStep ==
    ASSUME InstInv, NEW h \in InstHosts, VisitFails(h)
    PROVE  InstInv'
<1>1. /\ UNCHANGED <<conf, file, release, recorded, commands>> /\ Fault
      /\ cmd.stage = "run" /\ h \in cmd.todo /\ Head(cmd.steps) \in VisitingSteps
      /\ UNCHANGED <<hosts, nodes, cutOff>> \/ CopiedOnly(h) \/ StartK3s(h)
      /\ IF h = Master THEN Failed
         ELSE cmd' = [cmd EXCEPT !.todo = @ \ {h}, !.failed = TRUE] /\ applied' = applied
  BY DEF VisitFails, VisitTurn, VisitingSteps
<1>2. WorldOK' /\ Keeps
  BY <1>1, WorldSame, WorldCopied, WorldStart DEF InstInv
<1>3. Books'
  BY <1>1, FaultBooks DEF InstInv, Books
<1>4. cmd.steps # <<>>
  BY <1>1 DEF VisitFails, AtStep, InstInv, CommandOK, ShapeOK
<1>5. CommandOK'
  <2>1. CASE h = Master
    BY <1>1, <1>4, <2>1, CommandFailed DEF InstInv
  <2>2. CASE h # Master
    <3>1. PICK first : first = cmd.steps[1]
      OBVIOUS
    <3>2. first \in VisitingSteps
      BY <1>1, <1>4, <3>1, CommandFacts DEF InstInv
    <3> QED
      BY <1>1, <1>2, <1>4, <2>2, <3>1, <3>2, CommandVisited DEF InstInv
  <2> QED
    BY <2>1, <2>2
<1> QED
  BY <1>2, <1>3, <1>5 DEF InstInv

\* A step that changes nothing of the hosts or the cluster is done.
LEMMA QuietDone ==
    ASSUME InstInv, NEW s, AtStep(s), ~cmd.failed, Done, Result(s)',
           UNCHANGED <<conf, file, hosts, release, recorded, cutOff, commands, instFaults>>,
           nodes' \subseteq nodes
    PROVE  InstInv'
<1>1. WorldOK' /\ Keeps
  BY WorldSame DEF InstInv
<1>2. CommandOK'
  BY <1>1, AtStepFacts, CommandDone DEF InstInv
<1>3. Books'
  BY DEF InstInv, Books
<1> QED
  BY <1>1, <1>2, <1>3 DEF InstInv

\* A command ends with an error that nothing was counted for.
LEMMA QuietFailure ==
    ASSUME InstInv, cmd.steps # <<>>, Failed,
           UNCHANGED <<conf, file, hosts, release, recorded, cutOff, commands, instFaults>>,
           nodes' \subseteq nodes
    PROVE  InstInv'
<1>1. WorldOK'
  BY WorldSame DEF InstInv
<1>2. CommandOK'
  BY CommandFailed DEF InstInv
<1>3. Books'
  BY DEF InstInv, Books
<1> QED
  BY <1>1, <1>2, <1>3 DEF InstInv

\* All hosts of a step have been visited.
LEMMA AllVisitedStep ==
    ASSUME InstInv, AllVisited
    PROVE  InstInv'
<1>1. /\ UNCHANGED <<conf, file, hosts, nodes, release, recorded, cutOff, commands, instFaults>>
      /\ cmd.todo = {} /\ IF cmd.failed THEN Failed ELSE Done
  BY DEF AllVisited
<1>2. PICK s \in VisitingSteps : AtStep(s) /\ (s = "install_longhorn" => cmd.failed)
  BY DEF AllVisited, VisitingSteps
<1>3. CASE cmd.failed
  BY <1>1, <1>2, <1>3, AtStepFacts, QuietFailure
<1>4. CASE ~cmd.failed
  <2>1. SoFar(s, {}) /\ s \in {"precheck", "configure_registries", "join_agents"}
    BY <1>1, <1>2, <1>4, AtStepFacts DEF VisitingSteps
  <2>2. Result(s)'
    BY <1>1, <2>1 DEF Result, SoFar, Configured, Charts, HasMirrors
  <2> QED
    BY <1>1, <1>2, <1>4, <2>2, QuietDone
<1> QED
  BY <1>3, <1>4

\* Steps without a result of their own.
LEMMA ReadOnlyLemma ==
    ASSUME InstInv, ReadOnlyStep \/ precheckClusterConnection \/ ReconcileEnds
    PROVE  InstInv'
<1>1. /\ UNCHANGED <<conf, file, hosts, nodes, release, recorded, cutOff, commands, instFaults>>
      /\ Done \/ Failed
  BY DEF ReadOnlyStep, precheckClusterConnection, ReconcileEnds
<1>2. PICK s \in {"read_k3s_token", "wait_nodes_ready", "rollout_check", "precheck_cluster_connection",
                  "reconcile_remove_absent_agents"} : AtStep(s)
  BY DEF ReadOnlyStep, precheckClusterConnection, ReconcileEnds
<1>3. s \notin Wanted /\ s \notin VisitingSteps
  BY <1>2 DEF Wanted, VisitingSteps
<1>4. Result(s)'
  BY <1>3 DEF Wanted, Result, SoFar, Charts
<1>5. cmd.steps # <<>> /\ ~cmd.failed
  BY <1>2, <1>3, AtStepFacts
<1>6. CASE Done
  BY <1>1, <1>2, <1>4, <1>5, <1>6, QuietDone
<1>7. CASE Failed
  BY <1>1, <1>5, <1>7, QuietFailure
<1> QED
  BY <1>1, <1>6, <1>7

\* K3s on the master.
LEMMA MasterStep ==
    ASSUME InstInv, InstallOrCheckMaster
    PROVE  InstInv'
<1>1. /\ AtStep("install_master") /\ UNCHANGED <<conf, file, release, recorded, commands>>
      /\ IF Master \in hosts.active THEN UNCHANGED <<hosts, nodes, cutOff>> ELSE StartK3s(Master)
      /\ (Done /\ instFaults' = instFaults) \/ (Failed /\ Fault)
  BY DEF InstallOrCheckMaster
<1>2. Master \in InstHosts
  BY DEF InstHosts
<1>3. WorldOK' /\ Keeps
  BY <1>1, <1>2, WorldSame, WorldStart DEF InstInv
<1>4. Books'
  BY <1>1, FaultBooks DEF InstInv, Books
<1>5. cmd.steps # <<>> /\ cmd.steps[1] = "install_master" /\ ~cmd.failed
  <2>1. "install_master" \notin VisitingSteps
    BY DEF VisitingSteps
  <2> QED
    BY <1>1, <2>1, AtStepFacts
<1>6. Result("install_master")'
  BY DEF Result, SoFar, Charts
<1>7. CommandOK'
  BY <1>1, <1>3, <1>5, <1>6, CommandDone, CommandFailed DEF InstInv
<1> QED
  BY <1>3, <1>4, <1>7 DEF InstInv

\* The fingerprint of a chart is compared.
LEMMA FingerprintStep ==
    ASSUME InstInv, NEW c \in Charts, ReadFingerprint(c)
    PROVE  InstInv'
<1>1. /\ UNCHANGED <<conf, file, hosts, nodes, release, recorded, cutOff, commands, instFaults>>
      /\ AtStep(c) /\ cmd.stage = "run" /\ cmd.todo = {} /\ ~cmd.failed
      /\ ((UpToDate(c) \/ ~Asked(c)) /\ Done) \/ Stage("upgrade")
  BY DEF ReadFingerprint, Asked
<1>2. WorldOK' /\ Keeps /\ Books'
  BY <1>1, WorldSame DEF InstInv, Books
<1>3. CASE (UpToDate(c) \/ ~Asked(c)) /\ Done
  <2>1. Asked(c) => ChartIs(c)
    BY <1>3, HostsAndCharts DEF UpToDate, InstInv, WorldOK, LinkOK, ChartIs
  <2>2. SoFar(c, {})
    BY <1>1, AtStepFacts
  <2>3. Result(c)
    BY <2>1, <2>2 DEF Result, Charts
  <2>4. Result(c)'
    BY <1>2, <2>3, KeepsResult DEF InstInv
  <2> QED
    BY <1>1, <1>3, <2>4, QuietDone
<1>4. CASE Stage("upgrade")
  <2>1. Midway(c, "upgrade")'
    BY DEF Midway
  <2>2. cmd.steps # <<>> /\ cmd.steps[1] = c /\ "upgrade" \in Stages
    BY <1>1, AtStepFacts DEF Stages
  <2>3. CommandOK'
    BY <1>1, <1>2, <1>4, <2>1, <2>2, CommandStage DEF InstInv
  <2> QED
    BY <1>2, <2>3 DEF InstInv
<1> QED
  BY <1>1, <1>3, <1>4

\* A step past its first stage has had no failed visit.
LEMMA LaterStage ==
    ASSUME InstInv, NEW s, AtStep(s), cmd.stage # "run"
    PROVE  cmd.steps # <<>> /\ cmd.steps[1] = s /\ ~cmd.failed
  BY AtStepFacts DEF InstInv, CommandOK, ShapeOK

\* A chart is installed or upgraded.
LEMMA UpgradeStep ==
    ASSUME InstInv, NEW c \in Charts, Upgrade(c)
    PROVE  InstInv'
<1>1. CASE Master \notin hosts.active
  <2>1. /\ UNCHANGED <<conf, file, hosts, nodes, release, recorded, cutOff, commands, instFaults>>
        /\ cmd.steps # <<>> /\ Failed
    BY <1>1 DEF Upgrade, AtStep
  <2> QED
    BY <2>1, QuietFailure
<1> SUFFICES ASSUME Master \in hosts.active PROVE InstInv'
  BY <1>1
<1>0. /\ UNCHANGED <<conf, file, hosts, nodes, recorded, commands, instFaults>>
      /\ AtStep(c) /\ cmd.stage = "upgrade" /\ release' = [release EXCEPT ![c] = conf.version]
      /\ cutOff' = cutOff \cup {c} /\ Stage("rollout")
  BY DEF Upgrade
<1>2. WorldOK' /\ Keeps /\ release'[c] = conf.version
  BY <1>0, WorldRelease DEF InstInv
<1>3. Midway(c, "rollout")'
  BY <1>0, <1>2 DEF Midway, Charts
<1>4. cmd.steps # <<>> /\ cmd.steps[1] = c /\ ~cmd.failed /\ cmd.todo = {} /\ "rollout" \in Stages
  BY <1>0, LaterStage DEF Stages, InstInv, CommandOK, ShapeOK
<1>5. CommandOK'
  BY <1>0, <1>2, <1>3, <1>4, CommandStage DEF InstInv
<1>6. Books'
  BY <1>0 DEF InstInv, Books
<1> QED
  BY <1>2, <1>5, <1>6 DEF InstInv

\* Its rollout is complete.
LEMMA RecordStep ==
    ASSUME InstInv, NEW c \in Charts, RecordFingerprint(c)
    PROVE  InstInv'
<1>1. /\ UNCHANGED <<conf, file, hosts, nodes, release, commands, instFaults>>
      /\ AtStep(c) /\ cmd.stage = "rollout" /\ recorded' = [recorded EXCEPT ![c] = conf.version]
      /\ cutOff' = cutOff \ {c} /\ Done
  BY DEF RecordFingerprint
<1>2. cmd.steps # <<>> /\ cmd.steps[1] = c /\ ~cmd.failed
  BY <1>1, LaterStage
<1>3. release[c] = conf.version
  BY <1>1, AtStepFacts DEF Midway
<1>4. WorldOK' /\ Keeps
  BY <1>1, <1>3, WorldRecord DEF InstInv
<1>5. SoFar(c, {})
  BY <1>1, <1>2, AtStepFacts DEF InstInv, CommandOK, ShapeOK
<1>6. Result(c)'
  <2>1. Result(c)
    BY <1>3, <1>5 DEF Result, Charts, ChartIs
  <2> QED
    BY <1>4, <2>1, KeepsResult DEF InstInv
<1>7. CommandOK'
  BY <1>1, <1>2, <1>4, <1>6, CommandDone DEF InstInv
<1>8. Books'
  BY <1>1 DEF InstInv, Books
<1> QED
  BY <1>4, <1>7, <1>8 DEF InstInv

\* LiteBoxd is deployed.
LEMMA OverlayStep ==
    ASSUME InstInv, NEW o \in Overlays, Apply(o)
    PROVE  InstInv'
<1>1. /\ UNCHANGED <<conf, file, hosts, nodes, recorded, cutOff, commands, instFaults>>
      /\ AtStep("deploy_liteboxd") /\ release' = [release EXCEPT ![o] = conf.version]
      /\ \/ o = "system" /\ Stage("sandbox")
         \/ o = "system" /\ ~HasSandbox /\ Done
         \/ o = "sandbox" /\ cmd.stage = "sandbox" /\ Done
  BY DEF Apply, Overlays
<1>2. o \notin Charts
  BY DEF Overlays, Charts
<1>3. WorldOK' /\ Keeps /\ release'[o] = conf.version
  BY <1>1, <1>2, WorldRelease DEF InstInv
<1>4. Books'
  BY <1>1 DEF InstInv, Books
<1>5. cmd.steps # <<>> /\ cmd.steps[1] = "deploy_liteboxd" /\ ~cmd.failed /\ cmd.stage # "mark"
  <2>1. "deploy_liteboxd" \notin VisitingSteps
    BY DEF VisitingSteps
  <2> QED
    BY <1>1, <2>1, AtStepFacts
<1>6. CASE o = "system" /\ Stage("sandbox")
  <2>1. Midway("deploy_liteboxd", "sandbox")'
    BY <1>1, <1>3, <1>6 DEF Midway, Charts
  <2>2. "sandbox" \in Stages
    BY DEF Stages
  <2>3. CommandOK'
    BY <1>3, <1>5, <1>6, <2>1, <2>2, CommandStage DEF InstInv
  <2> QED
    BY <1>3, <1>4, <2>3 DEF InstInv
<1>7. CASE o = "system" /\ ~HasSandbox /\ Done
  <2>1. Result("deploy_liteboxd")'
    BY <1>1, <1>3, <1>7 DEF Result, SoFar, Charts, HasSandbox
  <2>2. CommandOK'
    BY <1>3, <1>5, <1>7, <2>1, CommandDone DEF InstInv
  <2> QED
    BY <1>3, <1>4, <2>2 DEF InstInv
<1>8. CASE o = "sandbox" /\ cmd.stage = "sandbox" /\ Done
  <2>1. release["system"] = conf.version
    BY <1>1, <1>8, AtStepFacts DEF Midway
  <2>2. release'["system"] = conf.version
    BY <1>3, <2>1 DEF Keeps, Overlays
  <2>3. Result("deploy_liteboxd")'
    BY <1>1, <1>3, <1>8, <2>2 DEF Result, SoFar, Charts
  <2>4. CommandOK'
    BY <1>3, <1>5, <1>8, <2>3, CommandDone DEF InstInv
  <2> QED
    BY <1>3, <1>4, <2>4 DEF InstInv
<1> QED
  BY <1>1, <1>6, <1>7, <1>8

\* The node of an agent is deleted.
LEMMA DeleteNodeStep ==
    ASSUME InstInv, NEW a \in Agents, DeleteNode(a)
    PROVE  InstInv'
<1>1. /\ UNCHANGED <<conf, file, hosts, release, recorded, cutOff, commands, instFaults>>
      /\ cmd.stage = "run" /\ nodes' = nodes \ {a}
  BY DEF DeleteNode
<1>2. PICK s \in {"node_remove", "reconcile_remove_absent_agents"} : AtStep(s)
  BY DEF DeleteNode
<1>3. s \notin Wanted /\ s \notin VisitingSteps
  BY <1>2 DEF Wanted, VisitingSteps
<1>4. cmd.steps # <<>> /\ cmd.steps[1] = s /\ ~cmd.failed
  BY <1>2, <1>3, AtStepFacts
<1>5. WorldOK' /\ Keeps /\ Books'
  BY <1>1, WorldSame DEF InstInv, Books
<1>6. CASE Failed
  BY <1>1, <1>4, <1>6, QuietFailure
<1>7. CASE Stage("uninstall")
  <2>1. Midway(s, "uninstall")' /\ "uninstall" \in Stages
    BY DEF Midway, Stages
  <2>2. CommandOK'
    BY <1>1, <1>4, <1>5, <1>7, <2>1, CommandStage DEF InstInv
  <2> QED
    BY <1>5, <2>2 DEF InstInv
<1>8. CASE cmd' = [cmd EXCEPT !.todo = @ \ {a}] /\ applied' = applied
  <2>1. cmd' = [cmd EXCEPT !.todo = @ \ {a}, !.failed = FALSE]
    BY <1>4, <1>8 DEF InstInv, CommandOK, CmdSet
  <2>2. SoFar(s, InstHosts \ {a})'
    BY <1>3 DEF SoFar, Wanted
  <2>3. CommandOK'
    BY <1>1, <1>4, <1>5, <1>8, <2>1, <2>2, CommandVisited DEF InstInv
  <2> QED
    BY <1>5, <2>3 DEF InstInv
<1> QED
  BY <1>6, <1>7, <1>8 DEF DeleteNode

\* The agent is uninstalled, in a command that is no apply.
LEMMA UninstallStep ==
    ASSUME InstInv, NEW a \in Agents, UninstallAgent(a)
    PROVE  InstInv'
<1>1. /\ AtStep("node_remove") /\ Done /\ UNCHANGED <<conf, file, nodes, release, recorded, commands, instFaults>>
      /\ hosts' = [hosts EXCEPT !.active = @ \ {a}, !.registries[a] = 0, !.loaded[a] = 0]
      /\ cutOff' = cutOff \ {a}
  BY DEF UninstallAgent
<1>2. WorldOK'
  BY <1>1, WorldUninstall DEF InstInv
<1>3. Books'
  BY <1>1 DEF InstInv, Books
<1>4. cmd.full = FALSE /\ cmd.steps # <<>> /\ cmd.steps[1] = "node_remove" /\ ~cmd.failed
  <2>1. "node_remove" \notin VisitingSteps
    BY DEF VisitingSteps
  <2> QED
    BY <1>1, <2>1, AtStepFacts
<1>5. cmd.steps \in Seq(Steps) /\ Len(cmd.steps) \in Nat \ {0} /\ cmd \in CmdSet
  BY <1>4, CommandFacts DEF InstInv, CommandOK
<1>6. /\ cmd' \in CmdSet /\ cmd'.full = FALSE /\ cmd'.failed = FALSE /\ cmd'.stage = "mark" /\ applied' = FALSE
  <2>1. CASE Len(cmd.steps) = 1
    <3>1. cmd' = NoCommand /\ applied' = FALSE
      BY <1>1, <1>4, <2>1 DEF Done
    <3> QED
      BY <3>1 DEF NoCommand, CmdSet, Stages
  <2>2. CASE Len(cmd.steps) # 1
    <3>1. PICK t \in Seq(Steps) : t = Tail(cmd.steps)
      <4>1. Tail(cmd.steps) \in Seq(Steps)
        BY <1>4, <1>5
      <4> QED
        BY <4>1
    <3>2. cmd' = [cmd EXCEPT !.steps = t, !.stage = "mark", !.todo = {}] /\ applied' = FALSE
      BY <1>1, <2>2, <3>1 DEF Done
    <3> QED
      BY <1>4, <1>5, <3>1, <3>2 DEF CmdSet, Stages
  <2> QED
    BY <2>1, <2>2
<1>7. CommandOK'
  BY <1>6 DEF CommandOK, ShapeOK, StepOK, ProgressOK
<1> QED
  BY <1>2, <1>3, <1>7 DEF InstInv

\* K3s is not there to be installed, and the command takes it for installed.
LEMMA NothingFetchedStep ==
    ASSUME InstInv, NEW h \in InstHosts, NothingFetched(h)
    PROVE  InstInv'
<1>1. /\ UNCHANGED <<conf, file, nodes, release, recorded, cutOff, commands>> /\ Fault
      /\ hosts' = [hosts EXCEPT !.missed = @ \cup {h}]
  BY DEF NothingFetched
<1>2. WorldOK' /\ Keeps /\ h \in hosts'.missed
  <2>1. PICK m : m = hosts.missed \cup {h}
    OBVIOUS
  <2>2. m \in SUBSET InstHosts /\ hosts.missed \subseteq m
    BY <2>1 DEF InstInv, WorldOK, WorldTypes, HostSet
  <2>3. hosts' = [hosts EXCEPT !.missed = m]
    BY <1>1, <2>1 DEF InstInv, WorldOK, WorldTypes, HostSet
  <2> QED
    BY <1>1, <2>1, <2>2, <2>3, WorldMissed DEF InstInv
<1>3. Books'
  BY <1>1, FaultBooks DEF InstInv, Books
<1>4. CASE AtStep("join_agents") /\ VisitTurn(h) /\ cmd' = [cmd EXCEPT !.todo = @ \ {h}] /\ UNCHANGED applied
  <2>1. PICK failed \in BOOLEAN : failed = cmd.failed
    BY DEF InstInv, CommandOK, CmdSet
  <2>2. cmd' = [cmd EXCEPT !.todo = @ \ {h}, !.failed = failed] /\ cmd.stage = "run"
    BY <1>4, <2>1 DEF InstInv, CommandOK, CmdSet, VisitTurn
  <2>3. SoFar("join_agents", InstHosts \ {h})'
    <3>1. conf.agents \ (InstHosts \ {h}) \subseteq {h}
      BY HostsAndCharts DEF InstInv, InstHosts
    <3> QED
      BY <1>1, <1>2, <3>1 DEF SoFar
  <2>4. CommandOK'
    BY <1>1, <1>2, <1>4, <2>1, <2>2, <2>3, AtStepFacts, CommandVisited DEF InstInv, VisitingSteps
  <2> QED
    BY <1>2, <1>3, <2>4 DEF InstInv
<1>5. CASE AtStep("install_master") /\ Done
  <2>1. "install_master" \notin VisitingSteps /\ Result("install_master")'
    BY DEF VisitingSteps, Result, SoFar, Charts
  <2>2. cmd.steps # <<>> /\ cmd.steps[1] = "install_master" /\ ~cmd.failed
    BY <1>5, <2>1, AtStepFacts
  <2>3. CommandOK'
    BY <1>2, <1>5, <2>1, <2>2, CommandDone DEF InstInv
  <2> QED
    BY <1>2, <1>3, <2>3 DEF InstInv
<1> QED
  BY <1>4, <1>5 DEF NothingFetched

\* A host is rebooted, also after a successful apply.
LEMMA RebootStep ==
    ASSUME InstInv, NEW h \in InstHosts, Reboot(h)
    PROVE  InstInv'
<1>1. /\ Fault /\ StartK3s(h)
      /\ UNCHANGED <<conf, file, cmd, release, recorded, applied, commands>>
  BY DEF Reboot
<1>2. WorldOK' /\ Keeps
  BY <1>1, WorldStart DEF InstInv
<1>3. Books'
  BY <1>1, FaultBooks DEF InstInv, Books
<1>4. CommandOK'
  BY <1>1, <1>2, CommandSame DEF InstInv
<1> QED
  BY <1>2, <1>3, <1>4 DEF InstInv

-----------------------------------------------------------------------------
(* The theorems. *)

\* Before the first command.
LEMMA InstInitial ==
    ASSUME InstallerInit
    PROVE  InstInv
<1>1. Books
  BY InstallerAssumption DEF InstallerInit, Books
<1>2. 0 \in 0 .. MaxVersion /\ 1 \in Versions
  BY InstallerAssumption DEF Versions
<1>3. WorldTypes
  <2>1. conf \in [version : Versions, agents : AgentLists]
    BY <1>2 DEF InstallerInit
  <2>2. hosts \in HostSet
    BY <1>2 DEF InstallerInit, HostSet
  <2>3. /\ nodes \subseteq Agents /\ cutOff \subseteq InstHosts \cup Charts
        /\ release \in [Charts \cup Overlays -> 0 .. MaxVersion] /\ recorded \in [Charts -> 0 .. MaxVersion]
    BY <1>2 DEF InstallerInit
  <2> QED
    BY <2>1, <2>2, <2>3 DEF WorldTypes
<1>4. LinkOK
  BY DEF InstallerInit, LinkOK
<1>5. CommandOK
  <2>1. cmd = NoCommand /\ applied = FALSE
    BY DEF InstallerInit
  <2>2. /\ NoCommand \in CmdSet /\ NoCommand.steps = <<>> /\ NoCommand.full = FALSE /\ NoCommand.failed = FALSE
        /\ NoCommand.stage = "mark"
    BY DEF NoCommand, CmdSet, Stages
  <2> QED
    BY <2>1, <2>2 DEF CommandOK, ShapeOK, StepOK, ProgressOK
<1> QED
  BY <1>1, <1>3, <1>4, <1>5 DEF InstInv, WorldOK

\* Nothing happens.
LEMMA InstUnchanged ==
    ASSUME InstInv, UNCHANGED instVars
    PROVE  InstInv'
<1>1. UNCHANGED <<conf, file, cmd, hosts, nodes, release, recorded, cutOff, applied, commands, instFaults>>
  BY DEF instVars
<1>2. WorldOK' /\ Keeps
  BY <1>1, WorldSame DEF InstInv
<1>3. CommandOK'
  BY <1>1, <1>2, CommandSame DEF InstInv
<1>4. Books'
  BY <1>1 DEF InstInv, Books
<1> QED
  BY <1>2, <1>3, <1>4 DEF InstInv

\* The inductive invariant of the installer.
THEOREM InstallerInvariance == InstallerSpec => []InstInv
<1>1. InstInv /\ [InstallerNext]_instVars => InstInv'
  BY OperatorStep, DeathStep, MarkStep, AllVisitedStep, VisitStep, VisitFailsStep, DeleteNodeStep, UninstallStep,
     NothingFetchedStep, RebootStep, MasterStep, ReadOnlyLemma, FingerprintStep, UpgradeStep, RecordStep, OverlayStep, InstUnchanged
  DEF InstallerNext
<1> QED
  BY <1>1, InstInitial, PTL DEF InstallerSpec

\* Hosts, cluster and command keep their types.
THEOREM InstallerTypeCorrect == InstallerSpec => []InstallerTypeOK
<1>1. InstInv => InstallerTypeOK
  BY DEF InstInv, Books, WorldOK, WorldTypes, CommandOK, CmdSet, HostSet, Stages, InstallerTypeOK
<1> QED
  BY <1>1, InstallerInvariance, PTL

\* Whatever failed, died or was edited before it, an apply that succeeds leaves
\* the hosts and the cluster as configured, but for agents whose installation
\* downloaded nothing and what a script that was cut off has left half done.
THEOREM ApplySucceeds == InstallerSpec => []ApplyInstalls
<1>1. ASSUME InstInv, applied PROVE ApplyInstalls
  <2>1. \A s \in Steps : Result(s)
    BY <1>1 DEF InstInv, CommandOK, ShapeOK, ProgressOK, Among
  <2>2. /\ HasMirrors => \A h \in Configured : hosts.registries[h] = conf.version
        /\ conf.agents \subseteq hosts.active \cup hosts.missed
        /\ HasLonghorn => Configured \subseteq hosts.iscsi
    BY <2>1 DEF Result, SoFar, Steps
  <2>3. \A c \in Charts : Asked(c) => ChartIs(c)
    BY <2>1 DEF Result, Steps, Charts
  <2>4. release["system"] = conf.version /\ (HasSandbox => release["sandbox"] = conf.version)
    BY <2>1 DEF Result, Steps
  <2>5. Master \in hosts.active
    <3>1. "install_cilium" \in Charts /\ ChartIs("install_cilium")
      BY <2>3 DEF Charts, Asked
    <3>2. conf.version # 0
      BY <1>1, HostsAndCharts DEF InstInv
    <3> QED
      BY <1>1, <3>1, <3>2 DEF ChartIs, InstInv, WorldOK, LinkOK
  <2>6. HasMirrors => \A h \in Configured : h \in hosts.active \ cutOff => hosts.loaded[h] = conf.version
    <3>1. Configured \subseteq InstHosts
      BY <1>1, HostsAndCharts DEF InstInv
    <3> QED
      BY <1>1, <2>2, <3>1 DEF InstInv, WorldOK, LinkOK
  <2> QED
    BY <2>2, <2>3, <2>4, <2>5, <2>6 DEF ApplyInstalls, Configured, ChartIs, Asked
<1>2. InstInv => ApplyInstalls
  BY <1>1 DEF ApplyInstalls
<1> QED
  BY <1>2, InstallerInvariance, PTL
=============================================================================
