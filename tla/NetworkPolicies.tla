--------------------------- MODULE NetworkPolicies ---------------------------
(***************************************************************************)
(* What a sandbox may reach: the base policies and the allow-list policies *)
(* of k8s/network_policy.go, the label on the pod, and the reconciler of   *)
(* the network controller (service/network_policy_reconciler.go) that      *)
(* keeps the allow-lists in step with the sandboxes and the templates.     *)
(*                                                                         *)
(* All sandboxes are made from the same version of the same template name. *)
(* The destinations told apart are the cluster's DNS, two public hosts, the *)
(* other public hosts, and everything private, the API server included.    *)
(***************************************************************************)
EXTENDS Naturals, FiniteSets, Sequences

CONSTANTS NetSandboxes,   \* sandbox ids
          MaxNetChanges,  \* bound on changes of sandboxes and templates
          MaxNetFaults    \* bound on API calls that fail and on restarts

ASSUME NetAssumption == MaxNetChanges \in Nat /\ MaxNetFaults \in Nat

VARIABLES
    basePolicies, \* the names of the base policies in the namespace
    ensured,      \* how many of them EnsureDefaultPolicies has done, or Off
    netRows,      \* sandboxes: [status, label]
    netTemplate,  \* what the template version says now, "gone" when it is not found
    allowLists,   \* the allow-list policies: sandbox -> hosts, of those that exist
    netPass,      \* the reconciler's pass: its phase, rows and findings
    netChanges, netFaults,
    granted       \* history: hosts the version has listed in a sandbox's life

netVars == <<basePolicies, ensured, netRows, netTemplate, allowLists, netPass, netChanges, netFaults, granted>>

Hosts == {"host1", "host2"}
Public == Hosts \cup {"other"}
Everything == Public \cup {"dns", "private"}

\* The network part of a template version: no access, access to the internet,
\* or to listed hosts.
NetSpecs == {"closed", "open", "list1", "list2"}

AllowedDomains(spec) ==
    CASE spec = "list1" -> {"host1"} [] spec = "list2" -> {"host2"} [] OTHER -> {}

-----------------------------------------------------------------------------
(* The policies.  A pod that some policy selects for a direction may only   *)
(* do what one of them allows; without any it may do everything.            *)

defaultDenyAllPolicy == [name |-> "default-deny-all", labelled |-> FALSE, types |-> {"in", "out"}, out |-> {}, in |-> {}]

allowDNSPolicy == [name |-> "allow-dns", labelled |-> FALSE, types |-> {"out"}, out |-> {"dns"}, in |-> {}]

denyK8sAPIPolicy == [name |-> "deny-k8s-api", labelled |-> FALSE, types |-> {"out"}, out |-> {"dns"}, in |-> {}]

allowGatewayIngressPolicy ==
    [name |-> "allow-gateway-ingress", labelled |-> FALSE, types |-> {"in"}, out |-> {}, in |-> {"gateway"}]

\* For the pods with the internet label; private ranges are excepted.
allowInternetEgressPolicy ==
    [name |-> "allow-internet-egress", labelled |-> TRUE, types |-> {"out"}, out |-> Public \cup {"dns"}, in |-> {}]

\* EnsureDefaultPolicies, in its order.
BasePolicies == <<defaultDenyAllPolicy, allowDNSPolicy, denyK8sAPIPolicy,
                  allowGatewayIngressPolicy, allowInternetEgressPolicy>>

Off == Len(BasePolicies) + 1 \* the API server is not running

domainAllowlistPolicy(hosts) ==
    [name |-> "allowlist", labelled |-> FALSE, types |-> {"out"}, out |-> hosts \cup {"dns"}, in |-> {}]

\* The policies that select the pod of a sandbox.
Selecting(s) ==
    {p \in {BasePolicies[i] : i \in 1 .. Len(BasePolicies)} :
        p.name \in basePolicies /\ (p.labelled => netRows[s].label)}
    \cup IF s \in DOMAIN allowLists THEN {domainAllowlistPolicy(allowLists[s])} ELSE {}

Egress(s) ==
    LET ps == {p \in Selecting(s) : "out" \in p.types}
    IN IF ps = {} THEN Everything ELSE UNION {p.out : p \in ps}

Ingress(s) ==
    LET ps == {p \in Selecting(s) : "in" \in p.types}
    IN IF ps = {} THEN {"gateway", "others"} ELSE UNION {p.in : p \in ps}

-----------------------------------------------------------------------------
Idle == [phase |-> "idle", rows |-> <<>>, todo |-> {}, desired |-> {}]

NetworkInit ==
    /\ basePolicies = {} /\ ensured = Off
    /\ netRows = [s \in NetSandboxes |-> [status |-> "none", label |-> FALSE]]
    /\ netTemplate \in NetSpecs
    /\ allowLists = [s \in {} |-> {}]
    /\ netPass = Idle
    /\ netChanges = 0 /\ netFaults = 0
    /\ granted = [s \in NetSandboxes |-> {}]

(* The API server: its start, its sandboxes and its templates. *)

\* The process starts and goes through the base policies.
ServerStarts ==
    /\ ensured = Off
    /\ ensured' = 0
    /\ UNCHANGED <<basePolicies, netRows, netTemplate, allowLists, netPass, netChanges, netFaults, granted>>

\* ensurePolicy: created, or updated to the same contents.
ensurePolicy ==
    /\ ensured \in 0 .. Len(BasePolicies) - 1
    /\ basePolicies' = basePolicies \cup {BasePolicies[ensured + 1].name}
    /\ ensured' = ensured + 1
    /\ UNCHANGED <<netRows, netTemplate, allowLists, netPass, netChanges, netFaults, granted>>

\* One fails: the rest is not tried, and main() only warns; or the process
\* ends and is started again.
EnsureStops ==
    /\ ensured # Off /\ netFaults < MaxNetFaults
    /\ ensured' \in {Off, Len(BasePolicies)}
    /\ netFaults' = netFaults + 1
    /\ UNCHANGED <<basePolicies, netRows, netTemplate, allowLists, netPass, netChanges, granted>>

Changes == netChanges < MaxNetChanges /\ netChanges' = netChanges + 1

\* A pod that has a list of hosts gets the internet label too.
LabelWhenAllowed(spec) == spec # "closed"

\* The label of a pod (CreatePod, buildPersistentDeployment).
InternetLabel(spec) == spec = "open"

CreateSandbox(s) ==
    /\ ensured = Len(BasePolicies) /\ Changes
    /\ netRows[s].status = "none" /\ netTemplate # "gone"
    /\ netRows' = [netRows EXCEPT ![s] = [status |-> "live", label |-> InternetLabel(netTemplate)]]
    /\ granted' = [granted EXCEPT ![s] = AllowedDomains(netTemplate) \cup
                                         IF netTemplate = "open" THEN Public ELSE {}]
    /\ UNCHANGED <<basePolicies, ensured, netTemplate, allowLists, netPass, netFaults>>

\* The row of a sandbox whose pod may be running; "failed" also stands for the
\* other statuses the reconciler passes over and a row may come back from.
MayRun(s) == netRows[s].status \in {"live", "failed"}

\* The lifecycle reconciler or the startup timeout writes the row's status,
\* or the sandbox is found running again.
ChangeStatus(s) ==
    /\ Changes
    /\ MayRun(s)
    /\ netRows' = [netRows EXCEPT ![s].status = IF @ = "live" THEN "failed" ELSE "live"]
    /\ UNCHANGED <<basePolicies, ensured, netTemplate, allowLists, netPass, netFaults, granted>>

\* The deletion of the sandbox is asked for, which is for good.
EndSandbox(s) ==
    /\ Changes
    /\ MayRun(s)
    /\ netRows' = [netRows EXCEPT ![s].status = "ended"]
    /\ UNCHANGED <<basePolicies, ensured, netTemplate, allowLists, netPass, netFaults, granted>>

\* A version never changes, but its template may be deleted and another one
\* created under its name.
ChangeTemplate(spec) ==
    /\ Changes
    /\ IF netTemplate = "gone" THEN spec \in NetSpecs ELSE spec = "gone"
    /\ netTemplate' = spec
    /\ granted' = [s \in NetSandboxes |->
            granted[s] \cup IF MayRun(s) THEN AllowedDomains(spec) ELSE {}]
    /\ UNCHANGED <<basePolicies, ensured, netRows, allowLists, netPass, netFaults>>

-----------------------------------------------------------------------------
(* RunOnce. *)

\* The status of the row is not looked at.
DesiredWhateverStatus(status) == AllowedDomains(netTemplate)

\* The hosts for a row as it was listed and the template as it is now; none
\* means that no policy should exist.
desiredAllowedDomains(status) ==
    IF status = "live" THEN AllowedDomains(netTemplate) ELSE {}

ListRows ==
    /\ netPass.phase = "idle"
    /\ netPass' = [phase |-> "apply", rows |-> [s \in NetSandboxes |-> netRows[s].status],
                   todo |-> {s \in NetSandboxes : netRows[s].status # "none"}, desired |-> {}]
    /\ UNCHANGED <<basePolicies, ensured, netRows, netTemplate, allowLists, netChanges, netFaults, granted>>

\* One row: its policy is created or updated when there should be one.  The
\* call may fail, and so may the query for the hosts, before they are noted.
ApplyDomainAllowlistPolicy(s) ==
    LET hosts == desiredAllowedDomains(netPass.rows[s])
        done  == [netPass EXCEPT !.todo = @ \ {s}]
        noted == [done EXCEPT !.desired = IF hosts = {} THEN @ ELSE @ \cup {s}]
    IN
    /\ netPass.phase = "apply" /\ s \in netPass.todo
    /\ \/ /\ allowLists' = IF hosts = {} THEN allowLists
                           ELSE [x \in DOMAIN allowLists \cup {s} |-> IF x = s THEN hosts ELSE allowLists[x]]
          /\ netPass' = noted
          /\ UNCHANGED netFaults
       \/ /\ hosts # {} /\ netFaults < MaxNetFaults /\ netFaults' = netFaults + 1
          /\ netPass' \in {noted, done}
          /\ UNCHANGED allowLists
    /\ UNCHANGED <<basePolicies, ensured, netRows, netTemplate, netChanges, granted>>

\* The policies that are there; those found desired above are left alone.
ListManagedDomainAllowlistPolicies ==
    /\ netPass.phase = "apply" /\ netPass.todo = {}
    /\ netPass' = [netPass EXCEPT !.phase = "delete", !.todo = DOMAIN allowLists \ netPass.desired]
    /\ UNCHANGED <<basePolicies, ensured, netRows, netTemplate, allowLists, netChanges, netFaults, granted>>

\* A policy nobody wants, asked again with the listed row, goes.
DeleteDomainAllowlistPolicy(s) ==
    /\ netPass.phase = "delete" /\ s \in netPass.todo
    /\ netPass' = [netPass EXCEPT !.todo = @ \ {s}]
    /\ \/ /\ allowLists' = IF desiredAllowedDomains(netPass.rows[s]) # {} THEN allowLists
                           ELSE [x \in DOMAIN allowLists \ {s} |-> allowLists[x]]
          /\ UNCHANGED netFaults
       \/ /\ netFaults < MaxNetFaults /\ netFaults' = netFaults + 1
          /\ UNCHANGED allowLists
    /\ UNCHANGED <<basePolicies, ensured, netRows, netTemplate, netChanges, granted>>

PassEnds ==
    /\ netPass.phase = "delete" /\ netPass.todo = {}
    /\ netPass' = Idle
    /\ UNCHANGED <<basePolicies, ensured, netRows, netTemplate, allowLists, netChanges, netFaults, granted>>

\* A list call fails or the controller is restarted.
PassAborts ==
    /\ netPass.phase # "idle" /\ netFaults < MaxNetFaults
    /\ netPass' = Idle
    /\ netFaults' = netFaults + 1
    /\ UNCHANGED <<basePolicies, ensured, netRows, netTemplate, allowLists, netChanges, granted>>

\* The ticker starts a pass again and again, and a pass goes on.
RunOnce ==
    \/ ListRows \/ ListManagedDomainAllowlistPolicies \/ PassEnds
    \/ \E s \in NetSandboxes : ApplyDomainAllowlistPolicy(s) \/ DeleteDomainAllowlistPolicy(s)

NetworkNext ==
    \/ ServerStarts \/ ensurePolicy \/ EnsureStops
    \/ \E s \in NetSandboxes : CreateSandbox(s) \/ ChangeStatus(s) \/ EndSandbox(s)
    \/ \E spec \in NetSpecs \cup {"gone"} : ChangeTemplate(spec)
    \/ RunOnce \/ PassAborts

NetworkSpec == NetworkInit /\ [][NetworkNext]_netVars

-----------------------------------------------------------------------------
NetworkTypeOK ==
    /\ basePolicies \subseteq {BasePolicies[i].name : i \in 1 .. Len(BasePolicies)}
    /\ netRows \in [NetSandboxes -> [status : {"none", "live", "failed", "ended"}, label : BOOLEAN]]
    /\ netTemplate \in NetSpecs \cup {"gone"}
    /\ DOMAIN allowLists \subseteq NetSandboxes
    /\ \A s \in DOMAIN allowLists : allowLists[s] \in (SUBSET Hosts) \ {{}}
    /\ netPass.phase \in {"idle", "apply", "delete"} /\ netPass.todo \subseteq NetSandboxes

\* From the moment the first base policy is there, however far the start got
\* with the others and wherever the reconciler stands, a sandbox, shown as
\* running or as failed, reaches DNS and what its template version has granted it, nothing private and never the
\* API server; and nobody but the gateway reaches the sandbox.
ReachIsGranted ==
    "default-deny-all" \in basePolicies =>
        \A s \in NetSandboxes : MayRun(s) =>
            /\ Egress(s) \subseteq granted[s] \cup {"dns"}
            /\ Ingress(s) \subseteq {"gateway"}

\* Once sandboxes and templates come to rest, every allow-list does: a live
\* sandbox has exactly the hosts its version lists, one that failed or ended
\* or whose template was deleted has no policy left, in spite of passes that
\* worked on stale rows, failed half way or died.
PoliciesConverge ==
    <>[](\A s \in NetSandboxes :
            (IF s \in DOMAIN allowLists THEN allowLists[s] ELSE {}) =
            (IF netRows[s].status = "live" THEN AllowedDomains(netTemplate) ELSE {}))

=============================================================================
