--------------------------- MODULE MCControlPlane ---------------------------
(***************************************************************************)
(* The services behind the API and the installer, each explored by itself: *)
(* the variable area says which one this behaviour is about, and the       *)
(* others keep their initial states.                                       *)
(***************************************************************************)
EXTENDS TemplateStore, ImagePrepull, NetworkPolicies, AdminAuth, ServerStart, Installer, DeletionRetry

CONSTANT Areas

VARIABLE area

mcVars == <<area, tplVars, ppVars, netVars, authVars, startVars, instVars, retryVars>>

Init ==
    /\ area \in Areas
    /\ TemplateInit /\ (area = "templates" \/ (tplVersions = {} /\ \A c \in TplRequests : tplOps[c].kind = "delete"))
    /\ PrepullInit
    /\ NetworkInit /\ (area = "network" \/ netTemplate = "closed")
    /\ AuthInit
    /\ StartInit /\ (area = "start" \/ schema.index)
    /\ InstallerInit /\ (area = "installer" \/ conf.agents = Agents)
    /\ RetryInit

InTemplates(A) ==
    area = "templates" /\ A /\ UNCHANGED <<area, ppVars, netVars, authVars, startVars, instVars, retryVars>>
InNetwork(A) ==
    area = "network" /\ A /\ UNCHANGED <<area, tplVars, ppVars, authVars, startVars, instVars, retryVars>>
InAuth(A) ==
    area = "auth" /\ A /\ UNCHANGED <<area, tplVars, ppVars, netVars, startVars, instVars, retryVars>>
InStart(A) ==
    area = "start" /\ A /\ UNCHANGED <<area, tplVars, ppVars, netVars, authVars, instVars, retryVars>>
InInstaller(A) ==
    area = "installer" /\ A /\ UNCHANGED <<area, tplVars, ppVars, netVars, authVars, startVars, retryVars>>
InRetry(A) ==
    area = "retry" /\ A /\ UNCHANGED <<area, tplVars, ppVars, netVars, authVars, startVars, instVars>>

\* Two requests for the image and the updater, or one with a reader and a
\* deletion as well.
InPrepull(A) ==
    /\ area \in {"prepull", "prepull and reader"}
    /\ A /\ UNCHANGED <<area, tplVars, netVars, authVars, startVars, instVars, retryVars>>
    /\ area = "prepull" => \A l \in PrepullReaders : ppLook'[l] = NotLooking /\ ppDelete' = NotDeleting
    /\ area = "prepull and reader" => \A t \in Tasks \ {1} : ppCreate'[t] = "check"

Next ==
    \/ InTemplates(TemplateNext)
    \/ InPrepull(PrepullNext)
    \/ InNetwork(NetworkNext)
    \/ InAuth(AuthNext)
    \/ InStart(StartNext)
    \/ InInstaller(InstallerNext)
    \/ InRetry(RetryNext)

Fairness ==
    /\ \A t \in Tasks : SF_mcVars(InPrepull(LookAt("updater", t)))
    /\ WF_mcVars(InPrepull(UpdaterGoesOn))
    /\ WF_mcVars(InPrepull(\E t \in Tasks : JobExpires(t)))
    /\ WF_mcVars(InNetwork(RunOnce))
    /\ \A p \in Processes : WF_mcVars(InStart(Starts(p)))

Spec == Init /\ [][Next]_mcVars /\ Fairness

TypeOK ==
    /\ TemplateTypeOK /\ PrepullTypeOK /\ NetworkTypeOK /\ AuthTypeOK /\ StartTypeOK
    /\ InstallerTypeOK /\ RetryTypeOK

=============================================================================
