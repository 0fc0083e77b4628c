------------------------ MODULE MCControlPlaneProofs -------------------------
(***************************************************************************)
(* The services behind the API and the installer as they are explored      *)
(* together: each behaves as its own specification says, so that what is   *)
(* proved of each holds of the whole.                                      *)
(***************************************************************************)
EXTENDS MCControlPlane, TemplateStoreProofs, ControlPlaneProofs, InstallerProofs

\* Whatever the area, the steps of each service are its own, and the initial
\* states are initial states of each.
THEOREM ControlPlaneImplementsParts ==
    Spec => TemplateSpec /\ PrepullSpec /\ NetworkSpec /\ AuthSpec /\ StartSpec /\ InstallerSpec /\ RetrySpec
<1>1. Init => /\ TemplateInit /\ PrepullInit /\ NetworkInit /\ AuthInit /\ StartInit /\ InstallerInit
              /\ RetryInit
  BY DEF Init
<1>2. [Next]_mcVars =>
        /\ [TemplateNext]_tplVars /\ [PrepullNext]_ppVars /\ [NetworkNext]_netVars /\ [AuthNext]_authVars
        /\ [StartNext]_startVars /\ [InstallerNext]_instVars /\ [RetryNext]_retryVars
  <2> SUFFICES ASSUME [Next]_mcVars
               PROVE  /\ [TemplateNext]_tplVars /\ [PrepullNext]_ppVars /\ [NetworkNext]_netVars
                      /\ [AuthNext]_authVars /\ [StartNext]_startVars /\ [InstallerNext]_instVars
                      /\ [RetryNext]_retryVars
    OBVIOUS
  <2>1. CASE InTemplates(TemplateNext)
    BY <2>1 DEF InTemplates
  <2>2. CASE InPrepull(PrepullNext)
    BY <2>2 DEF InPrepull
  <2>3. CASE InNetwork(NetworkNext)
    BY <2>3 DEF InNetwork
  <2>4. CASE InAuth(AuthNext)
    BY <2>4 DEF InAuth
  <2>5. CASE InStart(StartNext)
    BY <2>5 DEF InStart
  <2>6. CASE InInstaller(InstallerNext)
    BY <2>6 DEF InInstaller
  <2>7. CASE InRetry(RetryNext)
    BY <2>7 DEF InRetry
  <2>8. CASE UNCHANGED mcVars
    BY <2>8 DEF mcVars
  <2> QED
    BY <2>1, <2>2, <2>3, <2>4, <2>5, <2>6, <2>7, <2>8 DEF Next
<1> QED
  BY <1>1, <1>2, PTL
  DEF Spec, TemplateSpec, PrepullSpec, NetworkSpec, AuthSpec, StartSpec, InstallerSpec, RetrySpec

\* All the services keep their types.
THEOREM ControlPlaneTypeCorrect == Spec => []TypeOK
<1>1. /\ TemplateTypeOK /\ PrepullTypeOK /\ NetworkTypeOK /\ AuthTypeOK /\ StartTypeOK /\ InstallerTypeOK
      /\ RetryTypeOK
      => TypeOK
  BY DEF TypeOK
<1> QED
  BY <1>1, ControlPlaneImplementsParts, TemplateTypeCorrect, PrepullTypeCorrect, NetworkTypeCorrect,
     AuthTypeCorrect, StartTypeCorrect, InstallerTypeCorrect, RetryTypeCorrect, PTL
=============================================================================
