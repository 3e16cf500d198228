---------------------------- MODULE MCServicesLive ----------------------------
(***************************************************************************)
(* Instances for TLC of the components that must make progress: the        *)
(* publisher, the tenant manager and the ad hoc handler. A behaviour is    *)
(* that of one of them, the machine, while the others stay where they      *)
(* began.                                                                  *)
(***************************************************************************)
EXTENDS Publisher, TenantManager, AdHoc

VARIABLE machine

\* An ad hoc handler that has been shut down.
AdHocEnded ==
  /\ handling = "done" /\ handlerEnd = "nil" /\ attempts = 0
  /\ stopping = TRUE /\ receiving = FALSE /\ requests = <<>> /\ streamEnd = "open"
  /\ progress = [r \in Requests |-> "new"] /\ adhocFaults = 0

\* The publisher and the tenant manager owe nothing where they begin.
LiveInit ==
  /\ machine \in {"publisher", "tenants", "adhoc"}
  /\ machine # "tenants" => apiTenant = [modified |-> 1, kind |-> CHOOSE k \in StoreKinds : TRUE]
  /\ Init /\ TenantsInit
  /\ IF machine = "adhoc" THEN AdHocInit ELSE AdHocEnded

Only(m) ==
  /\ machine = m /\ UNCHANGED machine
  /\ m # "publisher" => UNCHANGED vars
  /\ m # "tenants" => UNCHANGED tenantVars
  /\ m # "adhoc" => UNCHANGED adhocVars

LiveNext ==
  \/ Only("publisher") /\ Next
  \/ Only("tenants") /\ TenantsNext
  \/ Only("adhoc") /\ AdHocNext

LiveSpec ==
  /\ LiveInit /\ [][LiveNext]_<<machine, vars, tenantVars, adhocVars>>
  /\ PublisherFairness /\ TenantsFairness /\ AdHocFairness
==============================================================================
