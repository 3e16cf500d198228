------------------------------ MODULE MCServices ------------------------------
(***************************************************************************)
(* Instances for TLC of the components that serve the updater, the scrapers*)
(* and the publisher. They share no state: a behaviour is that of one of   *)
(* them, the machine, while the others stay where they began.              *)
(***************************************************************************)
EXTENDS MCPushErrors, TenantManager, Telemetry, K6Repository, K6Runner, K6Process,
        PusherV1, SnappyConcat, Ids, Validation, Wire

CONSTANTS c1, c2

VARIABLE machine

Machines == {"push errors", "tenants", "telemetry", "k6 repository", "k6 runner",
             "k6 process", "pusher v1", "snappy", "ids", "validation", "wire"}

------------------------------------------------------------------------------
(* Values of the constants                                                 *)

CallerSymmetry == Permutations(Callers)

File(kind, version) == [kind |-> kind, version |-> version]

MCDirectories ==
  {<<>>,
   <<File("k6", 1), File("directory", 9), File("k6", 3), File("k6", 2)>>,
   <<File("k6", 3), File("foreign", 5), File("k6", 3), File("k6", 1)>>}

MCConstraints == {{1, 2}, {1, 2, 3}, {4}}

MCPartsOf == [p \in Payloads |-> IF p = 1 THEN {"logs", "metrics"} ELSE {"metrics"}]

\* The sums of the lengths take one byte, or, with lengths that do, two.
MCRecords ==
  {<<>>, <<Compressed(1, 1)>>,
   <<Compressed(3, 1), Compressed(0, 0), Compressed(2, 2)>>,
   <<Compressed(2, 1), Compressed(126, 2), Compressed(4, 3)>>}

MCSettingsSets ==
  {{}, {"dns", "http"}, {"ping", "browser"}} \cup {{CheckTypes[i]} : i \in DOMAIN CheckTypes}

------------------------------------------------------------------------------

ServicesInit ==
  /\ machine \in Machines
  /\ machine # "push errors" => o = BadURL
  /\ machine # "tenants" => apiTenant = [modified |-> 1, kind |-> CHOOSE k \in StoreKinds : TRUE]
  /\ machine # "telemetry" => execution = [s \in Scrapers |-> CHOOSE k \in Keys : TRUE]
  /\ machine # "k6 repository" =>
       directory = <<>> /\ override = 0 /\ wanted = [r \in Resolvers |-> {}]
  /\ machine # "snappy" => records = <<>>
  /\ Init /\ TenantsInit /\ TelemetryInit /\ RepositoryInit /\ K6Init /\ ProcessInit
  /\ V1Init /\ SnappyInit /\ IdsInit /\ ValidationInit /\ WireInit

Only(m) ==
  /\ machine = m /\ UNCHANGED machine
  /\ m # "push errors" => UNCHANGED o
  /\ m # "tenants" => UNCHANGED tenantVars
  /\ m # "telemetry" => UNCHANGED telemetryVars
  /\ m # "k6 repository" => UNCHANGED repositoryVars
  /\ m # "k6 runner" => UNCHANGED k6Vars
  /\ m # "k6 process" => UNCHANGED processVars
  /\ m # "pusher v1" => UNCHANGED v1Vars
  /\ m # "snappy" => UNCHANGED snappyVars
  /\ m # "ids" => UNCHANGED <<sentIds, check>>
  /\ m # "validation" => UNCHANGED validationVars
  /\ m # "wire" => UNCHANGED wired

ServicesNext ==
  \/ Only("push errors") /\ Next
  \/ Only("tenants") /\ TenantsNext
  \/ Only("telemetry") /\ TelemetryNext
  \/ Only("k6 repository") /\ RepositoryNext
  \/ Only("k6 runner") /\ K6Next
  \/ Only("k6 process") /\ RunScript
  \/ Only("pusher v1") /\ V1Next
  \/ Only("snappy") /\ SnappyNext
  \/ Only("ids") /\ IdsNext
  \/ Only("validation") /\ Validate
  \/ Only("wire") /\ Transmit

ServicesSpec ==
  ServicesInit /\ [][ServicesNext]_<<machine, o, tenantVars, telemetryVars, repositoryVars,
    k6Vars, processVars, v1Vars, snappyVars, sentIds, check, validationVars, wired>>
==============================================================================
