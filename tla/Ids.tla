--------------------------------- MODULE Ids ---------------------------------
(***************************************************************************)
(* The identifiers of checks and tenants (pkg/pb/synthetic_monitoring/     *)
(* ids.go): local ones, unique in their region, and global ones, negative, *)
(* made of a local one and its region; and the check as the agent keeps it *)
(* (internal/model/model.go), with local identifiers and its region.       *)
(***************************************************************************)
EXTENDS Integers

CONSTANTS
  MaxRegions,       \* 1000 in the code
  MaxInt64          \* 2^63 - 1 in the code

ASSUME IdsAssumption ==
  /\ MaxRegions \in Nat \ {0, 1}
  /\ MaxInt64 \in Nat /\ MaxInt64 >= 3 * MaxRegions

Int64 == -(MaxInt64 + 1)..MaxInt64

BadID == 0
MaxRegionID == MaxRegions - 1
MaxLocalID == (MaxInt64 \div MaxRegions) - 1
MaxGlobalID == -(MaxRegions + 1)
MinGlobalID == -(MaxLocalID * MaxRegions + MaxRegionID)

IsGlobalIDValid(id) == MinGlobalID <= id /\ id <= MaxGlobalID
IsRegionIDValid(id) == 1 <= id /\ id <= MaxRegionID
IsLocalIDValid(id) == 1 <= id /\ id <= MaxLocalID

\* BadID where the code returns an error with it.
LocalIDToGlobalID(localID, regionID) ==
  IF IsLocalIDValid(localID) /\ IsRegionIDValid(regionID)
  THEN -(localID * MaxRegions + regionID) ELSE BadID

\* Local identifiers and regions are pairs here; <<BadID, BadID>> with an error.
GlobalIDToLocalID(globalID) ==
  LET localID == (-globalID) \div MaxRegions
      regionID == (-globalID) % MaxRegions
  IN IF IsGlobalIDValid(globalID) /\ IsRegionIDValid(regionID)
     THEN <<localID, regionID>> ELSE <<BadID, BadID>>

GetLocalAndRegionIDs(id) ==
  LET pair == GlobalIDToLocalID(id)
  IN IF pair = <<BadID, BadID>> THEN <<id, 0>> ELSE pair

\* FromSM, for a check that came with these identifiers.
FromSM(id, tenantId) ==
  [id |-> GetLocalAndRegionIDs(id)[1],
   regionId |-> GetLocalAndRegionIDs(id)[2],
   tenantId |-> IF tenantId = 0 THEN 0 ELSE GetLocalAndRegionIDs(tenantId)[1]]

Global(id, regionId) ==
  LET global == LocalIDToGlobalID(id, regionId)
  IN IF global = BadID THEN id ELSE global

Mut_GlobalID(c) == LocalIDToGlobalID(c.id, c.regionId)

GlobalID(c) == Global(c.id, c.regionId)

GlobalTenantID(c) == Global(c.tenantId, c.regionId)

------------------------------------------------------------------------------

VARIABLES
  sentIds,          \* of a check, as the API sent it
  check             \* as the agent keeps it

IdsInit == sentIds = [id |-> 0, tenantId |-> 0] /\ check = FromSM(0, 0)

\* The API sends a check, of this region or of another, or one with its
\* identifier alone; checks and tenants of one region go together.
SendIds(id, tenantId) ==
  /\ tenantId = 0 \/ GetLocalAndRegionIDs(tenantId)[2] = GetLocalAndRegionIDs(id)[2]
  /\ sentIds' = [id |-> id, tenantId |-> tenantId]
  /\ check' = FromSM(id, tenantId)

IdsNext == sentIds.id = 0 /\ \E id, tenantId \in Int64 : SendIds(id, tenantId)

IdsSpec == IdsInit /\ [][IdsNext]_<<sentIds, check>>

------------------------------------------------------------------------------
(* Properties                                                              *)

\* Results are attributed to the check and the tenant the API meant: the
\* identifiers that the agent computes for a check are those it was sent with,
\* global or not, valid or not.
IdsAreKept ==
  /\ GlobalID(check) = sentIds.id
  /\ GlobalTenantID(check) = sentIds.tenantId
==============================================================================
