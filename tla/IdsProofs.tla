------------------------------ MODULE IdsProofs ------------------------------
(***************************************************************************)
(* Identifiers survive the way through the agent, for every number of      *)
(* regions and every width of integers.                                    *)
(***************************************************************************)
EXTENDS Ids, TLAPS

------------------------------------------------------------------------------
(* Arithmetic                                                              *)

\* A quotient and its remainder make up the number.
LEMMA Division ==
  ASSUME NEW x \in Nat, NEW r \in Nat \ {0}
  PROVE  /\ x \div r \in Nat /\ x % r \in 0..(r - 1)
         /\ x = (x \div r) * r + (x % r)
  OBVIOUS

\* The bounds of global identifiers bound their local parts.
LEMMA QuotientBounds ==
  ASSUME NEW q \in Nat, NEW m \in 0..(MaxRegions - 1), NEW l \in Int,
         MaxRegions + 1 <= q * MaxRegions + m,
         q * MaxRegions + m <= l * MaxRegions + MaxRegions - 1
  PROVE  1 <= q /\ q <= l
  BY IdsAssumption

\* The constants are integers.
LEMMA Constants == MaxLocalID \in Int /\ MaxRegions \in Nat \ {0}
  <1>1. MaxInt64 \div MaxRegions \in Nat
    BY Division, IdsAssumption
  <1> QED
    BY <1>1, IdsAssumption DEF MaxLocalID

------------------------------------------------------------------------------
(* The two conversions                                                     *)

\* What GlobalIDToLocalID splits, LocalIDToGlobalID puts together again: a
\* global identifier always has a valid local part.
LEMMA GlobalIsKept ==
  ASSUME NEW id \in Int, IsGlobalIDValid(id), IsRegionIDValid((-id) % MaxRegions)
  PROVE  LocalIDToGlobalID((-id) \div MaxRegions, (-id) % MaxRegions) = id
  <1> DEFINE q == (-id) \div MaxRegions
             m == (-id) % MaxRegions
  <1>1. MaxRegions + 1 <= -id /\ -id <= MaxLocalID * MaxRegions + MaxRegions - 1
    BY Constants DEF IsGlobalIDValid, MinGlobalID, MaxGlobalID, MaxRegionID
  <1>2. q \in Nat /\ m \in 0..(MaxRegions - 1) /\ -id = q * MaxRegions + m
    <2>1. -id \in Nat
      BY <1>1, Constants
    <2> QED
      BY <2>1, Division, Constants
  <1> HIDE DEF q, m
  <1>3. IsLocalIDValid(q)
    BY <1>1, <1>2, QuotientBounds, Constants DEF IsLocalIDValid
  <1>4. IsRegionIDValid(m)
    BY DEF m
  <1>5. -(q * MaxRegions + m) = id
    BY <1>2
  <1>6. LocalIDToGlobalID(q, m) = id
    BY <1>3, <1>4, <1>5 DEF LocalIDToGlobalID
  <1> QED
    BY <1>6 DEF q, m

\* An identifier is kept, whether it is split or not.
LEMMA IdIsKept ==
  ASSUME NEW id \in Int
  PROVE  Global(GetLocalAndRegionIDs(id)[1], GetLocalAndRegionIDs(id)[2]) = id
  <1>1. CASE IsGlobalIDValid(id) /\ IsRegionIDValid((-id) % MaxRegions)
    <2>1. (-id) % MaxRegions # 0
      BY <1>1 DEF IsRegionIDValid
    <2>2. GetLocalAndRegionIDs(id) = <<(-id) \div MaxRegions, (-id) % MaxRegions>>
      BY <1>1, <2>1 DEF GetLocalAndRegionIDs, GlobalIDToLocalID, BadID
    <2>3. id # BadID
      BY <1>1, Constants DEF IsGlobalIDValid, MaxGlobalID, BadID
    <2> QED
      BY <1>1, <2>2, <2>3, GlobalIsKept DEF Global
  <1>2. CASE ~(IsGlobalIDValid(id) /\ IsRegionIDValid((-id) % MaxRegions))
    <2>1. GetLocalAndRegionIDs(id) = <<id, 0>>
      BY <1>2 DEF GetLocalAndRegionIDs, GlobalIDToLocalID
    <2>2. LocalIDToGlobalID(id, 0) = BadID
      BY DEF LocalIDToGlobalID, IsRegionIDValid
    <2> QED
      BY <2>1, <2>2 DEF Global
  <1> QED
    BY <1>1, <1>2

\* A check without a tenant has none either when it is sent on.
LEMMA NoTenantIsKept == \A region : Global(0, region) = 0
  BY DEF Global, LocalIDToGlobalID, IsLocalIDValid, BadID

------------------------------------------------------------------------------

\* The check and its tenant keep their identifiers: results go to the check and
\* the tenant the API meant, whatever identifiers it sends.
THEOREM IdentifiersAreKept == IdsSpec => []IdsAreKept
  <1>1. ASSUME NEW id \in Int, NEW tenantId \in Int,
               \/ tenantId = 0
               \/ GetLocalAndRegionIDs(tenantId)[2] = GetLocalAndRegionIDs(id)[2]
        PROVE  /\ GlobalID(FromSM(id, tenantId)) = id
               /\ GlobalTenantID(FromSM(id, tenantId)) = tenantId
    BY <1>1, IdIsKept, NoTenantIsKept DEF GlobalID, GlobalTenantID, FromSM
  <1>2. IdsInit => IdsAreKept
    BY <1>1 DEF IdsInit, IdsAreKept
  <1>3. IdsAreKept /\ [IdsNext]_<<sentIds, check>> => IdsAreKept'
    <2> SUFFICES ASSUME IdsAreKept, [IdsNext]_<<sentIds, check>> PROVE IdsAreKept'
      OBVIOUS
    <2>1. ASSUME NEW id \in Int64, NEW tenantId \in Int64, SendIds(id, tenantId)
          PROVE  IdsAreKept'
      <3>1. id \in Int /\ tenantId \in Int
        BY IdsAssumption DEF Int64
      <3> QED
        BY <1>1, <2>1, <3>1 DEF SendIds, IdsAreKept, GlobalID, GlobalTenantID
    <2>2. CASE UNCHANGED <<sentIds, check>>
      BY <2>2 DEF IdsAreKept, GlobalID, GlobalTenantID
    <2> QED
      BY <2>1, <2>2 DEF IdsNext
  <1> QED
    BY <1>2, <1>3, PTL DEF IdsSpec
==============================================================================
