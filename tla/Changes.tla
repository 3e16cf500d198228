------------------------------- MODULE Changes -------------------------------
\* The messages of the change stream (pkg/pb/synthetic_monitoring/checks.proto):
\* what the API sends and the Updater applies.
EXTENDS Integers, Sequences, FiniteSets

CONSTANT Checks     \* the IDs of the checks

ASSUME ChecksAssumption == IsFiniteSet(Checks)

\* A check's configuration is its version, its Modified time; a deletion only
\* carries the ID.
Change  == [op : {"add", "update"}, check : Checks, version : Nat \ {0}]
           \cup [op : {"delete"}, check : Checks, version : {0}]

\* delta: IsDeltaFirstBatch. tenants: how many tenants it carries.
Message == [tenants : Nat, checks : Seq(Change), delta : BOOLEAN]
==============================================================================
