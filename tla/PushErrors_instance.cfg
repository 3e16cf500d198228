CONSTANT Codes <- MCCodes
SPECIFICATION Spec
INVARIANT InstanceIssueRefreshesTenant
