SPECIFICATION IfSpec
CONSTANT IfAccount <- MCAccounts
INVARIANT IfToolApproves
CHECK_DEADLOCK FALSE
