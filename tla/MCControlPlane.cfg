SPECIFICATION MCSpec
CONSTANTS
    t1 = t1
    NoTask = NoTask
    NoUsage = NoUsage
    Tasks = {t1, t2}
    Workers = {w1, w2}
    Estimate <- MCEstimate
    Costs = {0, 3}
    Limits = {2, 3, 6}
    MaxAttempts = 2
    ExMaxAttempts = 3
    DpPrompts <- MCPrompts
    DpText <- MCText
    DpIntent <- MCIntent
    DpKey <- MCKey
    DpIncompatible = {2}
    DpTaskNodes <- MCNodes
    DpNodes = {"n"}
    DpOld = 2
    DpMaxCalls = 2
    DpMaxEdits = 1
    DpMaxRecs = 1
    DpMaxChanges = 1
    DpForms <- MCForms
    DpLimits = {1, 2}
    AcCallers = {c1, c2}
    AcKeys = 3
    AcOld = 2
    AcFirst <- MCFirst
    AcPage = 1
    AcLimits = {2}
    AcWarning = 1
    AcMaxCredentials = 3
    AcMaxCalls = 2
    AcMaxClock = 2
    IfAccount <- MCAccounts
    RdEvaluators = {m1, m2}
    RdStarts = 2
    RdVisits = 1
    RdMaxFaults = 1
INVARIANTS
    ControlPlaneTypeOK
    AccountSound
    ChargesExplained
    ExReportsAgree
    DpOneRunPerForm
    DpAnswersTrue
    DpAutomaticIsBest
    AcAuditAgrees
    AcListingComplete
    IfServed
    RdNotifiedOnce
PROPERTY
    ExIdentityKept
CHECK_DEADLOCK FALSE
