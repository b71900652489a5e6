-------------------------- MODULE ServiceAccounts --------------------------
(***************************************************************************)
(* Service accounts and their bearer credentials: registration, rotation,  *)
(* authentication and revocation, each a transaction that reads its rows   *)
(* and later writes and commits; the audit events they append; and the     *)
(* readiness report, which walks the accounts page by page                 *)
(* (security, application.security_services and their repositories).       *)
(*                                                                         *)
(* The service takes no row locks, so two calls interleave between the     *)
(* read and the commit.  An account is identified with its key, keys are   *)
(* numbered in their order, a credential is the number of its row, and a   *)
(* time is a natural number that is 0 where the column is null.            *)
(***************************************************************************)
EXTENDS Integers, FiniteSets, Sequences, FiniteSetsExt, SequencesExt, Ordering

CONSTANTS
    AcCallers,         \* concurrent callers of the service
    AcKeys,            \* number of account keys
    AcOld,             \* accounts registered before the first step
    AcFirst,           \* AcFirst[a]: expiration of an old account's credential
    AcPage,            \* accounts the report reads at a time (500)
    AcLimits,          \* result limits a report may be asked for
    AcWarning,         \* the expiry warning
    AcMaxCredentials,  \* bound: credentials ever issued
    AcMaxCalls,        \* bound: calls begun
    AcMaxClock         \* bound: clock ticks

ASSUME AcAssumption ==
    /\ AcKeys \in Nat /\ AcOld \in 0..AcKeys /\ AcPage \in Nat \ {0}
    /\ AcLimits \subseteq Nat \ {0} /\ AcWarning \in Nat \ {0}
    /\ AcMaxCredentials \in Nat /\ AcOld =< AcMaxCredentials
    /\ AcMaxCalls \in Nat /\ AcMaxClock \in Nat \ {0}
    /\ AcFirst \in [1..AcOld -> (0..AcMaxClock) \ {1}]

VARIABLES
    acClock,    \* the clock the processes share
    acAccount,  \* acAccount[a]: "absent", "enabled" or "disabled"
    acCreds,    \* the credential rows, in the order of their creation
    acEvents,   \* the service_account events of the ledger
    acCall,     \* acCall[c]: the call c is serving
    acCalls,    \* calls begun
    acReport,   \* the readiness report being written
    acSeen      \* history: what a report that began must and may list

acRows == <<acAccount, acCreds, acEvents>>
acVars == <<acClock, acRows, acCall, acCalls, acReport, acSeen>>

AcAccounts == 1..AcKeys
AcTimes == 0..AcMaxClock

\* ServiceAccountCredential; the digest is the credential's number.
AcCredentialRows ==
    [account : AcAccounts, created : AcTimes, expires : AcTimes, revoked : AcTimes, used : AcTimes]

\* credential_issued, credential_revoked and revoked (of the account: cred 0).
AcEventRows ==
    [type : {"issued", "revoked", "account_revoked"}, account : AcAccounts,
     cred : 0..AcMaxCredentials]

AcNone == [phase |-> "idle", account |-> 0, cred |-> 0, at |-> 0, expires |-> 0, used |-> 0]

\* A call between its read and its commit: phase names the operation.
AcCallStates ==
    [phase : {"idle", "issue", "issue_credential", "authenticate", "revoke_credential", "revoke"},
     account : 0..AcKeys, cred : 0..AcMaxCredentials, at : AcTimes, expires : AcTimes,
     used : AcTimes]

\* __post_init__ of the credential: the row may be read back.
AcValid(r) ==
    /\ r.expires # 0 => r.expires > r.created
    /\ r.revoked # 0 => r.revoked >= r.created
    /\ r.used # 0 => r.used >= r.created

\* is_active
AcActive(r, at) == r.revoked = 0 /\ (r.expires = 0 \/ r.expires > at)

AcEvent(type, a, i) == [type |-> type, account |-> a, cred |-> i]

\* list_for_account
AcCredentialsOf(a) == {i \in 1..Len(acCreds) : acCreds[i].account = a}

(***************************************************************************)
(* The readiness of an account                                             *)
(***************************************************************************)

\* _credential_summary: how many credentials are active and how many expired.
AcActiveCount(a, at) == Cardinality({i \in AcCredentialsOf(a) : AcActive(acCreds[i], at)})
AcExpiredCount(a, at) ==
    Cardinality({i \in AcCredentialsOf(a) :
        acCreds[i].revoked = 0 /\ acCreds[i].expires # 0 /\ acCreds[i].expires =< at})

\* next_expires_at is within the warning.
AcExpiring(a, at) ==
    \E i \in AcCredentialsOf(a) :
        AcActive(acCreds[i], at) /\ acCreds[i].expires # 0 /\ acCreds[i].expires - at =< AcWarning

\* _credential_readiness
AcReadiness(enabled, a, at) ==
    CASE ~enabled -> "account_disabled"
      [] enabled /\ AcActiveCount(a, at) = 0 /\ AcExpiredCount(a, at) > 0 -> "expired"
      [] enabled /\ AcActiveCount(a, at) = 0 /\ AcExpiredCount(a, at) = 0 -> "no_usable_credential"
      [] enabled /\ AcActiveCount(a, at) > 0 /\ AcExpiring(a, at) -> "expiring_soon"
      [] OTHER -> "healthy"

(***************************************************************************)
(* Transactions                                                            *)
(***************************************************************************)

AcBegin(c, call) ==
    /\ acCall[c].phase = "idle" /\ acCalls < AcMaxCalls
    /\ acCalls' = acCalls + 1
    /\ acCall' = [acCall EXCEPT ![c] = call]
    /\ UNCHANGED <<acClock, acRows, acReport>>

\* A refusal and a call with nothing to do leave the rows alone.
AcRefuse(c) == AcBegin(c, AcNone)

AcEnd(c) ==
    /\ acCall' = [acCall EXCEPT ![c] = AcNone]
    /\ UNCHANGED <<acClock, acCalls, acReport>>

\* issue: the key is looked up; the account and its first credential follow.
AcIssue(c, a, expires) ==
    IF acAccount[a] = "absent" /\ (expires = 0 \/ expires > acClock)
    THEN AcBegin(c, [AcNone EXCEPT !.phase = "issue", !.account = a, !.at = acClock,
                                   !.expires = expires])
    ELSE AcRefuse(c)

\* issue_credential: only an enabled account receives credentials.
AcIssueCredential(c, a, expires) ==
    IF acAccount[a] = "enabled" /\ (expires = 0 \/ expires > acClock)
    THEN AcBegin(c, [AcNone EXCEPT !.phase = "issue_credential", !.account = a, !.at = acClock,
                                   !.expires = expires])
    ELSE AcRefuse(c)

\* authenticate reads the credential and its account.
AcAuthenticate(c, i) ==
    IF AcActive(acCreds[i], acClock) /\ acAccount[acCreds[i].account] = "enabled"
    THEN AcBegin(c, [AcNone EXCEPT !.phase = "authenticate", !.cred = i, !.at = acClock,
                                   !.account = acCreds[i].account, !.used = acCreds[i].used])
    ELSE AcRefuse(c)

\* revoke_credential does nothing to a credential that is revoked already.
AcRevokeCredential(c, a, i) ==
    IF acCreds[i].account = a /\ acCreds[i].revoked = 0
    THEN AcBegin(c, [AcNone EXCEPT !.phase = "revoke_credential", !.account = a, !.cred = i,
                                   !.at = acClock])
    ELSE AcRefuse(c)

\* revoke does nothing to an account that is disabled already.
AcRevoke(c, a) ==
    IF acAccount[a] = "enabled"
    THEN AcBegin(c, [AcNone EXCEPT !.phase = "revoke", !.account = a, !.at = acClock])
    ELSE AcRefuse(c)

\* _new_credential
AcNewCredential(call) ==
    [account |-> call.account, created |-> call.at, expires |-> call.expires, revoked |-> 0,
     used |-> 0]

\* add of the credential, with its event
AcInsertCredential(call) ==
    /\ acCreds' = Append(acCreds, AcNewCredential(call))
    /\ acEvents' = Append(acEvents, AcEvent("issued", call.account, Len(acCreds) + 1))

AcRoom == Len(acCreds) < AcMaxCredentials

\* The commit of issue: the unique key refuses a second account.
AcCommitIssue(c) ==
    /\ acCall[c].phase = "issue" /\ AcRoom
    /\ IF acAccount[acCall[c].account] = "absent"
       THEN /\ acAccount' = [acAccount EXCEPT ![acCall[c].account] = "enabled"]
            /\ AcInsertCredential(acCall[c])
       ELSE UNCHANGED acRows
    /\ AcEnd(c)

AcCommitIssueCredential(c) ==
    /\ acCall[c].phase = "issue_credential" /\ AcRoom
    /\ AcInsertCredential(acCall[c])
    /\ UNCHANGED acAccount
    /\ AcEnd(c)

\* Mutant: the row that was read is written back whole.
AcMarkUsedWholeRow(r, call) ==
    IF call.used = 0 \/ call.used < call.at THEN [r EXCEPT !.used = call.at, !.revoked = 0] ELSE r

\* mark_used writes the one column, and only forward from the row it read.
AcMarkUsed(r, call) ==
    IF call.used = 0 \/ call.used < call.at THEN [r EXCEPT !.used = call.at] ELSE r

AcCommitAuthenticate(c) ==
    /\ acCall[c].phase = "authenticate"
    /\ acCreds' = [acCreds EXCEPT ![acCall[c].cred] = AcMarkUsed(@, acCall[c])]
    /\ UNCHANGED <<acAccount, acEvents>>
    /\ AcEnd(c)

AcCommitRevokeCredential(c) ==
    /\ acCall[c].phase = "revoke_credential"
    /\ acCreds' = [acCreds EXCEPT ![acCall[c].cred].revoked = acCall[c].at]
    /\ acEvents' = Append(acEvents, AcEvent("revoked", acCall[c].account, acCall[c].cred))
    /\ UNCHANGED acAccount
    /\ AcEnd(c)

\* disable
AcCommitRevoke(c) ==
    /\ acCall[c].phase = "revoke"
    /\ acAccount' = [acAccount EXCEPT ![acCall[c].account] = "disabled"]
    /\ acEvents' = Append(acEvents, AcEvent("account_revoked", acCall[c].account, 0))
    /\ UNCHANGED acCreds
    /\ AcEnd(c)

\* The transaction is rolled back: the connection or the process failed.
AcRollback(c) == acCall[c].phase # "idle" /\ AcEnd(c) /\ UNCHANGED acRows

(***************************************************************************)
(* The report of the accounts that have an issue                           *)
(***************************************************************************)

AcReportStates ==
    [phase : {"idle", "accounts", "credentials", "done"}, at : AcTimes, cursor : 0..AcKeys,
     limit : Nat, page : Seq(AcAccounts), enabled : SUBSET AcAccounts, results : Seq(AcAccounts)]

AcNoReport ==
    [phase |-> "idle", at |-> 0, cursor |-> 0, limit |-> 0, page |-> <<>>, enabled |-> {},
     results |-> <<>>]

AcRegistered == {a \in AcAccounts : acAccount[a] # "absent"}

\* ORDER BY key, and LIMIT n
AcInOrder(S) == Ordered(S, {x \in S \X S : x[1] < x[2]})

AcFirstOf(s, n) == SubSeq(s, 1, Min({n, Len(s)}))

\* list of the accounts: the first of them after the cursor, in key order
AcPageAfter(cursor) ==
    AcFirstOf(AcInOrder({a \in AcRegistered : a > cursor}), AcPage)

\* list_credential_readiness(issues_only=True)
AcBeginReport(limit) ==
    /\ acReport.phase = "idle"
    /\ acReport' = [acReport EXCEPT !.phase = "accounts", !.at = acClock, !.limit = limit]
    /\ UNCHANGED <<acClock, acRows, acCall, acCalls>>

AcReadAccounts ==
    /\ acReport.phase = "accounts"
    /\ acReport' = [acReport EXCEPT !.page = AcPageAfter(acReport.cursor),
                                    !.enabled = {a \in AcAccounts : acAccount[a] = "enabled"},
                                    !.phase = "credentials"]
    /\ UNCHANGED <<acClock, acRows, acCall, acCalls>>

\* The results with the page's accounts that are not healthy, up to the limit.
AcWithPage ==
    LET issue(a) == AcReadiness(a \in acReport.enabled, a, acReport.at) # "healthy"
        found == AcInOrder({a \in ToSet(acReport.page) : issue(a)})
    IN  AcFirstOf(acReport.results \o found, acReport.limit)

\* Mutant: the listing also stops at a page that is just full.
AcMorePagesAbove == Len(acReport.page) > AcPage

\* The page was full, so that there may be another one.
AcMorePages == Len(acReport.page) >= AcPage

AcReadCredentials ==
    /\ acReport.phase = "credentials"
    /\ acReport' =
        IF Len(AcWithPage) = acReport.limit \/ ~AcMorePages
        THEN [acReport EXCEPT !.results = AcWithPage, !.phase = "done"]
        ELSE [acReport EXCEPT !.results = AcWithPage, !.phase = "accounts",
                              !.cursor = Last(acReport.page)]
    /\ UNCHANGED <<acClock, acRows, acCall, acCalls>>

AcTick ==
    /\ acClock < AcMaxClock /\ acClock' = acClock + 1
    /\ UNCHANGED <<acRows, acCall, acCalls, acReport>>

(***************************************************************************)
(* History: since a report began, the accounts that were disabled at its   *)
(* start, those whose credentials alone have had an issue all along, and   *)
(* those that had an issue of either kind at some moment.                  *)
(***************************************************************************)
AcDisabled == {a \in AcAccounts : acAccount[a] = "disabled"}

AcShort ==
    LET at == IF acReport.phase = "idle" THEN acClock ELSE acReport.at
    IN  {a \in AcRegistered : AcReadiness(TRUE, a, at) # "healthy"}

AcObserve ==
    acSeen' =
        IF acReport.phase = "idle"
        THEN [down |-> AcDisabled', short |-> AcShort', may |-> AcDisabled' \cup AcShort']
        ELSE [acSeen EXCEPT !.short = @ \cap AcShort', !.may = @ \cup AcDisabled' \cup AcShort']

(***************************************************************************)
(* The specification                                                       *)
(***************************************************************************)
AcInit ==
    /\ acClock = 1
    /\ acAccount = [a \in AcAccounts |-> IF a =< AcOld THEN "enabled" ELSE "absent"]
    /\ acCreds = [a \in 1..AcOld |->
                    [account |-> a, created |-> 1, expires |-> AcFirst[a], revoked |-> 0,
                     used |-> 0]]
    /\ acEvents = [a \in 1..AcOld |-> AcEvent("issued", a, a)]
    /\ acCall = [c \in AcCallers |-> AcNone] /\ acCalls = 0
    /\ acReport = AcNoReport
    /\ acSeen = [down |-> AcDisabled, short |-> AcShort, may |-> AcDisabled \cup AcShort]

\* The calls of the CLI and of the service-account routes.
AcBeginCall(c) ==
    \/ \E a \in AcAccounts, e \in AcTimes : AcIssue(c, a, e) \/ AcIssueCredential(c, a, e)
    \/ \E a \in AcAccounts, i \in 1..Len(acCreds) : AcRevokeCredential(c, a, i)
    \/ \E i \in 1..Len(acCreds) : AcAuthenticate(c, i)
    \/ \E a \in AcAccounts : AcRevoke(c, a)

AcCommit(c) ==
    \/ AcCommitIssue(c) \/ AcCommitIssueCredential(c) \/ AcCommitAuthenticate(c)
    \/ AcCommitRevokeCredential(c) \/ AcCommitRevoke(c)

AcStep ==
    \/ \E c \in AcCallers : AcBeginCall(c) \/ AcCommit(c) \/ AcRollback(c)
    \/ \E limit \in AcLimits : AcBeginReport(limit)
    \/ AcReadAccounts \/ AcReadCredentials \/ AcTick

AcNext == AcStep /\ AcObserve

AcSpec == AcInit /\ [][AcNext]_acVars

(***************************************************************************)
(* Properties                                                              *)
(***************************************************************************)

\* Every variable is in its domain.
AcTypeOK ==
    /\ acClock \in AcTimes /\ acCalls \in 0..AcMaxCalls
    /\ acAccount \in [AcAccounts -> {"absent", "enabled", "disabled"}]
    /\ acCreds \in Seq(AcCredentialRows) /\ acEvents \in Seq(AcEventRows)
    /\ acCall \in [AcCallers -> AcCallStates]
    /\ acReport \in AcReportStates

AcLogged(type, a, i) == \E n \in 1..Len(acEvents) : acEvents[n] = AcEvent(type, a, i)

\* However calls overlap, the rows and the audit trail tell one story: every
\* credential row can be read back and was issued by exactly one event, a
\* credential is revoked exactly when the trail says so, and an account is
\* disabled exactly when the trail says so.  A revocation is therefore final:
\* an authentication that read the row before it does not undo it.
AcAuditAgrees ==
    /\ \A i \in 1..Len(acCreds) :
        LET r == acCreds[i]
        IN  /\ AcValid(r)
            /\ acAccount[r.account] # "absent"
            /\ Cardinality({n \in 1..Len(acEvents) :
                    acEvents[n] = AcEvent("issued", r.account, i)}) = 1
            /\ (r.revoked # 0) <=> AcLogged("revoked", r.account, i)
    /\ \A a \in AcAccounts : (acAccount[a] = "disabled") <=> AcLogged("account_revoked", a, 0)

\* A report that ended lists, in key order and up to its limit, every account
\* that was disabled when it began or whose credentials had an issue all the
\* while, and no account that never had one, although the pages and the
\* credentials on them were read at different moments.
AcListingComplete ==
    acReport.phase = "done" =>
        LET results == acReport.results
            listed == ToSet(results)
            full == Len(results) = acReport.limit
        IN  /\ \A n \in 2..Len(results) : results[n - 1] < results[n]
            /\ listed \subseteq acSeen.may
            /\ \A a \in acSeen.down \cup acSeen.short :
                a \in listed \/ (full /\ a > Last(results))
=============================================================================
