---------------------------- MODULE ActivityLog ----------------------------
(***************************************************************************)
(* The record of what users do: the activity service in front of           *)
(* Elasticsearch, or of PostgreSQL where Elasticsearch is off or could not *)
(* be reached at the start.  Failed logins are also watched for patterns   *)
(* by a goroutine per document.  Hours are the unit of time.  A search by  *)
(* organization finds documents of an index that was created with the      *)
(* mapping (organization_id a keyword); an index that came into being by   *)
(* its first document has a text field there, which a term query for the   *)
(* whole identifier does not match.                                        *)
(***************************************************************************)
EXTENDS Integers, FiniteSets

CONSTANTS Activities,     \* identifiers of activities
          Members,        \* users, all of one organization
          Addresses,      \* IP addresses
          Threshold,      \* failed logins that raise an alert (5)
          MonthEnd,       \* hour at which the next month begins
          MaxHours        \* bound on the clock

ASSUME ActivityAssumption == Threshold \in Nat \ {0} /\ MonthEnd \in Nat /\ MaxHours \in Nat

VARIABLES backend,      \* "elastic" or "postgres"
          mapped,       \* indices created with the mapping
          hour,         \* the clock
          stored,       \* activities on record
          attempts,     \* activity -> what was attempted, NoAttempt at first
          checks,       \* activities whose pattern check is under way
          alerts,       \* addresses an alert was published for
          blind         \* addresses one of whose checks failed or was overtaken by the clock

activityVars == <<backend, mapped, hour, stored, attempts, checks, alerts, blind>>

Nil == "nil"   \* uuid.Nil
NoAttempt == [user |-> Nil, org |-> Nil, action |-> "none", address |-> Nil, hour |-> 0]

\* getCurrentIndexName: an index per month.
getCurrentIndexName(h) == IF h < MonthEnd THEN "this month" ELSE "next month"

\* NewAuthGRPCServer: Elasticsearch when enabled and reachable; its indices are created
\* for the month of the start, if that works.
ActivityInit ==
    /\ backend \in {"elastic", "postgres"}
    /\ mapped \in {{}, {getCurrentIndexName(0)}}
    /\ hour = 0
    /\ stored = {} /\ attempts = [a \in Activities |-> NoAttempt]
    /\ checks = {} /\ alerts = {} /\ blind = {}

-----------------------------------------------------------------------------
(* Documents.                                                              *)

\* isSecurityEvent of an action.
isSecurityEvent(action) == action \in {"login_failed", "password_changed", "user_deleted"}

NewActivityDocument(u, org, action, address) ==
    [user |-> u, org |-> org, action |-> action, address |-> address, hour |-> hour]

\* A document is found at once: it is indexed with a refresh.
SearchDocuments(Matches(_)) == {a \in stored : Matches(attempts[a])}

InOrganization(doc, org) == getCurrentIndexName(doc.hour) \in mapped /\ doc.org = org

checkFailedLoginQuery(doc) ==
    SearchDocuments(LAMBDA d :
        d.action = "login_failed" /\ d.address = doc.address /\ d.hour >= hour - 1
        /\ InOrganization(d, doc.org))

-----------------------------------------------------------------------------
(* Logging.                                                                *)

Attempted(a, u, org, action, address) ==
    attempts' = [attempts EXCEPT ![a] = NewActivityDocument(u, org, action, address)]

Lost == UNCHANGED <<stored, checks>>

\* IndexDocument may fail; a security event has its patterns checked.
IndexDocument(a, action) ==
    /\ stored' = stored \cup {a}
    /\ checks' = IF isSecurityEvent(action) THEN checks \cup {a} ELSE checks

\* A row refers to a user and to an organization that exist.
CreateActivity(a, u, org) ==
    /\ u # Nil /\ org # Nil
    /\ stored' = stored \cup {a} /\ UNCHANGED checks

LogActivity(a, u, org, action, address) ==
    /\ attempts[a] = NoAttempt
    /\ Attempted(a, u, org, action, address)
    /\ \/ backend = "elastic" /\ IndexDocument(a, action)
       \/ backend = "postgres" /\ CreateActivity(a, u, org)
       \/ Lost
    /\ UNCHANGED <<backend, mapped, hour, alerts, blind>>

LogLogin(a, u, address) == LogActivity(a, u, "org", "login", address)
LogLogout(a, u, address) == LogActivity(a, u, "org", "logout", address)
LogLoginFailed(a, org, address) == LogActivity(a, Nil, org, "login_failed", address)
LogUserCreated(a, u, address) == LogActivity(a, u, "org", "user_created", address)
LogUserUpdated(a, u, address) == LogActivity(a, u, "org", "user_updated", address)
LogUserDeleted(a, u, address) == LogActivity(a, u, "org", "user_deleted", address)
LogPasswordChanged(a, u, address) == LogActivity(a, u, "org", "password_changed", address)
LogProfileUpdated(a, u, address) == LogActivity(a, u, "org", "profile_updated", address)

\* The RPC Authenticate logs a failed login when AuthService.Authenticate returns an
\* error.  That reports every failure in its response and never returns one.
AuthenticateLogs(a, u, address) ==
    \/ LogLogin(a, u, address)
    \/ /\ attempts[a] = NoAttempt
       /\ Attempted(a, u, "org", "login_failed", address)
       /\ UNCHANGED <<backend, mapped, hour, stored, checks, alerts, blind>>

-----------------------------------------------------------------------------
(* Patterns.                                                               *)

\* checkSecurityPatterns of a deleted user or a changed password looks at nothing.
checkSecurityPatterns(a) ==
    /\ a \in checks /\ attempts[a].action # "login_failed"
    /\ checks' = checks \ {a}
    /\ UNCHANGED <<backend, mapped, hour, stored, attempts, alerts, blind>>

\* Faulty variant: more than the threshold.
checkFailedLoginPatternAbove(a) ==
    /\ a \in checks /\ attempts[a].action = "login_failed"
    /\ checks' = checks \ {a}
    /\ alerts' = IF Cardinality(checkFailedLoginQuery(attempts[a])) > Threshold
                 THEN alerts \cup {attempts[a].address} ELSE alerts
    /\ UNCHANGED <<backend, mapped, hour, stored, attempts, blind>>

checkFailedLoginPattern(a) ==
    /\ a \in checks /\ attempts[a].action = "login_failed"
    /\ checks' = checks \ {a}
    /\ \/ /\ alerts' = IF Cardinality(checkFailedLoginQuery(attempts[a])) >= Threshold
                       THEN alerts \cup {attempts[a].address} ELSE alerts
          /\ UNCHANGED blind
       \/ blind' = blind \cup {attempts[a].address} /\ UNCHANGED alerts
    /\ UNCHANGED <<backend, mapped, hour, stored, attempts>>

-----------------------------------------------------------------------------
(* Reports, answered from what is stored; they change nothing.             *)

buildActivityQuery(u, org) ==
    SearchDocuments(LAMBDA d : /\ org # Nil => InOrganization(d, org)
                               /\ u # Nil => d.user = u)

\* The repository's filters; a row keeps its organization.
UserActivityRows(u, org) ==
    SearchDocuments(LAMBDA d : (org # Nil => d.org = org) /\ (u # Nil => d.user = u))

GetUserActivities(u, org) ==
    IF backend = "elastic" THEN buildActivityQuery(u, org) ELSE UserActivityRows(u, org)

\* A limit out of range becomes 20, an offset below zero 0.
PageLimit(limit) == IF limit <= 0 \/ limit > 100 THEN 20 ELSE limit
GetUserActivity(u, org, limit) ==
    LET found == Cardinality(GetUserActivities(u, org))
    IN  [total |-> found, page |-> IF found < PageLimit(limit) THEN found ELSE PageLimit(limit)]

buildSecurityStatsQuery(org, action, since) ==
    SearchDocuments(LAMBDA d : InOrganization(d, org) /\ d.action = action /\ d.hour >= since)
buildSecurityEventsStatsQuery(org, since) ==
    SearchDocuments(LAMBDA d : InOrganization(d, org) /\ isSecurityEvent(d.action) /\ d.hour >= since)
GetFailedLoginCount(org, since) ==
    Cardinality(SearchDocuments(LAMBDA d : d.org = org /\ d.action = "login_failed" /\ d.hour >= since))

\* A query that fails counts as zero, in either backend.
GetSecurityStats(org, since) ==
    IF backend = "elastic"
    THEN [failed |-> Cardinality(buildSecurityStatsQuery(org, "login_failed", since)),
          alerts |-> Cardinality(buildSecurityEventsStatsQuery(org, since))]
    ELSE [failed |-> GetFailedLoginCount(org, since), alerts |-> 0]

GetSecurityEvents(org) == buildSecurityEventsStatsQuery(org, hour - 24)

-----------------------------------------------------------------------------
(* Upkeep and time.                                                        *)

\* Rows older than the cutoff are deleted; Elasticsearch is left to its own policies.
CleanupOldActivities(age) ==
    /\ backend = "postgres"
    /\ \E a \in stored : attempts[a].hour < hour - age
    /\ stored' = {a \in stored : attempts[a].hour >= hour - age}
    /\ UNCHANGED <<backend, mapped, hour, attempts, checks, alerts, blind>>

\* An hour passes, perhaps into another month, whose index no one creates.
Hour ==
    /\ hour < MaxHours
    /\ hour' = hour + 1
    /\ blind' = blind \cup {attempts[a].address : a \in checks}
    /\ UNCHANGED <<backend, mapped, stored, attempts, checks, alerts>>

\* An index that exists, if only by its first document, is left as it is.
IndexExists(index) == \E a \in stored : getCurrentIndexName(attempts[a].hour) = index

CreateIndex(index) == mapped' = mapped \cup {index}

\* A new start of the service in this month.
initializeIndices ==
    /\ ~IndexExists(getCurrentIndexName(hour))
    /\ CreateIndex(getCurrentIndexName(hour))
    /\ UNCHANGED <<backend, hour, stored, attempts, checks, alerts, blind>>

ActivityNext ==
    \/ \E a \in Activities, u \in Members, p \in Addresses :
          \/ AuthenticateLogs(a, u, p) \/ LogLogout(a, u, p)
          \/ LogUserCreated(a, u, p) \/ LogUserUpdated(a, u, p) \/ LogUserDeleted(a, u, p)
          \/ LogPasswordChanged(a, u, p) \/ LogProfileUpdated(a, u, p)
          \/ \E org \in {Nil, "org"} : LogLoginFailed(a, org, p)
    \/ \E a \in Activities : checkSecurityPatterns(a) \/ checkFailedLoginPattern(a)
    \/ CleanupOldActivities(0) \/ Hour \/ initializeIndices

-----------------------------------------------------------------------------
(* Properties.                                                             *)

\* PatternsNoticed: as many failed logins from one address as the threshold asks for, within
\* an hour of each other and counted by the organization's security report, have raised
\* an alert when their checks are over, in whatever order documents were indexed and
\* checks ran (LogActivity, checkFailedLoginPattern), unless a search failed or an hour
\* passed during a check.
PatternsNoticed == \A p \in Addresses \ (alerts \cup blind), org \in {Nil, "org"}, h \in 0..MaxHours :
    LET failed == {a \in buildSecurityStatsQuery(org, "login_failed", h) :
                      attempts[a].address = p /\ attempts[a].hour <= h + 1}
    IN  backend = "elastic" /\ failed \cap checks = {} => Cardinality(failed) < Threshold

=============================================================================
