------------------------------ MODULE Directory ------------------------------
(***************************************************************************)
(* Users and organizations: the tables, and the requests that read and     *)
(* write them.  The gRPC handlers (internal/grpc/server.go), the           *)
(* registration of AuthService and the HTTP handlers run side by side on   *)
(* one database, statement by statement; a database transaction is one     *)
(* step.  Each of Handlers handles one request: it chooses its operation,  *)
(* runs it and keeps its answer.                                           *)
(*                                                                         *)
(* Most updates read a whole row, change some fields and save the whole    *)
(* row.  GORM's Save is an upsert: a row that is gone is inserted again,   *)
(* and an insert replaces a false is_active by the column's default, true. *)
(***************************************************************************)
EXTENDS Integers, FiniteSets, Sequences, Records

CONSTANTS
    Handlers,      \* requests
    Users,      \* ids of users
    Orgs,       \* organizations, identified by their unique domain
    Emails,     \* addresses
    NoRow,       \* no row, no value
    OfferedCalls,    \* the operations requests may choose
    Outages    \* what may fail: a subset of {"db", "token"}


VARIABLES
    orgs,       \* [Orgs -> row or NoRow]: the organizations
    users,      \* [Users -> row or NoRow]: the users
    roleHolders, \* the users with a row in user_roles
    writes,     \* [Users -> Nat]: committed writes to the user's row
    revision,   \* committed changes of both tables
    cache,      \* [CacheKeys -> answer or NoRow]
    rpc         \* [Handlers -> request]

directoryVars == <<orgs, users, roleHolders, writes, revision, cache, rpc>>
tables == <<orgs, users, roleHolders, writes, revision>>

CacheKeys == {"org:id"} \X Orgs

UserRow == [org : Orgs, email : Emails, active : BOOLEAN, verified : BOOLEAN,
            name : 0..1, password : 0..1, by : Handlers \cup {NoRow}]
OrgRow == [name : 0..1, active : BOOLEAN, by : Handlers \cup {NoRow}]

ASSUME DirectoryAssumption ==
    /\ Outages \subseteq {"db", "token"}
    /\ NoRow \notin Handlers \cup UserRow \cup OrgRow /\ Users # {}

FreeSlot == [op |-> "none", stage |-> "idle", user |-> NoRow, org |-> NoRow, email |-> NoRow,
         row |-> NoRow, sets |-> {}, roles |-> "kept", seen |-> 0, todo |-> <<>>,
         results |-> <<>>, counts |-> <<>>, answer |-> "none"]

LiveRows(table) == {x \in DOMAIN table : table[x] # NoRow}

\* GetByEmail of the repository sees active users only.
EmailVisible(e) == \E u \in LiveRows(users) : users[u].email = e /\ users[u].active

\* GetByDomain of the repository sees active organizations only.
DomainVisible(o) == orgs[o] # NoRow /\ orgs[o].active

\* The unique constraint on users.email.
EmailTaken(e, u) == \E v \in LiveRows(users) \ {u} : users[v].email = e

\* uuid.New: an id no row ever had; which one makes no difference.
FreshUsers ==
    LET unused == {u \in Users : users[u] = NoRow /\ writes[u] = 0}
    IN  IF unused = {} THEN {} ELSE {CHOOSE u \in unused : TRUE}

NewUser(p, o, e) == [org |-> o, email |-> e, active |-> TRUE, verified |-> FALSE,
                     name |-> 0, password |-> 0, by |-> p]

NewOrganization(p) == [name |-> 0, active |-> TRUE, by |-> p]

DirectoryInit ==
    \E o \in Orgs, u \in {CHOOSE u \in Users : TRUE}, e \in Emails :
        /\ orgs = [x \in Orgs |-> IF x = o THEN NewOrganization(NoRow) ELSE NoRow]
        /\ users = [x \in Users |-> IF x = u THEN NewUser(NoRow, o, e) ELSE NoRow]
        /\ roleHolders \in {{}, {u}}
        /\ writes = [x \in Users |-> 0]
        /\ revision = 0
        /\ cache = [k \in CacheKeys |-> NoRow]
        /\ rpc = [p \in Handlers |-> FreeSlot]

-----------------------------------------------------------------------------
(* Steps of a request.                                                     *)

AtStage(p, ops, stage) == rpc[p].op \in ops /\ rpc[p].stage = stage

BeginCall(p, op, fields) ==
    /\ rpc[p].stage = "idle"
    /\ op \in OfferedCalls
    /\ rpc' = [rpc EXCEPT ![p] = With(With(@, fields), [op |-> op])]

Continue(p, fields) == rpc' = [rpc EXCEPT ![p] = With(@, fields)]

AnswerCall(p, a) == Continue(p, [stage |-> "done", answer |-> a])

\* A handler answers and has touched neither tables nor cache.
ReplyTo(p, a) == AnswerCall(p, a) /\ UNCHANGED <<tables, cache>>

Write(u, row) ==
    /\ users' = [users EXCEPT ![u] = row]
    /\ writes' = [writes EXCEPT ![u] = @ + 1]
    /\ revision' = revision + 1

\* invalidateUserCaches: four keys, none of which a handler reads.
InvalidateUserCaches(u, o) ==
    LET keys == {<<"user:id", u>>, <<"user:full", u>>, <<"user:permissions", u>>, <<"org:users", o>>}
    IN  cache' = [k \in CacheKeys |-> IF k \in keys THEN NoRow ELSE cache[k]]

\* A statement may fail with an error of the database: the transaction is rolled
\* back and the request answers with a failure.
QueryFails(p) ==
    /\ "db" \in Outages
    /\ rpc[p].stage \in {"domain", "email", "org", "user", "tx", "save", "delete", "count", "read", "readBack"}
    /\ rpc[p].todo = <<>>
    /\ ReplyTo(p, "failed")

-----------------------------------------------------------------------------
(* Faulty variants.                                                        *)

\* The error of First is ignored and a zero row is filled in.
ReadForSaveUnchecked(p, op, u, changes, fields) ==
    /\ \E o \in LiveRows(orgs), e \in Emails :
          BeginCall(p, op, With([stage |-> "save", user |-> u, sets |-> DOMAIN changes, seen |-> writes[u],
                             row |-> With(IF users[u] = NoRow THEN NewUser(NoRow, o, e) ELSE users[u], changes)],
                            fields))
    /\ UNCHANGED <<tables, cache>>

\* A failing insert of the user does not roll the organization back.
HttpRegisterTxCommits(p) ==
    LET o == rpc[p].org
        e == rpc[p].email
    IN  /\ AtStage(p, {"httpRegister"}, "tx")
        /\ orgs[o] = NoRow
        /\ orgs' = [orgs EXCEPT ![o] = NewOrganization(p)]
        /\ \/ /\ EmailTaken(e, NoRow)
              /\ revision' = revision + 1
              /\ AnswerCall(p, "failed")
              /\ UNCHANGED <<users, roleHolders, writes, cache>>
           \/ \E u \in FreshUsers :
                 /\ ~EmailTaken(e, NoRow)
                 /\ Write(u, NewUser(p, o, e))
                 /\ roleHolders' = roleHolders \cup {u}
                 /\ Continue(p, [stage |-> "done", answer |-> "ok", user |-> u])
                 /\ UNCHANGED cache

-----------------------------------------------------------------------------
(* Updates of a user: read the row, change it, save it.                    *)

\* First by id; the row that will be saved is the row read with `changes`.
ReadForSave(p, op, u, changes, fields) ==
    /\ BeginCall(p, op, IF users[u] = NoRow
                    THEN [stage |-> "done", answer |-> "notFound", user |-> u]
                    ELSE With([stage |-> "save", user |-> u, row |-> With(users[u], changes),
                               sets |-> DOMAIN changes, seen |-> writes[u]], fields))
    /\ UNCHANGED <<tables, cache>>

ActivateUser(p, u) == ReadForSave(p, "activate", u, [active |-> TRUE], <<>>)

DeactivateUser(p, u) == ReadForSave(p, "deactivate", u, [active |-> FALSE], <<>>)

VerifyUser(p, u) == ReadForSave(p, "verify", u, [verified |-> TRUE], <<>>)

\* The request's flags always overwrite the row's, its email only when given.
UpdateChanges == [active : BOOLEAN, verified : BOOLEAN]
                 \cup [active : {TRUE}, verified : {TRUE}, email : Emails]

\* RoleIds: absent, of existing roles, or all malformed (and skipped).
RoleChoices == {"kept", "replaced", "dropped"}

UpdateUser(p, u) ==
    \E ch \in UpdateChanges, r \in RoleChoices : ReadForSave(p, "update", u, ch, [roles |-> r])

UpdateProfile(p, u) == ReadForSave(p, "profile", u, [name |-> 1], <<>>)

\* HTTP ChangePassword, after the current password has been compared.
ChangePasswordHandler(p, u) == ReadForSave(p, "password", u, [password |-> 1], <<>>)

HttpUpdates == {"profile", "password"}
UserUpdates == HttpUpdates \cup {"activate", "deactivate", "verify", "update"}

\* What a save leaves in the table: an insert turns a false is_active into true.
Saved(u, row) == IF users[u] = NoRow THEN [row EXCEPT !.active = TRUE] ELSE row

RolesAfter(u, choice) ==
    CASE choice = "kept" -> roleHolders
      [] choice = "replaced" -> roleHolders \cup {u}
      [] choice = "dropped" -> roleHolders \ {u}

\* Save of the whole row, for UpdateUser in one transaction with the user's roles,
\* then the invalidation of the gRPC handlers.
SaveUserRow(p) ==
    LET r == rpc[p]
        u == r.user
    IN  /\ AtStage(p, UserUpdates, "save")
        /\ IF EmailTaken(r.row.email, u)
           THEN ReplyTo(p, "failed")
           ELSE /\ Write(u, Saved(u, r.row))
                /\ roleHolders' = RolesAfter(u, r.roles)
                /\ AnswerCall(p, "ok")
                /\ IF r.op \in HttpUpdates
                   THEN UNCHANGED cache
                   ELSE InvalidateUserCaches(u, r.row.org)
                /\ UNCHANGED orgs

-----------------------------------------------------------------------------
(* Deleting users.                                                         *)

DeleteUser(p, u) ==
    /\ BeginCall(p, "delete", IF users[u] = NoRow
                          THEN [stage |-> "done", answer |-> "notFound", user |-> u]
                          ELSE [stage |-> "delete", user |-> u, org |-> users[u].org])
    /\ UNCHANGED <<tables, cache>>

\* The foreign key of user_roles keeps a user that has a role.
Deletable(u) == u \notin roleHolders

Delete(u) == IF users[u] = NoRow THEN UNCHANGED <<users, writes, revision>> ELSE Write(u, NoRow)

DeleteUserRow(p) ==
    LET u == rpc[p].user
    IN  /\ AtStage(p, {"delete"}, "delete")
        /\ IF Deletable(u)
           THEN /\ Delete(u)
                /\ AnswerCall(p, "ok")
                /\ InvalidateUserCaches(u, rpc[p].org)
                /\ UNCHANGED <<orgs, roleHolders>>
           ELSE ReplyTo(p, "failed")

-----------------------------------------------------------------------------
(* Creating users and organizations.                                       *)

\* The checks, the insert and the default role, in one transaction.
CreateUserInExistingOrganization(p, o, e, u) ==
    /\ orgs[o] # NoRow
    /\ ~EmailTaken(e, NoRow)
    /\ u \in FreshUsers
    /\ Write(u, NewUser(p, o, e))
    /\ roleHolders' \in {roleHolders, roleHolders \cup {u}}
    /\ UNCHANGED orgs

CannotCreate(o, e) == orgs[o] = NoRow \/ EmailTaken(e, NoRow)

CreateUser(p, o, e) ==
    /\ BeginCall(p, "create", [stage |-> "tx", org |-> o, email |-> e])
    /\ UNCHANGED <<tables, cache>>

CreateUserTx(p) ==
    LET o == rpc[p].org
        e == rpc[p].email
    IN  /\ AtStage(p, {"create"}, "tx")
        /\ \/ CannotCreate(o, e) /\ ReplyTo(p, "failed")
           \/ \E u \in Users :
                 /\ CreateUserInExistingOrganization(p, o, e, u)
                 /\ Continue(p, [stage |-> "done", answer |-> "ok", user |-> u])
                 /\ InvalidateUserCaches(u, o)

\* CreateOrganization calls Register of AuthService, whose inserts are two statements.
Register(p, o, e) ==
    /\ BeginCall(p, "register", [stage |-> "domain", org |-> o, email |-> e])
    /\ UNCHANGED <<tables, cache>>

OrganizationDomainExists(p) ==
    /\ AtStage(p, {"register"}, "domain")
    /\ IF DomainVisible(rpc[p].org)
       THEN AnswerCall(p, "failed")
       ELSE Continue(p, [stage |-> "email"])
    /\ UNCHANGED <<tables, cache>>

UserEmailExists(p) ==
    /\ AtStage(p, {"register"}, "email")
    /\ IF EmailVisible(rpc[p].email)
       THEN AnswerCall(p, "failed")
       ELSE Continue(p, [stage |-> "org"])
    /\ UNCHANGED <<tables, cache>>

CreateOrganizationRow(p) ==
    LET o == rpc[p].org
    IN  /\ AtStage(p, {"register"}, "org")
        /\ IF orgs[o] # NoRow
           THEN ReplyTo(p, "failed")
           ELSE /\ orgs' = [orgs EXCEPT ![o] = NewOrganization(p)]
                /\ revision' = revision + 1
                /\ Continue(p, [stage |-> "user"])
                /\ UNCHANGED <<users, roleHolders, writes, cache>>

CreateUserRow(p) ==
    /\ AtStage(p, {"register"}, "user")
    /\ \/ EmailTaken(rpc[p].email, NoRow) /\ ReplyTo(p, "failed")
       \/ \E u \in FreshUsers :
             /\ ~EmailTaken(rpc[p].email, NoRow)
             /\ Write(u, NewUser(p, rpc[p].org, rpc[p].email))
             /\ Continue(p, [stage |-> "tokens", user |-> u])
             /\ UNCHANGED <<orgs, roleHolders, cache>>

\* GenerateTokenPair, then the handler reads the organization back.
RegisterTokens(p) ==
    /\ AtStage(p, {"register"}, "tokens")
    /\ \/ Continue(p, [stage |-> "readBack"])
       \/ "token" \in Outages /\ AnswerCall(p, "failed")
    /\ UNCHANGED <<tables, cache>>

ReadBackOrganization(p) == AtStage(p, {"register"}, "readBack") /\ ReplyTo(p, "ok")

\* HTTP Register: the checks see every row; the inserts are one transaction that
\* also makes the user an administrator.
HttpRegister(p, o, e) ==
    /\ BeginCall(p, "httpRegister", IF orgs[o] # NoRow \/ EmailTaken(e, NoRow)
                                THEN [stage |-> "done", answer |-> "conflict"]
                                ELSE [stage |-> "tx", org |-> o, email |-> e])
    /\ UNCHANGED <<tables, cache>>

HttpRegisterTx(p) ==
    LET o == rpc[p].org
        e == rpc[p].email
    IN  /\ AtStage(p, {"httpRegister"}, "tx")
        /\ \/ (orgs[o] # NoRow \/ EmailTaken(e, NoRow)) /\ ReplyTo(p, "failed")
           \/ \E u \in FreshUsers :
                 /\ orgs[o] = NoRow /\ ~EmailTaken(e, NoRow)
                 /\ orgs' = [orgs EXCEPT ![o] = NewOrganization(p)]
                 /\ Write(u, NewUser(p, o, e))
                 /\ roleHolders' = roleHolders \cup {u}
                 /\ Continue(p, [stage |-> "done", answer |-> "ok", user |-> u])
                 /\ UNCHANGED cache

-----------------------------------------------------------------------------
(* Bulk operations: item after item, each with its own result.             *)

Bulk(p, op, o, items) ==
    /\ BeginCall(p, op, [stage |-> "item", org |-> o, todo |-> items])
    /\ UNCHANGED <<tables, cache>>

\* results[i+j] of the item and the next one.
ItemDone(p, ok) ==
    LET rest == Tail(rpc[p].todo)
    IN  Continue(p, [todo |-> rest, results |-> Append(rpc[p].results, ok), row |-> NoRow,
                     stage |-> IF rest = <<>> THEN "done" ELSE "item",
                     answer |-> IF rest # <<>> THEN "none"
                                ELSE IF ok \/ TRUE \in {rpc[p].results[i] : i \in DOMAIN rpc[p].results}
                                THEN "ok" ELSE "failed"])

ItemFails(p) == ItemDone(p, FALSE) /\ UNCHANGED <<tables, cache>>

\* processBulkUserCreation invalidates no cache.
BulkCreateItem(p) ==
    LET e == Head(rpc[p].todo)
        o == rpc[p].org
    IN  /\ AtStage(p, {"bulkCreate"}, "item")
        /\ \/ (CannotCreate(o, e) \/ "db" \in Outages) /\ ItemFails(p)
           \/ \E u \in Users : CreateUserInExistingOrganization(p, o, e, u)
                               /\ ItemDone(p, TRUE) /\ UNCHANGED cache

\* processBulkUserUpdate calls UpdateUser for the item.
BulkUpdateRead(p) ==
    LET u == Head(rpc[p].todo)
    IN  /\ AtStage(p, {"bulkUpdate"}, "item")
        /\ IF users[u] = NoRow
           THEN ItemDone(p, FALSE)
           ELSE Continue(p, [stage |-> "save", user |-> u, seen |-> writes[u], sets |-> {"active", "verified"},
                             row |-> [users[u] EXCEPT !.active = FALSE, !.verified = TRUE]])
        /\ UNCHANGED <<tables, cache>>

BulkUpdateSave(p) ==
    LET u == rpc[p].user
    IN  /\ AtStage(p, {"bulkUpdate"}, "save")
        /\ \/ (EmailTaken(rpc[p].row.email, u) \/ "db" \in Outages) /\ ItemFails(p)
           \/ /\ ~EmailTaken(rpc[p].row.email, u)
              /\ Write(u, Saved(u, rpc[p].row))
              /\ ItemDone(p, TRUE)
              /\ InvalidateUserCaches(u, rpc[p].row.org)
              /\ UNCHANGED <<orgs, roleHolders>>

\* A user that does not exist counts as deleted.
BulkDeleteItem(p) ==
    LET u == Head(rpc[p].todo)
    IN  /\ AtStage(p, {"bulkDelete"}, "item")
        /\ \/ (~Deletable(u) \/ "db" \in Outages) /\ ItemFails(p)
           \/ Deletable(u) /\ Delete(u) /\ ItemDone(p, TRUE) /\ UNCHANGED <<orgs, roleHolders, cache>>

-----------------------------------------------------------------------------
(* Organizations and reports.                                              *)

\* UpdateOrganization binds the request onto the row it read and saves it.
UpdateOrganization(p, o) ==
    /\ \E row \in OrgRow :
          BeginCall(p, "updateOrg", IF orgs[o] = NoRow
                                THEN [stage |-> "done", answer |-> "notFound"]
                                ELSE [stage |-> "save", org |-> o, row |-> [row EXCEPT !.by = orgs[o].by]])
    /\ UNCHANGED <<tables, cache>>

SaveOrganization(p) ==
    /\ AtStage(p, {"updateOrg"}, "save")
    /\ orgs' = [orgs EXCEPT ![rpc[p].org] = rpc[p].row]
    /\ revision' = revision + 1
    /\ AnswerCall(p, "ok")
    /\ UNCHANGED <<users, roleHolders, writes, cache>>

\* What convertOrganizationToProto shows of an organization and its users.
OrganizationView(o) == [name |-> orgs[o].name, users |-> {u \in LiveRows(users) : users[u].org = o}]

GetOrganization(p, o) ==
    /\ BeginCall(p, "getOrg", IF cache[<<"org:id", o>>] # NoRow
                          THEN [stage |-> "done", answer |-> "ok", org |-> o, row |-> cache[<<"org:id", o>>]]
                          ELSE [stage |-> "read", org |-> o, seen |-> revision])
    /\ UNCHANGED <<tables, cache>>

ReadOrganization(p) ==
    /\ AtStage(p, {"getOrg"}, "read")
    /\ IF orgs[rpc[p].org] = NoRow
       THEN AnswerCall(p, "notFound")
       ELSE Continue(p, [stage |-> "fill", row |-> OrganizationView(rpc[p].org)])
    /\ UNCHANGED <<tables, cache>>

FillOrganization(p) ==
    /\ AtStage(p, {"getOrg"}, "fill")
    /\ cache' = [cache EXCEPT ![<<"org:id", rpc[p].org>>] = rpc[p].row]
    /\ AnswerCall(p, "ok")
    /\ UNCHANGED tables

\* The hour of an entry ends.
CacheExpires(k) ==
    /\ cache[k] # NoRow
    /\ cache' = [cache EXCEPT ![k] = NoRow]
    /\ UNCHANGED <<tables, rpc>>

\* Reads of one user by id; an error and a missing row are the same answer.
ReadUser(p, op, u) ==
    /\ BeginCall(p, op, [stage |-> "done", user |-> u, row |-> users[u],
                     answer |-> IF users[u] = NoRow THEN "notFound" ELSE "ok"])
    /\ UNCHANGED <<tables, cache>>

GetUser(p, u) == ReadUser(p, "getUser", u)

GetProfile(p, u) == ReadUser(p, "getProfile", u)

GetUserByID(p, u) == ReadUser(p, "getUserByID", u)

\* The HTTP handler reads the row, not the cache.
HttpGetOrganization(p, o) ==
    /\ BeginCall(p, "httpGetOrg", [stage |-> "done", org |-> o, row |-> orgs[o],
                               answer |-> IF orgs[o] = NoRow THEN "notFound" ELSE "ok"])
    /\ UNCHANGED <<tables, cache>>

UserCounts(o) == <<{u \in LiveRows(users) : users[u].org = o},
                   {u \in LiveRows(users) : users[u].org = o /\ users[u].active},
                   {u \in LiveRows(users) : users[u].org = o /\ users[u].verified}>>
OrgCounts == <<LiveRows(orgs), {o \in LiveRows(orgs) : orgs[o].active}, LiveRows(users)>>

Cardinalities(sets) == [i \in DOMAIN sets |-> Cardinality(sets[i])]

\* The rows of a page: LIMIT and OFFSET of the query.
PageLength(n, page) == IF n <= page.offset THEN 0
                       ELSE IF n - page.offset < page.limit THEN n - page.offset ELSE page.limit

Reports == {"userStats", "orgStats", "listUsers", "listOrgs"}

\* What the queries of a report return, one after the other.
GetUserStats(o) == Cardinalities(UserCounts(o))

GetOrganizationStats == Cardinalities(OrgCounts)

ListUsers(page) == LET n == Cardinality(LiveRows(users)) IN <<n, PageLength(n, page)>>

ListOrganizations(page) == LET n == Cardinality(LiveRows(orgs)) IN <<n, PageLength(n, page)>>

Queries(op, o, page) ==
    CASE op = "userStats" -> GetUserStats(o)
      [] op = "orgStats" -> GetOrganizationStats
      [] op = "listUsers" -> ListUsers(page)
      [] op = "listOrgs" -> ListOrganizations(page)

\* HasNextPage of the two lists.
HasNextPage(op, counts, page) ==
    IF op = "listUsers" THEN page.offset + page.limit < counts[1] ELSE page.offset + counts[2] < counts[1]

Pages == [offset : 0..1, limit : {1}]

Report(p, op, o) ==
    /\ \E page \in Pages :
          BeginCall(p, op, [stage |-> "count", org |-> o, seen |-> revision, row |-> page])
    /\ UNCHANGED <<tables, cache>>

\* One query after the other, in no transaction.
CountRows(p) ==
    LET r == rpc[p]
        all == Queries(r.op, r.org, r.row)
        done == Append(r.counts, all[Len(r.counts) + 1])
    IN  /\ AtStage(p, Reports, "count")
        /\ Continue(p, IF Len(done) = Len(all)
                       THEN [counts |-> done, stage |-> "done", answer |-> "ok"]
                       ELSE [counts |-> done])
        /\ UNCHANGED <<tables, cache>>

-----------------------------------------------------------------------------
UserRequest(p, u) ==
    \/ ActivateUser(p, u) \/ DeactivateUser(p, u) \/ VerifyUser(p, u) \/ UpdateUser(p, u)
    \/ UpdateProfile(p, u) \/ ChangePasswordHandler(p, u) \/ DeleteUser(p, u)
    \/ GetUser(p, u) \/ GetProfile(p, u) \/ GetUserByID(p, u)

OrgRequest(p, o) ==
    \/ UpdateOrganization(p, o) \/ GetOrganization(p, o) \/ HttpGetOrganization(p, o)
    \/ \E op \in Reports : Report(p, op, o)
    \/ \E e \in Emails : CreateUser(p, o, e) \/ Register(p, o, e) \/ HttpRegister(p, o, e)
    \/ \E s \in [1..2 -> Emails] : Bulk(p, "bulkCreate", o, s)
    \/ \E s \in [1..2 -> Users], op \in {"bulkUpdate", "bulkDelete"} : Bulk(p, op, o, s)

DirectoryStep(p) ==
    \/ SaveUserRow(p) \/ DeleteUserRow(p) \/ CreateUserTx(p)
    \/ OrganizationDomainExists(p) \/ UserEmailExists(p) \/ CreateOrganizationRow(p)
    \/ CreateUserRow(p) \/ RegisterTokens(p) \/ ReadBackOrganization(p)
    \/ HttpRegisterTx(p)
    \/ BulkCreateItem(p) \/ BulkUpdateRead(p) \/ BulkUpdateSave(p) \/ BulkDeleteItem(p)
    \/ SaveOrganization(p) \/ ReadOrganization(p) \/ FillOrganization(p) \/ CountRows(p)
    \/ QueryFails(p)

DirectoryNext ==
    \/ \E p \in Handlers : \/ \E u \in Users : UserRequest(p, u)
                        \/ \E o \in Orgs : OrgRequest(p, o)
                        \/ DirectoryStep(p)
    \/ \E k \in CacheKeys : CacheExpires(k)

DirectorySpec == DirectoryInit /\ [][DirectoryNext]_directoryVars

-----------------------------------------------------------------------------
(* Properties.                                                             *)

\* A save of a whole row changes a field that its request does not set, or brings a
\* deleted user back, only when another request wrote the row since it was read
\* (UpdateUser, ActivateUser, DeactivateUser, VerifyUser, UpdateProfile, ChangePassword).
OnlyOverlapLosesUpdates ==
    [][\A p \in Handlers, u \in Users :
          (/\ rpc[p].stage = "save" /\ rpc[p].user = u
           /\ rpc'[p] # rpc[p] /\ users'[u] # users[u]
           /\ writes[u] = rpc[p].seen)
          => /\ users[u] # NoRow
             /\ \A f \in DOMAIN users[u] \ rpc[p].sets : users'[u][f] = users[u][f]]_directoryVars

RowsOf(p) == {u \in LiveRows(users) : users[u].by = p}
Successes(r) == Cardinality({i \in DOMAIN r.results : r.results[i]})

\* An answer and the rows agree: a failed CreateUser or HTTP registration leaves
\* nothing behind, a successful one its user (until somebody deletes it), and a bulk
\* creation no more users than the results it reports as created.
AnswersMatchRows ==
    \A p \in Handlers :
        LET r == rpc[p]
        IN  r.stage = "done" =>
            /\ r.op \in {"create", "httpRegister"} =>
                  IF r.answer = "ok" THEN r.user \in RowsOf(p) \/ writes[r.user] > 1
                  ELSE RowsOf(p) = {} /\ \A o \in LiveRows(orgs) : orgs[o].by # p
            /\ r.op = "bulkCreate" =>
                  /\ Len(r.results) = 2
                  /\ Cardinality(RowsOf(p)) <= Successes(r)
                  /\ (r.answer = "ok") = (Successes(r) > 0)
            /\ r.op = "register" /\ r.answer = "ok" => \E o \in LiveRows(orgs) : orgs[o].by = p

=============================================================================
