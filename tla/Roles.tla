------------------------------- MODULE Roles -------------------------------
(***************************************************************************)
(* Roles, their permissions and their assignment to users: the role        *)
(* handlers of the gRPC server (server.go) and of the HTTP API (role.go)   *)
(* on the tables roles, role_permissions and user_roles.  A statement of   *)
(* PostgreSQL is one step; nothing here runs in a transaction, so the      *)
(* statements of two calls interleave.  Organizations are left out: all    *)
(* roles and users are of one organization.  is_active of a role is left   *)
(* out: no handler writes it.                                              *)
(***************************************************************************)
EXTENDS Naturals, Sequences, FiniteSets, SequencesExt, Records

CONSTANTS RoleIds, Perms, UserIds, Names, Callers, None,
          Assignments,   \* permission lists a client sends
          StatementsFail,      \* BOOLEAN: may a statement of PostgreSQL fail?
          MaxCommits     \* bound on committed statements

ASSUME RolesAssumption ==
    /\ None \notin RoleIds \cup Perms \cup UserIds \cup Names
    /\ Assignments \subseteq Seq(Perms)
    /\ StatementsFail \in BOOLEAN /\ MaxCommits \in Nat

VARIABLES roles,       \* RoleIds -> row or None
          usedRoles,   \* ids given out
          rolePerms,   \* rows of role_permissions
          userRoles,   \* rows of user_roles
          commits,
          call         \* Callers -> the call being handled

roleVars == <<roles, usedRoles, rolePerms, userRoles, commits, call>>

RoleRow == [name : Names, system : BOOLEAN]

NoCall == [op |-> "none", stage |-> "idle", role |-> None, user |-> None, name |-> None,
           row |-> None, todo |-> <<>>, asked |-> {}, alone |-> TRUE, answer |-> "none"]

LiveRoles == {r \in RoleIds : roles[r] # None}

PermsOf(r) == {p \in Perms : <<r, p>> \in rolePerms}

\* The roles with their permissions, as the API shows them.
ListRoles == [r \in LiveRoles |-> PermsOf(r)]

\* The foreign keys of role_permissions and user_roles.
Referenced(r) == PermsOf(r) # {} \/ \E u \in UserIds : <<u, r>> \in userRoles

RolesInit ==
    \E r \in RoleIds, n \in Names :
        /\ roles = [x \in RoleIds |-> IF x = r THEN [name |-> n, system |-> TRUE] ELSE None]
        /\ usedRoles = {r}
        /\ rolePerms = {}
        /\ userRoles \in {{}, UserIds \X {r}}
        /\ commits = 0
        /\ call = [c \in Callers |-> NoCall]

-----------------------------------------------------------------------------
(* Steps of a call.                                                        *)

Begin(c, fields) ==
    /\ call[c].stage = "idle"
    /\ call' = [call EXCEPT ![c] = With(NoCall, fields)]
    /\ UNCHANGED <<roles, usedRoles, rolePerms, userRoles, commits>>

AtCall(c, ops, stage) == call[c].op \in ops /\ call[c].stage = stage

To(c, fields) == call' = [call EXCEPT ![c] = With(@, fields)]

\* The call ends.  Of the answers only the success of AssignPermissions is kept.
Answer(c, a) == call' = [call EXCEPT ![c] = NoCall]

Assigned == [NoCall EXCEPT !.answer = "assigned"]

Reply(c, a) == Answer(c, a) /\ UNCHANGED <<roles, usedRoles, rolePerms, userRoles, commits>>

Commit == commits < MaxCommits /\ commits' = commits + 1

\* A statement fails: the call answers an error and has changed nothing by it.
StatementFails(c) ==
    /\ StatementsFail
    /\ call[c].stage # "idle"
    /\ ~AtCall(c, {"httpAssignPermissions"}, "clear") /\ ~AtCall(c, {"httpAssignPermissions"}, "add")
    /\ Reply(c, "error")

\* gorm Save: UPDATE, and an INSERT when it matched no row.
SaveRow(c, row) ==
    /\ Commit
    /\ roles' = [roles EXCEPT ![call[c].role] = row]
    /\ Answer(c, "ok")
    /\ UNCHANGED <<usedRoles, rolePerms, userRoles>>

\* Delete of a row of roles: refused by the foreign keys while it is referenced.
DeleteRow(c) ==
    LET r == call[c].role IN
    IF Referenced(r) THEN Reply(c, "error")
    ELSE /\ Commit
         /\ roles' = [roles EXCEPT ![r] = None]
         /\ Answer(c, "ok")
         /\ UNCHANGED <<usedRoles, rolePerms, userRoles>>

\* The other calls that have cleared the permissions of r are not alone any more.
Shared(c, r) ==
    [d \in Callers |-> IF d # c /\ call[d].role = r /\ call[d].stage = "add"
                       THEN [call[d] EXCEPT !.alone = FALSE] ELSE call[d]]

WritePerms(c, r, rows, next) ==
    /\ Commit
    /\ rolePerms' = rows
    /\ call' = [Shared(c, r) EXCEPT ![c] = next]
    /\ UNCHANGED <<roles, usedRoles, userRoles>>

-----------------------------------------------------------------------------
(* Roles.                                                                  *)

NewRole(c, n) ==
    \E r \in RoleIds \ usedRoles :
        /\ Commit
        /\ roles' = [roles EXCEPT ![r] = [name |-> n, system |-> FALSE]]
        /\ usedRoles' = usedRoles \cup {r}
        /\ Answer(c, "ok")
        /\ UNCHANGED <<rolePerms, userRoles>>

\* The gRPC server inserts without looking at the names in use.
CreateRole(c) ==
    call[c].stage = "idle" /\ \E n \in Names : NewRole(c, n)

\* The HTTP handler looks for the name first: a check, then an insert.
HttpCreateRole(c) ==
    \E n \in Names :
        /\ call[c].stage = "idle"
        /\ IF \E r \in LiveRoles : roles[r].name = n
           THEN Reply(c, "conflict")
           ELSE Begin(c, [op |-> "httpCreateRole", name |-> n, stage |-> "insert"])

HttpInsertRole(c) ==
    /\ AtCall(c, {"httpCreateRole"}, "insert")
    /\ NewRole(c, call[c].name)

UpdateRole(c) ==
    \E r \in usedRoles, n \in Names :
        /\ call[c].stage = "idle"
        /\ IF roles[r] = None THEN Reply(c, "notfound")
           ELSE Begin(c, [op |-> "UpdateRole", role |-> r, row |-> [roles[r] EXCEPT !.name = n],
                          stage |-> "save"])

\* Over HTTP a system role is refused.
HttpUpdateRole(c) ==
    \E r \in usedRoles, n \in Names :
        /\ call[c].stage = "idle"
        /\ IF roles[r] = None THEN Reply(c, "notfound")
           ELSE IF roles[r].system THEN Reply(c, "forbidden")
           ELSE Begin(c, [op |-> "httpUpdateRole", role |-> r,
                          row |-> [roles[r] EXCEPT !.name = n], stage |-> "save"])

SaveRole(c) == AtCall(c, {"UpdateRole", "httpUpdateRole"}, "save") /\ SaveRow(c, call[c].row)

DeleteRole(c) ==
    \E r \in usedRoles :
        /\ call[c].stage = "idle"
        /\ IF roles[r] = None THEN Reply(c, "notfound")
           ELSE IF roles[r].system THEN Reply(c, "forbidden")
           ELSE Begin(c, [op |-> "DeleteRole", role |-> r, stage |-> "delete"])

HttpDeleteRole(c) ==
    \E r \in usedRoles :
        /\ call[c].stage = "idle"
        /\ IF roles[r] = None THEN Reply(c, "notfound")
           ELSE IF roles[r].system THEN Reply(c, "forbidden")
           ELSE Begin(c, [op |-> "httpDeleteRole", role |-> r, stage |-> "delete"])

RemoveRole(c) == AtCall(c, {"DeleteRole", "httpDeleteRole"}, "delete") /\ DeleteRow(c)

-----------------------------------------------------------------------------
(* Permissions of a role.                                                  *)

AssignPermissions(c) ==
    \E r \in RoleIds, ps \in Assignments :
        /\ ps # <<>>
        /\ Begin(c, [op |-> "AssignPermissions", role |-> r, todo |-> ps, asked |-> ToSet(ps),
                     stage |-> "clear"])

\* Over HTTP the role must exist, and the list may be empty.
HttpAssignPermissions(c) ==
    \E r \in usedRoles, ps \in Assignments :
        /\ call[c].stage = "idle"
        /\ IF roles[r] = None THEN Reply(c, "notfound")
           ELSE Begin(c, [op |-> "httpAssignPermissions", role |-> r, todo |-> ps,
                          asked |-> ToSet(ps), stage |-> "clear"])

ClearPermissions(c) ==
    /\ AtCall(c, {"AssignPermissions", "httpAssignPermissions"}, "clear")
    /\ WritePerms(c, call[c].role, {rp \in rolePerms : rp[1] # call[c].role},
                  IF call[c].todo = <<>> THEN NoCall ELSE [call[c] EXCEPT !.stage = "add"])

\* The call after one round of the loop.
NextPermission(c) ==
    IF Len(call[c].todo) > 1 THEN [call[c] EXCEPT !.todo = Tail(@)]
    ELSE IF call[c].op = "AssignPermissions"
         THEN Assigned
         ELSE NoCall

\* Faulty variant: an insert that failed would be passed over.
AddPermissionGoesOn(c) ==
    /\ AtCall(c, {"AssignPermissions"}, "add")
    /\ LET r == call[c].role
           p == Head(call[c].todo)
       IN IF roles[r] = None \/ <<r, p>> \in rolePerms
          THEN To(c, NextPermission(c)) /\ UNCHANGED <<roles, usedRoles, rolePerms, userRoles, commits>>
          ELSE WritePerms(c, r, rolePerms \cup {<<r, p>>}, NextPermission(c))

\* Insert of one row; a missing role or a row that is there already is an error.
AddPermission(c) ==
    /\ AtCall(c, {"AssignPermissions"}, "add")
    /\ LET r == call[c].role
           p == Head(call[c].todo)
       IN IF roles[r] = None \/ <<r, p>> \in rolePerms THEN Reply(c, "error")
          ELSE WritePerms(c, r, rolePerms \cup {<<r, p>>}, NextPermission(c))

\* The HTTP handler ignores the result of every insert.
HttpAddPermission(c) ==
    /\ AtCall(c, {"httpAssignPermissions"}, "add")
    /\ LET r == call[c].role
           p == Head(call[c].todo)
       IN \/ /\ roles[r] # None /\ <<r, p>> \notin rolePerms
             /\ WritePerms(c, r, rolePerms \cup {<<r, p>>}, NextPermission(c))
          \/ /\ StatementsFail \/ roles[r] = None \/ <<r, p>> \in rolePerms
             /\ To(c, NextPermission(c))
             /\ UNCHANGED <<roles, usedRoles, rolePerms, userRoles, commits>>

\* The HTTP handler ignores the result of the delete, too.
HttpClearFails(c) ==
    /\ StatementsFail
    /\ AtCall(c, {"httpAssignPermissions"}, "clear")
    /\ To(c, IF call[c].todo = <<>> THEN NoCall ELSE [stage |-> "add"])
    /\ UNCHANGED <<roles, usedRoles, rolePerms, userRoles, commits>>

HttpRemovePermission(c) ==
    \E r \in RoleIds, p \in Perms :
        /\ call[c].stage = "idle"
        /\ WritePerms(c, r, rolePerms \ {<<r, p>>}, NoCall)

-----------------------------------------------------------------------------
(* Roles of a user.                                                        *)

AssignUserRole(c) ==
    \E u \in UserIds, r \in RoleIds :
        /\ call[c].stage = "idle"
        /\ IF <<u, r>> \in userRoles THEN Reply(c, "conflict")
           ELSE Begin(c, [op |-> "AssignUserRole", user |-> u, role |-> r, stage |-> "insertUser"])

HttpAssignUserRole(c) ==
    \E u \in UserIds, r \in RoleIds :
        /\ call[c].stage = "idle"
        /\ IF roles[r] = None THEN Reply(c, "notfound")
           ELSE IF <<u, r>> \in userRoles THEN Reply(c, "conflict")
           ELSE Begin(c, [op |-> "httpAssignUserRole", user |-> u, role |-> r, stage |-> "insertUser"])

\* The unique index and the foreign key decide, whatever the check saw.
InsertUserRole(c) ==
    /\ AtCall(c, {"AssignUserRole", "httpAssignUserRole"}, "insertUser")
    /\ LET ur == <<call[c].user, call[c].role>>
       IN IF ur \in userRoles \/ roles[call[c].role] = None THEN Reply(c, "error")
          ELSE /\ Commit
               /\ userRoles' = userRoles \cup {ur}
               /\ Answer(c, "ok")
               /\ UNCHANGED <<roles, usedRoles, rolePerms>>

RevokeUserRole(c) ==
    \E u \in UserIds, r \in RoleIds :
        /\ call[c].stage = "idle"
        /\ Commit
        /\ userRoles' = userRoles \ {<<u, r>>}
        /\ Answer(c, "ok")
        /\ UNCHANGED <<roles, usedRoles, rolePerms>>

HttpRevokeUserRole(c) ==
    \E u \in UserIds, r \in RoleIds :
        /\ call[c].stage = "idle"
        /\ IF roles[r] = None THEN Reply(c, "notfound")
           ELSE Begin(c, [op |-> "httpRevokeUserRole", user |-> u, role |-> r, stage |-> "deleteUser"])

DeleteUserRole(c) ==
    /\ AtCall(c, {"httpRevokeUserRole"}, "deleteUser")
    /\ Commit
    /\ userRoles' = userRoles \ {<<call[c].user, call[c].role>>}
    /\ Answer(c, "ok")
    /\ UNCHANGED <<roles, usedRoles, rolePerms>>

RolesNext ==
    \E c \in Callers :
        \/ CreateRole(c) \/ HttpCreateRole(c) \/ HttpInsertRole(c)
        \/ UpdateRole(c) \/ HttpUpdateRole(c) \/ SaveRole(c)
        \/ DeleteRole(c) \/ HttpDeleteRole(c) \/ RemoveRole(c)
        \/ AssignPermissions(c) \/ HttpAssignPermissions(c) \/ ClearPermissions(c)
        \/ AddPermission(c) \/ HttpAddPermission(c) \/ HttpClearFails(c)
        \/ HttpRemovePermission(c)
        \/ AssignUserRole(c) \/ HttpAssignUserRole(c) \/ InsertUserRole(c)
        \/ RevokeUserRole(c) \/ HttpRevokeUserRole(c) \/ DeleteUserRole(c)
        \/ StatementFails(c)

-----------------------------------------------------------------------------
(* Properties.                                                             *)

\* gRPC AssignPermissions that answers success leaves the role with exactly
\* the permissions of the request, as ListRoles shows them, unless another
\* call wrote permissions of the role after it had cleared them: it deletes
\* all rows and inserts one by one, and must not report success after an
\* insert that failed.
AssignedExactly ==
    [][\A c \in Callers :
         AtCall(c, {"AssignPermissions"}, "add") /\ call'[c].answer = "assigned" /\ call[c].alone
         => LET seen == ListRoles'
            IN call[c].role \in DOMAIN seen => seen[call[c].role] = call[c].asked]_roleVars

=============================================================================
