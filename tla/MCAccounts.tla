----------------------------- MODULE MCAccounts -----------------------------
(***************************************************************************)
(* Accounts: the handlers of users and organizations, and roles with the   *)
(* permission service.  They share no variables here: a behaviour moves    *)
(* one part, and the others stay as they began.  Roles are explored in two *)
(* ways: all role handlers against each other, and the permission service  *)
(* against one caller who changes the permissions of roles and the roles   *)
(* of users.  The permissions are a hierarchy of three and a scoped one of *)
(* its own.                                                                *)
(***************************************************************************)
EXTENDS Directory, PermissionService, TLC

CONSTANTS Editor   \* the caller who changes roles under the permission service

VARIABLE part

Exact(t) == [kind |-> "exact", text |-> t]

MCPerms == {"all", "docs", "read", "own"}
MCParent == [p \in MCPerms |-> CASE p = "docs" -> "all" [] p = "read" -> "docs" [] OTHER -> None]
MCRow == [p \in MCPerms |->
    CASE p = "all" -> [resource |-> Exact("system"), action |-> [kind |-> "any", text |-> "*"], scope |-> Exact("")]
      [] p = "docs" -> [resource |-> [kind |-> "prefix", text |-> "doc*"], action |-> Exact("list"), scope |-> Exact("")]
      [] p = "read" -> [resource |-> Exact("document"), action |-> Exact("read"), scope |-> Exact("")]
      [] p = "own" -> [resource |-> Exact("document"), action |-> Exact("read"), scope |-> Exact("own")]]
MCBegins == {<<"doc*", "document">>}
MCQuestions == {[resource |-> "document", action |-> "read", scope |-> ""],
                [resource |-> "document", action |-> "read", scope |-> "own"]}
MCAssignments == {<<>>, <<"all">>, <<"own">>, <<"own", "all">>}

\* Roles and organizations are the same model values, as are names and addresses.
MCSymmetry == Permutations(Handlers) \cup Permutations(RoleIds \cup Orgs) \cup Permutations(Names \cup Emails)

\* Empty tables, for the part that rests.
NoUsers ==
    /\ orgs = [o \in Orgs |-> NoRow] /\ users = [u \in Users |-> NoRow] /\ roleHolders = {}
    /\ writes = [u \in Users |-> 0] /\ revision = 0
    /\ cache = [k \in CacheKeys |-> NoRow] /\ rpc = [p \in Handlers |-> FreeSlot]

NoRoles ==
    /\ roles = [r \in RoleIds |-> None] /\ usedRoles = {} /\ rolePerms = {} /\ userRoles = {}
    /\ commits = 0 /\ call = [c \in Callers |-> NoCall]
    /\ VerdictsInit

MCInit ==
    \/ part = "users" /\ DirectoryInit /\ NoRoles
    \/ part \in {"roles", "checks"} /\ PermissionInit /\ NoUsers

UserPart == part = "users" /\ DirectoryNext /\ UNCHANGED <<roleVars, permVars>>
RolePart == part = "roles" /\ RolesNext /\ UNCHANGED <<permVars, directoryVars>>

Edits == {"none", "AssignPermissions", "AssignUserRole", "httpRevokeUserRole"}

CheckPart ==
    /\ part = "checks"
    /\ PermissionNext
    /\ \A c \in Callers \ {Editor} : call'[c] = call[c]
    /\ call'[Editor].op \in Edits
    /\ call'[Editor].role \in LiveRoles \cup {None}
    /\ call'[Editor].asked \in {{}, {"all"}}
    /\ roles' = roles
    /\ UNCHANGED directoryVars

MCNext == (UserPart \/ RolePart \/ CheckPart) /\ UNCHANGED part

MCSpec == MCInit /\ [][MCNext]_<<directoryVars, roleVars, permVars, part>>
=============================================================================
