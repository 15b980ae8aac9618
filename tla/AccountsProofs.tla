--------------------------- MODULE AccountsProofs ---------------------------
(***************************************************************************)
(* Proofs about the accounts: roles (Roles), permission checks and their   *)
(* caches (PermissionService), users and organizations (Directory).        *)
(*                                                                         *)
(* Roles: a gRPC AssignPermissions nobody disturbs has inserted exactly    *)
(* the part of its list that is not left.                                  *)
(*                                                                         *)
(* Permission checks: the walk over the hierarchy and the evaluation of    *)
(* one permission agree with the definition of what a user is granted, and *)
(* a granted verdict, wherever it is on its way, is no older than what the *)
(* caches and calls can have added to the age of its evaluation.           *)
(*                                                                         *)
(* Users and organizations: a row has one maker, in the table and in the   *)
(* requests that will save it again, and what a request has made follows   *)
(* from how far it is.                                                     *)
(***************************************************************************)
EXTENDS PermissionService, Directory, WellFoundedInduction, FiniteSetTheorems, SequenceTheorems, TLAPS

-----------------------------------------------------------------------------
(* Roles.                                                                  *)

CallFields == {"op", "stage", "role", "user", "name", "row", "todo", "asked", "alone", "answer"}

CallShape ==
    /\ call = [c \in Callers |-> call[c]]
    /\ \A c \in Callers : DOMAIN call[c] = CallFields

\* What is left of the list of an assignment.
Listed(todo) == {todo[i] : i \in 1 .. Len(todo)}

\* A call under way has not answered.  gRPC AssignPermissions has inserted the part of the
\* list that is not left, and nothing else is there unless another call wrote.
AssignInv(c) ==
    /\ call[c].stage # "idle" => call[c].answer = "none"
    /\ call[c].op = "AssignPermissions" /\ call[c].stage \in {"clear", "add"} =>
          /\ call[c].role \in RoleIds
          /\ call[c].todo \in Seq(Perms) /\ call[c].todo # << >>
          /\ IF call[c].stage = "clear" THEN call[c].asked = Listed(call[c].todo)
             ELSE call[c].alone => call[c].asked = PermsOf(call[c].role) \cup Listed(call[c].todo)

RolesInv == CallShape /\ \A c \in Callers : AssignInv(c)

\* Other calls keep their invariant when the permissions of roles are left alone.
LEMMA OthersKeep ==
    ASSUME RolesInv, NEW c \in Callers, rolePerms' = rolePerms, NEW v, DOMAIN v = CallFields,
           call' = [call EXCEPT ![c] = v], AssignInv(c)'
    PROVE  RolesInv'
<1>1. CallShape' /\ \A d \in Callers \ {c} : call'[d] = call[d]
  BY DEF RolesInv, CallShape
<1>2. ASSUME NEW d \in Callers \ {c}
      PROVE  AssignInv(d)'
  <2>1. call'[d] = call[d] /\ PermsOf(call[d].role)' = PermsOf(call[d].role)
    BY <1>1, <1>2 DEF PermsOf
  <2> QED BY <2>1 DEF RolesInv, AssignInv
<1> QED BY <1>1, <1>2 DEF RolesInv

\* A call ends, or begins an operation other than AssignPermissions.
LEMMA OtherOperation ==
    ASSUME RolesInv, NEW c \in Callers, rolePerms' = rolePerms, NEW v, DOMAIN v = CallFields,
           call' = [call EXCEPT ![c] = v], v.op # "AssignPermissions",
           v.stage # "idle" => v.answer = "none"
    PROVE  RolesInv'
<1>1. call'[c] = v
  BY DEF RolesInv, CallShape
<1>2. AssignInv(c)'
  BY <1>1 DEF AssignInv
<1> QED BY <1>2, OthersKeep

\* An operation other than AssignPermissions begins.
LEMMA BeginOther ==
    ASSUME RolesInv, NEW c \in Callers, NEW fields, Begin(c, fields),
           DOMAIN fields \subseteq CallFields \ {"answer"}, "op" \in DOMAIN fields,
           fields.op # "AssignPermissions"
    PROVE  RolesInv'
<1> DEFINE v == With(NoCall, fields)
<1>1. DOMAIN v = CallFields /\ v.op = fields.op /\ v.answer = "none"
  BY DEF With, NoCall, CallFields
<1>2. call' = [call EXCEPT ![c] = v] /\ rolePerms' = rolePerms
  BY DEF Begin
<1> HIDE DEF v
<1> QED BY <1>1, <1>2, OtherOperation

\* A call that ends has no operation.
LEMMA EndKeeps ==
    ASSUME RolesInv, NEW c \in Callers, rolePerms' = rolePerms, call' = [call EXCEPT ![c] = NoCall]
    PROVE  RolesInv'
<1>1. DOMAIN NoCall = CallFields /\ NoCall.op # "AssignPermissions" /\ NoCall.stage = "idle"
  BY DEF NoCall, CallFields
<1> QED BY <1>1, OtherOperation

\* A write of role_permissions takes the solitude of the assignments to that role only.
LEMMA WriteKeeps ==
    ASSUME RolesInv, NEW c \in Callers, NEW r, NEW rows, NEW v, DOMAIN v = CallFields,
           WritePerms(c, r, rows, v),
           \A x \in RoleIds \ {r}, p \in Perms : <<x, p>> \in rows <=> <<x, p>> \in rolePerms,
           AssignInv(c)'
    PROVE  RolesInv'
<1>1. rolePerms' = rows /\ call' = [Shared(c, r) EXCEPT ![c] = v]
  BY DEF WritePerms
<1>2. CallShape'
  BY <1>1 DEF Shared, RolesInv, CallShape
<1>3. ASSUME NEW d \in Callers \ {c}
      PROVE  AssignInv(d)'
  <2>1. call'[d] = IF call[d].role = r /\ call[d].stage = "add" THEN [call[d] EXCEPT !.alone = FALSE] ELSE call[d]
    BY <1>1, <1>3 DEF Shared
  <2>2. CASE call[d].role = r /\ call[d].stage = "add"
    <3>1. /\ call'[d].stage = call[d].stage /\ call'[d].answer = call[d].answer /\ call'[d].op = call[d].op
          /\ call'[d].role = call[d].role /\ call'[d].todo = call[d].todo /\ call'[d].alone = FALSE
      BY <2>1, <2>2 DEF RolesInv, CallShape, CallFields
    <3> QED BY <2>2, <3>1 DEF RolesInv, AssignInv
  <2>3. CASE ~(call[d].role = r /\ call[d].stage = "add")
    <3>1. call'[d] = call[d]
      BY <2>1, <2>3
    <3>2. ASSUME call[d].role \in RoleIds, call[d].role # r
          PROVE  PermsOf(call[d].role)' = PermsOf(call[d].role)
      BY <1>1, <3>1, <3>2 DEF PermsOf
    <3> QED BY <2>3, <3>1, <3>2 DEF RolesInv, AssignInv
  <2> QED BY <2>2, <2>3
<1> QED BY <1>2, <1>3 DEF RolesInv

\* What a call writes into call[c], for the steps of an assignment.
LEMMA WrittenCall ==
    ASSUME CallShape, NEW c \in Callers, NEW r, NEW rows, NEW v, WritePerms(c, r, rows, v)
    PROVE  call'[c] = v /\ rolePerms' = rows
BY DEF WritePerms, Shared, CallShape

\* A list that has a length has a member.
LEMMA LongIsNotEmpty == ASSUME NEW S, NEW s \in Seq(S), Len(s) > 0 PROVE s # << >>
OBVIOUS

\* The members of a list are its head and those of its tail.
LEMMA ListedTail ==
    ASSUME NEW s \in Seq(Perms), s # << >>
    PROVE  /\ Head(s) \in Perms /\ Tail(s) \in Seq(Perms) /\ Len(Tail(s)) = Len(s) - 1
           /\ Len(s) > 1 => Tail(s) # << >>
           /\ Len(s) <= 1 => Listed(s) = {Head(s)}
           /\ Listed(s) = {Head(s)} \cup Listed(Tail(s))
<1>1. /\ Head(s) \in Perms /\ Tail(s) \in Seq(Perms) /\ Len(Tail(s)) = Len(s) - 1 /\ Head(s) = s[1]
      /\ Len(s) \in Nat \ {0}
      /\ \A i \in 1 .. Len(Tail(s)) : Tail(s)[i] = s[i + 1]
  OBVIOUS
<1>2. ASSUME NEW x \in Listed(s)
      PROVE  x = Head(s) \/ x \in Listed(Tail(s))
  <2>1. PICK i \in 1 .. Len(s) : x = s[i]
    BY DEF Listed
  <2>2. CASE i # 1
    <3>1. i - 1 \in 1 .. Len(Tail(s)) /\ (i - 1) + 1 = i
      BY <1>1, <2>2
    <3>2. Tail(s)[i - 1] = s[i]
      BY <1>1, <3>1
    <3> QED BY <2>1, <3>1, <3>2 DEF Listed
  <2> QED BY <1>1, <2>1, <2>2
<1>3. ASSUME NEW x \in Listed(Tail(s))
      PROVE  x \in Listed(s)
  <2>1. PICK i \in 1 .. Len(Tail(s)) : x = Tail(s)[i]
    BY DEF Listed
  <2>2. i + 1 \in 1 .. Len(s) /\ x = s[i + 1]
    BY <1>1, <2>1
  <2> QED BY <2>2 DEF Listed
<1>4. Head(s) \in Listed(s)
  BY <1>1 DEF Listed
<1>5. Len(s) > 1 => Tail(s) # << >>
  <2>1. Len(s) > 1 => Len(Tail(s)) > 0
    BY <1>1
  <2> QED BY <1>1, <2>1, LongIsNotEmpty
<1>6. Len(s) <= 1 => Listed(s) = {Head(s)}
  BY <1>1 DEF Listed
<1> QED BY <1>1, <1>2, <1>3, <1>4, <1>5, <1>6

\* gRPC AssignPermissions begins.
LEMMA AssignBegins ==
    ASSUME RolesInv, NEW c \in Callers, AssignPermissions(c)
    PROVE  RolesInv'
<1>1. PICK r \in RoleIds, ps \in Assignments :
         /\ ps # << >>
         /\ Begin(c, [op |-> "AssignPermissions", role |-> r, todo |-> ps, asked |-> ToSet(ps), stage |-> "clear"])
  BY DEF AssignPermissions
<1> DEFINE v == With(NoCall, [op |-> "AssignPermissions", role |-> r, todo |-> ps, asked |-> ToSet(ps), stage |-> "clear"])
<1>2. call' = [call EXCEPT ![c] = v] /\ rolePerms' = rolePerms
  BY <1>1 DEF Begin
<1>3. /\ DOMAIN v = CallFields /\ v.op = "AssignPermissions" /\ v.stage = "clear" /\ v.role = r /\ v.todo = ps
      /\ v.asked = ToSet(ps) /\ v.answer = "none"
  BY DEF With, NoCall, CallFields
<1>4. ps \in Seq(Perms)
  BY RolesAssumption
<1>5. ToSet(ps) = Listed(ps)
  BY <1>4 DEF ToSet, Listed
<1> HIDE DEF v
<1>6. call'[c] = v
  BY <1>2 DEF RolesInv, CallShape
<1>7. AssignInv(c)'
  BY <1>1, <1>3, <1>4, <1>5, <1>6 DEF AssignInv
<1> QED BY <1>2, <1>3, <1>7, OthersKeep

\* The delete of an assignment: nothing of the role is left.
LEMMA ClearKeeps ==
    ASSUME RolesInv, NEW c \in Callers, ClearPermissions(c)
    PROVE  RolesInv'
<1> DEFINE r == call[c].role
           rows == {rp \in rolePerms : rp[1] # r}
           v == IF call[c].todo = << >> THEN NoCall ELSE [call[c] EXCEPT !.stage = "add"]
<1>1. WritePerms(c, r, rows, v) /\ call[c].stage = "clear" /\ call[c].op \in {"AssignPermissions", "httpAssignPermissions"}
  BY DEF ClearPermissions, AtCall
<1>2. DOMAIN v = CallFields
  BY DEF RolesInv, CallShape, CallFields, NoCall
<1>3. \A x \in RoleIds \ {r}, p \in Perms : <<x, p>> \in rows <=> <<x, p>> \in rolePerms
  OBVIOUS
<1>4. call'[c] = v /\ rolePerms' = rows
  BY <1>1, WrittenCall DEF RolesInv
<1>5. AssignInv(c)'
  <2>1. CASE call[c].todo = << >>
    BY <1>4, <2>1 DEF AssignInv, NoCall
  <2>2. CASE call[c].todo # << >>
    <3>1. /\ call'[c].stage = "add" /\ call'[c].op = call[c].op /\ call'[c].role = r /\ call'[c].todo = call[c].todo
          /\ call'[c].asked = call[c].asked /\ call'[c].answer = call[c].answer
      BY <1>4, <2>2 DEF RolesInv, CallShape, CallFields
    <3>2. PermsOf(call[c].role)' = {}
      BY <1>4, <3>1 DEF PermsOf
    <3> HIDE DEF r
    <3> QED BY <1>1, <2>2, <3>1, <3>2 DEF RolesInv, AssignInv, r
  <2> QED BY <2>1, <2>2
<1> HIDE DEF rows, v, r
<1> QED BY <1>1, <1>2, <1>3, <1>5, WriteKeeps

\* One insert of gRPC AssignPermissions: the inserted permission leaves the list.
LEMMA AddKeeps ==
    ASSUME RolesInv, NEW c \in Callers, AddPermission(c)
    PROVE  RolesInv'
<1> DEFINE r == call[c].role
           p == Head(call[c].todo)
           rows == rolePerms \cup {<<r, p>>}
           v == NextPermission(c)
<1>1. call[c].stage = "add" /\ call[c].op = "AssignPermissions"
  BY DEF AddPermission, AtCall
<1>2. /\ call[c].todo \in Seq(Perms) /\ call[c].todo # << >> /\ call[c].answer = "none" /\ r \in RoleIds
      /\ call[c].alone => call[c].asked = PermsOf(r) \cup Listed(call[c].todo)
  BY <1>1 DEF RolesInv, AssignInv
<1>3. CASE Reply(c, "error")
  BY <1>3, EndKeeps DEF Reply, Answer
<1>4. CASE WritePerms(c, r, rows, v)
  <2>1. DOMAIN v = CallFields
    BY DEF NextPermission, Assigned, NoCall, RolesInv, CallShape, CallFields
  <2>2. \A x \in RoleIds \ {r}, q \in Perms : <<x, q>> \in rows <=> <<x, q>> \in rolePerms
    OBVIOUS
  <2>3. call'[c] = v /\ rolePerms' = rows
    BY <1>4, WrittenCall DEF RolesInv
  <2>4. AssignInv(c)'
    <3>1. CASE Len(call[c].todo) > 1
      <4>1. v = [call[c] EXCEPT !.todo = Tail(call[c].todo)]
        BY <3>1 DEF NextPermission
      <4>2. /\ call'[c].stage = "add" /\ call'[c].op = call[c].op /\ call'[c].role = r
            /\ call'[c].todo = Tail(call[c].todo) /\ call'[c].alone = call[c].alone
            /\ call'[c].asked = call[c].asked /\ call'[c].answer = call[c].answer
        BY <1>1, <2>3, <4>1 DEF RolesInv, CallShape, CallFields
      <4>3. /\ Tail(call[c].todo) \in Seq(Perms) /\ Tail(call[c].todo) # << >> /\ p \in Perms
            /\ Listed(call[c].todo) = {p} \cup Listed(Tail(call[c].todo))
        BY <1>2, <3>1, ListedTail
      <4>4. PermsOf(call[c].role)' = PermsOf(r) \cup {p}
        BY <2>3, <4>2, <4>3 DEF PermsOf
      <4> HIDE DEF r, p, rows, v
      <4> QED BY <1>1, <1>2, <4>2, <4>3, <4>4 DEF AssignInv
    <3>2. CASE ~(Len(call[c].todo) > 1)
      <4>1. v = Assigned
        BY <1>1, <3>2 DEF NextPermission
      <4> QED BY <2>3, <4>1 DEF AssignInv, Assigned, NoCall
    <3> QED BY <3>1, <3>2
  <2> HIDE DEF rows, v
  <2> QED BY <1>4, <2>1, <2>2, <2>4, WriteKeeps
<1> QED BY <1>3, <1>4 DEF AddPermission

\* The steps of the HTTP assignment and of its removal.
LEMMA HttpPermsKeep ==
    ASSUME RolesInv, NEW c \in Callers, HttpAddPermission(c) \/ HttpClearFails(c) \/ HttpRemovePermission(c)
    PROVE  RolesInv'
<1> USE DEF RolesInv, CallShape
<1>1. ASSUME HttpAddPermission(c) \/ HttpClearFails(c), NEW v, v \in {NextPermission(c), NoCall, [stage |-> "add"]},
             HttpAddPermission(c) => v = NextPermission(c)
      PROVE  /\ DOMAIN v \subseteq CallFields
             /\ DOMAIN With(call[c], v) = CallFields
             /\ With(call[c], v).op # "AssignPermissions"
             /\ With(call[c], v).stage # "idle" => With(call[c], v).answer = "none"
  <2>1. call[c].op = "httpAssignPermissions" /\ call[c].stage # "idle" /\ call[c].answer = "none"
    BY <1>1 DEF HttpAddPermission, HttpClearFails, AtCall, AssignInv
  <2>2. CASE v = NoCall
    BY <2>2 DEF NoCall, With, CallFields
  <2>3. CASE v = [stage |-> "add"]
    BY <2>1, <2>3 DEF With, CallFields
  <2>4. CASE v = [call[c] EXCEPT !.todo = Tail(@)]
    BY <2>1, <2>4 DEF With, CallFields
  <2> QED BY <1>1, <2>1, <2>2, <2>3, <2>4 DEF NextPermission
<1>2. ASSUME NEW v \in {NextPermission(c), NoCall, [stage |-> "add"]}, HttpAddPermission(c) => v = NextPermission(c),
             HttpAddPermission(c) \/ HttpClearFails(c), To(c, v), rolePerms' = rolePerms
      PROVE  RolesInv'
  <2>1. call' = [call EXCEPT ![c] = With(call[c], v)]
    BY <1>2 DEF To
  <2> QED BY <1>1, <1>2, <2>1, OtherOperation
<1>3. CASE HttpClearFails(c)
  <2>1. ~HttpAddPermission(c)
    BY <1>3 DEF HttpClearFails, HttpAddPermission, AtCall
  <2> QED BY <1>2, <1>3, <2>1 DEF HttpClearFails
<1>4. CASE HttpAddPermission(c)
  <2> DEFINE r == call[c].role
             p == Head(call[c].todo)
             rows == rolePerms \cup {<<r, p>>}
             v == NextPermission(c)
  <2>1. CASE To(c, v) /\ rolePerms' = rolePerms
    BY <1>2, <1>4, <2>1
  <2>2. CASE WritePerms(c, r, rows, v)
    <3>1. call[c].op = "httpAssignPermissions" /\ call[c].stage # "idle" /\ call[c].answer = "none"
      BY <1>4 DEF HttpAddPermission, AtCall, AssignInv
    <3>2. DOMAIN v = CallFields /\ v.op # "AssignPermissions" /\ (v.stage # "idle" => v.answer = "none")
      BY <3>1 DEF NextPermission, NoCall, CallFields
    <3>3. call'[c] = v
      BY <2>2, WrittenCall
    <3>4. AssignInv(c)'
      BY <3>2, <3>3 DEF AssignInv
    <3>5. \A x \in RoleIds \ {r}, q \in Perms : <<x, q>> \in rows <=> <<x, q>> \in rolePerms
      OBVIOUS
    <3> HIDE DEF rows, v
    <3> QED BY <2>2, <3>2, <3>4, <3>5, WriteKeeps
  <2> QED BY <1>4, <2>1, <2>2 DEF HttpAddPermission
<1>5. CASE HttpRemovePermission(c)
  <2>1. PICK r \in RoleIds, p \in Perms : WritePerms(c, r, rolePerms \ {<<r, p>>}, NoCall)
    BY <1>5 DEF HttpRemovePermission
  <2>2. call'[c] = NoCall
    BY <2>1, WrittenCall
  <2>3. AssignInv(c)' /\ DOMAIN NoCall = CallFields
    BY <2>2 DEF AssignInv, NoCall, CallFields
  <2>4. \A x \in RoleIds \ {r}, q \in Perms : <<x, q>> \in rolePerms \ {<<r, p>>} <=> <<x, q>> \in rolePerms
    OBVIOUS
  <2> QED BY <2>1, <2>3, <2>4, WriteKeeps
<1> QED BY <1>3, <1>4, <1>5

\* No call is under way at first.
LEMMA RolesInvInit == RolesInit => RolesInv
BY DEF RolesInit, RolesInv, CallShape, CallFields, AssignInv, NoCall

\* Every statement of a role handler keeps the invariant.
LEMMA RolesInvNext == RolesInv /\ [RolesNext]_roleVars => RolesInv'
<1> SUFFICES ASSUME RolesInv, [RolesNext]_roleVars
             PROVE  RolesInv'
  OBVIOUS
<1>1. CASE UNCHANGED roleVars
  BY <1>1 DEF roleVars, RolesInv, CallShape, AssignInv, PermsOf
<1>2. ASSUME NEW c \in Callers,
             \/ CreateRole(c) \/ HttpInsertRole(c) \/ SaveRole(c) \/ RemoveRole(c) \/ InsertUserRole(c)
             \/ RevokeUserRole(c) \/ DeleteUserRole(c) \/ StatementFails(c)
      PROVE  RolesInv'
  <2>1. rolePerms' = rolePerms /\ call' = [call EXCEPT ![c] = NoCall]
    BY <1>2 DEF CreateRole, HttpInsertRole, NewRole, SaveRole, SaveRow, RemoveRole, DeleteRow, InsertUserRole,
                RevokeUserRole, DeleteUserRole, StatementFails, Reply, Answer
  <2> QED BY <2>1, EndKeeps
<1>3. ASSUME NEW c \in Callers,
             \/ HttpCreateRole(c) \/ UpdateRole(c) \/ HttpUpdateRole(c) \/ DeleteRole(c) \/ HttpDeleteRole(c)
             \/ HttpAssignPermissions(c) \/ AssignUserRole(c) \/ HttpAssignUserRole(c) \/ HttpRevokeUserRole(c)
      PROVE  RolesInv'
  <2>1. CASE \E a : Reply(c, a)
    BY <2>1, EndKeeps DEF Reply, Answer
  <2>2. CASE \E fields : /\ Begin(c, fields) /\ DOMAIN fields \subseteq CallFields \ {"answer"}
                         /\ "op" \in DOMAIN fields /\ fields.op # "AssignPermissions"
    BY <2>2, BeginOther
  <2>3. CASE HttpCreateRole(c)
    BY <2>1, <2>2, <2>3 DEF HttpCreateRole, CallFields
  <2>4. CASE UpdateRole(c)
    BY <2>1, <2>2, <2>4 DEF UpdateRole, CallFields
  <2>5. CASE HttpUpdateRole(c)
    BY <2>1, <2>2, <2>5 DEF HttpUpdateRole, CallFields
  <2>6. CASE DeleteRole(c)
    BY <2>1, <2>2, <2>6 DEF DeleteRole, CallFields
  <2>7. CASE HttpDeleteRole(c)
    BY <2>1, <2>2, <2>7 DEF HttpDeleteRole, CallFields
  <2>8. CASE HttpAssignPermissions(c)
    BY <2>1, <2>2, <2>8 DEF HttpAssignPermissions, CallFields
  <2>9. CASE AssignUserRole(c)
    BY <2>1, <2>2, <2>9 DEF AssignUserRole, CallFields
  <2>10. CASE HttpAssignUserRole(c)
    BY <2>1, <2>2, <2>10 DEF HttpAssignUserRole, CallFields
  <2>11. CASE HttpRevokeUserRole(c)
    BY <2>1, <2>2, <2>11 DEF HttpRevokeUserRole, CallFields
  <2> QED BY <1>3, <2>3, <2>4, <2>5, <2>6, <2>7, <2>8, <2>9, <2>10, <2>11
<1>4. ASSUME NEW c \in Callers,
             \/ AssignPermissions(c) \/ ClearPermissions(c) \/ AddPermission(c)
             \/ HttpAddPermission(c) \/ HttpClearFails(c) \/ HttpRemovePermission(c)
      PROVE  RolesInv'
  BY <1>4, AssignBegins, ClearKeeps, AddKeeps, HttpPermsKeep
<1> QED BY <1>1, <1>2, <1>3, <1>4 DEF RolesNext

\* The step of one caller does not answer for another.
LEMMA OwnAnswer ==
    ASSUME RolesInv, NEW d \in Callers, NEW c \in Callers \ {d},
           \/ \E v : call' = [call EXCEPT ![d] = v]
           \/ \E r, v : call' = [Shared(d, r) EXCEPT ![d] = v]
    PROVE  call'[c].answer = call[c].answer
<1>1. CASE \E v : call' = [call EXCEPT ![d] = v]
  BY <1>1 DEF RolesInv, CallShape
<1>2. ASSUME NEW r, NEW v, call' = [Shared(d, r) EXCEPT ![d] = v]
      PROVE  call'[c].answer = call[c].answer
  <2>1. call'[c] \in {call[c], [call[c] EXCEPT !.alone = FALSE]}
    BY <1>2 DEF Shared
  <2> QED BY <2>1 DEF RolesInv, CallShape, CallFields
<1> QED BY <1>1, <1>2

\* The answer of AssignPermissions is given by its own last insert.
LEMMA AssignedByInsert ==
    ASSUME RolesInv, RolesNext, NEW c \in Callers, AtCall(c, {"AssignPermissions"}, "add"),
           call'[c].answer = "assigned"
    PROVE  AddPermission(c)
<1>1. call[c].stage = "add" /\ call[c].op = "AssignPermissions" /\ call[c].answer = "none"
  BY DEF AtCall, RolesInv, AssignInv
<1>2. ASSUME NEW d \in Callers,
             \/ CreateRole(d) \/ HttpInsertRole(d) \/ SaveRole(d) \/ RemoveRole(d) \/ InsertUserRole(d)
             \/ RevokeUserRole(d) \/ DeleteUserRole(d) \/ StatementFails(d)
      PROVE  FALSE
  <2>1. call' = [call EXCEPT ![d] = NoCall]
    BY <1>2 DEF CreateRole, HttpInsertRole, NewRole, SaveRole, SaveRow, RemoveRole, DeleteRow, InsertUserRole,
                RevokeUserRole, DeleteUserRole, StatementFails, Reply, Answer
  <2>2. CASE d = c
    BY <2>1, <2>2 DEF NoCall, RolesInv, CallShape
  <2>3. CASE d # c
    BY <1>1, <2>1, <2>3, OwnAnswer
  <2> QED BY <2>2, <2>3
<1>3. ASSUME NEW d \in Callers,
             \/ HttpCreateRole(d) \/ UpdateRole(d) \/ HttpUpdateRole(d) \/ DeleteRole(d) \/ HttpDeleteRole(d)
             \/ HttpAssignPermissions(d) \/ AssignUserRole(d) \/ HttpAssignUserRole(d) \/ HttpRevokeUserRole(d)
             \/ AssignPermissions(d)
      PROVE  FALSE
  <2>1. call[d].stage = "idle" /\ \E v : call' = [call EXCEPT ![d] = v]
    BY <1>3 DEF HttpCreateRole, UpdateRole, HttpUpdateRole, DeleteRole, HttpDeleteRole, HttpAssignPermissions,
                AssignUserRole, HttpAssignUserRole, HttpRevokeUserRole, AssignPermissions, Begin, Reply, Answer
  <2> QED BY <1>1, <2>1, OwnAnswer
<1>4. ASSUME NEW d \in Callers, ClearPermissions(d) \/ HttpAddPermission(d) \/ HttpClearFails(d) \/ HttpRemovePermission(d)
      PROVE  FALSE
  <2>1. \/ \E v : call' = [call EXCEPT ![d] = v]
        \/ \E r, v : call' = [Shared(d, r) EXCEPT ![d] = v]
    BY <1>4 DEF ClearPermissions, HttpAddPermission, HttpClearFails, HttpRemovePermission, WritePerms, To
  <2>2. d # c
    BY <1>1, <1>4 DEF ClearPermissions, HttpAddPermission, HttpClearFails, HttpRemovePermission, AtCall
  <2> QED BY <1>1, <2>1, <2>2, OwnAnswer
<1>5. ASSUME NEW d \in Callers \ {c}, AddPermission(d)
      PROVE  FALSE
  <2>1. \/ \E v : call' = [call EXCEPT ![d] = v]
        \/ \E r, v : call' = [Shared(d, r) EXCEPT ![d] = v]
    BY <1>5 DEF AddPermission, Reply, Answer, WritePerms
  <2> QED BY <1>1, <2>1, OwnAnswer
<1> QED BY <1>2, <1>3, <1>4, <1>5 DEF RolesNext

\* When gRPC AssignPermissions answers success, the role has exactly the permissions of
\* the request unless another call wrote them since the delete (AssignPermissions of
\* server.go), whatever statements of other handlers came in between.
THEOREM AssignmentsExact == RolesInit /\ [][RolesNext]_roleVars => AssignedExactly
<1> DEFINE Exact ==
      \A c \in Callers :
         AtCall(c, {"AssignPermissions"}, "add") /\ call'[c].answer = "assigned" /\ call[c].alone
         => LET seen == ListRoles'
            IN call[c].role \in DOMAIN seen => seen[call[c].role] = call[c].asked
<1>1. ASSUME RolesInv, [RolesNext]_roleVars
      PROVE  [Exact]_roleVars
  <2> SUFFICES ASSUME RolesNext, NEW c \in Callers, AtCall(c, {"AssignPermissions"}, "add"),
                      call'[c].answer = "assigned", call[c].alone, call[c].role \in DOMAIN ListRoles'
               PROVE  ListRoles'[call[c].role] = call[c].asked
    BY <1>1
  <2> DEFINE r == call[c].role
             p == Head(call[c].todo)
  <2>1. /\ call[c].stage = "add" /\ call[c].op = "AssignPermissions" /\ call[c].answer = "none"
        /\ call[c].todo \in Seq(Perms) /\ call[c].todo # << >>
        /\ call[c].asked = PermsOf(r) \cup Listed(call[c].todo)
    BY <1>1 DEF AtCall, RolesInv, AssignInv
  <2>2. AddPermission(c)
    BY <1>1, AssignedByInsert
  <2>3. ~Reply(c, "error")
    BY <1>1 DEF Reply, Answer, NoCall, RolesInv, CallShape
  <2>4. WritePerms(c, r, rolePerms \cup {<<r, p>>}, NextPermission(c)) /\ roles' = roles
    BY <2>2, <2>3 DEF AddPermission, WritePerms
  <2>5. call'[c] = NextPermission(c) /\ rolePerms' = rolePerms \cup {<<r, p>>}
    BY <1>1, <2>4, WrittenCall DEF RolesInv
  <2>6. ~(Len(call[c].todo) > 1)
    <3> SUFFICES ASSUME Len(call[c].todo) > 1
                 PROVE  FALSE
      OBVIOUS
    <3>1. call'[c].answer = call[c].answer
      BY <1>1, <2>5 DEF NextPermission, RolesInv, CallShape, CallFields
    <3> QED BY <2>1, <3>1
  <2>7. Listed(call[c].todo) = {p} /\ p \in Perms
    BY <2>1, <2>6, ListedTail
  <2>8. {q \in Perms : <<r, q>> \in rolePerms'} = PermsOf(r) \cup {p}
    BY <2>5, <2>7 DEF PermsOf
  <2> HIDE DEF p, r
  <2>9. ListRoles' = [x \in LiveRoles' |-> {q \in Perms : <<x, q>> \in rolePerms'}]
    BY DEF ListRoles, PermsOf
  <2>10. r \in LiveRoles'
    BY <2>9 DEF r
  <2>11. ListRoles'[r] = {q \in Perms : <<r, q>> \in rolePerms'}
    BY <2>9, <2>10
  <2> QED BY <2>1, <2>7, <2>8, <2>11 DEF r
<1> QED BY <1>1, RolesInvInit, RolesInvNext, PTL DEF AssignedExactly

-----------------------------------------------------------------------------
(* Permission checks.                                                      *)

(***************************************************************************)
(* Recursion over the levels of the hierarchy.  The induction theorems of  *)
(* the library take an operator; the same arguments with a set instead of  *)
(* an operator are within reach of the provers.                            *)
(***************************************************************************)

\* A set of natural numbers has a least member.
LEMMA LeastMember ==
    ASSUME NEW T \in SUBSET Nat, T # {}
    PROVE  \E x \in T : \A y \in T : x <= y
<1> DEFINE R == {ss \in Nat \X Nat : ss[1] < ss[2]}
<1>1. IsWellFoundedOn(R, Nat)
  BY NatLessThanWellFounded, Zenon DEF OpToRel
<1>2. PICK x \in T : \A y \in T : ~(<<y, x>> \in R)
  <2> HIDE DEF R
  <2> QED BY <1>1, WFMin
<1>3. ASSUME NEW y \in T
      PROVE  x <= y
  <2>1. <<y, x>> \in Nat \X Nat
    OBVIOUS
  <2>2. ~(y < x)
    BY <1>2, <2>1
  <2> QED BY <2>2
<1> QED BY <1>3

\* Induction for a set: 0 is in it, and with a number its successor.
LEMMA SetInduction ==
    ASSUME NEW T, 0 \in T, \A n \in Nat : n \in T => n + 1 \in T
    PROVE  \A n \in Nat : n \in T
<1> SUFFICES ASSUME Nat \ T # {}
             PROVE  FALSE
  OBVIOUS
<1>1. PICK x \in Nat \ T : \A y \in Nat \ T : x <= y
  BY LeastMember
<1>2. x - 1 \in Nat /\ x - 1 \notin Nat \ T
  BY <1>1
<1> QED BY <1>2

\* A function can be iterated: the n-th element of the sequence that starts with b.
LEMMA Iteration ==
    ASSUME NEW V, NEW b \in V, NEW G \in [V -> V]
    PROVE  \E f \in [Nat -> V] : f[0] = b /\ \A n \in Nat : f[n + 1] = G[f[n]]
<1> DEFINE Upto(m) == {f \in [0 .. m -> V] : f[0] = b /\ \A n \in 0 .. (m - 1) : f[n + 1] = G[f[n]]}
<1>1. \A m \in Nat : Upto(m) # {}
  <2> DEFINE T == {m \in Nat : Upto(m) # {}}
  <2>1. 0 \in T
    <3>1. [n \in 0 .. 0 |-> b] \in Upto(0)
      OBVIOUS
    <3> QED BY <3>1
  <2>2. ASSUME NEW m \in Nat, m \in T
        PROVE  m + 1 \in T
    <3>1. PICK f \in Upto(m) : TRUE
      BY <2>2
    <3> DEFINE g == [n \in 0 .. (m + 1) |-> IF n = m + 1 THEN G[f[m]] ELSE f[n]]
    <3>2. g \in [0 .. (m + 1) -> V] /\ g[0] = b
      OBVIOUS
    <3>3. \A n \in 0 .. ((m + 1) - 1) : g[n + 1] = G[g[n]]
      <4> SUFFICES ASSUME NEW n \in 0 .. m
                   PROVE  g[n + 1] = G[g[n]]
        OBVIOUS
      <4>1. CASE n = m
        BY <4>1
      <4>2. CASE n # m
        <5>1. n \in 0 .. (m - 1)
          BY <4>2
        <5>2. f[n + 1] = G[f[n]]
          BY <5>1
        <5> QED BY <4>2, <5>1, <5>2
      <4> QED BY <4>1, <4>2
    <3>4. g \in Upto(m + 1)
      BY <3>2, <3>3
    <3> HIDE DEF g, Upto
    <3>5. Upto(m + 1) # {} /\ m + 1 \in Nat
      BY <3>4
    <3> QED BY <3>5
  <2> HIDE DEF T
  <2>3. \A m \in Nat : m \in T
    BY <2>1, <2>2, SetInduction
  <2> QED BY <2>3 DEF T
<1>2. ASSUME NEW m \in Nat, NEW k \in 0 .. m, NEW f \in Upto(m), NEW g \in Upto(k)
      PROVE  f[k] = g[k]
  <2> DEFINE T == {n \in Nat : n <= k => f[n] = g[n]}
  <2>1. 0 \in T
    BY <1>2
  <2>2. ASSUME NEW n \in Nat, n \in T
        PROVE  n + 1 \in T
    <3> SUFFICES ASSUME n + 1 <= k
                 PROVE  f[n + 1] = g[n + 1]
      OBVIOUS
    <3>1. n \in 0 .. (m - 1) /\ n \in 0 .. (k - 1) /\ f[n] = g[n]
      BY <2>2
    <3> QED BY <3>1
  <2> HIDE DEF T
  <2>3. k \in T
    BY <2>1, <2>2, SetInduction
  <2> QED BY <2>3 DEF T
<1> DEFINE c(m) == CHOOSE f : f \in Upto(m)
           F == [m \in Nat |-> c(m)[m]]
<1>3. \A m \in Nat : c(m) \in Upto(m)
  BY <1>1
<1>4. \A m \in Nat : c(m)[m] \in V
  BY <1>3
<1>5. F \in [Nat -> V]
  <2> HIDE DEF c
  <2> QED BY <1>4
<1>6. F[0] = b
  <2>1. c(0)[0] = b
    BY <1>3
  <2> HIDE DEF c
  <2> QED BY <2>1
<1>7. ASSUME NEW n \in Nat
      PROVE  F[n + 1] = G[F[n]]
  <2>1. c(n + 1) \in Upto(n + 1) /\ c(n) \in Upto(n) /\ n \in 0 .. (n + 1) /\ n \in 0 .. ((n + 1) - 1)
    <3>1. n + 1 \in Nat /\ n \in 0 .. (n + 1) /\ n \in 0 .. ((n + 1) - 1)
      OBVIOUS
    <3> HIDE DEF c, Upto
    <3> QED BY <1>3, <3>1
  <2>2. c(n + 1)[n + 1] = G[c(n + 1)[n]]
    <3> HIDE DEF c
    <3> QED BY <2>1
  <2>3. c(n + 1)[n] = c(n)[n]
    <3> HIDE DEF c, Upto
    <3> QED BY <1>2, <2>1
  <2> HIDE DEF c, Upto
  <2> QED BY <2>2, <2>3
<1> HIDE DEF F
<1> QED BY <1>5, <1>6, <1>7

-----------------------------------------------------------------------------
(* The hierarchy of permissions.                                           *)

\* The recursive query goes one generation down at a time (GetPermissionHierarchy).
LEMMA BelowUnfolds ==
    /\ \A S \in SUBSET Perms : Below[0][S] = S
    /\ \A n \in Nat, S \in SUBSET Perms : Below[n + 1][S] = Below[n][S \cup UNION {Reaches[p] : p \in S}]
<1> DEFINE D(S) == S \cup UNION {Reaches[p] : p \in S}
           V == [SUBSET Perms -> SUBSET Perms]
           b == [S \in SUBSET Perms |-> S]
           G == [g \in V |-> [S \in SUBSET Perms |-> g[D(S)]]]
           Def(f) == [n \in Nat |-> [S \in SUBSET Perms |-> IF n = 0 THEN S ELSE f[n - 1][D(S)]]]
<1>1. \A S \in SUBSET Perms : D(S) \in SUBSET Perms
  BY DEF Reaches
<1>2. b \in V /\ G \in [V -> V]
  <2> HIDE DEF D
  <2> QED BY <1>1
<1>3. PICK f \in [Nat -> V] : f[0] = b /\ \A n \in Nat : f[n + 1] = G[f[n]]
  <2> HIDE DEF V, b, G
  <2> QED BY <1>2, Iteration
<1>4. ASSUME NEW n \in Nat
      PROVE  f[n] = [S \in SUBSET Perms |-> IF n = 0 THEN S ELSE f[n - 1][D(S)]]
  <2>1. CASE n = 0
    BY <1>3, <2>1
  <2>2. CASE n # 0
    <3>1. n - 1 \in Nat /\ (n - 1) + 1 = n
      BY <2>2
    <3>2. f[n] = G[f[n - 1]] /\ f[n - 1] \in V
      BY <1>3, <3>1
    <3>3. G[f[n - 1]] = [S \in SUBSET Perms |-> f[n - 1][D(S)]]
      <4> HIDE DEF V, D
      <4> QED BY <3>2
    <3> HIDE DEF V, D, G
    <3> QED BY <2>2, <3>2, <3>3
  <2> QED BY <2>1, <2>2
<1>5. f = Def(f)
  <2> HIDE DEF D, V
  <2> QED BY <1>4
<1>6. Below = CHOOSE g : g = Def(g)
  BY DEF Below
<1>7. Below = Def(Below)
  <2> HIDE DEF Def
  <2> QED BY <1>5, <1>6
<1>8. ASSUME NEW n \in Nat, NEW S \in SUBSET Perms
      PROVE  Below[n][S] = IF n = 0 THEN S ELSE Below[n - 1][D(S)]
  <2>1. \A g : Def(g)[n][S] = IF n = 0 THEN S ELSE g[n - 1][D(S)]
    <3> HIDE DEF D
    <3> QED OBVIOUS
  <2> HIDE DEF D, Def
  <2>2. Def(Below)[n][S] = IF n = 0 THEN S ELSE Below[n - 1][D(S)]
    BY <2>1
  <2> QED BY <1>7, <2>2
<1>9. ASSUME NEW n \in Nat, NEW S \in SUBSET Perms
      PROVE  Below[n + 1][S] = Below[n][D(S)]
  <2>1. n + 1 \in Nat /\ n + 1 # 0 /\ (n + 1) - 1 = n
    OBVIOUS
  <2> HIDE DEF D
  <2> QED BY <1>8, <2>1
<1> QED BY <1>8, <1>9

\* checkHierarchicalPermission looks at the children and, under each of them, at one
\* generation less; a permission whose children cannot be read grants nothing.
LEMMA HierarchicalUnfolds ==
    /\ \A p \in Perms, req \in Questions, lost \in SUBSET Perms : ~Hierarchical[0][p][req][lost]
    /\ \A n \in Nat, p \in Perms, req \in Questions, lost \in SUBSET Perms :
          Hierarchical[n + 1][p][req][lost] =
             (p \notin lost /\ \E q \in Reaches[p] : matchesPermission(q, req) \/ Hierarchical[n][q][req][lost])
<1> DEFINE V == [Perms -> [Questions -> [SUBSET Perms -> BOOLEAN]]]
           Under(g, p, req, lost) == p \notin lost /\ \E q \in Reaches[p] : matchesPermission(q, req) \/ g[q][req][lost]
           b == [p \in Perms |-> [req \in Questions |-> [lost \in SUBSET Perms |-> FALSE]]]
           G == [g \in V |-> [p \in Perms |-> [req \in Questions |-> [lost \in SUBSET Perms |-> Under(g, p, req, lost)]]]]
           Def(f) == [n \in Nat |-> [p \in Perms |-> [req \in Questions |-> [lost \in SUBSET Perms |->
                         n > 0 /\ Under(f[n - 1], p, req, lost)]]]]
<1>1. \A g, p, req, lost : Under(g, p, req, lost) \in BOOLEAN
  OBVIOUS
<1>2. b \in V /\ G \in [V -> V]
  <2> HIDE DEF Under
  <2>1. b \in V
    OBVIOUS
  <2>2. \A g \in V : [p \in Perms |-> [req \in Questions |-> [lost \in SUBSET Perms |-> Under(g, p, req, lost)]]] \in V
    BY <1>1
  <2> HIDE DEF V
  <2> QED BY <2>1, <2>2
<1>3. PICK f \in [Nat -> V] : f[0] = b /\ \A n \in Nat : f[n + 1] = G[f[n]]
  <2> HIDE DEF V, b, G
  <2> QED BY <1>2, Iteration
<1>4. ASSUME NEW n \in Nat
      PROVE  f[n] = [p \in Perms |-> [req \in Questions |-> [lost \in SUBSET Perms |->
                         n > 0 /\ Under(f[n - 1], p, req, lost)]]]
  <2>1. CASE n = 0
    <3>1. ~(n > 0)
      BY <2>1
    <3> HIDE DEF Under
    <3>2. \A p, req, lost : (n > 0 /\ Under(f[n - 1], p, req, lost)) = FALSE
      BY <3>1
    <3>3. f[n] = b
      BY <1>3, <2>1
    <3> QED BY <3>2, <3>3
  <2>2. CASE n # 0
    <3>1. n - 1 \in Nat /\ (n - 1) + 1 = n /\ n > 0
      BY <2>2
    <3>2. f[n] = G[f[n - 1]] /\ f[n - 1] \in V
      BY <1>3, <3>1
    <3>3. G[f[n - 1]] = [p \in Perms |-> [req \in Questions |-> [lost \in SUBSET Perms |-> Under(f[n - 1], p, req, lost)]]]
      <4> HIDE DEF V, Under
      <4> QED BY <3>2
    <3> HIDE DEF V, Under, G
    <3> QED BY <1>1, <3>1, <3>2, <3>3
  <2> QED BY <2>1, <2>2
<1>5. f = Def(f)
  <2> HIDE DEF Under, V
  <2> QED BY <1>4
<1>6. Hierarchical = CHOOSE g : g = Def(g)
  BY DEF Hierarchical
<1>7. Hierarchical = Def(Hierarchical)
  <2> HIDE DEF Def
  <2> QED BY <1>5, <1>6
<1>8. ASSUME NEW n \in Nat, NEW p \in Perms, NEW req \in Questions, NEW lost \in SUBSET Perms
      PROVE  Hierarchical[n][p][req][lost] = (n > 0 /\ Under(Hierarchical[n - 1], p, req, lost))
  <2>1. \A g : Def(g)[n][p][req][lost] = (n > 0 /\ Under(g[n - 1], p, req, lost))
    <3> HIDE DEF Under
    <3> QED OBVIOUS
  <2> HIDE DEF Under, Def
  <2>2. Def(Hierarchical)[n][p][req][lost] = (n > 0 /\ Under(Hierarchical[n - 1], p, req, lost))
    BY <2>1
  <2> QED BY <1>7, <2>2
<1>9. ASSUME NEW n \in Nat, NEW p \in Perms, NEW req \in Questions, NEW lost \in SUBSET Perms
      PROVE  Hierarchical[n + 1][p][req][lost] = Under(Hierarchical[n], p, req, lost)
  <2>1. n + 1 \in Nat /\ n + 1 > 0 /\ (n + 1) - 1 = n
    OBVIOUS
  <2>2. Hierarchical[n + 1][p][req][lost] = (n + 1 > 0 /\ Under(Hierarchical[(n + 1) - 1], p, req, lost))
    <3> HIDE DEF Under
    <3> QED BY <1>8, <2>1
  <2>3. Under(Hierarchical[(n + 1) - 1], p, req, lost) = Under(Hierarchical[n], p, req, lost)
    BY <2>1
  <2>4. (n + 1 > 0 /\ Under(Hierarchical[n], p, req, lost)) = Under(Hierarchical[n], p, req, lost)
    BY <2>1
  <2> HIDE DEF Under
  <2> QED BY <2>2, <2>3, <2>4
<1>10. ASSUME NEW p \in Perms, NEW req \in Questions, NEW lost \in SUBSET Perms
       PROVE  ~Hierarchical[0][p][req][lost]
  <2>1. 0 \in Nat /\ ~(0 > 0)
    OBVIOUS
  <2> HIDE DEF Under
  <2> QED BY <1>8, <2>1
<1> QED BY <1>9, <1>10

\* A child of p answers the question, or something found under it n generations down.
OneUnder(n, p, req, lost) ==
    p \notin lost /\ \E q \in Reaches[p] : matchesPermission(q, req) \/ Hierarchical[n][q][req][lost]

\* The same for one permission and one question.
LEMMA HierarchicalStep ==
    ASSUME NEW n \in Nat, NEW p \in Perms, NEW req \in Questions, NEW lost \in SUBSET Perms
    PROVE  Hierarchical[n + 1][p][req][lost] = OneUnder(n, p, req, lost)
<1>1. Hierarchical[n + 1][p][req][lost] =
        (p \notin lost /\ \E q \in Reaches[p] : matchesPermission(q, req) \/ Hierarchical[n][q][req][lost])
  BY HierarchicalUnfolds
<1> QED BY <1>1 DEF OneUnder

\* One generation more grants no less.
LEMMA HierarchicalGrows ==
    ASSUME NEW n \in Nat, NEW p \in Perms, NEW req \in Questions, Hierarchical[n][p][req][{}]
    PROVE  Hierarchical[n + 1][p][req][{}]
<1> DEFINE T == {m \in Nat : \A q \in Perms : Hierarchical[m][q][req][{}] => Hierarchical[m + 1][q][req][{}]}
<1>1. 0 \in T
  BY HierarchicalUnfolds
<1>2. ASSUME NEW m \in Nat, m \in T
      PROVE  m + 1 \in T
  <2> SUFFICES ASSUME NEW q \in Perms, Hierarchical[m + 1][q][req][{}]
               PROVE  Hierarchical[(m + 1) + 1][q][req][{}]
    OBVIOUS
  <2>1. PICK r \in Reaches[q] : matchesPermission(r, req) \/ Hierarchical[m][r][req][{}]
    <3>1. {} \in SUBSET Perms
      OBVIOUS
    <3>2. OneUnder(m, q, req, {})
      BY <3>1, HierarchicalStep
    <3> QED BY <3>2, Zenon DEF OneUnder
  <2>2. r \in Perms
    BY <2>1 DEF Reaches
  <2>3. matchesPermission(r, req) \/ Hierarchical[m + 1][r][req][{}]
    BY <1>2, <2>1, <2>2
  <2>4. m + 1 \in Nat /\ {} \in SUBSET Perms
    OBVIOUS
  <2>5. OneUnder(m + 1, q, req, {})
    BY <2>1, <2>3, Zenon DEF OneUnder
  <2> QED BY <2>4, <2>5, HierarchicalStep
<1> HIDE DEF T
<1>3. n \in T
  BY <1>1, <1>2, SetInduction
<1> QED BY <1>3 DEF T

\* A failing lookup takes grants away and gives none.
LEMMA LostGrantsNothing ==
    ASSUME NEW n \in Nat, NEW p \in Perms, NEW req \in Questions, NEW lost \in SUBSET Perms,
           Hierarchical[n][p][req][lost]
    PROVE  Hierarchical[n][p][req][{}]
<1> DEFINE T == {m \in Nat : \A q \in Perms : Hierarchical[m][q][req][lost] => Hierarchical[m][q][req][{}]}
<1>1. 0 \in T
  BY HierarchicalUnfolds
<1>2. ASSUME NEW m \in Nat, m \in T
      PROVE  m + 1 \in T
  <2> SUFFICES ASSUME NEW q \in Perms, Hierarchical[m + 1][q][req][lost]
               PROVE  Hierarchical[m + 1][q][req][{}]
    OBVIOUS
  <2>1. PICK r \in Reaches[q] : matchesPermission(r, req) \/ Hierarchical[m][r][req][lost]
    <3>1. OneUnder(m, q, req, lost)
      BY HierarchicalStep
    <3> QED BY <3>1, Zenon DEF OneUnder
  <2>2. r \in Perms
    BY <2>1 DEF Reaches
  <2>3. matchesPermission(r, req) \/ Hierarchical[m][r][req][{}]
    BY <1>2, <2>1, <2>2
  <2>4. m + 1 \in Nat /\ {} \in SUBSET Perms
    OBVIOUS
  <2>5. OneUnder(m, q, req, {})
    BY <2>1, <2>3, Zenon DEF OneUnder
  <2> QED BY <2>4, <2>5, HierarchicalStep
<1> HIDE DEF T
<1>3. n \in T
  BY <1>1, <1>2, SetInduction
<1> QED BY <1>3 DEF T

\* What the recursive query finds under a set of permissions, the walk of
\* checkHierarchicalPermission finds from one of them.
LEMMA WalkFindsDescendants ==
    ASSUME NEW n \in Nat, NEW S \in SUBSET Perms, NEW x \in Below[n][S],
           NEW req \in Questions, matchesPermission(x, req)
    PROVE  \E p \in S : matchesPermission(p, req) \/ Hierarchical[n][p][req][{}]
<1> DEFINE T == {m \in Nat : \A U \in SUBSET Perms : x \in Below[m][U] =>
                    \E p \in U : matchesPermission(p, req) \/ Hierarchical[m][p][req][{}]}
<1>1. 0 \in T
  BY BelowUnfolds
<1>2. ASSUME NEW m \in Nat, m \in T
      PROVE  m + 1 \in T
  <2> SUFFICES ASSUME NEW U \in SUBSET Perms, x \in Below[m + 1][U]
               PROVE  \E p \in U : matchesPermission(p, req) \/ Hierarchical[m + 1][p][req][{}]
    OBVIOUS
  <2> DEFINE W == U \cup UNION {Reaches[p] : p \in U}
  <2>1. W \in SUBSET Perms
    BY DEF Reaches
  <2>2. x \in Below[m][W]
    BY BelowUnfolds
  <2>3. PICK q \in W : matchesPermission(q, req) \/ Hierarchical[m][q][req][{}]
    <3> HIDE DEF W
    <3> QED BY <1>2, <2>1, <2>2
  <2>4. CASE q \in U
    BY <2>3, <2>4, HierarchicalGrows
  <2>5. CASE q \notin U
    <3>1. PICK p \in U : q \in Reaches[p]
      BY <2>3, <2>5
    <3>2. Hierarchical[m + 1][p][req][{}]
      <4>1. {} \in SUBSET Perms
        OBVIOUS
      <4>2. OneUnder(m, p, req, {})
        BY <2>3, <3>1, Zenon DEF OneUnder
      <4> QED BY <3>1, <4>1, <4>2, HierarchicalStep
    <3> QED BY <3>2
  <2> QED BY <2>4, <2>5
<1> HIDE DEF T
<1>3. n \in T
  BY <1>1, <1>2, SetInduction
<1> QED BY <1>3 DEF T

\* The generations of the hierarchy are counted by a natural number.
LEMMA GenerationsNat == Cardinality(Perms) \in Nat
BY PermissionAssumption, FS_CardinalityType

\* The verdict the warmer stores for an effective permission, computed from some of
\* the user's permissions, is one evaluatePermission grants.
LEMMA WarmedIsGranted ==
    ASSUME NEW u \in UserIds, NEW req \in Questions, NEW S \in SUBSET GetUserPermissions(u),
           NEW x \in EffectivePermissions(S), KeyOf(x) = req
    PROVE  Granted(u, req)
<1>1. matchesPermission(x, req)
  BY DEF matchesPermission, KeyOf
<1>2. PICK p \in S : x \in Below[Cardinality(Perms)][{p}]
  BY DEF EffectivePermissions, GetPermissionHierarchy
<1>3. p \in Perms /\ p \in GetUserPermissions(u)
  BY <1>2 DEF GetUserPermissions
<1>4. matchesPermission(p, req) \/ Hierarchical[Cardinality(Perms)][p][req][{}]
  <2>1. {p} \in SUBSET Perms
    BY <1>3
  <2> QED BY <1>1, <1>2, <2>1, GenerationsNat, WalkFindsDescendants
<1> QED BY <1>3, <1>4 DEF Granted, evaluatePermission

\* What a check computes while lookups fail, it grants when none fails.
LEMMA EvaluatedIsGranted ==
    ASSUME NEW u \in UserIds, NEW req \in Questions, NEW lost \in SUBSET Perms,
           evaluatePermission(GetUserPermissions(u), req, lost)
    PROVE  Granted(u, req)
<1>1. GetUserPermissions(u) \subseteq Perms
  BY DEF GetUserPermissions
<1> QED BY <1>1, LostGrantsNothing, GenerationsNat DEF Granted, evaluatePermission

\* The warmer's verdicts, the HTTP check and evaluatePermission agree in every state,
\* whatever the hierarchy of permissions is and whatever the patterns in it match.
THEOREM ChecksAlwaysAgree == PermissionSpec => []ChecksAgree
<1>1. ChecksAgree
  <2> SUFFICES ASSUME NEW u \in UserIds, NEW req \in Questions,
                      \/ \E p \in EffectivePermissions(GetUserPermissions(u)) : KeyOf(p) = req
                      \/ req.scope = "" /\ HttpCheckPermission(u, req)
               PROVE  Granted(u, req)
    BY DEF ChecksAgree
  <2>1. CASE \E p \in EffectivePermissions(GetUserPermissions(u)) : KeyOf(p) = req
    BY <2>1, WarmedIsGranted
  <2>2. CASE req.scope = "" /\ HttpCheckPermission(u, req)
    BY <2>2 DEF HttpCheckPermission, Granted, evaluatePermission, matchesPermission
  <2> QED BY <2>1, <2>2
<1> QED BY <1>1, PTL

-----------------------------------------------------------------------------
(* How long a verdict outlives its grant.                                  *)

CheckFields == {"op", "stage", "user", "perms", "age", "item"}
ItemFields == {"stage", "verdict", "age"}

CheckShape(v) ==
    /\ DOMAIN v = CheckFields
    /\ v.item = [req \in Questions |-> v.item[req]]
    /\ \A req \in Questions : DOMAIN v.item[req] = ItemFields

PermissionShape ==
    /\ verdicts = [k \in VerdictKeys |-> verdicts[k]]
    /\ effective = [u \in UserIds |-> effective[u]]
    /\ since \in [VerdictKeys -> Nat]
    /\ check = [c \in Checkers |-> check[c]]
    /\ \A c \in Checkers : CheckShape(check[c])

\* The tables granted user u all of perms at most n ticks ago.
GrantedWithin(u, perms, n) ==
    \A p \in perms, req \in Questions : KeyOf(p) = req => StaleFor(<<u, req>>) <= n

\* What is left of the lifetime of a verdict, on top of its staleness.
VerdictOK(k) ==
    verdicts[k] # None =>
        /\ DOMAIN verdicts[k] = {"value", "left"} /\ verdicts[k].left \in 0 .. CacheTTL
        /\ verdicts[k].value => StaleFor(k) + verdicts[k].left <= MaxStale

\* Effective permissions were read from the tables at most CallTime before they were stored.
EffectiveOK(u) ==
    effective[u] # None =>
        /\ DOMAIN effective[u] = {"value", "left"} /\ effective[u].left \in 0 .. CacheTTL
        /\ GrantedWithin(u, effective[u].value, CacheTTL + CallTime - effective[u].left)

\* A warming has read the tables itself, or effective permissions that were cached.
CallOK(c) ==
    /\ check[c].stage # "idle" => check[c].user \in UserIds
    /\ check[c].stage # "checking" => \A req \in Questions : check[c].item[req].stage \notin {"lookup", "cache"}
    /\ check[c].stage \in {"cacheEffective", "warm"} => check[c].age \in 0 .. CallTime
    /\ check[c].stage = "cacheEffective" => GrantedWithin(check[c].user, check[c].perms, check[c].age)
    /\ check[c].stage = "warm" => GrantedWithin(check[c].user, check[c].perms, CacheTTL + CallTime + check[c].age)

\* A granted verdict on its way to the cache is as stale as its evaluation is old.
ItemOK(c, req) ==
    check[c].item[req].stage = "cache" =>
        /\ check[c].item[req].age \in 0 .. CallTime
        /\ check[c].item[req].verdict => StaleFor(<<check[c].user, req>>) <= check[c].item[req].age

GrantInv ==
    /\ PermissionShape
    /\ \A k \in VerdictKeys : VerdictOK(k)
    /\ \A u \in UserIds : EffectiveOK(u)
    /\ \A c \in Checkers : CallOK(c) /\ \A req \in Questions : ItemOK(c, req)

\* Staleness is a number, zero for what the tables grant.
LEMMA StaleType ==
    ASSUME PermissionShape, NEW k \in VerdictKeys
    PROVE  StaleFor(k) \in Nat /\ (Granted(k[1], k[2]) => StaleFor(k) = 0)
BY DEF PermissionShape, StaleFor

\* In a step that takes no time nothing gets staler.
LEMMA NothingAges ==
    ASSUME PermissionShape, since' = [k \in VerdictKeys |-> StaleFor(k)], NEW k \in VerdictKeys
    PROVE  /\ since' \in [VerdictKeys -> Nat]
           /\ StaleFor(k) \in Nat /\ StaleFor(k)' \in Nat /\ StaleFor(k)' <= StaleFor(k)
<1>1. \A x \in VerdictKeys : StaleFor(x) \in Nat
  BY StaleType
<1>2. StaleFor(k)' = IF Granted(k[1], k[2])' THEN 0 ELSE since'[k]
  BY DEF StaleFor
<1>3. since' \in [VerdictKeys -> Nat] /\ since'[k] = StaleFor(k)
  <2> HIDE DEF StaleFor
  <2> QED BY <1>1
<1> QED BY <1>1, <1>2, <1>3

\* A bound on staleness outlasts a step that takes no time.
LEMMA GrantedStays ==
    ASSUME PermissionShape, since' = [k \in VerdictKeys |-> StaleFor(k)],
           NEW u \in UserIds, NEW perms, NEW n \in Int, NEW m \in Int, n <= m, GrantedWithin(u, perms, n)
    PROVE  \A p \in perms, req \in Questions : KeyOf(p) = req => StaleFor(<<u, req>>)' <= m
<1> SUFFICES ASSUME NEW p \in perms, NEW req \in Questions, KeyOf(p) = req
             PROVE  StaleFor(<<u, req>>)' <= m
  OBVIOUS
<1>1. <<u, req>> \in VerdictKeys
  BY DEF VerdictKeys
<1>2. StaleFor(<<u, req>>) <= n
  BY DEF GrantedWithin
<1>3. StaleFor(<<u, req>>) \in Nat /\ StaleFor(<<u, req>>)' \in Nat /\ StaleFor(<<u, req>>)' <= StaleFor(<<u, req>>)
  BY <1>1, NothingAges
<1> QED BY <1>2, <1>3

\* What a step that takes no time leaves alone keeps its invariant.
LEMMA KeptVerdict ==
    ASSUME GrantInv, since' = [k \in VerdictKeys |-> StaleFor(k)], NEW k \in VerdictKeys, verdicts'[k] = verdicts[k]
    PROVE  VerdictOK(k)'
<1>1. StaleFor(k) \in Nat /\ StaleFor(k)' \in Nat /\ StaleFor(k)' <= StaleFor(k)
  BY NothingAges DEF GrantInv
<1>2. VerdictOK(k) /\ MaxStale \in Nat
  BY PermissionAssumption DEF GrantInv, MaxStale
<1> QED BY <1>1, <1>2 DEF VerdictOK

\* What was granted recently enough stays so when no time passes.
LEMMA KeptEffective ==
    ASSUME GrantInv, since' = [k \in VerdictKeys |-> StaleFor(k)], NEW u \in UserIds, effective'[u] = effective[u]
    PROVE  EffectiveOK(u)'
<1> SUFFICES ASSUME effective[u] # None
             PROVE  /\ DOMAIN effective[u] = {"value", "left"} /\ effective[u].left \in 0 .. CacheTTL
                    /\ \A p \in effective[u].value, req \in Questions : KeyOf(p) = req =>
                          StaleFor(<<u, req>>)' <= CacheTTL + CallTime - effective[u].left
  BY DEF EffectiveOK, GrantedWithin
<1>1. /\ DOMAIN effective[u] = {"value", "left"} /\ effective[u].left \in 0 .. CacheTTL
      /\ GrantedWithin(u, effective[u].value, CacheTTL + CallTime - effective[u].left)
  BY DEF GrantInv, EffectiveOK
<1>2. CacheTTL + CallTime - effective[u].left \in Int
  BY <1>1, PermissionAssumption
<1> QED BY <1>1, <1>2, GrantedStays DEF GrantInv

\* An item on its way keeps its invariant when no time passes.
LEMMA KeptItem ==
    ASSUME GrantInv, since' = [k \in VerdictKeys |-> StaleFor(k)], NEW c \in Checkers, NEW req \in Questions,
           check'[c].user = check[c].user, check'[c].item[req] = check[c].item[req]
    PROVE  ItemOK(c, req)'
<1> SUFFICES ASSUME check[c].item[req].stage = "cache"
             PROVE  /\ check[c].item[req].age \in 0 .. CallTime
                    /\ check[c].item[req].verdict => StaleFor(<<check[c].user, req>>)' <= check[c].item[req].age
  BY DEF ItemOK
<1>1. /\ check[c].item[req].age \in 0 .. CallTime /\ check[c].user \in UserIds
      /\ check[c].item[req].verdict => StaleFor(<<check[c].user, req>>) <= check[c].item[req].age
  BY DEF GrantInv, ItemOK, CallOK
<1>2. <<check[c].user, req>> \in VerdictKeys
  BY <1>1 DEF VerdictKeys
<1>3. /\ StaleFor(<<check[c].user, req>>) \in Nat /\ StaleFor(<<check[c].user, req>>)' \in Nat
      /\ StaleFor(<<check[c].user, req>>)' <= StaleFor(<<check[c].user, req>>)
  BY <1>2, NothingAges DEF GrantInv
<1> QED BY <1>1, <1>3

\* A warming keeps its invariant when no time passes.
LEMMA KeptCall ==
    ASSUME GrantInv, since' = [k \in VerdictKeys |-> StaleFor(k)], NEW c \in Checkers, check'[c] = check[c]
    PROVE  CallOK(c)' /\ \A req \in Questions : ItemOK(c, req)'
<1>1. CallOK(c)
  BY DEF GrantInv
<1>2. ASSUME check[c].stage = "cacheEffective"
      PROVE  \A p \in check[c].perms, req \in Questions : KeyOf(p) = req => StaleFor(<<check[c].user, req>>)' <= check[c].age
  <2>1. check[c].user \in UserIds /\ check[c].age \in Int /\ GrantedWithin(check[c].user, check[c].perms, check[c].age)
    BY <1>1, <1>2 DEF CallOK
  <2> QED BY <2>1, GrantedStays DEF GrantInv
<1>3. ASSUME check[c].stage = "warm"
      PROVE  \A p \in check[c].perms, req \in Questions :
                KeyOf(p) = req => StaleFor(<<check[c].user, req>>)' <= CacheTTL + CallTime + check[c].age
  <2>1. /\ check[c].user \in UserIds /\ CacheTTL + CallTime + check[c].age \in Int
        /\ GrantedWithin(check[c].user, check[c].perms, CacheTTL + CallTime + check[c].age)
    BY <1>1, <1>3, PermissionAssumption DEF CallOK
  <2> QED BY <2>1, GrantedStays DEF GrantInv
<1>4. CallOK(c)'
  BY <1>1, <1>2, <1>3 DEF CallOK, GrantedWithin
<1>5. \A req \in Questions : ItemOK(c, req)'
  BY KeptItem
<1> QED BY <1>4, <1>5

\* A step of one call that leaves the caches alone.
LEMMA CallSteps ==
    ASSUME GrantInv, since' = [k \in VerdictKeys |-> StaleFor(k)], NEW c \in Checkers, NEW v, CheckShape(v),
           check' = [check EXCEPT ![c] = v],
           CallOK(c)', \A req \in Questions : ItemOK(c, req)',
           verdicts' = [k \in VerdictKeys |-> verdicts'[k]], effective' = [u \in UserIds |-> effective'[u]],
           \A k \in VerdictKeys : verdicts'[k] = verdicts[k] \/ VerdictOK(k)',
           \A u \in UserIds : effective'[u] = effective[u] \/ EffectiveOK(u)'
    PROVE  GrantInv'
<1>1. \A d \in Checkers \ {c} : check'[d] = check[d]
  BY DEF GrantInv, PermissionShape
<1>2. /\ check' = [d \in Checkers |-> check'[d]]
      /\ check'[c] = v
  BY DEF GrantInv, PermissionShape
<1>3. \A d \in Checkers : CheckShape(check'[d])
  BY <1>1, <1>2 DEF GrantInv, PermissionShape
<1>4. since' \in [VerdictKeys -> Nat]
  <2>1. \A k \in VerdictKeys : StaleFor(k) \in Nat
    BY StaleType DEF GrantInv
  <2> HIDE DEF StaleFor
  <2> QED BY <2>1
<1>5. PermissionShape'
  BY <1>2, <1>3, <1>4 DEF PermissionShape, CheckShape
<1>6. \A d \in Checkers : CallOK(d)' /\ \A req \in Questions : ItemOK(d, req)'
  BY <1>1, KeptCall
<1>7. (\A k \in VerdictKeys : VerdictOK(k)') /\ (\A u \in UserIds : EffectiveOK(u)')
  BY KeptVerdict, KeptEffective
<1> QED BY <1>5, <1>6, <1>7 DEF GrantInv

\* After a tick of the clock the staleness of every verdict is a natural number.
LEMMA OneTickType ==
    ASSUME PermissionShape, PassPermissionTime
    PROVE  since' \in [VerdictKeys -> Nat]
<1>1. \A x \in VerdictKeys : StaleFor(x) \in Nat
  BY StaleType
<1>2. since' = [x \in VerdictKeys |-> IF StaleFor(x) > MaxStale THEN StaleFor(x) ELSE StaleFor(x) + 1]
  BY DEF PassPermissionTime
<1> HIDE DEF StaleFor, MaxStale
<1>3. \A x \in VerdictKeys : (IF StaleFor(x) > MaxStale THEN StaleFor(x) ELSE StaleFor(x) + 1) \in Nat
  BY <1>1
<1> QED BY <1>2, <1>3

\* Time passes by one tick at a time.
LEMMA OneTick ==
    ASSUME PermissionShape, PassPermissionTime, UNCHANGED roleVars, NEW k \in VerdictKeys
    PROVE  /\ since' \in [VerdictKeys -> Nat]
           /\ StaleFor(k) \in Nat /\ StaleFor(k)' \in Nat /\ StaleFor(k)' <= StaleFor(k) + 1
<1>1. \A x \in VerdictKeys : StaleFor(x) \in Nat
  BY StaleType
<1>2. StaleFor(k)' = IF Granted(k[1], k[2])' THEN 0 ELSE since'[k]
  BY DEF StaleFor
<1>3. since' = [x \in VerdictKeys |-> IF StaleFor(x) > MaxStale THEN StaleFor(x) ELSE StaleFor(x) + 1]
  BY DEF PassPermissionTime
<1>4. /\ since' \in [VerdictKeys -> Nat]
      /\ since'[k] = IF StaleFor(k) > MaxStale THEN StaleFor(k) ELSE StaleFor(k) + 1
  <2> HIDE DEF StaleFor, MaxStale
  <2>1. \A x \in VerdictKeys : (IF StaleFor(x) > MaxStale THEN StaleFor(x) ELSE StaleFor(x) + 1) \in Nat
    BY <1>1
  <2> QED BY <1>3, <2>1
<1> QED BY <1>1, <1>2, <1>4

\* A tick makes cached entries die and everything else one tick older.
LEMMA TimeKeeps ==
    ASSUME GrantInv, PassPermissionTime, UNCHANGED roleVars
    PROVE  GrantInv'
<1>1. PermissionShape /\ CacheTTL \in Nat /\ CallTime \in Nat /\ MaxStale \in Nat
  BY PermissionAssumption DEF GrantInv, MaxStale
<1>2. \A k \in VerdictKeys : /\ since' \in [VerdictKeys -> Nat]
                             /\ StaleFor(k) \in Nat /\ StaleFor(k)' \in Nat /\ StaleFor(k)' <= StaleFor(k) + 1
  BY <1>1, OneTick
<1>3. ASSUME NEW u \in UserIds, NEW perms, NEW n \in Int, GrantedWithin(u, perms, n)
      PROVE  \A p \in perms, req \in Questions : KeyOf(p) = req => StaleFor(<<u, req>>)' <= n + 1
  <2> SUFFICES ASSUME NEW p \in perms, NEW req \in Questions, KeyOf(p) = req
               PROVE  StaleFor(<<u, req>>)' <= n + 1
    OBVIOUS
  <2>1. <<u, req>> \in VerdictKeys
    BY DEF VerdictKeys
  <2>2. StaleFor(<<u, req>>) <= n
    BY <1>3 DEF GrantedWithin
  <2>3. /\ StaleFor(<<u, req>>) \in Nat /\ StaleFor(<<u, req>>)' \in Nat
        /\ StaleFor(<<u, req>>)' <= StaleFor(<<u, req>>) + 1
    BY <1>2, <2>1
  <2> QED BY <2>2, <2>3
<1>4. /\ verdicts' = [k \in VerdictKeys |-> Older(verdicts[k])]
      /\ effective' = [u \in UserIds |-> Older(effective[u])]
  BY DEF PassPermissionTime
<1>5. ASSUME NEW k \in VerdictKeys
      PROVE  VerdictOK(k)'
  <2> SUFFICES ASSUME verdicts'[k] # None
               PROVE  /\ DOMAIN verdicts'[k] = {"value", "left"} /\ verdicts'[k].left \in 0 .. CacheTTL
                      /\ verdicts'[k].value => StaleFor(k)' + verdicts'[k].left <= MaxStale
    BY DEF VerdictOK, MaxStale
  <2>1. verdicts'[k] = Older(verdicts[k])
    BY <1>4
  <2>2. verdicts[k] # None /\ verdicts[k].left # 0 /\ verdicts'[k] = [verdicts[k] EXCEPT !.left = @ - 1]
    BY <2>1 DEF Older
  <2>3. /\ DOMAIN verdicts[k] = {"value", "left"} /\ verdicts[k].left \in 0 .. CacheTTL
        /\ verdicts[k].value => StaleFor(k) + verdicts[k].left <= MaxStale
    BY <2>2 DEF GrantInv, VerdictOK
  <2>4. /\ DOMAIN verdicts'[k] = {"value", "left"} /\ verdicts'[k].left = verdicts[k].left - 1
        /\ verdicts'[k].value = verdicts[k].value
    BY <2>2, <2>3
  <2> QED BY <1>1, <1>2, <2>2, <2>3, <2>4
<1>6. ASSUME NEW u \in UserIds
      PROVE  EffectiveOK(u)'
  <2> SUFFICES ASSUME effective'[u] # None
               PROVE  /\ DOMAIN effective'[u] = {"value", "left"} /\ effective'[u].left \in 0 .. CacheTTL
                      /\ \A p \in effective'[u].value, req \in Questions : KeyOf(p) = req =>
                            StaleFor(<<u, req>>)' <= CacheTTL + CallTime - effective'[u].left
    BY DEF EffectiveOK, GrantedWithin
  <2>1. effective'[u] = Older(effective[u])
    BY <1>4
  <2>2. effective[u] # None /\ effective[u].left # 0 /\ effective'[u] = [effective[u] EXCEPT !.left = @ - 1]
    BY <2>1 DEF Older
  <2>3. /\ DOMAIN effective[u] = {"value", "left"} /\ effective[u].left \in 0 .. CacheTTL
        /\ GrantedWithin(u, effective[u].value, CacheTTL + CallTime - effective[u].left)
    BY <2>2 DEF GrantInv, EffectiveOK
  <2>4. /\ DOMAIN effective'[u] = {"value", "left"} /\ effective'[u].left = effective[u].left - 1
        /\ effective'[u].value = effective[u].value
    BY <2>2, <2>3
  <2>5. /\ CacheTTL + CallTime - effective[u].left \in Int /\ effective'[u].left \in 0 .. CacheTTL
        /\ (CacheTTL + CallTime - effective[u].left) + 1 = CacheTTL + CallTime - effective'[u].left
    BY <1>1, <2>2, <2>3, <2>4
  <2> QED BY <1>3, <2>3, <2>4, <2>5
<1>7. ASSUME NEW c \in Checkers
      PROVE  /\ CheckShape(check'[c]) /\ check'[c].user = check[c].user /\ check'[c].stage = check[c].stage
             /\ check'[c].perms = check[c].perms
             /\ check[c].stage \in {"cacheEffective", "warm"} => check[c].age < CallTime /\ check'[c].age = check[c].age + 1
             /\ \A req \in Questions :
                   /\ check'[c].item[req].stage = check[c].item[req].stage
                   /\ check'[c].item[req].verdict = check[c].item[req].verdict
                   /\ check[c].item[req].stage = "cache" =>
                         check[c].item[req].age < CallTime /\ check'[c].item[req].age = check[c].item[req].age + 1
  <2>1. check'[c] = [check[c] EXCEPT
           !.age = IF check[c].stage \in {"cacheEffective", "warm"} THEN @ + 1 ELSE @,
           !.item = [req \in Questions |-> IF check[c].item[req].stage = "cache"
                         THEN [check[c].item[req] EXCEPT !.age = @ + 1] ELSE check[c].item[req]]]
    BY DEF PassPermissionTime
  <2>2. CheckShape(check[c])
    BY <1>1 DEF PermissionShape
  <2>3. /\ DOMAIN check'[c] = CheckFields /\ check'[c].user = check[c].user /\ check'[c].stage = check[c].stage
        /\ check'[c].perms = check[c].perms
    BY <2>1, <2>2 DEF CheckShape, CheckFields
  <2>6. check'[c].age = IF check[c].stage \in {"cacheEffective", "warm"} THEN check[c].age + 1 ELSE check[c].age
    BY <2>1, <2>2 DEF CheckShape, CheckFields
  <2>7. check'[c].item = [req \in Questions |-> IF check[c].item[req].stage = "cache"
                                          THEN [check[c].item[req] EXCEPT !.age = @ + 1] ELSE check[c].item[req]]
    BY <2>1, <2>2 DEF CheckShape, CheckFields
  <2>4. ASSUME NEW req \in Questions
        PROVE  /\ DOMAIN check'[c].item[req] = ItemFields
               /\ check'[c].item[req].stage = check[c].item[req].stage
               /\ check'[c].item[req].verdict = check[c].item[req].verdict
               /\ check[c].item[req].stage = "cache" => check'[c].item[req].age = check[c].item[req].age + 1
    BY <2>2, <2>6, <2>7 DEF CheckShape, ItemFields
  <2>5. CheckShape(check'[c])
    BY <2>3, <2>4, <2>7 DEF CheckShape
  <2> QED BY <2>3, <2>4, <2>5, <2>6 DEF PassPermissionTime
<1>8. ASSUME NEW c \in Checkers
      PROVE  CallOK(c)'
  <2>1. CallOK(c)
    BY DEF GrantInv
  <2>2. ASSUME check[c].stage = "cacheEffective"
        PROVE  \A p \in check[c].perms, req \in Questions : KeyOf(p) = req => StaleFor(<<check[c].user, req>>)' <= check'[c].age
    <3>1. check[c].user \in UserIds /\ check[c].age \in Int /\ GrantedWithin(check[c].user, check[c].perms, check[c].age)
      BY <2>1, <2>2 DEF CallOK
    <3>2. check'[c].age = check[c].age + 1 /\ check'[c].user = check[c].user
      BY <1>7, <2>2
    <3> QED BY <1>3, <3>1, <3>2
  <2>3. ASSUME check[c].stage = "warm"
        PROVE  \A p \in check[c].perms, req \in Questions :
                  KeyOf(p) = req => StaleFor(<<check[c].user, req>>)' <= CacheTTL + CallTime + check'[c].age
    <3>1. /\ check[c].user \in UserIds /\ check[c].age \in Int
          /\ GrantedWithin(check[c].user, check[c].perms, CacheTTL + CallTime + check[c].age)
      BY <2>1, <2>3 DEF CallOK
    <3>2. check'[c].age = check[c].age + 1 /\ check'[c].user = check[c].user
      BY <1>7, <2>3
    <3>3. CacheTTL + CallTime + check[c].age \in Int /\ (CacheTTL + CallTime + check[c].age) + 1 = CacheTTL + CallTime + check'[c].age
      BY <1>1, <3>1, <3>2
    <3> QED BY <1>3, <3>1, <3>2, <3>3
  <2>4. check[c].stage \in {"cacheEffective", "warm"} => check'[c].age \in 0 .. CallTime
    <3>1. check[c].stage \in {"cacheEffective", "warm"} => check[c].age \in 0 .. CallTime
      BY <2>1 DEF CallOK
    <3> QED BY <1>1, <1>7, <3>1
  <2> QED BY <1>7, <2>1, <2>2, <2>3, <2>4 DEF CallOK, GrantedWithin
<1>9. ASSUME NEW c \in Checkers, NEW req \in Questions
      PROVE  ItemOK(c, req)'
  <2> SUFFICES ASSUME check[c].item[req].stage = "cache"
               PROVE  /\ check'[c].item[req].age \in 0 .. CallTime
                      /\ check'[c].item[req].verdict => StaleFor(<<check[c].user, req>>)' <= check'[c].item[req].age
    BY <1>7 DEF ItemOK
  <2>1. /\ check[c].item[req].age \in 0 .. CallTime /\ check[c].user \in UserIds
        /\ check[c].item[req].verdict => StaleFor(<<check[c].user, req>>) <= check[c].item[req].age
    BY DEF GrantInv, ItemOK, CallOK
  <2>2. <<check[c].user, req>> \in VerdictKeys
    BY <2>1 DEF VerdictKeys
  <2> DEFINE s == StaleFor(<<check[c].user, req>>)
             t == StaleFor(<<check[c].user, req>>)'
  <2>3. /\ check'[c].user = check[c].user /\ check'[c].item[req].verdict = check[c].item[req].verdict
        /\ check[c].item[req].age < CallTime /\ check'[c].item[req].age = check[c].item[req].age + 1
    BY <1>7
  <2>4. s \in Nat /\ t \in Nat /\ t <= s + 1
    BY <1>2, <2>2, <2>3
  <2>5. check[c].item[req].verdict => s <= check[c].item[req].age
    BY <2>1
  <2>6. check'[c].item[req].verdict => t <= check'[c].item[req].age
    <3> HIDE DEF s, t
    <3> QED BY <2>1, <2>3, <2>4, <2>5
  <2> QED BY <1>1, <2>1, <2>3, <2>6
<1>10. PermissionShape'
  <2>1. /\ verdicts' = [k \in VerdictKeys |-> verdicts'[k]]
        /\ effective' = [u \in UserIds |-> effective'[u]]
    BY <1>4
  <2>2. check' = [c \in Checkers |-> check'[c]]
    BY DEF PassPermissionTime
  <2>3. since' \in [VerdictKeys -> Nat]
    BY <1>1, OneTickType
  <2>4. \A c \in Checkers : CheckShape(check'[c])
    BY <1>7
  <2> QED BY <2>1, <2>2, <2>3, <2>4 DEF PermissionShape, CheckShape
<1> QED BY <1>5, <1>6, <1>8, <1>9, <1>10 DEF GrantInv

\* Nothing but the tables changes.
LEMMA TablesChange ==
    ASSUME GrantInv, UNCHANGED <<verdicts, effective, check>>, since' = [k \in VerdictKeys |-> StaleFor(k)]
    PROVE  GrantInv'
<1>1. since' \in [VerdictKeys -> Nat]
  <2>1. \A k \in VerdictKeys : StaleFor(k) \in Nat
    BY StaleType DEF GrantInv
  <2> HIDE DEF StaleFor
  <2> QED BY <2>1
<1>2. PermissionShape'
  BY <1>1 DEF GrantInv, PermissionShape, CheckShape
<1>3. (\A k \in VerdictKeys : VerdictOK(k)') /\ (\A u \in UserIds : EffectiveOK(u)')
  BY KeptVerdict, KeptEffective
<1>4. \A c \in Checkers : CallOK(c)' /\ \A req \in Questions : ItemOK(c, req)'
  BY KeptCall
<1> QED BY <1>2, <1>3, <1>4 DEF GrantInv

\* A call whose items are not on their way to the cache and that warms nothing.
LEMMA PlainCall ==
    ASSUME GrantInv, since' = [k \in VerdictKeys |-> StaleFor(k)], NEW c \in Checkers, NEW v, CheckShape(v),
           check' = [check EXCEPT ![c] = v], UNCHANGED <<verdicts, effective>>,
           v.stage \notin {"cacheEffective", "warm"}, v.stage # "idle" => v.user \in UserIds,
           \A req \in Questions : v.item[req].stage # "cache",
           v.stage # "checking" => \A req \in Questions : v.item[req].stage # "lookup"
    PROVE  GrantInv'
<1>1. check'[c] = v
  BY DEF GrantInv, PermissionShape
<1>2. CallOK(c)' /\ \A req \in Questions : ItemOK(c, req)'
  BY <1>1 DEF CallOK, ItemOK
<1>3. verdicts' = [k \in VerdictKeys |-> verdicts'[k]] /\ effective' = [u \in UserIds |-> effective'[u]]
  BY DEF GrantInv, PermissionShape
<1> QED BY <1>2, <1>3, CallSteps

\* A free slot has the fields of a check.
LEMMA NoCheckShape ==
    CheckShape(NoCheck) /\ NoCheck.stage = "idle" /\ \A req \in Questions : NoCheck.item[req] = NoItem
<1>1. DOMAIN NoCheck = CheckFields /\ NoCheck.stage = "idle" /\ NoCheck.item = [req \in Questions |-> NoItem]
  BY DEF NoCheck, CheckFields
<1>2. DOMAIN NoItem = ItemFields
  BY DEF NoItem, ItemFields
<1> QED BY <1>1, <1>2 DEF CheckShape

\* CheckPermission begins.
LEMMA CheckPermissionKeeps ==
    ASSUME GrantInv, since' = [k \in VerdictKeys |-> StaleFor(k)], NEW c \in Checkers, CheckPermission(c)
    PROVE  GrantInv'
<1>1. PICK u \in UserIds, req \in {x \in Questions : x.scope = ""} :
          /\ CheckStep(c, [op |-> "CheckPermission", user |-> u, stage |-> "checking",
                    item |-> [NoCheck.item EXCEPT ![req].stage = "lookup"]])
          /\ UNCHANGED <<verdicts, effective>>
  BY DEF CheckPermission
<1> DEFINE i == [NoCheck.item EXCEPT ![req].stage = "lookup"]
           v == With(check[c], [op |-> "CheckPermission", user |-> u, stage |-> "checking", item |-> i])
<1>2. i = [q \in Questions |-> i[q]] /\ \A q \in Questions : DOMAIN i[q] = ItemFields /\ i[q].stage # "cache"
  <2>1. NoCheck.item = [q \in Questions |-> NoItem] /\ DOMAIN NoItem = ItemFields /\ NoItem.stage = "none"
    BY DEF NoCheck, NoItem, ItemFields
  <2>2. \A q \in Questions : i[q] = IF q = req THEN [NoItem EXCEPT !.stage = "lookup"] ELSE NoItem
    BY <2>1
  <2>3. DOMAIN [NoItem EXCEPT !.stage = "lookup"] = ItemFields /\ [NoItem EXCEPT !.stage = "lookup"].stage = "lookup"
    BY <2>1 DEF ItemFields
  <2>4. i = [q \in Questions |-> i[q]]
    BY <2>1
  <2> QED BY <2>1, <2>2, <2>3, <2>4
<1> HIDE DEF i
<1>3. DOMAIN v = CheckFields /\ v.item = i /\ v.stage = "checking" /\ v.user = u
  BY DEF With, CheckFields, GrantInv, PermissionShape, CheckShape
<1>4. check' = [check EXCEPT ![c] = v]
  BY <1>1 DEF CheckStep, i
<1> HIDE DEF v
<1>5. CheckShape(v)
  BY <1>2, <1>3 DEF CheckShape
<1> QED BY <1>1, <1>2, <1>3, <1>4, <1>5, PlainCall

\* The bulk check begins.
LEMMA BulkCheckKeeps ==
    ASSUME GrantInv, since' = [k \in VerdictKeys |-> StaleFor(k)], NEW c \in Checkers, BulkCheckPermissions(c)
    PROVE  GrantInv'
<1>1. PICK u \in UserIds, some \in SUBSET Questions :
          /\ CheckStep(c, [op |-> "BulkCheckPermissions", user |-> u, stage |-> "checking",
                    item |-> [req \in Questions |->
                        IF req \in some THEN [NoItem EXCEPT !.stage = "lookup"] ELSE NoItem]])
          /\ UNCHANGED <<verdicts, effective>>
  BY DEF BulkCheckPermissions
<1> DEFINE i == [req \in Questions |-> IF req \in some THEN [NoItem EXCEPT !.stage = "lookup"] ELSE NoItem]
           v == With(check[c], [op |-> "BulkCheckPermissions", user |-> u, stage |-> "checking", item |-> i])
<1>2. i = [q \in Questions |-> i[q]] /\ \A q \in Questions : DOMAIN i[q] = ItemFields /\ i[q].stage # "cache"
  <2>1. /\ DOMAIN NoItem = ItemFields /\ NoItem.stage = "none"
        /\ DOMAIN [NoItem EXCEPT !.stage = "lookup"] = ItemFields /\ [NoItem EXCEPT !.stage = "lookup"].stage = "lookup"
    BY DEF NoItem, ItemFields
  <2> QED BY <2>1
<1> HIDE DEF i
<1>3. DOMAIN v = CheckFields /\ v.item = i /\ v.stage = "checking" /\ v.user = u
  BY DEF With, CheckFields, GrantInv, PermissionShape, CheckShape
<1>4. check' = [check EXCEPT ![c] = v]
  BY <1>1 DEF CheckStep, i
<1> HIDE DEF v
<1>5. CheckShape(v)
  BY <1>2, <1>3 DEF CheckShape
<1> QED BY <1>1, <1>2, <1>3, <1>4, <1>5, PlainCall

\* The checks of a request return.
LEMMA ChecksReturnKeeps ==
    ASSUME GrantInv, since' = [k \in VerdictKeys |-> StaleFor(k)], NEW c \in Checkers, ChecksReturn(c)
    PROVE  GrantInv'
<1>1. NoItem.stage = "none"
  BY DEF NoItem
<1> QED BY <1>1, NoCheckShape, PlainCall DEF ChecksReturn

\* A step of one check of the call.
LEMMA CheckedItemStep ==
    ASSUME GrantInv, since' = [k \in VerdictKeys |-> StaleFor(k)], NEW c \in Checkers, NEW req \in Questions,
           NEW fields, DOMAIN fields \subseteq ItemFields, StepItem(c, req, fields),
           check[c].item[req].stage \in {"lookup", "cache"},
           ItemOK(c, req)',
           verdicts' = [k \in VerdictKeys |-> verdicts'[k]], UNCHANGED effective,
           \A k \in VerdictKeys : verdicts'[k] = verdicts[k] \/ VerdictOK(k)'
    PROVE  GrantInv'
<1> DEFINE x == With(check[c].item[req], fields)
           v == [check[c] EXCEPT !.item = [check[c].item EXCEPT ![req] = x]]
<1>1. CheckShape(check[c])
  BY DEF GrantInv, PermissionShape
<1>2. DOMAIN x = ItemFields
  BY <1>1 DEF With, CheckShape
<1>3. check' = [check EXCEPT ![c] = v] /\ check'[c] = v
  BY <1>1 DEF StepItem, GrantInv, PermissionShape
<1> HIDE DEF x
<1>4. /\ DOMAIN v = CheckFields /\ v.user = check[c].user /\ v.stage = check[c].stage
      /\ v.item = [check[c].item EXCEPT ![req] = x]
  BY <1>1 DEF CheckShape, CheckFields
<1> HIDE DEF v
<1>5. /\ CheckShape(v)
      /\ \A q \in Questions \ {req} : v.item[q] = check[c].item[q]
  BY <1>1, <1>2, <1>4 DEF CheckShape
<1>6. check[c].stage = "checking" /\ check[c].user \in UserIds
  <2>1. CallOK(c)
    BY DEF GrantInv
  <2> QED BY <2>1 DEF CallOK
<1>7. CallOK(c)'
  BY <1>3, <1>4, <1>6 DEF CallOK
<1>8. \A q \in Questions : ItemOK(c, q)'
  BY <1>3, <1>4, <1>5, KeptItem
<1>9. effective' = [u \in UserIds |-> effective'[u]]
  BY DEF GrantInv, PermissionShape
<1> QED BY <1>3, <1>5, <1>7, <1>8, <1>9, CallSteps

\* What StepItem makes of the check.
LEMMA SteppedItem ==
    ASSUME GrantInv, NEW c \in Checkers, NEW req \in Questions, NEW fields, StepItem(c, req, fields)
    PROVE  check'[c].item[req] = With(check[c].item[req], fields) /\ check'[c].user = check[c].user
<1>1. CheckShape(check[c])
  BY DEF GrantInv, PermissionShape
<1> HIDE DEF With
<1>2. check'[c] = [check[c] EXCEPT !.item = [check[c].item EXCEPT ![req] = With(check[c].item[req], fields)]]
  BY <1>1 DEF StepItem, GrantInv, PermissionShape
<1> QED BY <1>1, <1>2 DEF CheckShape, CheckFields

\* The verdict is in the cache.
LEMMA CacheHitKeeps ==
    ASSUME GrantInv, since' = [k \in VerdictKeys |-> StaleFor(k)], NEW c \in Checkers, NEW req \in Questions,
           CacheHit(c, req)
    PROVE  GrantInv'
<1> DEFINE f == [stage |-> "answered", verdict |-> verdicts[<<check[c].user, req>>].value]
<1>1. DOMAIN f \subseteq ItemFields /\ StepItem(c, req, f) /\ check[c].item[req].stage = "lookup"
  BY DEF CacheHit, ItemFields
<1>2. With(check[c].item[req], f).stage = "answered"
  BY DEF With
<1> HIDE DEF f
<1>3. ItemOK(c, req)'
  BY <1>1, <1>2, SteppedItem DEF ItemOK
<1>4. verdicts' = [k \in VerdictKeys |-> verdicts'[k]] /\ UNCHANGED <<verdicts, effective>>
  BY DEF CacheHit, GrantInv, PermissionShape
<1> QED BY <1>1, <1>3, <1>4, CheckedItemStep

\* An evaluation fails and grants nothing.
LEMMA EvaluationFailsKeeps ==
    ASSUME GrantInv, since' = [k \in VerdictKeys |-> StaleFor(k)], NEW c \in Checkers, NEW req \in Questions,
           EvaluationFails(c, req)
    PROVE  GrantInv'
<1> DEFINE f == [stage |-> "answered"]
<1>1. DOMAIN f \subseteq ItemFields /\ StepItem(c, req, f) /\ check[c].item[req].stage = "lookup"
  BY DEF EvaluationFails, ItemFields
<1>2. With(check[c].item[req], f).stage = "answered"
  BY DEF With
<1> HIDE DEF f
<1>3. ItemOK(c, req)'
  BY <1>1, <1>2, SteppedItem DEF ItemOK
<1>4. verdicts' = [k \in VerdictKeys |-> verdicts'[k]] /\ UNCHANGED <<verdicts, effective>>
  BY DEF EvaluationFails, GrantInv, PermissionShape
<1> QED BY <1>1, <1>3, <1>4, CheckedItemStep

\* A verdict evaluated now is one the tables grant now.
LEMMA EvaluateKeeps ==
    ASSUME GrantInv, since' = [k \in VerdictKeys |-> StaleFor(k)], NEW c \in Checkers, NEW req \in Questions,
           Evaluate(c, req)
    PROVE  GrantInv'
<1>1. PICK lost \in SUBSET Perms : StepItem(c, req, [stage |-> "cache", age |-> 0,
               verdict |-> evaluatePermission(GetUserPermissions(check[c].user), req, lost)])
  BY DEF Evaluate
<1> DEFINE e == evaluatePermission(GetUserPermissions(check[c].user), req, lost)
           f == [stage |-> "cache", age |-> 0, verdict |-> e]
<1>2. check[c].item[req].stage = "lookup" /\ check[c].user \in UserIds
  <2>1. check[c].item[req].stage = "lookup" /\ CallOK(c)
    BY DEF Evaluate, GrantInv
  <2> QED BY <2>1 DEF CallOK
<1>3. e => StaleFor(<<check[c].user, req>>) = 0
  <2> SUFFICES ASSUME e
               PROVE  StaleFor(<<check[c].user, req>>) = 0
    OBVIOUS
  <2>1. Granted(check[c].user, req)
    BY <1>2, EvaluatedIsGranted
  <2>2. <<check[c].user, req>> \in VerdictKeys /\ PermissionShape
    BY <1>2 DEF VerdictKeys, GrantInv
  <2> QED BY <2>1, <2>2, StaleType
<1>4. StepItem(c, req, f)
  BY <1>1
<1> HIDE DEF e
<1>5. /\ DOMAIN f \subseteq ItemFields
      /\ With(check[c].item[req], f).age = 0 /\ With(check[c].item[req], f).verdict = e
  BY DEF With, ItemFields
<1> HIDE DEF f
<1>6. ItemOK(c, req)'
  <2>1. /\ check'[c].item[req].age = 0 /\ check'[c].item[req].verdict = e
        /\ check'[c].user = check[c].user
    BY <1>4, <1>5, SteppedItem
  <2>2. <<check[c].user, req>> \in VerdictKeys /\ PermissionShape
    BY <1>2 DEF VerdictKeys, GrantInv
  <2>3. /\ StaleFor(<<check[c].user, req>>) \in Nat /\ StaleFor(<<check[c].user, req>>)' \in Nat
        /\ StaleFor(<<check[c].user, req>>)' <= StaleFor(<<check[c].user, req>>)
    BY <2>1, <2>2, NothingAges
  <2>4. e => StaleFor(<<check[c].user, req>>)' <= 0
    BY <1>3, <2>3
  <2> QED BY <2>1, <2>4, PermissionAssumption DEF ItemOK
<1>7. verdicts' = [k \in VerdictKeys |-> verdicts'[k]] /\ UNCHANGED <<verdicts, effective>>
  BY DEF Evaluate, GrantInv, PermissionShape
<1> QED BY <1>2, <1>4, <1>5, <1>6, <1>7, CheckedItemStep

\* A verdict stored is no staler than its evaluation is old.
LEMMA CacheResultKeeps ==
    ASSUME GrantInv, since' = [k \in VerdictKeys |-> StaleFor(k)], NEW c \in Checkers, NEW req \in Questions,
           CacheResult(c, req)
    PROVE  GrantInv'
<1> DEFINE f == [stage |-> "answered", age |-> 0]
           key == <<check[c].user, req>>
           it == check[c].item[req]
<1>1. DOMAIN f \subseteq ItemFields /\ StepItem(c, req, f) /\ it.stage = "cache" /\ UNCHANGED effective
  BY DEF CacheResult, ItemFields
<1>2. With(check[c].item[req], f).stage = "answered"
  BY DEF With
<1> HIDE DEF f
<1>3. ItemOK(c, req)'
  BY <1>1, <1>2, SteppedItem DEF ItemOK
<1>4. /\ key \in VerdictKeys /\ it.age \in 0 .. CallTime
      /\ it.verdict => StaleFor(key) <= it.age
  BY <1>1 DEF GrantInv, CallOK, ItemOK, VerdictKeys
<1>5. CASE UNCHANGED verdicts
  <2>1. verdicts' = [k \in VerdictKeys |-> verdicts'[k]]
    BY <1>5 DEF GrantInv, PermissionShape
  <2> QED BY <1>1, <1>3, <1>5, <2>1, CheckedItemStep
<1>6. CASE verdicts' = [verdicts EXCEPT ![key] = Entry(it.verdict)]
  <2>1. /\ verdicts' = [k \in VerdictKeys |-> verdicts'[k]]
        /\ \A k \in VerdictKeys \ {key} : verdicts'[k] = verdicts[k]
        /\ verdicts'[key] = Entry(it.verdict)
    BY <1>4, <1>6 DEF GrantInv, PermissionShape
  <2>2. PICK k \in VerdictKeys : k = key
    BY <1>4
  <2>3. StaleFor(k) \in Nat /\ StaleFor(k)' \in Nat /\ StaleFor(k)' <= StaleFor(k)
    BY NothingAges DEF GrantInv
  <2>4. DOMAIN Entry(it.verdict) = {"value", "left"} /\ Entry(it.verdict).left = CacheTTL /\ Entry(it.verdict).value = it.verdict
    BY DEF Entry
  <2>5. it.verdict => StaleFor(k)' + CacheTTL <= MaxStale
    BY <1>4, <2>2, <2>3, PermissionAssumption DEF MaxStale
  <2>6. VerdictOK(k)'
    <3>1. DOMAIN verdicts'[k] = {"value", "left"} /\ verdicts'[k].left = CacheTTL /\ verdicts'[k].value = it.verdict
      BY <2>1, <2>2, <2>4
    <3> QED BY <2>5, <3>1, PermissionAssumption DEF VerdictOK, MaxStale
  <2>7. \A x \in VerdictKeys : verdicts'[x] = verdicts[x] \/ VerdictOK(x)'
    BY <2>1, <2>2, <2>6
  <2> HIDE DEF it
  <2> QED BY <1>1, <1>3, <2>1, <2>7, CheckedItemStep DEF it
<1> QED BY <1>5, <1>6 DEF CacheResult

\* A call of the warmer after a step of its own.
LEMMA WarmCall ==
    ASSUME GrantInv, since' = [k \in VerdictKeys |-> StaleFor(k)], NEW c \in Checkers, NEW v, NEW u \in UserIds,
           CheckShape(v), check' = [check EXCEPT ![c] = v],
           v.user = u, v.item = check[c].item, check[c].stage # "checking",
           v.stage \in {"cacheEffective", "warm"}, v.age \in 0 .. CallTime,
           v.stage = "warm" => GrantedWithin(u, v.perms, CacheTTL + CallTime + v.age),
           v.stage = "cacheEffective" => GrantedWithin(u, v.perms, v.age),
           UNCHANGED verdicts, effective' = [x \in UserIds |-> effective'[x]],
           \A x \in UserIds : effective'[x] = effective[x] \/ EffectiveOK(x)'
    PROVE  GrantInv'
<1>1. check'[c] = v
  BY DEF GrantInv, PermissionShape
<1>2. \A req \in Questions : check[c].item[req].stage \notin {"lookup", "cache"}
  BY DEF GrantInv, CallOK
<1>3. \A req \in Questions : ItemOK(c, req)'
  BY <1>1, <1>2 DEF ItemOK
<1> DEFINE n == IF v.stage = "warm" THEN CacheTTL + CallTime + v.age ELSE v.age
<1>4. n \in Int
  BY PermissionAssumption
<1>5. \A p \in v.perms, req \in Questions : KeyOf(p) = req => StaleFor(<<u, req>>)' <= n
  <2> HIDE DEF n
  <2>1. GrantedWithin(u, v.perms, n)
    BY DEF n
  <2>2. n <= n /\ PermissionShape
    BY <1>4 DEF GrantInv
  <2> QED BY <1>4, <2>1, <2>2, GrantedStays
<1>6. CallOK(c)'
  BY <1>1, <1>2, <1>5 DEF CallOK, GrantedWithin
<1>7. verdicts' = [k \in VerdictKeys |-> verdicts'[k]]
  BY DEF GrantInv, PermissionShape
<1> QED BY <1>3, <1>6, <1>7, CallSteps

\* The warmer takes what is cached, or reads the tables.
LEMMA GetEffectiveKeeps ==
    ASSUME GrantInv, since' = [k \in VerdictKeys |-> StaleFor(k)], NEW c \in Checkers, GetUserEffectivePermissions(c)
    PROVE  GrantInv'
<1>1. PICK u \in UserIds : \E lost \in IF StatementsFail THEN SUBSET GetUserPermissions(u) ELSE {{}} :
        /\ check[c].stage = "idle"
        /\ CheckStep(c, IF effective[u] # None
                   THEN [op |-> "warm", user |-> u, perms |-> effective[u].value, age |-> 0,
                         stage |-> "warm"]
                   ELSE [op |-> "warm", user |-> u, age |-> 0, stage |-> "cacheEffective",
                         perms |-> EffectivePermissions(GetUserPermissions(u) \ lost)])
        /\ UNCHANGED <<verdicts, effective>>
  BY DEF GetUserEffectivePermissions
<1>2. PICK lost : TRUE /\
        /\ check[c].stage = "idle"
        /\ CheckStep(c, IF effective[u] # None
                   THEN [op |-> "warm", user |-> u, perms |-> effective[u].value, age |-> 0,
                         stage |-> "warm"]
                   ELSE [op |-> "warm", user |-> u, age |-> 0, stage |-> "cacheEffective",
                         perms |-> EffectivePermissions(GetUserPermissions(u) \ lost)])
        /\ UNCHANGED <<verdicts, effective>>
  BY <1>1
<1>3. CheckShape(check[c]) /\ effective' = [x \in UserIds |-> effective'[x]] /\ CallTime \in Nat /\ CacheTTL \in Nat
  BY <1>2, PermissionAssumption DEF GrantInv, PermissionShape
<1>4. CASE effective[u] # None
  <2> DEFINE f == [op |-> "warm", user |-> u, perms |-> effective[u].value, age |-> 0, stage |-> "warm"]
             v == With(check[c], f)
  <2>1. check' = [check EXCEPT ![c] = v]
    BY <1>2, <1>4 DEF CheckStep
  <2>2. /\ DOMAIN v = CheckFields /\ v.item = check[c].item
        /\ v.user = u /\ v.stage = "warm" /\ v.age = 0 /\ v.perms = effective[u].value
    BY <1>3 DEF With, CheckShape, CheckFields
  <2> HIDE DEF v
  <2>3. CheckShape(v)
    BY <1>3, <2>2 DEF CheckShape
  <2>4. GrantedWithin(u, v.perms, CacheTTL + CallTime + v.age)
    <3>1. GrantedWithin(u, effective[u].value, CacheTTL + CallTime - effective[u].left) /\ effective[u].left \in 0 .. CacheTTL
      BY <1>4 DEF GrantInv, EffectiveOK
    <3> SUFFICES ASSUME NEW p \in effective[u].value, NEW req \in Questions, KeyOf(p) = req
                 PROVE  StaleFor(<<u, req>>) <= CacheTTL + CallTime + v.age
      BY <2>2 DEF GrantedWithin
    <3>2. StaleFor(<<u, req>>) <= CacheTTL + CallTime - effective[u].left
      BY <3>1 DEF GrantedWithin
    <3>3. <<u, req>> \in VerdictKeys /\ PermissionShape
      BY DEF VerdictKeys, GrantInv
    <3>4. StaleFor(<<u, req>>) \in Nat
      BY <3>3, StaleType
    <3> QED BY <1>3, <2>2, <3>1, <3>2, <3>4
  <2>5. /\ v.age \in 0 .. CallTime /\ check[c].stage # "checking" /\ UNCHANGED <<verdicts, effective>>
        /\ v.stage = "warm" => GrantedWithin(u, v.perms, CacheTTL + CallTime + v.age)
        /\ v.stage = "cacheEffective" => GrantedWithin(u, v.perms, v.age)
    BY <1>2, <1>3, <2>2, <2>3, <2>4
  <2> QED BY <1>3, <2>1, <2>2, <2>3, <2>4, <2>5, WarmCall
<1>5. CASE effective[u] = None
  <2> DEFINE ps == EffectivePermissions(GetUserPermissions(u) \ lost)
             f == [op |-> "warm", user |-> u, age |-> 0, stage |-> "cacheEffective", perms |-> ps]
             v == With(check[c], f)
  <2>1. check' = [check EXCEPT ![c] = v]
    BY <1>2, <1>5 DEF CheckStep
  <2>2. GrantedWithin(u, ps, 0)
    <3> SUFFICES ASSUME NEW p \in ps, NEW req \in Questions, KeyOf(p) = req
                 PROVE  StaleFor(<<u, req>>) = 0
      BY DEF GrantedWithin
    <3>1. GetUserPermissions(u) \ lost \in SUBSET GetUserPermissions(u)
      OBVIOUS
    <3>2. Granted(u, req)
      BY <3>1, WarmedIsGranted
    <3>3. <<u, req>> \in VerdictKeys /\ PermissionShape
      BY DEF VerdictKeys, GrantInv
    <3> QED BY <3>2, <3>3, StaleType
  <2> HIDE DEF ps
  <2>3. /\ DOMAIN v = CheckFields /\ v.item = check[c].item
        /\ v.user = u /\ v.stage = "cacheEffective" /\ v.age = 0 /\ v.perms = ps
    BY <1>3 DEF With, CheckShape, CheckFields
  <2> HIDE DEF v
  <2>4. CheckShape(v)
    BY <1>3, <2>3 DEF CheckShape
  <2>5. /\ v.age \in 0 .. CallTime /\ check[c].stage # "checking" /\ UNCHANGED <<verdicts, effective>>
        /\ v.stage = "warm" => GrantedWithin(u, v.perms, CacheTTL + CallTime + v.age)
        /\ v.stage = "cacheEffective" => GrantedWithin(u, v.perms, v.age)
    BY <1>2, <1>3, <2>2, <2>3, <2>4
  <2> QED BY <1>3, <2>1, <2>2, <2>3, <2>4, <2>5, WarmCall
<1> QED BY <1>4, <1>5

\* Effective permissions are stored with a full lifetime, however old their read is.
LEMMA CacheEffectiveKeeps ==
    ASSUME GrantInv, since' = [k \in VerdictKeys |-> StaleFor(k)], NEW c \in Checkers, CacheEffective(c)
    PROVE  GrantInv'
<1>1. CheckShape(check[c]) /\ CallTime \in Nat /\ CacheTTL \in Nat /\ PermissionShape
  BY PermissionAssumption DEF GrantInv, PermissionShape
<1>2. /\ check[c].stage = "cacheEffective" /\ check[c].user \in UserIds /\ check[c].age \in 0 .. CallTime
      /\ GrantedWithin(check[c].user, check[c].perms, check[c].age)
  BY DEF CacheEffective, GrantInv, CallOK
<1>3. PICK u \in UserIds : u = check[c].user
  BY <1>2
<1> DEFINE v == With(check[c], [stage |-> "warm"])
<1>4. check' = [check EXCEPT ![c] = v] /\ UNCHANGED verdicts
  BY DEF CacheEffective, CheckStep
<1>5. /\ DOMAIN v = CheckFields /\ v.item = check[c].item /\ v.user = u /\ v.stage = "warm"
      /\ v.age = check[c].age /\ v.perms = check[c].perms
  BY <1>1, <1>3 DEF With, CheckShape, CheckFields
<1> HIDE DEF v
<1>6. CheckShape(v)
  BY <1>1, <1>5 DEF CheckShape
<1>7. ASSUME NEW p \in v.perms, NEW req \in Questions, KeyOf(p) = req
      PROVE  /\ StaleFor(<<u, req>>) \in Nat /\ StaleFor(<<u, req>>) <= CacheTTL + CallTime + v.age
             /\ StaleFor(<<u, req>>) <= CallTime
  <2>1. StaleFor(<<u, req>>) <= v.age
    BY <1>2, <1>3, <1>5, <1>7 DEF GrantedWithin
  <2>2. <<u, req>> \in VerdictKeys
    BY DEF VerdictKeys
  <2>3. StaleFor(<<u, req>>) \in Nat
    BY <1>1, <2>2, StaleType
  <2> QED BY <1>1, <1>2, <1>5, <2>1, <2>3
<1>8. GrantedWithin(u, v.perms, CacheTTL + CallTime + v.age) /\ GrantedWithin(u, v.perms, CallTime)
  BY <1>7 DEF GrantedWithin
<1>9. /\ effective' = [x \in UserIds |-> effective'[x]]
      /\ \A x \in UserIds : effective'[x] = effective[x] \/ EffectiveOK(x)'
  <2>1. CASE UNCHANGED effective
    BY <1>1, <2>1 DEF PermissionShape
  <2>2. CASE effective' = [effective EXCEPT ![check[c].user] = Entry(check[c].perms)]
    <3>1. /\ effective' = [x \in UserIds |-> effective'[x]]
          /\ \A x \in UserIds \ {u} : effective'[x] = effective[x]
          /\ effective'[u] = Entry(v.perms)
      BY <1>1, <1>3, <1>5, <2>2 DEF PermissionShape
    <3>2. /\ DOMAIN Entry(v.perms) = {"value", "left"} /\ Entry(v.perms).left = CacheTTL
          /\ Entry(v.perms).value = v.perms
      BY DEF Entry
    <3>3. \A p \in v.perms, req \in Questions : KeyOf(p) = req => StaleFor(<<u, req>>)' <= CallTime
      <4>1. CallTime \in Int /\ CallTime <= CallTime
        BY <1>1
      <4> QED BY <1>1, <1>8, <4>1, GrantedStays
    <3>4. EffectiveOK(u)'
      <4>1. /\ DOMAIN effective'[u] = {"value", "left"} /\ effective'[u].left = CacheTTL
            /\ effective'[u].value = v.perms
        BY <3>1, <3>2
      <4>2. effective'[u].left \in 0 .. CacheTTL /\ CacheTTL + CallTime - effective'[u].left = CallTime
        BY <1>1, <4>1
      <4>3. \A p \in effective'[u].value, req \in Questions : KeyOf(p) = req =>
               StaleFor(<<u, req>>)' <= CacheTTL + CallTime - effective'[u].left
        BY <3>3, <4>1, <4>2
      <4> QED BY <4>1, <4>2, <4>3 DEF EffectiveOK, GrantedWithin
    <3> QED BY <3>1, <3>4
  <2> QED BY <2>1, <2>2 DEF CacheEffective
<1>10. /\ v.age \in 0 .. CallTime /\ check[c].stage # "checking"
       /\ v.stage \in {"cacheEffective", "warm"}
       /\ v.stage = "warm" => GrantedWithin(u, v.perms, CacheTTL + CallTime + v.age)
       /\ v.stage = "cacheEffective" => GrantedWithin(u, v.perms, v.age)
  BY <1>2, <1>5, <1>8
<1> QED BY <1>4, <1>5, <1>6, <1>9, <1>10, WarmCall

\* Warmed verdicts get a full lifetime on top of the one of the effective permissions.
LEMMA WarmKeeps ==
    ASSUME GrantInv, since' = [k \in VerdictKeys |-> StaleFor(k)], NEW c \in Checkers, WarmUserPermissions(c)
    PROVE  GrantInv'
<1>1. CallTime \in Nat /\ CacheTTL \in Nat /\ PermissionShape /\ MaxStale \in Nat /\ MaxStale = 2 * CacheTTL + 2 * CallTime
  BY PermissionAssumption DEF GrantInv, PermissionShape, MaxStale
<1>2. /\ check[c].stage = "warm" /\ check[c].user \in UserIds /\ check[c].age \in 0 .. CallTime
      /\ GrantedWithin(check[c].user, check[c].perms, CacheTTL + CallTime + check[c].age)
  BY DEF WarmUserPermissions, GrantInv, CallOK
<1>3. /\ check' = [check EXCEPT ![c] = NoCheck] /\ UNCHANGED effective
      /\ verdicts' = [k \in VerdictKeys |->
           IF k[1] = check[c].user /\ \E p \in check[c].perms : KeyOf(p) = k[2]
           THEN Entry(TRUE) ELSE verdicts[k]]
  BY DEF WarmUserPermissions
<1>4. ASSUME NEW k \in VerdictKeys
      PROVE  verdicts'[k] = verdicts[k] \/ VerdictOK(k)'
  <2>1. CASE k[1] = check[c].user /\ \E p \in check[c].perms : KeyOf(p) = k[2]
    <3>1. verdicts'[k] = [value |-> TRUE, left |-> CacheTTL]
      BY <1>3, <2>1 DEF Entry
    <3>2. DOMAIN verdicts'[k] = {"value", "left"} /\ verdicts'[k].left = CacheTTL
      BY <3>1
    <3>3. k = <<check[c].user, k[2]>> /\ k[2] \in Questions
      BY <2>1 DEF VerdictKeys
    <3>4. StaleFor(k) <= CacheTTL + CallTime + check[c].age
      BY <1>2, <2>1, <3>3 DEF GrantedWithin
    <3>5. StaleFor(k) \in Nat /\ StaleFor(k)' \in Nat /\ StaleFor(k)' <= StaleFor(k)
      BY <1>1, NothingAges
    <3>6. StaleFor(k)' + CacheTTL <= MaxStale
      BY <1>1, <1>2, <3>4, <3>5
    <3>7. verdicts'[k].left \in 0 .. CacheTTL /\ StaleFor(k)' + verdicts'[k].left <= MaxStale
      BY <1>1, <3>2, <3>6
    <3> QED BY <3>2, <3>7 DEF VerdictOK, MaxStale
  <2>2. CASE ~(k[1] = check[c].user /\ \E p \in check[c].perms : KeyOf(p) = k[2])
    BY <1>3, <2>2
  <2> QED BY <2>1, <2>2
<1>5. verdicts' = [k \in VerdictKeys |-> verdicts'[k]] /\ effective' = [u \in UserIds |-> effective'[u]]
  BY <1>1, <1>3 DEF PermissionShape
<1>6. check'[c] = NoCheck /\ NoItem.stage = "none"
  BY <1>1, <1>3 DEF PermissionShape, NoItem
<1>7. CallOK(c)' /\ \A req \in Questions : ItemOK(c, req)'
  BY <1>6, NoCheckShape DEF CallOK, ItemOK
<1> QED BY <1>3, <1>4, <1>5, <1>7, NoCheckShape, CallSteps

\* An invalidation only removes.
LEMMA InvalidateKeeps ==
    ASSUME GrantInv, since' = [k \in VerdictKeys |-> StaleFor(k)], NEW u \in UserIds, InvalidateUserPermissionCache(u)
    PROVE  GrantInv'
<1>1. UNCHANGED <<verdicts, check>> /\ effective' = [effective EXCEPT ![u] = None]
  BY DEF InvalidateUserPermissionCache
<1>2. since' \in [VerdictKeys -> Nat]
  <2>1. \A k \in VerdictKeys : StaleFor(k) \in Nat
    BY StaleType DEF GrantInv
  <2> HIDE DEF StaleFor
  <2> QED BY <2>1
<1>3. PermissionShape'
  BY <1>1, <1>2 DEF GrantInv, PermissionShape, CheckShape
<1>4. \A x \in UserIds : effective'[x] = effective[x] \/ effective'[x] = None
  BY <1>1 DEF GrantInv, PermissionShape
<1>5. \A x \in UserIds : EffectiveOK(x)'
  <2>1. \A x \in UserIds : effective'[x] = None => EffectiveOK(x)'
    BY DEF EffectiveOK
  <2> QED BY <1>4, <2>1, KeptEffective
<1>6. (\A k \in VerdictKeys : VerdictOK(k)') /\ \A c \in Checkers : CallOK(c)' /\ \A req \in Questions : ItemOK(c, req)'
  BY <1>1, KeptVerdict, KeptCall
<1> QED BY <1>3, <1>5, <1>6 DEF GrantInv

\* Nothing is cached and nobody checks at the start.
LEMMA GrantInit == PermissionInit => GrantInv
<1> SUFFICES ASSUME VerdictsInit
             PROVE  GrantInv
  BY DEF PermissionInit
<1>1. PermissionShape
  <2>1. MaxStale + 1 \in Nat
    BY PermissionAssumption DEF MaxStale
  <2> QED BY <2>1, NoCheckShape DEF VerdictsInit, PermissionShape
<1>2. (\A k \in VerdictKeys : VerdictOK(k)) /\ (\A u \in UserIds : EffectiveOK(u))
  BY DEF VerdictsInit, VerdictOK, EffectiveOK
<1>3. NoItem.stage = "none" /\ \A c \in Checkers : check[c] = NoCheck
  BY DEF VerdictsInit, NoItem
<1>4. \A c \in Checkers : CallOK(c) /\ \A req \in Questions : ItemOK(c, req)
  BY <1>3, NoCheckShape DEF CallOK, ItemOK
<1> QED BY <1>1, <1>2, <1>4 DEF GrantInv

\* Every step of the permission service but the clock keeps the invariant.
LEMMA ServeKeeps ==
    ASSUME GrantInv, since' = [k \in VerdictKeys |-> StaleFor(k)], Serve
    PROVE  GrantInv'
<1>1. ASSUME NEW u \in UserIds, InvalidateUserPermissionCache(u)
      PROVE  GrantInv'
  BY <1>1, InvalidateKeeps
<1>2. ASSUME NEW c \in Checkers,
             CheckPermission(c) \/ BulkCheckPermissions(c) \/ ChecksReturn(c)
      PROVE  GrantInv'
  BY <1>2, CheckPermissionKeeps, BulkCheckKeeps, ChecksReturnKeeps
<1>3. ASSUME NEW c \in Checkers, NEW req \in Questions,
             CacheHit(c, req) \/ Evaluate(c, req) \/ EvaluationFails(c, req) \/ CacheResult(c, req)
      PROVE  GrantInv'
  BY <1>3, CacheHitKeeps, EvaluateKeeps, EvaluationFailsKeeps, CacheResultKeeps
<1>4. ASSUME NEW c \in Checkers,
             GetUserEffectivePermissions(c) \/ CacheEffective(c) \/ WarmUserPermissions(c)
      PROVE  GrantInv'
  BY <1>4, GetEffectiveKeeps, CacheEffectiveKeeps, WarmKeeps
<1> QED BY <1>1, <1>2, <1>3, <1>4 DEF Serve

\* A granted verdict in the cache outlives the grant in the tables by at most twice the
\* cache lifetime and twice the time of a call, for every hierarchy, every number of
\* calls in flight and every interleaving of checks, warming and role handlers.
THEOREM GrantsAlwaysExpire == PermissionSpec => []GrantsExpire
<1>1. GrantInv /\ [PermissionNext]_<<roleVars, permVars>> => GrantInv'
  <2> SUFFICES ASSUME GrantInv, [PermissionNext]_<<roleVars, permVars>>
               PROVE  GrantInv'
    OBVIOUS
  <2>1. CASE RolesNext /\ UNCHANGED <<verdicts, effective, check>> /\ since' = [k \in VerdictKeys |-> StaleFor(k)]
    BY <2>1, TablesChange
  <2>2. CASE Serve /\ UNCHANGED roleVars /\ since' = [k \in VerdictKeys |-> StaleFor(k)]
    BY <2>2, ServeKeeps
  <2>3. CASE PassPermissionTime /\ UNCHANGED roleVars
    BY <2>3, TimeKeeps
  <2>4. CASE UNCHANGED <<roleVars, permVars>>
    <3>1. ASSUME NEW k
          PROVE  StaleFor(k)' = StaleFor(k)
      <4>1. GetUserPermissions(k[1])' = GetUserPermissions(k[1])
        BY <2>4 DEF roleVars, GetUserPermissions, LiveRoles
      <4>2. Granted(k[1], k[2])' <=> Granted(k[1], k[2])
        BY <4>1 DEF Granted, evaluatePermission
      <4> QED BY <2>4, <4>2 DEF StaleFor, permVars
    <3>2. UNCHANGED <<verdicts, effective, since, check>>
      BY <2>4 DEF permVars
    <3>3. PermissionShape' /\ \A k \in VerdictKeys : VerdictOK(k)'
      BY <3>1, <3>2 DEF GrantInv, PermissionShape, VerdictOK, CheckShape, MaxStale
    <3>4. \A u \in UserIds : EffectiveOK(u)'
      BY <3>1, <3>2 DEF GrantInv, EffectiveOK, GrantedWithin
    <3>5. \A c \in Checkers : CallOK(c)'
      BY <3>1, <3>2 DEF GrantInv, CallOK, GrantedWithin
    <3>6. \A c \in Checkers, req \in Questions : ItemOK(c, req)'
      BY <3>1, <3>2 DEF GrantInv, ItemOK
    <3> QED BY <3>3, <3>4, <3>5, <3>6 DEF GrantInv
  <2> QED BY <2>1, <2>2, <2>3, <2>4 DEF PermissionNext
<1>2. GrantInv => GrantsExpire
  <2> SUFFICES ASSUME GrantInv, NEW k \in VerdictKeys, verdicts[k] # None, verdicts[k].value, ~Granted(k[1], k[2])
               PROVE  since[k] <= MaxStale
    BY DEF GrantsExpire
  <2>1. verdicts[k].left \in 0 .. CacheTTL /\ StaleFor(k) + verdicts[k].left <= MaxStale
    BY DEF GrantInv, VerdictOK
  <2>2. StaleFor(k) = since[k] /\ since[k] \in Nat /\ MaxStale \in Nat
    BY PermissionAssumption DEF StaleFor, GrantInv, PermissionShape, MaxStale
  <2> QED BY <2>1, <2>2
<1> QED BY GrantInit, <1>1, <1>2, PTL DEF PermissionSpec

-----------------------------------------------------------------------------
(* Users and organizations.                                                *)

RpcFields == {"op", "stage", "user", "org", "email", "row", "sets", "roles", "seen", "todo", "results", "counts", "answer"}

DirectoryShape ==
    /\ users \in [Users -> UserRow \cup {NoRow}]
    /\ orgs \in [Orgs -> OrgRow \cup {NoRow}]
    /\ writes \in [Users -> Nat]
    /\ rpc = [p \in Handlers |-> rpc[p]]
    /\ \A p \in Handlers : DOMAIN rpc[p] = RpcFields

\* A request that will save the row it read.
Saving(r) == r.stage = "save" /\ r.op \in UserUpdates \cup {"bulkUpdate"}

\* What a request has in its fields between two of its statements.
StageInv(r) ==
    /\ r.stage = "idle" => r = FreeSlot
    /\ Saving(r) => r.user \in Users /\ r.row \in UserRow /\ r.seen \in Nat
    /\ r.op = "delete" /\ r.stage = "delete" => r.user \in Users
    /\ r.op \in {"create", "httpRegister"} /\ r.stage = "tx" => r.org \in Orgs /\ r.email \in Emails
    /\ r.op = "register" /\ r.stage \in {"domain", "email", "org", "user"} => r.org \in Orgs /\ r.email \in Emails
    /\ r.op \in {"bulkUpdate", "bulkDelete"} /\ r.stage \in {"item", "save"} => r.todo \in Seq(Users) /\ r.todo # <<>>
    /\ r.op = "bulkCreate" =>
          /\ r.results \in Seq(BOOLEAN)
          /\ \/ /\ r.stage = "item" /\ r.org \in Orgs /\ r.todo \in Seq(Emails) /\ r.todo # <<>>
                /\ Len(r.todo) + Len(r.results) = 2
             \/ r.stage = "done" /\ Len(r.results) = 2 /\ (r.answer = "ok" <=> Successes(r) > 0)

\* As long as nobody wrote the row, it is there and the row to be saved differs from it only
\* in the fields the request sets.
SaveInv(p) ==
    LET r == rpc[p]
    IN  Saving(r) =>
            /\ r.seen <= writes[r.user]
            /\ r.seen = writes[r.user] =>
                  users[r.user] # NoRow /\ \A f \in DOMAIN users[r.user] \ r.sets : r.row[f] = users[r.user][f]

\* Organizations stay, and so does who made them.
OrganizationInv(p) ==
    LET r == rpc[p]
    IN  r.op = "updateOrg" /\ r.stage = "save" =>
            r.org \in Orgs /\ r.row \in OrgRow /\ orgs[r.org] # NoRow /\ r.row.by = orgs[r.org].by

\* Who made user u, by its row and by the rows to be saved.
Makers(u) ==
    {b \in Handlers \cup {NoRow} :
        \/ users[u] # NoRow /\ users[u].by = b
        \/ \E q \in Handlers : Saving(rpc[q]) /\ rpc[q].user = u /\ rpc[q].row.by = b}

MadeBy(p) == {u \in Users : p \in Makers(u)}

OrgsOf(p) == {o \in Orgs : orgs[o] # NoRow /\ orgs[o].by = p}

\* What a request has made so far.
MadeInv(p) ==
    LET r == rpc[p]
    IN  /\ r.stage = "idle" => MadeBy(p) = {} /\ OrgsOf(p) = {}
        /\ r.op \in {"create", "httpRegister"} =>
              IF r.stage = "done" /\ r.answer = "ok"
              THEN /\ r.user \in Users /\ writes[r.user] > 0
                   /\ writes[r.user] = 1 => users[r.user] # NoRow /\ users[r.user].by = p
              ELSE MadeBy(p) = {} /\ OrgsOf(p) = {}
        /\ r.op = "bulkCreate" => IsFiniteSet(MadeBy(p)) /\ Cardinality(MadeBy(p)) <= Successes(r)
        /\ r.op = "register" /\ (r.stage \in {"user", "tokens", "readBack"} \/ (r.stage = "done" /\ r.answer = "ok")) =>
              OrgsOf(p) # {}

DirectoryInv ==
    /\ DirectoryShape
    /\ \A u \in Users : \A a, b \in Makers(u) : a = b
    /\ \A p \in Handlers : StageInv(rpc[p]) /\ SaveInv(p) /\ OrganizationInv(p) /\ MadeInv(p)

\* The number of successes goes up with every success.
LEMMA SuccessesGrow ==
    ASSUME NEW r, r.results \in Seq(BOOLEAN)
    PROVE  /\ Successes(r) \in Nat
           /\ Successes(r) > 0 <=> \E i \in DOMAIN r.results : r.results[i]
           /\ \A ok \in BOOLEAN : \A x : x.results = Append(r.results, ok) =>
                 Successes(x) = IF ok THEN Successes(r) + 1 ELSE Successes(r)
<1> DEFINE s == r.results
           T == {i \in DOMAIN s : s[i]}
<1>1. IsFiniteSet(T)
  <2>1. DOMAIN s = 1 .. Len(s) /\ Len(s) \in Nat
    OBVIOUS
  <2>2. IsFiniteSet(1 .. Len(s))
    BY <2>1, FS_Interval
  <2>3. T \subseteq 1 .. Len(s)
    BY <2>1
  <2> QED BY <2>2, <2>3, FS_Subset
<1>2. Successes(r) = Cardinality(T) /\ Cardinality(T) \in Nat
  BY <1>1, FS_CardinalityType DEF Successes
<1>3. Cardinality(T) > 0 <=> T # {}
  BY <1>1, <1>2, FS_EmptySet
<1>4. ASSUME NEW ok \in BOOLEAN, NEW x, x.results = Append(s, ok)
      PROVE  Successes(x) = IF ok THEN Cardinality(T) + 1 ELSE Cardinality(T)
  <2> DEFINE U == {i \in DOMAIN x.results : x.results[i]}
             n == Len(s) + 1
  <2>1. /\ DOMAIN s = 1 .. Len(s) /\ Len(s) \in Nat /\ DOMAIN x.results = 1 .. n
        /\ x.results[n] = ok /\ \A i \in 1 .. Len(s) : x.results[i] = s[i]
    BY <1>4
  <2>2. CASE ok
    <3>1. U = T \cup {n} /\ n \notin T
      <4>1. x.results[n] = TRUE
        BY <2>1, <2>2
      <4>2. \A i : i \in 1 .. n <=> i \in 1 .. Len(s) \/ i = n
        BY <2>1
      <4>3. \A i : i \in U <=> i \in T \/ i = n
        BY <2>1, <4>1, <4>2
      <4>4. n \notin 1 .. Len(s)
        BY <2>1
      <4> QED BY <2>1, <4>3, <4>4
    <3>2. Cardinality(U) = Cardinality(T) + 1
      <4> HIDE DEF U, T, n
      <4> QED BY <1>1, <3>1, FS_AddElement
    <3> QED BY <2>2, <3>2 DEF Successes
  <2>3. CASE ~ok
    <3>1. U = T
      BY <2>1, <2>3
    <3> QED BY <2>3, <3>1 DEF Successes
  <2> QED BY <2>2, <2>3
<1> QED BY <1>2, <1>3, <1>4

\* A step of request p: what it may do to the tables so that the other requests keep their
\* invariants.
LEMMA RequestStep ==
    ASSUME DirectoryInv, NEW p \in Handlers, NEW v, DOMAIN v = RpcFields, rpc' = [rpc EXCEPT ![p] = v],
           users' \in [Users -> UserRow \cup {NoRow}], orgs' \in [Orgs -> OrgRow \cup {NoRow}],
           writes' \in [Users -> Nat],
           \A u \in Users : (users'[u] = users[u] /\ writes'[u] = writes[u]) \/ writes'[u] = writes[u] + 1,
           \A o \in Orgs : IF orgs[o] # NoRow THEN orgs'[o] # NoRow /\ orgs'[o].by = orgs[o].by
                           ELSE orgs'[o] # NoRow => orgs'[o].by = p,
           \A u \in Users : Makers(u)' \subseteq Makers(u) \/ (Makers(u) = {} /\ Makers(u)' \subseteq {p}),
           StageInv(v), SaveInv(p)', OrganizationInv(p)', MadeInv(p)'
    PROVE  DirectoryInv'
<1>1. rpc' = [q \in Handlers |-> rpc'[q]] /\ rpc'[p] = v /\ \A q \in Handlers \ {p} : rpc'[q] = rpc[q]
  BY DEF DirectoryInv, DirectoryShape
<1>2. DirectoryShape'
  BY <1>1 DEF DirectoryInv, DirectoryShape
<1>3. \A u \in Users : \A a, b \in Makers(u)' : a = b
  BY DEF DirectoryInv
<1>4. ASSUME NEW q \in Handlers \ {p}
      PROVE  SaveInv(q)'
  <2>1. SaveInv(q) /\ StageInv(rpc[q]) /\ rpc'[q] = rpc[q] /\ writes \in [Users -> Nat]
    BY <1>1 DEF DirectoryInv, DirectoryShape
  <2>2. Saving(rpc[q]) => rpc[q].user \in Users /\ rpc[q].seen \in Nat
    BY <2>1 DEF StageInv
  <2> QED BY <2>1, <2>2 DEF SaveInv, Saving
<1>5. ASSUME NEW q \in Handlers \ {p}
      PROVE  OrganizationInv(q)'
  <2>1. OrganizationInv(q) /\ rpc'[q] = rpc[q]
    BY <1>1 DEF DirectoryInv
  <2> QED BY <2>1 DEF OrganizationInv
<1>6. ASSUME NEW q \in Handlers \ {p}
      PROVE  MadeInv(q)'
  <2>1. MadeInv(q) /\ rpc'[q] = rpc[q] /\ writes \in [Users -> Nat]
    BY <1>1 DEF DirectoryInv, DirectoryShape
  <2>2. MadeBy(q)' \subseteq MadeBy(q)
    BY DEF MadeBy
  <2>3. OrgsOf(q)' = OrgsOf(q)
    BY DEF OrgsOf
  <2>4. IsFiniteSet(MadeBy(q)) => IsFiniteSet(MadeBy(q)') /\ Cardinality(MadeBy(q)') <= Cardinality(MadeBy(q))
    BY <2>2, FS_Subset
  <2>5. ASSUME rpc[q].op = "bulkCreate"
        PROVE  IsFiniteSet(MadeBy(q)') /\ Cardinality(MadeBy(q)') <= Successes(rpc[q])
    <3>1. IsFiniteSet(MadeBy(q)) /\ Cardinality(MadeBy(q)) <= Successes(rpc[q])
      BY <2>1, <2>5 DEF MadeInv
    <3>2. Cardinality(MadeBy(q)) \in Nat /\ Cardinality(MadeBy(q)') \in Nat
      BY <2>4, <3>1, FS_CardinalityType
    <3>3. Successes(rpc[q]) \in Nat
      <4>1. rpc[q].results \in Seq(BOOLEAN)
        BY <2>5 DEF DirectoryInv, StageInv
      <4> QED BY <4>1, SuccessesGrow
    <3> QED BY <2>4, <3>1, <3>2, <3>3
  <2> QED BY <2>1, <2>2, <2>3, <2>5 DEF MadeInv
<1>7. \A q \in Handlers : StageInv(rpc'[q])
  BY <1>1 DEF DirectoryInv
<1>8. \A q \in Handlers : SaveInv(q)' /\ OrganizationInv(q)' /\ MadeInv(q)'
  BY <1>4, <1>5, <1>6
<1> QED BY <1>2, <1>3, <1>7, <1>8 DEF DirectoryInv

\* A step that touches no table: the request begins, reads, or ends without a change.
LEMMA QuietStep ==
    ASSUME DirectoryInv, NEW p \in Handlers, NEW v, DOMAIN v = RpcFields, rpc' = [rpc EXCEPT ![p] = v],
           UNCHANGED <<users, orgs, writes>>,
           StageInv(v), v.stage # "idle",
           Saving(v) => /\ users[v.user] # NoRow /\ v.row.by = users[v.user].by /\ v.seen = writes[v.user]
                        /\ \A f \in DOMAIN users[v.user] \ v.sets : v.row[f] = users[v.user][f],
           v.op = "updateOrg" /\ v.stage = "save" =>
              v.org \in Orgs /\ v.row \in OrgRow /\ orgs[v.org] # NoRow /\ v.row.by = orgs[v.org].by,
           v.op \in {"create", "httpRegister"} =>
              /\ ~(v.stage = "done" /\ v.answer = "ok")
              /\ rpc[p].stage = "idle" \/ (rpc[p].op = v.op /\ rpc[p].stage # "done"),
           v.op = "bulkCreate" =>
              \/ rpc[p].stage = "idle"
              \/ rpc[p].op = v.op /\ v.results = Append(rpc[p].results, FALSE),
           v.op = "register" /\ (v.stage \in {"user", "tokens", "readBack"} \/ (v.stage = "done" /\ v.answer = "ok")) =>
              rpc[p].op = "register" /\ rpc[p].stage \in {"user", "tokens", "readBack"}
    PROVE  DirectoryInv'
<1>1. rpc'[p] = v /\ \A q \in Handlers \ {p} : rpc'[q] = rpc[q]
  BY DEF DirectoryInv, DirectoryShape
<1>2. /\ users \in [Users -> UserRow \cup {NoRow}] /\ orgs \in [Orgs -> OrgRow \cup {NoRow}]
      /\ writes \in [Users -> Nat]
  BY DEF DirectoryInv, DirectoryShape
<1>3. ASSUME NEW u \in Users
      PROVE  Makers(u)' \subseteq Makers(u)
  <2> SUFFICES ASSUME NEW b \in Makers(u)'
               PROVE  b \in Makers(u)
    OBVIOUS
  <2>1. b \in Handlers \cup {NoRow}
    BY DEF Makers
  <2>2. CASE users[u] # NoRow /\ users[u].by = b
    BY <2>1, <2>2 DEF Makers
  <2>3. CASE ~(users[u] # NoRow /\ users[u].by = b)
    <3>1. PICK q \in Handlers : Saving(rpc'[q]) /\ rpc'[q].user = u /\ rpc'[q].row.by = b
      BY <2>3 DEF Makers, Saving
    <3>2. CASE q = p
      BY <1>1, <2>3, <3>1, <3>2
    <3>3. CASE q # p
      BY <1>1, <2>1, <3>1, <3>3 DEF Makers
    <3> QED BY <3>2, <3>3
  <2> QED BY <2>2, <2>3
<1>4. SaveInv(p)'
  <2>1. Saving(v) => v.user \in Users /\ v.seen \in Nat
    BY DEF StageInv
  <2> QED BY <1>1, <1>2, <2>1 DEF SaveInv, Saving
<1>5. OrganizationInv(p)'
  BY <1>1 DEF OrganizationInv
<1>6. MadeBy(p)' \subseteq MadeBy(p) /\ OrgsOf(p)' = OrgsOf(p) /\ MadeInv(p) /\ StageInv(rpc[p])
  BY <1>3 DEF MadeBy, OrgsOf, DirectoryInv
<1>7. MadeInv(p)'
  <2>1. ASSUME v.op \in {"create", "httpRegister"}
        PROVE  MadeBy(p)' = {} /\ OrgsOf(p)' = {}
    BY <1>6, <2>1 DEF MadeInv
  <2>2. ASSUME v.op = "bulkCreate"
        PROVE  IsFiniteSet(MadeBy(p)') /\ Cardinality(MadeBy(p)') <= Successes(v)
    <3>1. v.results \in Seq(BOOLEAN)
      BY <2>2 DEF StageInv
    <3>2. Successes(v) \in Nat
      BY <3>1, SuccessesGrow
    <3>3. CASE rpc[p].stage = "idle"
      <4>1. MadeBy(p)' = {}
        BY <1>6, <3>3 DEF MadeInv
      <4> QED BY <3>2, <4>1, FS_EmptySet
    <3>4. CASE rpc[p].op = v.op /\ v.results = Append(rpc[p].results, FALSE)
      <4>1. rpc[p].results \in Seq(BOOLEAN) /\ IsFiniteSet(MadeBy(p)) /\ Cardinality(MadeBy(p)) <= Successes(rpc[p])
        BY <1>6, <2>2, <3>4 DEF MadeInv, StageInv
      <4>2. Successes(v) = Successes(rpc[p]) /\ Successes(rpc[p]) \in Nat
        BY <3>4, <4>1, SuccessesGrow
      <4>3. IsFiniteSet(MadeBy(p)') /\ Cardinality(MadeBy(p)') <= Cardinality(MadeBy(p))
        BY <1>6, <4>1, FS_Subset
      <4>4. Cardinality(MadeBy(p)') \in Nat /\ Cardinality(MadeBy(p)) \in Nat
        BY <4>1, <4>3, FS_CardinalityType
      <4> QED BY <4>1, <4>2, <4>3, <4>4
    <3> QED BY <2>2, <3>3, <3>4
  <2>3. v.op = "register" /\ (v.stage \in {"user", "tokens", "readBack"} \/ (v.stage = "done" /\ v.answer = "ok")) =>
           OrgsOf(p)' # {}
    BY <1>6 DEF MadeInv
  <2> QED BY <1>1, <2>1, <2>2, <2>3 DEF MadeInv
<1>8. /\ \A u \in Users : users'[u] = users[u] /\ writes'[u] = writes[u]
      /\ \A o \in Orgs : IF orgs[o] # NoRow THEN orgs'[o] # NoRow /\ orgs'[o].by = orgs[o].by
                         ELSE orgs'[o] # NoRow => orgs'[o].by = p
  OBVIOUS
<1> QED BY <1>2, <1>3, <1>4, <1>5, <1>7, <1>8, RequestStep

\* The fields of a request that begins.
LEMMA BegunCall ==
    ASSUME DirectoryInv, NEW p \in Handlers, NEW op, NEW fields, BeginCall(p, op, fields),
           DOMAIN fields \subseteq RpcFields \ {"op"}
    PROVE  \E v : /\ DOMAIN v = RpcFields /\ rpc' = [rpc EXCEPT ![p] = v] /\ v.op = op /\ rpc[p].stage = "idle"
                  /\ \A f \in DOMAIN fields : v[f] = fields[f]
                  /\ \A f \in RpcFields \ ({"op"} \cup DOMAIN fields) : v[f] = FreeSlot[f]
<1> DEFINE v == With(With(rpc[p], fields), [op |-> op])
<1>1. rpc[p].stage = "idle" /\ rpc' = [rpc EXCEPT ![p] = v] /\ DOMAIN rpc[p] = RpcFields
  BY DEF BeginCall, DirectoryInv, DirectoryShape
<1>2. rpc[p] = FreeSlot
  BY <1>1 DEF DirectoryInv, StageInv
<1>3. /\ DOMAIN v = RpcFields /\ v.op = op
      /\ \A f \in DOMAIN fields : v[f] = fields[f]
      /\ \A f \in RpcFields \ ({"op"} \cup DOMAIN fields) : v[f] = rpc[p][f]
  BY <1>1 DEF With, RpcFields
<1> HIDE DEF v
<1> QED BY <1>1, <1>2, <1>3

\* The fields of a request that goes on.
LEMMA ContinuedCall ==
    ASSUME DirectoryInv, NEW p \in Handlers, NEW fields, Continue(p, fields), DOMAIN fields \subseteq RpcFields
    PROVE  \E v : /\ DOMAIN v = RpcFields /\ rpc' = [rpc EXCEPT ![p] = v]
                  /\ \A f \in DOMAIN fields : v[f] = fields[f]
                  /\ \A f \in RpcFields \ DOMAIN fields : v[f] = rpc[p][f]
<1> DEFINE v == With(rpc[p], fields)
<1>1. rpc' = [rpc EXCEPT ![p] = v] /\ DOMAIN rpc[p] = RpcFields
  BY DEF Continue, DirectoryInv, DirectoryShape
<1>2. /\ DOMAIN v = RpcFields
      /\ \A f \in DOMAIN fields : v[f] = fields[f]
      /\ \A f \in RpcFields \ DOMAIN fields : v[f] = rpc[p][f]
  BY <1>1 DEF With
<1> HIDE DEF v
<1> QED BY <1>1, <1>2

\* A request that is done and is no bulk creation.
LEMMA DoneStage == ASSUME NEW v, v.stage = "done", v.op # "bulkCreate" PROVE StageInv(v) /\ ~Saving(v)
BY DEF StageInv, Saving

\* A handler answers without a change of the tables.
LEMMA ReplyKeeps ==
    ASSUME DirectoryInv, NEW p \in Handlers, NEW a, ReplyTo(p, a), rpc[p].op # "bulkCreate",
           rpc[p].stage # "done",
           a = "ok" /\ rpc[p].op \in {"create", "httpRegister", "register"} =>
              rpc[p].op = "register" /\ rpc[p].stage = "readBack"
    PROVE  DirectoryInv'
<1> DEFINE f == [stage |-> "done", answer |-> a]
<1>1. Continue(p, f) /\ DOMAIN f \subseteq RpcFields /\ UNCHANGED <<users, orgs, writes>>
  BY DEF ReplyTo, AnswerCall, RpcFields, tables
<1>2. PICK v : /\ DOMAIN v = RpcFields /\ rpc' = [rpc EXCEPT ![p] = v]
               /\ \A x \in DOMAIN f : v[x] = f[x]
               /\ \A x \in RpcFields \ DOMAIN f : v[x] = rpc[p][x]
  BY <1>1, ContinuedCall
<1>3. v.stage = "done" /\ v.answer = a /\ v.op = rpc[p].op
  BY <1>2 DEF RpcFields
<1>4. StageInv(v) /\ ~Saving(v)
  BY <1>3, DoneStage
<1> QED BY <1>1, <1>2, <1>3, <1>4, QuietStep

\* A creation begins.
LEMMA BeginCreate ==
    ASSUME DirectoryInv, NEW p \in Handlers, NEW op \in {"create", "httpRegister"}, NEW o \in Orgs, NEW e \in Emails,
           BeginCall(p, op, [stage |-> "tx", org |-> o, email |-> e]), UNCHANGED <<tables, cache>>
    PROVE  DirectoryInv'
<1> DEFINE f == [stage |-> "tx", org |-> o, email |-> e]
<1>1. BeginCall(p, op, f) /\ DOMAIN f \subseteq RpcFields \ {"op"} /\ UNCHANGED <<users, orgs, writes>>
  BY DEF RpcFields, tables
<1>2. PICK v : /\ DOMAIN v = RpcFields /\ rpc' = [rpc EXCEPT ![p] = v] /\ v.op = op /\ rpc[p].stage = "idle"
               /\ \A x \in DOMAIN f : v[x] = f[x]
               /\ \A x \in RpcFields \ ({"op"} \cup DOMAIN f) : v[x] = FreeSlot[x]
  BY <1>1, BegunCall
<1>3. v.stage = "tx" /\ v.org = o /\ v.email = e
  BY <1>2 DEF RpcFields, FreeSlot
<1>4. StageInv(v) /\ ~Saving(v)
  BY <1>2, <1>3 DEF StageInv, Saving, UserUpdates, HttpUpdates
<1> QED BY <1>1, <1>2, <1>3, <1>4, QuietStep

\* A registration begins.
LEMMA BeginRegister ==
    ASSUME DirectoryInv, NEW p \in Handlers, NEW o \in Orgs, NEW e \in Emails,
           BeginCall(p, "register", [stage |-> "domain", org |-> o, email |-> e]), UNCHANGED <<tables, cache>>
    PROVE  DirectoryInv'
<1> DEFINE f == [stage |-> "domain", org |-> o, email |-> e]
<1>1. BeginCall(p, "register", f) /\ DOMAIN f \subseteq RpcFields \ {"op"} /\ UNCHANGED <<users, orgs, writes>>
  BY DEF RpcFields, tables
<1>2. PICK v : /\ DOMAIN v = RpcFields /\ rpc' = [rpc EXCEPT ![p] = v] /\ v.op = "register" /\ rpc[p].stage = "idle"
               /\ \A x \in DOMAIN f : v[x] = f[x]
               /\ \A x \in RpcFields \ ({"op"} \cup DOMAIN f) : v[x] = FreeSlot[x]
  BY <1>1, BegunCall
<1>3. v.stage = "domain" /\ v.org = o /\ v.email = e
  BY <1>2 DEF RpcFields, FreeSlot
<1>4. StageInv(v) /\ ~Saving(v)
  BY <1>2, <1>3 DEF StageInv, Saving, UserUpdates, HttpUpdates
<1> QED BY <1>1, <1>2, <1>3, <1>4, QuietStep

\* A deletion begins.
LEMMA BeginDelete ==
    ASSUME DirectoryInv, NEW p \in Handlers, NEW u \in Users, NEW o,
           BeginCall(p, "delete", [stage |-> "delete", user |-> u, org |-> o]), UNCHANGED <<tables, cache>>
    PROVE  DirectoryInv'
<1> DEFINE f == [stage |-> "delete", user |-> u, org |-> o]
<1>1. BeginCall(p, "delete", f) /\ DOMAIN f \subseteq RpcFields \ {"op"} /\ UNCHANGED <<users, orgs, writes>>
  BY DEF RpcFields, tables
<1>2. PICK v : /\ DOMAIN v = RpcFields /\ rpc' = [rpc EXCEPT ![p] = v] /\ v.op = "delete" /\ rpc[p].stage = "idle"
               /\ \A x \in DOMAIN f : v[x] = f[x]
               /\ \A x \in RpcFields \ ({"op"} \cup DOMAIN f) : v[x] = FreeSlot[x]
  BY <1>1, BegunCall
<1>3. v.stage = "delete" /\ v.user = u
  BY <1>2 DEF RpcFields, FreeSlot
<1>4. StageInv(v) /\ ~Saving(v)
  BY <1>2, <1>3 DEF StageInv, Saving, UserUpdates, HttpUpdates
<1> QED BY <1>1, <1>2, <1>3, <1>4, QuietStep

\* A report begins.
LEMMA BeginReport ==
    ASSUME DirectoryInv, NEW p \in Handlers, NEW op \in Reports, NEW o, NEW page,
           BeginCall(p, op, [stage |-> "count", org |-> o, seen |-> revision, row |-> page]), UNCHANGED <<tables, cache>>
    PROVE  DirectoryInv'
<1> DEFINE f == [stage |-> "count", org |-> o, seen |-> revision, row |-> page]
<1>1. BeginCall(p, op, f) /\ DOMAIN f \subseteq RpcFields \ {"op"} /\ UNCHANGED <<users, orgs, writes>>
  BY DEF RpcFields, tables
<1>2. PICK v : /\ DOMAIN v = RpcFields /\ rpc' = [rpc EXCEPT ![p] = v] /\ v.op = op /\ rpc[p].stage = "idle"
               /\ \A x \in DOMAIN f : v[x] = f[x]
               /\ \A x \in RpcFields \ ({"op"} \cup DOMAIN f) : v[x] = FreeSlot[x]
  BY <1>1, BegunCall
<1>3. v.stage = "count" /\ v.op \notin {"create", "httpRegister", "register", "updateOrg", "bulkCreate"}
  BY <1>2 DEF RpcFields, FreeSlot, Reports
<1>4. StageInv(v) /\ ~Saving(v)
  BY <1>2, <1>3 DEF StageInv, Saving, UserUpdates, HttpUpdates, Reports
<1> QED BY <1>1, <1>2, <1>3, <1>4, QuietStep

\* The cache had no entry for the organization.
LEMMA BeginGetOrganization ==
    ASSUME DirectoryInv, NEW p \in Handlers, NEW o,
           BeginCall(p, "getOrg", [stage |-> "read", org |-> o, seen |-> revision]), UNCHANGED <<tables, cache>>
    PROVE  DirectoryInv'
<1> DEFINE f == [stage |-> "read", org |-> o, seen |-> revision]
<1>1. BeginCall(p, "getOrg", f) /\ DOMAIN f \subseteq RpcFields \ {"op"} /\ UNCHANGED <<users, orgs, writes>>
  BY DEF RpcFields, tables
<1>2. PICK v : /\ DOMAIN v = RpcFields /\ rpc' = [rpc EXCEPT ![p] = v] /\ v.op = "getOrg" /\ rpc[p].stage = "idle"
               /\ \A x \in DOMAIN f : v[x] = f[x]
               /\ \A x \in RpcFields \ ({"op"} \cup DOMAIN f) : v[x] = FreeSlot[x]
  BY <1>1, BegunCall
<1>3. v.stage = "read"
  BY <1>2 DEF RpcFields, FreeSlot
<1>4. StageInv(v) /\ ~Saving(v)
  BY <1>2, <1>3 DEF StageInv, Saving, UserUpdates, HttpUpdates
<1> QED BY <1>1, <1>2, <1>3, <1>4, QuietStep

\* A bulk update or deletion begins.
LEMMA BeginBulk ==
    ASSUME DirectoryInv, NEW p \in Handlers, NEW op \in {"bulkUpdate", "bulkDelete"}, NEW o, NEW items \in Seq(Users), items # <<>>,
           BeginCall(p, op, [stage |-> "item", org |-> o, todo |-> items]), UNCHANGED <<tables, cache>>
    PROVE  DirectoryInv'
<1> DEFINE f == [stage |-> "item", org |-> o, todo |-> items]
<1>1. BeginCall(p, op, f) /\ DOMAIN f \subseteq RpcFields \ {"op"} /\ UNCHANGED <<users, orgs, writes>>
  BY DEF RpcFields, tables
<1>2. PICK v : /\ DOMAIN v = RpcFields /\ rpc' = [rpc EXCEPT ![p] = v] /\ v.op = op /\ rpc[p].stage = "idle"
               /\ \A x \in DOMAIN f : v[x] = f[x]
               /\ \A x \in RpcFields \ ({"op"} \cup DOMAIN f) : v[x] = FreeSlot[x]
  BY <1>1, BegunCall
<1>3. v.stage = "item" /\ v.todo = items
  BY <1>2 DEF RpcFields, FreeSlot
<1>4. StageInv(v) /\ ~Saving(v)
  BY <1>2, <1>3 DEF StageInv, Saving, UserUpdates, HttpUpdates
<1> QED BY <1>1, <1>2, <1>3, <1>4, QuietStep

\* A bulk creation begins.
LEMMA BeginBulkCreate ==
    ASSUME DirectoryInv, NEW p \in Handlers, NEW o \in Orgs, NEW items \in Seq(Emails), Len(items) = 2,
           BeginCall(p, "bulkCreate", [stage |-> "item", org |-> o, todo |-> items]), UNCHANGED <<tables, cache>>
    PROVE  DirectoryInv'
<1> DEFINE f == [stage |-> "item", org |-> o, todo |-> items]
<1>1. BeginCall(p, "bulkCreate", f) /\ DOMAIN f \subseteq RpcFields \ {"op"} /\ UNCHANGED <<users, orgs, writes>>
  BY DEF RpcFields, tables
<1>2. PICK v : /\ DOMAIN v = RpcFields /\ rpc' = [rpc EXCEPT ![p] = v] /\ v.op = "bulkCreate" /\ rpc[p].stage = "idle"
               /\ \A x \in DOMAIN f : v[x] = f[x]
               /\ \A x \in RpcFields \ ({"op"} \cup DOMAIN f) : v[x] = FreeSlot[x]
  BY <1>1, BegunCall
<1>3. v.stage = "item" /\ v.todo = items /\ v.org = o /\ v.results = <<>>
  BY <1>2 DEF RpcFields, FreeSlot
<1>5. <<>> \in Seq(BOOLEAN) /\ Len(<<>>) = 0 /\ items # <<>>
  OBVIOUS
<1>4. StageInv(v) /\ ~Saving(v)
  BY <1>2, <1>3, <1>5 DEF StageInv, Saving, UserUpdates, HttpUpdates
<1> QED BY <1>1, <1>2, <1>3, <1>4, QuietStep

\* A request is answered from what it reads first.
LEMMA BeginDone ==
    ASSUME DirectoryInv, NEW p \in Handlers, NEW op, NEW fields, BeginCall(p, op, fields), UNCHANGED <<tables, cache>>,
           DOMAIN fields \subseteq RpcFields \ {"op"}, "stage" \in DOMAIN fields, fields.stage = "done",
           op \notin {"create", "register", "bulkCreate"},
           op = "httpRegister" => "answer" \in DOMAIN fields /\ fields.answer = "conflict"
    PROVE  DirectoryInv'
<1>1. UNCHANGED <<users, orgs, writes>>
  BY DEF tables
<1>2. PICK v : /\ DOMAIN v = RpcFields /\ rpc' = [rpc EXCEPT ![p] = v] /\ v.op = op /\ rpc[p].stage = "idle"
               /\ \A x \in DOMAIN fields : v[x] = fields[x]
               /\ \A x \in RpcFields \ ({"op"} \cup DOMAIN fields) : v[x] = FreeSlot[x]
  BY BegunCall
<1>3. v.stage = "done" /\ (op = "httpRegister" => v.answer = "conflict")
  BY <1>2
<1>4. StageInv(v) /\ ~Saving(v)
  BY <1>2, <1>3, DoneStage
<1> QED BY <1>1, <1>2, <1>3, <1>4, QuietStep

\* A row with some of its fields set by an update is a row by the same maker.
LEMMA ChangedRow ==
    ASSUME NEW row \in UserRow, NEW changes,
           changes \in UpdateChanges \cup {[active |-> TRUE], [active |-> FALSE], [verified |-> TRUE], [name |-> 1], [password |-> 1]}
    PROVE  /\ With(row, changes) \in UserRow /\ With(row, changes).by = row.by
           /\ \A f \in DOMAIN row \ DOMAIN changes : With(row, changes)[f] = row[f]
<1> DEFINE w == With(row, changes)
           F == {"org", "email", "active", "verified", "name", "password", "by"}
<1>1. DOMAIN row = F
  BY DEF UserRow
<1>2. /\ row.org \in Orgs /\ row.email \in Emails /\ row.active \in BOOLEAN /\ row.verified \in BOOLEAN
      /\ row.name \in 0 .. 1 /\ row.password \in 0 .. 1 /\ row.by \in Handlers \cup {NoRow}
  BY DEF UserRow
<1>3. /\ DOMAIN changes \subseteq {"active", "verified", "name", "password", "email"}
      /\ "active" \in DOMAIN changes => changes.active \in BOOLEAN
      /\ "verified" \in DOMAIN changes => changes.verified \in BOOLEAN
      /\ "name" \in DOMAIN changes => changes.name \in 0 .. 1
      /\ "password" \in DOMAIN changes => changes.password \in 0 .. 1
      /\ "email" \in DOMAIN changes => changes.email \in Emails
  <2>1. CASE changes \in [active : BOOLEAN, verified : BOOLEAN]
    BY <2>1
  <2>2. CASE changes \in [active : {TRUE}, verified : {TRUE}, email : Emails]
    BY <2>2
  <2>3. CASE changes = [active |-> TRUE]
    BY <2>3
  <2>4. CASE changes = [active |-> FALSE]
    BY <2>4
  <2>5. CASE changes = [verified |-> TRUE]
    BY <2>5
  <2>6. CASE changes = [name |-> 1]
    BY <2>6
  <2>7. CASE changes = [password |-> 1]
    BY <2>7
  <2> QED BY <2>1, <2>2, <2>3, <2>4, <2>5, <2>6, <2>7 DEF UpdateChanges
<1>4. w = [f \in F |-> IF f \in DOMAIN changes THEN changes[f] ELSE row[f]]
  BY <1>1, <1>3 DEF With
<1> HIDE DEF w
<1>5. /\ w.org \in Orgs /\ w.email \in Emails /\ w.active \in BOOLEAN /\ w.verified \in BOOLEAN
      /\ w.name \in 0 .. 1 /\ w.password \in 0 .. 1 /\ w.by = row.by
  BY <1>2, <1>3, <1>4
<1>6. w \in UserRow
  <2>1. w = [org |-> w.org, email |-> w.email, active |-> w.active, verified |-> w.verified,
             name |-> w.name, password |-> w.password, by |-> w.by]
    BY <1>4
  <2> QED BY <1>2, <1>5, <2>1 DEF UserRow
<1> QED BY <1>1, <1>4, <1>5, <1>6 DEF w

\* A request reads the row it is going to save.
LEMMA ReadForSaveKeeps ==
    ASSUME DirectoryInv, NEW p \in Handlers, NEW op \in UserUpdates, NEW u \in Users, NEW changes, NEW fields,
           changes \in UpdateChanges \cup {[active |-> TRUE], [active |-> FALSE], [verified |-> TRUE], [name |-> 1], [password |-> 1]},
           DOMAIN fields \subseteq {"roles"},
           ReadForSave(p, op, u, changes, fields)
    PROVE  DirectoryInv'
<1>1. UNCHANGED <<tables, cache>> /\ UNCHANGED <<users, orgs, writes>> /\ users[u] \in UserRow \cup {NoRow}
      /\ writes[u] \in Nat
  BY DEF ReadForSave, tables, DirectoryInv, DirectoryShape
<1>2. op \notin {"create", "register", "bulkCreate", "httpRegister", "updateOrg", "delete", "bulkUpdate", "bulkDelete"}
  BY DEF UserUpdates, HttpUpdates
<1>3. CASE users[u] = NoRow
  <2> DEFINE f == [stage |-> "done", answer |-> "notFound", user |-> u]
  <2>1. BeginCall(p, op, f) /\ DOMAIN f \subseteq RpcFields \ {"op"} /\ "stage" \in DOMAIN f /\ f.stage = "done"
    BY <1>3 DEF ReadForSave, RpcFields
  <2> HIDE DEF f
  <2> QED BY <1>1, <1>2, <2>1, BeginDone
<1>4. CASE users[u] # NoRow
  <2> DEFINE row == With(users[u], changes)
             g == [stage |-> "save", user |-> u, row |-> row, sets |-> DOMAIN changes, seen |-> writes[u]]
             f == With(g, fields)
  <2>1. users[u] \in UserRow
    BY <1>1, <1>4
  <2>2. /\ row \in UserRow /\ row.by = users[u].by
        /\ \A x \in DOMAIN users[u] \ DOMAIN changes : row[x] = users[u][x]
    BY <2>1, ChangedRow
  <2>3. BeginCall(p, op, f)
    BY <1>4 DEF ReadForSave
  <2> HIDE DEF row
  <2>4. /\ DOMAIN f \subseteq RpcFields \ {"op"} /\ {"stage", "user", "row", "sets", "seen"} \subseteq DOMAIN f
        /\ f.stage = "save" /\ f.user = u /\ f.row = row /\ f.sets = DOMAIN changes /\ f.seen = writes[u]
    BY DEF With, RpcFields
  <2> HIDE DEF f
  <2>5. PICK v : /\ DOMAIN v = RpcFields /\ rpc' = [rpc EXCEPT ![p] = v] /\ v.op = op /\ rpc[p].stage = "idle"
                 /\ \A x \in DOMAIN f : v[x] = f[x]
                 /\ \A x \in RpcFields \ ({"op"} \cup DOMAIN f) : v[x] = FreeSlot[x]
    BY <2>3, <2>4, BegunCall
  <2>6. v.stage = "save" /\ v.user = u /\ v.row = row /\ v.sets = DOMAIN changes /\ v.seen = writes[u]
    BY <2>4, <2>5
  <2>7. StageInv(v)
    BY <1>1, <1>2, <2>2, <2>5, <2>6 DEF StageInv
  <2> QED BY <1>1, <1>2, <1>4, <2>2, <2>5, <2>6, <2>7, QuietStep
<1> QED BY <1>3, <1>4

\* UpdateOrganization reads the row it is going to save.
LEMMA UpdateOrganizationKeeps ==
    ASSUME DirectoryInv, NEW p \in Handlers, NEW o \in Orgs, UpdateOrganization(p, o)
    PROVE  DirectoryInv'
<1>1. UNCHANGED <<tables, cache>> /\ UNCHANGED <<users, orgs, writes>> /\ orgs[o] \in OrgRow \cup {NoRow}
  BY DEF UpdateOrganization, tables, DirectoryInv, DirectoryShape
<1>2. PICK row \in OrgRow : BeginCall(p, "updateOrg", IF orgs[o] = NoRow
                                THEN [stage |-> "done", answer |-> "notFound"]
                                ELSE [stage |-> "save", org |-> o, row |-> [row EXCEPT !.by = orgs[o].by]])
  BY DEF UpdateOrganization
<1>3. CASE orgs[o] = NoRow
  <2> DEFINE f == [stage |-> "done", answer |-> "notFound"]
  <2>1. BeginCall(p, "updateOrg", f) /\ DOMAIN f \subseteq RpcFields \ {"op"} /\ "stage" \in DOMAIN f /\ f.stage = "done"
    BY <1>2, <1>3 DEF RpcFields
  <2> HIDE DEF f
  <2> QED BY <1>1, <2>1, BeginDone
<1>4. CASE orgs[o] # NoRow
  <2> DEFINE w == [row EXCEPT !.by = orgs[o].by]
             f == [stage |-> "save", org |-> o, row |-> w]
  <2>1. w \in OrgRow /\ w.by = orgs[o].by
    BY <1>1, <1>4 DEF OrgRow
  <2>2. BeginCall(p, "updateOrg", f)
    BY <1>2, <1>4
  <2> HIDE DEF w
  <2>3. DOMAIN f \subseteq RpcFields \ {"op"}
    BY DEF RpcFields
  <2>4. PICK v : /\ DOMAIN v = RpcFields /\ rpc' = [rpc EXCEPT ![p] = v] /\ v.op = "updateOrg" /\ rpc[p].stage = "idle"
                 /\ \A x \in DOMAIN f : v[x] = f[x]
                 /\ \A x \in RpcFields \ ({"op"} \cup DOMAIN f) : v[x] = FreeSlot[x]
    BY <2>2, <2>3, BegunCall
  <2>5. v.stage = "save" /\ v.org = o /\ v.row = w
    BY <2>4
  <2>6. StageInv(v) /\ ~Saving(v)
    BY <2>4, <2>5 DEF StageInv, Saving, UserUpdates, HttpUpdates
  <2> QED BY <1>1, <1>4, <2>1, <2>4, <2>5, <2>6, QuietStep
<1> QED BY <1>3, <1>4

\* What the save of a row keeps: the row is by the maker of the row that was read.
LEMMA SavedRow ==
    ASSUME NEW row \in UserRow, NEW u
    PROVE  Saved(u, row) \in UserRow /\ Saved(u, row).by = row.by /\ Saved(u, row) # NoRow
<1>1. [row EXCEPT !.active = TRUE] \in UserRow /\ [row EXCEPT !.active = TRUE].by = row.by
  BY DEF UserRow
<1>2. Saved(u, row) \in UserRow /\ Saved(u, row).by = row.by
  BY <1>1 DEF Saved
<1> QED BY <1>2, DirectoryAssumption

\* A request saves its row and goes on.
LEMMA SaveStep ==
    ASSUME DirectoryInv, NEW p \in Handlers, Saving(rpc[p]), Write(rpc[p].user, Saved(rpc[p].user, rpc[p].row)),
           UNCHANGED orgs, NEW v, DOMAIN v = RpcFields, rpc' = [rpc EXCEPT ![p] = v],
           v.op \in UserUpdates \cup {"bulkUpdate"}, v.stage \notin {"idle", "save"}, StageInv(v)
    PROVE  DirectoryInv'
<1>1. PICK u \in Users : u = rpc[p].user
  BY DEF DirectoryInv, StageInv
<1>2. PICK row \in UserRow : row = rpc[p].row
  BY DEF DirectoryInv, StageInv
<1>3. /\ users \in [Users -> UserRow \cup {NoRow}] /\ orgs \in [Orgs -> OrgRow \cup {NoRow}]
      /\ writes \in [Users -> Nat]
      /\ rpc'[p] = v /\ \A q \in Handlers \ {p} : rpc'[q] = rpc[q]
  BY DEF DirectoryInv, DirectoryShape
<1>4. PICK w \in UserRow : w = Saved(u, row) /\ w.by = row.by
  BY SavedRow
<1>5. users' = [users EXCEPT ![u] = w] /\ writes' = [writes EXCEPT ![u] = @ + 1]
  BY <1>1, <1>2, <1>4 DEF Write
<1>6. ~Saving(v) /\ v.op \notin {"create", "httpRegister", "register", "bulkCreate", "updateOrg"}
  BY DEF Saving, UserUpdates, HttpUpdates
<1>7. ASSUME NEW x \in Users
      PROVE  Makers(x)' \subseteq Makers(x)
  <2> SUFFICES ASSUME NEW b \in Makers(x)'
               PROVE  b \in Makers(x)
    OBVIOUS
  <2>1. b \in Handlers \cup {NoRow}
    BY DEF Makers
  <2>2. CASE users'[x] # NoRow /\ users'[x].by = b
    <3>1. CASE x = u
      <4>1. Saving(rpc[p]) /\ rpc[p].user = x /\ rpc[p].row.by = b
        BY <1>1, <1>2, <1>3, <1>4, <1>5, <2>2, <3>1
      <4> QED BY <2>1, <4>1 DEF Makers
    <3>2. CASE x # u
      <4>1. users[x] # NoRow /\ users[x].by = b
        BY <1>3, <1>5, <2>2, <3>2
      <4> QED BY <2>1, <4>1 DEF Makers
    <3> QED BY <3>1, <3>2
  <2>3. CASE ~(users'[x] # NoRow /\ users'[x].by = b)
    <3>1. PICK q \in Handlers : Saving(rpc'[q]) /\ rpc'[q].user = x /\ rpc'[q].row.by = b
      BY <2>3 DEF Makers, Saving
    <3>2. q # p
      BY <1>3, <1>6, <3>1
    <3> QED BY <1>3, <2>1, <3>1, <3>2 DEF Makers
  <2> QED BY <2>2, <2>3
<1>8. SaveInv(p)' /\ OrganizationInv(p)' /\ MadeInv(p)'
  BY <1>3, <1>6 DEF SaveInv, OrganizationInv, MadeInv, Saving
<1>9. /\ users' \in [Users -> UserRow \cup {NoRow}] /\ writes' \in [Users -> Nat] /\ orgs' \in [Orgs -> OrgRow \cup {NoRow}]
      /\ \A x \in Users : (users'[x] = users[x] /\ writes'[x] = writes[x]) \/ writes'[x] = writes[x] + 1
      /\ \A o \in Orgs : IF orgs[o] # NoRow THEN orgs'[o] # NoRow /\ orgs'[o].by = orgs[o].by
                         ELSE orgs'[o] # NoRow => orgs'[o].by = p
  BY <1>3, <1>5
<1> QED BY <1>7, <1>8, <1>9, RequestStep

\* A request deletes a row, if it is there, and goes on.
LEMMA DeleteStep ==
    ASSUME DirectoryInv, NEW p \in Handlers, NEW u \in Users, Delete(u), UNCHANGED orgs,
           NEW v, DOMAIN v = RpcFields, rpc' = [rpc EXCEPT ![p] = v],
           v.op \in {"delete", "bulkDelete"}, v.stage # "idle", StageInv(v)
    PROVE  DirectoryInv'
<1>1. /\ users \in [Users -> UserRow \cup {NoRow}] /\ orgs \in [Orgs -> OrgRow \cup {NoRow}]
      /\ writes \in [Users -> Nat]
      /\ rpc'[p] = v /\ \A q \in Handlers \ {p} : rpc'[q] = rpc[q]
  BY DEF DirectoryInv, DirectoryShape
<1>2. \/ users' = users /\ writes' = writes
      \/ users' = [users EXCEPT ![u] = NoRow] /\ writes' = [writes EXCEPT ![u] = @ + 1]
  BY DEF Delete, Write
<1>3. /\ users' \in [Users -> UserRow \cup {NoRow}] /\ writes' \in [Users -> Nat] /\ orgs' \in [Orgs -> OrgRow \cup {NoRow}]
      /\ \A x \in Users : (users'[x] = users[x] /\ writes'[x] = writes[x]) \/ writes'[x] = writes[x] + 1
      /\ \A x \in Users : users'[x] # NoRow => users'[x] = users[x]
      /\ \A o \in Orgs : IF orgs[o] # NoRow THEN orgs'[o] # NoRow /\ orgs'[o].by = orgs[o].by
                         ELSE orgs'[o] # NoRow => orgs'[o].by = p
  BY <1>1, <1>2
<1>4. ~Saving(v)
  BY DEF Saving, UserUpdates, HttpUpdates
<1>5. ASSUME NEW x \in Users
      PROVE  Makers(x)' \subseteq Makers(x)
  <2> SUFFICES ASSUME NEW b \in Makers(x)'
               PROVE  b \in Makers(x)
    OBVIOUS
  <2>1. b \in Handlers \cup {NoRow}
    BY DEF Makers
  <2>2. CASE users'[x] # NoRow /\ users'[x].by = b
    BY <1>3, <2>1, <2>2 DEF Makers
  <2>3. CASE ~(users'[x] # NoRow /\ users'[x].by = b)
    <3>1. PICK q \in Handlers : Saving(rpc'[q]) /\ rpc'[q].user = x /\ rpc'[q].row.by = b
      BY <2>3 DEF Makers, Saving
    <3>2. q # p
      BY <1>1, <1>4, <3>1
    <3> QED BY <1>1, <2>1, <3>1, <3>2 DEF Makers
  <2> QED BY <2>2, <2>3
<1>6. SaveInv(p)' /\ OrganizationInv(p)' /\ MadeInv(p)'
  BY <1>1, <1>4 DEF SaveInv, OrganizationInv, MadeInv, Saving
<1> QED BY <1>3, <1>5, <1>6, RequestStep

\* An id that was never used has no maker.
LEMMA FreshHasNoMaker ==
    ASSUME DirectoryInv, NEW u \in FreshUsers
    PROVE  u \in Users /\ users[u] = NoRow /\ writes[u] = 0 /\ Makers(u) = {}
<1>1. u \in Users /\ users[u] = NoRow /\ writes[u] = 0
  BY DEF FreshUsers
<1>2. ASSUME NEW q \in Handlers, Saving(rpc[q]), rpc[q].user = u
      PROVE  FALSE
  <2>1. SaveInv(q) /\ rpc[q].seen \in Nat
    BY <1>2 DEF DirectoryInv, StageInv
  <2> QED BY <1>1, <1>2, <2>1 DEF SaveInv
<1> QED BY <1>1, <1>2 DEF Makers

\* A request inserts a user with a new id and goes on.
LEMMA CreateStep ==
    ASSUME DirectoryInv, NEW p \in Handlers, NEW u \in FreshUsers, NEW o \in Orgs, NEW e \in Emails,
           Write(u, NewUser(p, o, e)), orgs' \in [Orgs -> OrgRow \cup {NoRow}],
           \A x \in Orgs : IF orgs[x] # NoRow THEN orgs'[x] # NoRow /\ orgs'[x].by = orgs[x].by
                           ELSE orgs'[x] # NoRow => orgs'[x].by = p,
           NEW v, DOMAIN v = RpcFields, rpc' = [rpc EXCEPT ![p] = v], v.stage # "idle", StageInv(v),
           \/ v.op \in {"create", "httpRegister"} /\ v.stage = "done" /\ v.answer = "ok" /\ v.user = u
           \/ v.op = "register" /\ OrgsOf(p)' # {}
           \/ v.op = "bulkCreate" /\ rpc[p].op = "bulkCreate" /\ v.results = Append(rpc[p].results, TRUE)
    PROVE  DirectoryInv'
<1>1. /\ users \in [Users -> UserRow \cup {NoRow}] /\ orgs \in [Orgs -> OrgRow \cup {NoRow}]
      /\ writes \in [Users -> Nat]
      /\ rpc'[p] = v /\ \A q \in Handlers \ {p} : rpc'[q] = rpc[q]
  BY DEF DirectoryInv, DirectoryShape
<1>2. u \in Users /\ users[u] = NoRow /\ writes[u] = 0 /\ Makers(u) = {}
  BY FreshHasNoMaker
<1>3. PICK w \in UserRow : w = NewUser(p, o, e) /\ w.by = p /\ w # NoRow
  <2>1. NewUser(p, o, e) \in UserRow /\ NewUser(p, o, e).by = p
    BY DEF NewUser, UserRow
  <2>2. NewUser(p, o, e) # NoRow
    BY <2>1, DirectoryAssumption
  <2> QED BY <2>1, <2>2
<1>4. users' = [users EXCEPT ![u] = w] /\ writes' = [writes EXCEPT ![u] = @ + 1]
  BY <1>3 DEF Write
<1>5. /\ users' \in [Users -> UserRow \cup {NoRow}] /\ writes' \in [Users -> Nat]
      /\ \A x \in Users \ {u} : users'[x] = users[x] /\ writes'[x] = writes[x]
      /\ users'[u] = w /\ writes'[u] = 1 /\ writes'[u] = writes[u] + 1
  BY <1>1, <1>2, <1>3, <1>4
<1>6. ~Saving(v)
  BY DEF Saving, UserUpdates, HttpUpdates
<1>7. ASSUME NEW x \in Users
      PROVE  IF x = u THEN Makers(x)' \subseteq {p} ELSE Makers(x)' \subseteq Makers(x)
  <2>1. ASSUME NEW b \in Makers(x)'
        PROVE  IF x = u THEN b = p ELSE b \in Makers(x)
    <3>1. b \in Handlers \cup {NoRow}
      BY DEF Makers
    <3>2. CASE users'[x] # NoRow /\ users'[x].by = b
      BY <1>3, <1>5, <3>1, <3>2 DEF Makers
    <3>3. CASE ~(users'[x] # NoRow /\ users'[x].by = b)
      <4>1. PICK q \in Handlers : Saving(rpc'[q]) /\ rpc'[q].user = x /\ rpc'[q].row.by = b
        BY <2>1, <3>3 DEF Makers, Saving
      <4>2. q # p
        BY <1>1, <1>6, <4>1
      <4>3. b \in Makers(x)
        BY <1>1, <3>1, <4>1, <4>2 DEF Makers
      <4> QED BY <1>2, <4>3
    <3> QED BY <3>2, <3>3
  <2> QED BY <2>1
<1>8. SaveInv(p)' /\ OrganizationInv(p)'
  BY <1>1, <1>6 DEF SaveInv, OrganizationInv, Saving
<1>9. MadeInv(p)'
  <2>1. CASE v.op \in {"create", "httpRegister"} /\ v.stage = "done" /\ v.answer = "ok" /\ v.user = u
    BY <1>1, <1>2, <1>3, <1>5, <2>1 DEF MadeInv
  <2>2. CASE v.op = "register" /\ OrgsOf(p)' # {}
    BY <1>1, <2>2 DEF MadeInv
  <2>3. CASE v.op = "bulkCreate" /\ rpc[p].op = "bulkCreate" /\ v.results = Append(rpc[p].results, TRUE)
    <3>1. rpc[p].results \in Seq(BOOLEAN) /\ IsFiniteSet(MadeBy(p)) /\ Cardinality(MadeBy(p)) <= Successes(rpc[p])
      BY <2>3 DEF DirectoryInv, MadeInv, StageInv
    <3>2. Successes(v) = Successes(rpc[p]) + 1 /\ Successes(rpc[p]) \in Nat
      BY <2>3, <3>1, SuccessesGrow
    <3>3. MadeBy(p)' \subseteq MadeBy(p) \cup {u}
      BY <1>7 DEF MadeBy
    <3>4. IsFiniteSet(MadeBy(p) \cup {u}) /\ Cardinality(MadeBy(p) \cup {u}) <= Cardinality(MadeBy(p)) + 1
      <4> HIDE DEF MadeBy
      <4>1. Cardinality(MadeBy(p)) \in Nat
        BY <3>1, FS_CardinalityType
      <4>2. /\ IsFiniteSet(MadeBy(p) \cup {u})
            /\ \/ Cardinality(MadeBy(p) \cup {u}) = Cardinality(MadeBy(p))
               \/ Cardinality(MadeBy(p) \cup {u}) = Cardinality(MadeBy(p)) + 1
        BY <3>1, FS_AddElement
      <4> QED BY <4>1, <4>2
    <3>5. IsFiniteSet(MadeBy(p)') /\ Cardinality(MadeBy(p)') <= Cardinality(MadeBy(p) \cup {u})
      BY <3>3, <3>4, FS_Subset
    <3>6. Cardinality(MadeBy(p)') \in Nat /\ Cardinality(MadeBy(p)) \in Nat /\ Cardinality(MadeBy(p) \cup {u}) \in Nat
      BY <3>1, <3>4, <3>5, FS_CardinalityType
    <3>7. Cardinality(MadeBy(p)') <= Successes(v)
      BY <3>1, <3>2, <3>4, <3>5, <3>6
    <3> QED BY <1>1, <2>3, <3>5, <3>7 DEF MadeInv
  <2> QED BY <2>1, <2>2, <2>3
<1>10. \A x \in Users : (users'[x] = users[x] /\ writes'[x] = writes[x]) \/ writes'[x] = writes[x] + 1
  BY <1>5
<1>11. \A x \in Users : Makers(x)' \subseteq Makers(x) \/ (Makers(x) = {} /\ Makers(x)' \subseteq {p})
  BY <1>2, <1>7
<1> QED BY <1>5, <1>8, <1>9, <1>10, <1>11, RequestStep

\* An item of a bulk operation is done.
LEMMA ItemStep ==
    ASSUME DirectoryInv, NEW p \in Handlers, NEW ok \in BOOLEAN, ItemDone(p, ok),
           \/ rpc[p].op = "bulkCreate" /\ rpc[p].stage = "item"
           \/ rpc[p].op \in {"bulkUpdate", "bulkDelete"} /\ rpc[p].stage \in {"item", "save"}
    PROVE  \E v : /\ DOMAIN v = RpcFields /\ rpc' = [rpc EXCEPT ![p] = v] /\ v.op = rpc[p].op
                  /\ v.stage \in {"item", "done"} /\ v.results = Append(rpc[p].results, ok) /\ StageInv(v)
<1> DEFINE rest == Tail(rpc[p].todo)
           good == ok \/ TRUE \in {rpc[p].results[i] : i \in DOMAIN rpc[p].results}
           f == [todo |-> rest, results |-> Append(rpc[p].results, ok), row |-> NoRow,
                 stage |-> IF rest = <<>> THEN "done" ELSE "item",
                 answer |-> IF rest # <<>> THEN "none" ELSE IF good THEN "ok" ELSE "failed"]
<1>1. Continue(p, f) /\ DOMAIN f \subseteq RpcFields
  BY DEF ItemDone, RpcFields
<1>2. PICK v : /\ DOMAIN v = RpcFields /\ rpc' = [rpc EXCEPT ![p] = v]
               /\ \A x \in DOMAIN f : v[x] = f[x]
               /\ \A x \in RpcFields \ DOMAIN f : v[x] = rpc[p][x]
  <2> HIDE DEF f
  <2> QED BY <1>1, ContinuedCall
<1> HIDE DEF rest, good
<1>3. /\ v.op = rpc[p].op /\ v.org = rpc[p].org /\ v.todo = rest /\ v.results = Append(rpc[p].results, ok)
      /\ v.stage = IF rest = <<>> THEN "done" ELSE "item"
      /\ v.answer = IF rest # <<>> THEN "none" ELSE IF good THEN "ok" ELSE "failed"
  BY <1>2 DEF RpcFields
<1>4. CASE rpc[p].op \in {"bulkUpdate", "bulkDelete"}
  <2>1. rpc[p].todo \in Seq(Users) /\ rpc[p].todo # <<>>
    BY <1>4 DEF DirectoryInv, StageInv
  <2>2. rest \in Seq(Users)
    BY <2>1 DEF rest
  <2>3. StageInv(v)
    BY <1>3, <1>4, <2>2 DEF StageInv, Saving
  <2> QED BY <1>2, <1>3, <2>3
<1>5. CASE rpc[p].op = "bulkCreate"
  <2>1. /\ rpc[p].results \in Seq(BOOLEAN) /\ rpc[p].org \in Orgs /\ rpc[p].todo \in Seq(Emails) /\ rpc[p].todo # <<>>
        /\ Len(rpc[p].todo) + Len(rpc[p].results) = 2
    BY <1>5 DEF DirectoryInv, StageInv
  <2>2. /\ rest \in Seq(Emails) /\ Len(rest) = Len(rpc[p].todo) - 1 /\ Len(rpc[p].todo) \in Nat /\ Len(rpc[p].results) \in Nat
    BY <2>1 DEF rest
  <2>6. rest = <<>> <=> Len(rest) = 0
    BY <2>2, EmptySeq
  <2>3. v.results \in Seq(BOOLEAN) /\ Len(v.results) = Len(rpc[p].results) + 1
    BY <1>3, <2>1
  <2>4. good <=> Successes(v) > 0
    <3> DEFINE s == rpc[p].results
               n == Len(s) + 1
    <3>1. /\ DOMAIN s = 1 .. Len(s) /\ Len(s) \in Nat /\ DOMAIN v.results = 1 .. n
          /\ v.results[n] = ok /\ \A i \in 1 .. Len(s) : v.results[i] = s[i]
      BY <1>3, <2>1
    <3>2. Successes(v) > 0 <=> \E i \in DOMAIN v.results : v.results[i]
      BY <2>3, SuccessesGrow
    <3>3. (\E i \in DOMAIN v.results : v.results[i]) <=> v.results[n] \/ \E i \in DOMAIN s : s[i]
      <4>1. \A i : i \in 1 .. n <=> i \in 1 .. Len(s) \/ i = n
        BY <3>1
      <4> QED BY <3>1, <4>1
    <3>4. (\E i \in DOMAIN s : s[i]) <=> TRUE \in {s[i] : i \in DOMAIN s}
      <4>1. \A i \in DOMAIN s : s[i] \in BOOLEAN
        BY <2>1
      <4> QED BY <4>1
    <3> QED BY <3>1, <3>2, <3>3, <3>4 DEF good
  <2>5. StageInv(v)
    <3>1. CASE rest = <<>>
      <4>1. v.stage = "done" /\ Len(v.results) = 2 /\ (v.answer = "ok" <=> Successes(v) > 0)
        <5>1. Len(rpc[p].todo) = 1
          BY <2>2, <2>6, <3>1
        <5>2. Len(v.results) = 2
          BY <2>1, <2>2, <2>3, <5>1
        <5>3. v.stage = "done" /\ v.answer = IF good THEN "ok" ELSE "failed"
          BY <1>3, <3>1
        <5> QED BY <2>4, <5>2, <5>3
      <4> QED BY <1>3, <1>5, <2>3, <4>1 DEF StageInv, Saving
    <3>2. CASE rest # <<>>
      <4>1. v.stage = "item" /\ Len(v.todo) + Len(v.results) = 2
        <5>1. v.stage = "item" /\ v.todo = rest
          BY <1>3, <3>2
        <5>2. Len(rest) + Len(v.results) = 2
          <6>1. \A a, b \in Nat : a + b = 2 => (a - 1) + (b + 1) = 2
            OBVIOUS
          <6>2. (Len(rpc[p].todo) - 1) + (Len(rpc[p].results) + 1) = 2
            BY <2>1, <2>2, <6>1
          <6> QED BY <2>2, <2>3, <6>2
        <5> QED BY <5>1, <5>2
      <4> QED BY <1>3, <1>5, <2>1, <2>2, <2>3, <3>2, <4>1 DEF StageInv, Saving
    <3> QED BY <3>1, <3>2
  <2> QED BY <1>2, <1>3, <2>5
<1> QED BY <1>4, <1>5

\* An item fails.
LEMMA ItemFailsKeeps ==
    ASSUME DirectoryInv, NEW p \in Handlers, ItemDone(p, FALSE), UNCHANGED <<tables, cache>>,
           \/ rpc[p].op = "bulkCreate" /\ rpc[p].stage = "item"
           \/ rpc[p].op \in {"bulkUpdate", "bulkDelete"} /\ rpc[p].stage \in {"item", "save"}
    PROVE  DirectoryInv'
<1>1. PICK v : /\ DOMAIN v = RpcFields /\ rpc' = [rpc EXCEPT ![p] = v] /\ v.op = rpc[p].op
               /\ v.stage \in {"item", "done"} /\ v.results = Append(rpc[p].results, FALSE) /\ StageInv(v)
  BY ItemStep
<1>2. ~Saving(v) /\ UNCHANGED <<users, orgs, writes>>
  BY <1>1 DEF Saving, tables
<1> QED BY <1>1, <1>2, QuietStep

\* The fields of a request that has been answered.
LEMMA AnsweredCall ==
    ASSUME DirectoryInv, NEW p \in Handlers, NEW a, AnswerCall(p, a), rpc[p].op # "bulkCreate"
    PROVE  \E v : /\ DOMAIN v = RpcFields /\ rpc' = [rpc EXCEPT ![p] = v] /\ v.op = rpc[p].op
                  /\ v.stage = "done" /\ v.answer = a /\ StageInv(v)
<1> DEFINE f == [stage |-> "done", answer |-> a]
<1>1. Continue(p, f) /\ DOMAIN f \subseteq RpcFields
  BY DEF AnswerCall, RpcFields
<1>2. PICK v : /\ DOMAIN v = RpcFields /\ rpc' = [rpc EXCEPT ![p] = v]
               /\ \A x \in DOMAIN f : v[x] = f[x]
               /\ \A x \in RpcFields \ DOMAIN f : v[x] = rpc[p][x]
  BY <1>1, ContinuedCall
<1>3. v.stage = "done" /\ v.answer = a /\ v.op = rpc[p].op
  BY <1>2 DEF RpcFields
<1>4. StageInv(v)
  BY <1>3, DoneStage
<1> QED BY <1>2, <1>3, <1>4

\* The save of an update.
LEMMA SaveUserRowKeeps ==
    ASSUME DirectoryInv, NEW p \in Handlers, SaveUserRow(p)
    PROVE  DirectoryInv'
<1>1. rpc[p].op \in UserUpdates /\ rpc[p].stage = "save" /\ Saving(rpc[p])
  BY DEF SaveUserRow, AtStage, Saving
<1>2. rpc[p].op \notin {"create", "httpRegister", "register", "bulkCreate", "updateOrg"}
  BY <1>1 DEF UserUpdates, HttpUpdates
<1>3. CASE ReplyTo(p, "failed")
  BY <1>1, <1>2, <1>3, ReplyKeeps
<1>4. CASE /\ Write(rpc[p].user, Saved(rpc[p].user, rpc[p].row)) /\ AnswerCall(p, "ok") /\ UNCHANGED orgs
  <2>1. PICK v : /\ DOMAIN v = RpcFields /\ rpc' = [rpc EXCEPT ![p] = v] /\ v.op = rpc[p].op
                 /\ v.stage = "done" /\ v.answer = "ok" /\ StageInv(v)
    BY <1>2, <1>4, AnsweredCall
  <2> QED BY <1>1, <1>4, <2>1, SaveStep
<1> QED BY <1>3, <1>4 DEF SaveUserRow

\* The deletion of a row.
LEMMA DeleteUserRowKeeps ==
    ASSUME DirectoryInv, NEW p \in Handlers, DeleteUserRow(p)
    PROVE  DirectoryInv'
<1>1. rpc[p].op = "delete" /\ rpc[p].stage = "delete"
  BY DEF DeleteUserRow, AtStage
<1>2. CASE ReplyTo(p, "failed")
  BY <1>1, <1>2, ReplyKeeps
<1>3. CASE Delete(rpc[p].user) /\ AnswerCall(p, "ok") /\ UNCHANGED <<orgs, roleHolders>>
  <2>1. PICK v : /\ DOMAIN v = RpcFields /\ rpc' = [rpc EXCEPT ![p] = v] /\ v.op = rpc[p].op
                 /\ v.stage = "done" /\ v.answer = "ok" /\ StageInv(v)
    BY <1>1, <1>3, AnsweredCall
  <2>2. PICK u \in Users : u = rpc[p].user
    BY <1>1 DEF DirectoryInv, StageInv
  <2>3. Delete(u)
    BY <1>3, <2>2 DEF Delete, Write
  <2> QED BY <1>1, <1>3, <2>1, <2>3, DeleteStep
<1> QED BY <1>2, <1>3 DEF DeleteUserRow

\* The fields of a request that made a user.
LEMMA CreatedCall ==
    ASSUME DirectoryInv, NEW p \in Handlers, NEW u, Continue(p, [stage |-> "done", answer |-> "ok", user |-> u]),
           rpc[p].op # "bulkCreate"
    PROVE  \E v : /\ DOMAIN v = RpcFields /\ rpc' = [rpc EXCEPT ![p] = v] /\ v.op = rpc[p].op
                  /\ v.stage = "done" /\ v.answer = "ok" /\ v.user = u /\ StageInv(v)
<1> DEFINE f == [stage |-> "done", answer |-> "ok", user |-> u]
<1>1. DOMAIN f \subseteq RpcFields
  BY DEF RpcFields
<1>2. PICK v : /\ DOMAIN v = RpcFields /\ rpc' = [rpc EXCEPT ![p] = v]
               /\ \A x \in DOMAIN f : v[x] = f[x]
               /\ \A x \in RpcFields \ DOMAIN f : v[x] = rpc[p][x]
  BY <1>1, ContinuedCall
<1>3. v.stage = "done" /\ v.answer = "ok" /\ v.user = u /\ v.op = rpc[p].op
  BY <1>2 DEF RpcFields
<1>4. StageInv(v)
  BY <1>3, DoneStage
<1> QED BY <1>2, <1>3, <1>4

\* Organizations that are left alone.
LEMMA SameOrgs ==
    ASSUME DirectoryInv, UNCHANGED orgs, NEW p
    PROVE  /\ orgs' \in [Orgs -> OrgRow \cup {NoRow}]
           /\ \A x \in Orgs : IF orgs[x] # NoRow THEN orgs'[x] # NoRow /\ orgs'[x].by = orgs[x].by
                              ELSE orgs'[x] # NoRow => orgs'[x].by = p
BY DEF DirectoryInv, DirectoryShape

\* An organization that is inserted.
LEMMA NewOrg ==
    ASSUME DirectoryInv, NEW p \in Handlers, NEW o \in Orgs, orgs[o] = NoRow,
           orgs' = [orgs EXCEPT ![o] = NewOrganization(p)]
    PROVE  /\ orgs' \in [Orgs -> OrgRow \cup {NoRow}] /\ o \in OrgsOf(p)'
           /\ \A x \in Orgs : IF orgs[x] # NoRow THEN orgs'[x] # NoRow /\ orgs'[x].by = orgs[x].by
                              ELSE orgs'[x] # NoRow => orgs'[x].by = p
<1>1. NewOrganization(p) \in OrgRow /\ NewOrganization(p).by = p
  BY DEF NewOrganization, OrgRow
<1>2. NewOrganization(p) # NoRow
  BY <1>1, DirectoryAssumption
<1>3. PICK n \in OrgRow : n = NewOrganization(p) /\ n.by = p /\ n # NoRow
  BY <1>1, <1>2
<1>4. orgs \in [Orgs -> OrgRow \cup {NoRow}] /\ orgs' = [orgs EXCEPT ![o] = n]
  BY <1>3 DEF DirectoryInv, DirectoryShape
<1>5. orgs'[o] = n /\ (\A x \in Orgs \ {o} : orgs'[x] = orgs[x]) /\ orgs' \in [Orgs -> OrgRow \cup {NoRow}]
  BY <1>4
<1>6. o \in OrgsOf(p)'
  BY <1>3, <1>5 DEF OrgsOf
<1> QED BY <1>3, <1>5, <1>6

\* The transaction of CreateUser.
LEMMA CreateUserTxKeeps ==
    ASSUME DirectoryInv, NEW p \in Handlers, CreateUserTx(p)
    PROVE  DirectoryInv'
<1>1. rpc[p].op = "create" /\ rpc[p].stage = "tx" /\ rpc[p].org \in Orgs /\ rpc[p].email \in Emails
  BY DEF CreateUserTx, AtStage, DirectoryInv, StageInv
<1>2. PICK o \in Orgs, e \in Emails : o = rpc[p].org /\ e = rpc[p].email
  BY <1>1
<1>3. CASE ReplyTo(p, "failed")
  BY <1>1, <1>3, ReplyKeeps
<1>4. ASSUME NEW u \in Users, CreateUserInExistingOrganization(p, o, e, u),
             Continue(p, [stage |-> "done", answer |-> "ok", user |-> u])
      PROVE  DirectoryInv'
  <2>1. u \in FreshUsers /\ Write(u, NewUser(p, o, e)) /\ UNCHANGED orgs
    BY <1>4 DEF CreateUserInExistingOrganization
  <2>2. PICK v : /\ DOMAIN v = RpcFields /\ rpc' = [rpc EXCEPT ![p] = v] /\ v.op = rpc[p].op
                 /\ v.stage = "done" /\ v.answer = "ok" /\ v.user = u /\ StageInv(v)
    BY <1>1, <1>4, CreatedCall
  <2> QED BY <1>1, <2>1, <2>2, SameOrgs, CreateStep
<1> QED BY <1>2, <1>3, <1>4 DEF CreateUserTx

\* The transaction of the HTTP registration.
LEMMA HttpRegisterTxKeeps ==
    ASSUME DirectoryInv, NEW p \in Handlers, HttpRegisterTx(p)
    PROVE  DirectoryInv'
<1>1. rpc[p].op = "httpRegister" /\ rpc[p].stage = "tx" /\ rpc[p].org \in Orgs /\ rpc[p].email \in Emails
  BY DEF HttpRegisterTx, AtStage, DirectoryInv, StageInv
<1>2. PICK o \in Orgs, e \in Emails : o = rpc[p].org /\ e = rpc[p].email
  BY <1>1
<1>3. CASE ReplyTo(p, "failed")
  BY <1>1, <1>3, ReplyKeeps
<1>4. ASSUME NEW u \in FreshUsers, orgs[o] = NoRow, orgs' = [orgs EXCEPT ![o] = NewOrganization(p)],
             Write(u, NewUser(p, o, e)), Continue(p, [stage |-> "done", answer |-> "ok", user |-> u])
      PROVE  DirectoryInv'
  <2>1. PICK v : /\ DOMAIN v = RpcFields /\ rpc' = [rpc EXCEPT ![p] = v] /\ v.op = rpc[p].op
                 /\ v.stage = "done" /\ v.answer = "ok" /\ v.user = u /\ StageInv(v)
    BY <1>1, <1>4, CreatedCall
  <2>2. /\ orgs' \in [Orgs -> OrgRow \cup {NoRow}]
        /\ \A x \in Orgs : IF orgs[x] # NoRow THEN orgs'[x] # NoRow /\ orgs'[x].by = orgs[x].by
                           ELSE orgs'[x] # NoRow => orgs'[x].by = p
    BY <1>4, NewOrg
  <2> QED BY <1>1, <1>4, <2>1, <2>2, CreateStep
<1> QED BY <1>2, <1>3, <1>4 DEF HttpRegisterTx

\* The next stage of a registration, when nothing is written.
LEMMA RegisterGoesOn ==
    ASSUME DirectoryInv, NEW p \in Handlers, NEW s, rpc[p].op = "register", Continue(p, [stage |-> s]),
           UNCHANGED <<users, orgs, writes>>,
           \/ rpc[p].stage \in {"domain", "email"} /\ s \in {"email", "org"}
           \/ rpc[p].stage = "tokens" /\ s = "readBack"
    PROVE  DirectoryInv'
<1> DEFINE f == [stage |-> s]
<1>1. DOMAIN f \subseteq RpcFields
  BY DEF RpcFields
<1>2. PICK v : /\ DOMAIN v = RpcFields /\ rpc' = [rpc EXCEPT ![p] = v]
               /\ \A x \in DOMAIN f : v[x] = f[x]
               /\ \A x \in RpcFields \ DOMAIN f : v[x] = rpc[p][x]
  BY <1>1, ContinuedCall
<1>3. v.stage = s /\ v.op = "register" /\ v.org = rpc[p].org /\ v.email = rpc[p].email
  BY <1>2 DEF RpcFields
<1>4. rpc[p].stage \in {"domain", "email"} => rpc[p].org \in Orgs /\ rpc[p].email \in Emails
  BY DEF DirectoryInv, StageInv
<1>5. StageInv(v) /\ ~Saving(v)
  BY <1>3, <1>4 DEF StageInv, Saving, UserUpdates, HttpUpdates
<1> QED BY <1>2, <1>3, <1>5, QuietStep

\* The statements of Register that write nothing.
LEMMA RegisterChecksKeep ==
    ASSUME DirectoryInv, NEW p \in Handlers,
           OrganizationDomainExists(p) \/ UserEmailExists(p) \/ RegisterTokens(p) \/ ReadBackOrganization(p)
    PROVE  DirectoryInv'
<1>1. CASE OrganizationDomainExists(p)
  <2>1. rpc[p].op = "register" /\ rpc[p].stage = "domain" /\ UNCHANGED <<tables, cache>> /\ UNCHANGED <<users, orgs, writes>>
    BY <1>1 DEF OrganizationDomainExists, AtStage, tables
  <2>2. CASE AnswerCall(p, "failed")
    BY <2>1, <2>2, ReplyKeeps DEF ReplyTo
  <2>3. CASE Continue(p, [stage |-> "email"])
    BY <2>1, <2>3, RegisterGoesOn
  <2> QED BY <1>1, <2>2, <2>3 DEF OrganizationDomainExists
<1>2. CASE UserEmailExists(p)
  <2>1. rpc[p].op = "register" /\ rpc[p].stage = "email" /\ UNCHANGED <<tables, cache>> /\ UNCHANGED <<users, orgs, writes>>
    BY <1>2 DEF UserEmailExists, AtStage, tables
  <2>2. CASE AnswerCall(p, "failed")
    BY <2>1, <2>2, ReplyKeeps DEF ReplyTo
  <2>3. CASE Continue(p, [stage |-> "org"])
    BY <2>1, <2>3, RegisterGoesOn
  <2> QED BY <1>2, <2>2, <2>3 DEF UserEmailExists
<1>3. CASE RegisterTokens(p)
  <2>1. rpc[p].op = "register" /\ rpc[p].stage = "tokens" /\ UNCHANGED <<tables, cache>> /\ UNCHANGED <<users, orgs, writes>>
    BY <1>3 DEF RegisterTokens, AtStage, tables
  <2>2. CASE AnswerCall(p, "failed")
    BY <2>1, <2>2, ReplyKeeps DEF ReplyTo
  <2>3. CASE Continue(p, [stage |-> "readBack"])
    BY <2>1, <2>3, RegisterGoesOn
  <2> QED BY <1>3, <2>2, <2>3 DEF RegisterTokens
<1>4. CASE ReadBackOrganization(p)
  BY <1>4, ReplyKeeps DEF ReadBackOrganization, AtStage
<1> QED BY <1>1, <1>2, <1>3, <1>4

\* Users that are left alone, while request p changes its own fields and organizations.
LEMMA OrgStep ==
    ASSUME DirectoryInv, NEW p \in Handlers, NEW v, DOMAIN v = RpcFields, rpc' = [rpc EXCEPT ![p] = v],
           UNCHANGED <<users, writes>>, orgs' \in [Orgs -> OrgRow \cup {NoRow}],
           \A x \in Orgs : IF orgs[x] # NoRow THEN orgs'[x] # NoRow /\ orgs'[x].by = orgs[x].by
                           ELSE orgs'[x] # NoRow => orgs'[x].by = p,
           StageInv(v), v.op \in {"register", "updateOrg"}, v.stage \notin {"idle", "save"},
           v.op = "register" => OrgsOf(p)' # {}
    PROVE  DirectoryInv'
<1>1. /\ users \in [Users -> UserRow \cup {NoRow}] /\ writes \in [Users -> Nat]
      /\ rpc'[p] = v /\ \A q \in Handlers \ {p} : rpc'[q] = rpc[q]
  BY DEF DirectoryInv, DirectoryShape
<1>2. ~Saving(v)
  BY DEF Saving
<1>3. ASSUME NEW x \in Users
      PROVE  Makers(x)' \subseteq Makers(x)
  <2> SUFFICES ASSUME NEW b \in Makers(x)'
               PROVE  b \in Makers(x)
    OBVIOUS
  <2>1. b \in Handlers \cup {NoRow}
    BY DEF Makers
  <2>2. CASE users[x] # NoRow /\ users[x].by = b
    BY <2>1, <2>2 DEF Makers
  <2>3. CASE ~(users[x] # NoRow /\ users[x].by = b)
    <3>1. PICK q \in Handlers : Saving(rpc'[q]) /\ rpc'[q].user = x /\ rpc'[q].row.by = b
      BY <2>3 DEF Makers, Saving
    <3>2. q # p
      BY <1>1, <1>2, <3>1
    <3> QED BY <1>1, <2>1, <3>1, <3>2 DEF Makers
  <2> QED BY <2>2, <2>3
<1>4. SaveInv(p)' /\ OrganizationInv(p)' /\ MadeInv(p)'
  BY <1>1, <1>2 DEF SaveInv, OrganizationInv, MadeInv, Saving
<1> QED BY <1>1, <1>3, <1>4, RequestStep

\* Register inserts the organization.
LEMMA CreateOrganizationRowKeeps ==
    ASSUME DirectoryInv, NEW p \in Handlers, CreateOrganizationRow(p)
    PROVE  DirectoryInv'
<1>1. rpc[p].op = "register" /\ rpc[p].stage = "org" /\ rpc[p].org \in Orgs /\ rpc[p].email \in Emails
  BY DEF CreateOrganizationRow, AtStage, DirectoryInv, StageInv
<1>2. PICK o \in Orgs : o = rpc[p].org
  BY <1>1
<1>3. CASE ReplyTo(p, "failed")
  BY <1>1, <1>3, ReplyKeeps
<1>4. CASE /\ orgs[o] = NoRow /\ orgs' = [orgs EXCEPT ![o] = NewOrganization(p)] /\ Continue(p, [stage |-> "user"])
           /\ UNCHANGED <<users, roleHolders, writes, cache>>
  <2> DEFINE f == [stage |-> "user"]
  <2>1. DOMAIN f \subseteq RpcFields
    BY DEF RpcFields
  <2>2. PICK v : /\ DOMAIN v = RpcFields /\ rpc' = [rpc EXCEPT ![p] = v]
                 /\ \A x \in DOMAIN f : v[x] = f[x]
                 /\ \A x \in RpcFields \ DOMAIN f : v[x] = rpc[p][x]
    BY <1>4, <2>1, ContinuedCall
  <2>3. v.stage = "user" /\ v.op = "register" /\ v.org \in Orgs /\ v.email \in Emails
    BY <1>1, <2>2 DEF RpcFields
  <2>4. StageInv(v)
    BY <2>3 DEF StageInv, Saving
  <2>5. /\ orgs' \in [Orgs -> OrgRow \cup {NoRow}] /\ OrgsOf(p)' # {}
        /\ \A x \in Orgs : IF orgs[x] # NoRow THEN orgs'[x] # NoRow /\ orgs'[x].by = orgs[x].by
                           ELSE orgs'[x] # NoRow => orgs'[x].by = p
    BY <1>4, NewOrg
  <2> QED BY <1>4, <2>2, <2>3, <2>4, <2>5, OrgStep
<1> QED BY <1>2, <1>3, <1>4 DEF CreateOrganizationRow

\* Register inserts the user.
LEMMA CreateUserRowKeeps ==
    ASSUME DirectoryInv, NEW p \in Handlers, CreateUserRow(p)
    PROVE  DirectoryInv'
<1>1. rpc[p].op = "register" /\ rpc[p].stage = "user" /\ rpc[p].org \in Orgs /\ rpc[p].email \in Emails
  BY DEF CreateUserRow, AtStage, DirectoryInv, StageInv
<1>2. PICK o \in Orgs, e \in Emails : o = rpc[p].org /\ e = rpc[p].email
  BY <1>1
<1>3. CASE ReplyTo(p, "failed")
  BY <1>1, <1>3, ReplyKeeps
<1>4. ASSUME NEW u \in FreshUsers, Write(u, NewUser(p, o, e)), Continue(p, [stage |-> "tokens", user |-> u]),
             UNCHANGED <<orgs, roleHolders, cache>>
      PROVE  DirectoryInv'
  <2> DEFINE f == [stage |-> "tokens", user |-> u]
  <2>1. DOMAIN f \subseteq RpcFields
    BY DEF RpcFields
  <2>2. PICK v : /\ DOMAIN v = RpcFields /\ rpc' = [rpc EXCEPT ![p] = v]
                 /\ \A x \in DOMAIN f : v[x] = f[x]
                 /\ \A x \in RpcFields \ DOMAIN f : v[x] = rpc[p][x]
    BY <1>4, <2>1, ContinuedCall
  <2>3. v.stage = "tokens" /\ v.op = "register"
    BY <1>1, <2>2 DEF RpcFields
  <2>4. StageInv(v)
    BY <2>3 DEF StageInv, Saving
  <2>5. OrgsOf(p)' # {}
    <3>1. OrgsOf(p) # {}
      BY <1>1 DEF DirectoryInv, MadeInv
    <3> QED BY <1>4, <3>1 DEF OrgsOf
  <2> QED BY <1>4, <2>2, <2>3, <2>4, <2>5, SameOrgs, CreateStep
<1> QED BY <1>2, <1>3, <1>4 DEF CreateUserRow

\* An item of a bulk creation.
LEMMA BulkCreateItemKeeps ==
    ASSUME DirectoryInv, NEW p \in Handlers, BulkCreateItem(p)
    PROVE  DirectoryInv'
<1>1. /\ rpc[p].op = "bulkCreate" /\ rpc[p].stage = "item" /\ rpc[p].org \in Orgs
      /\ rpc[p].todo \in Seq(Emails) /\ rpc[p].todo # <<>>
  BY DEF BulkCreateItem, AtStage, DirectoryInv, StageInv
<1>2. Head(rpc[p].todo) \in Emails
  BY <1>1
<1>3. PICK o \in Orgs, e \in Emails : o = rpc[p].org /\ e = Head(rpc[p].todo)
  BY <1>1, <1>2
<1>4. CASE ItemFails(p)
  BY <1>1, <1>4, ItemFailsKeeps DEF ItemFails
<1>5. ASSUME NEW u \in Users, CreateUserInExistingOrganization(p, o, e, u), ItemDone(p, TRUE)
      PROVE  DirectoryInv'
  <2>1. u \in FreshUsers /\ Write(u, NewUser(p, o, e)) /\ UNCHANGED orgs
    BY <1>5 DEF CreateUserInExistingOrganization
  <2>2. PICK v : /\ DOMAIN v = RpcFields /\ rpc' = [rpc EXCEPT ![p] = v] /\ v.op = rpc[p].op
                 /\ v.stage \in {"item", "done"} /\ v.results = Append(rpc[p].results, TRUE) /\ StageInv(v)
    BY <1>1, <1>5, ItemStep
  <2> QED BY <1>1, <2>1, <2>2, SameOrgs, CreateStep
<1> QED BY <1>3, <1>4, <1>5 DEF BulkCreateItem

\* An item of a bulk update is read.
LEMMA BulkUpdateReadKeeps ==
    ASSUME DirectoryInv, NEW p \in Handlers, BulkUpdateRead(p)
    PROVE  DirectoryInv'
<1>1. /\ rpc[p].op = "bulkUpdate" /\ rpc[p].stage = "item" /\ rpc[p].todo \in Seq(Users) /\ rpc[p].todo # <<>>
      /\ UNCHANGED <<tables, cache>> /\ UNCHANGED <<users, orgs, writes>>
  BY DEF BulkUpdateRead, AtStage, DirectoryInv, StageInv, tables
<1>2. Head(rpc[p].todo) \in Users
  BY <1>1
<1>3. PICK u \in Users : u = Head(rpc[p].todo)
  BY <1>2
<1>4. CASE users[u] = NoRow
  BY <1>1, <1>3, <1>4, ItemFailsKeeps DEF BulkUpdateRead
<1>5. CASE users[u] # NoRow
  <2> DEFINE w == [users[u] EXCEPT !.active = FALSE, !.verified = TRUE]
             f == [stage |-> "save", user |-> u, seen |-> writes[u], sets |-> {"active", "verified"}, row |-> w]
  <2>1. users[u] \in UserRow /\ writes[u] \in Nat
    BY <1>5 DEF DirectoryInv, DirectoryShape
  <2>2. w \in UserRow /\ w.by = users[u].by /\ \A x \in DOMAIN users[u] \ {"active", "verified"} : w[x] = users[u][x]
    BY <2>1 DEF UserRow
  <2>3. Continue(p, f)
    BY <1>3, <1>5 DEF BulkUpdateRead
  <2> HIDE DEF w
  <2>4. DOMAIN f \subseteq RpcFields
    BY DEF RpcFields
  <2>5. PICK v : /\ DOMAIN v = RpcFields /\ rpc' = [rpc EXCEPT ![p] = v]
                 /\ \A x \in DOMAIN f : v[x] = f[x]
                 /\ \A x \in RpcFields \ DOMAIN f : v[x] = rpc[p][x]
    BY <2>3, <2>4, ContinuedCall
  <2>6. /\ v.stage = "save" /\ v.user = u /\ v.seen = writes[u] /\ v.sets = {"active", "verified"} /\ v.row = w
        /\ v.op = "bulkUpdate" /\ v.todo = rpc[p].todo
    BY <1>1, <2>5 DEF RpcFields
  <2>7. StageInv(v)
    BY <1>1, <2>1, <2>2, <2>6 DEF StageInv
  <2> QED BY <1>1, <1>5, <2>2, <2>5, <2>6, <2>7, QuietStep
<1> QED BY <1>4, <1>5

\* An item of a bulk update is saved.
LEMMA BulkUpdateSaveKeeps ==
    ASSUME DirectoryInv, NEW p \in Handlers, BulkUpdateSave(p)
    PROVE  DirectoryInv'
<1>1. rpc[p].op = "bulkUpdate" /\ rpc[p].stage = "save" /\ Saving(rpc[p])
  BY DEF BulkUpdateSave, AtStage, Saving
<1>2. CASE ItemFails(p)
  BY <1>1, <1>2, ItemFailsKeeps DEF ItemFails
<1>3. CASE /\ Write(rpc[p].user, Saved(rpc[p].user, rpc[p].row)) /\ ItemDone(p, TRUE) /\ UNCHANGED <<orgs, roleHolders>>
  <2>1. PICK v : /\ DOMAIN v = RpcFields /\ rpc' = [rpc EXCEPT ![p] = v] /\ v.op = rpc[p].op
                 /\ v.stage \in {"item", "done"} /\ v.results = Append(rpc[p].results, TRUE) /\ StageInv(v)
    BY <1>1, <1>3, ItemStep
  <2> QED BY <1>1, <1>3, <2>1, SaveStep
<1> QED BY <1>2, <1>3 DEF BulkUpdateSave

\* An item of a bulk deletion.
LEMMA BulkDeleteItemKeeps ==
    ASSUME DirectoryInv, NEW p \in Handlers, BulkDeleteItem(p)
    PROVE  DirectoryInv'
<1>1. rpc[p].op = "bulkDelete" /\ rpc[p].stage = "item" /\ rpc[p].todo \in Seq(Users) /\ rpc[p].todo # <<>>
  BY DEF BulkDeleteItem, AtStage, DirectoryInv, StageInv
<1>2. Head(rpc[p].todo) \in Users
  BY <1>1
<1>3. PICK u \in Users : u = Head(rpc[p].todo)
  BY <1>2
<1>4. CASE ItemFails(p)
  BY <1>1, <1>4, ItemFailsKeeps DEF ItemFails
<1>5. CASE Delete(Head(rpc[p].todo)) /\ ItemDone(p, TRUE) /\ UNCHANGED <<orgs, roleHolders, cache>>
  <2>1. PICK v : /\ DOMAIN v = RpcFields /\ rpc' = [rpc EXCEPT ![p] = v] /\ v.op = rpc[p].op
                 /\ v.stage \in {"item", "done"} /\ v.results = Append(rpc[p].results, TRUE) /\ StageInv(v)
    BY <1>1, <1>5, ItemStep
  <2>2. Delete(u)
    BY <1>3, <1>5 DEF Delete, Write
  <2> QED BY <1>1, <1>5, <2>1, <2>2, DeleteStep
<1> QED BY <1>4, <1>5 DEF BulkDeleteItem

\* The save of UpdateOrganization keeps who made the organization.
LEMMA SaveOrganizationKeeps ==
    ASSUME DirectoryInv, NEW p \in Handlers, SaveOrganization(p)
    PROVE  DirectoryInv'
<1>1. /\ rpc[p].op = "updateOrg" /\ rpc[p].stage = "save" /\ AnswerCall(p, "ok")
      /\ UNCHANGED <<users, writes>>
  BY DEF SaveOrganization, AtStage
<1>2. rpc[p].org \in Orgs /\ rpc[p].row \in OrgRow /\ orgs[rpc[p].org] # NoRow /\ rpc[p].row.by = orgs[rpc[p].org].by
  BY <1>1 DEF DirectoryInv, OrganizationInv
<1>3. PICK o \in Orgs, row \in OrgRow : o = rpc[p].org /\ row = rpc[p].row
  BY <1>2
<1>4. orgs' = [orgs EXCEPT ![o] = row] /\ row # NoRow /\ row.by = orgs[o].by /\ orgs[o] # NoRow
  BY <1>2, <1>3, DirectoryAssumption DEF SaveOrganization
<1>5. /\ orgs' \in [Orgs -> OrgRow \cup {NoRow}]
      /\ \A x \in Orgs : IF orgs[x] # NoRow THEN orgs'[x] # NoRow /\ orgs'[x].by = orgs[x].by
                         ELSE orgs'[x] # NoRow => orgs'[x].by = p
  BY <1>4 DEF DirectoryInv, DirectoryShape
<1>6. PICK v : /\ DOMAIN v = RpcFields /\ rpc' = [rpc EXCEPT ![p] = v] /\ v.op = rpc[p].op
               /\ v.stage = "done" /\ v.answer = "ok" /\ StageInv(v)
  BY <1>1, AnsweredCall
<1> QED BY <1>1, <1>5, <1>6, OrgStep

\* A request for an organization or a report goes on with the next of its statements.
LEMMA ReadingGoesOn ==
    ASSUME DirectoryInv, NEW p \in Handlers, NEW fields, Continue(p, fields), UNCHANGED <<tables, cache>>,
           rpc[p].op \in Reports \cup {"getOrg"}, DOMAIN fields \subseteq {"stage", "row", "counts", "answer"},
           rpc[p].stage \in {"read", "fill", "count"},
           "stage" \in DOMAIN fields => fields.stage \in {"fill", "done"}
    PROVE  DirectoryInv'
<1>1. UNCHANGED <<users, orgs, writes>> /\ DOMAIN fields \subseteq RpcFields
  BY DEF tables, RpcFields
<1>2. PICK v : /\ DOMAIN v = RpcFields /\ rpc' = [rpc EXCEPT ![p] = v]
               /\ \A x \in DOMAIN fields : v[x] = fields[x]
               /\ \A x \in RpcFields \ DOMAIN fields : v[x] = rpc[p][x]
  BY <1>1, ContinuedCall
<1>3. v.op = rpc[p].op /\ v.stage \in {"read", "fill", "count", "done"}
  BY <1>2 DEF RpcFields
<1>4. v.op \notin {"create", "httpRegister", "register", "updateOrg", "bulkCreate", "bulkUpdate", "bulkDelete", "delete"}
  BY <1>3 DEF Reports
<1>5. StageInv(v) /\ ~Saving(v)
  BY <1>3, <1>4 DEF StageInv, Saving
<1> QED BY <1>1, <1>2, <1>3, <1>4, <1>5, QuietStep

\* GetOrganization reads the row.
LEMMA ReadOrganizationKeeps ==
    ASSUME DirectoryInv, NEW p \in Handlers, ReadOrganization(p)
    PROVE  DirectoryInv'
<1>1. rpc[p].op = "getOrg" /\ rpc[p].stage = "read" /\ UNCHANGED <<tables, cache>>
  BY DEF ReadOrganization, AtStage
<1>2. CASE AnswerCall(p, "notFound")
  BY <1>1, <1>2, ReplyKeeps DEF ReplyTo
<1>3. CASE Continue(p, [stage |-> "fill", row |-> OrganizationView(rpc[p].org)])
  <2> DEFINE w == OrganizationView(rpc[p].org)
             f == [stage |-> "fill", row |-> w]
  <2>1. Continue(p, f)
    BY <1>3
  <2> HIDE DEF w
  <2>2. DOMAIN f \subseteq {"stage", "row", "counts", "answer"} /\ f.stage = "fill"
    OBVIOUS
  <2> HIDE DEF f
  <2> QED BY <1>1, <2>1, <2>2, ReadingGoesOn
<1> QED BY <1>2, <1>3 DEF ReadOrganization

\* GetOrganization fills the cache.
LEMMA FillOrganizationKeeps ==
    ASSUME DirectoryInv, NEW p \in Handlers, FillOrganization(p)
    PROVE  DirectoryInv'
<1>1. rpc[p].op = "getOrg" /\ rpc[p].stage = "fill" /\ AnswerCall(p, "ok") /\ UNCHANGED <<users, orgs, writes>>
  BY DEF FillOrganization, AtStage, tables
<1>2. PICK v : /\ DOMAIN v = RpcFields /\ rpc' = [rpc EXCEPT ![p] = v] /\ v.op = rpc[p].op
               /\ v.stage = "done" /\ v.answer = "ok" /\ StageInv(v)
  BY <1>1, AnsweredCall
<1>3. ~Saving(v)
  BY <1>2 DEF Saving
<1> QED BY <1>1, <1>2, <1>3, QuietStep

\* A query of a report.
LEMMA CountRowsKeeps ==
    ASSUME DirectoryInv, NEW p \in Handlers, CountRows(p)
    PROVE  DirectoryInv'
<1>1. rpc[p].op \in Reports /\ rpc[p].stage = "count" /\ UNCHANGED <<tables, cache>>
  BY DEF CountRows, AtStage
<1>2. PICK done : \/ Continue(p, [counts |-> done, stage |-> "done", answer |-> "ok"])
                  \/ Continue(p, [counts |-> done])
  BY DEF CountRows
<1>3. CASE Continue(p, [counts |-> done, stage |-> "done", answer |-> "ok"])
  <2> DEFINE f == [counts |-> done, stage |-> "done", answer |-> "ok"]
  <2>1. Continue(p, f) /\ DOMAIN f \subseteq {"stage", "row", "counts", "answer"} /\ f.stage = "done"
    BY <1>3
  <2> HIDE DEF f
  <2> QED BY <1>1, <2>1, ReadingGoesOn
<1>4. CASE Continue(p, [counts |-> done])
  <2> DEFINE f == [counts |-> done]
  <2>1. Continue(p, f) /\ DOMAIN f \subseteq {"row", "counts", "answer"}
    BY <1>4
  <2> HIDE DEF f
  <2> QED BY <1>1, <2>1, ReadingGoesOn
<1> QED BY <1>2, <1>3, <1>4

\* A statement fails; a bulk creation answers item by item instead.
LEMMA QueryFailsKeeps ==
    ASSUME DirectoryInv, NEW p \in Handlers, QueryFails(p)
    PROVE  DirectoryInv'
<1>1. /\ rpc[p].stage \in {"domain", "email", "org", "user", "tx", "save", "delete", "count", "read", "readBack"}
      /\ ReplyTo(p, "failed") /\ StageInv(rpc[p])
  BY DEF QueryFails, DirectoryInv
<1>2. rpc[p].op # "bulkCreate"
  BY <1>1 DEF StageInv
<1> QED BY <1>1, <1>2, ReplyKeeps

\* A step that leaves the tables and the requests alone.
LEMMA NothingChanges ==
    ASSUME DirectoryInv, UNCHANGED <<users, orgs, writes, rpc>>
    PROVE  DirectoryInv'
<1>1. DirectoryShape'
  BY DEF DirectoryInv, DirectoryShape
<1>2. ASSUME NEW u \in Users
      PROVE  Makers(u)' = Makers(u)
  BY DEF Makers, Saving
<1>3. ASSUME NEW p \in Handlers
      PROVE  StageInv(rpc[p])' /\ SaveInv(p)' /\ OrganizationInv(p)'
  BY DEF DirectoryInv, StageInv, SaveInv, OrganizationInv, Saving, Successes
<1>4. ASSUME NEW p \in Handlers
      PROVE  MadeInv(p)'
  <2>1. MadeBy(p)' = MadeBy(p) /\ OrgsOf(p)' = OrgsOf(p)
    BY <1>2 DEF MadeBy, OrgsOf
  <2> QED BY <2>1 DEF DirectoryInv, MadeInv, Successes
<1> QED BY <1>1, <1>2, <1>3, <1>4 DEF DirectoryInv

\* Every statement after the first keeps the invariant.
LEMMA StepsKeep ==
    ASSUME DirectoryInv, NEW p \in Handlers, DirectoryStep(p)
    PROVE  DirectoryInv'
BY SaveUserRowKeeps, DeleteUserRowKeeps, CreateUserTxKeeps, RegisterChecksKeep, CreateOrganizationRowKeeps,
   CreateUserRowKeeps, HttpRegisterTxKeeps, BulkCreateItemKeeps, BulkUpdateReadKeeps, BulkUpdateSaveKeeps,
   BulkDeleteItemKeeps, SaveOrganizationKeeps, ReadOrganizationKeeps, FillOrganizationKeeps, CountRowsKeeps,
   QueryFailsKeeps DEF DirectoryStep

\* Every request about a user begins with the invariant.
LEMMA UserRequestsKeep ==
    ASSUME DirectoryInv, NEW p \in Handlers, NEW u \in Users, UserRequest(p, u)
    PROVE  DirectoryInv'
<1>1. DOMAIN <<>> \subseteq {"roles"}
  OBVIOUS
<1>2. CASE ActivateUser(p, u)
  BY <1>1, <1>2, ReadForSaveKeeps DEF ActivateUser, UserUpdates
<1>3. CASE DeactivateUser(p, u)
  BY <1>1, <1>3, ReadForSaveKeeps DEF DeactivateUser, UserUpdates
<1>4. CASE VerifyUser(p, u)
  BY <1>1, <1>4, ReadForSaveKeeps DEF VerifyUser, UserUpdates
<1>5. CASE UpdateUser(p, u)
  <2>1. PICK ch \in UpdateChanges, r \in RoleChoices : ReadForSave(p, "update", u, ch, [roles |-> r])
    BY <1>5 DEF UpdateUser
  <2>2. DOMAIN [roles |-> r] \subseteq {"roles"} /\ "update" \in UserUpdates
    BY DEF UserUpdates
  <2> QED BY <2>1, <2>2, ReadForSaveKeeps
<1>6. CASE UpdateProfile(p, u)
  BY <1>1, <1>6, ReadForSaveKeeps DEF UpdateProfile, UserUpdates, HttpUpdates
<1>7. CASE ChangePasswordHandler(p, u)
  BY <1>1, <1>7, ReadForSaveKeeps DEF ChangePasswordHandler, UserUpdates, HttpUpdates
<1>8. CASE DeleteUser(p, u)
  <2>1. CASE users[u] = NoRow
    <3> DEFINE f == [stage |-> "done", answer |-> "notFound", user |-> u]
    <3>1. /\ BeginCall(p, "delete", f) /\ DOMAIN f \subseteq RpcFields \ {"op"} /\ "stage" \in DOMAIN f
          /\ f.stage = "done" /\ UNCHANGED <<tables, cache>>
      BY <1>8, <2>1 DEF DeleteUser, RpcFields
    <3> HIDE DEF f
    <3> QED BY <3>1, BeginDone
  <2>2. CASE users[u] # NoRow
    <3>1. BeginCall(p, "delete", [stage |-> "delete", user |-> u, org |-> users[u].org]) /\ UNCHANGED <<tables, cache>>
      BY <1>8, <2>2 DEF DeleteUser
    <3> QED BY <3>1, BeginDelete
  <2> QED BY <2>1, <2>2
<1>9. ASSUME NEW op \in {"getUser", "getProfile", "getUserByID"}, ReadUser(p, op, u)
      PROVE  DirectoryInv'
  <2> DEFINE a == IF users[u] = NoRow THEN "notFound" ELSE "ok"
             f == [stage |-> "done", user |-> u, row |-> users[u], answer |-> a]
  <2>1. BeginCall(p, op, f) /\ UNCHANGED <<tables, cache>>
    BY <1>9 DEF ReadUser
  <2> HIDE DEF a
  <2>2. DOMAIN f \subseteq RpcFields \ {"op"} /\ "stage" \in DOMAIN f /\ f.stage = "done"
    BY DEF RpcFields
  <2> HIDE DEF f
  <2> QED BY <2>1, <2>2, BeginDone
<1> QED BY <1>2, <1>3, <1>4, <1>5, <1>6, <1>7, <1>8, <1>9 DEF UserRequest, GetUser, GetProfile, GetUserByID

\* The items of a bulk request.
LEMMA TwoItems == ASSUME NEW S, NEW s \in [1..2 -> S] PROVE s \in Seq(S) /\ Len(s) = 2 /\ s # <<>>
<1>1. s \in Seq(S)
  BY SeqDef
<1>2. DOMAIN s = 1 .. 2
  OBVIOUS
<1>3. Len(s) \in Nat /\ DOMAIN s = 1 .. Len(s)
  BY <1>1, LenProperties
<1>4. Len(s) = 2
  BY <1>2, <1>3
<1> QED BY <1>1, <1>4

\* Every request about an organization begins with the invariant.
LEMMA OrgRequestsKeep ==
    ASSUME DirectoryInv, NEW p \in Handlers, NEW o \in Orgs, OrgRequest(p, o)
    PROVE  DirectoryInv'
<1>1. CASE UpdateOrganization(p, o)
  BY <1>1, UpdateOrganizationKeeps
<1>2. CASE GetOrganization(p, o)
  <2>1. CASE cache[<<"org:id", o>>] # NoRow
    <3> DEFINE w == cache[<<"org:id", o>>]
               f == [stage |-> "done", answer |-> "ok", org |-> o, row |-> w]
    <3>1. BeginCall(p, "getOrg", f) /\ UNCHANGED <<tables, cache>>
      BY <1>2, <2>1 DEF GetOrganization
    <3> HIDE DEF w
    <3>2. DOMAIN f \subseteq RpcFields \ {"op"} /\ "stage" \in DOMAIN f /\ f.stage = "done"
      BY DEF RpcFields
    <3> HIDE DEF f
    <3> QED BY <3>1, <3>2, BeginDone
  <2>2. CASE cache[<<"org:id", o>>] = NoRow
    BY <1>2, <2>2, BeginGetOrganization DEF GetOrganization
  <2> QED BY <2>1, <2>2
<1>3. CASE HttpGetOrganization(p, o)
  <2> DEFINE a == IF orgs[o] = NoRow THEN "notFound" ELSE "ok"
             f == [stage |-> "done", org |-> o, row |-> orgs[o], answer |-> a]
  <2>1. BeginCall(p, "httpGetOrg", f) /\ UNCHANGED <<tables, cache>>
    BY <1>3 DEF HttpGetOrganization
  <2> HIDE DEF a
  <2>2. DOMAIN f \subseteq RpcFields \ {"op"} /\ "stage" \in DOMAIN f /\ f.stage = "done"
    BY DEF RpcFields
  <2> HIDE DEF f
  <2> QED BY <2>1, <2>2, BeginDone
<1>4. ASSUME NEW op \in Reports, Report(p, op, o)
      PROVE  DirectoryInv'
  BY <1>4, BeginReport DEF Report
<1>5. ASSUME NEW e \in Emails, CreateUser(p, o, e) \/ Register(p, o, e)
      PROVE  DirectoryInv'
  BY <1>5, BeginCreate, BeginRegister DEF CreateUser, Register
<1>6. ASSUME NEW e \in Emails, HttpRegister(p, o, e)
      PROVE  DirectoryInv'
  <2>1. CASE orgs[o] # NoRow \/ EmailTaken(e, NoRow)
    <3> DEFINE f == [stage |-> "done", answer |-> "conflict"]
    <3>1. /\ BeginCall(p, "httpRegister", f) /\ DOMAIN f \subseteq RpcFields \ {"op"} /\ "stage" \in DOMAIN f
          /\ f.stage = "done" /\ "answer" \in DOMAIN f /\ f.answer = "conflict" /\ UNCHANGED <<tables, cache>>
      BY <1>6, <2>1 DEF HttpRegister, RpcFields
    <3> HIDE DEF f
    <3> QED BY <3>1, BeginDone
  <2>2. CASE ~(orgs[o] # NoRow \/ EmailTaken(e, NoRow))
    <3>1. BeginCall(p, "httpRegister", [stage |-> "tx", org |-> o, email |-> e]) /\ UNCHANGED <<tables, cache>>
      BY <1>6, <2>2 DEF HttpRegister
    <3> QED BY <3>1, BeginCreate
  <2> QED BY <2>1, <2>2
<1>7. ASSUME NEW s \in [1..2 -> Emails], Bulk(p, "bulkCreate", o, s)
      PROVE  DirectoryInv'
  <2>1. s \in Seq(Emails) /\ Len(s) = 2
    BY TwoItems
  <2> QED BY <1>7, <2>1, BeginBulkCreate DEF Bulk
<1>8. ASSUME NEW s \in [1..2 -> Users], NEW op \in {"bulkUpdate", "bulkDelete"}, Bulk(p, op, o, s)
      PROVE  DirectoryInv'
  <2>1. s \in Seq(Users) /\ s # <<>>
    BY TwoItems
  <2> QED BY <1>8, <2>1, BeginBulk DEF Bulk
<1> QED BY <1>1, <1>2, <1>3, <1>4, <1>5, <1>6, <1>7, <1>8 DEF OrgRequest

\* The seeded tables and idle requests.
LEMMA DirectoryStarts == DirectoryInit => DirectoryInv
<1> SUFFICES ASSUME DirectoryInit
             PROVE  DirectoryInv
  OBVIOUS
<1>1. (CHOOSE u \in Users : TRUE) \in Users
  BY DirectoryAssumption
<1>2. PICK o \in Orgs, u \in Users, e \in Emails :
         /\ orgs = [x \in Orgs |-> IF x = o THEN NewOrganization(NoRow) ELSE NoRow]
         /\ users = [x \in Users |-> IF x = u THEN NewUser(NoRow, o, e) ELSE NoRow]
         /\ writes = [x \in Users |-> 0]
         /\ rpc = [p \in Handlers |-> FreeSlot]
  BY <1>1 DEF DirectoryInit
<1>3. NewUser(NoRow, o, e) \in UserRow /\ NewUser(NoRow, o, e).by = NoRow
  BY DEF NewUser, UserRow
<1>4. NewOrganization(NoRow) \in OrgRow /\ NewOrganization(NoRow).by = NoRow
  BY DEF NewOrganization, OrgRow
<1>5. DOMAIN FreeSlot = RpcFields /\ FreeSlot.stage = "idle" /\ FreeSlot.op = "none"
  BY DEF FreeSlot, RpcFields
<1>6. DirectoryShape
  BY <1>2, <1>3, <1>4, <1>5 DEF DirectoryShape
<1>7. \A p \in Handlers : rpc[p] = FreeSlot /\ ~Saving(rpc[p])
  BY <1>2, <1>5 DEF Saving
<1>8. \A x \in Users : Makers(x) \subseteq {NoRow}
  BY <1>2, <1>3, <1>7 DEF Makers
<1>9. ASSUME NEW p \in Handlers
      PROVE  MadeBy(p) = {} /\ OrgsOf(p) = {}
  <2>1. p # NoRow
    BY DirectoryAssumption
  <2> QED BY <1>2, <1>4, <1>8, <2>1 DEF MadeBy, OrgsOf
<1>10. ASSUME NEW p \in Handlers
       PROVE  StageInv(rpc[p]) /\ SaveInv(p) /\ OrganizationInv(p) /\ MadeInv(p)
  BY <1>5, <1>7, <1>9 DEF StageInv, SaveInv, OrganizationInv, MadeInv
<1> QED BY <1>6, <1>8, <1>10 DEF DirectoryInv

\* The invariant is inductive.
LEMMA DirectoryKept == DirectoryInv /\ [DirectoryNext]_directoryVars => DirectoryInv'
<1> SUFFICES ASSUME DirectoryInv, [DirectoryNext]_directoryVars
             PROVE  DirectoryInv'
  OBVIOUS
<1>1. ASSUME NEW p \in Handlers, NEW u \in Users, UserRequest(p, u)
      PROVE  DirectoryInv'
  BY <1>1, UserRequestsKeep
<1>2. ASSUME NEW p \in Handlers, NEW o \in Orgs, OrgRequest(p, o)
      PROVE  DirectoryInv'
  BY <1>2, OrgRequestsKeep
<1>3. ASSUME NEW p \in Handlers, DirectoryStep(p)
      PROVE  DirectoryInv'
  BY <1>3, StepsKeep
<1>4. ASSUME NEW k \in CacheKeys, CacheExpires(k)
      PROVE  DirectoryInv'
  BY <1>4, NothingChanges DEF CacheExpires, tables
<1>5. CASE UNCHANGED directoryVars
  BY <1>5, NothingChanges DEF directoryVars
<1> QED BY <1>1, <1>2, <1>3, <1>4, <1>5 DEF DirectoryNext

\* What the requests were answered is what the tables hold.
LEMMA DirectoryAnswers == DirectoryInv => AnswersMatchRows
<1> SUFFICES ASSUME DirectoryInv, NEW p \in Handlers, rpc[p].stage = "done"
             PROVE  /\ rpc[p].op \in {"create", "httpRegister"} =>
                          IF rpc[p].answer = "ok" THEN rpc[p].user \in RowsOf(p) \/ writes[rpc[p].user] > 1
                          ELSE RowsOf(p) = {} /\ \A o \in LiveRows(orgs) : orgs[o].by # p
                    /\ rpc[p].op = "bulkCreate" =>
                          /\ Len(rpc[p].results) = 2
                          /\ Cardinality(RowsOf(p)) <= Successes(rpc[p])
                          /\ (rpc[p].answer = "ok") = (Successes(rpc[p]) > 0)
                    /\ rpc[p].op = "register" /\ rpc[p].answer = "ok" => \E o \in LiveRows(orgs) : orgs[o].by = p
  BY DEF AnswersMatchRows
<1>1. /\ users \in [Users -> UserRow \cup {NoRow}] /\ orgs \in [Orgs -> OrgRow \cup {NoRow}]
      /\ writes \in [Users -> Nat] /\ MadeInv(p) /\ StageInv(rpc[p])
  BY DEF DirectoryInv, DirectoryShape
<1>2. RowsOf(p) \subseteq MadeBy(p)
  BY <1>1 DEF RowsOf, LiveRows, MadeBy, Makers
<1>3. OrgsOf(p) = {o \in LiveRows(orgs) : orgs[o].by = p}
  BY <1>1 DEF OrgsOf, LiveRows
<1>4. ASSUME rpc[p].op \in {"create", "httpRegister"}, rpc[p].answer = "ok"
      PROVE  rpc[p].user \in RowsOf(p) \/ writes[rpc[p].user] > 1
  <2>1. /\ rpc[p].user \in Users /\ writes[rpc[p].user] > 0
        /\ writes[rpc[p].user] = 1 => users[rpc[p].user] # NoRow /\ users[rpc[p].user].by = p
    BY <1>1, <1>4 DEF MadeInv
  <2>2. writes[rpc[p].user] \in Nat
    BY <1>1, <2>1
  <2> QED BY <1>1, <2>1, <2>2 DEF RowsOf, LiveRows
<1>5. ASSUME rpc[p].op \in {"create", "httpRegister"}, rpc[p].answer # "ok"
      PROVE  RowsOf(p) = {} /\ \A o \in LiveRows(orgs) : orgs[o].by # p
  <2>1. MadeBy(p) = {} /\ OrgsOf(p) = {}
    BY <1>1, <1>5 DEF MadeInv
  <2> QED BY <1>2, <1>3, <2>1
<1>6. ASSUME rpc[p].op = "bulkCreate"
      PROVE  /\ Len(rpc[p].results) = 2 /\ Cardinality(RowsOf(p)) <= Successes(rpc[p])
             /\ (rpc[p].answer = "ok") = (Successes(rpc[p]) > 0)
  <2>1. IsFiniteSet(MadeBy(p)) /\ Cardinality(MadeBy(p)) <= Successes(rpc[p])
    BY <1>1, <1>6 DEF MadeInv
  <2>2. rpc[p].results \in Seq(BOOLEAN) /\ Len(rpc[p].results) = 2 /\ (rpc[p].answer = "ok" <=> Successes(rpc[p]) > 0)
    BY <1>1, <1>6 DEF StageInv
  <2>3. IsFiniteSet(RowsOf(p)) /\ Cardinality(RowsOf(p)) <= Cardinality(MadeBy(p))
    BY <1>2, <2>1, FS_Subset
  <2>4. Cardinality(RowsOf(p)) \in Nat /\ Cardinality(MadeBy(p)) \in Nat
    BY <2>1, <2>3, FS_CardinalityType
  <2>5. Successes(rpc[p]) \in Nat
    BY <2>2, SuccessesGrow
  <2> QED BY <2>1, <2>2, <2>3, <2>4, <2>5
<1>7. ASSUME rpc[p].op = "register", rpc[p].answer = "ok"
      PROVE  \E o \in LiveRows(orgs) : orgs[o].by = p
  <2>1. OrgsOf(p) # {}
    BY <1>1, <1>7 DEF MadeInv
  <2> QED BY <1>3, <2>1
<1> QED BY <1>4, <1>5, <1>6, <1>7

\* The answer of CreateUser, of the registrations and of a bulk creation and the rows agree, for
\* any number of requests, users, organizations and addresses, whatever else runs between two of
\* their statements: a refused creation leaves neither a user nor an organization behind.
THEOREM AnswersAlwaysMatchRows == DirectorySpec => []AnswersMatchRows
<1>1. DirectoryInit => DirectoryInv
  BY DirectoryStarts
<1>2. DirectoryInv /\ [DirectoryNext]_directoryVars => DirectoryInv'
  BY DirectoryKept
<1>3. DirectoryInv => AnswersMatchRows
  BY DirectoryAnswers
<1> QED BY <1>1, <1>2, <1>3, PTL DEF DirectorySpec

\* A request begins or goes on: it changes no other request.
LEMMA OwnFields ==
    ASSUME DirectoryInv, NEW p \in Handlers,
           (\E op, fields : BeginCall(p, op, fields)) \/ (\E fields : Continue(p, fields))
    PROVE  \A q \in Handlers \ {p} : rpc'[q] = rpc[q]
BY DEF BeginCall, Continue, DirectoryInv, DirectoryShape

\* A request about a user begins a call.
LEMMA UserRequestsBegin ==
    ASSUME NEW p \in Handlers, NEW u \in Users, UserRequest(p, u)
    PROVE  (\E op, fields : BeginCall(p, op, fields)) /\ rpc[p].stage = "idle"
<1>1. \E op, fields : BeginCall(p, op, fields)
  BY DEF UserRequest, ActivateUser, DeactivateUser, VerifyUser, UpdateUser, UpdateProfile, ChangePasswordHandler,
         ReadForSave, DeleteUser, GetUser, GetProfile, GetUserByID, ReadUser
<1> QED BY <1>1 DEF BeginCall

\* A request about an organization begins a call.
LEMMA OrgRequestsBegin ==
    ASSUME NEW p \in Handlers, NEW o \in Orgs, OrgRequest(p, o)
    PROVE  (\E op, fields : BeginCall(p, op, fields)) /\ rpc[p].stage = "idle"
<1>1. \E op, fields : BeginCall(p, op, fields)
  BY DEF OrgRequest, UpdateOrganization, GetOrganization, HttpGetOrganization, Report, CreateUser, Register,
         HttpRegister, Bulk
<1> QED BY <1>1 DEF BeginCall

\* Every later statement continues the call of its request.
LEMMA StepsContinue ==
    ASSUME NEW p \in Handlers, DirectoryStep(p)
    PROVE  \E fields : Continue(p, fields)
<1>1. ASSUME NEW a, AnswerCall(p, a)
      PROVE  \E fields : Continue(p, fields)
  BY <1>1 DEF AnswerCall
<1>2. ASSUME NEW ok, ItemDone(p, ok)
      PROVE  \E fields : Continue(p, fields)
  BY <1>2 DEF ItemDone
<1>3. CASE SaveUserRow(p) \/ DeleteUserRow(p) \/ CreateUserTx(p) \/ HttpRegisterTx(p)
  BY <1>1, <1>3 DEF SaveUserRow, DeleteUserRow, CreateUserTx, HttpRegisterTx, ReplyTo
<1>4. CASE \/ OrganizationDomainExists(p) \/ UserEmailExists(p) \/ CreateOrganizationRow(p)
           \/ CreateUserRow(p) \/ RegisterTokens(p) \/ ReadBackOrganization(p)
  BY <1>1, <1>4 DEF OrganizationDomainExists, UserEmailExists, CreateOrganizationRow, CreateUserRow, RegisterTokens,
                    ReadBackOrganization, ReplyTo
<1>5. CASE BulkCreateItem(p) \/ BulkUpdateRead(p) \/ BulkUpdateSave(p) \/ BulkDeleteItem(p)
  BY <1>2, <1>5 DEF BulkCreateItem, BulkUpdateRead, BulkUpdateSave, BulkDeleteItem, ItemFails
<1>6. CASE SaveOrganization(p) \/ ReadOrganization(p) \/ FillOrganization(p) \/ CountRows(p) \/ QueryFails(p)
  BY <1>1, <1>6 DEF SaveOrganization, ReadOrganization, FillOrganization, CountRows, QueryFails, ReplyTo
<1> QED BY <1>3, <1>4, <1>5, <1>6 DEF DirectoryStep

\* What a request does to the users at its save.
LEMMA SaveWritesItsRow ==
    ASSUME NEW p \in Handlers, DirectoryStep(p), rpc[p].stage = "save", users' # users
    PROVE  Saving(rpc[p]) /\ Write(rpc[p].user, Saved(rpc[p].user, rpc[p].row))
<1>1. CASE SaveUserRow(p)
  BY <1>1 DEF SaveUserRow, AtStage, Saving, ReplyTo, tables
<1>2. CASE BulkUpdateSave(p)
  BY <1>2 DEF BulkUpdateSave, AtStage, Saving, ItemFails, tables
<1>3. CASE \/ DeleteUserRow(p) \/ CreateUserTx(p) \/ HttpRegisterTx(p) \/ CreateUserRow(p)
           \/ BulkCreateItem(p) \/ BulkDeleteItem(p)
  BY <1>3 DEF DeleteUserRow, CreateUserTx, HttpRegisterTx, CreateUserRow, BulkCreateItem, BulkDeleteItem, AtStage
<1>4. CASE \/ OrganizationDomainExists(p) \/ UserEmailExists(p) \/ CreateOrganizationRow(p)
           \/ RegisterTokens(p) \/ ReadBackOrganization(p)
  BY <1>4 DEF OrganizationDomainExists, UserEmailExists, CreateOrganizationRow, RegisterTokens,
              ReadBackOrganization, AtStage
<1>5. CASE \/ BulkUpdateRead(p) \/ SaveOrganization(p) \/ ReadOrganization(p) \/ FillOrganization(p)
           \/ CountRows(p) \/ QueryFails(p)
  BY <1>5 DEF BulkUpdateRead, SaveOrganization, ReadOrganization, FillOrganization, CountRows, QueryFails,
              ReplyTo, tables
<1> QED BY <1>1, <1>2, <1>3, <1>4, <1>5 DEF DirectoryStep

\* A save of a row that nobody wrote since it was read changes the fields the request sets.
LEMMA SaveKeepsOtherFields ==
    ASSUME DirectoryInv, [DirectoryNext]_directoryVars, NEW p \in Handlers, NEW u \in Users,
           rpc[p].stage = "save", rpc[p].user = u, rpc'[p] # rpc[p], users'[u] # users[u],
           writes[u] = rpc[p].seen
    PROVE  users[u] # NoRow /\ \A f \in DOMAIN users[u] \ rpc[p].sets : users'[u][f] = users[u][f]
<1>1. rpc' # rpc /\ users' # users
  OBVIOUS
<1>2. DirectoryStep(p)
  <2>1. PICK q \in Handlers : (\E x \in Users : UserRequest(q, x)) \/ (\E o \in Orgs : OrgRequest(q, o)) \/ DirectoryStep(q)
    BY <1>1 DEF DirectoryNext, directoryVars, CacheExpires
  <2>2. (\E op, fields : BeginCall(q, op, fields)) \/ (\E fields : Continue(q, fields))
    BY <2>1, UserRequestsBegin, OrgRequestsBegin, StepsContinue
  <2>3. q = p
    BY <2>2, OwnFields
  <2> QED BY <2>1, <2>3, UserRequestsBegin, OrgRequestsBegin
<1>3. Saving(rpc[p]) /\ Write(u, Saved(u, rpc[p].row))
  BY <1>1, <1>2, SaveWritesItsRow
<1>4. users[u] # NoRow /\ \A f \in DOMAIN users[u] \ rpc[p].sets : rpc[p].row[f] = users[u][f]
  BY <1>3 DEF DirectoryInv, SaveInv
<1>5. users'[u] = rpc[p].row
  BY <1>3, <1>4 DEF Write, Saved, DirectoryInv, DirectoryShape
<1> QED BY <1>4, <1>5

\* A save of a whole row loses another request's update, or brings a deleted user back, only when
\* that other request wrote the row between the read and the save, for any number of requests.
THEOREM LostOnlyByOverlap == DirectorySpec => OnlyOverlapLosesUpdates
<1> DEFINE Safe == \A p \in Handlers, u \in Users :
                      (/\ rpc[p].stage = "save" /\ rpc[p].user = u
                       /\ rpc'[p] # rpc[p] /\ users'[u] # users[u]
                       /\ writes[u] = rpc[p].seen)
                      => /\ users[u] # NoRow
                         /\ \A f \in DOMAIN users[u] \ rpc[p].sets : users'[u][f] = users[u][f]
<1>1. DirectoryInit => DirectoryInv
  BY DirectoryStarts
<1>2. DirectoryInv /\ [DirectoryNext]_directoryVars => DirectoryInv'
  BY DirectoryKept
<1>3. DirectoryInv /\ [DirectoryNext]_directoryVars => [Safe]_directoryVars
  BY SaveKeepsOtherFields
<1>4. [][Safe]_directoryVars <=> OnlyOverlapLosesUpdates
  BY DEF OnlyOverlapLosesUpdates
<1> HIDE DEF Safe
<1> QED BY <1>1, <1>2, <1>3, <1>4, PTL DEF DirectorySpec
=============================================================================
