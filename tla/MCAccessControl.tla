-------------------------- MODULE MCAccessControl --------------------------
(* Instances of AccessControl for TLC: an administrator with every         *)
(* permission and an editor who may assign roles.                          *)
EXTENDS AccessControl, TLC

CONSTANTS r1, r2, adm, usr, admin, editor, editor2,
          create, delete, update, assign, pCreate, pDelete, update2

TwoRequests == {r1, r2}
Symmetry == Permutations(TwoRequests)

Names == [x \in {admin, editor, editor2} |-> IF x = admin THEN "admin" ELSE "editor"]
Keys == [p \in {create, delete, update, assign, pCreate, pDelete, update2} |->
  CASE p = create -> "roles.create" [] p = delete -> "roles.delete"
    [] p \in {update, update2} -> "roles.update" [] p = assign -> "roles.assign"
    [] p = pCreate -> "permissions.create" [] p = pDelete -> "permissions.delete"]

First == LET P == {create, delete, update, assign, pCreate, pDelete} IN
  [role |-> {admin, editor}, perm |-> P,
   grant |-> ({admin} \X P) \cup {<<editor, assign>>},
   member |-> {<<adm, admin>>, <<usr, editor>>}]

Of(k, x, p) == [kind |-> k, role |-> x, perm |-> p, user |-> usr]

(* Permissions of the editor come and go. *)
Grants == {Of("assignPermission", editor, update), Of("revokePermission", editor, update),
           Of("assignRole", editor, update), Of("revokeRole", editor, update)}

(* Rows come and go. *)
Rows == {Of("createRole", editor2, update), Of("deleteRole", editor, update),
         Of("createPermission", editor, update2), Of("deletePermission", editor, update)}

AllOps == Grants \cup Rows
=============================================================================
