------------------------------- MODULE MCIdentity -------------------------------
(* Identity on a small instance: two people, the protected role and one    *)
(* other, forms that submit one role or one permission.                         *)
EXTENDS Identity

CONSTANTS admin1, clerk

RoleSets == {{admin1}, {clerk}}
PermSets == {{RolesManage}}
=============================================================================
