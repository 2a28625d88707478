------------------------------ MODULE MCAccess ------------------------------
(* TLC instance of Access: two users with the same password, who change the  *)
(* status of others, create an administrator, or log in.                     *)
EXTENDS Access, TLC

CONSTANTS q1, q2, q3, u1, u2, changeStatus, createAdmin, login

MCRequests   == {q1, q2, q3}
MCUsers      == {u1, u2}
MCUserRoles  == {"super_admin", "staff"}
MCManaged    == {changeStatus, createAdmin}
MCNeeds      == [uc \in MCManaged |-> {"can_manage_users"}]
MCRoleBound  == {createAdmin}
MCOpen       == {login}
MCPasswords  == {"p", "wrong"}
MCPasswordOf == [u \in MCUsers |-> "p"]
Symmetry     == Permutations(MCRequests) \cup Permutations(MCUsers)
=============================================================================
