-------------------------- MODULE MCTenantAccess ---------------------------
(***************************************************************************)
(* TenantAccess with two calls in flight, three in all, one request that   *)
(* fails or one crash, and one address, which is a member of the           *)
(* organisation or may be invited to it.                                   *)
(***************************************************************************)
EXTENDS TenantAccess

MCRoles == {"Admin_Site", "User_Site"}
MCInherited == [r \in MCRoles |-> IF r = "Admin_Site" THEN {"User_Site"} ELSE {}]

=============================================================================
