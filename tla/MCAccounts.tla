----------------------------- MODULE MCAccounts -----------------------------
(***************************************************************************)
(* Instances of Accounts for TLC.                                          *)
(***************************************************************************)
EXTENDS Accounts, TLC

CONSTANTS o, a, b, t1

SomeUpdates ==
    {[role |-> "viewer", active |-> Keep, password |-> FALSE],
     [role |-> "admin", active |-> TRUE, password |-> TRUE],
     [role |-> Keep, active |-> FALSE, password |-> FALSE]}

\* A platform in use: an operator, a tenant and two admins of it, reached by
\* bootstrap_operator, create_tenant with a password and create_user.
Established ==
    [EmptyTables EXCEPT
        !.users = (o :> [PlatformOperator EXCEPT !.id = 1]) @@
                  (a :> [TenantUser("admin", t1, TRUE) EXCEPT !.id = 2]) @@
                  (b :> [TenantUser("admin", t1, TRUE) EXCEPT !.id = 3]) @@ @,
        !.tenants[t1] = [status |-> "active"],
        !.trail[t1] = CreateEntry]

MCInit == Init \/ Start(Established, 4)
MCSpec == MCInit /\ [][Next]_vars

SlotSymmetry == Permutations(Slots)
=============================================================================
