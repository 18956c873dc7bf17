---------------------- MODULE MCTenantAdministration ----------------------
(***************************************************************************)
(* TenantAdministration for TLC: the identities are interchangeable.      *)
(***************************************************************************)
EXTENDS TenantAdministration, TLC

CONSTANT h1

\* Administrators against each other, on Roles, or one with Workloads.
VARIABLE part

Symmetry ==
    Permutations(Transactions) \cup Permutations(IdempotencyKeys) \cup Permutations(Memberships)
    \cup Permutations(CustomRoles) \cup Permutations(Workloads) \cup Permutations(ApiKeys)

Running == {tx[t] : t \in Transactions} \ {Idle}
KeysUsed == {c.key : c \in Running} \cup {i.key : i \in ledger}

Only(ops) == \A c \in Running : c.op \in ops

AmongAdministrators ==
    /\ part = "administrators"
    /\ Only({"UpdateMembership", "BindRole", "UnbindRole", "UpdateAccess"})
    /\ \/ Cardinality(KeysUsed) <= 1
       \/ Only({"UpdateMembership", "BindRole", "UnbindRole"}) /\ accessRow.version = 1

WithRoles ==
    /\ part = "roles"
    /\ Only({"BindRole", "UnbindRole", "CreateRole", "UpdateRole", "DeleteRole",
             "CreateTenantWorkload"})
    /\ Cardinality(KeysUsed) <= 1

WithWorkloads ==
    /\ part = "workloads"
    /\ Only({"CreateTenantWorkload", "UpdateTenantWorkload", "UpdateMembership",
             "CreateAPIKey", "RevokeAPIKey"})
    /\ \A c \in Running :
          /\ c.actor = h1
          /\ c.op = "UpdateMembership" => member[c.args.target].principal \in Workloads \cup {h1}

MCInit ==
    /\ part \in {"administrators", "roles", "workloads"}
    /\ Init
    /\ part = "workloads" => IsActiveHumanAdministratorPrincipal(h1)
MCNext == Next /\ UNCHANGED part /\ (AmongAdministrators \/ WithRoles \/ WithWorkloads)'
MCSpec == MCInit /\ [][MCNext]_<<vars, part>>
=============================================================================
