------------------------------ MODULE Tenants ------------------------------
(***************************************************************************)
(* The database's tenants, keys and policies and who reads them:           *)
(* admin/seed.py (runs of the script, alone or together), a gateway that   *)
(* loads the policies when it starts (core/bootstrap.py), and requests     *)
(* that resolve their key (auth/api_keys.py) and then the policies of      *)
(* their tenant and model (PolicyResolver).                                *)
(*                                                                         *)
(* Keys are looked up in the database by each request, in two queries;     *)
(* policies are loaded once, in two queries too.  Revoking and suspending  *)
(* is done by hand.                                                        *)
(***************************************************************************)
EXTENDS Integers, SequencesExt

CONSTANTS
    Key,        \* API keys, those of the files and others
    Model,      \* models that are requested
    Wildcard,   \* "*"
    File,       \* the versions of tenants.yaml
    Seeder,     \* runs of the seed script
    Request,
    None        \* no policy, no tenant

\* An entry is [key, rate, budget]: its policies map models, or "*", to a limit.
Entries == UNION {ToSet(f) : f \in File}

\* Limits of 0 can be seeded, but no gateway can load them.
ASSUME TenantsAssumption ==
    /\ Wildcard \notin Model
    /\ None \notin Int
    /\ \A f \in File : f \in Seq(Entries)
    /\ \A e \in Entries :
          /\ e.key \in Key
          /\ (DOMAIN e.rate) \cup (DOMAIN e.budget) \subseteq Model \cup {Wildcard}
          /\ e.rate \in [DOMAIN e.rate -> Int] /\ e.budget \in [DOMAIN e.budget -> Int]

VARIABLES
    rows,       \* committed: the entry of each tenant id
    suspended,  \* tenant ids
    revoked,    \* keys
    run,        \* of each seeder: where, its file, entries inserted
    gateway,    \* where the gateway is
    rates,      \* PolicyResolver.rate_limit_policies, by tenant id
    budgets,    \* PolicyResolver.budget_policies
    loadable,   \* history: the tenant ids there were when the load began
    request,    \* where, key, model, tenant and limits of each request; when it is
                \* refused, whether its tenant was there when the load began
    barred      \* history: requests that began with a key or tenant already barred

database    == <<rows, suspended, revoked>>
gatewayVars == <<gateway, rates, budgets, loadable>>
requestVars == <<request, barred>>
vars        == <<database, run, gatewayVars, requestVars>>

\* Ids are UUIDs: those of a run's entries are its own.
Id(s, i) == <<s, i>>

TenantOf(k) == {t \in DOMAIN rows : rows[t].key = k}

\* The rows of a run's transaction.
Inserted(s) ==
    [t \in {Id(s, i) : i \in 1 .. run[s].inserted} |-> run[s].file[t[2]]]

\* The table with them.
Committed(s) ==
    [t \in DOMAIN rows \cup DOMAIN Inserted(s) |->
        IF t \in DOMAIN rows THEN rows[t] ELSE Inserted(s)[t]]

PendingKeys(s) == {run[s].file[i].key : i \in 1 .. run[s].inserted}

-----------------------------------------------------------------------------
Init ==
    /\ rows = <<>>
    /\ suspended = {}
    /\ revoked = {}
    /\ run = [s \in Seeder |-> [at |-> "idle", file |-> <<>>, inserted |-> 0]]
    /\ gateway = "down"
    /\ rates = <<>>
    /\ budgets = <<>>
    /\ loadable = {}
    /\ request = [r \in Request |-> [at |-> "new", key |-> None, model |-> None,
                                     tenant |-> None, rate |-> None, budget |-> None,
                                     early |-> FALSE]]
    /\ barred = {}

Ends(s, where) == run' = [run EXCEPT ![s].at = where, ![s].inserted = 0]

\* seed_from_config reads the file as it is now.
BeginSeed(s, file) ==
    /\ run[s].at = "idle"
    /\ run' = [run EXCEPT ![s].at = "seeding", ![s].file = file]
    /\ UNCHANGED <<database, gatewayVars, requestVars>>

\* Seeded bug: key_hash has no unique index.
IsDuplicateNever(s, k) == FALSE

\* key_hash is unique, revoked keys included.
IsDuplicate(s, k) == TenantOf(k) # {} \/ k \in PendingKeys(s)

\* _seed_tenant_entry.  The database makes it wait while the key is in an open
\* transaction, and fails it if the key is there: then nothing of the run stays.
SeedTenantEntry(s) ==
    LET i == run[s].inserted + 1
        k == run[s].file[i].key
    IN  /\ run[s].at = "seeding"
        /\ i <= Len(run[s].file)
        /\ \A o \in Seeder \ {s} : k \notin PendingKeys(o)
        /\ IF IsDuplicate(s, k) THEN Ends(s, "failed")
                                ELSE run' = [run EXCEPT ![s].inserted = i]
        /\ UNCHANGED <<database, gatewayVars, requestVars>>

Commit(s) ==
    /\ run[s].at = "seeding"
    /\ run[s].inserted = Len(run[s].file)
    /\ rows' = Committed(s)
    /\ Ends(s, "done")
    /\ UNCHANGED <<suspended, revoked, gatewayVars, requestVars>>

\* Seeded bug: each entry is committed on its own.
SeederDiesHalfway(s) ==
    /\ run[s].at = "seeding"
    /\ rows' = Committed(s)
    /\ Ends(s, "failed")
    /\ UNCHANGED <<suspended, revoked, gatewayVars, requestVars>>

\* The script is killed, or the database ends its transaction.
SeederDies(s) ==
    /\ run[s].at = "seeding"
    /\ Ends(s, "failed")
    /\ UNCHANGED <<database, gatewayVars, requestVars>>

\* By hand: there is no other way to end a key or a tenant.
Revoke(k) ==
    /\ TenantOf(k) # {}
    /\ revoked' = revoked \cup {k}
    /\ UNCHANGED <<rows, suspended, run, gatewayVars, requestVars>>

Suspend(t) ==
    /\ suspended' = suspended \cup {t}
    /\ UNCHANGED <<rows, revoked, run, gatewayVars, requestVars>>

-----------------------------------------------------------------------------
Policies(kind) == [t \in DOMAIN rows |-> rows[t][kind]]

\* _load_policy_resolver's first query.
LoadRates ==
    /\ gateway = "down"
    /\ gateway' = "loading"
    /\ rates' = Policies("rate")
    /\ loadable' = DOMAIN rows
    /\ UNCHANGED <<database, run, budgets, requestVars>>

IsValid(table) == \A t \in DOMAIN table : \A m \in DOMAIN table[t] : table[t][m] > 0

\* Its second query, and the validation of both results: one wrong row of one tenant
\* leaves the process without a gateway.
LoadBudgets ==
    /\ gateway = "loading"
    /\ budgets' = Policies("budget")
    /\ gateway' = IF IsValid(rates) /\ IsValid(budgets') THEN "up" ELSE "degraded"
    /\ UNCHANGED <<database, run, rates, loadable, requestVars>>

\* The process ends, and with it its requests.
Stop ==
    /\ gateway \in {"up", "degraded"}
    /\ gateway' = "down"
    /\ rates' = <<>>
    /\ budgets' = <<>>
    /\ loadable' = {}
    /\ request' = [r \in Request |->
           IF request[r].at \in {"keyed", "authenticated"}
           THEN [request[r] EXCEPT !.at = "lost"] ELSE request[r]]
    /\ UNCHANGED <<database, run, barred>>

-----------------------------------------------------------------------------
Serving == gateway \in {"up", "degraded"}

Becomes(r, q) ==
    /\ request' = [request EXCEPT ![r] = q]
    /\ UNCHANGED <<database, run, gatewayVars>>

\* resolve_tenant's first query.
ReadKey(r, k, m) ==
    /\ Serving
    /\ request[r].at = "new"
    /\ \/ \E t \in TenantOf(k) :
             /\ k \notin revoked
             /\ Becomes(r, [request[r] EXCEPT !.at = "keyed", !.key = k, !.model = m,
                                              !.tenant = t])
       \/ /\ TenantOf(k) = {} \/ k \in revoked
          /\ Becomes(r, [request[r] EXCEPT !.at = "401", !.key = k, !.model = m])
    /\ barred' = IF k \in revoked \/ \E t \in TenantOf(k) : t \in suspended
                 THEN barred \cup {r} ELSE barred

\* Seeded bug: the tenant's status is not looked at.
ReadTenantUnchecked(r) ==
    /\ request[r].at = "keyed"
    /\ Becomes(r, [request[r] EXCEPT !.at = "authenticated"])
    /\ UNCHANGED barred

\* Its second query.
ReadTenant(r) ==
    /\ request[r].at = "keyed"
    /\ Becomes(r, [request[r] EXCEPT !.at =
                       IF request[r].tenant \in suspended THEN "401" ELSE "authenticated"])
    /\ UNCHANGED barred

\* Seeded bug: the wildcard comes before the model's own policy.
LookupWildcardFirst(table, t, model) ==
    LET policies == IF t \in DOMAIN table THEN table[t] ELSE <<>>
    IN  IF Wildcard \in DOMAIN policies THEN policies[Wildcard]
        ELSE IF model \in DOMAIN policies THEN policies[model]
        ELSE None

\* Seeded bug: the wildcard is forgotten.
LookupExact(table, t, model) ==
    IF t \in DOMAIN table /\ model \in DOMAIN table[t] THEN table[t][model] ELSE None

\* PolicyResolver: the model's own policy, else the wildcard's.
Lookup(table, t, model) ==
    LET policies == IF t \in DOMAIN table THEN table[t] ELSE <<>>
    IN  IF model \in DOMAIN policies THEN policies[model]
        ELSE IF Wildcard \in DOMAIN policies THEN policies[Wildcard]
        ELSE None

\* handle_request: rate_limit_for() and budget_for(), before anything is consumed.
ResolvePolicies(r) ==
    LET rate   == Lookup(rates, request[r].tenant, request[r].model)
        budget == Lookup(budgets, request[r].tenant, request[r].model)
    IN  /\ request[r].at = "authenticated"
        /\ \/ /\ gateway = "degraded"
              /\ Becomes(r, [request[r] EXCEPT !.at = "unserved"])
           \/ /\ gateway = "up" /\ None \in {rate, budget}
              /\ Becomes(r, [request[r] EXCEPT !.at = "403",
                                               !.early = request[r].tenant \in loadable])
           \/ /\ gateway = "up" /\ None \notin {rate, budget}
              /\ Becomes(r, [request[r] EXCEPT !.at = "admitted", !.rate = rate,
                                               !.budget = budget])
        /\ UNCHANGED barred

Done ==
    /\ \A s \in Seeder : run[s].at \in {"done", "failed"}
    /\ \A r \in Request : request[r].at \notin {"new", "keyed", "authenticated"}
    /\ UNCHANGED vars

Next ==
    \/ \E s \in Seeder :
          \/ \E file \in File : BeginSeed(s, file)
          \/ SeedTenantEntry(s)
          \/ Commit(s)
          \/ SeederDies(s)
    \/ \E k \in Key : Revoke(k)
    \/ \E t \in DOMAIN rows : Suspend(t)
    \/ LoadRates
    \/ LoadBudgets
    \/ Stop
    \/ \E r \in Request :
          \/ \E k \in Key, m \in Model : ReadKey(r, k, m)
          \/ ReadTenant(r)
          \/ ResolvePolicies(r)
    \/ Done

Spec == Init /\ [][Next]_vars

-----------------------------------------------------------------------------
\* The tables, the runs, of which only open ones hold keys, and what was loaded.
StoreOK ==
    /\ rows \in [DOMAIN rows -> Entries]
    /\ DOMAIN rows \subseteq Seeder \X (Nat \ {0})
    /\ suspended \subseteq DOMAIN rows
    /\ revoked \subseteq Key
    /\ run \in [Seeder -> [at : {"idle", "seeding", "done", "failed"},
                           file : File \cup {<<>>}, inserted : Nat]]
    /\ \A s \in Seeder : /\ run[s].inserted <= Len(run[s].file)
                         /\ run[s].inserted > 0 => run[s].at = "seeding"
    /\ gateway \in {"down", "loading", "up", "degraded"}
    /\ DOMAIN rates \cup DOMAIN budgets \cup loadable \subseteq DOMAIN rows
    /\ barred \subseteq Request

\* What a request has come to know, as far as it has come.
RequestState ==
    [at     : {"new", "keyed", "authenticated", "admitted", "401", "403", "unserved", "lost"},
     key    : Key \cup {None},
     model  : Model \cup {None},
     tenant : DOMAIN rows \cup {None},
     rate   : Int \cup {None},
     budget : Int \cup {None},
     early  : BOOLEAN]

\* The requests: none is between its queries when the gateway is down.
RequestsOK ==
    /\ request \in [Request -> RequestState]
    /\ \A r \in Request : request[r].at \in {"keyed", "authenticated"} => Serving

TypeOK == StoreOK /\ RequestsOK

\* However runs overlap, fail or are repeated, a key is that of one tenant.
OneTenantPerKey == \A k \in Key : \A t, u \in TenantOf(k) : t = u

\* A run leaves all of its file's tenants behind or none, as other runs and crashes
\* may be.
SeedIsAtomic ==
    \A s \in Seeder : {t \in DOMAIN rows : t[1] = s} =
        IF run[s].at = "done" THEN {Id(s, i) : i \in DOMAIN run[s].file} ELSE {}

\* A request that begins after its key was revoked, or its tenant suspended, is never
\* authenticated.
BarredIsRefused ==
    \A r \in barred : request[r].at \in {"keyed", "401", "lost"}

\* The limit that an entry sets for a model: the most specific one.
Written(policies, model) ==
    LET applies == {m \in {model, Wildcard} : m \in DOMAIN policies}
    IN  CASE applies = {}        -> None
          [] applies = {Wildcard} -> policies[Wildcard]
          [] OTHER               -> policies[model]

\* An admitted request is held to the limits that the entry of its key has for its
\* model, both of them, although each was loaded at another time than the key.
HeldToOwnLimits ==
    \A r \in Request : request[r].at = "admitted" =>
        \E t \in TenantOf(request[r].key) :
            /\ request[r].rate = Written(rows[t].rate, request[r].model)
            /\ request[r].budget = Written(rows[t].budget, request[r].model)
            /\ None \notin {request[r].rate, request[r].budget}

\* An authenticated tenant that its entry entitles to the model is refused only if it
\* was seeded after the gateway had begun to load.
DeniedOnlyIfLate ==
    \A r \in Request : request[r].at = "403" /\ request[r].early =>
        LET t == request[r].tenant
        IN  None \in {Written(rows[t].rate, request[r].model),
                      Written(rows[t].budget, request[r].model)}
=============================================================================
