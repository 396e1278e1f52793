---------------------------- MODULE TenantsProofs ----------------------------
(***************************************************************************)
(* Proofs about Tenants for any number of runs of the seed script, over    *)
(* any files, next to any requests, revocations and restarts.              *)
(***************************************************************************)
EXTENDS Tenants, TLAPS

\* The entry of a run's i-th row.
EntryOf(s, i) == run[s].file[i]

\* What the unique index keeps true of open transactions: their keys are distinct,
\* not those of another open transaction and not committed.
PendingFits ==
    /\ \A s \in Seeder : \A i, j \in 1 .. run[s].inserted :
           EntryOf(s, i).key = EntryOf(s, j).key => i = j
    /\ \A s, o \in Seeder : s # o => PendingKeys(s) \cap PendingKeys(o) = {}
    /\ \A s \in Seeder : \A t \in DOMAIN rows : rows[t].key \notin PendingKeys(s)

\* No key stands in two rows.
KeysDiffer == \A t, u \in DOMAIN rows : rows[t].key = rows[u].key => t = u

\* The inductive invariant of the tables.
IInv == StoreOK /\ SeedIsAtomic /\ PendingFits /\ KeysDiffer

-----------------------------------------------------------------------------
\* The tables are empty at first and no run has begun.
LEMMA InitHolds == Init => IInv
<1> SUFFICES ASSUME Init PROVE IInv
  OBVIOUS
<1>1. DOMAIN rows = {} /\ rows \in [{} -> Entries] /\ DOMAIN rates = {} /\ DOMAIN budgets = {}
  BY DEF Init
<1>2. \A s \in Seeder : run[s] = [at |-> "idle", file |-> <<>>, inserted |-> 0]
  BY DEF Init
<1>3. StoreOK
  BY <1>1, <1>2 DEF Init, StoreOK
<1>4. SeedIsAtomic
  BY <1>1, <1>2 DEF SeedIsAtomic
<1>5. PendingFits /\ KeysDiffer
  BY <1>1, <1>2 DEF PendingFits, KeysDiffer, PendingKeys, EntryOf
<1> QED
  BY <1>3, <1>4, <1>5 DEF IInv

\* What is true of the runs and the rows stays true when neither changes.
LEMMA SameHolds ==
    ASSUME SeedIsAtomic, PendingFits, KeysDiffer, rows' = rows, run' = run
    PROVE  SeedIsAtomic' /\ PendingFits' /\ KeysDiffer'
<1>1. SeedIsAtomic'
  BY DEF SeedIsAtomic, Id
<1>2. \A s \in Seeder : PendingKeys(s)' = PendingKeys(s)
  BY DEF PendingKeys
<1>3. PendingFits'
  BY <1>2 DEF PendingFits, EntryOf
<1> QED
  BY <1>1, <1>3 DEF KeysDiffer

\* A run that ends without a commit, or one that begins, has no pending rows.
LEMMA CloseHolds ==
    ASSUME IInv, NEW s \in Seeder, NEW c, rows' = rows,
           run' = [run EXCEPT ![s] = c],
           run[s].at # "done", c.at # "done", c.inserted = 0
    PROVE  SeedIsAtomic' /\ PendingFits' /\ KeysDiffer'
<1> USE DEF IInv, StoreOK
<1>1. run'[s] = c /\ \A o \in Seeder : o # s => run'[o] = run[o]
  OBVIOUS
<1>2. SeedIsAtomic'
  BY <1>1 DEF SeedIsAtomic, Id
<1>3. PendingKeys(s)' = {} /\ \A o \in Seeder : o # s => PendingKeys(o)' = PendingKeys(o)
  BY <1>1 DEF PendingKeys
<1>4. PendingFits'
  <2>1. \A p \in Seeder : \A i, j \in 1 .. run'[p].inserted :
            run'[p].file[i].key = run'[p].file[j].key => i = j
    BY <1>1 DEF PendingFits, EntryOf
  <2>2. \A p, o \in Seeder : p # o => PendingKeys(p)' \cap PendingKeys(o)' = {}
    BY <1>3 DEF PendingFits
  <2>3. \A p \in Seeder : \A t \in DOMAIN rows : rows[t].key \notin PendingKeys(p)'
    BY <1>3 DEF PendingFits
  <2> QED
    BY <2>1, <2>2, <2>3 DEF PendingFits, EntryOf
<1>5. KeysDiffer'
  BY DEF KeysDiffer
<1> QED
  BY <1>2, <1>4, <1>5

\* A row is inserted only when its key is neither committed nor pending.
LEMMA InsertHolds ==
    ASSUME IInv, NEW s \in Seeder, SeedTenantEntry(s)
    PROVE  StoreOK' /\ SeedIsAtomic' /\ PendingFits' /\ KeysDiffer'
<1> USE DEF IInv
<1> DEFINE i == run[s].inserted + 1
           k == run[s].file[i].key
<1>1. /\ run[s].at = "seeding" /\ i <= Len(run[s].file)
      /\ \A o \in Seeder \ {s} : k \notin PendingKeys(o)
      /\ rows' = rows /\ UNCHANGED <<database, gatewayVars, requestVars>>
  BY DEF SeedTenantEntry, database
<1>2. run[s] \in [at : {"idle", "seeding", "done", "failed"},
                  file : File \cup {<<>>}, inserted : Nat]
  BY DEF StoreOK
<1>3. CASE IsDuplicate(s, k)
  <2> DEFINE c == [run[s] EXCEPT !.at = "failed", !.inserted = 0]
  <2>1. run' = [run EXCEPT ![s] = c]
    BY <1>3 DEF SeedTenantEntry, Ends
  <2>2. c.at = "failed" /\ c.inserted = 0 /\ c.file = run[s].file
        /\ c \in [at : {"idle", "seeding", "done", "failed"},
                  file : File \cup {<<>>}, inserted : Nat]
    BY <1>2
  <2> HIDE DEF c
  <2>3. SeedIsAtomic' /\ PendingFits' /\ KeysDiffer'
    BY <1>1, <2>1, <2>2, CloseHolds
  <2>4. StoreOK'
    BY <1>1, <2>1, <2>2 DEF StoreOK, database, gatewayVars, requestVars
  <2> QED
    BY <2>3, <2>4
<1>4. CASE ~IsDuplicate(s, k)
  <2>1. run' = [run EXCEPT ![s].inserted = i]
    BY <1>4 DEF SeedTenantEntry
  <2>2. TenantOf(k) = {} /\ k \notin PendingKeys(s) /\ i \in Nat
    BY <1>2, <1>4 DEF IsDuplicate
  <2>3. /\ run'[s].at = "seeding" /\ run'[s].file = run[s].file /\ run'[s].inserted = i
        /\ \A o \in Seeder : o # s => run'[o] = run[o]
    BY <1>1, <2>1 DEF StoreOK
  <2>4. StoreOK'
    BY <1>1, <1>2, <2>1, <2>2, <2>3 DEF StoreOK, database, gatewayVars, requestVars
  <2>5. SeedIsAtomic'
    BY <1>1, <2>3 DEF SeedIsAtomic, Id
  <2>6. KeysDiffer'
    BY <1>1 DEF KeysDiffer
  <2>7. \A j \in 1 .. i : j \in 1 .. run[s].inserted \/ j = i
    BY <1>2
  <2>8. \A j \in 1 .. run[s].inserted : run[s].file[j].key # k
    BY <2>2 DEF PendingKeys
  <2>9. PendingKeys(s)' = PendingKeys(s) \cup {k}
    <3>1. i \in 1 .. i /\ 1 .. run[s].inserted \subseteq 1 .. i
      BY <1>2
    <3> QED
      BY <2>3, <2>7, <3>1 DEF PendingKeys
  <2>10. \A o \in Seeder : o # s => PendingKeys(o)' = PendingKeys(o)
    BY <2>3 DEF PendingKeys
  <2>11. \A t \in DOMAIN rows : rows[t].key # k
    BY <2>2 DEF TenantOf
  <2> HIDE DEF i, k
  <2>12. PendingFits'
    <3>1. \A p \in Seeder : \A a, b \in 1 .. run'[p].inserted :
              run'[p].file[a].key = run'[p].file[b].key => a = b
      BY <2>3, <2>7, <2>8 DEF PendingFits, EntryOf, k
    <3>2. \A p, o \in Seeder : p # o => PendingKeys(p)' \cap PendingKeys(o)' = {}
      BY <1>1, <2>9, <2>10 DEF PendingFits
    <3>3. \A p \in Seeder : \A t \in DOMAIN rows : rows[t].key \notin PendingKeys(p)'
      BY <2>9, <2>10, <2>11 DEF PendingFits
    <3> QED
      BY <1>1, <3>1, <3>2, <3>3 DEF PendingFits, EntryOf
  <2> QED
    BY <2>4, <2>5, <2>6, <2>12
<1> QED
  BY <1>3, <1>4

\* A commit adds all rows of the run at once, with keys that no row has.
LEMMA CommitHolds ==
    ASSUME IInv, NEW s \in Seeder, Commit(s)
    PROVE  StoreOK' /\ SeedIsAtomic' /\ PendingFits' /\ KeysDiffer'
<1> USE DEF IInv
<1> DEFINE n   == run[s].inserted
           f   == run[s].file
           New == {Id(s, i) : i \in 1 .. n}
           c   == [run[s] EXCEPT !.at = "done", !.inserted = 0]
<1>1. /\ run[s] \in [at : {"idle", "seeding", "done", "failed"},
                     file : File \cup {<<>>}, inserted : Nat]
      /\ n \in Nat /\ f \in Seq(Entries) /\ DOMAIN f = 1 .. n
      /\ run[s].at = "seeding"
  <2>1. run[s] \in [at : {"idle", "seeding", "done", "failed"},
                    file : File \cup {<<>>}, inserted : Nat]
    BY DEF StoreOK
  <2>2. f \in Seq(Entries)
    <3>1. f \in File \cup {<<>>} /\ <<>> \in Seq(Entries)
      BY <2>1
    <3>2. \A g \in File : g \in Seq(Entries)
      BY TenantsAssumption
    <3> HIDE DEF f
    <3> QED
      BY <3>1, <3>2
  <2> QED
    BY <2>1, <2>2 DEF Commit
<1>2. /\ run' = [run EXCEPT ![s] = c]
      /\ c.at = "done" /\ c.inserted = 0 /\ c.file = f
      /\ c \in [at : {"idle", "seeding", "done", "failed"},
                file : File \cup {<<>>}, inserted : Nat]
  BY <1>1 DEF Commit, Ends
<1>3. /\ DOMAIN Inserted(s) = New
      /\ \A i \in 1 .. n : Inserted(s)[Id(s, i)] = f[i] /\ Id(s, i)[1] = s /\ Id(s, i)[2] = i
  BY DEF Inserted, Id
<1>4. New \cap DOMAIN rows = {}
  BY <1>1, <1>3 DEF SeedIsAtomic
<1>5. /\ DOMAIN rows' = DOMAIN rows \cup New
      /\ \A t \in DOMAIN rows : rows'[t] = rows[t]
      /\ \A i \in 1 .. n : rows'[Id(s, i)] = f[i]
  BY <1>3, <1>4 DEF Commit, Committed
<1>6. /\ run'[s] = c /\ \A o \in Seeder : o # s => run'[o] = run[o]
  BY <1>2 DEF StoreOK
<1> HIDE DEF c
<1>7. StoreOK'
  <2>1. \A t \in New : rows'[t] \in Entries
    BY <1>1, <1>5
  <2>2. rows' \in [DOMAIN rows' -> Entries]
    BY <1>5, <2>1 DEF StoreOK, Commit, Committed
  <2>3. New \subseteq Seeder \X (Nat \ {0})
    BY <1>1 DEF Id
  <2>4. run' \in [Seeder -> [at : {"idle", "seeding", "done", "failed"},
                             file : File \cup {<<>>}, inserted : Nat]]
    BY <1>2 DEF StoreOK
  <2>5. \A o \in Seeder : /\ run'[o].inserted <= Len(run'[o].file)
                          /\ run'[o].inserted > 0 => run'[o].at = "seeding"
    BY <1>1, <1>2, <1>6 DEF StoreOK
  <2>6. UNCHANGED <<suspended, revoked, gateway, rates, budgets, loadable, barred>>
    BY DEF Commit, gatewayVars, requestVars
  <2> QED
    BY <1>5, <2>2, <2>3, <2>4, <2>5, <2>6 DEF StoreOK
<1>8. SeedIsAtomic'
  <2>1. \A o \in Seeder : o # s =>
            {t \in DOMAIN rows' : t[1] = o} = {t \in DOMAIN rows : t[1] = o}
    BY <1>3, <1>5
  <2>2. {t \in DOMAIN rows' : t[1] = s} = New
    BY <1>1, <1>3, <1>5 DEF SeedIsAtomic
  <2> QED
    BY <1>1, <1>2, <1>6, <2>1, <2>2 DEF SeedIsAtomic
<1>9. PendingKeys(s) = {f[i].key : i \in 1 .. n}
  BY DEF PendingKeys
<1>10. PendingKeys(s)' = {} /\ \A o \in Seeder : o # s => PendingKeys(o)' = PendingKeys(o)
  BY <1>2, <1>6 DEF PendingKeys
<1>11. \A t \in DOMAIN rows' : t \in DOMAIN rows \/ \E i \in 1 .. n : t = Id(s, i)
  BY <1>5
<1>12. PendingFits'
  <2>1. \A p \in Seeder : \A i, j \in 1 .. run'[p].inserted :
            run'[p].file[i].key = run'[p].file[j].key => i = j
    BY <1>2, <1>6 DEF PendingFits, EntryOf
  <2>2. \A p, o \in Seeder : p # o => PendingKeys(p)' \cap PendingKeys(o)' = {}
    BY <1>10 DEF PendingFits
  <2>3. ASSUME NEW p \in Seeder, NEW t \in DOMAIN rows'
        PROVE  rows'[t].key \notin PendingKeys(p)'
    <3>1. CASE p = s
      BY <1>10, <3>1
    <3>2. CASE p # s /\ t \in DOMAIN rows
      BY <1>5, <1>10, <3>2 DEF PendingFits
    <3>3. CASE p # s /\ t \notin DOMAIN rows
      <4>1. PICK i \in 1 .. n : t = Id(s, i)
        BY <1>11, <3>3
      <4>2. rows'[t].key \in PendingKeys(s)
        BY <1>5, <1>9, <4>1
      <4> QED
        BY <1>10, <3>3, <4>2 DEF PendingFits
    <3> QED
      BY <3>1, <3>2, <3>3
  <2> QED
    BY <2>1, <2>2, <2>3 DEF PendingFits, EntryOf
<1>13. KeysDiffer'
  <2>1. \A i \in 1 .. n : f[i].key \in PendingKeys(s)
    BY <1>9
  <2>2. \A i, j \in 1 .. n : f[i].key = f[j].key => i = j
    BY DEF PendingFits, EntryOf
  <2>3. \A t \in DOMAIN rows : \A i \in 1 .. n : rows[t].key # f[i].key
    BY <2>1 DEF PendingFits
  <2> HIDE DEF New, n, f
  <2>4. ASSUME NEW t \in DOMAIN rows', NEW u \in DOMAIN rows', rows'[t].key = rows'[u].key
        PROVE  t = u
    <3>1. CASE t \in DOMAIN rows /\ u \in DOMAIN rows
      BY <1>5, <2>4, <3>1 DEF KeysDiffer
    <3>2. CASE t \notin DOMAIN rows /\ u \notin DOMAIN rows
      <4>1. PICK i \in 1 .. n : t = Id(s, i)
        BY <1>11, <3>2
      <4>2. PICK j \in 1 .. n : u = Id(s, j)
        BY <1>11, <3>2
      <4> QED
        BY <1>5, <2>2, <2>4, <4>1, <4>2
    <3>3. CASE t \in DOMAIN rows /\ u \notin DOMAIN rows
      BY <1>5, <1>11, <2>3, <2>4, <3>3
    <3>4. CASE t \notin DOMAIN rows /\ u \in DOMAIN rows
      BY <1>5, <1>11, <2>3, <2>4, <3>4
    <3> QED
      BY <3>1, <3>2, <3>3, <3>4
  <2> QED
    BY <2>4 DEF KeysDiffer
<1> QED
  BY <1>7, <1>8, <1>12, <1>13

-----------------------------------------------------------------------------
\* Every step keeps the invariant.
LEMMA StepHolds == IInv /\ [Next]_vars => IInv'
<1> SUFFICES ASSUME IInv, [Next]_vars PROVE IInv'
  OBVIOUS
<1> USE DEF IInv
<1> USE DEF database, gatewayVars, requestVars
<1>1. ASSUME NEW s \in Seeder, NEW file \in File, BeginSeed(s, file) PROVE IInv'
  <2> DEFINE c == [run[s] EXCEPT !.at = "seeding", !.file = file]
  <2>1. run[s] \in [at : {"idle", "seeding", "done", "failed"},
                    file : File \cup {<<>>}, inserted : Nat]
        /\ run[s].inserted = 0 /\ run[s].at = "idle"
    BY <1>1 DEF StoreOK, BeginSeed
  <2>2. /\ c.at = "seeding" /\ c.inserted = 0 /\ c.file = file
        /\ c \in [at : {"idle", "seeding", "done", "failed"},
                  file : File \cup {<<>>}, inserted : Nat]
    BY <2>1
  <2>3. run' = [run EXCEPT ![s] = c]
    BY <1>1 DEF BeginSeed
  <2>4. Len(file) \in Nat
    <3>1. file \in Seq(Entries)
      BY TenantsAssumption
    <3> QED
      BY <3>1
  <2> HIDE DEF c
  <2>5. SeedIsAtomic' /\ PendingFits' /\ KeysDiffer'
    BY <1>1, <2>1, <2>2, <2>3, CloseHolds DEF BeginSeed
  <2>6. StoreOK'
    <3>1. /\ run' \in [Seeder -> [at : {"idle", "seeding", "done", "failed"},
                               file : File \cup {<<>>}, inserted : Nat]]
          /\ run'[s] = c /\ \A o \in Seeder : o # s => run'[o] = run[o]
      BY <2>2, <2>3 DEF StoreOK
    <3>2. \A o \in Seeder : /\ run'[o].inserted <= Len(run'[o].file)
                            /\ run'[o].inserted > 0 => run'[o].at = "seeding"
      BY <2>2, <2>4, <3>1 DEF StoreOK
    <3> QED
      BY <1>1, <3>1, <3>2 DEF StoreOK, BeginSeed
  <2> QED
    BY <2>5, <2>6
<1>2. ASSUME NEW s \in Seeder, SeedTenantEntry(s) PROVE IInv'
  BY <1>2, InsertHolds
<1>3. ASSUME NEW s \in Seeder, Commit(s) PROVE IInv'
  BY <1>3, CommitHolds
<1>4. ASSUME NEW s \in Seeder, SeederDies(s) PROVE IInv'
  <2> DEFINE c == [run[s] EXCEPT !.at = "failed", !.inserted = 0]
  <2>1. run[s] \in [at : {"idle", "seeding", "done", "failed"},
                    file : File \cup {<<>>}, inserted : Nat]
        /\ run[s].at = "seeding"
    BY <1>4 DEF StoreOK, SeederDies
  <2>2. /\ c.at = "failed" /\ c.inserted = 0 /\ c.file = run[s].file
        /\ c \in [at : {"idle", "seeding", "done", "failed"},
                  file : File \cup {<<>>}, inserted : Nat]
    BY <2>1
  <2>3. run' = [run EXCEPT ![s] = c]
    BY <1>4 DEF SeederDies, Ends
  <2>4. Len(run[s].file) \in Nat
    BY <2>1, TenantsAssumption
  <2> HIDE DEF c
  <2>5. SeedIsAtomic' /\ PendingFits' /\ KeysDiffer'
    BY <1>4, <2>1, <2>2, <2>3, CloseHolds DEF SeederDies
  <2>6. StoreOK'
    BY <1>4, <2>2, <2>3, <2>4 DEF StoreOK, SeederDies
  <2> QED
    BY <2>5, <2>6
<1>5. ASSUME NEW k \in Key, Revoke(k) PROVE IInv'
  BY <1>5, SameHolds DEF Revoke, StoreOK
<1>6. ASSUME NEW t \in DOMAIN rows, Suspend(t) PROVE IInv'
  BY <1>6, SameHolds DEF Suspend, StoreOK
<1>7. CASE LoadRates
  BY <1>7, SameHolds DEF LoadRates, Policies, StoreOK
<1>8. CASE LoadBudgets
  BY <1>8, SameHolds DEF LoadBudgets, Policies, StoreOK
<1>9. CASE Stop
  BY <1>9, SameHolds DEF Stop, StoreOK
<1>10. ASSUME NEW r \in Request, NEW k \in Key, NEW m \in Model, ReadKey(r, k, m) PROVE IInv'
  BY <1>10, SameHolds DEF ReadKey, Becomes, StoreOK
<1>11. ASSUME NEW r \in Request, ReadTenant(r) \/ ResolvePolicies(r) PROVE IInv'
  BY <1>11, SameHolds DEF ReadTenant, ResolvePolicies, Becomes, StoreOK
<1>12. CASE UNCHANGED vars
  BY <1>12, SameHolds DEF vars, StoreOK
<1> QED
  BY <1>1, <1>2, <1>3, <1>4, <1>5, <1>6, <1>7, <1>8, <1>9, <1>10, <1>11, <1>12 DEF Next, Done

\* Every reachable state satisfies the inductive invariant.
THEOREM TenantsInvariant == Spec => []IInv
BY InitHolds, StepHolds, PTL DEF Spec

\* However many runs of the script overlap or repeat each other, a key is that of one
\* tenant.
THEOREM TenantsOnePerKey == Spec => []OneTenantPerKey
<1>1. IInv => OneTenantPerKey
  BY DEF IInv, KeysDiffer, OneTenantPerKey, TenantOf
<1> QED
  BY <1>1, TenantsInvariant, PTL

\* A run leaves all of its tenants or none.
THEOREM TenantsAtomic == Spec => []SeedIsAtomic
<1>1. IInv => SeedIsAtomic
  BY DEF IInv
<1> QED
  BY <1>1, TenantsInvariant, PTL

-----------------------------------------------------------------------------
\* What requests come to know.

\* What the gateway loaded of a tenant is what its entry says; the tenants there were
\* when the load began are in both tables once it serves.
LoadedFits ==
    /\ \A t \in DOMAIN rates : rates[t] = rows[t].rate
    /\ \A t \in DOMAIN budgets : budgets[t] = rows[t].budget
    /\ loadable \subseteq DOMAIN rates
    /\ Serving => loadable \subseteq DOMAIN budgets

\* From its first query on, a request has the tenant of its key.
KeyIsTenants(r) ==
    request[r].at \in {"keyed", "authenticated", "admitted", "403"} =>
        /\ request[r].model \in Model
        /\ request[r].tenant \in DOMAIN rows
        /\ rows[request[r].tenant].key = request[r].key

\* A request that was barred when it began goes no further than its second query,
\* which finds the tenant suspended: it cannot have been revoked.
BarredStops(r) ==
    r \in barred => /\ request[r].at \in {"keyed", "401", "lost"}
                    /\ request[r].at = "keyed" => request[r].tenant \in suspended

\* Limits of the tenant's own entry.
LimitsFit(r) ==
    LET q == request[r]
    IN  /\ q.at = "admitted" =>
              /\ q.rate = Written(rows[q.tenant].rate, q.model)
              /\ q.budget = Written(rows[q.tenant].budget, q.model)
              /\ None \notin {q.rate, q.budget}
        /\ q.at = "403" /\ q.early =>
              None \in {Written(rows[q.tenant].rate, q.model),
                        Written(rows[q.tenant].budget, q.model)}

Knows(r) == KeyIsTenants(r) /\ BarredStops(r) /\ LimitsFit(r)

\* The inductive invariant of the requests, next to that of the tables.
RequestInv == RequestsOK /\ LoadedFits /\ \A r \in Request : Knows(r)

\* Tenants are added and never changed; suspensions stay.
Grows ==
    /\ DOMAIN rows \subseteq DOMAIN rows'
    /\ \A t \in DOMAIN rows : rows'[t] = rows[t]
    /\ suspended \subseteq suspended'

\* Looking up a loaded table finds what the entry has written.
LEMMA LookupIsWritten ==
    ASSUME NEW table, NEW t \in DOMAIN table, NEW m \in Model
    PROVE  Lookup(table, t, m) = Written(table[t], m)
<1> DEFINE policies == table[t]
           applies  == {x \in {m, Wildcard} : x \in DOMAIN policies}
<1>1. m # Wildcard
  BY TenantsAssumption
<1>2. Written(policies, m) = CASE applies = {}         -> None
                               [] applies = {Wildcard} -> policies[Wildcard]
                               [] OTHER                -> policies[m]
  BY DEF Written
<1>3. Lookup(table, t, m) = IF m \in DOMAIN policies THEN policies[m]
                            ELSE IF Wildcard \in DOMAIN policies THEN policies[Wildcard]
                            ELSE None
  BY DEF Lookup
<1>4. CASE m \in DOMAIN policies
  BY <1>1, <1>2, <1>3, <1>4
<1>5. CASE m \notin DOMAIN policies /\ Wildcard \in DOMAIN policies
  <2>1. applies = {Wildcard}
    BY <1>5
  <2> QED
    BY <1>2, <1>3, <1>5, <2>1
<1>6. CASE m \notin DOMAIN policies /\ Wildcard \notin DOMAIN policies
  <2>1. applies = {}
    BY <1>6
  <2> QED
    BY <1>2, <1>3, <1>6, <2>1
<1> QED
  BY <1>4, <1>5, <1>6

\* Nothing takes a tenant away or lifts a suspension.
LEMMA StepGrows == IInv /\ [Next]_vars => Grows
<1> SUFFICES ASSUME IInv, [Next]_vars PROVE Grows
  OBVIOUS
<1>1. ASSUME NEW s \in Seeder, Commit(s) PROVE Grows
  BY <1>1 DEF Commit, Committed, Grows
<1>2. ASSUME NEW t \in DOMAIN rows, Suspend(t) PROVE Grows
  BY <1>2 DEF Suspend, Grows
<1>3. ASSUME rows' = rows, suspended' = suspended PROVE Grows
  BY <1>3 DEF Grows
<1>4. ASSUME NEW s \in Seeder, NEW file \in File,
             BeginSeed(s, file) \/ SeedTenantEntry(s) \/ SeederDies(s)
      PROVE  Grows
  BY <1>3, <1>4 DEF BeginSeed, SeedTenantEntry, SeederDies, database
<1>5. ASSUME NEW s \in Seeder, SeedTenantEntry(s) \/ SeederDies(s) PROVE Grows
  BY <1>3, <1>5 DEF SeedTenantEntry, SeederDies, database
<1>6. ASSUME NEW k \in Key, Revoke(k) PROVE Grows
  BY <1>3, <1>6 DEF Revoke
<1>7. CASE LoadRates \/ LoadBudgets \/ Stop
  BY <1>3, <1>7 DEF LoadRates, LoadBudgets, Stop, database
<1>8. ASSUME NEW r \in Request, NEW k \in Key, NEW m \in Model, ReadKey(r, k, m) PROVE Grows
  BY <1>3, <1>8 DEF ReadKey, Becomes, database
<1>9. ASSUME NEW r \in Request, ReadTenant(r) \/ ResolvePolicies(r) PROVE Grows
  BY <1>3, <1>9 DEF ReadTenant, ResolvePolicies, Becomes, database
<1>10. CASE UNCHANGED vars
  BY <1>3, <1>10 DEF vars, database
<1> QED
  BY <1>1, <1>2, <1>4, <1>5, <1>6, <1>7, <1>8, <1>9, <1>10 DEF Next, Done

\* What a request knows stays true while it stays where it is.
LEMMA KnowsStays ==
    ASSUME RequestInv, Grows, NEW r \in Request,
           request'[r] = request[r], r \in barred' <=> r \in barred
    PROVE  request'[r] \in RequestState' /\ Knows(r)'
<1>1. Knows(r) /\ request[r] \in RequestState
  BY DEF RequestInv, RequestsOK
<1>2. request'[r] \in RequestState'
  BY <1>1 DEF RequestState, Grows
<1>3. KeyIsTenants(r)'
  BY <1>1 DEF Knows, KeyIsTenants, Grows
<1>4. BarredStops(r)'
  BY <1>1 DEF Knows, BarredStops, Grows
<1>5. LimitsFit(r)'
  <2>1. request[r].at \in {"admitted", "403"} =>
            /\ request[r].tenant \in DOMAIN rows
            /\ rows'[request[r].tenant] = rows[request[r].tenant]
    BY <1>1 DEF Knows, KeyIsTenants, Grows
  <2> QED
    BY <1>1, <2>1 DEF Knows, LimitsFit
<1> QED
  BY <1>2, <1>3, <1>4, <1>5 DEF Knows

\* So does what was loaded.
LEMMA LoadedStays ==
    ASSUME IInv, LoadedFits, Grows, rates' = rates, budgets' = budgets,
           loadable' = loadable, gateway' = gateway
    PROVE  LoadedFits'
BY DEF LoadedFits, Grows, Serving, IInv, StoreOK

\* What a step that moves only request r has to show.
LEMMA MoveHolds ==
    ASSUME IInv, RequestInv, Grows, NEW r \in Request, NEW q,
           request' = [request EXCEPT ![r] = q], UNCHANGED gatewayVars,
           barred' = barred \/ barred' = barred \cup {r},
           q \in RequestState', q.at \in {"keyed", "authenticated"} => Serving,
           Knows(r)'
    PROVE  RequestInv'
<1>1. request'[r] = q /\ \A o \in Request : o # r => request'[o] = request[o]
  BY DEF RequestInv, RequestsOK
<1>2. \A o \in Request : request'[o] \in RequestState' /\ Knows(o)'
  BY <1>1, KnowsStays
<1>3. request' \in [Request -> RequestState']
  BY <1>2 DEF RequestInv, RequestsOK
<1>4. \A o \in Request : request'[o].at \in {"keyed", "authenticated"} => Serving'
  BY <1>1 DEF RequestInv, RequestsOK, Serving, gatewayVars
<1>5. LoadedFits'
  BY LoadedStays DEF RequestInv, gatewayVars
<1> QED
  BY <1>2, <1>3, <1>4, <1>5 DEF RequestInv, RequestsOK

\* What a step that moves no request has to show.
LEMMA RestHolds ==
    ASSUME IInv, RequestInv, Grows, request' = request, barred' = barred,
           LoadedFits', Serving => Serving'
    PROVE  RequestInv'
<1>1. \A o \in Request : request'[o] \in RequestState' /\ Knows(o)'
  BY KnowsStays
<1>2. request' \in [Request -> RequestState']
  BY <1>1 DEF RequestInv, RequestsOK
<1>3. \A o \in Request : request'[o].at \in {"keyed", "authenticated"} => Serving'
  BY DEF RequestInv, RequestsOK
<1> QED
  BY <1>1, <1>2, <1>3 DEF RequestInv, RequestsOK

\* A lookup in a table that lacks the tenant finds nothing.
LEMMA LookupOfNobody ==
    ASSUME NEW table, NEW t, t \notin DOMAIN table, NEW m
    PROVE  Lookup(table, t, m) = None
BY DEF Lookup

\* Entries' limits are numbers.
LEMMA WrittenType ==
    ASSUME NEW e \in Entries, NEW m \in Model
    PROVE  /\ Written(e.rate, m) \in Int \cup {None}
           /\ Written(e.budget, m) \in Int \cup {None}
<1>1. ASSUME NEW policies, policies \in [DOMAIN policies -> Int]
      PROVE  Written(policies, m) \in Int \cup {None}
  <2>1. CASE m \in DOMAIN policies /\ m # Wildcard
    BY <1>1, <2>1 DEF Written
  <2>2. CASE m \notin DOMAIN policies /\ Wildcard \in DOMAIN policies
    <3>1. {x \in {m, Wildcard} : x \in DOMAIN policies} = {Wildcard}
      BY <2>2
    <3> QED
      BY <1>1, <2>2, <3>1 DEF Written
  <2>3. CASE m \notin DOMAIN policies /\ Wildcard \notin DOMAIN policies
    <3>1. {x \in {m, Wildcard} : x \in DOMAIN policies} = {}
      BY <2>3
    <3> QED
      BY <3>1 DEF Written
  <2> QED
    BY <2>1, <2>2, <2>3, TenantsAssumption
<1> QED
  BY <1>1, TenantsAssumption

\* resolve_tenant's first query.
LEMMA ReadKeyHolds ==
    ASSUME IInv, RequestInv, Grows, NEW r \in Request, NEW k \in Key, NEW m \in Model,
           ReadKey(r, k, m)
    PROVE  RequestInv'
<1>1. /\ Serving /\ request[r].at = "new" /\ request[r] \in RequestState /\ r \notin barred
      /\ Knows(r)
  BY DEF ReadKey, RequestInv, RequestsOK, Knows, BarredStops
<1>2. UNCHANGED <<database, gatewayVars>>
  BY DEF ReadKey, Becomes
<1>3. rows' = rows /\ suspended' = suspended /\ RequestState' = RequestState
  BY <1>2 DEF database, RequestState
<1>4. barred' = barred \/ barred' = barred \cup {r}
  BY DEF ReadKey
<1>5. ASSUME NEW t \in TenantOf(k), k \notin revoked,
             Becomes(r, [request[r] EXCEPT !.at = "keyed", !.key = k, !.model = m,
                                           !.tenant = t])
      PROVE  RequestInv'
  <2> DEFINE q == [request[r] EXCEPT !.at = "keyed", !.key = k, !.model = m, !.tenant = t]
  <2>1. t \in DOMAIN rows /\ rows[t].key = k
    BY DEF TenantOf
  <2>2. /\ q \in RequestState /\ q.at = "keyed" /\ q.key = k /\ q.model = m /\ q.tenant = t
    BY <1>1, <2>1 DEF RequestState
  <2>3. request' = [request EXCEPT ![r] = q]
    BY <1>5 DEF Becomes
  <2> HIDE DEF q
  <2>4. request'[r] = q
    BY <2>3 DEF RequestInv, RequestsOK
  <2>5. KeyIsTenants(r)' /\ LimitsFit(r)'
    BY <1>3, <2>1, <2>2, <2>4 DEF KeyIsTenants, LimitsFit
  <2>6. r \in barred' => t \in suspended
    <3>1. \A u \in TenantOf(k) : u = t
      BY <2>1 DEF IInv, KeysDiffer, TenantOf
    <3> QED
      BY <1>1, <1>5, <3>1 DEF ReadKey
  <2>7. BarredStops(r)'
    BY <1>3, <2>2, <2>4, <2>6 DEF BarredStops
  <2> QED
    BY <1>1, <1>2, <1>3, <1>4, <2>2, <2>3, <2>5, <2>7, MoveHolds DEF Knows
<1>6. ASSUME Becomes(r, [request[r] EXCEPT !.at = "401", !.key = k, !.model = m])
      PROVE  RequestInv'
  <2> DEFINE q == [request[r] EXCEPT !.at = "401", !.key = k, !.model = m]
  <2>1. q \in RequestState /\ q.at = "401"
    BY <1>1 DEF RequestState
  <2>2. request' = [request EXCEPT ![r] = q]
    BY <1>6 DEF Becomes
  <2> HIDE DEF q
  <2>3. request'[r] = q
    BY <2>2 DEF RequestInv, RequestsOK
  <2>4. Knows(r)'
    BY <2>1, <2>3 DEF Knows, KeyIsTenants, BarredStops, LimitsFit
  <2> QED
    BY <1>2, <1>3, <1>4, <2>1, <2>2, <2>4, MoveHolds
<1> QED
  BY <1>5, <1>6 DEF ReadKey

\* Its second query: here a barred request ends.
LEMMA ReadTenantHolds ==
    ASSUME IInv, RequestInv, Grows, NEW r \in Request, ReadTenant(r)
    PROVE  RequestInv'
<1> DEFINE q == [request[r] EXCEPT !.at =
                    IF request[r].tenant \in suspended THEN "401" ELSE "authenticated"]
<1>1. request[r].at = "keyed" /\ request[r] \in RequestState /\ Knows(r) /\ Serving
  BY DEF ReadTenant, RequestInv, RequestsOK
<1>2. UNCHANGED <<database, gatewayVars, barred>> /\ request' = [request EXCEPT ![r] = q]
  BY DEF ReadTenant, Becomes
<1>3. rows' = rows /\ suspended' = suspended /\ RequestState' = RequestState
  BY <1>2 DEF database, RequestState
<1>4. /\ q \in RequestState /\ q.key = request[r].key /\ q.model = request[r].model
      /\ q.tenant = request[r].tenant
      /\ \/ q.at = "401"
         \/ q.at = "authenticated" /\ request[r].tenant \notin suspended
  BY <1>1 DEF RequestState
<1> HIDE DEF q
<1>5. request'[r] = q
  BY <1>2 DEF RequestInv, RequestsOK
<1>6. KeyIsTenants(r)' /\ LimitsFit(r)' /\ BarredStops(r)'
  BY <1>1, <1>2, <1>3, <1>4, <1>5 DEF Knows, KeyIsTenants, LimitsFit, BarredStops
<1> QED
  BY <1>1, <1>2, <1>3, <1>4, <1>6, MoveHolds DEF Knows

\* What a request of a tenant is held to or refused for is what its entry says.
LEMMA ResolveHolds ==
    ASSUME IInv, RequestInv, Grows, NEW r \in Request, ResolvePolicies(r)
    PROVE  RequestInv'
<1> DEFINE t      == request[r].tenant
           m      == request[r].model
           rate   == Lookup(rates, t, m)
           budget == Lookup(budgets, t, m)
           wr     == Written(rows[t].rate, m)
           wb     == Written(rows[t].budget, m)
<1>1. /\ request[r].at = "authenticated" /\ request[r] \in RequestState /\ Knows(r)
      /\ Serving /\ LoadedFits
  BY DEF ResolvePolicies, RequestInv, RequestsOK
<1>2. UNCHANGED <<database, gatewayVars, barred>>
  BY DEF ResolvePolicies, Becomes
<1>3. rows' = rows /\ suspended' = suspended /\ RequestState' = RequestState
  BY <1>2 DEF database, RequestState
<1>4. t \in DOMAIN rows /\ m \in Model /\ rows[t].key = request[r].key /\ r \notin barred
  BY <1>1 DEF Knows, KeyIsTenants, BarredStops
<1>5. wr \in Int \cup {None} /\ wb \in Int \cup {None}
  BY <1>4, WrittenType DEF IInv, StoreOK
<1>6. /\ t \in DOMAIN rates => rate = wr
      /\ t \in DOMAIN budgets => budget = wb
  BY <1>1, <1>4, LookupIsWritten DEF LoadedFits
<1>7. /\ t \notin DOMAIN rates => rate = None
      /\ t \notin DOMAIN budgets => budget = None
  BY LookupOfNobody
<1>8. ASSUME NEW q, Becomes(r, q), q \in RequestState, q.key = request[r].key,
             q.model = m, q.tenant = t, q.at \in {"unserved", "403", "admitted"},
             q.at = "403" /\ q.early => None \in {wr, wb},
             q.at = "admitted" => q.rate = wr /\ q.budget = wb /\ None \notin {wr, wb}
      PROVE  RequestInv'
  <2>1. request' = [request EXCEPT ![r] = q]
    BY <1>8 DEF Becomes
  <2>2. request'[r] = q
    BY <2>1 DEF RequestInv, RequestsOK
  <2>3. KeyIsTenants(r)' /\ BarredStops(r)'
    BY <1>2, <1>3, <1>4, <1>8, <2>2 DEF KeyIsTenants, BarredStops
  <2>4. LimitsFit(r)'
    BY <1>3, <1>8, <2>2 DEF LimitsFit
  <2> QED
    BY <1>1, <1>2, <1>3, <1>8, <2>1, <2>3, <2>4, MoveHolds DEF Knows
<1>9. ASSUME Becomes(r, [request[r] EXCEPT !.at = "unserved"])
      PROVE  RequestInv'
  <2> DEFINE q == [request[r] EXCEPT !.at = "unserved"]
  <2>1. /\ q \in RequestState /\ q.at = "unserved" /\ q.key = request[r].key
        /\ q.model = m /\ q.tenant = t
    BY <1>1 DEF RequestState
  <2> HIDE DEF t, m, wr, wb
  <2> QED
    BY <1>8, <1>9, <2>1
<1>10. ASSUME None \in {rate, budget},
              Becomes(r, [request[r] EXCEPT !.at = "403",
                                            !.early = request[r].tenant \in loadable])
       PROVE  RequestInv'
  <2> DEFINE early == t \in loadable
             q     == [request[r] EXCEPT !.at = "403", !.early = early]
  <2>0. early \in BOOLEAN
    OBVIOUS
  <2> HIDE DEF early
  <2>1. /\ q \in RequestState /\ q.at = "403" /\ q.key = request[r].key
        /\ q.model = m /\ q.tenant = t /\ q.early = early
    BY <1>1, <2>0 DEF RequestState
  <2>2. t \in loadable => None \in {wr, wb}
    <3>1. t \in loadable => t \in DOMAIN rates /\ t \in DOMAIN budgets
      BY <1>1 DEF LoadedFits
    <3> HIDE DEF t, m, wr, wb, rate, budget
    <3> QED
      BY <1>6, <1>10, <3>1
  <2>3. Becomes(r, q)
    BY <1>10 DEF early
  <2>4. q.early => None \in {wr, wb}
    BY <2>1, <2>2 DEF early
  <2> HIDE DEF t, m, wr, wb, q
  <2> QED
    BY <1>8, <2>1, <2>3, <2>4
<1>11. ASSUME None \notin {rate, budget},
              Becomes(r, [request[r] EXCEPT !.at = "admitted", !.rate = rate,
                                            !.budget = budget])
       PROVE  RequestInv'
  <2>1. rate = wr /\ budget = wb /\ rate \in Int /\ budget \in Int
    <3> HIDE DEF t, m, wr, wb, rate, budget
    <3> QED
      BY <1>5, <1>6, <1>7, <1>11
  <2> HIDE DEF rate, budget
  <2> DEFINE q == [request[r] EXCEPT !.at = "admitted", !.rate = rate, !.budget = budget]
  <2>2. /\ q \in RequestState /\ q.at = "admitted" /\ q.key = request[r].key
        /\ q.model = m /\ q.tenant = t /\ q.rate = rate /\ q.budget = budget
    BY <1>1, <2>1 DEF RequestState
  <2>3. Becomes(r, q)
    BY <1>11
  <2> HIDE DEF t, m, wr, wb, q
  <2> QED
    BY <1>8, <1>11, <2>1, <2>2, <2>3
<1> QED
  BY <1>9, <1>10, <1>11 DEF ResolvePolicies

\* The gateway loads what the tables hold, and takes its requests with it.
LEMMA GatewayHolds ==
    ASSUME IInv, RequestInv, Grows, LoadRates \/ LoadBudgets \/ Stop
    PROVE  RequestInv'
<1>1. DOMAIN rates \cup DOMAIN budgets \cup loadable \subseteq DOMAIN rows
  BY DEF IInv, StoreOK
<1>2. CASE LoadRates
  <2>1. /\ gateway = "down" /\ gateway' = "loading" /\ rows' = rows /\ budgets' = budgets
        /\ rates' = [t \in DOMAIN rows |-> rows[t].rate] /\ loadable' = DOMAIN rows
        /\ request' = request /\ barred' = barred
    BY <1>2 DEF LoadRates, Policies, database, requestVars
  <2>2. LoadedFits' /\ ~Serving
    BY <1>1, <2>1 DEF RequestInv, LoadedFits, Serving
  <2> QED
    BY <2>1, <2>2, RestHolds
<1>3. CASE LoadBudgets
  <2>1. /\ gateway = "loading" /\ gateway' \in {"up", "degraded"} /\ rows' = rows
        /\ rates' = rates /\ budgets' = [t \in DOMAIN rows |-> rows[t].budget]
        /\ loadable' = loadable /\ request' = request /\ barred' = barred
    BY <1>3 DEF LoadBudgets, Policies, database, requestVars
  <2>2. LoadedFits' /\ Serving'
    BY <1>1, <2>1 DEF RequestInv, LoadedFits, Serving
  <2> QED
    BY <2>1, <2>2, RestHolds
<1>4. CASE Stop
  <2> DEFINE lost(r) == [request[r] EXCEPT !.at = "lost"]
  <2>1. /\ gateway' = "down" /\ rates' = <<>> /\ budgets' = <<>> /\ loadable' = {}
        /\ rows' = rows /\ suspended' = suspended /\ barred' = barred
        /\ request' = [r \in Request |->
               IF request[r].at \in {"keyed", "authenticated"} THEN lost(r) ELSE request[r]]
    BY <1>4 DEF Stop, database
  <2>2. RequestState' = RequestState
    BY <2>1 DEF RequestState
  <2>3. ASSUME NEW r \in Request
        PROVE  /\ request'[r] \in RequestState'
               /\ request'[r].at \notin {"keyed", "authenticated"}
               /\ Knows(r)'
    <3>1. request[r] \in RequestState /\ Knows(r)
      BY DEF RequestInv, RequestsOK
    <3>2. CASE request[r].at \in {"keyed", "authenticated"}
      <4>1. lost(r) \in RequestState /\ lost(r).at = "lost"
        BY <3>1 DEF RequestState
      <4>2. request'[r] = lost(r)
        BY <2>1, <3>2
      <4> HIDE DEF lost
      <4>3. request'[r] \in RequestState' /\ request'[r].at = "lost"
        BY <2>2, <4>1, <4>2
      <4> QED
        BY <4>3 DEF Knows, KeyIsTenants, BarredStops, LimitsFit
    <3>3. CASE request[r].at \notin {"keyed", "authenticated"}
      <4>1. request'[r] = request[r]
        BY <2>1, <3>3
      <4> QED
        BY <2>1, <3>3, <4>1, KnowsStays
    <3> QED
      BY <3>2, <3>3
  <2>4. LoadedFits'
    BY <2>1 DEF LoadedFits, Serving
  <2>5. request' \in [Request -> RequestState']
    <3> HIDE DEF lost
    <3> QED BY <2>1, <2>3
  <2> QED
    BY <2>3, <2>4, <2>5 DEF RequestInv, RequestsOK
<1> QED
  BY <1>2, <1>3, <1>4

\* The requests' invariant holds at first.
LEMMA RequestInit == Init => RequestInv
<1> SUFFICES ASSUME Init PROVE RequestInv
  OBVIOUS
<1>1. ASSUME NEW r \in Request
      PROVE  /\ request[r] \in RequestState
             /\ request[r].at = "new" /\ r \notin barred
  BY DEF Init, RequestState
<1>2. RequestsOK
  BY <1>1 DEF RequestsOK, Init
<1>3. LoadedFits
  BY DEF LoadedFits, Init
<1>4. \A r \in Request : Knows(r)
  BY <1>1 DEF Knows, KeyIsTenants, BarredStops, LimitsFit
<1> QED
  BY <1>2, <1>3, <1>4 DEF RequestInv

\* And after every step.
LEMMA RequestStep == IInv /\ RequestInv /\ [Next]_vars => RequestInv'
<1> SUFFICES ASSUME IInv, RequestInv, [Next]_vars PROVE RequestInv'
  OBVIOUS
<1>1. Grows
  BY StepGrows
<1>2. ASSUME UNCHANGED gatewayVars, UNCHANGED requestVars PROVE RequestInv'
  <2>1. LoadedFits'
    BY <1>1, <1>2, LoadedStays DEF RequestInv, gatewayVars
  <2> QED
    BY <1>1, <1>2, <2>1, RestHolds DEF gatewayVars, requestVars, Serving
<1>3. ASSUME NEW s \in Seeder, NEW file \in File, BeginSeed(s, file) PROVE RequestInv'
  BY <1>2, <1>3 DEF BeginSeed
<1>4. ASSUME NEW s \in Seeder, SeedTenantEntry(s) \/ Commit(s) \/ SeederDies(s)
      PROVE  RequestInv'
  BY <1>2, <1>4 DEF SeedTenantEntry, Commit, SeederDies
<1>5. ASSUME NEW k \in Key, Revoke(k) PROVE RequestInv'
  BY <1>2, <1>5 DEF Revoke
<1>6. ASSUME NEW t \in DOMAIN rows, Suspend(t) PROVE RequestInv'
  BY <1>2, <1>6 DEF Suspend
<1>7. CASE LoadRates \/ LoadBudgets \/ Stop
  BY <1>1, <1>7, GatewayHolds
<1>8. ASSUME NEW r \in Request, NEW k \in Key, NEW m \in Model, ReadKey(r, k, m)
      PROVE  RequestInv'
  BY <1>1, <1>8, ReadKeyHolds
<1>9. ASSUME NEW r \in Request, ReadTenant(r) \/ ResolvePolicies(r) PROVE RequestInv'
  BY <1>1, <1>9, ReadTenantHolds, ResolveHolds
<1>10. CASE UNCHANGED vars
  BY <1>2, <1>10 DEF vars
<1> QED
  BY <1>3, <1>4, <1>5, <1>6, <1>7, <1>8, <1>9, <1>10 DEF Next, Done

\* Every reachable state satisfies it.
THEOREM RequestsInvariant == Spec => [](IInv /\ RequestInv)
<1>1. Spec => []RequestInv
  BY RequestInit, RequestStep, TenantsInvariant, PTL DEF Spec
<1> QED
  BY <1>1, TenantsInvariant, PTL

\* The tables, the runs and the requests are well formed: only an open run has rows
\* that are not committed, what the gateway loaded is of tenants that there are, and no
\* request is between its queries when the gateway is down.
THEOREM TenantsTypeCorrect == Spec => []TypeOK
<1>1. IInv /\ RequestInv => TypeOK
  BY DEF IInv, RequestInv, TypeOK
<1> QED
  BY <1>1, RequestsInvariant, PTL

\* Whose key was revoked, or tenant suspended, before its request began is never
\* authenticated, although the key and the tenant are read in two queries.
THEOREM TenantsBarred == Spec => []BarredIsRefused
<1>1. IInv /\ RequestInv => BarredIsRefused
  BY DEF RequestInv, Knows, BarredStops, BarredIsRefused, IInv, StoreOK
<1> QED
  BY <1>1, RequestsInvariant, PTL

\* An admitted request is held to the limits in the entry of its own key, although key
\* and limits were read at different times while tenants were being added.
THEOREM TenantsHeld == Spec => []HeldToOwnLimits
<1>1. IInv /\ RequestInv => HeldToOwnLimits
  <2> SUFFICES ASSUME RequestInv, NEW r \in Request, request[r].at = "admitted"
               PROVE  \E t \in TenantOf(request[r].key) :
                         /\ request[r].rate = Written(rows[t].rate, request[r].model)
                         /\ request[r].budget = Written(rows[t].budget, request[r].model)
                         /\ None \notin {request[r].rate, request[r].budget}
    BY DEF HeldToOwnLimits
  <2>1. KeyIsTenants(r) /\ LimitsFit(r)
    BY DEF RequestInv, Knows
  <2>2. request[r].tenant \in TenantOf(request[r].key)
    BY <2>1 DEF KeyIsTenants, TenantOf
  <2> QED
    BY <2>1, <2>2 DEF LimitsFit
<1> QED
  BY <1>1, RequestsInvariant, PTL

\* A tenant that was there when the gateway began to load is denied a model only if its
\* entry does not entitle it.
THEOREM TenantsDenied == Spec => []DeniedOnlyIfLate
<1>1. IInv /\ RequestInv => DeniedOnlyIfLate
  BY DEF RequestInv, Knows, LimitsFit, DeniedOnlyIfLate
<1> QED
  BY <1>1, RequestsInvariant, PTL
=============================================================================
