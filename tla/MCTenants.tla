----------------------------- MODULE MCTenants -----------------------------
(***************************************************************************)
(* Instances of Tenants for TLC.                                           *)
(***************************************************************************)
EXTENDS Tenants, TLC

CONSTANTS k1, k2, k3, m1, m2

Entry(key, rate, budget) == [key |-> key, rate |-> rate, budget |-> budget]

\* All models; one of its own and the others; one model only; a limit of 0.
Everything == Entry(k1, Wildcard :> 1, Wildcard :> 1)
Special    == Entry(k1, (Wildcard :> 1) @@ (m1 :> 2), m1 :> 3)
Narrow     == Entry(k2, m1 :> 1, (m1 :> 2) @@ (Wildcard :> 1))
Broken     == Entry(k2, m1 :> 0, m1 :> 1)

\* A tenant; the file with one more, in either order; the file with a key changed,
\* the same key twice, and a limit that cannot be loaded.
MCFile ==
    {<<Special>>, <<Special, Narrow>>, <<Narrow, Everything>>, <<Special, Everything>>,
     <<Broken>>}

RunSymmetry == Permutations(Seeder)
=============================================================================
