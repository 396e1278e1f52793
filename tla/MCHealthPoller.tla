--------------------------- MODULE MCHealthPoller ---------------------------
(***************************************************************************)
(* Instances of HealthPoller, with the registry, for TLC.                  *)
(***************************************************************************)
EXTENDS HealthPoller

CONSTANTS h1, h2, Chat, Embed, Other

\* Two hosts, the second of them disabled or not; entries may name a third, that
\* has no definition.
MCBackends == [{h1} -> {TRUE}] \cup {f \in [{h1, h2} -> BOOLEAN] : f[h1]}

MCEntry == [backend : {h1, h2}, priority : 0 .. MaxPriority, model_name : {None}]

Section(name, entries) == [model |-> name, entries |-> entries]

\* A chat model with a chain of two, the second host mirrored, or failing over to
\* another model, and an embedding model on the first host.
MCFile ==
    {[backends         |-> b,
      models           |-> <<Section(Chat, <<x, [y EXCEPT !.model_name = Other]>>)>>,
      embedding_models |-> <<>>] :
        b \in MCBackends, x \in {z \in MCEntry : z.backend = h1}, y \in MCEntry}
    \cup
    {[backends         |-> [h \in {h1, h2} |-> TRUE],
      models           |-> <<Section(Chat, <<x, y>>)>>,
      embedding_models |-> <<Section(Embed, <<x>>)>>] :
        x \in {z \in MCEntry : z.backend = h1 /\ z.priority = 1}, y \in MCEntry}
=============================================================================
