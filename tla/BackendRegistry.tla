-------------------------- MODULE BackendRegistry --------------------------
(***************************************************************************)
(* gateway/routing/registry.py: the chains read from routing.yaml, and the *)
(* backends a request is given.                                            *)
(*                                                                         *)
(* from_yaml orders each chain by priority and drops, without a word,      *)
(* entries whose backend has no definition.  _filtered asks the breakers   *)
(* of the enabled entries one after the other; each answer is an await,    *)
(* and by the time the last one is in the first may be stale.              *)
(***************************************************************************)
EXTENDS Integers, SequencesExt

CONSTANTS
    Model,      \* requested models, configured or not
    File,       \* the routing.yaml files of the instance
    MaxPriority,\* bound: priorities are 0 .. MaxPriority
    Requester,  \* calls of get_backends and get_embedding_backends
    None        \* an entry without model_name

VARIABLES
    routing,    \* the file this gateway was started with
    backends_by_model, \* what from_yaml made of it
    open,       \* the breaker keys that are open now
    ask,        \* the calls: section, model, chain position, backends found, where
    opened      \* the keys that were open at some time during each call

registryVars == <<routing, backends_by_model, open, ask, opened>>

Sections == {"models", "embedding_models"}

\* A file has its backends, each enabled or not, and two sections.  A section is a
\* mapping, written as a sequence of [model, entries] in which no model comes twice; an
\* entry is [backend, priority, model_name].
ASSUME RegistryAssumption ==
    /\ MaxPriority \in Nat
    /\ \A file \in File : \A s \in Sections :
          /\ file[s] \in Seq(ToSet(file[s]))
          /\ \A i, j \in DOMAIN file[s] : file[s][i].model = file[s][j].model => i = j
          /\ \A m \in ToSet(file[s]) :
                /\ m.entries \in Seq(ToSet(m.entries))
                /\ \A e \in ToSet(m.entries) : e.priority \in 0 .. MaxPriority

\* The elements of s at the positions of K, in their order.  (A list comprehension of
\* the code.  SelectSeq is the same, but the prover does not know what it is.)
Only(s, K) == FlattenSeq([i \in DOMAIN s |-> IF i \in K THEN <<s[i]>> ELSE <<>>])

\* Seeded bug: the entries stay in the order of the file.
InFileOrder(entries) == entries

\* sorted() by priority, which keeps the file's order among equals.
Sorted(entries) ==
    FlattenSeq([p \in 1 .. MaxPriority + 1 |->
                   Only(entries, {i \in DOMAIN entries : entries[i].priority = p - 1})])

\* The entries whose backend is defined.
Known(file, entries) ==
    Only(entries, {i \in DOMAIN entries : entries[i].backend \in DOMAIN file.backends})

\* _resolve: what becomes of one model of a section.
Resolve(file, m) ==
    LET known == Known(file, Sorted(m.entries))
    IN  [model |-> m.model,
         chain |-> [i \in DOMAIN known |->
            [id           |-> known[i].backend,
             priority     |-> known[i].priority,
             enabled      |-> file.backends[known[i].backend],
             target_model |-> IF known[i].model_name = None
                              THEN m.model ELSE known[i].model_name]]]

FromYaml(file) == [s \in Sections |-> [i \in DOMAIN file[s] |-> Resolve(file, file[s][i])]]

\* A model that is not in the section has no backends.
Chain(section, model) ==
    LET found == {m \in ToSet(backends_by_model[section]) : m.model = model}
    IN  IF found = {} THEN <<>> ELSE (CHOOSE m \in found : TRUE).chain

\* The entries that a request may be given.
Candidates(section, model) ==
    LET chain == Chain(section, model)
    IN  Only(chain, {i \in DOMAIN chain : chain[i].enabled})

\* The breaker is that of the backend and the requested model, not the target's.
BreakerKey(backend, model) == <<backend.id, model>>

BreakerKeys ==
    UNION {{BreakerKey(b, m.model) : b \in ToSet(m.chain)} :
              m \in UNION {ToSet(backends_by_model[s]) : s \in Sections}}

RegistryInit ==
    /\ routing \in File
    /\ backends_by_model = FromYaml(routing)
    /\ open = {}
    /\ ask = [r \in Requester |->
                 [section |-> "models", model |-> None, next |-> 1, available |-> <<>>,
                  at |-> "new"]]
    /\ opened = [r \in Requester |-> {}]

\* get_backends(model) or get_embedding_backends(model), up to the first breaker.
GetBackends(r, section, model) ==
    /\ ask[r].at = "new"
    /\ ask' = [ask EXCEPT ![r].section = section,
                          ![r].model = model,
                          ![r].at = IF Candidates(section, model) = <<>>
                                    THEN "unavailable" ELSE "asking"]
    /\ opened' = [opened EXCEPT ![r] = open]
    /\ UNCHANGED <<routing, backends_by_model, open>>

\* Seeded bug: the first open breaker ends the search.
StopsAtOpen(r, available, last, isOpen) ==
    IF isOpen \/ last
    THEN IF available = <<>> THEN "unavailable" ELSE "routed"
    ELSE "asking"

\* After one more answer: raise, return or ask on.
Outcome(r, available, last, isOpen) ==
    CASE ~last                    -> "asking"
      [] last /\ available = <<>> -> "unavailable"
      [] last /\ available # <<>> -> "routed"

\* await is_available() of the next candidate.
AskBreaker(r) ==
    LET c         == Candidates(ask[r].section, ask[r].model)
        i         == ask[r].next
        isOpen    == BreakerKey(c[i], ask[r].model) \in open
        available == IF isOpen THEN ask[r].available ELSE Append(ask[r].available, c[i])
    IN  /\ ask[r].at = "asking"
        /\ ask' = [ask EXCEPT ![r].next = i + 1,
                              ![r].available = available,
                              ![r].at = Outcome(r, available, i = Len(c), isOpen)]
        /\ UNCHANGED <<routing, backends_by_model, open, opened>>

\* The breakers move: calls of the registry that are under way notice or do not.
MoveBreakers(keys) ==
    /\ open' = keys
    /\ opened' = [r \in Requester |-> opened[r] \cup keys]
    /\ UNCHANGED <<routing, backends_by_model, ask>>

\* Requests report outcomes, and cooldowns end: see CircuitBreaker.
OthersMoveBreaker ==
    \E k \in BreakerKeys : MoveBreakers(open \cup {k}) \/ MoveBreakers(open \ {k})

-----------------------------------------------------------------------------
\* The entries of the file for a model, in the order of the file.
Written(section, model) == (CHOOSE m \in ToSet(routing[section]) : m.model = model).entries

\* The operator has defined and enabled the backend of entry e.
Usable(file, e) == e.backend \in DOMAIN file.backends /\ file.backends[e.backend]

\* a was written with a lower priority than b or, among equals, further up.
Before(a, b, section, model) ==
    \/ a.priority < b.priority
    \/ /\ a.priority = b.priority
       /\ \E x, y \in DOMAIN Written(section, model) :
             LET e == Written(section, model)[x]
                 f == Written(section, model)[y]
             IN  /\ x < y
                 /\ <<e.backend, e.priority>> = <<a.id, a.priority>>
                 /\ <<f.backend, f.priority>> = <<b.id, b.priority>>

\* What a request is given is in the order the operator meant: the priorities
\* first and, among equals, the order of the file.
RoutedByPriority ==
    \A r \in Requester : \A i, j \in DOMAIN ask[r].available :
        i < j => Before(ask[r].available[i], ask[r].available[j], ask[r].section, ask[r].model)

\* A call of the registry leaves out an entry of the file whose backend is defined and
\* enabled only if its breaker was open at some time during the call, and raises only if
\* that holds for all of them.
LeftOutOnlyIfOpen ==
    \A r \in Requester : ask[r].at \in {"routed", "unavailable"} =>
        \A m \in ToSet(routing[ask[r].section]) : m.model = ask[r].model =>
            \A e \in ToSet(m.entries) : Usable(routing, e) =>
                \/ \E b \in ToSet(ask[r].available) :
                      b.id = e.backend /\ b.priority = e.priority
                \/ <<e.backend, m.model>> \in opened[r]
=============================================================================
