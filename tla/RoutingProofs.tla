---------------------------- MODULE RoutingProofs ----------------------------
(***************************************************************************)
(* Proofs about gateway/routing: HealthPoller and the BackendRegistry in   *)
(* it, for any files, any number of requests and any times, and            *)
(* CircuitBreaker, for any number of request handlers and pollers, any of  *)
(* which may die, and any threshold and cooldown.                          *)
(***************************************************************************)
EXTENDS HealthPoller, CircuitBreaker, SequenceTheorems, WellFoundedInduction, TLAPS

-----------------------------------------------------------------------------
(* What FlattenSeq and Only return. *)

\* Induction, for a set that is known.
LEMMA SetInduction ==
    ASSUME NEW S, 0 \in S, \A n \in Nat : n \in S => n + 1 \in S
    PROVE  \A n \in Nat : n \in S
<1> SUFFICES ASSUME Nat \ S # {} PROVE FALSE
  OBVIOUS
<1> DEFINE T == Nat \ S
           R == OpToRel(<, Nat)
<1>1. IsWellFoundedOn(R, Nat)
  BY NatLessThanWellFounded
<1>2. PICK x \in T : \A y \in T : <<y, x>> \notin R
  <2>1. T \subseteq Nat /\ T # {}
    OBVIOUS
  <2> HIDE DEF T, R
  <2> QED
    BY <1>1, <2>1, WFMin
<1>3. \A y \in T : ~(y < x)
  BY <1>2 DEF OpToRel
<1>4. x # 0 /\ x - 1 \in Nat
  OBVIOUS
<1>5. x - 1 \in S
  BY <1>3, <1>4
<1> QED
  BY <1>4, <1>5

\* The lists of ss, up to the n-th, one after the other.
IsJoinedUpTo(f, ss, n) ==
    f = [i \in 1 .. n |-> IF i = 1 THEN ss[i] ELSE f[i - 1] \o ss[i]]

\* The recursive definition in FlattenSeq has a solution.
LEMMA JoinedExists ==
    ASSUME NEW X, NEW ss \in Seq(Seq(X)), NEW n \in 1 .. Len(ss)
    PROVE  \E f \in [1 .. n -> Seq(X)] : IsJoinedUpTo(f, ss, n)
<1> DEFINE Has(m) == \E f \in [1 .. m -> Seq(X)] : IsJoinedUpTo(f, ss, m)
           S == {m \in Nat : m \in 1 .. Len(ss) => Has(m)}
<1>1. 0 \in S
  OBVIOUS
<1>2. ASSUME NEW m \in Nat, m \in S PROVE m + 1 \in S
  <2> SUFFICES ASSUME m + 1 \in 1 .. Len(ss) PROVE Has(m + 1)
    OBVIOUS
  <2>1. CASE m = 0
    <3> DEFINE g == [i \in 1 .. 1 |-> ss[i]]
    <3>1. g \in [1 .. 1 -> Seq(X)]
      BY <2>1
    <3>2. IsJoinedUpTo(g, ss, 1)
      BY DEF IsJoinedUpTo
    <3> QED
      BY <2>1, <3>1, <3>2
  <2>2. CASE m # 0
    <3>1. PICK f \in [1 .. m -> Seq(X)] : IsJoinedUpTo(f, ss, m)
      BY <1>2, <2>2
    <3> DEFINE g == [i \in 1 .. m + 1 |-> IF i <= m THEN f[i] ELSE f[m] \o ss[m + 1]]
    <3>2. f[m] \o ss[m + 1] \in Seq(X)
      BY <2>2
    <3>3. g \in [1 .. m + 1 -> Seq(X)]
      BY <3>2
    <3>4. ASSUME NEW i \in 1 .. m + 1
          PROVE  g[i] = IF i = 1 THEN ss[i] ELSE g[i - 1] \o ss[i]
      <4>1. CASE i = m + 1
        BY <4>1, <2>2
      <4>2. CASE i # m + 1
        <5>1. i \in 1 .. m /\ (i # 1 => i - 1 \in 1 .. m)
          BY <4>2
        <5>2. f[i] = IF i = 1 THEN ss[i] ELSE f[i - 1] \o ss[i]
          BY <3>1, <5>1 DEF IsJoinedUpTo
        <5>3. g[i] = f[i] /\ (i # 1 => g[i - 1] = f[i - 1])
          BY <5>1
        <5> HIDE DEF g
        <5> QED
          BY <5>2, <5>3
      <4> QED
        BY <4>1, <4>2
    <3>5. IsJoinedUpTo(g, ss, m + 1)
      BY <3>4 DEF IsJoinedUpTo
    <3> QED
      BY <3>3, <3>5
  <2> QED
    BY <2>1, <2>2
<1> HIDE DEF S
<1>3. \A m \in Nat : m \in S
  BY <1>1, <1>2, SetInduction
<1> QED
  BY <1>3 DEF S

LEMMA FlattenUnfolds ==
    ASSUME NEW X, NEW ss \in Seq(Seq(X)), Len(ss) # 0
    PROVE  \E f : IsJoinedUpTo(f, ss, Len(ss)) /\ FlattenSeq(ss) = f[Len(ss)]
<1> DEFINE f == CHOOSE g : g = [i \in 1 .. Len(ss) |-> IF i = 1 THEN ss[i] ELSE g[i - 1] \o ss[i]]
<1>1. \E g : g = [i \in 1 .. Len(ss) |-> IF i = 1 THEN ss[i] ELSE g[i - 1] \o ss[i]]
  <2>1. Len(ss) \in 1 .. Len(ss)
    OBVIOUS
  <2>2. PICK g : IsJoinedUpTo(g, ss, Len(ss))
    BY <2>1, JoinedExists
  <2> QED
    BY <2>2 DEF IsJoinedUpTo
<1>2. f = [i \in 1 .. Len(ss) |-> IF i = 1 THEN ss[i] ELSE f[i - 1] \o ss[i]]
  BY <1>1
<1>3. FlattenSeq(ss) = f[Len(ss)]
  BY DEF FlattenSeq
<1> HIDE DEF f
<1> QED
  BY <1>2, <1>3 DEF IsJoinedUpTo

\* The k-th element of t is the at[k]-th of list in[k] of ss, all elements of the first n
\* lists are there, and they are in their order.
IsFlat(t, ss, n, in, at) ==
    /\ \A k \in 1 .. Len(t) :
          in[k] \in 1 .. n /\ at[k] \in 1 .. Len(ss[in[k]]) /\ t[k] = ss[in[k]][at[k]]
    /\ \A k, l \in 1 .. Len(t) : k < l =>
          in[k] < in[l] \/ (in[k] = in[l] /\ at[k] < at[l])
    /\ \A i \in 1 .. n : \A j \in 1 .. Len(ss[i]) :
          \E k \in 1 .. Len(t) : in[k] = i /\ at[k] = j

\* One list more.
LEMMA FlatAppend ==
    ASSUME NEW X, NEW ss \in Seq(Seq(X)), NEW n \in Nat, n + 1 \in 1 .. Len(ss),
           NEW t \in Seq(X), NEW in, NEW at, IsFlat(t, ss, n, in, at)
    PROVE  \E in2, at2 : IsFlat(t \o ss[n + 1], ss, n + 1, in2, at2)
<1> DEFINE s   == ss[n + 1]
           u   == t \o s
           in2 == [k \in 1 .. Len(u) |-> IF k <= Len(t) THEN in[k] ELSE n + 1]
           at2 == [k \in 1 .. Len(u) |-> IF k <= Len(t) THEN at[k] ELSE k - Len(t)]
<1>1. /\ s \in Seq(X) /\ Len(s) \in Nat /\ Len(t) \in Nat
      /\ u \in Seq(X) /\ Len(u) = Len(t) + Len(s)
      /\ \A k \in 1 .. Len(t) : u[k] = t[k]
      /\ \A k \in Len(t) + 1 .. Len(u) : u[k] = s[k - Len(t)]
  BY ConcatProperties
<1>2. /\ \A k \in 1 .. Len(t) : in2[k] = in[k] /\ at2[k] = at[k]
      /\ \A k \in Len(t) + 1 .. Len(u) : in2[k] = n + 1 /\ at2[k] = k - Len(t)
  BY <1>1
<1>3. \A k \in 1 .. Len(u) : k \in 1 .. Len(t) \/ k \in Len(t) + 1 .. Len(u)
  BY <1>1
<1> HIDE DEF u, in2, at2
<1>4. ASSUME NEW k \in 1 .. Len(u)
      PROVE  in2[k] \in 1 .. n + 1 /\ at2[k] \in 1 .. Len(ss[in2[k]]) /\ u[k] = ss[in2[k]][at2[k]]
  <2>1. CASE k \in 1 .. Len(t)
    <3>1. in[k] \in 1 .. n /\ at[k] \in 1 .. Len(ss[in[k]]) /\ t[k] = ss[in[k]][at[k]]
      BY <2>1 DEF IsFlat
    <3>2. in2[k] = in[k] /\ at2[k] = at[k] /\ u[k] = t[k]
      BY <2>1, <1>1, <1>2
    <3> QED
      BY <3>1, <3>2
  <2>2. CASE k \in Len(t) + 1 .. Len(u)
    <3>1. in2[k] = n + 1 /\ at2[k] = k - Len(t) /\ u[k] = s[k - Len(t)]
      BY <2>2, <1>1, <1>2
    <3>2. k - Len(t) \in 1 .. Len(s)
      BY <2>2, <1>1
    <3> QED
      BY <3>1, <3>2
  <2> QED
    BY <1>3, <2>1, <2>2
<1>5. ASSUME NEW k \in 1 .. Len(u), NEW l \in 1 .. Len(u), k < l
      PROVE  in2[k] < in2[l] \/ (in2[k] = in2[l] /\ at2[k] < at2[l])
  <2>1. CASE l \in 1 .. Len(t)
    <3>1. k \in 1 .. Len(t)
      BY <2>1, <1>5
    <3>2. in[k] < in[l] \/ (in[k] = in[l] /\ at[k] < at[l])
      BY <2>1, <3>1, <1>5 DEF IsFlat
    <3>3. in2[k] = in[k] /\ at2[k] = at[k] /\ in2[l] = in[l] /\ at2[l] = at[l]
      BY <2>1, <3>1, <1>2
    <3> QED
      BY <3>2, <3>3
  <2>2. CASE k \in 1 .. Len(t) /\ l \in Len(t) + 1 .. Len(u)
    <3>1. in2[k] \in 1 .. n /\ in2[l] = n + 1
      BY <2>2, <1>2 DEF IsFlat
    <3> QED
      BY <3>1
  <2>3. CASE k \in Len(t) + 1 .. Len(u) /\ l \in Len(t) + 1 .. Len(u)
    BY <2>3, <1>1, <1>2, <1>5, SMTT(20)
  <2> QED
    BY <1>1, <1>3, <1>5, <2>1, <2>2, <2>3
<1>6. ASSUME NEW i \in 1 .. n + 1, NEW j \in 1 .. Len(ss[i])
      PROVE  \E k \in 1 .. Len(u) : in2[k] = i /\ at2[k] = j
  <2>1. CASE i \in 1 .. n
    <3>1. PICK k \in 1 .. Len(t) : in[k] = i /\ at[k] = j
      BY <2>1 DEF IsFlat
    <3>2. k \in 1 .. Len(u)
      BY <1>1
    <3> QED
      BY <3>1, <3>2, <1>2
  <2>2. CASE i = n + 1
    <3>1. Len(t) + j \in Len(t) + 1 .. Len(u) /\ Len(t) + j \in 1 .. Len(u)
      BY <2>2, <1>1
    <3>2. in2[Len(t) + j] = i /\ at2[Len(t) + j] = j
      BY <2>2, <3>1, <1>1, <1>2
    <3> QED
      BY <3>1, <3>2
  <2> QED
    BY <2>1, <2>2
<1>7. IsFlat(u, ss, n + 1, in2, at2)
  BY <1>4, <1>5, <1>6 DEF IsFlat
<1> QED
  BY <1>7 DEF u

\* The joined lists have the elements of all of them, in their order.
LEMMA JoinedIsFlat ==
    ASSUME NEW X, NEW ss \in Seq(Seq(X)), NEW f, IsJoinedUpTo(f, ss, Len(ss))
    PROVE  \A n \in 1 .. Len(ss) :
               f[n] \in Seq(X) /\ \E in, at : IsFlat(f[n], ss, n, in, at)
<1> DEFINE Flat(n) == f[n] \in Seq(X) /\ \E in, at : IsFlat(f[n], ss, n, in, at)
           S       == {n \in Nat : n \in 1 .. Len(ss) => Flat(n)}
<1>1. 0 \in S
  OBVIOUS
<1>2. ASSUME NEW n \in Nat, n \in S PROVE n + 1 \in S
  <2> SUFFICES ASSUME n + 1 \in 1 .. Len(ss) PROVE Flat(n + 1)
    OBVIOUS
  <2>1. CASE n = 0
    <3>1. f[1] = ss[1] /\ f[1] \in Seq(X) /\ Len(f[1]) \in Nat
      BY <2>1 DEF IsJoinedUpTo
    <3> DEFINE in == [k \in 1 .. Len(f[1]) |-> 1]
               at == [k \in 1 .. Len(f[1]) |-> k]
    <3>2. /\ \A k \in 1 .. Len(f[1]) : in[k] = 1 /\ at[k] = k
      OBVIOUS
    <3> HIDE DEF in, at
    <3>3. IsFlat(f[1], ss, 1, in, at)
      <4> DEFINE t == f[1]
      <4> HIDE DEF t
      <4>1. /\ t = ss[1] /\ Len(t) \in Nat
            /\ \A k \in 1 .. Len(t) : in[k] = 1 /\ at[k] = k
        BY <3>1, <3>2 DEF t
      <4>2. \A k \in 1 .. Len(t) :
                in[k] \in 1 .. 1 /\ at[k] \in 1 .. Len(ss[in[k]]) /\ t[k] = ss[in[k]][at[k]]
        BY <4>1
      <4>3. \A k, l \in 1 .. Len(t) : k < l => in[k] = in[l] /\ at[k] < at[l]
        BY <4>1
      <4>4. \A i \in 1 .. 1 : \A j \in 1 .. Len(ss[i]) :
                \E k \in 1 .. Len(t) : in[k] = i /\ at[k] = j
        <5>1. \A j \in 1 .. Len(ss[1]) : j \in 1 .. Len(t) /\ in[j] = 1 /\ at[j] = j
          BY <4>1
        <5> QED
          BY <5>1
      <4> QED
        BY <4>2, <4>3, <4>4 DEF IsFlat, t
    <3> QED
      BY <2>1, <3>1, <3>3
  <2>2. CASE n # 0
    <3>1. n \in 1 .. Len(ss)
      BY <2>2
    <3>2. f[n] \in Seq(X) /\ \E in, at : IsFlat(f[n], ss, n, in, at)
      BY <1>2, <3>1
    <3>3. f[n + 1] = f[n] \o ss[n + 1]
      <4> DEFINE rhs(i) == IF i = 1 THEN ss[i] ELSE f[i - 1] \o ss[i]
      <4>1. f = [i \in 1 .. Len(ss) |-> rhs(i)]
        BY DEF IsJoinedUpTo
      <4>2. f[n + 1] = rhs(n + 1)
        <5> HIDE DEF rhs
        <5> QED
          BY <4>1
      <4>3. rhs(n + 1) = f[n] \o ss[n + 1]
        <5>1. n + 1 # 1 /\ (n + 1) - 1 = n
          BY <2>2
        <5> DEFINE m == n + 1
        <5>2. m # 1 /\ m - 1 = n
          BY <5>1
        <5> HIDE DEF m
        <5>3. rhs(m) = f[n] \o ss[m]
          BY <5>2
        <5> QED
          BY <5>3 DEF m
      <4> HIDE DEF rhs
      <4> QED
        BY <4>2, <4>3
    <3>4. f[n + 1] \in Seq(X)
      BY <3>2, <3>3, ConcatProperties
    <3>5. \E in, at : IsFlat(f[n + 1], ss, n + 1, in, at)
      BY <3>2, <3>3, FlatAppend
    <3> QED
      BY <3>4, <3>5
  <2> QED
    BY <2>1, <2>2
<1> HIDE DEF S
<1>3. \A n \in Nat : n \in S
  BY <1>1, <1>2, SetInduction
<1> QED
  BY <1>3 DEF S

\* FlattenSeq returns the elements of all lists, in their order.
LEMMA FlattenIsFlat ==
    ASSUME NEW X, NEW ss \in Seq(Seq(X))
    PROVE  /\ FlattenSeq(ss) \in Seq(X)
           /\ \E in, at : IsFlat(FlattenSeq(ss), ss, Len(ss), in, at)
<1>1. CASE Len(ss) = 0
  <2>1. FlattenSeq(ss) = <<>>
    BY <1>1 DEF FlattenSeq
  <2>2. IsFlat(<<>>, ss, 0, <<>>, <<>>)
    BY DEF IsFlat
  <2> QED
    BY <1>1, <2>1, <2>2
<1>2. CASE Len(ss) # 0
  <2>1. PICK f : IsJoinedUpTo(f, ss, Len(ss)) /\ FlattenSeq(ss) = f[Len(ss)]
    BY <1>2, FlattenUnfolds
  <2>2. Len(ss) \in 1 .. Len(ss)
    BY <1>2
  <2> QED
    BY <2>1, <2>2, JoinedIsFlat
<1> QED
  BY <1>1, <1>2

\* t has the elements of s at the positions of K, in their order: the k-th is at[k].
IsOnly(t, s, K, at) ==
    /\ \A k \in 1 .. Len(t) : at[k] \in K \cap (1 .. Len(s)) /\ t[k] = s[at[k]]
    /\ \A k, l \in 1 .. Len(t) : k < l => at[k] < at[l]
    /\ \A i \in K \cap (1 .. Len(s)) : \E k \in 1 .. Len(t) : at[k] = i

LEMMA OnlyReturns ==
    ASSUME NEW X, NEW s \in Seq(X), NEW K
    PROVE  Only(s, K) \in Seq(X) /\ \E at : IsOnly(Only(s, K), s, K, at)
<1> DEFINE ss == [i \in DOMAIN s |-> IF i \in K THEN <<s[i]>> ELSE <<>>]
           t  == Only(s, K)
<1>1. ss \in Seq(Seq(X)) /\ Len(ss) = Len(s) /\ Len(s) \in Nat
  <2>1. DOMAIN s = 1 .. Len(s) /\ Len(s) \in Nat /\ \A i \in 1 .. Len(s) : s[i] \in X
    OBVIOUS
  <2>2. \A i \in 1 .. Len(s) : (IF i \in K THEN <<s[i]>> ELSE <<>>) \in Seq(X)
    BY <2>1
  <2>3. ss \in [1 .. Len(s) -> Seq(X)]
    BY <2>1, <2>2
  <2> QED
    BY <2>1, <2>3
<1>2. \A i \in 1 .. Len(s) :
          /\ i \in K => ss[i] = <<s[i]>> /\ Len(ss[i]) = 1 /\ ss[i][1] = s[i]
          /\ i \notin K => Len(ss[i]) = 0
  OBVIOUS
<1> HIDE DEF ss
<1>3. t = FlattenSeq(ss)
  BY DEF Only, ss
<1>4. t \in Seq(X) /\ \E in, at : IsFlat(t, ss, Len(ss), in, at)
  BY <1>1, <1>3, FlattenIsFlat
<1>5. PICK in, at : IsFlat(t, ss, Len(ss), in, at)
  BY <1>4
<1> HIDE DEF t
<1>6. \A k \in 1 .. Len(t) : in[k] \in K \cap (1 .. Len(s)) /\ at[k] = 1 /\ t[k] = s[in[k]]
  <2> TAKE k \in 1 .. Len(t)
  <2>1. in[k] \in 1 .. Len(s) /\ at[k] \in 1 .. Len(ss[in[k]]) /\ t[k] = ss[in[k]][at[k]]
    BY <1>1, <1>5 DEF IsFlat
  <2>2. in[k] \in K
    BY <2>1, <1>2
  <2>3. Len(ss[in[k]]) = 1 /\ ss[in[k]][1] = s[in[k]]
    BY <2>1, <2>2, <1>2
  <2>4. at[k] = 1
    <3>1. at[k] \in 1 .. 1
      BY <2>1, <2>3
    <3> QED
      BY <3>1
  <2> QED
    BY <2>1, <2>2, <2>3, <2>4
<1>7. \A k, l \in 1 .. Len(t) : k < l => in[k] < in[l]
  <2> SUFFICES ASSUME NEW k \in 1 .. Len(t), NEW l \in 1 .. Len(t), k < l PROVE in[k] < in[l]
    OBVIOUS
  <2>1. in[k] < in[l] \/ (in[k] = in[l] /\ at[k] < at[l])
    BY <1>5 DEF IsFlat
  <2> QED
    BY <2>1, <1>6
<1>8. \A i \in K \cap (1 .. Len(s)) : \E k \in 1 .. Len(t) : in[k] = i
  <2> TAKE i \in K \cap (1 .. Len(s))
  <2>1. i \in 1 .. Len(ss)
    BY <1>1
  <2>2. Len(ss[i]) = 1
    BY <1>2
  <2>3. 1 \in 1 .. Len(ss[i])
    BY <2>2
  <2> QED
    BY <2>1, <2>3, <1>5 DEF IsFlat
<1>9. IsOnly(t, s, K, in)
  BY <1>6, <1>7, <1>8 DEF IsOnly
<1> QED
  BY <1>4, <1>9 DEF t

-----------------------------------------------------------------------------
(* What from_yaml makes of a file. *)

\* t has the entries, by priority and, among equals, in their order there: the k-th is
\* from[k].
IsByPriority(t, entries, from) ==
    /\ \A k \in 1 .. Len(t) : from[k] \in 1 .. Len(entries) /\ t[k] = entries[from[k]]
    /\ \A i \in 1 .. Len(entries) : \E k \in 1 .. Len(t) : from[k] = i
    /\ \A k, l \in 1 .. Len(t) : k < l =>
          \/ t[k].priority < t[l].priority
          \/ t[k].priority = t[l].priority /\ from[k] < from[l]

LEMMA SortedReturns ==
    ASSUME NEW X, NEW entries \in Seq(X), \A e \in X : e.priority \in 0 .. MaxPriority
    PROVE  Sorted(entries) \in Seq(X) /\ \E from : IsByPriority(Sorted(entries), entries, from)
<1> DEFINE P    == 1 .. MaxPriority + 1
           K(p) == {i \in DOMAIN entries : entries[i].priority = p - 1}
           ss   == [p \in P |-> Only(entries, K(p))]
           pos  == [p \in P |-> CHOOSE a : IsOnly(Only(entries, K(p)), entries, K(p), a)]
           t    == Sorted(entries)
<1>1. ASSUME NEW p \in P
      PROVE  ss[p] \in Seq(X) /\ IsOnly(ss[p], entries, K(p), pos[p])
  <2>1. ss[p] = Only(entries, K(p))
    OBVIOUS
  <2>2. pos[p] = CHOOSE a : IsOnly(ss[p], entries, K(p), a)
    BY <2>1
  <2> HIDE DEF ss, pos, K
  <2>3. ss[p] \in Seq(X) /\ \E a : IsOnly(ss[p], entries, K(p), a)
    BY <2>1, OnlyReturns
  <2> QED
    BY <2>2, <2>3
<1>2. ss \in Seq(Seq(X)) /\ Len(ss) = MaxPriority + 1
  <2>1. ss = [p \in P |-> ss[p]]
    OBVIOUS
  <2> HIDE DEF ss
  <2>2. ss \in [P -> Seq(X)]
    BY <1>1, <2>1
  <2>3. MaxPriority + 1 \in Nat
    BY RegistryAssumption
  <2> QED
    BY <2>2, <2>3
<1>3. t = FlattenSeq(ss)
  BY DEF Sorted
<1> HIDE DEF ss, pos, t
<1>4. t \in Seq(X) /\ \E in, at : IsFlat(t, ss, Len(ss), in, at)
  BY <1>2, <1>3, FlattenIsFlat
<1>5. PICK in, at : IsFlat(t, ss, Len(ss), in, at)
  BY <1>4
<1> DEFINE from == [k \in 1 .. Len(t) |-> pos[in[k]][at[k]]]
<1>6. ASSUME NEW k \in 1 .. Len(t)
      PROVE  /\ in[k] \in P /\ at[k] \in 1 .. Len(ss[in[k]])
             /\ from[k] \in 1 .. Len(entries) /\ t[k] = entries[from[k]]
             /\ t[k].priority = in[k] - 1
  <2>1. in[k] \in P /\ at[k] \in 1 .. Len(ss[in[k]]) /\ t[k] = ss[in[k]][at[k]]
    BY <1>2, <1>5 DEF IsFlat
  <2>2. from[k] = pos[in[k]][at[k]]
    OBVIOUS
  <2> HIDE DEF from
  <2>3. IsOnly(ss[in[k]], entries, K(in[k]), pos[in[k]])
    BY <1>1, <2>1
  <2> HIDE DEF K
  <2>4. from[k] \in K(in[k]) \cap (1 .. Len(entries)) /\ ss[in[k]][at[k]] = entries[from[k]]
    BY <2>1, <2>2, <2>3 DEF IsOnly
  <2> QED
    BY <2>1, <2>4 DEF K
<1>7. ASSUME NEW k \in 1 .. Len(t), NEW l \in 1 .. Len(t), k < l
      PROVE  \/ t[k].priority < t[l].priority
             \/ t[k].priority = t[l].priority /\ from[k] < from[l]
  <2>1. in[k] < in[l] \/ (in[k] = in[l] /\ at[k] < at[l])
    BY <1>5, <1>7 DEF IsFlat
  <2>2. CASE in[k] < in[l]
    <3> HIDE DEF from
    <3> QED
      BY <2>2, <1>6
  <2>3. CASE in[k] = in[l] /\ at[k] < at[l]
    <3>1. from[k] = pos[in[k]][at[k]] /\ from[l] = pos[in[k]][at[l]]
      BY <2>3
    <3> HIDE DEF from
    <3>2. in[k] \in P /\ {at[k], at[l]} \subseteq 1 .. Len(ss[in[k]])
      BY <2>3, <1>6
    <3>3. IsOnly(ss[in[k]], entries, K(in[k]), pos[in[k]])
      BY <3>2, <1>1
    <3> HIDE DEF K
    <3>4. from[k] < from[l]
      BY <2>3, <3>1, <3>2, <3>3 DEF IsOnly
    <3> QED
      BY <2>3, <3>4, <1>6
  <2> QED
    BY <2>1, <2>2, <2>3
<1>8. ASSUME NEW i \in 1 .. Len(entries)
      PROVE  \E k \in 1 .. Len(t) : from[k] = i
  <2> DEFINE p == entries[i].priority + 1
  <2>1. p \in P /\ i \in K(p) \cap (1 .. Len(entries))
    <3>1. entries[i].priority \in 0 .. MaxPriority
      BY <1>8
    <3> QED
      BY <3>1, RegistryAssumption
  <2> HIDE DEF p, K
  <2>2. PICK j \in 1 .. Len(ss[p]) : pos[p][j] = i
    BY <1>1, <2>1 DEF IsOnly
  <2>3. p \in 1 .. Len(ss)
    BY <1>2, <2>1
  <2>4. PICK k \in 1 .. Len(t) : in[k] = p /\ at[k] = j
    BY <1>5, <2>2, <2>3 DEF IsFlat
  <2>5. from[k] = pos[in[k]][at[k]]
    OBVIOUS
  <2> QED
    BY <2>2, <2>4, <2>5
<1> HIDE DEF from
<1>9. IsByPriority(t, entries, from)
  BY <1>6, <1>7, <1>8 DEF IsByPriority
<1> QED
  BY <1>4, <1>9 DEF t

\* A chain has the entries of its model whose backend the file defines, by priority.
IsChain(chain, entries, backends, from) ==
    /\ \A k \in 1 .. Len(chain) : /\ from[k] \in 1 .. Len(entries)
                                 /\ chain[k].id = entries[from[k]].backend
                                 /\ chain[k].priority = entries[from[k]].priority
                                 /\ chain[k].enabled = backends[chain[k].id]
    /\ \A i \in 1 .. Len(entries) :
          entries[i].backend \in DOMAIN backends => \E k \in 1 .. Len(chain) : from[k] = i
    /\ \A k, l \in 1 .. Len(chain) : k < l =>
          \/ chain[k].priority < chain[l].priority
          \/ chain[k].priority = chain[l].priority /\ from[k] < from[l]

LEMMA ResolveReturns ==
    ASSUME NEW file \in File, NEW s \in Sections, NEW m \in ToSet(file[s])
    PROVE  LET r == Resolve(file, m)
           IN  /\ r.model = m.model
               /\ r.chain \in Seq(ToSet(r.chain))
               /\ \E from : IsChain(r.chain, m.entries, file.backends, from)
<1> DEFINE X     == ToSet(m.entries)
           t     == Sorted(m.entries)
           K     == {i \in DOMAIN t : t[i].backend \in DOMAIN file.backends}
           known == Known(file, t)
           chain == Resolve(file, m).chain
<1>1. t \in Seq(X) /\ \E f : IsByPriority(t, m.entries, f)
  <2>1. m.entries \in Seq(X) /\ \A e \in X : e.priority \in 0 .. MaxPriority
    BY RegistryAssumption
  <2> HIDE DEF X
  <2> QED
    BY <2>1, SortedReturns
<1>2. PICK f : IsByPriority(t, m.entries, f)
  BY <1>1
<1>3. known = Only(t, K)
  BY DEF Known
<1>4. known \in Seq(X) /\ \E at : IsOnly(known, t, K, at)
  <2> HIDE DEF known, t, K
  <2> QED
    BY <1>1, <1>3, OnlyReturns
<1>5. PICK at : IsOnly(known, t, K, at)
  BY <1>4
<1>6. /\ Resolve(file, m).model = m.model
      /\ DOMAIN chain = DOMAIN known
      /\ \A k \in DOMAIN known : /\ chain[k].id = known[k].backend
                                 /\ chain[k].priority = known[k].priority
                                 /\ chain[k].enabled = file.backends[known[k].backend]
      /\ chain = [k \in DOMAIN known |-> chain[k]]
  BY DEF Resolve
<1> HIDE DEF known, chain, t, K
<1>7. DOMAIN known = 1 .. Len(known) /\ Len(known) \in Nat
  BY <1>4
<1>8. chain \in Seq(ToSet(chain)) /\ Len(chain) = Len(known)
  <2>1. \A k \in 1 .. Len(known) : chain[k] \in ToSet(chain)
    BY <1>6, <1>7 DEF ToSet
  <2>2. chain \in [1 .. Len(known) -> ToSet(chain)]
    BY <2>1, <1>6, <1>7
  <2> QED
    BY <2>2, <1>7
<1> DEFINE from == [k \in 1 .. Len(chain) |-> f[at[k]]]
<1>9. ASSUME NEW k \in 1 .. Len(chain)
      PROVE  /\ at[k] \in 1 .. Len(t) /\ from[k] = f[at[k]] /\ from[k] \in 1 .. Len(m.entries)
             /\ chain[k].id = m.entries[from[k]].backend
             /\ chain[k].priority = m.entries[from[k]].priority
             /\ chain[k].priority = t[at[k]].priority
             /\ chain[k].enabled = file.backends[chain[k].id]
  <2>1. at[k] \in 1 .. Len(t) /\ known[k] = t[at[k]]
    BY <1>5, <1>8 DEF IsOnly
  <2>2. f[at[k]] \in 1 .. Len(m.entries) /\ t[at[k]] = m.entries[f[at[k]]]
    BY <2>1, <1>2 DEF IsByPriority
  <2>3. from[k] = f[at[k]]
    OBVIOUS
  <2> HIDE DEF from
  <2> QED
    BY <2>1, <2>2, <2>3, <1>6, <1>7, <1>8
<1>10. ASSUME NEW k \in 1 .. Len(chain), NEW l \in 1 .. Len(chain), k < l
       PROVE  \/ chain[k].priority < chain[l].priority
              \/ chain[k].priority = chain[l].priority /\ from[k] < from[l]
  <2>1. at[k] < at[l]
    BY <1>5, <1>8, <1>10 DEF IsOnly
  <2> HIDE DEF from
  <2>2. \/ t[at[k]].priority < t[at[l]].priority
        \/ t[at[k]].priority = t[at[l]].priority /\ f[at[k]] < f[at[l]]
    BY <1>2, <1>9, <2>1 DEF IsByPriority
  <2> QED
    BY <2>2, <1>9
<1>11. ASSUME NEW i \in 1 .. Len(m.entries), m.entries[i].backend \in DOMAIN file.backends
       PROVE  \E k \in 1 .. Len(chain) : from[k] = i
  <2>1. PICK j \in 1 .. Len(t) : f[j] = i
    BY <1>2 DEF IsByPriority
  <2>2. t[j] = m.entries[i]
    BY <1>2, <2>1 DEF IsByPriority
  <2>3. DOMAIN t = 1 .. Len(t)
    BY <1>1
  <2>4. j \in K \cap (1 .. Len(t))
    BY <1>11, <2>2, <2>3 DEF K
  <2>5. PICK k \in 1 .. Len(known) : at[k] = j
    BY <1>5, <2>4 DEF IsOnly
  <2>6. k \in 1 .. Len(chain)
    BY <1>8
  <2> QED
    BY <2>1, <2>5, <2>6
<1> HIDE DEF from
<1>12. IsChain(chain, m.entries, file.backends, from)
  BY <1>9, <1>10, <1>11 DEF IsChain
<1> QED
  BY <1>6, <1>8, <1>12 DEF chain

\* The registry has the chains of its file.
RegistryOK == routing \in File /\ backends_by_model = FromYaml(routing)

\* The chain of a model is made of the entries that the file has for it, if any.
LEMMA ChainReturns ==
    ASSUME RegistryOK, NEW s \in Sections, NEW model
    PROVE  LET chain == Chain(s, model)
           IN  /\ chain \in Seq(ToSet(chain))
               /\ \/ chain = <<>> /\ \A m \in ToSet(routing[s]) : m.model # model
                  \/ \E m \in ToSet(routing[s]) :
                        /\ \A x \in ToSet(routing[s]) : x.model = model => x = m
                        /\ Written(s, model) = m.entries
                        /\ m.entries \in Seq(ToSet(m.entries))
                        /\ \E from : IsChain(chain, m.entries, routing.backends, from)
<1> DEFINE found == {m \in ToSet(backends_by_model[s]) : m.model = model}
           chain == Chain(s, model)
           W     == Written(s, model)
<1>0. backends_by_model[s] = [i \in DOMAIN routing[s] |-> Resolve(routing, routing[s][i])]
  BY DEF RegistryOK, FromYaml
<1>1. CASE found = {}
  <2>1. chain = <<>>
    BY <1>1 DEF Chain
  <2>2. ASSUME NEW m \in ToSet(routing[s]) PROVE m.model # model
    <3>1. PICK i \in DOMAIN routing[s] : m = routing[s][i]
      BY DEF ToSet
    <3>2. Resolve(routing, m) \in ToSet(backends_by_model[s])
      BY <1>0, <3>1 DEF ToSet
    <3>3. Resolve(routing, m).model = m.model
      BY DEF Resolve
    <3> QED
      BY <1>1, <3>2, <3>3
  <2> HIDE DEF chain
  <2> QED
    BY <2>1, <2>2 DEF chain
<1>2. CASE found # {}
  <2> DEFINE n == CHOOSE m \in found : TRUE
  <2>1. n \in found /\ chain = n.chain
    BY <1>2 DEF Chain
  <2> HIDE DEF n, chain
  <2>2. PICK i \in DOMAIN routing[s] : n = Resolve(routing, routing[s][i])
    BY <1>0, <2>1 DEF ToSet
  <2> DEFINE m == routing[s][i]
  <2>3. m \in ToSet(routing[s]) /\ routing \in File
    BY DEF ToSet, RegistryOK
  <2>4. /\ n.model = m.model
        /\ chain \in Seq(ToSet(chain))
        /\ \E from : IsChain(chain, m.entries, routing.backends, from)
    <3> HIDE DEF m
    <3> QED
      BY <2>1, <2>2, <2>3, ResolveReturns DEF m
  <2>5. m.model = model
    BY <2>1, <2>4
  <2>6. \A x \in ToSet(routing[s]) : x.model = model => x = m
    BY <2>3, <2>5, RegistryAssumption DEF ToSet
  <2>7. W = m.entries
    <3>1. (CHOOSE x \in ToSet(routing[s]) : x.model = model) = m
      <4> HIDE DEF m
      <4> QED
        BY <2>3, <2>5, <2>6
    <3> QED
      BY <3>1 DEF Written
  <2>8. m.entries \in Seq(ToSet(m.entries))
    BY <2>3, RegistryAssumption
  <2> HIDE DEF W, m
  <2> QED
    BY <2>3, <2>4, <2>6, <2>7, <2>8 DEF W, chain
<1> QED
  BY <1>1, <1>2

\* What a request may be given is a list, in the order that the operator meant.
LEMMA CandidatesReturn ==
    ASSUME RegistryOK, NEW s \in Sections, NEW model
    PROVE  LET c == Candidates(s, model)
           IN  /\ c \in Seq(ToSet(c))
               /\ \A i, j \in 1 .. Len(c) : i < j => Before(c[i], c[j], s, model)
<1> DEFINE chain == Chain(s, model)
           K     == {i \in DOMAIN chain : chain[i].enabled}
           c     == Candidates(s, model)
           W     == Written(s, model)
<1>1. c = Only(chain, K)
  BY DEF Candidates
<1>2. /\ chain \in Seq(ToSet(chain))
      /\ \/ chain = <<>>
         \/ W \in Seq(ToSet(W)) /\ \E from : IsChain(chain, W, routing.backends, from)
  <2> HIDE DEF chain, W
  <2> QED
    BY ChainReturns DEF chain, W
<1> HIDE DEF chain, K, c, W
<1>3. c \in Seq(ToSet(chain)) /\ \E at : IsOnly(c, chain, K, at)
  BY <1>1, <1>2, OnlyReturns
<1>4. PICK at : IsOnly(c, chain, K, at)
  BY <1>3
<1>5. c \in Seq(ToSet(c))
  BY <1>3 DEF ToSet
<1>6. ASSUME NEW i \in 1 .. Len(c), NEW j \in 1 .. Len(c), i < j
      PROVE  Before(c[i], c[j], s, model)
  <2>1. /\ {at[i], at[j]} \subseteq 1 .. Len(chain) /\ at[i] < at[j]
        /\ c[i] = chain[at[i]] /\ c[j] = chain[at[j]]
    BY <1>4, <1>6 DEF IsOnly
  <2>2. chain # <<>>
    BY <2>1
  <2>3. PICK from : W \in Seq(ToSet(W)) /\ IsChain(chain, W, routing.backends, from)
    BY <1>2, <2>2
  <2> DEFINE x == from[at[i]]
             y == from[at[j]]
  <2>4. /\ x \in 1 .. Len(W) /\ c[i].id = W[x].backend /\ c[i].priority = W[x].priority
        /\ y \in 1 .. Len(W) /\ c[j].id = W[y].backend /\ c[j].priority = W[y].priority
    <3>1. \A k \in 1 .. Len(chain) : /\ from[k] \in 1 .. Len(W)
                                     /\ chain[k].id = W[from[k]].backend
                                     /\ chain[k].priority = W[from[k]].priority
      BY <2>3 DEF IsChain
    <3>2. at[i] \in 1 .. Len(chain) /\ at[j] \in 1 .. Len(chain)
      BY <2>1
    <3> QED
      BY <2>1, <3>1, <3>2
  <2>5. \/ c[i].priority < c[j].priority
        \/ c[i].priority = c[j].priority /\ x < y
    <3>1. \/ chain[at[i]].priority < chain[at[j]].priority
          \/ chain[at[i]].priority = chain[at[j]].priority /\ x < y
      BY <2>1, <2>3 DEF IsChain
    <3> QED
      BY <2>1, <3>1
  <2>6. DOMAIN W = 1 .. Len(W)
    BY <2>3
  <2> HIDE DEF x, y
  <2> QED
    BY <2>4, <2>5, <2>6 DEF Before, W
<1> QED
  BY <1>5, <1>6 DEF c

\* What the operator defined and enabled is among them.
LEMMA CandidatesComplete ==
    ASSUME RegistryOK, NEW s \in Sections, NEW m \in ToSet(routing[s]),
           NEW e \in ToSet(m.entries), Usable(routing, e)
    PROVE  \E b \in ToSet(Candidates(s, m.model)) : b.id = e.backend /\ b.priority = e.priority
<1> DEFINE chain == Chain(s, m.model)
           K     == {i \in DOMAIN chain : chain[i].enabled}
           c     == Candidates(s, m.model)
<1>1. c = Only(chain, K)
  BY DEF Candidates
<1>2. /\ chain \in Seq(ToSet(chain))
      /\ m.entries \in Seq(ToSet(m.entries))
      /\ \E from : IsChain(chain, m.entries, routing.backends, from)
  <2> HIDE DEF chain
  <2> QED
    BY ChainReturns DEF chain
<1> HIDE DEF chain, c
<1>3. PICK from : IsChain(chain, m.entries, routing.backends, from)
  BY <1>2
<1>4. PICK i \in 1 .. Len(m.entries) : e = m.entries[i]
  BY <1>2 DEF ToSet
<1>5. PICK k \in 1 .. Len(chain) : from[k] = i
  BY <1>3, <1>4 DEF IsChain, Usable
<1>6. /\ chain[k].id = e.backend /\ chain[k].priority = e.priority
      /\ chain[k].enabled = routing.backends[e.backend]
  BY <1>3, <1>4, <1>5 DEF IsChain
<1>7. k \in K \cap (1 .. Len(chain))
  <2>1. DOMAIN chain = 1 .. Len(chain)
    BY <1>2
  <2>2. chain[k].enabled
    BY <1>6 DEF Usable
  <2> QED
    BY <1>5, <2>1, <2>2
<1> HIDE DEF K
<1>8. c \in Seq(ToSet(chain)) /\ \E at : IsOnly(c, chain, K, at)
  BY <1>1, <1>2, OnlyReturns
<1>9. PICK at : IsOnly(c, chain, K, at)
  BY <1>8
<1>10. PICK j \in 1 .. Len(c) : at[j] = k
  BY <1>7, <1>9 DEF IsOnly
<1>11. c[j] = chain[k] /\ c[j] \in ToSet(c)
  <2>1. DOMAIN c = 1 .. Len(c)
    BY <1>8
  <2> QED
    BY <1>9, <1>10, <2>1 DEF IsOnly, ToSet
<1> QED
  BY <1>6, <1>11 DEF c

LEMMA SweepIsList ==
    ASSUME RegistryOK
    PROVE  /\ Len(Sweep) \in Nat
           /\ DOMAIN Sweep = 1 .. Len(Sweep)
           /\ Len(Sweep) = 0 <=> Sweep = <<>>
<1> DEFINE all  == backends_by_model["models"] \o backends_by_model["embedding_models"]
           R    == ToSet(backends_by_model["models"]) \cup ToSet(backends_by_model["embedding_models"])
           X    == UNION {{BreakerKey(b, m.model) : b \in ToSet(m.chain)} : m \in R}
           keys(m) == [j \in DOMAIN m.chain |-> BreakerKey(m.chain[j], m.model)]
           ss   == [i \in DOMAIN all |-> keys(all[i])]
<1>1. ASSUME NEW s \in Sections
      PROVE  /\ backends_by_model[s] \in Seq(ToSet(backends_by_model[s]))
             /\ \A m \in ToSet(backends_by_model[s]) : m.chain \in Seq(ToSet(m.chain))
  <2>1. /\ backends_by_model[s] = [i \in DOMAIN routing[s] |-> Resolve(routing, routing[s][i])]
        /\ routing \in File
    BY DEF RegistryOK, FromYaml
  <2>2. DOMAIN routing[s] = 1 .. Len(routing[s]) /\ Len(routing[s]) \in Nat
    BY <2>1, RegistryAssumption
  <2>3. \A i \in DOMAIN routing[s] : routing[s][i] \in ToSet(routing[s])
    BY DEF ToSet
  <2>4. \A m \in ToSet(backends_by_model[s]) : m.chain \in Seq(ToSet(m.chain))
    BY <2>1, <2>3, ResolveReturns DEF ToSet
  <2>5. backends_by_model[s] \in [1 .. Len(routing[s]) -> ToSet(backends_by_model[s])]
    BY <2>1, <2>2 DEF ToSet
  <2> QED
    BY <2>2, <2>4, <2>5
<1>2. all \in Seq(R) /\ \A m \in R : m.chain \in Seq(ToSet(m.chain))
  <2>1. {"models", "embedding_models"} \subseteq Sections
    BY DEF Sections
  <2> QED
    BY <2>1, <1>1
<1>3. \A m \in R : keys(m) \in Seq(X)
  <2> TAKE m \in R
  <2>1. DOMAIN m.chain = 1 .. Len(m.chain) /\ Len(m.chain) \in Nat
    BY <1>2
  <2>2. \A j \in DOMAIN m.chain : BreakerKey(m.chain[j], m.model) \in X
    BY SMTT(20) DEF ToSet
  <2> HIDE DEF X, R
  <2> QED
    BY <2>1, <2>2
<1> HIDE DEF all, X, R
<1>4. ss \in Seq(Seq(X))
  <2>1. DOMAIN all = 1 .. Len(all) /\ Len(all) \in Nat /\ \A i \in DOMAIN all : all[i] \in R
    BY <1>2
  <2> HIDE DEF keys
  <2>2. ss \in [1 .. Len(all) -> Seq(X)]
    BY <2>1, <1>3
  <2> HIDE DEF ss
  <2> QED
    BY <2>1, <2>2
<1>5. Sweep = FlattenSeq(ss)
  BY DEF Sweep, all
<1> HIDE DEF ss
<1>6. Sweep \in Seq(X)
  BY <1>4, <1>5, FlattenIsFlat
<1> QED
  BY <1>6

-----------------------------------------------------------------------------
(* The poller. *)

\* The time of n checks.
InChecks(n) == n * Timeout

LEMMA InChecksGrows ==
    /\ InChecks(0) = 0
    /\ \A n \in Nat : InChecks(n) \in Nat /\ InChecks(n + 1) = InChecks(n) + Timeout
    /\ \A m, n \in Nat : m <= n => InChecks(m) <= InChecks(n)
<1>1. Timeout \in Nat \ {0}
  BY PollerAssumption
<1>2. \A m, n \in Nat : m <= n => m * Timeout <= n * Timeout
  BY <1>1
<1> QED
  BY <1>1, <1>2 DEF InChecks

\* Checks that may have run since that of entry i, and whether the task slept since.
ChecksSince(i) ==
    IF poller.phase = "checking"
    THEN IF i < poller.position THEN poller.position - 1 - i
         ELSE Len(Sweep) - i + poller.position - 1
    ELSE IF poller.phase = "checked"
    THEN IF i <= poller.position THEN poller.position - i
         ELSE Len(Sweep) - i + poller.position
    ELSE Len(Sweep) - i

SleptSince(i) ==
    IF poller.phase = "checking" THEN i >= poller.position
    ELSE poller.phase = "checked" /\ i > poller.position

Slept(i) == IF SleptSince(i) THEN Interval ELSE 0

\* What it says without looking into it.
LEMMA SleptType == \A i : Slept(i) \in Nat
BY PollerAssumption DEF Slept

LEMMA SleptStays == ASSUME NEW i, SleptSince(i)' <=> SleptSince(i) PROVE Slept(i)' = Slept(i)
BY DEF Slept

\* The task is at an entry, or asleep after the last one, within its time.
PollerOK ==
    /\ poller \in [phase    : {"checking", "checked", "sleeping", "dead", "stopped"},
                   position : Nat,
                   spent    : Nat]
    /\ poller.phase = "checking" =>
          poller.position \in 1 .. Len(Sweep) /\ poller.spent <= Timeout
    /\ poller.phase = "checked" => poller.position \in 1 .. Len(Sweep) /\ poller.spent = 0
    /\ poller.phase = "sleeping" => poller.position = 0 /\ poller.spent <= Interval
    /\ age \in [1 .. Len(Sweep) -> Nat]

\* No entry waited longer than for the checks since its own, and the sleep.
AgesOK ==
    Running => \A i \in 1 .. Len(Sweep) :
        age[i] <= InChecks(ChecksSince(i)) + poller.spent + Slept(i)

PollerInv == RegistryOK /\ PollerOK /\ AgesOK

LEMMA PollerInit == Init => PollerInv
<1> SUFFICES ASSUME Init PROVE PollerInv
  OBVIOUS
<1>1. RegistryOK
  BY DEF Init, RegistryInit, RegistryOK
<1>2. /\ Len(Sweep) \in Nat /\ DOMAIN Sweep = 1 .. Len(Sweep)
      /\ Len(Sweep) = 0 <=> Sweep = <<>>
  BY <1>1, SweepIsList
<1>3. /\ age = [i \in 1 .. Len(Sweep) |-> 0]
      /\ poller = IF Len(Sweep) = 0 THEN At("sleeping", 0) ELSE At("checking", 1)
  BY <1>2 DEF Init, Restarted
<1>4. PollerOK
  BY <1>2, <1>3, PollerAssumption DEF PollerOK, At
<1>5. AgesOK
  <2> SUFFICES ASSUME NEW i \in 1 .. Len(Sweep)
               PROVE  0 <= InChecks(ChecksSince(i)) + poller.spent + Slept(i)
    BY <1>3 DEF AgesOK
  <2>1. ChecksSince(i) \in Nat
    BY <1>2, <1>3 DEF ChecksSince, At
  <2>2. poller.spent = 0
    BY <1>3 DEF At
  <2>3. InChecks(ChecksSince(i)) \in Nat
    BY <2>1, InChecksGrows
  <2>4. Slept(i) \in Nat
    BY SleptType
  <2> QED
    BY <2>2, <2>3, <2>4
<1> QED
  BY <1>1, <1>4, <1>5 DEF PollerInv

\* The entries, once read, stay.
LEMMA RegistryStays == ASSUME [Next]_vars PROVE UNCHANGED <<routing, backends_by_model>>
BY DEF Next, Task, Check, Report, MoveBreakers, Wake, Tick, Crash, Stop, Ends, Call, GetBackends,
       AskBreaker, OthersMoveBreaker, Done, vars, registryVars

LEMMA SweepStays == ASSUME UNCHANGED backends_by_model PROVE Sweep' = Sweep
BY DEF Sweep, BreakerKey

\* A check adds its time to those of all entries but its own.
LEMMA CheckKeeps == ASSUME PollerInv, Check PROVE PollerInv'
<1> DEFINE N == Len(Sweep)
           p == poller.position
<1>1. /\ Sweep' = Sweep /\ RegistryOK' /\ N \in Nat
  BY SweepStays, SweepIsList DEF Check, registryVars, PollerInv, RegistryOK
<1>2. /\ poller.phase = "checking" /\ p \in 1 .. N /\ poller.spent \in 0 .. Timeout
      /\ poller' = At("checked", p)
      /\ age' = [age EXCEPT ![p] = 0]
  BY DEF Check, PollerInv, PollerOK
<1>3. PollerOK'
  BY <1>1, <1>2 DEF PollerInv, PollerOK, At
<1>4. AgesOK'
  <2> SUFFICES ASSUME NEW i \in 1 .. N
               PROVE  age'[i] <= InChecks(ChecksSince(i)') + 0 + Slept(i)'
    BY <1>1, <1>2 DEF AgesOK, At
  <2>1. /\ ChecksSince(i)' = IF i <= p THEN p - i ELSE N - i + p
        /\ SleptSince(i)' <=> i > p
    BY <1>1, <1>2 DEF ChecksSince, SleptSince, At
  <2>2. CASE i = p
    <3>1. InChecks(ChecksSince(i)') = 0 /\ age'[i] = 0 /\ ~SleptSince(i)'
      BY <1>1, <1>2, <2>1, <2>2, InChecksGrows DEF PollerInv, PollerOK
    <3> QED
      BY <3>1 DEF Slept
  <2>3. CASE i # p
    <3>1. /\ ChecksSince(i) \in Nat
          /\ ChecksSince(i)' = ChecksSince(i) + 1
          /\ SleptSince(i)' <=> SleptSince(i)
      BY <1>1, <1>2, <2>1, <2>3 DEF ChecksSince, SleptSince
    <3>2. /\ InChecks(ChecksSince(i)) \in Nat
          /\ InChecks(ChecksSince(i)') = InChecks(ChecksSince(i)) + Timeout
      BY <3>1, InChecksGrows
    <3>3. age'[i] = age[i] /\ age[i] \in Nat
      BY <1>2, <2>3 DEF PollerInv, PollerOK
    <3>4. age[i] <= InChecks(ChecksSince(i)) + poller.spent + Slept(i)
      BY <1>2 DEF PollerInv, AgesOK, Running
    <3>5. Slept(i)' = Slept(i) /\ Slept(i) \in Nat
      BY <3>1, SleptType, SleptStays
    <3> QED
      BY <1>2, <3>2, <3>3, <3>4, <3>5, PollerAssumption, SMTT(20)
  <2> QED
    BY <2>2, <2>3
<1> QED
  BY <1>1, <1>3, <1>4 DEF PollerInv

\* The next check, or the sleep, takes over where this one ended.
LEMMA ReportKeeps == ASSUME PollerInv, NEW ok \in BOOLEAN, Report(ok) PROVE PollerInv'
<1> DEFINE N == Len(Sweep)
           p == poller.position
<1>1. /\ Sweep' = Sweep /\ RegistryOK' /\ N \in Nat
  BY SweepStays, SweepIsList DEF Report, MoveBreakers, PollerInv, RegistryOK
<1>2. /\ poller.phase = "checked" /\ p \in 1 .. N /\ poller.spent = 0
      /\ poller' = IF p < N THEN At("checking", p + 1) ELSE At("sleeping", 0)
      /\ age' = age
  BY DEF Report, After, PollerInv, PollerOK
<1>3. PollerOK'
  BY <1>1, <1>2, PollerAssumption DEF PollerInv, PollerOK, At
<1>4. AgesOK'
  <2> SUFFICES ASSUME NEW i \in 1 .. N
               PROVE  age[i] <= InChecks(ChecksSince(i)') + 0 + Slept(i)'
    BY <1>1, <1>2 DEF AgesOK, At
  <2>1. ChecksSince(i)' = ChecksSince(i) /\ (SleptSince(i)' <=> SleptSince(i))
    BY <1>1, <1>2 DEF ChecksSince, SleptSince, At
  <2>2. age[i] <= InChecks(ChecksSince(i)) + 0 + Slept(i)
    BY <1>2 DEF PollerInv, AgesOK, Running
  <2> QED
    BY <2>1, <2>2, SleptStays
<1> QED
  BY <1>1, <1>3, <1>4 DEF PollerInv

\* After the sleep the sweep begins again.
LEMMA WakeKeeps == ASSUME PollerInv, Wake PROVE PollerInv'
<1> DEFINE N == Len(Sweep)
<1>1. /\ Sweep' = Sweep /\ RegistryOK' /\ N \in Nat /\ (N = 0 <=> Sweep = <<>>)
  BY SweepStays, SweepIsList DEF Wake, registryVars, PollerInv, RegistryOK
<1>2. /\ poller.phase = "sleeping" /\ poller.position = 0 /\ poller.spent = Interval
      /\ poller' = IF N = 0 THEN At("sleeping", 0) ELSE At("checking", 1)
      /\ age' = age
  BY <1>1 DEF Wake, Restarted, PollerInv, PollerOK
<1>3. PollerOK'
  BY <1>1, <1>2, PollerAssumption DEF PollerInv, PollerOK, At
<1>4. AgesOK'
  <2> SUFFICES ASSUME NEW i \in 1 .. N
               PROVE  age[i] <= InChecks(ChecksSince(i)') + 0 + Slept(i)'
    BY <1>1, <1>2 DEF AgesOK, At
  <2>1. ChecksSince(i)' = N - i /\ ChecksSince(i) = N - i /\ SleptSince(i)' /\ ~SleptSince(i)
    BY <1>1, <1>2 DEF ChecksSince, SleptSince, At
  <2>2. age[i] <= InChecks(N - i) + Interval + 0 /\ Slept(i)' = Interval
    <3>1. age[i] <= InChecks(ChecksSince(i)) + poller.spent + Slept(i)
      BY <1>2 DEF PollerInv, AgesOK, Running
    <3>2. Slept(i) = 0 /\ Slept(i)' = Interval
      BY <2>1 DEF Slept
    <3> QED
      BY <1>2, <2>1, <3>1, <3>2
  <2>3. InChecks(N - i) \in Nat /\ age[i] \in Nat
    <3>1. N - i \in Nat
      BY <1>1
    <3>2. age[i] \in Nat
      BY DEF PollerInv, PollerOK
    <3> QED
      BY <3>1, <3>2, InChecksGrows
  <2> QED
    BY <2>1, <2>2, <2>3, PollerAssumption
<1> QED
  BY <1>1, <1>3, <1>4 DEF PollerInv

\* Time counts for the entry and for what the task is at.
LEMMA TickKeeps == ASSUME PollerInv, Tick PROVE PollerInv'
<1> DEFINE N == Len(Sweep)
<1>1. /\ Sweep' = Sweep /\ RegistryOK' /\ N \in Nat
  BY SweepStays, SweepIsList DEF Tick, registryVars, PollerInv, RegistryOK
<1>2. /\ \/ poller.phase = "checking" /\ poller.spent < Timeout
         \/ poller.phase = "sleeping" /\ poller.spent < Interval
      /\ poller.spent \in Nat
      /\ poller' = [poller EXCEPT !.spent = poller.spent + 1]
      /\ age' = [i \in 1 .. N |-> IF age[i] < MaxAge THEN age[i] + 1 ELSE MaxAge]
  BY DEF Tick, PollerInv, PollerOK
<1>3. /\ poller'.phase = poller.phase /\ poller'.position = poller.position
      /\ poller'.spent = poller.spent + 1
  BY <1>2 DEF PollerInv, PollerOK
<1>4. \A i \in 1 .. N : age'[i] \in Nat /\ age[i] \in Nat /\ age'[i] <= age[i] + 1
  BY <1>2, PollerAssumption DEF PollerInv, PollerOK
<1>5. PollerOK'
  <2>1. age' \in [1 .. N -> Nat]
    BY <1>2, <1>4
  <2> QED
    BY <1>1, <1>2, <1>3, <2>1, PollerAssumption DEF PollerInv, PollerOK
<1>6. AgesOK'
  <2> SUFFICES ASSUME NEW i \in 1 .. N
               PROVE  age'[i] <= InChecks(ChecksSince(i)') + poller'.spent + Slept(i)'
    BY <1>1 DEF AgesOK
  <2>1. ChecksSince(i)' = ChecksSince(i) /\ (SleptSince(i)' <=> SleptSince(i))
    BY <1>1, <1>3 DEF ChecksSince, SleptSince
  <2>2. age[i] <= InChecks(ChecksSince(i)) + poller.spent + Slept(i)
    BY <1>2 DEF PollerInv, AgesOK, Running
  <2>3. ChecksSince(i) \in Nat
    BY <1>1, <1>2, SMTT(20) DEF ChecksSince, PollerInv, PollerOK
  <2>4. InChecks(ChecksSince(i)) \in Nat
    BY <2>3, InChecksGrows
  <2>5. Slept(i) \in Nat /\ Slept(i)' = Slept(i)
    BY <2>1, SleptType, SleptStays
  <2>6. InChecks(ChecksSince(i)') = InChecks(ChecksSince(i))
    BY <2>1
  <2>7. /\ age'[i] \in Nat /\ age[i] \in Nat /\ age'[i] <= age[i] + 1
        /\ poller.spent \in Nat /\ poller'.spent = poller.spent + 1
    BY <1>2, <1>3, <1>4
  <2> QED
    BY <2>2, <2>4, <2>5, <2>6, <2>7, SMTT(20)
<1> QED
  BY <1>1, <1>5, <1>6 DEF PollerInv

\* Nothing is promised of a task that is over.
LEMMA EndKeeps ==
    ASSUME PollerInv, NEW phase \in {"dead", "stopped"}, Ends(phase)
    PROVE  PollerInv'
<1>1. /\ Sweep' = Sweep /\ RegistryOK' /\ Len(Sweep) \in Nat
      /\ poller' = At(phase, 0)
      /\ age' = [i \in 1 .. Len(Sweep) |-> 0]
  BY SweepStays, SweepIsList DEF Ends, registryVars, PollerInv, RegistryOK, PollerOK
<1> QED
  BY <1>1 DEF PollerInv, PollerOK, AgesOK, Running, At

LEMMA PollerStep == PollerInv /\ [Next]_vars => PollerInv'
<1> SUFFICES ASSUME PollerInv, [Next]_vars PROVE PollerInv'
  OBVIOUS
<1>1. ASSUME UNCHANGED <<poller, age>> PROVE PollerInv'
  <2>1. Sweep' = Sweep /\ RegistryOK'
    BY RegistryStays, SweepStays DEF PollerInv, RegistryOK
  <2> QED
    BY <1>1, <2>1 DEF PollerInv, PollerOK, AgesOK, Running, ChecksSince, Slept, SleptSince
<1> QED
  BY <1>1, CheckKeeps, ReportKeeps, WakeKeeps, TickKeeps, EndKeeps
     DEF Next, Task, Crash, Stop, Done, vars

\* While the task lives, no entry waits for its check longer than one sleep and a
\* timeout for each entry.
THEOREM PollerProbesInTime == Spec => []ProbedInTime
<1>1. PollerInv => ProbedInTime
  <2> SUFFICES ASSUME PollerInv, Running, NEW i \in DOMAIN Sweep
               PROVE  age[i] <= Interval + Len(Sweep) * Timeout
    BY DEF ProbedInTime
  <2> DEFINE N == Len(Sweep)
             n == ChecksSince(i)
  <2>1. N \in Nat /\ i \in 1 .. N
    BY SweepIsList DEF PollerInv
  <2>2. age[i] \in Nat /\ age[i] <= InChecks(n) + poller.spent + Slept(i)
    BY <2>1 DEF PollerInv, PollerOK, AgesOK
  <2>3. n \in 0 .. N - 1
    <3>1. /\ poller.phase \in {"checking", "checked", "sleeping"}
          /\ poller.phase # "sleeping" => poller.position \in 1 .. N
      BY DEF Running, PollerInv, PollerOK
    <3> HIDE DEF N
    <3>2. n = IF poller.phase = "checking"
              THEN IF i < poller.position THEN poller.position - 1 - i
                   ELSE N - i + poller.position - 1
              ELSE IF poller.phase = "checked"
              THEN IF i <= poller.position THEN poller.position - i
                   ELSE N - i + poller.position
              ELSE N - i
      BY DEF ChecksSince, N
    <3> HIDE DEF n
    <3> QED
      BY <2>1, <3>1, <3>2
  <2>4. \/ poller.spent \in 0 .. Timeout
        \/ poller.spent \in 0 .. Interval /\ Slept(i) = 0
    BY PollerAssumption DEF Slept, SleptSince, Running, PollerInv, PollerOK
  <2> HIDE DEF N, n
  <2>5. /\ InChecks(n) \in Nat /\ InChecks(N - 1) \in Nat
        /\ InChecks(n) <= InChecks(N - 1) /\ InChecks(N) = InChecks(N - 1) + Timeout
    BY <2>1, <2>3, InChecksGrows
  <2>6. age[i] <= Interval + InChecks(N)
    <3>1. Slept(i) \in 0 .. Interval
      BY PollerAssumption DEF Slept
    <3> QED
      BY <2>2, <2>4, <2>5, <3>1, PollerAssumption
  <2> QED
    BY <2>6 DEF InChecks, N
<1> QED
  BY <1>1, PollerInit, PollerStep, PTL DEF Spec

-----------------------------------------------------------------------------
(* The requests. *)

\* Whatever a request may be given.
Entries == UNION {ToSet(Candidates(s, m)) : s \in Sections, m \in Model}

Place == {"new", "asking", "routed", "unavailable"}

Asking ==
    [section : Sections, model : Model \cup {None}, next : Nat \ {0}, available : Seq(Entries),
     at : Place]

\* The candidates of a request, and how many of them have been asked.
Its(r) == Candidates(ask[r].section, ask[r].model)

Asked(r) == IF ask[r].at = "asking" THEN 1 .. ask[r].next - 1 ELSE 1 .. Len(Its(r))

RequestsTyped ==
    /\ ask \in [Requester -> Asking]
    /\ opened = [r \in Requester |-> opened[r]]
    /\ \A r \in Requester :
          /\ ask[r].at = "new" => ask[r].next = 1 /\ ask[r].available = <<>>
          /\ ask[r].at # "new" => ask[r].model \in Model
          /\ ask[r].at = "asking" => ask[r].next \in 1 .. Len(Its(r))

\* What is open while a request asks was open during it.
OpenedSeen == \A r \in Requester : ask[r].at # "new" => open \subseteq opened[r]

\* Whoever was asked was found, or was open then.
AskedFound ==
    \A r \in Requester : ask[r].at # "new" => \A i \in Asked(r) :
        \/ Its(r)[i] \in ToSet(ask[r].available)
        \/ BreakerKey(Its(r)[i], ask[r].model) \in opened[r]

\* What was found is in order, and comes before what is still to be asked.
FoundInOrder ==
    \A r \in Requester : ask[r].at # "new" =>
        LET a == ask[r].available
            Bef(x, y) == Before(x, y, ask[r].section, ask[r].model)
        IN  /\ \A i, j \in 1 .. Len(a) : i < j => Bef(a[i], a[j])
            /\ ask[r].at = "asking" =>
                  \A i \in 1 .. Len(a), j \in ask[r].next .. Len(Its(r)) : Bef(a[i], Its(r)[j])

RequestsInv == RegistryOK /\ RequestsTyped /\ OpenedSeen /\ AskedFound /\ FoundInOrder

\* Nothing that a request reads in the file or the chains changes.
LEMMA ChainsStay ==
    ASSUME UNCHANGED <<routing, backends_by_model>>
    PROVE  /\ \A s, m : Candidates(s, m)' = Candidates(s, m)
           /\ \A a, b, s, m : Before(a, b, s, m)' = Before(a, b, s, m)
           /\ Entries' = Entries
<1>1. \A s, m : Candidates(s, m)' = Candidates(s, m)
  BY DEF Candidates, Chain
<1>2. \A a, b, s, m : Before(a, b, s, m)' = Before(a, b, s, m)
  BY DEF Before, Written
<1>3. Entries' = Entries
  BY DEF Entries, Candidates, Chain
<1> QED
  BY <1>1, <1>2, <1>3

LEMMA RequestsInit == Init => RequestsInv
<1> SUFFICES ASSUME Init PROVE RequestsInv
  OBVIOUS
<1>1. RegistryOK
  BY DEF Init, RegistryInit, RegistryOK
<1>2. RequestsTyped
  BY DEF Init, RegistryInit, RequestsTyped, Asking, Place, Sections
<1>3. \A r \in Requester : ask[r].at = "new"
  BY DEF Init, RegistryInit
<1> QED
  BY <1>1, <1>2, <1>3 DEF RequestsInv, OpenedSeen, AskedFound, FoundInOrder

\* A call begins.
LEMMA GetBackendsKeeps ==
    ASSUME RequestsInv, NEW r \in Requester, NEW s \in Sections, NEW m \in Model,
           GetBackends(r, s, m)
    PROVE  RequestsInv'
<1> DEFINE c == Candidates(s, m)
<1>1. /\ UNCHANGED <<routing, backends_by_model, open>>
      /\ ask[r].at = "new" /\ ask[r].next = 1 /\ ask[r].available = <<>>
      /\ opened' = [opened EXCEPT ![r] = open]
  BY DEF GetBackends, RequestsInv, RequestsTyped
<1>2. /\ \A t, x : Candidates(t, x)' = Candidates(t, x)
      /\ \A a, b, t, x : Before(a, b, t, x)' = Before(a, b, t, x)
      /\ Entries' = Entries /\ RegistryOK'
  BY <1>1, ChainsStay DEF RequestsInv, RegistryOK
<1>3. c \in Seq(ToSet(c)) /\ (c = <<>> <=> Len(c) = 0)
  BY CandidatesReturn DEF RequestsInv
<1>4. /\ ask' \in [Requester -> Asking]
      /\ ask'[r].section = s /\ ask'[r].model = m /\ ask'[r].next = 1 /\ ask'[r].available = <<>>
      /\ ask'[r].at = IF c = <<>> THEN "unavailable" ELSE "asking"
      /\ \A q \in Requester \ {r} : ask'[q] = ask[q]
  BY DEF GetBackends, RequestsInv, RequestsTyped, Asking, Place
<1>5. Its(r)' = c /\ \A q \in Requester \ {r} : Its(q)' = Its(q) /\ Asked(q)' = Asked(q)
  BY <1>2, <1>4 DEF Its, Asked
<1> HIDE DEF c
<1>6. opened' = [q \in Requester |-> opened'[q]] /\ opened'[r] = open
      /\ \A q \in Requester \ {r} : opened'[q] = opened[q]
  BY <1>1 DEF RequestsInv, RequestsTyped
<1>7. RequestsTyped'
  <2>1. ask'[r].at = "asking" => 1 \in 1 .. Len(c)
    BY <1>3, <1>4
  <2>2. ASSUME NEW q \in Requester
        PROVE  /\ ask'[q].at = "new" => ask'[q].next = 1 /\ ask'[q].available = <<>>
               /\ ask'[q].at # "new" => ask'[q].model \in Model
               /\ ask'[q].at = "asking" => ask'[q].next \in 1 .. Len(Its(q)')
    BY <2>1, <1>4, <1>5 DEF RequestsInv, RequestsTyped
  <2>3. ask' \in [Requester -> Asking']
    BY <1>2, <1>4 DEF Asking
  <2> QED
    BY <2>2, <2>3, <1>6 DEF RequestsTyped
<1>8. OpenedSeen'
  BY <1>1, <1>4, <1>6 DEF RequestsInv, OpenedSeen
<1>9. AskedFound'
  <2>1. Asked(r)' = {}
    BY <1>3, <1>4, <1>5 DEF Asked
  <2> QED
    BY <2>1, <1>4, <1>5, <1>6 DEF RequestsInv, AskedFound
<1>10. FoundInOrder'
  <2>1. Len(ask'[r].available) = 0
    BY <1>4
  <2> QED
    BY <2>1, <1>2, <1>4, <1>5, SMTT(30) DEF RequestsInv, FoundInOrder
<1> QED
  BY <1>2, <1>7, <1>8, <1>9, <1>10 DEF RequestsInv

\* One more answer of a breaker.
LEMMA AskBreakerKeeps ==
    ASSUME RequestsInv, NEW r \in Requester, AskBreaker(r)
    PROVE  RequestsInv'
<1> DEFINE c == Its(r)
           n == ask[r].next
           a == ask[r].available
           b == ask'[r].available
           isOpen == BreakerKey(c[n], ask[r].model) \in open
           Bef(x, y) == Before(x, y, ask[r].section, ask[r].model)
<1>1. /\ UNCHANGED <<routing, backends_by_model, open, opened>>
      /\ ask[r] \in Asking /\ ask[r].at = "asking" /\ n \in 1 .. Len(c) /\ ask[r].model \in Model
  BY DEF AskBreaker, RequestsInv, RequestsTyped
<1>2. /\ \A t, x : Candidates(t, x)' = Candidates(t, x)
      /\ \A x, y, t, z : Before(x, y, t, z)' = Before(x, y, t, z)
      /\ Entries' = Entries /\ RegistryOK'
  BY <1>1, ChainsStay DEF RequestsInv, RegistryOK
<1>3. /\ c \in Seq(ToSet(c)) /\ Len(c) \in Nat
      /\ \A i, j \in 1 .. Len(c) : i < j => Bef(c[i], c[j])
  BY <1>1, CandidatesReturn DEF RequestsInv, Its, Asking
<1>4. c[n] \in Entries
  <2>1. c[n] \in ToSet(c)
    BY <1>1, <1>3
  <2> QED
    BY <2>1, <1>1 DEF Entries, Its, Asking
<1>5. a \in Seq(Entries) /\ Append(a, c[n]) \in Seq(Entries)
  BY <1>1, <1>4 DEF Asking
<1>6. Outcome(r, IF isOpen THEN a ELSE Append(a, c[n]), n = Len(c), isOpen)
          \in IF n = Len(c) THEN {"routed", "unavailable"} ELSE {"asking"}
  BY DEF Outcome
<1>7. /\ ask' = [ask EXCEPT ![r].next = n + 1,
                           ![r].available = b,
                           ![r].at = ask'[r].at]
      /\ b = IF isOpen THEN a ELSE Append(a, c[n])
      /\ ask'[r].next = n + 1
      /\ ask'[r].at \in IF n = Len(c) THEN {"routed", "unavailable"} ELSE {"asking"}
      /\ ask'[r].section = ask[r].section /\ ask'[r].model = ask[r].model
      /\ \A q \in Requester \ {r} : ask'[q] = ask[q]
  <2> DEFINE x == Outcome(r, IF isOpen THEN a ELSE Append(a, c[n]), n = Len(c), isOpen)
             y == IF isOpen THEN a ELSE Append(a, c[n])
  <2>1. ask' = [ask EXCEPT ![r].next = n + 1, ![r].available = y, ![r].at = x]
    BY DEF AskBreaker, Its
  <2>2. x \in IF n = Len(c) THEN {"routed", "unavailable"} ELSE {"asking"}
    BY <1>6
  <2>3. ask \in [Requester -> Asking]
    BY DEF RequestsInv, RequestsTyped
  <2> HIDE DEF x, y, isOpen
  <2>4. /\ ask'[r].available = y /\ ask'[r].at = x /\ ask'[r].next = n + 1
        /\ ask'[r].section = ask[r].section /\ ask'[r].model = ask[r].model
        /\ \A q \in Requester \ {r} : ask'[q] = ask[q]
    BY <2>1, <2>3 DEF Asking
  <2> QED
    BY <2>1, <2>2, <2>4 DEF y
<1> HIDE DEF isOpen, b
<1>8. ask' \in [Requester -> Asking]
  <2>1. b \in Seq(Entries) /\ ask'[r].at \in Place /\ n + 1 \in Nat \ {0}
    BY <1>1, <1>5, <1>7 DEF Place
  <2>2. ask \in [Requester -> Asking]
    BY DEF RequestsInv, RequestsTyped
  <2> DEFINE x == [ask[r] EXCEPT !.next = n + 1, !.available = b, !.at = ask'[r].at]
  <2>3. x \in Asking
    BY <2>1, <1>1 DEF Asking
  <2>4. ask' = [ask EXCEPT ![r] = x]
    BY <1>7
  <2> HIDE DEF x
  <2> QED
    BY <2>2, <2>3, <2>4
<1>9. /\ Its(r)' = c
      /\ \A q \in Requester \ {r} : Its(q)' = Its(q) /\ Asked(q)' = Asked(q)
  BY <1>2, <1>7 DEF Its, Asked
<1>10. Asked(r)' = 1 .. n /\ Asked(r) = 1 .. n - 1
  <2>1. ask'[r].at = "asking" <=> n # Len(c)
    BY <1>7
  <2>2. Asked(r)' = IF ask'[r].at = "asking" THEN 1 .. ask'[r].next - 1 ELSE 1 .. Len(c)
    BY <1>9 DEF Asked
  <2> QED
    BY <2>1, <2>2, <1>1, <1>3, <1>7 DEF Asked
<1> HIDE DEF c
<1>11. RequestsTyped'
  <2>1. ASSUME NEW q \in Requester
        PROVE  /\ ask'[q].at = "new" => ask'[q].next = 1 /\ ask'[q].available = <<>>
               /\ ask'[q].at # "new" => ask'[q].model \in Model
               /\ ask'[q].at = "asking" => ask'[q].next \in 1 .. Len(Its(q)')
    <3>1. CASE q = r
      BY <3>1, <1>1, <1>3, <1>7, <1>9
    <3>2. CASE q # r
      BY <3>2, <1>7, <1>9 DEF RequestsInv, RequestsTyped
    <3> QED
      BY <3>1, <3>2
  <2>2. ask' \in [Requester -> Asking']
    BY <1>2, <1>8 DEF Asking
  <2> QED
    BY <2>1, <2>2, <1>1 DEF RequestsInv, RequestsTyped
<1>12. OpenedSeen'
  <2>1. \A q \in Requester : ask'[q].at # "new" => ask[q].at # "new"
    BY <1>1, <1>7
  <2> QED
    BY <2>1, <1>1 DEF RequestsInv, OpenedSeen
<1>13. /\ Len(a) \in Nat
       /\ isOpen => b = a
       /\ ~isOpen => /\ Len(b) = Len(a) + 1
                     /\ \A i \in 1 .. Len(a) : b[i] = a[i]
                     /\ b[Len(a) + 1] = c[n]
  BY <1>5, <1>7
<1> HIDE DEF a
<1>14. ToSet(a) \subseteq ToSet(b) /\ (~isOpen => c[n] \in ToSet(b))
  <2>1. DOMAIN a = 1 .. Len(a) /\ DOMAIN b = 1 .. Len(b)
    BY <1>5, <1>7, <1>8 DEF Asking, b
  <2>2. ASSUME ~isOpen PROVE ToSet(a) \subseteq ToSet(b) /\ c[n] \in ToSet(b)
    <3>1. /\ \A i \in DOMAIN a : i \in DOMAIN b /\ b[i] = a[i]
          /\ Len(a) + 1 \in DOMAIN b /\ b[Len(a) + 1] = c[n]
      BY <2>1, <2>2, <1>13
    <3> QED
      BY <3>1 DEF ToSet
  <2> QED
    BY <2>2, <1>13
<1>15. AskedFound'
  <2> SUFFICES ASSUME NEW q \in Requester, ask'[q].at # "new", NEW i \in Asked(q)'
               PROVE  \/ Its(q)'[i] \in ToSet(ask'[q].available)
                      \/ BreakerKey(Its(q)'[i], ask'[q].model) \in opened'[q]
    BY DEF AskedFound, BreakerKey
  <2>1. CASE q # r
    BY <2>1, <1>1, <1>7, <1>9 DEF RequestsInv, AskedFound
  <2>2. CASE q = r /\ i # n
    <3>1. i \in Asked(r)
      BY <2>2, <1>1, <1>10
    <3>2. c[i] \in ToSet(a) \/ BreakerKey(c[i], ask[r].model) \in opened[r]
      BY <3>1, <1>1 DEF RequestsInv, AskedFound, a, c
    <3> QED
      BY <2>2, <3>2, <1>1, <1>7, <1>9, <1>14 DEF b
  <2>3. CASE q = r /\ i = n
    <3>1. isOpen => BreakerKey(c[n], ask[r].model) \in opened[r]
      BY <1>1 DEF RequestsInv, OpenedSeen, isOpen
    <3> QED
      BY <2>3, <3>1, <1>1, <1>7, <1>9, <1>14 DEF b
  <2> QED
    BY <2>1, <2>2, <2>3
<1>16. FoundInOrder'
  <2> SUFFICES ASSUME NEW q \in Requester, ask'[q].at # "new"
               PROVE  LET d == ask'[q].available
                          B(x, y) == Before(x, y, ask'[q].section, ask'[q].model)
                      IN  /\ \A i, j \in 1 .. Len(d) : i < j => B(d[i], d[j])
                          /\ ask'[q].at = "asking" =>
                                \A i \in 1 .. Len(d), j \in ask'[q].next .. Len(Its(q)') :
                                    B(d[i], Its(q)'[j])
    BY <1>2 DEF FoundInOrder
  <2>1. CASE q # r
    BY <2>1, <1>7, <1>9, SMTT(30) DEF RequestsInv, FoundInOrder
  <2>2. CASE q = r
    <3>1. /\ \A i, j \in 1 .. Len(a) : i < j => Bef(a[i], a[j])
          /\ \A i \in 1 .. Len(a), j \in n .. Len(c) : Bef(a[i], c[j])
      BY <1>1 DEF RequestsInv, FoundInOrder, a, c
    <3> HIDE DEF Bef, n
    <3>2. \A i, j \in 1 .. Len(b) : i < j => Bef(b[i], b[j])
      <4>1. CASE isOpen
        BY <4>1, <3>1, <1>13
      <4>2. CASE ~isOpen
        <5> SUFFICES ASSUME NEW i \in 1 .. Len(b), NEW j \in 1 .. Len(b), i < j
                     PROVE  Bef(b[i], b[j])
          OBVIOUS
        <5>1. i \in 1 .. Len(a) /\ b[i] = a[i] /\ (j \in 1 .. Len(a) \/ j = Len(a) + 1)
          BY <4>2, <1>13
        <5>2. n \in n .. Len(c)
          BY <1>1, <1>3
        <5> QED
          BY <4>2, <5>1, <5>2, <3>1, <1>13
      <4> QED
        BY <4>1, <4>2
    <3>3. \A i \in 1 .. Len(b), j \in n + 1 .. Len(c) : Bef(b[i], c[j])
      <4> SUFFICES ASSUME NEW i \in 1 .. Len(b), NEW j \in n + 1 .. Len(c)
                   PROVE  Bef(b[i], c[j])
        OBVIOUS
      <4>1. j \in n .. Len(c) /\ n \in 1 .. Len(c) /\ j \in 1 .. Len(c) /\ n < j
        BY <1>1, <1>3
      <4>2. CASE i \in 1 .. Len(a) /\ b[i] = a[i]
        BY <4>1, <4>2, <3>1
      <4>3. CASE b[i] = c[n]
        BY <4>1, <4>3, <1>3
      <4>4. (i \in 1 .. Len(a) /\ b[i] = a[i]) \/ b[i] = c[n]
        BY <1>13
      <4> QED
        BY <4>2, <4>3, <4>4
    <3> QED
      BY <2>2, <3>2, <3>3, <1>7, <1>9 DEF Bef, b, n
  <2> QED
    BY <2>1, <2>2
<1> QED
  BY <1>2, <1>11, <1>12, <1>15, <1>16 DEF RequestsInv

\* Breakers move, and requests under way have seen it.
LEMMA MoveKeeps == ASSUME RequestsInv, NEW keys, MoveBreakers(keys) PROVE RequestsInv'
<1>1. /\ UNCHANGED <<routing, backends_by_model, ask>>
      /\ open' = keys
      /\ opened' = [r \in Requester |-> opened[r] \cup keys]
  BY DEF MoveBreakers
<1>2. /\ \A t, x : Candidates(t, x)' = Candidates(t, x)
      /\ \A x, y, t, z : Before(x, y, t, z)' = Before(x, y, t, z)
      /\ Entries' = Entries /\ RegistryOK'
  BY <1>1, ChainsStay DEF RequestsInv, RegistryOK
<1>3. \A r \in Requester : Its(r)' = Its(r) /\ Asked(r)' = Asked(r)
  BY <1>1, <1>2 DEF Its, Asked
<1>4. RequestsTyped'
  BY <1>1, <1>2, <1>3 DEF RequestsInv, RequestsTyped, Asking
<1>5. OpenedSeen'
  BY <1>1 DEF OpenedSeen
<1>6. AskedFound'
  BY <1>1, <1>3 DEF RequestsInv, AskedFound, BreakerKey
<1>7. FoundInOrder'
  BY <1>1, <1>2, <1>3 DEF RequestsInv, FoundInOrder
<1> QED
  BY <1>2, <1>4, <1>5, <1>6, <1>7 DEF RequestsInv

LEMMA RequestsStep == RequestsInv /\ [Next]_vars => RequestsInv'
<1> SUFFICES ASSUME RequestsInv, [Next]_vars PROVE RequestsInv'
  OBVIOUS
<1>1. ASSUME UNCHANGED registryVars PROVE RequestsInv'
  <2>1. UNCHANGED <<routing, backends_by_model, open, ask, opened>>
    BY <1>1 DEF registryVars
  <2>2. /\ \A t, x : Candidates(t, x)' = Candidates(t, x)
        /\ \A x, y, t, z : Before(x, y, t, z)' = Before(x, y, t, z)
        /\ Entries' = Entries /\ RegistryOK'
    BY <2>1, ChainsStay DEF RequestsInv, RegistryOK
  <2>3. \A r \in Requester : Its(r)' = Its(r) /\ Asked(r)' = Asked(r)
    BY <2>1, <2>2 DEF Its, Asked
  <2>4. RequestsTyped' /\ OpenedSeen'
    BY <2>1, <2>2, <2>3 DEF RequestsInv, RequestsTyped, Asking, OpenedSeen
  <2>5. AskedFound'
    BY <2>1, <2>3 DEF RequestsInv, AskedFound, BreakerKey
  <2>6. FoundInOrder'
    BY <2>1, <2>2, <2>3 DEF RequestsInv, FoundInOrder
  <2> QED
    BY <2>2, <2>4, <2>5, <2>6 DEF RequestsInv
<1>2. ASSUME NEW ok \in BOOLEAN, Report(ok) PROVE RequestsInv'
  BY <1>2, MoveKeeps DEF Report
<1>3. CASE OthersMoveBreaker
  BY <1>3, MoveKeeps DEF OthersMoveBreaker
<1> QED
  BY <1>1, <1>2, <1>3, GetBackendsKeeps, AskBreakerKeeps
     DEF Next, Task, Check, Wake, Tick, Crash, Stop, Ends, Done, Call, vars

LEMMA RequestsInvariant == Spec => []RequestsInv
BY RequestsInit, RequestsStep, PTL DEF Spec

\* What a request is given is in the order the operator meant.
THEOREM RegistryRoutes == Spec => []RoutedByPriority
<1>1. RequestsInv => RoutedByPriority
  <2> SUFFICES ASSUME RequestsInv, NEW r \in Requester,
                      NEW i \in DOMAIN ask[r].available, NEW j \in DOMAIN ask[r].available, i < j
               PROVE  Before(ask[r].available[i], ask[r].available[j], ask[r].section, ask[r].model)
    BY DEF RoutedByPriority
  <2>1. ask[r].available \in Seq(Entries)
    BY DEF RequestsInv, RequestsTyped, Asking
  <2>2. DOMAIN ask[r].available = 1 .. Len(ask[r].available)
    BY <2>1
  <2>3. ask[r].at # "new"
    BY <2>2 DEF RequestsInv, RequestsTyped
  <2> QED
    BY <2>2, <2>3 DEF RequestsInv, FoundInOrder
<1> QED
  BY <1>1, RequestsInvariant, PTL

\* An entry whose backend the file defines and enables is left out only if its breaker was
\* open during the call.
THEOREM RegistryLeavesOut == Spec => []LeftOutOnlyIfOpen
<1>1. RequestsInv => LeftOutOnlyIfOpen
  <2> SUFFICES ASSUME RequestsInv, NEW r \in Requester, ask[r].at \in {"routed", "unavailable"},
                      NEW m \in ToSet(routing[ask[r].section]), m.model = ask[r].model,
                      NEW e \in ToSet(m.entries), Usable(routing, e)
               PROVE  \/ \E b \in ToSet(ask[r].available) :
                            b.id = e.backend /\ b.priority = e.priority
                      \/ <<e.backend, m.model>> \in opened[r]
    BY DEF LeftOutOnlyIfOpen
  <2>1. ask[r].section \in Sections /\ RegistryOK
    BY DEF RequestsInv, RequestsTyped, Asking
  <2>2. Its(r) \in Seq(ToSet(Its(r)))
    BY <2>1, CandidatesReturn DEF Its
  <2>3. PICK b \in ToSet(Its(r)) : b.id = e.backend /\ b.priority = e.priority
    BY <2>1, CandidatesComplete DEF Its
  <2>4. PICK i \in 1 .. Len(Its(r)) : b = Its(r)[i]
    BY <2>2 DEF ToSet
  <2>5. i \in Asked(r)
    BY DEF Asked
  <2>6. b \in ToSet(ask[r].available) \/ BreakerKey(b, ask[r].model) \in opened[r]
    BY <2>4, <2>5 DEF RequestsInv, AskedFound
  <2> QED
    BY <2>3, <2>6 DEF BreakerKey
<1> QED
  BY <1>1, RequestsInvariant, PTL

-----------------------------------------------------------------------------
(* The circuit breaker. *)

\* The inductive invariant: what the code maintains, and why the comparison
\* with the threshold is made once for each count the hash takes.
BreakerInv == TypeOK /\ TripsAtThreshold /\ OpenOnlyForCooldown

\* The hash does not exist at the start and nobody has called.
LEMMA BreakerInitHolds == BreakerInit => BreakerInv
BY BreakerAssumption
   DEF BreakerInit, BreakerInv, TypeOK, TripsAtThreshold, OpenOnlyForCooldown,
       NoKey, Hash, Exists

\* Each command to Redis, each expiry and each death keeps the invariant.
LEMMA BreakerStepHolds == BreakerInv /\ [BreakerNext]_breakerVars => BreakerInv'
<1> SUFFICES ASSUME BreakerInv, [BreakerNext]_breakerVars PROVE BreakerInv'
  OBVIOUS
<1> USE BreakerAssumption
<1> USE DEF BreakerInv, TypeOK, TripsAtThreshold, OpenOnlyForCooldown,
            Hash, Exists, Goto, Client
<1>1. CASE Flip
  BY <1>1 DEF Flip
<1>2. CASE Elapse
  BY <1>2 DEF Elapse, NoKey
<1>3. ASSUME NEW c \in Router, IsAvailable(c) PROVE BreakerInv'
  BY <1>3 DEF IsAvailable
<1>4. ASSUME NEW c \in Poller, Probe(c) PROVE BreakerInv'
  BY <1>4 DEF Probe
<1>5. ASSUME NEW c \in Client, Answer(c) PROVE BreakerInv'
  BY <1>5 DEF Answer
<1>6. ASSUME NEW c \in Client, RecordSuccess(c) PROVE BreakerInv'
  <2>1. /\ hash' = [state |-> "closed", failures |-> 0, ttl |-> hash.ttl]
        /\ pc' = [pc EXCEPT ![c] = "idle"] /\ up' = up
    BY <1>6 DEF RecordSuccess
  <2>2. TypeOK'
    BY <2>1
  <2>3. TripsAtThreshold' /\ OpenOnlyForCooldown'
    BY <2>1
  <2> QED
    BY <2>2, <2>3
<1>7. ASSUME NEW c \in Client, RecordFailure(c) PROVE BreakerInv'
  BY <1>7 DEF RecordFailure
<1>8. ASSUME NEW c \in Client, Open(c) PROVE BreakerInv'
  BY <1>8 DEF Open
<1>9. ASSUME NEW c \in Client, SetExpiry(c) PROVE BreakerInv'
  BY <1>9 DEF SetExpiry
<1>10. ASSUME NEW c \in Mortal, Die(c) PROVE BreakerInv'
  BY <1>10 DEF Die
<1>11. ASSUME NEW c \in Router, Abandon(c) PROVE BreakerInv'
  BY <1>11 DEF Abandon
<1>12. CASE UNCHANGED breakerVars
  BY <1>12 DEF breakerVars
<1> QED
  BY <1>1, <1>2, <1>3, <1>4, <1>5, <1>6, <1>7, <1>8, <1>9, <1>10, <1>11, <1>12 DEF BreakerNext

\* Every reachable state satisfies the inductive invariant.
THEOREM BreakerInvariant == BreakerSpec => []BreakerInv
BY BreakerInitHolds, BreakerStepHolds, PTL DEF BreakerSpec

\* The hash is well formed, and has no expiry when it does not exist.
THEOREM BreakerTypeCorrect == BreakerSpec => []TypeOK
<1>1. BreakerInv => TypeOK
  BY DEF BreakerInv
<1> QED
  BY <1>1, BreakerInvariant, PTL

\* A failure count at the threshold opens the breaker, whoever else reports at
\* the same time, unless the client that counted it dies.
THEOREM BreakerTrips == BreakerSpec => []TripsAtThreshold
<1>1. BreakerInv => TripsAtThreshold
  BY DEF BreakerInv
<1> QED
  BY <1>1, BreakerInvariant, PTL

\* An open breaker has an expiry, or is about to get one, unless the client that
\* opened it dies.
THEOREM BreakerCools == BreakerSpec => []OpenOnlyForCooldown
<1>1. BreakerInv => OpenOnlyForCooldown
  BY DEF BreakerInv
<1> QED
  BY <1>1, BreakerInvariant, PTL
=============================================================================
