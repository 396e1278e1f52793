--------------------------- MODULE AnswersProofs ---------------------------
(***************************************************************************)
(* Proofs about Answers for any streams of any texts and any number of     *)
(* attempts.                                                               *)
(***************************************************************************)
EXTENDS Answers, SequenceTheorems, FiniteSetTheorems, WellFoundedInduction, TLAPS

-----------------------------------------------------------------------------
(* Loops and lists. *)

\* Every set of numbers has a least one; Min is that one.
LEMMA LeastOf ==
    ASSUME NEW S \in SUBSET Nat, S # {}
    PROVE  Min(S) \in S /\ \A x \in S : Min(S) <= x
<1> DEFINE R == OpToRel(<, Nat)
<1>1. IsWellFoundedOn(R, Nat)
  BY NatLessThanWellFounded
<1>2. PICK x \in S : \A y \in S : <<y, x>> \notin R
  <2> HIDE DEF R
  <2> QED
    BY <1>1, WFMin
<1>3. \A y \in S : x <= y
  <2>1. \A y \in S : y \in Nat
    OBVIOUS
  <2>2. \A y \in S : ~(y < x)
    BY <1>2, <2>1 DEF OpToRel
  <2> QED
    BY <2>1, <2>2
<1> QED
  BY <1>3 DEF Min

\* A set of numbers below a bound has a greatest one; Max is that one.
LEMMA GreatestOf ==
    ASSUME NEW S \in SUBSET Nat, S # {}, NEW n \in Nat, \A x \in S : x <= n
    PROVE  Max(S) \in S /\ \A x \in S : x <= Max(S)
<1> DEFINE T == {n - x : x \in S}
<1>1. T \in SUBSET Nat /\ T # {}
  <2>1. \A x \in S : n - x \in Nat
    <3>1. \A x \in S : x \in Nat
      OBVIOUS
    <3> QED
      BY <3>1
  <2> QED
    BY <2>1
<1>2. PICK y \in T : \A z \in T : y <= z
  <2> HIDE DEF T
  <2> QED
    BY <1>1, LeastOf
<1>3. PICK x \in S : y = n - x
  OBVIOUS
<1>4. \A w \in S : w <= x
  <2> TAKE w \in S
  <2>1. y <= n - w
    BY <1>2
  <2> QED
    BY <1>3, <2>1
<1> QED
  BY <1>3, <1>4 DEF Max

\* Induction, for a set that is known.
LEMMA SetInduction ==
    ASSUME NEW S, 0 \in S, \A n \in Nat : n \in S => n + 1 \in S
    PROVE  \A n \in Nat : n \in S
<1> SUFFICES ASSUME Nat \ S # {} PROVE FALSE
  OBVIOUS
<1> DEFINE x == Min(Nat \ S)
<1>1. x \in Nat \ S /\ \A y \in Nat \ S : x <= y
  BY LeastOf
<1> HIDE DEF x
<1>2. x # 0 /\ x - 1 \in Nat
  BY <1>1
<1>3. x - 1 \in S
  BY <1>1, <1>2
<1> QED
  BY <1>1, <1>2, <1>3

\* The states of a loop with n turns that begins at a; turn i leads from x to g[i][x].
IsLoop(f, n, a, g) == f[0] = a /\ \A i \in 1 .. n : f[i] = g[i][f[i - 1]]

\* A loop whose turns stay in S can be run to its end.
LEMMA LoopExists ==
    ASSUME NEW S, NEW n \in Nat, NEW a \in S, NEW g \in [1 .. n -> [S -> S]]
    PROVE  \E f \in [0 .. n -> S] : IsLoop(f, n, a, g)
<1> DEFINE Has(m) == \E f \in [0 .. m -> S] : IsLoop(f, m, a, g)
           T      == {m \in Nat : m <= n => Has(m)}
<1>1. 0 \in T
  <2>1. [i \in 0 .. 0 |-> a] \in [0 .. 0 -> S] /\ IsLoop([i \in 0 .. 0 |-> a], 0, a, g)
    BY DEF IsLoop
  <2> QED
    BY <2>1
<1>2. ASSUME NEW m \in Nat, m \in T PROVE m + 1 \in T
  <2> SUFFICES ASSUME m + 1 <= n PROVE Has(m + 1)
    OBVIOUS
  <2>1. PICK f \in [0 .. m -> S] : IsLoop(f, m, a, g)
    BY <1>2
  <2> DEFINE h == [i \in 0 .. m + 1 |-> IF i <= m THEN f[i] ELSE g[m + 1][f[m]]]
  <2>2. f[m] \in S /\ g[m + 1] \in [S -> S]
    OBVIOUS
  <2>3. h \in [0 .. m + 1 -> S]
    BY <2>2
  <2>4. (\A i \in 0 .. m : h[i] = f[i]) /\ h[m + 1] = g[m + 1][f[m]]
    OBVIOUS
  <2> HIDE DEF h
  <2>5. ASSUME NEW i \in 1 .. m + 1 PROVE h[i] = g[i][h[i - 1]]
    <3>1. CASE i = m + 1
      BY <3>1, <2>4
    <3>2. CASE i # m + 1
      <4>1. i \in 1 .. m /\ i - 1 \in 0 .. m
        BY <3>2
      <4> QED
        BY <4>1, <2>1, <2>4 DEF IsLoop
    <3> QED
      BY <3>1, <3>2
  <2>6. IsLoop(h, m + 1, a, g)
    BY <2>1, <2>4, <2>5 DEF IsLoop
  <2> QED
    BY <2>3, <2>6
<1> HIDE DEF T
<1>3. \A m \in Nat : m \in T
  BY <1>1, <1>2, SetInduction
<1> QED
  BY <1>3 DEF T

\* FlattenSeq is a loop that appends list after list.
IsFlattening(f, ss) == f[0] = <<>> /\ \A i \in 1 .. Len(ss) : f[i] = f[i - 1] \o ss[i]

\* FlattenSeq is where that loop ends.
LEMMA FlattenLoops ==
    ASSUME NEW X, NEW ss \in Seq(Seq(X))
    PROVE  \E f \in [0 .. Len(ss) -> Seq(X)] :
               IsFlattening(f, ss) /\ FlattenSeq(ss) = f[Len(ss)]
<1> DEFINE n     == Len(ss)
           g     == [i \in 1 .. n |-> [x \in Seq(X) |-> x \o ss[i]]]
           IsF(h) == h = [i \in 1 .. n |-> IF i = 1 THEN ss[i] ELSE h[i - 1] \o ss[i]]
           flat  == CHOOSE h : IsF(h)
<1>1. n \in Nat /\ \A i \in 1 .. n : ss[i] \in Seq(X)
  OBVIOUS
<1>2. g \in [1 .. n -> [Seq(X) -> Seq(X)]]
  BY <1>1
<1> HIDE DEF n
<1>3. PICK f \in [0 .. n -> Seq(X)] : IsLoop(f, n, <<>>, g)
  <2>1. <<>> \in Seq(X)
    OBVIOUS
  <2> HIDE DEF g
  <2> QED
    BY <1>1, <1>2, <2>1, LoopExists
<1>4. IsFlattening(f, ss)
  <2>1. ASSUME NEW i \in 1 .. n PROVE f[i] = f[i - 1] \o ss[i]
    <3>1. i - 1 \in 0 .. n
      BY <1>1
    <3>2. f[i - 1] \in Seq(X)
      BY <3>1
    <3>3. f[i] = g[i][f[i - 1]]
      <4> HIDE DEF g
      <4> QED
        BY <1>3 DEF IsLoop
    <3> QED
      BY <3>2, <3>3
  <2> QED
    BY <1>3, <2>1 DEF IsLoop, IsFlattening, n
<1>5. CASE n = 0
  <2>1. FlattenSeq(ss) = <<>>
    <3>1. ss = <<>>
      BY <1>5 DEF n
    <3> QED
      BY <3>1, <1>5 DEF FlattenSeq, n
  <2>2. f[n] = <<>>
    BY <1>4, <1>5 DEF IsFlattening
  <2> QED
    BY <1>4, <2>1, <2>2 DEF n
<1>6. CASE n # 0
  <2>1. FlattenSeq(ss) = flat[n]
    BY <1>6 DEF FlattenSeq, n
  <2> DEFINE h == [i \in 1 .. n |-> f[i]]
  <2>2. IsF(h)
    <3>1. ASSUME NEW i \in 1 .. n PROVE h[i] = IF i = 1 THEN ss[i] ELSE h[i - 1] \o ss[i]
      <4>1. f[i] = f[i - 1] \o ss[i] /\ ss[i] \in Seq(X)
        BY <1>1, <1>4 DEF IsFlattening, n
      <4>2. CASE i = 1
        <5>1. f[0] = <<>>
          BY <1>4 DEF IsFlattening
        <5>2. <<>> \o ss[1] = ss[1]
          BY <4>1, <4>2, ConcatEmptySeq
        <5>3. i - 1 = 0
          BY <4>2
        <5>4. f[i] = f[0] \o ss[i]
          BY <4>1, <5>3
        <5> QED
          BY <4>2, <5>1, <5>2, <5>4
      <4>3. CASE i # 1
        <5>1. i - 1 \in 1 .. n
          BY <1>1, <4>3
        <5>2. h[i - 1] = f[i - 1]
          BY <5>1
        <5> QED
          BY <4>1, <4>3, <5>2
      <4> QED
        BY <4>2, <4>3
    <3> QED
      BY <3>1
  <2>3. IsF(flat)
    BY <2>2
  <2> HIDE DEF flat
  <2> DEFINE T == {i \in Nat : i \in 1 .. n => flat[i] = f[i]}
  <2>4. 0 \in T
    OBVIOUS
  <2>5. ASSUME NEW i \in Nat, i \in T PROVE i + 1 \in T
    <3> SUFFICES ASSUME i + 1 \in 1 .. n PROVE flat[i + 1] = f[i + 1]
      OBVIOUS
    <3>1. flat[i + 1] = IF i = 0 THEN ss[i + 1] ELSE flat[i] \o ss[i + 1]
      <4> DEFINE rhs(k) == IF k = 1 THEN ss[k] ELSE flat[k - 1] \o ss[k]
      <4>1. flat = [k \in 1 .. n |-> rhs(k)]
        BY <2>3
      <4>2. flat[i + 1] = rhs(i + 1)
        <5> HIDE DEF rhs
        <5> QED
          BY <4>1
      <4>3. (i + 1 = 1 <=> i = 0) /\ (i + 1) - 1 = i
        OBVIOUS
      <4>4. rhs(i + 1) = IF i = 0 THEN ss[i + 1] ELSE flat[i] \o ss[i + 1]
        BY <4>3
      <4> HIDE DEF rhs
      <4> QED
        BY <4>2, <4>4
    <3>2. f[i + 1] = f[i] \o ss[i + 1] /\ ss[i + 1] \in Seq(X)
      <4>1. (i + 1) - 1 = i
        OBVIOUS
      <4>2. i + 1 \in 1 .. Len(ss)
        BY DEF n
      <4> QED
        BY <4>1, <4>2, <1>1, <1>4 DEF IsFlattening, n
    <3>3. CASE i = 0
      <4>1. f[0] = <<>>
        BY <1>4 DEF IsFlattening
      <4> QED
        BY <3>1, <3>2, <3>3, <4>1
    <3>4. CASE i # 0
      <4>1. i \in 1 .. n
        BY <1>1, <3>4
      <4>2. flat[i] = f[i]
        BY <2>5, <4>1
      <4> QED
        BY <3>1, <3>2, <3>4, <4>2
    <3> QED
      BY <3>3, <3>4
  <2> HIDE DEF T
  <2>6. n \in T
    BY <1>1, <2>4, <2>5, SetInduction
  <2>7. flat[n] = f[n]
    BY <1>1, <1>6, <2>6 DEF T
  <2> QED
    BY <1>4, <2>1, <2>7 DEF n
<1> QED
  BY <1>5, <1>6

\* FlattenSeq of the lists of ss and then of those of tt.
LEMMA FlattenConcat ==
    ASSUME NEW X, NEW ss \in Seq(Seq(X)), NEW tt \in Seq(Seq(X))
    PROVE  FlattenSeq(ss \o tt) = FlattenSeq(ss) \o FlattenSeq(tt)
<1> DEFINE m == Len(ss)
           n == Len(tt)
           uu == ss \o tt
<1>1. /\ m \in Nat /\ n \in Nat /\ uu \in Seq(Seq(X)) /\ Len(uu) = m + n
      /\ \A i \in 1 .. m : uu[i] = ss[i]
      /\ \A i \in 1 .. n : uu[m + i] = tt[i] /\ tt[i] \in Seq(X)
  OBVIOUS
<1> HIDE DEF uu, m, n
<1>2. PICK f \in [0 .. m -> Seq(X)] : IsFlattening(f, ss) /\ FlattenSeq(ss) = f[m]
  BY FlattenLoops DEF m
<1>3. PICK g \in [0 .. n -> Seq(X)] : IsFlattening(g, tt) /\ FlattenSeq(tt) = g[n]
  BY FlattenLoops DEF n
<1>4. PICK h \in [0 .. m + n -> Seq(X)] : IsFlattening(h, uu) /\ FlattenSeq(uu) = h[m + n]
  <2>1. Len(uu) = m + n
    BY <1>1
  <2>2. PICK h \in [0 .. Len(uu) -> Seq(X)] : IsFlattening(h, uu) /\ FlattenSeq(uu) = h[Len(uu)]
    BY <1>1, FlattenLoops
  <2> QED
    BY <2>1, <2>2
<1> DEFINE T == {i \in Nat : i <= m => h[i] = f[i]}
           P(i) == i <= n => h[m + i] = f[m] \o g[i]
           U == {i \in Nat : P(i)}
<1>5. m \in T
  <2>1. 0 \in T
    BY <1>2, <1>4 DEF IsFlattening
  <2>2. ASSUME NEW i \in Nat, i \in T PROVE i + 1 \in T
    <3> SUFFICES ASSUME i + 1 <= m PROVE h[i + 1] = f[i + 1]
      OBVIOUS
    <3>1. (i + 1) - 1 = i /\ i + 1 \in 1 .. m /\ i + 1 \in 1 .. m + n
      BY <1>1
    <3>2. h[i + 1] = h[i] \o uu[i + 1] /\ f[i + 1] = f[i] \o ss[i + 1]
      BY <3>1, <1>1, <1>2, <1>4 DEF IsFlattening, m
    <3>3. h[i] = f[i]
      <4>1. i <= m
        BY <3>1, <1>1
      <4> QED
        BY <4>1, <2>2
    <3>4. uu[i + 1] = ss[i + 1]
      BY <3>1, <1>1
    <3> QED
      BY <3>2, <3>3, <3>4
  <2> HIDE DEF T
  <2> QED
    BY <1>1, <2>1, <2>2, SetInduction
<1>6. n \in U
  <2>1. 0 \in U
    <3>1. h[m] = f[m] /\ g[0] = <<>> /\ f[m] \in Seq(X)
      BY <1>1, <1>2, <1>3, <1>5 DEF IsFlattening
    <3>2. m + 0 = m /\ f[m] \o <<>> = f[m]
      BY <1>1, <3>1, ConcatEmptySeq
    <3> QED
      BY <3>1, <3>2
  <2>2. ASSUME NEW i \in Nat, i \in U PROVE i + 1 \in U
    <3>1. ASSUME i + 1 <= n PROVE h[m + (i + 1)] = f[m] \o g[i + 1]
      <4>1. /\ (i + 1) - 1 = i /\ i + 1 \in 1 .. n /\ i \in 0 .. n
            /\ (m + (i + 1)) - 1 = m + i /\ m + (i + 1) \in 1 .. m + n
        BY <1>1, <3>1
      <4>2. g[i + 1] = g[i] \o tt[i + 1]
        BY <4>1, <1>3 DEF IsFlattening, n
      <4>3. h[m + (i + 1)] = h[m + i] \o uu[m + (i + 1)]
        BY <4>1, <1>1, <1>4 DEF IsFlattening
      <4>4. h[m + i] = f[m] \o g[i]
        <5>1. i <= n
          BY <4>1, <1>1
        <5> QED
          BY <5>1, <2>2
      <4>7. uu[m + (i + 1)] = tt[i + 1]
        BY <4>1, <1>1
      <4>5. f[m] \in Seq(X) /\ g[i] \in Seq(X) /\ tt[i + 1] \in Seq(X)
        <5>1. m \in 0 .. m /\ i \in 0 .. n
          BY <4>1, <1>1
        <5>2. tt[i + 1] \in Seq(X)
          BY <4>1, <1>1
        <5> QED
          BY <5>1, <5>2
      <4>6. (f[m] \o g[i]) \o tt[i + 1] = f[m] \o (g[i] \o tt[i + 1])
        <5> DEFINE a == f[m]
                   b == g[i]
                   c == tt[i + 1]
        <5>1. a \in Seq(X) /\ b \in Seq(X) /\ c \in Seq(X)
          BY <4>5
        <5> HIDE DEF a, b, c
        <5>2. (a \o b) \o c = a \o (b \o c)
          BY <5>1, ConcatAssociative, SMTT(30)
        <5> QED
          BY <5>2 DEF a, b, c
      <4> QED
        BY <4>2, <4>3, <4>4, <4>6, <4>7
    <3>2. P(i + 1)
      BY <3>1
    <3> HIDE DEF P
    <3> QED
      BY <3>2
  <2> HIDE DEF U
  <2> QED
    BY <1>1, <2>1, <2>2, SetInduction
<1>7. h[m + n] = f[m] \o g[n]
  <2>1. n <= n
    BY <1>1
  <2> QED
    BY <1>6, <2>1
<1>8. FlattenSeq(uu) = FlattenSeq(ss) \o FlattenSeq(tt)
  BY <1>2, <1>3, <1>4, <1>7
<1> QED
  BY <1>8 DEF uu

\* FlattenSeq of one list is that list.
LEMMA FlattenOne ==
    ASSUME NEW X, NEW s \in Seq(X)
    PROVE  FlattenSeq(<<s>>) = s
<1>1. <<s>> \in Seq(Seq(X)) /\ Len(<<s>>) = 1 /\ <<s>>[1] = s
  OBVIOUS
<1>2. PICK f \in [0 .. 1 -> Seq(X)] : IsFlattening(f, <<s>>) /\ FlattenSeq(<<s>>) = f[1]
  BY <1>1, FlattenLoops
<1>3. f[1] = f[0] \o s /\ f[0] = <<>>
  <2> DEFINE ss == <<s>>
  <2>1. Len(ss) = 1 /\ ss[1] = s
    OBVIOUS
  <2> HIDE DEF ss
  <2>2. IsFlattening(f, ss)
    BY <1>2 DEF ss
  <2>3. f[0] = <<>> /\ f[1] = f[1 - 1] \o ss[1]
    BY <2>1, <2>2 DEF IsFlattening
  <2> QED
    BY <2>1, <2>3
<1> QED
  BY <1>2, <1>3, ConcatEmptySeq

-----------------------------------------------------------------------------
(* The parts and the strings of a text. *)

\* The tokens of a text at work: those of Token and what repairs make of them.
Tok == [kind  : {"S", "R", "N", "1", "fence", "{", "}", "[", "]", ",", ":", "refused"},
        parts : Seq(Nat)]

Strings(t) == {i \in DOMAIN t : IsStr(t[i])}
Count(t)   == Cardinality(Strings(t))

\* A set of tokens that has what repairs make of them.
Closed(X) == /\ X \in SUBSET Tok
             /\ \A tok \in Tok : tok.kind \in {"S", "refused"} => tok \in X

\* Tokens of a backend are tokens; only strings have parts there.
LEMMA TokFits ==
    /\ Token \in SUBSET Tok
    /\ \A tok \in Tok : tok.parts \in Seq(Nat)
    /\ \A tok \in Token : IsStr(tok) \/ tok.parts = <<>>
BY DEF Tok, Token

\* A text of fewer kinds of tokens is a text of more.
LEMMA SeqMonotone ==
    ASSUME NEW X, NEW Y, X \in SUBSET Y, NEW t \in Seq(X)
    PROVE  t \in Seq(Y)
OBVIOUS

\* The parts of the tokens, one list for each.
LEMMA PartsListed ==
    ASSUME NEW t \in Seq(Tok)
    PROVE  /\ [i \in DOMAIN t |-> t[i].parts] \in Seq(Seq(Nat))
           /\ Len([i \in DOMAIN t |-> t[i].parts]) = Len(t)
<1> DEFINE n == Len(t)
<1>1. n \in Nat /\ DOMAIN t = 1 .. n
  OBVIOUS
<1>2. \A i \in 1 .. n : t[i].parts \in Seq(Nat)
  BY TokFits
<1> HIDE DEF n
<1>3. [i \in 1 .. n |-> t[i].parts] \in Seq(Seq(Nat))
  BY <1>1, <1>2, IsASeq
<1> QED
  BY <1>1, <1>3 DEF n

\* The parts of two texts put together are those of the one and then of the other.
LEMMA PartsConcat ==
    ASSUME NEW u \in Seq(Tok), NEW v \in Seq(Tok)
    PROVE  Parts(u \o v) = Parts(u) \o Parts(v)
<1> DEFINE w == u \o v
           pu == [i \in DOMAIN u |-> u[i].parts]
           pv == [i \in DOMAIN v |-> v[i].parts]
           pw == [i \in DOMAIN w |-> w[i].parts]
<1>1. /\ w \in Seq(Tok) /\ Len(w) = Len(u) + Len(v) /\ Len(u) \in Nat /\ Len(v) \in Nat
      /\ \A i \in 1 .. Len(u) + Len(v) : w[i] = IF i <= Len(u) THEN u[i] ELSE v[i - Len(u)]
  BY ConcatProperties
<1> HIDE DEF w
<1>2. /\ pu \in Seq(Seq(Nat)) /\ pv \in Seq(Seq(Nat)) /\ pw \in Seq(Seq(Nat))
      /\ Len(pu) = Len(u) /\ Len(pv) = Len(v) /\ Len(pw) = Len(w)
  BY <1>1, PartsListed
<1>3. /\ \A i \in 1 .. Len(u) : pu[i] = u[i].parts
      /\ \A i \in 1 .. Len(v) : pv[i] = v[i].parts
      /\ \A i \in 1 .. Len(w) : pw[i] = w[i].parts
  BY <1>1
<1> HIDE DEF pu, pv, pw
<1> DEFINE q == pu \o pv
<1>4. /\ q \in Seq(Seq(Nat)) /\ Len(q) = Len(pu) + Len(pv)
      /\ \A i \in 1 .. Len(pu) + Len(pv) : q[i] = IF i <= Len(pu) THEN pu[i] ELSE pv[i - Len(pu)]
  BY <1>2, ConcatProperties
<1> HIDE DEF q
<1>5. pw = q
  <2>1. ASSUME NEW i \in 1 .. Len(pw) PROVE pw[i] = q[i]
    <3>1. i \in 1 .. Len(u) + Len(v)
      BY <1>1, <1>2
    <3>2. CASE i <= Len(u)
      <4>1. pw[i] = w[i].parts /\ w[i] = u[i]
        BY <3>1, <3>2, <1>1, <1>3
      <4>2. q[i] = pu[i]
        BY <3>1, <3>2, <1>2, <1>4
      <4>3. pu[i] = u[i].parts
        BY <3>1, <3>2, <1>3
      <4> QED
        BY <4>1, <4>2, <4>3
    <3>3. CASE ~(i <= Len(u))
      <4>1. i - Len(u) \in 1 .. Len(v)
        BY <3>1, <3>3, <1>1
      <4>2. pw[i] = w[i].parts /\ w[i] = v[i - Len(u)]
        BY <3>1, <3>3, <1>1, <1>3
      <4>3. q[i] = pv[i - Len(u)]
        BY <3>1, <3>3, <1>2, <1>4
      <4>4. pv[i - Len(u)] = v[i - Len(u)].parts
        BY <4>1, <1>3
      <4> QED
        BY <4>2, <4>3, <4>4
    <3> QED
      BY <3>2, <3>3
  <2>2. Len(pw) = Len(q)
    BY <1>1, <1>2, <1>4
  <2> QED
    BY <1>2, <1>4, <2>1, <2>2, SeqEqual
<1>6. FlattenSeq(q) = FlattenSeq(pu) \o FlattenSeq(pv)
  BY <1>2, FlattenConcat DEF q
<1> QED
  BY <1>5, <1>6 DEF Parts, pu, pv, pw, w

\* The parts of a single token.
LEMMA PartsOne ==
    ASSUME NEW tok \in Tok
    PROVE  Parts(<<tok>>) = tok.parts
<1>1. [i \in DOMAIN <<tok>> |-> <<tok>>[i].parts] = <<tok.parts>>
  OBVIOUS
<1>2. tok.parts \in Seq(Nat)
  BY TokFits
<1> QED
  BY <1>1, <1>2, FlattenOne DEF Parts

\* An empty text has no parts.
LEMMA PartsEmpty == Parts(<<>>) = <<>>
<1>1. [i \in DOMAIN <<>> |-> <<>>[i].parts] = <<>>
  OBVIOUS
<1> QED
  BY <1>1 DEF Parts, FlattenSeq

\* Parts are numbers.
LEMMA PartsType ==
    ASSUME NEW t \in Seq(Tok)
    PROVE  Parts(t) \in Seq(Nat)
<1> DEFINE pt == [i \in DOMAIN t |-> t[i].parts]
<1>1. pt \in Seq(Seq(Nat))
  BY PartsListed
<1> HIDE DEF pt
<1>2. PICK f \in [0 .. Len(pt) -> Seq(Nat)] : FlattenSeq(pt) = f[Len(pt)]
  BY <1>1, FlattenLoops
<1>3. Len(pt) \in 0 .. Len(pt)
  BY <1>1
<1> QED
  BY <1>2, <1>3 DEF Parts, pt

\* A text has a number of strings, and at least one if there is one.
LEMMA CountType ==
    ASSUME NEW t \in Seq(Tok)
    PROVE  /\ IsFiniteSet(Strings(t)) /\ Count(t) \in Nat
           /\ Strings(t) # {} => Count(t) >= 1
<1>1. Strings(t) \in SUBSET (1 .. Len(t)) /\ Len(t) \in Nat
  BY DEF Strings
<1>2. IsFiniteSet(Strings(t))
  <2>1. IsFiniteSet(1 .. Len(t))
    BY <1>1, FS_Interval
  <2> QED
    BY <1>1, <2>1, FS_Subset
<1>3. Count(t) \in Nat
  BY <1>2, FS_CardinalityType DEF Count
<1>4. Count(t) = 0 <=> Strings(t) = {}
  BY <1>2, FS_EmptySet DEF Count
<1> QED
  BY <1>2, <1>3, <1>4

\* Two texts put together have the strings of both.
LEMMA CountConcat ==
    ASSUME NEW u \in Seq(Tok), NEW v \in Seq(Tok)
    PROVE  Count(u \o v) = Count(u) + Count(v)
<1> DEFINE w == u \o v
           m == Len(u)
           T == {i \in Strings(w) : i > m}
<1>1. /\ w \in Seq(Tok) /\ m \in Nat /\ Len(v) \in Nat /\ Len(w) = m + Len(v)
      /\ \A i \in 1 .. m + Len(v) : w[i] = IF i <= m THEN u[i] ELSE v[i - m]
      /\ DOMAIN u = 1 .. m /\ DOMAIN v = 1 .. Len(v) /\ DOMAIN w = 1 .. m + Len(v)
  BY ConcatProperties, LenProperties
<1> HIDE DEF w, m
<1>2. /\ IsFiniteSet(Strings(u)) /\ IsFiniteSet(Strings(v)) /\ IsFiniteSet(Strings(w))
      /\ Count(u) \in Nat /\ Count(v) \in Nat
  BY <1>1, CountType
<1>3. Strings(w) = Strings(u) \cup T /\ Strings(u) \cap T = {}
  <2>1. ASSUME NEW i \in Strings(w), ~(i > m) PROVE i \in Strings(u)
    BY <2>1, <1>1 DEF Strings
  <2>2. ASSUME NEW i \in Strings(u) PROVE i \in Strings(w) /\ ~(i > m)
    <3>1. i \in 1 .. m /\ IsStr(u[i]) /\ i \in 1 .. m + Len(v)
      BY <1>1 DEF Strings
    <3>2. w[i] = u[i]
      BY <3>1, <1>1
    <3> QED
      BY <3>1, <3>2, <1>1 DEF Strings
  <2> QED
    BY <2>1, <2>2
<1>4. IsFiniteSet(T) /\ Cardinality(T) = Cardinality(Strings(v))
  <2> DEFINE f == [i \in Strings(v) |-> m + i]
  <2>1. ASSUME NEW i \in Strings(v) PROVE m + i \in T
    <3>1. i \in 1 .. Len(v) /\ IsStr(v[i])
      BY <1>1 DEF Strings
    <3>2. m + i \in 1 .. m + Len(v) /\ (m + i) - m = i /\ ~(m + i <= m)
      BY <3>1, <1>1
    <3>3. w[m + i] = v[i]
      BY <3>2, <1>1
    <3> QED
      BY <3>1, <3>2, <3>3, <1>1 DEF Strings
  <2>2. ASSUME NEW j \in T PROVE \E i \in Strings(v) : j = m + i
    <3>1. j \in 1 .. m + Len(v) /\ j > m /\ IsStr(w[j])
      BY <1>1 DEF Strings
    <3>2. j - m \in 1 .. Len(v) /\ m + (j - m) = j /\ ~(j <= m)
      BY <3>1, <1>1
    <3>3. w[j] = v[j - m]
      BY <3>1, <3>2, <1>1
    <3>4. j - m \in Strings(v)
      BY <3>1, <3>2, <3>3, <1>1 DEF Strings
    <3> QED
      BY <3>2, <3>4
  <2>3. \A i, j \in Strings(v) : m + i = m + j => i = j
    <3>1. \A i \in Strings(v) : i \in Nat
      BY <1>1 DEF Strings
    <3> QED
      BY <3>1, <1>1
  <2> HIDE DEF T
  <2>4. f \in Bijection(Strings(v), T)
    BY <2>1, <2>2, <2>3 DEF Bijection, Injection, Surjection, IsInjective
  <2>5. ExistsBijection(Strings(v), T)
    BY <2>4 DEF ExistsBijection
  <2> QED
    BY <2>5, <1>2, FS_Bijection
<1>5. Cardinality(Strings(u) \cup T) = Cardinality(Strings(u)) + Cardinality(T) - Cardinality({})
  <2> HIDE DEF T
  <2> QED
    BY <1>2, <1>3, <1>4, FS_Union
<1>6. Cardinality({}) = 0
  BY FS_EmptySet
<1> HIDE DEF T
<1> QED
  BY <1>2, <1>3, <1>4, <1>5, <1>6 DEF Count, w

\* A token is one string or none.
LEMMA CountOne ==
    ASSUME NEW tok \in Tok
    PROVE  /\ Count(<<tok>>) \in {0, 1}
           /\ IsStr(tok) => Count(<<tok>>) = 1
<1> DEFINE t == <<tok>>
<1>1. DOMAIN t = {1} /\ t[1] = tok
  OBVIOUS
<1> HIDE DEF t
<1>2. CASE IsStr(tok)
  <2>1. Strings(t) = {1}
    BY <1>1, <1>2 DEF Strings
  <2> QED
    BY <2>1, FS_Singleton DEF Count, t
<1>3. CASE ~IsStr(tok)
  <2>1. Strings(t) = {}
    BY <1>1, <1>3 DEF Strings
  <2>2. Count(t) = 0
    BY <2>1, FS_EmptySet DEF Count
  <2> QED
    BY <2>2, <1>3 DEF t
<1> QED
  BY <1>2, <1>3

\* An empty text has no strings.
LEMMA CountEmpty == Count(<<>>) = 0
<1>1. Strings(<<>>) = {}
  BY DEF Strings
<1> QED
  BY <1>1, FS_EmptySet DEF Count

\* A text with every part of t and no more strings.
Keeps(u, t) == Parts(u) = Parts(t) /\ Count(u) <= Count(t)

\* Keeping adds up: what keeps c and what keeps d keep both together.
LEMMA KeepsConcat ==
    ASSUME NEW a \in Seq(Tok), NEW b \in Seq(Tok), NEW c \in Seq(Tok), NEW d \in Seq(Tok),
           Keeps(a, c), Keeps(b, d)
    PROVE  Keeps(a \o b, c \o d)
<1>1. Parts(a \o b) = Parts(c \o d)
  <2>1. Parts(a \o b) = Parts(a) \o Parts(b) /\ Parts(c \o d) = Parts(c) \o Parts(d)
    BY PartsConcat
  <2>2. Parts(a) = Parts(c) /\ Parts(b) = Parts(d)
    BY DEF Keeps
  <2> QED
    BY <2>1, <2>2
<1>2. Count(a \o b) = Count(a) + Count(b) /\ Count(c \o d) = Count(c) + Count(d)
  BY CountConcat
<1>3. Count(a) \in Nat /\ Count(b) \in Nat /\ Count(c) \in Nat /\ Count(d) \in Nat
  BY CountType
<1> QED
  BY <1>1, <1>2, <1>3 DEF Keeps

\* A text keeps itself.
LEMMA KeepsItself == ASSUME NEW t \in Seq(Tok) PROVE Keeps(t, t)
BY CountType DEF Keeps

-----------------------------------------------------------------------------
(* Reading tokens: what is taken of a text. *)

\* A piece of a text is made of its tokens.
LEMMA PartOf ==
    ASSUME NEW X, NEW t \in Seq(X), NEW a \in 1 .. Len(t) + 1, NEW b \in a - 1 .. Len(t)
    PROVE  SubSeq(t, a, b) \in Seq(X)
<1>1. \A i \in a .. b : t[i] \in X
  OBVIOUS
<1> QED
  BY <1>1, SubSeqProperties

\* A beginning of a text, and a longer one.
LEMMA PrefixGrows ==
    ASSUME NEW X, NEW t \in Seq(X), NEW i \in 1 .. Len(t) + 1, NEW j \in i .. Len(t) + 1
    PROVE  /\ SubSeq(t, 1, i - 1) \in Seq(X) /\ SubSeq(t, i, j - 1) \in Seq(X)
           /\ SubSeq(t, 1, j - 1) = SubSeq(t, 1, i - 1) \o SubSeq(t, i, j - 1)
<1> DEFINE m == i - 1
           n == j - 1
<1>1. /\ Len(t) \in Nat /\ 1 \in 1 .. Len(t) + 1 /\ m \in 0 .. Len(t) /\ n \in m .. Len(t)
      /\ n \in 0 .. Len(t) /\ m + 1 = i /\ 1 - 1 = 0
  OBVIOUS
<1> HIDE DEF m, n
<1>2. SubSeq(t, 1, m) \in Seq(X)
  BY <1>1, PartOf
<1>3. SubSeq(t, i, n) \in Seq(X)
  <2>1. n \in i - 1 .. Len(t)
    BY <1>1 DEF m
  <2> QED
    BY <2>1, PartOf
<1>4. SubSeq(t, 1, m) \o SubSeq(t, m + 1, n) = SubSeq(t, 1, n)
  BY <1>1, ConcatAdjacentSubSeq
<1> QED
  BY <1>1, <1>2, <1>3, <1>4 DEF m, n

\* A piece of one token.
LEMMA OneOf ==
    ASSUME NEW X, NEW t \in Seq(X), NEW i \in 1 .. Len(t)
    PROVE  SubSeq(t, i, i) = <<t[i]>>
<1>1. Len(t) \in Nat /\ i \in i .. Len(t) /\ t[i] \in X
  OBVIOUS
<1>2. SubSeq(t, i, i) = <<t[i]>> \o SubSeq(t, i + 1, i)
  BY <1>1, SubSeqRecursiveFirst
<1>3. SubSeq(t, i + 1, i) = <<>>
  BY SubSeqEmpty
<1>4. <<t[i]>> \in Seq(X)
  BY <1>1
<1> QED
  BY <1>2, <1>3, <1>4, ConcatEmptySeq

\* A piece has no more strings than the text.
LEMMA PartCounts ==
    ASSUME NEW t \in Seq(Tok), NEW a \in 1 .. Len(t) + 1, NEW b \in a - 1 .. Len(t)
    PROVE  Count(SubSeq(t, a, b)) <= Count(t)
<1> DEFINE u == SubSeq(t, 1, a - 1)
           v == SubSeq(t, a, b)
           w == SubSeq(t, b + 1, Len(t))
           uv == SubSeq(t, 1, b)
<1>1. /\ Len(t) \in Nat /\ b + 1 \in a .. Len(t) + 1 /\ Len(t) + 1 \in b + 1 .. Len(t) + 1
      /\ (b + 1) - 1 = b /\ (Len(t) + 1) - 1 = Len(t) /\ b + 1 \in 1 .. Len(t) + 1
  OBVIOUS
<1>2. u \in Seq(Tok) /\ v \in Seq(Tok) /\ uv = u \o v
  <2>1. b + 1 \in a .. Len(t) + 1
    BY <1>1
  <2> DEFINE c == b + 1
  <2> HIDE DEF c
  <2>2. SubSeq(t, 1, c - 1) = SubSeq(t, 1, a - 1) \o SubSeq(t, a, c - 1)
        /\ SubSeq(t, 1, a - 1) \in Seq(Tok) /\ SubSeq(t, a, c - 1) \in Seq(Tok)
    BY <2>1, PrefixGrows DEF c
  <2>3. c - 1 = b
    BY <1>1 DEF c
  <2> QED
    BY <2>2, <2>3
<1>3. uv \in Seq(Tok) /\ w \in Seq(Tok) /\ t = uv \o w
  <2> DEFINE c == b + 1
             d == Len(t) + 1
  <2>1. c \in 1 .. Len(t) + 1 /\ d \in c .. Len(t) + 1 /\ c - 1 = b /\ d - 1 = Len(t)
    BY <1>1
  <2> HIDE DEF c, d
  <2>2. SubSeq(t, 1, d - 1) = SubSeq(t, 1, c - 1) \o SubSeq(t, c, d - 1)
        /\ SubSeq(t, 1, c - 1) \in Seq(Tok) /\ SubSeq(t, c, d - 1) \in Seq(Tok)
    BY <2>1, PrefixGrows
  <2>3. SubSeq(t, 1, Len(t)) = t
    BY SubSeqFull
  <2> QED
    BY <2>1, <2>2, <2>3 DEF c
<1> HIDE DEF u, v, w, uv
<1>4. Count(t) = (Count(u) + Count(v)) + Count(w)
  <2>1. Count(uv) = Count(u) + Count(v)
    BY <1>2, CountConcat
  <2>2. Count(t) = Count(uv) + Count(w)
    BY <1>3, CountConcat
  <2> QED
    BY <2>1, <2>2
<1>5. Count(u) \in Nat /\ Count(v) \in Nat /\ Count(w) \in Nat
  BY <1>2, <1>3, CountType
<1> QED
  BY <1>4, <1>5 DEF v

\* The block is a part of the text.
LEMMA StripTakes ==
    ASSUME NEW X, X \in SUBSET Tok, NEW t \in Seq(X)
    PROVE  /\ StripMarkdownCodeBlocks(t) \in Seq(X)
           /\ Count(StripMarkdownCodeBlocks(t)) <= Count(t)
<1> DEFINE fences == {i \in DOMAIN t : t[i].kind = "fence"}
           first  == Min(fences)
           second == Min(fences \ {first})
<1>1. t \in Seq(Tok) /\ Count(t) \in Nat /\ Len(t) \in Nat /\ DOMAIN t = 1 .. Len(t)
  BY CountType
<1>2. CASE Cardinality(fences) < 2
  BY <1>1, <1>2 DEF StripMarkdownCodeBlocks
<1>3. CASE ~(Cardinality(fences) < 2)
  <2>1. fences \in SUBSET Nat /\ fences \in SUBSET (1 .. Len(t))
    BY <1>1
  <2> HIDE DEF fences
  <2>2. fences # {}
    <3>1. Cardinality({}) = 0
      BY FS_EmptySet
    <3>2. fences = {} => Cardinality(fences) < 2
      BY <3>1
    <3> QED
      BY <1>3, <3>2
  <2>3. first \in fences /\ \A i \in fences : first <= i
    BY <2>1, <2>2, LeastOf
  <2> HIDE DEF first
  <2>4. fences \ {first} # {}
    <3>1. SUFFICES ASSUME fences = {first} PROVE FALSE
      BY <2>3
    <3>2. Cardinality(fences) = 1
      BY <3>1, FS_Singleton
    <3> QED
      BY <3>2, <1>3
  <2>5. second \in fences \ {first}
    <3>1. fences \ {first} \in SUBSET Nat
      BY <2>1
    <3> QED
      BY <3>1, <2>4, LeastOf
  <2> HIDE DEF second
  <2>6. first + 1 \in 1 .. Len(t) + 1 /\ second - 1 \in (first + 1) - 1 .. Len(t)
    <3>1. first \in 1 .. Len(t) /\ second \in 1 .. Len(t) /\ first <= second /\ first # second
      BY <2>1, <2>3, <2>5
    <3> QED
      BY <3>1, <1>1
  <2>7. StripMarkdownCodeBlocks(t) = SubSeq(t, first + 1, second - 1)
    BY <1>3 DEF StripMarkdownCodeBlocks, first, second, fences
  <2>8. SubSeq(t, first + 1, second - 1) \in Seq(X)
    BY <2>6, PartOf
  <2>9. Count(SubSeq(t, first + 1, second - 1)) <= Count(t)
    BY <1>1, <2>6, PartCounts
  <2> QED
    BY <2>7, <2>8, <2>9
<1> QED
  BY <1>2, <1>3

\* Only marks and strings are found: every part, and no more strings; all of a text
\* without literals and fences.
LEMMA TokensKeep ==
    ASSUME NEW X, X \in SUBSET Token, NEW t \in Seq(X)
    PROVE  /\ Tokens(t) \in Seq(X) /\ Keeps(Tokens(t), t)
           /\ (\A i \in DOMAIN t : t[i].kind \notin {"1", "fence"}) => Tokens(t) = t
<1> DEFINE n      == Len(t)
           one(i) == IF t[i].kind \in {"1", "fence"} THEN <<>> ELSE <<t[i]>>
           ss     == [i \in DOMAIN t |-> one(i)]
           whole  == \A i \in DOMAIN t : t[i].kind \notin {"1", "fence"}
<1>1. n \in Nat /\ DOMAIN t = 1 .. n /\ X \in SUBSET Tok /\ t \in Seq(Tok)
      /\ \A i \in 1 .. n : t[i] \in X
  BY TokFits
<1>2. \A i \in 1 .. n : one(i) \in Seq(X)
  BY <1>1
<1> HIDE DEF n, one
<1>3. ss \in Seq(Seq(X)) /\ Len(ss) = n /\ \A i \in 1 .. n : ss[i] = one(i)
  BY <1>1, <1>2, IsASeq
<1>4. Tokens(t) = FlattenSeq(ss)
  BY DEF Tokens, one
<1> HIDE DEF ss
<1>5. PICK f \in [0 .. Len(ss) -> Seq(X)] : IsFlattening(f, ss) /\ FlattenSeq(ss) = f[Len(ss)]
  BY <1>3, FlattenLoops
<1>6. /\ f \in [0 .. n -> Seq(X)] /\ f[0] = <<>> /\ Tokens(t) = f[n]
      /\ \A i \in 1 .. n : f[i] = f[i - 1] \o one(i)
  BY <1>3, <1>4, <1>5 DEF IsFlattening
<1> DEFINE P(i) == i <= n => /\ Keeps(f[i], SubSeq(t, 1, i))
                             /\ whole => f[i] = SubSeq(t, 1, i)
           U    == {i \in Nat : P(i)}
<1>7. P(0)
  <2>1. SubSeq(t, 1, 0) = <<>>
    BY SubSeqEmpty
  <2>2. <<>> \in Seq(Tok)
    OBVIOUS
  <2> QED
    BY <1>6, <2>1, <2>2, KeepsItself
<1>8. ASSUME NEW i \in Nat, P(i) PROVE P(i + 1)
  <2> SUFFICES ASSUME i + 1 <= n
               PROVE  /\ Keeps(f[i + 1], SubSeq(t, 1, i + 1))
                      /\ whole => f[i + 1] = SubSeq(t, 1, i + 1)
    OBVIOUS
  <2>1. i + 1 \in 1 .. n /\ (i + 1) - 1 = i /\ i \in 0 .. n /\ i <= n /\ 1 \in 1 .. n
        /\ i + 1 \in 1 .. i + 1
    BY <1>1
  <2> DEFINE k == i + 1
             p == SubSeq(t, 1, i)
  <2>2. f[k] = f[i] \o one(k)
    BY <1>6, <2>1
  <2>3. SubSeq(t, 1, k) = p \o <<t[k]>>
    <3>1. k \in 1 .. Len(t) /\ 1 \in 1 .. Len(t) /\ k - 1 = i
      BY <2>1 DEF n
    <3> HIDE DEF k, p
    <3>2. SubSeq(t, 1, k) = SubSeq(t, 1, k - 1) \o <<t[k]>>
      BY <3>1, SubSeqRecursiveSecond
    <3> QED
      BY <3>1, <3>2 DEF p
  <2>4. /\ f[i] \in Seq(Tok) /\ p \in Seq(Tok) /\ t[k] \in Token /\ t[k] \in Tok
        /\ <<t[k]>> \in Seq(Tok)
    <3>1. f[i] \in Seq(X) /\ t[k] \in X
      BY <1>1, <1>6, <2>1
    <3>2. p \in Seq(Tok)
      <4>1. 1 \in 1 .. Len(t) + 1 /\ i \in 1 - 1 .. Len(t)
        BY <1>1, <2>1 DEF n
      <4> QED
        BY <1>1, <4>1, PartOf
    <3> QED
      BY <3>1, <3>2, <1>1, SeqMonotone
  <2>5. Keeps(f[i], p) /\ (whole => f[i] = p)
    BY <1>8, <2>1
  <2>6. Keeps(one(k), <<t[k]>>) /\ one(k) \in Seq(Tok)
    <3>1. CASE t[k].kind \in {"1", "fence"}
      <4>1. one(k) = <<>>
        BY <3>1 DEF one
      <4>2. t[k].parts = <<>>
        BY <3>1, <2>4, TokFits DEF IsStr
      <4>3. Count(<<t[k]>>) \in {0, 1}
        BY <2>4, CountOne
      <4> HIDE DEF k
      <4> QED
        BY <4>1, <4>2, <4>3, <2>4, PartsOne, PartsEmpty, CountEmpty DEF Keeps
    <3>2. CASE ~(t[k].kind \in {"1", "fence"})
      <4>1. one(k) = <<t[k]>>
        BY <3>2 DEF one
      <4> HIDE DEF k
      <4> QED
        BY <4>1, <2>4, KeepsItself
    <3> QED
      BY <3>1, <3>2
  <2>7. Keeps(f[i] \o one(k), p \o <<t[k]>>)
    <3> HIDE DEF k, p
    <3> QED
      BY <2>4, <2>5, <2>6, KeepsConcat
  <2>8. whole => one(k) = <<t[k]>>
    <3>1. k \in DOMAIN t
      BY <1>1, <2>1
    <3> QED
      BY <3>1 DEF one
  <2> HIDE DEF p
  <2> QED
    BY <2>2, <2>3, <2>5, <2>7, <2>8
<1> HIDE DEF P
<1>9. P(n)
  <2>1. 0 \in U
    BY <1>7
  <2>2. \A i \in Nat : i \in U => i + 1 \in U
    BY <1>8
  <2> HIDE DEF U
  <2>3. n \in U
    BY <1>1, <2>1, <2>2, SetInduction
  <2> QED
    BY <2>3 DEF U
<1>10. SubSeq(t, 1, n) = t
  BY SubSeqFull DEF n
<1>11. f[n] \in Seq(X)
  BY <1>1, <1>6
<1>12. Keeps(f[n], SubSeq(t, 1, n)) /\ (whole => f[n] = SubSeq(t, 1, n))
  BY <1>1, <1>9 DEF P
<1> QED
  BY <1>6, <1>10, <1>11, <1>12

-----------------------------------------------------------------------------
(* Merging bare strings. *)

\* What every turn of a loop keeps in S holds to its end.
LEMMA LoopStays ==
    ASSUME NEW S, NEW n \in Nat, NEW f, f[0] \in S,
           \A i \in 1 .. n : f[i - 1] \in S => f[i] \in S
    PROVE  \A i \in 0 .. n : f[i] \in S
<1> DEFINE T == {i \in Nat : i <= n => f[i] \in S}
<1>1. 0 \in T
  OBVIOUS
<1>2. ASSUME NEW i \in Nat, i \in T PROVE i + 1 \in T
  <2> SUFFICES ASSUME i + 1 <= n PROVE f[i + 1] \in S
    OBVIOUS
  <2>1. i + 1 \in 1 .. n /\ (i + 1) - 1 = i /\ i <= n
    OBVIOUS
  <2>2. f[i] \in S
    BY <1>2, <2>1
  <2>3. f[(i + 1) - 1] \in S => f[i + 1] \in S
    BY <2>1
  <2> QED
    BY <2>1, <2>2, <2>3
<1> HIDE DEF T
<1>3. \A i \in Nat : i \in T
  BY <1>1, <1>2, SetInduction
<1> QED
  BY <1>3 DEF T

\* A pair, and a triple, put together.
LEMMA PairSplits ==
    ASSUME NEW X, NEW a \in X, NEW b \in X
    PROVE  <<a, b>> = <<a>> \o <<b>>
<1> DEFINE u == <<a>>
           w == <<a, b>>
<1>1. u \in Seq(X) /\ w = Append(u, b)
  OBVIOUS
<1> QED
  BY <1>1, AppendIsConcat

\* The same for three.
LEMMA TripleSplits ==
    ASSUME NEW X, NEW a \in X, NEW b \in X, NEW c \in X
    PROVE  <<a, b, c>> = <<a, b>> \o <<c>>
<1> DEFINE u == <<a, b>>
           w == <<a, b, c>>
<1>1. u \in Seq(X) /\ w = Append(u, c)
  OBVIOUS
<1> HIDE DEF u, w
<1> QED
  BY <1>1, AppendIsConcat DEF u, w

\* Bare strings end within the text, and at once if there is none.
LEMMA BareEndFits ==
    ASSUME NEW t \in Seq(Tok), NEW j \in 1 .. Len(t) + 1
    PROVE  /\ BareEnd(t, j) \in j .. Len(t) + 1
           /\ ~IsBare(t, j) => BareEnd(t, j) = j
<1> DEFINE K == {k \in 0 .. Len(t) : ~IsBare(t, j + 2 * k)}
           m == Min(K)
<1>1. Len(t) \in Nat /\ DOMAIN t = 1 .. Len(t) /\ K \in SUBSET Nat
  OBVIOUS
<1>2. Len(t) \in K
  <2>1. ~(j + 2 * Len(t) \in DOMAIN t)
    BY <1>1
  <2>2. ~IsBare(t, j + 2 * Len(t))
    BY <2>1 DEF IsBare, Is
  <2> QED
    BY <1>1, <2>2
<1> HIDE DEF K
<1>3. m \in K /\ \A k \in K : m <= k
  BY <1>1, <1>2, LeastOf
<1> HIDE DEF m
<1>4. m \in 0 .. Len(t) /\ BareEnd(t, j) = j + 2 * m
  BY <1>3 DEF K, BareEnd, m
<1>5. j + 2 * m <= Len(t) + 1
  <2>1. CASE m = 0
    BY <2>1
  <2>2. CASE m # 0
    <3> DEFINE l == j + 2 * (m - 1)
    <3>1. m - 1 \in 0 .. Len(t) /\ m - 1 \notin K
      <4>1. m - 1 \in 0 .. Len(t) /\ ~(m <= m - 1)
        BY <1>1, <1>4, <2>2
      <4> QED
        BY <1>3, <4>1
    <3>2. IsBare(t, l)
      BY <3>1 DEF K
    <3>3. l + 1 \in DOMAIN t
      BY <3>2 DEF IsBare, StrAt
    <3>4. l + 1 = j + 2 * m - 1
      BY <1>1, <1>4
    <3> QED
      BY <1>1, <1>4, <3>3, <3>4
  <2> QED
    BY <2>1, <2>2
<1>6. ~IsBare(t, j) => m = 0
  <2> SUFFICES ASSUME ~IsBare(t, j) PROVE m = 0
    OBVIOUS
  <2>1. 0 \in K
    <3>1. j + 2 * 0 = j /\ 0 \in 0 .. Len(t)
      BY <1>1
    <3> QED
      BY <3>1 DEF K
  <2>2. m <= 0
    BY <1>3, <2>1
  <2> QED
    BY <1>4, <2>2
<1> QED
  BY <1>1, <1>4, <1>5, <1>6

\* A text without bare strings whose values are in order.
Straight(t) ==
    \A i \in DOMAIN t : IsPair(t, i) => ~IsBare(t, i + 3) /\ t[i + 2].kind = "S"

\* What is put out keeps what was read.
MergeState(t, X) ==
    {s \in [out : Seq(X), next : 1 .. Len(t) + 1] :
        /\ Keeps(s.out, SubSeq(t, 1, s.next - 1))
        /\ Straight(t) => s.out = SubSeq(t, 1, s.next - 1)}

\* A value and its bare strings become one string of their parts.
LEMMA MergedKeeps ==
    ASSUME NEW X, Closed(X), NEW w \in Seq(Tok), Strings(w) # {}
    PROVE  Merged(w) \in X /\ Keeps(<<Merged(w)>>, w)
<1> DEFINE tok == Merged(w)
<1>1. tok \in Tok /\ tok.kind \in {"S", "refused"} /\ tok.parts = Parts(w)
  BY PartsType DEF Merged, Str, Tok
<1> HIDE DEF tok
<1>2. Parts(<<tok>>) = Parts(w)
  BY <1>1, PartsOne
<1>3. Count(<<tok>>) \in {0, 1} /\ Count(w) \in Nat /\ Count(w) >= 1
  BY <1>1, CountOne, CountType
<1> QED
  BY <1>1, <1>2, <1>3 DEF Keeps, Closed, tok

\* A turn keeps what it reads, and reads on.
LEMMA MergeTurnKeeps ==
    ASSUME NEW X, Closed(X), NEW t \in Seq(X), NEW s \in MergeState(t, X)
    PROVE  /\ MergeTurn(t, s) \in MergeState(t, X)
           /\ s.next <= Len(t) => MergeTurn(t, s).next > s.next
<1> DEFINE i == s.next
           r == MergeTurn(t, s)
           p == SubSeq(t, 1, i - 1)
<1>1. /\ Len(t) \in Nat /\ DOMAIN t = 1 .. Len(t) /\ X \in SUBSET Tok /\ t \in Seq(Tok)
      /\ i \in 1 .. Len(t) + 1 /\ s.out \in Seq(X) /\ s.out \in Seq(Tok)
      /\ Keeps(s.out, p) /\ (Straight(t) => s.out = p)
      /\ \A k \in 1 .. Len(t) : t[k] \in X
  <2>1. X \in SUBSET Tok
    BY DEF Closed
  <2> QED
    BY <2>1, SeqMonotone DEF MergeState
<1>2. CASE i > Len(t)
  <2>1. ~(i <= Len(t))
    BY <1>1, <1>2
  <2>2. r = s
    BY <1>2, <2>1 DEF MergeTurn
  <2> QED
    BY <2>1, <2>2
<1>3. CASE i <= Len(t) /\ ~IsPair(t, i)
  <2>1. r = [out |-> Append(s.out, t[i]), next |-> i + 1]
    BY <1>1, <1>3 DEF MergeTurn
  <2>2. i \in 1 .. Len(t) /\ i + 1 \in 1 .. Len(t) + 1 /\ i + 1 \in i .. Len(t) + 1 /\ (i + 1) - 1 = i
    BY <1>1, <1>3
  <2>3. t[i] \in X /\ <<t[i]>> \in Seq(X)
    BY <1>1, <2>2
  <2> HIDE DEF i
  <2>4. Append(s.out, t[i]) = s.out \o <<t[i]>>
    BY <1>1, <2>3, AppendIsConcat
  <2>5. SubSeq(t, 1, i) = p \o <<t[i]>> /\ p \in Seq(X)
    <3> DEFINE j == i + 1
    <3>1. j \in i .. Len(t) + 1 /\ j - 1 = i
      BY <2>2
    <3> HIDE DEF j
    <3>2. SubSeq(t, 1, j - 1) = SubSeq(t, 1, i - 1) \o SubSeq(t, i, j - 1)
          /\ SubSeq(t, 1, i - 1) \in Seq(X)
      BY <1>1, <3>1, PrefixGrows
    <3> QED
      BY <2>2, <3>1, <3>2, OneOf
  <2> HIDE DEF p
  <2>6. s.out \o <<t[i]>> \in Seq(X)
    BY <1>1, <2>3, ConcatProperties
  <2>7. Keeps(s.out \o <<t[i]>>, p \o <<t[i]>>)
    <3>1. p \in Seq(Tok) /\ <<t[i]>> \in Seq(Tok)
      BY <1>1, <2>3, <2>5, SeqMonotone
    <3> QED
      BY <1>1, <3>1, KeepsItself, KeepsConcat
  <2> DEFINE o == s.out \o <<t[i]>>
  <2>8. Keeps(o, SubSeq(t, 1, i)) /\ (Straight(t) => o = SubSeq(t, 1, i)) /\ o \in Seq(X)
    BY <1>1, <2>5, <2>6, <2>7
  <2>9. r = [out |-> o, next |-> i + 1]
    BY <2>1, <2>4
  <2> HIDE DEF o, r
  <2>10. r.out = o /\ r.next = i + 1 /\ r.next - 1 = i /\ r \in [out : Seq(X), next : 1 .. Len(t) + 1]
    BY <2>2, <2>8, <2>9
  <2>11. r \in MergeState(t, X)
    BY <2>8, <2>10 DEF MergeState
  <2>12. r.next > s.next
    BY <1>1, <2>10 DEF i
  <2> QED
    BY <2>11, <2>12 DEF r
<1>4. CASE i <= Len(t) /\ IsPair(t, i)
  <2> DEFINE j == BareEnd(t, i + 3)
             w == SubSeq(t, i + 2, j - 1)
             h == <<t[i], t[i + 1]>>
             e == <<Merged(w)>>
             q == SubSeq(t, 1, i + 1)
  <2>1. i \in 1 .. Len(t) /\ i + 1 \in 1 .. Len(t) /\ i + 2 \in 1 .. Len(t) /\ IsStr(t[i + 2])
    BY <1>1, <1>4 DEF IsPair, Is, StrAt
  <2>2. i + 3 \in 1 .. Len(t) + 1
    BY <1>1, <2>1
  <2>3. j \in i + 3 .. Len(t) + 1 /\ (~IsBare(t, i + 3) => j = i + 3)
    BY <1>1, <2>2, BareEndFits
  <2>4. r = [out |-> s.out \o <<t[i], t[i + 1], Merged(w)>>, next |-> j]
    BY <1>1, <1>4 DEF MergeTurn
  <2> HIDE DEF i, j
  <2>5. /\ i + 2 \in i .. Len(t) + 1 /\ (i + 2) - 1 = i + 1 /\ i + 2 \in 1 .. Len(t) + 1
        /\ j \in i + 2 .. Len(t) + 1 /\ j \in 1 .. Len(t) + 1 /\ j > i
        /\ i + 2 \in i + 2 .. j - 1 /\ j - 1 \in Int /\ i + 2 \in Int
    BY <1>1, <2>1, <2>3
  <2>6. h \in Seq(X) /\ q = p \o h /\ p \in Seq(X)
    <3> DEFINE k == i + 2
    <3>1. k \in i .. Len(t) + 1 /\ k - 1 = i + 1
      BY <2>5
    <3> HIDE DEF k
    <3>2. SubSeq(t, 1, k - 1) = SubSeq(t, 1, i - 1) \o SubSeq(t, i, k - 1)
          /\ SubSeq(t, 1, i - 1) \in Seq(X)
      BY <1>1, <3>1, PrefixGrows
    <3>3. SubSeq(t, i, i + 1) = <<t[i]>> \o SubSeq(t, i + 1, i + 1)
      <4>1. i + 1 \in i .. Len(t)
        BY <1>1, <2>1
      <4> QED
        BY <2>1, <4>1, SubSeqRecursiveFirst
    <3>4. SubSeq(t, i + 1, i + 1) = <<t[i + 1]>>
      BY <2>1, OneOf
    <3>5. <<t[i]>> \o <<t[i + 1]>> = h
      <4>1. t[i] \in X /\ t[i + 1] \in X
        BY <1>1, <2>1
      <4> QED
        BY <4>1, PairSplits
    <3>6. h \in Seq(X)
      BY <1>1, <2>1
    <3> HIDE DEF h
    <3> QED
      BY <3>1, <3>2, <3>3, <3>4, <3>5, <3>6
  <2>7. w \in Seq(X) /\ q \in Seq(X) /\ SubSeq(t, 1, j - 1) = q \o w
    <3> DEFINE k == i + 2
    <3>1. k \in 1 .. Len(t) + 1 /\ j \in k .. Len(t) + 1 /\ k - 1 = i + 1
      BY <2>5
    <3> HIDE DEF k
    <3>2. SubSeq(t, 1, j - 1) = SubSeq(t, 1, k - 1) \o SubSeq(t, k, j - 1)
          /\ SubSeq(t, 1, k - 1) \in Seq(X) /\ SubSeq(t, k, j - 1) \in Seq(X)
      BY <3>1, PrefixGrows
    <3> QED
      BY <3>1, <3>2 DEF k
  <2>8. Strings(w) # {}
    <3>1. Len(w) = (j - 1) - (i + 2) + 1 /\ w[1] = t[(i + 2) + 1 - 1]
      <4>1. \A m \in i + 2 .. j - 1 : t[m] \in X
        <5>1. \A m \in i + 2 .. j - 1 : m \in 1 .. Len(t)
          BY <1>1, <2>1, <2>3
        <5> QED
          BY <1>1, <5>1
      <4>2. i + 2 <= j - 1 /\ 1 \in 1 .. (j - 1) - (i + 2) + 1
        BY <1>1, <2>1, <2>3
      <4> QED
        BY <2>5, <4>1, <4>2, SubSeqProperties
    <3>2. 1 \in 1 .. Len(w) /\ w[1] = t[i + 2]
      <4>1. (i + 2) + 1 - 1 = i + 2
        BY <1>1
      <4>2. (j - 1) - (i + 2) + 1 >= 1
        BY <1>1, <2>1, <2>3
      <4>3. Len(w) \in Nat
        BY <2>7
      <4> HIDE DEF w
      <4> QED
        BY <3>1, <4>1, <4>2, <4>3
    <3>3. 1 \in DOMAIN w /\ IsStr(w[1])
      <4> HIDE DEF w
      <4> QED
        BY <2>1, <2>7, <3>2
    <3> QED
      BY <3>3 DEF Strings
  <2> HIDE DEF w
  <2>9. w \in Seq(Tok)
    BY <1>1, <2>7, SeqMonotone
  <2>10. Merged(w) \in X /\ Keeps(e, w) /\ e \in Seq(X)
    <3>1. Merged(w) \in X /\ Keeps(<<Merged(w)>>, w)
      BY <2>8, <2>9, MergedKeeps
    <3> QED
      BY <3>1
  <2>11. Straight(t) => e = w
    <3> SUFFICES ASSUME Straight(t) PROVE e = w
      OBVIOUS
    <3>1. ~IsBare(t, i + 3) /\ t[i + 2].kind = "S"
      BY <1>1, <1>4, <2>1 DEF Straight, i
    <3>2. w = <<t[i + 2]>>
      <4>1. j - 1 = i + 2
        BY <1>1, <2>3, <3>1
      <4>2. SubSeq(t, i + 2, i + 2) = <<t[i + 2]>>
        BY <2>1, OneOf
      <4> QED
        BY <4>1, <4>2 DEF w
    <3>3. Parts(w) = t[i + 2].parts
      <4>1. t[i + 2] \in Tok
        BY <1>1, <2>1
      <4> QED
        BY <3>2, <4>1, PartsOne
    <3>4. ToSet(w) = {t[i + 2]}
      BY <3>2 DEF ToSet
    <3>5. Merged(w) = [kind |-> "S", parts |-> t[i + 2].parts]
      BY <3>1, <3>3, <3>4 DEF Merged, Str
    <3>6. t[i + 2] = [kind |-> "S", parts |-> t[i + 2].parts]
      <4>1. t[i + 2] \in Tok
        BY <1>1, <2>1
      <4> QED
        BY <3>1, <4>1 DEF Tok
    <3> QED
      BY <3>2, <3>5, <3>6
  <2>12. s.out \o <<t[i], t[i + 1], Merged(w)>> = (s.out \o h) \o e
    <3>1. <<t[i], t[i + 1], Merged(w)>> = h \o e
      <4>1. t[i] \in X /\ t[i + 1] \in X
        BY <1>1, <2>1
      <4> QED
        BY <2>10, <4>1, TripleSplits
    <3> DEFINE o == s.out
               l == <<t[i], t[i + 1], Merged(w)>>
    <3>2. o \in Seq(X) /\ h \in Seq(X) /\ e \in Seq(X) /\ l = h \o e
      BY <1>1, <2>6, <2>10, <3>1
    <3> HIDE DEF h, e, o, l
    <3>3. (o \o h) \o e = o \o (h \o e)
      BY <3>2, ConcatAssociative, SMTT(30)
    <3>4. o \o l = (o \o h) \o e
      BY <3>2, <3>3
    <3> QED
      BY <3>4 DEF o, l
  <2> HIDE DEF h, e, p, q
  <2> DEFINE o == (s.out \o h) \o e
  <2>13. s.out \o h \in Seq(X) /\ o \in Seq(X)
    <3>1. s.out \o h \in Seq(X)
      BY <1>1, <2>6, ConcatProperties
    <3> QED
      BY <3>1, <2>10, ConcatProperties
  <2>14. Keeps(o, q \o w)
    <3>1. /\ h \in Seq(Tok) /\ e \in Seq(Tok) /\ p \in Seq(Tok) /\ q \in Seq(Tok)
          /\ s.out \o h \in Seq(Tok)
      BY <1>1, <2>6, <2>7, <2>10, <2>13, SeqMonotone
    <3>2. Keeps(s.out \o h, q)
      BY <1>1, <2>6, <3>1, KeepsItself, KeepsConcat
    <3> QED
      BY <2>9, <2>10, <3>1, <3>2, KeepsConcat
  <2>15. Straight(t) => o = q \o w
    BY <1>1, <2>6, <2>11
  <2>16. r = [out |-> o, next |-> j]
    BY <2>4, <2>12
  <2> HIDE DEF o, r
  <2>17. r.out = o /\ r.next = j /\ r \in [out : Seq(X), next : 1 .. Len(t) + 1]
    BY <2>5, <2>13, <2>16
  <2>18. Keeps(r.out, SubSeq(t, 1, r.next - 1)) /\ (Straight(t) => r.out = SubSeq(t, 1, r.next - 1))
    BY <2>7, <2>14, <2>15, <2>17
  <2>19. r \in MergeState(t, X)
    BY <2>17, <2>18 DEF MergeState
  <2>20. r.next > s.next
    BY <2>5, <2>17 DEF i
  <2> QED
    BY <2>19, <2>20 DEF r
<1> QED
  BY <1>1, <1>2, <1>3, <1>4

\* repair_trailing_bare_strings keeps every part, adds no string, and leaves a straight
\* text as it is.
LEMMA MergeBareKeeps ==
    ASSUME NEW X, Closed(X), NEW t \in Seq(X)
    PROVE  /\ MergeBare(t) \in Seq(X) /\ Keeps(MergeBare(t), t)
           /\ Straight(t) => MergeBare(t) = t
<1> DEFINE n      == Len(t)
           S      == MergeState(t, X)
           a      == [out |-> <<>>, next |-> 1]
           IsT(h) == h = [m \in 0 .. n |-> IF m = 0 THEN a ELSE MergeTurn(t, h[m - 1])]
           turn   == CHOOSE h : IsT(h)
           g      == [m \in 1 .. n |-> [s \in S |-> MergeTurn(t, s)]]
<1>1. n \in Nat /\ X \in SUBSET Tok
  BY DEF Closed
<1>2. MergeBare(t) = turn[n].out
  BY DEF MergeBare
<1>3. a \in S
  <2>1. <<>> \in Seq(X) /\ <<>> \in Seq(Tok) /\ 1 \in 1 .. Len(t) + 1 /\ 1 - 1 = 0
    BY <1>1
  <2>2. SubSeq(t, 1, 0) = <<>>
    BY SubSeqEmpty
  <2>3. Keeps(<<>>, <<>>)
    BY <2>1, KeepsItself
  <2> QED
    BY <2>1, <2>2, <2>3 DEF MergeState
<1>4. \A s \in S : MergeTurn(t, s) \in S /\ (s.next <= n => MergeTurn(t, s).next > s.next)
  BY MergeTurnKeeps
<1>5. g \in [1 .. n -> [S -> S]]
  BY <1>4
<1> HIDE DEF n, S, a
<1>6. \E h : IsT(h)
  <2>1. PICK f \in [0 .. n -> S] : IsLoop(f, n, a, g)
    <3> HIDE DEF g
    <3> QED
      BY <1>1, <1>3, <1>5, LoopExists
  <2>2. ASSUME NEW m \in 0 .. n PROVE f[m] = IF m = 0 THEN a ELSE MergeTurn(t, f[m - 1])
    <3>1. CASE m = 0
      BY <2>1, <3>1 DEF IsLoop
    <3>2. CASE m # 0
      <4>1. m \in 1 .. n /\ m - 1 \in 0 .. n
        BY <1>1, <3>2
      <4>2. f[m] = g[m][f[m - 1]] /\ f[m - 1] \in S
        <5> HIDE DEF g
        <5> QED
          BY <2>1, <4>1 DEF IsLoop
      <4> QED
        BY <3>2, <4>1, <4>2
    <3> QED
      BY <3>1, <3>2
  <2>3. IsT(f)
    BY <2>2
  <2> QED
    BY <2>3
<1>7. IsT(turn)
  BY <1>6
<1> HIDE DEF turn
<1>8. turn[0] = a /\ \A m \in 1 .. n : turn[m] = MergeTurn(t, turn[m - 1])
  BY <1>1, <1>7
<1>9. \A m \in 0 .. n : turn[m] \in S
  <2>1. \A m \in 1 .. n : turn[m - 1] \in S => turn[m] \in S
    BY <1>4, <1>8
  <2> QED
    BY <1>1, <1>3, <1>8, <2>1, LoopStays
<1>10. \A s \in S : s.next \in 1 .. n + 1
  BY DEF S, MergeState, n
<1> DEFINE U == {m \in Nat : m <= n => turn[m].next >= m + 1}
<1>11. n \in U
  <2>1. 0 \in U
    BY <1>8 DEF a
  <2>2. ASSUME NEW m \in Nat, m \in U PROVE m + 1 \in U
    <3> SUFFICES ASSUME m + 1 <= n PROVE turn[m + 1].next >= (m + 1) + 1
      OBVIOUS
    <3>1. m + 1 \in 1 .. n /\ (m + 1) - 1 = m /\ m \in 0 .. n /\ m + 1 \in 0 .. n /\ m <= n
      BY <1>1
    <3>2. turn[m] \in S /\ turn[m + 1] \in S /\ turn[m + 1] = MergeTurn(t, turn[m])
      <4>1. turn[m + 1] = MergeTurn(t, turn[(m + 1) - 1])
        BY <1>8, <3>1
      <4> QED
        BY <1>9, <3>1, <4>1
    <3>3. turn[m].next \in 1 .. n + 1 /\ turn[m + 1].next \in 1 .. n + 1 /\ turn[m].next >= m + 1
      BY <1>10, <2>2, <3>1, <3>2
    <3>4. CASE turn[m].next <= n
      <4>1. turn[m + 1].next > turn[m].next
        BY <1>4, <3>2, <3>4
      <4> QED
        BY <1>1, <3>3, <4>1
    <3>5. CASE ~(turn[m].next <= n)
      <4>1. MergeTurn(t, turn[m]) = turn[m]
        BY <1>1, <3>3, <3>5 DEF MergeTurn, n
      <4> QED
        BY <1>1, <3>1, <3>2, <3>3, <3>5, <4>1
    <3> QED
      BY <3>4, <3>5
  <2> HIDE DEF U
  <2> QED
    BY <1>1, <2>1, <2>2, SetInduction
<1>12. turn[n] \in S /\ turn[n].next - 1 = n
  <2>1. n \in 0 .. n /\ n <= n
    BY <1>1
  <2>2. turn[n] \in S /\ turn[n].next >= n + 1
    BY <1>9, <1>11, <2>1
  <2>3. turn[n].next \in 1 .. n + 1
    BY <1>10, <2>2
  <2> QED
    BY <1>1, <2>2, <2>3
<1>13. SubSeq(t, 1, n) = t
  BY SubSeqFull DEF n
<1> QED
  BY <1>2, <1>12, <1>13 DEF S, MergeState

-----------------------------------------------------------------------------
(* Joining strings. *)

\* A joined text has the same parts, a string less, and still one.
LEMMA JoinKeeps ==
    ASSUME NEW X, Closed(X), NEW t \in Seq(X),
           NEW p \in Strings(t), NEW q \in Strings(t), p < q
    PROVE  /\ Join(t, p, q) \in Seq(X) /\ Parts(Join(t, p, q)) = Parts(t)
           /\ Count(Join(t, p, q)) + 1 <= Count(t) /\ Count(Join(t, p, q)) >= 1
<1> DEFINE n   == Len(t)
           u   == SubSeq(t, 1, p - 1)
           w   == SubSeq(t, p, q)
           v   == SubSeq(t, q + 1, n)
           mid == SubSeq(t, p + 1, q - 1)
           e   == Str(w)
           uw  == u \o w
           ue  == u \o <<e>>
<1>1. /\ n \in Nat /\ DOMAIN t = 1 .. n /\ X \in SUBSET Tok /\ t \in Seq(Tok)
      /\ p \in 1 .. n /\ q \in 1 .. n /\ p < q /\ IsStr(t[p]) /\ IsStr(t[q])
      /\ t[p] \in Tok /\ t[q] \in Tok
  <2>1. X \in SUBSET Tok /\ Len(t) \in Nat /\ DOMAIN t = 1 .. Len(t)
    BY DEF Closed
  <2>2. t \in Seq(Tok)
    BY <2>1, SeqMonotone
  <2> QED
    BY <2>1, <2>2 DEF Strings
<1> HIDE DEF n
<1>2. u \in Seq(X) /\ w \in Seq(X) /\ SubSeq(t, 1, q) = uw
  <2> DEFINE j == q + 1
  <2>1. j \in p .. Len(t) + 1 /\ p \in 1 .. Len(t) + 1 /\ j - 1 = q
    BY <1>1 DEF n
  <2> HIDE DEF j
  <2>2. /\ SubSeq(t, 1, p - 1) \in Seq(X) /\ SubSeq(t, p, j - 1) \in Seq(X)
        /\ SubSeq(t, 1, j - 1) = SubSeq(t, 1, p - 1) \o SubSeq(t, p, j - 1)
    BY <2>1, PrefixGrows
  <2> QED
    BY <2>1, <2>2
<1>3. v \in Seq(X) /\ t = uw \o v
  <2> DEFINE i == q + 1
             j == n + 1
  <2>1. j \in i .. Len(t) + 1 /\ i \in 1 .. Len(t) + 1 /\ i - 1 = q /\ j - 1 = n
    BY <1>1 DEF n
  <2> HIDE DEF i, j
  <2>2. /\ SubSeq(t, 1, i - 1) \in Seq(X) /\ SubSeq(t, i, j - 1) \in Seq(X)
        /\ SubSeq(t, 1, j - 1) = SubSeq(t, 1, i - 1) \o SubSeq(t, i, j - 1)
    BY <2>1, PrefixGrows
  <2>3. SubSeq(t, 1, n) = t
    BY SubSeqFull DEF n
  <2> QED
    BY <1>2, <2>1, <2>2, <2>3 DEF i
<1>4. Count(w) >= 2
  <2> DEFINE rest == SubSeq(t, p + 1, q)
  <2>1. w = <<t[p]>> \o rest
    <3>1. p \in 1 .. Len(t) /\ q \in p .. Len(t)
      BY <1>1 DEF n
    <3> QED
      BY <1>1, <3>1, SubSeqRecursiveFirst
  <2>2. rest = mid \o <<t[q]>>
    <3>1. p + 1 \in 1 .. Len(t) /\ q \in p + 1 .. Len(t)
      BY <1>1 DEF n
    <3> QED
      BY <1>1, <3>1, SubSeqRecursiveSecond
  <2>3. rest \in Seq(Tok) /\ mid \in Seq(Tok)
    <3>1. p + 1 \in 1 .. Len(t) + 1 /\ q \in (p + 1) - 1 .. Len(t) /\ q - 1 \in (p + 1) - 1 .. Len(t)
      BY <1>1 DEF n
    <3> QED
      BY <1>1, <3>1, PartOf
  <2>4. <<t[p]>> \in Seq(Tok) /\ <<t[q]>> \in Seq(Tok)
    BY <1>1
  <2> HIDE DEF w, rest, mid
  <2>5. Count(w) = Count(<<t[p]>>) + (Count(mid) + Count(<<t[q]>>))
    BY <2>1, <2>2, <2>3, <2>4, CountConcat
  <2>6. Count(<<t[p]>>) = 1 /\ Count(<<t[q]>>) = 1 /\ Count(mid) \in Nat
    BY <1>1, <2>3, CountOne, CountType
  <2> QED
    BY <2>5, <2>6
<1> HIDE DEF u, w, v
<1>5. u \in Seq(Tok) /\ w \in Seq(Tok) /\ v \in Seq(Tok)
  BY <1>1, <1>2, <1>3, SeqMonotone
<1>6. /\ e \in X /\ e \in Tok /\ <<e>> \in Seq(X) /\ <<e>> \in Seq(Tok)
      /\ Parts(<<e>>) = Parts(w) /\ Count(<<e>>) = 1
  <2>1. e \in Tok /\ e.kind = "S" /\ e.parts = Parts(w)
    BY <1>5, PartsType DEF Str, Tok
  <2> HIDE DEF e
  <2>2. e \in X /\ IsStr(e)
    BY <2>1 DEF Closed, IsStr
  <2> QED
    BY <2>1, <2>2, PartsOne, CountOne
<1> HIDE DEF e
<1>7. Join(t, p, q) = ue \o v
  BY DEF Join, u, w, v, e, n
<1>8. /\ ue \in Seq(X) /\ ue \in Seq(Tok) /\ uw \in Seq(Tok)
  BY <1>2, <1>5, <1>6, ConcatProperties
<1>9. Parts(ue) = Parts(uw)
  <2>1. Parts(ue) = Parts(u) \o Parts(<<e>>) /\ Parts(uw) = Parts(u) \o Parts(w)
    BY <1>5, <1>6, PartsConcat
  <2> QED
    BY <2>1, <1>6
<1>10. Count(ue) = Count(u) + Count(<<e>>) /\ Count(uw) = Count(u) + Count(w)
  BY <1>5, <1>6, CountConcat
<1> HIDE DEF ue, uw
<1>11. ue \o v \in Seq(X)
  BY <1>3, <1>8, ConcatProperties
<1>12. Parts(ue \o v) = Parts(t)
  <2>1. Parts(ue \o v) = Parts(ue) \o Parts(v) /\ Parts(uw \o v) = Parts(uw) \o Parts(v)
    BY <1>5, <1>8, PartsConcat
  <2> QED
    BY <2>1, <1>3, <1>9
<1>13. Count(ue \o v) = Count(ue) + Count(v) /\ Count(t) = Count(uw) + Count(v)
  BY <1>3, <1>5, <1>8, CountConcat
<1>14. Count(u) \in Nat /\ Count(v) \in Nat /\ Count(w) \in Nat
  BY <1>5, CountType
<1>15. Count(ue \o v) + 1 <= Count(t) /\ Count(ue \o v) >= 1
  BY <1>4, <1>6, <1>10, <1>13, <1>14
<1> QED
  BY <1>7, <1>11, <1>12, <1>15

\* What an attempt finds.
LEMMA VerdictFits ==
    ASSUME NEW t \in Seq(Tok), NEW left \in Nat
    PROVE  /\ Verdict(t, left) \in {"returns", "JSONDecodeError", "ValueError", "again"}
           /\ Loads(t).error = "none" /\ left > 0 => Verdict(t, left) = "returns"
           /\ Verdict(t, left) = "ValueError" =>
                 left = 0 \/ (left = 1 /\ Culprits(t, Loads(t).place) # {})
           /\ Verdict(t, left) = "again" =>
                 /\ left > 1 /\ Culprits(t, Loads(t).place) # {}
                 /\ Following(t, Max(Culprits(t, Loads(t).place))) # {}
<1> DEFINE e        == Loads(t)
           culprits == Culprits(t, e.place)
           none     == Following(t, Max(culprits)) = {}
           stuck    == e.error = "other" \/ culprits = {} \/ (left > 1 /\ none)
           tries    == left > 0 /\ e.error # "none"
           v        == Verdict(t, left)
<1>1. v = CASE left > 0 /\ ~tries                         -> "returns"
            [] tries /\ stuck                             -> "JSONDecodeError"
            [] left <= 0 \/ (tries /\ ~stuck /\ left = 1) -> "ValueError"
            [] tries /\ ~stuck /\ left > 1                -> "again"
  BY DEF Verdict
<1> HIDE DEF v
<1> SUFFICES /\ v \in {"returns", "JSONDecodeError", "ValueError", "again"}
             /\ e.error = "none" /\ left > 0 => v = "returns"
             /\ v = "ValueError" => left = 0 \/ (left = 1 /\ culprits # {})
             /\ v = "again" => left > 1 /\ culprits # {} /\ ~none
  BY DEF v
<1> HIDE DEF e, culprits, none
<1>2. CASE left = 0
  BY <1>1, <1>2
<1>3. CASE left > 0 /\ ~tries
  BY <1>1, <1>3
<1>4. CASE tries /\ stuck
  BY <1>1, <1>4
<1>5. CASE tries /\ ~stuck /\ left = 1
  BY <1>1, <1>5
<1>6. CASE tries /\ ~stuck /\ left > 1
  BY <1>1, <1>6
<1> QED
  BY <1>2, <1>3, <1>4, <1>5, <1>6

\* The text and the attempts: each two joined two strings; without one, there is an end.
RepairState(t, attempts, X) ==
    {s \in [text : Seq(X), left : 0 .. attempts,
            ends : {"again", "returns", "JSONDecodeError", "ValueError"}] :
        /\ Parts(s.text) = Parts(t)
        /\ 2 * Count(s.text) + attempts <= 2 * Count(t) + s.left
        /\ s.left < attempts => Count(s.text) >= 1
        /\ s.ends = "ValueError" => 2 * Count(t) > attempts
        /\ Loads(t).error = "none" => s.text = t /\ s.ends \in {"again", "returns"}
                                      /\ s.left = attempts}

\* A turn keeps the account of strings and attempts; another one costs two attempts.
LEMMA RepairTurnKeeps ==
    ASSUME NEW X, Closed(X), NEW t \in Seq(X), NEW attempts \in Nat \ {0},
           NEW s \in RepairState(t, attempts, X)
    PROVE  /\ RepairTurn(s) \in RepairState(t, attempts, X)
           /\ RepairTurn(s).ends = "again" => s.ends = "again" /\ RepairTurn(s).left = s.left - 2
<1> DEFINE verdict  == Verdict(s.text, s.left)
           culprits == Culprits(s.text, Loads(s.text).place)
           p        == Max(culprits)
           after    == Following(s.text, p)
           q        == Min(after)
           ends     == {"again", "returns", "JSONDecodeError", "ValueError"}
           r        == RepairTurn(s)
<1>1. /\ X \in SUBSET Tok /\ s.text \in Seq(X) /\ s.text \in Seq(Tok) /\ s.left \in 0 .. attempts
      /\ s.left \in Nat /\ s.ends \in ends /\ Len(s.text) \in Nat
      /\ DOMAIN s.text = 1 .. Len(s.text)
      /\ Parts(s.text) = Parts(t)
      /\ 2 * Count(s.text) + attempts <= 2 * Count(t) + s.left
      /\ s.left < attempts => Count(s.text) >= 1
      /\ s.ends = "ValueError" => 2 * Count(t) > attempts
      /\ Loads(t).error = "none" => s.text = t /\ s.ends \in {"again", "returns"}
                                    /\ s.left = attempts
      /\ s = [text |-> s.text, left |-> s.left, ends |-> s.ends]
  <2>1. X \in SUBSET Tok /\ s.text \in Seq(X)
    BY DEF Closed, RepairState
  <2>2. s.text \in Seq(Tok)
    BY <2>1, SeqMonotone
  <2> QED
    BY <2>1, <2>2 DEF RepairState
<1>2. Count(s.text) \in Nat /\ Count(t) \in Nat
  <2>1. t \in Seq(Tok)
    BY <1>1, SeqMonotone
  <2> QED
    BY <1>1, <2>1, CountType
<1>3. /\ verdict \in ends
      /\ Loads(s.text).error = "none" /\ s.left > 0 => verdict = "returns"
      /\ verdict = "ValueError" => s.left = 0 \/ (s.left = 1 /\ culprits # {})
      /\ verdict = "again" => s.left > 1 /\ culprits # {} /\ after # {}
  BY <1>1, VerdictFits
<1>4. culprits \in SUBSET Strings(s.text)
  BY DEF Culprits, Strings
<1>5. r = IF s.ends # "again" THEN s
          ELSE IF verdict # "again" THEN [s EXCEPT !.ends = verdict]
          ELSE [s EXCEPT !.text = Join(s.text, p, q), !.left = s.left - 2]
  BY DEF RepairTurn
<1> SUFFICES /\ r \in RepairState(t, attempts, X)
             /\ r.ends = "again" => s.ends = "again" /\ r.left = s.left - 2
  OBVIOUS
<1> HIDE DEF r, verdict, culprits
<1>6. CASE s.ends # "again"
  BY <1>5, <1>6
<1>7. CASE s.ends = "again" /\ verdict # "again"
  <2>1. r = [text |-> s.text, left |-> s.left, ends |-> verdict]
    BY <1>1, <1>5, <1>7
  <2>2. verdict = "ValueError" => 2 * Count(t) > attempts
    <3> SUFFICES ASSUME verdict = "ValueError" PROVE 2 * Count(t) > attempts
      OBVIOUS
    <3>1. CASE s.left = 0
      BY <1>1, <1>2, <3>1
    <3>2. CASE s.left = 1 /\ culprits # {}
      <4>1. Count(s.text) >= 1
        BY <1>1, <1>4, <3>2, CountType
      <4> QED
        BY <1>1, <1>2, <3>2, <4>1
    <3> QED
      BY <1>3, <3>1, <3>2
  <2>3. Loads(t).error = "none" => verdict = "returns"
    <3> SUFFICES ASSUME Loads(t).error = "none" PROVE verdict = "returns"
      OBVIOUS
    <3>1. s.text = t /\ s.left = attempts /\ attempts > 0
      BY <1>1
    <3> QED
      BY <1>3, <3>1
  <2>4. r \in RepairState(t, attempts, X)
    BY <1>1, <1>3, <2>1, <2>2, <2>3 DEF RepairState
  <2>5. r.ends = verdict
    BY <2>1
  <2> QED
    BY <1>7, <2>4, <2>5
<1>8. CASE s.ends = "again" /\ verdict = "again"
  <2> DEFINE j == Join(s.text, p, q)
  <2>1. s.left > 1 /\ culprits # {} /\ after # {}
    BY <1>3, <1>8
  <2>2. p \in culprits
    <3>1. culprits \in SUBSET Nat /\ \A x \in culprits : x <= Len(s.text)
      BY <1>1, <1>4 DEF Strings
    <3> QED
      BY <1>1, <2>1, <3>1, GreatestOf
  <2> HIDE DEF p
  <2>3. q \in after
    <3>1. after \in SUBSET Nat
      BY <1>1 DEF Following
    <3> HIDE DEF after
    <3> QED
      BY <2>1, <3>1, LeastOf
  <2>4. p \in Strings(s.text) /\ q \in Strings(s.text) /\ p < q
    <3> HIDE DEF q
    <3>1. q \in Strings(s.text) /\ q > p /\ p \in Strings(s.text)
      BY <1>4, <2>2, <2>3 DEF Following, Strings
    <3>2. p \in Nat /\ q \in Nat
      BY <1>1, <3>1 DEF Strings
    <3> QED
      BY <3>1, <3>2
  <2> HIDE DEF q
  <2>5. /\ j \in Seq(X) /\ Parts(j) = Parts(s.text)
        /\ Count(j) + 1 <= Count(s.text) /\ Count(j) >= 1
    BY <1>1, <2>4, JoinKeeps
  <2> HIDE DEF j
  <2>6. r = [text |-> j, left |-> s.left - 2, ends |-> "again"]
    BY <1>1, <1>5, <1>8 DEF j
  <2>7. Loads(t).error # "none"
    <3> SUFFICES ASSUME Loads(t).error = "none" PROVE FALSE
      OBVIOUS
    <3>1. s.text = t /\ s.left > 0
      BY <1>1, <2>1
    <3> QED
      BY <1>3, <1>8, <3>1
  <2>8. Count(j) \in Nat
    <3>1. j \in Seq(Tok)
      BY <1>1, <2>5, SeqMonotone
    <3> QED
      BY <3>1, CountType
  <2>9. s.left - 2 \in 0 .. attempts /\ 2 * Count(j) + attempts <= 2 * Count(t) + (s.left - 2)
    <3>1. s.left \in 0 .. attempts /\ s.left > 1 /\ Count(j) + 1 <= Count(s.text)
          /\ 2 * Count(s.text) + attempts <= 2 * Count(t) + s.left
      BY <1>1, <2>1, <2>5
    <3> DEFINE a == Count(j)
               b == Count(s.text)
               c == Count(t)
               l == s.left
    <3>2. a \in Nat /\ b \in Nat /\ c \in Nat /\ l \in 0 .. attempts /\ l > 1
          /\ a + 1 <= b /\ 2 * b + attempts <= 2 * c + l
      BY <1>2, <2>8, <3>1
    <3> HIDE DEF a, b, c, l
    <3>3. l - 2 \in 0 .. attempts /\ 2 * a + attempts <= 2 * c + (l - 2)
      BY <3>2
    <3> QED
      BY <3>3 DEF a, c, l
  <2>10. r \in RepairState(t, attempts, X)
    <3>1. /\ r \in [text : Seq(X), left : 0 .. attempts, ends : ends]
          /\ r.text = j /\ r.left = s.left - 2 /\ r.ends = "again"
      BY <2>5, <2>6, <2>9
    <3> QED
      BY <1>1, <2>5, <2>7, <2>9, <3>1 DEF RepairState
  <2> QED
    BY <1>8, <2>6, <2>10
<1> QED
  BY <1>6, <1>7, <1>8

\* repair_unescaped_quotes comes to an end, keeps every part, gives up only with as many
\* strings as half the attempts, and returns at once what is JSON.
LEMMA RepairKeeps ==
    ASSUME NEW X, Closed(X), NEW t \in Seq(X), NEW attempts \in Nat \ {0}
    PROVE  LET r == RepairUnescapedQuotes(t, attempts)
           IN  /\ r \in RepairState(t, attempts, X)
               /\ r.ends # "again"
<1> DEFINE S      == RepairState(t, attempts, X)
           a      == [text |-> t, left |-> attempts, ends |-> "again"]
           IsT(h) == h = [m \in 0 .. attempts |-> IF m = 0 THEN a ELSE RepairTurn(h[m - 1])]
           turn   == CHOOSE h : IsT(h)
           g      == [m \in 1 .. attempts |-> [s \in S |-> RepairTurn(s)]]
<1>1. X \in SUBSET Tok /\ attempts \in Nat
  BY DEF Closed
<1>2. RepairUnescapedQuotes(t, attempts) = turn[attempts]
  BY DEF RepairUnescapedQuotes
<1>3. a \in S
  <2>1. t \in Seq(Tok)
    BY <1>1, SeqMonotone
  <2>2. Count(t) \in Nat
    BY <2>1, CountType
  <2>3. ~(attempts < attempts) /\ attempts \in 0 .. attempts
    OBVIOUS
  <2> QED
    BY <2>2, <2>3 DEF RepairState
<1>4. \A s \in S : /\ RepairTurn(s) \in S
                   /\ RepairTurn(s).ends = "again" =>
                         s.ends = "again" /\ RepairTurn(s).left = s.left - 2
  BY RepairTurnKeeps
<1>5. g \in [1 .. attempts -> [S -> S]]
  BY <1>4
<1> HIDE DEF S, a
<1>6. \E h : IsT(h)
  <2>1. PICK f \in [0 .. attempts -> S] : IsLoop(f, attempts, a, g)
    <3> HIDE DEF g
    <3> QED
      BY <1>1, <1>3, <1>5, LoopExists
  <2>2. ASSUME NEW m \in 0 .. attempts PROVE f[m] = IF m = 0 THEN a ELSE RepairTurn(f[m - 1])
    <3>1. CASE m = 0
      BY <2>1, <3>1 DEF IsLoop
    <3>2. CASE m # 0
      <4>1. m \in 1 .. attempts /\ m - 1 \in 0 .. attempts
        BY <1>1, <3>2
      <4>2. f[m] = g[m][f[m - 1]] /\ f[m - 1] \in S
        <5> HIDE DEF g
        <5> QED
          BY <2>1, <4>1 DEF IsLoop
      <4> QED
        BY <3>2, <4>1, <4>2
    <3> QED
      BY <3>1, <3>2
  <2>3. IsT(f)
    BY <2>2
  <2> QED
    BY <2>3
<1>7. IsT(turn)
  BY <1>6
<1> HIDE DEF turn
<1>8. turn[0] = a /\ \A m \in 1 .. attempts : turn[m] = RepairTurn(turn[m - 1])
  BY <1>1, <1>7
<1>9. \A m \in 0 .. attempts : turn[m] \in S
  <2>1. \A m \in 1 .. attempts : turn[m - 1] \in S => turn[m] \in S
    BY <1>4, <1>8
  <2> QED
    BY <1>1, <1>3, <1>8, <2>1, LoopStays
<1>10. \A s \in S : s.left \in 0 .. attempts
  BY DEF S, RepairState
<1> DEFINE U == {m \in Nat : m <= attempts =>
                     (turn[m].ends = "again" => turn[m].left = attempts - 2 * m)}
<1>11. attempts \in U
  <2>1. 0 \in U
    BY <1>1, <1>8 DEF a
  <2>2. ASSUME NEW m \in Nat, m \in U PROVE m + 1 \in U
    <3> SUFFICES ASSUME m + 1 <= attempts, turn[m + 1].ends = "again"
                 PROVE  turn[m + 1].left = attempts - 2 * (m + 1)
      OBVIOUS
    <3>1. m + 1 \in 1 .. attempts /\ (m + 1) - 1 = m /\ m \in 0 .. attempts /\ m <= attempts
      BY <1>1
    <3>2. turn[m] \in S /\ turn[m + 1] = RepairTurn(turn[m])
      <4>1. turn[m + 1] = RepairTurn(turn[(m + 1) - 1])
        BY <1>8, <3>1
      <4> QED
        BY <1>9, <3>1, <4>1
    <3>3. turn[m].ends = "again" /\ turn[m + 1].left = turn[m].left - 2
      BY <1>4, <3>2
    <3>4. turn[m].left = attempts - 2 * m
      BY <2>2, <3>1, <3>3
    <3> QED
      BY <1>1, <3>3, <3>4
  <2> HIDE DEF U
  <2> QED
    BY <1>1, <2>1, <2>2, SetInduction
<1>12. turn[attempts] \in S /\ turn[attempts].ends # "again"
  <2>1. attempts \in 0 .. attempts /\ attempts <= attempts
    BY <1>1
  <2>2. turn[attempts] \in S /\ turn[attempts].left \in 0 .. attempts
    BY <1>9, <1>10, <2>1
  <2>3. ASSUME turn[attempts].ends = "again" PROVE FALSE
    <3>1. turn[attempts].left = attempts - 2 * attempts
      BY <1>11, <2>1, <2>3
    <3> QED
      BY <2>2, <3>1
  <2> QED
    BY <2>2, <2>3
<1> QED
  BY <1>2, <1>12 DEF S

-----------------------------------------------------------------------------
(* Reading JSON. *)

\* What is open.
Bracket == {"{", "["}

\* A comma is wanted, and a key or its colon, only in something that is open; those of
\* an object.
ParseState ==
    {s \in [want  : {"value", "value or close", "key", "key or close", "colon", "comma", "end"},
            stack : Seq(Bracket), read : Nat, error : {"none", "delimiter", "other"}] :
        s.error = "none" =>
            /\ s.want = "comma" => s.stack # <<>>
            /\ s.want \in {"key", "key or close", "colon"} =>
                  s.stack # <<>> /\ Head(s.stack) = "{"}

\* A state whose want and read change.
LEMMA UpdateTwo ==
    ASSUME NEW s, NEW w, NEW n,
           s = [want |-> s.want, stack |-> s.stack, read |-> s.read, error |-> s.error]
    PROVE  [s EXCEPT !.want = w, !.read = n]
               = [want |-> w, stack |-> s.stack, read |-> n, error |-> s.error]
<1> DEFINE a == [s EXCEPT !.want = w]
<1>1. [s EXCEPT !.want = w, !.read = n] = [a EXCEPT !.read = n]
  OBVIOUS
<1>2. a = [want |-> w, stack |-> s.stack, read |-> s.read, error |-> s.error]
  OBVIOUS
<1> HIDE DEF a
<1>3. [a EXCEPT !.read = n] = [want |-> w, stack |-> s.stack, read |-> n, error |-> s.error]
  BY <1>2
<1> QED
  BY <1>1, <1>3

\* What is opened comes first.
LEMMA OpenFits ==
    ASSUME NEW st \in Seq(Bracket), NEW k \in Bracket
    PROVE  <<k>> \o st \in Seq(Bracket) /\ <<k>> \o st # <<>> /\ Head(<<k>> \o st) = k
<1> DEFINE one == <<k>>
           all == one \o st
<1>1. one \in Seq(Bracket) /\ Len(one) = 1 /\ one[1] = k
  OBVIOUS
<1> HIDE DEF one
<1>2. Len(st) \in Nat
  OBVIOUS
<1>3. all \in Seq(Bracket) /\ Len(all) = Len(one) + Len(st)
      /\ \A i \in 1 .. Len(one) + Len(st) : all[i] = IF i <= Len(one) THEN one[i] ELSE st[i - Len(one)]
  BY <1>1, ConcatProperties
<1> HIDE DEF all
<1>4. 1 \in 1 .. Len(one) + Len(st)
  BY <1>1, <1>2
<1>5. all[1] = k /\ Len(all) >= 1
  BY <1>1, <1>2, <1>3, <1>4
<1>6. all # <<>> /\ Head(all) = k
  BY <1>3, <1>5
<1> QED
  BY <1>3, <1>6 DEF all, one

\* What is left after closing was open.
LEMMA CloseFits ==
    ASSUME NEW st \in Seq(Bracket), st # <<>>
    PROVE  Tail(st) \in Seq(Bracket)
OBVIOUS

\* A state that fits.
LEMMA StateFits ==
    ASSUME NEW w \in {"value", "value or close", "key", "key or close", "colon", "comma", "end"},
           NEW st \in Seq(Bracket), NEW n \in Nat, NEW e \in {"none", "delimiter", "other"},
           e = "none" => /\ w = "comma" => st # <<>>
                         /\ w \in {"key", "key or close", "colon"} => st # <<>> /\ Head(st) = "{"
    PROVE  [want |-> w, stack |-> st, read |-> n, error |-> e] \in ParseState
<1> DEFINE x == [want |-> w, stack |-> st, read |-> n, error |-> e]
<1>1. x \in [want  : {"value", "value or close", "key", "key or close", "colon", "comma", "end"},
             stack : Seq(Bracket), read : Nat, error : {"none", "delimiter", "other"}]
  OBVIOUS
<1>2. x.want = w /\ x.stack = st /\ x.error = e
  OBVIOUS
<1> HIDE DEF x
<1>3. x \in ParseState
  BY <1>1, <1>2 DEF ParseState
<1> QED
  BY <1>3 DEF x

\* A token leads to a state that fits; an error stays.
LEMMA ParseFits ==
    ASSUME NEW s \in ParseState, NEW tok \in Tok
    PROVE  /\ Parse(s, tok) \in ParseState
           /\ s.error # "none" => Parse(s, tok) = s
<1> DEFINE k           == IF IsStr(tok) THEN "S" ELSE tok.kind
           Wants(w)    == [s EXCEPT !.want = w, !.read = s.read + 1]
           Opens(w)    == [Wants(w) EXCEPT !.stack = <<k>> \o s.stack]
           Closes      == [Wants(AfterValue(Tail(s.stack))) EXCEPT !.stack = Tail(s.stack)]
           Fails       == [s EXCEPT !.error =
                              IF s.want \in {"colon", "comma"} THEN "delimiter" ELSE "other"]
           fine        == s.error = "none"
           value       == fine /\ s.want \in {"value", "value or close"}
           mayClose    == /\ s.want \in {"comma", "key or close", "value or close"}
                          /\ s.stack # <<>>
                          /\ <<Head(s.stack), k>> \in {<<"{", "}">>, <<"[", "]">>}
           r           == Parse(s, tok)
           Want        == {"value", "value or close", "key", "key or close", "colon", "comma", "end"}
<1>1. r = CASE ~fine                                                     -> s
            [] value /\ k = "S"                                          -> Wants(AfterValue(s.stack))
            [] value /\ k = "{"                                          -> Opens("key or close")
            [] value /\ k = "["                                          -> Opens("value or close")
            [] fine /\ s.want \in {"key", "key or close"} /\ k = "S"     -> Wants("colon")
            [] fine /\ s.want = "colon" /\ k = ":"                       -> Wants("value")
            [] fine /\ s.want = "comma" /\ k = ","                       ->
                  Wants(IF Head(s.stack) = "{" THEN "key" ELSE "value")
            [] fine /\ mayClose                                          -> Closes
            [] OTHER                                                     -> Fails
  BY DEF Parse
<1>2. /\ s.want \in Want /\ s.stack \in Seq(Bracket) /\ s.read \in Nat
      /\ s.error \in {"none", "delimiter", "other"} /\ s.read + 1 \in Nat
      /\ s.error = "none" =>
            /\ s.want = "comma" => s.stack # <<>>
            /\ s.want \in {"key", "key or close", "colon"} =>
                  s.stack # <<>> /\ Head(s.stack) = "{"
  <2>1. /\ s.want \in Want /\ s.stack \in Seq(Bracket) /\ s.read \in Nat
        /\ s.error \in {"none", "delimiter", "other"}
    BY DEF ParseState
  <2>2. s.error = "none" =>
            /\ s.want = "comma" => s.stack # <<>>
            /\ s.want \in {"key", "key or close", "colon"} =>
                  s.stack # <<>> /\ Head(s.stack) = "{"
    BY DEF ParseState
  <2>3. s.read + 1 \in Nat
    <3>1. s.read \in Nat
      BY DEF ParseState
    <3> QED
      BY <3>1
  <2> QED
    BY <2>1, <2>2, <2>3
<1>3. \A w : Wants(w) = [want |-> w, stack |-> s.stack, read |-> s.read + 1, error |-> s.error]
  <2>1. s = [want |-> s.want, stack |-> s.stack, read |-> s.read, error |-> s.error]
    BY DEF ParseState
  <2> TAKE w
  <2> DEFINE n == s.read + 1
  <2>2. Wants(w) = [s EXCEPT !.want = w, !.read = n]
    OBVIOUS
  <2> HIDE DEF n, Wants
  <2>3. Wants(w) = [want |-> w, stack |-> s.stack, read |-> n, error |-> s.error]
    BY <2>1, <2>2, UpdateTwo
  <2> QED
    BY <2>3 DEF n
<1> HIDE DEF r, Wants
<1>4. ASSUME NEW w \in Want, fine,
             w = "comma" => s.stack # <<>>,
             w \in {"key", "key or close", "colon"} => s.stack # <<>> /\ Head(s.stack) = "{"
      PROVE  Wants(w) \in ParseState
  <2>1. [want |-> w, stack |-> s.stack, read |-> s.read + 1, error |-> s.error] \in ParseState
    BY <1>2, <1>4, StateFits
  <2> QED
    BY <1>3, <2>1
<1>5. CASE ~fine
  BY <1>1, <1>5 DEF r
<1>6. CASE value /\ k = "S"
  <2>1. r = Wants(AfterValue(s.stack))
    BY <1>1, <1>6
  <2>2. AfterValue(s.stack) \in {"end", "comma"} /\ (AfterValue(s.stack) = "comma" => s.stack # <<>>)
    BY DEF AfterValue
  <2> QED
    BY <1>4, <1>6, <2>1, <2>2 DEF r
<1>7. CASE value /\ k \in Bracket
  <2> DEFINE w == IF k = "{" THEN "key or close" ELSE "value or close"
             st == <<k>> \o s.stack
  <2>1. r = Opens(w)
    <3>1. CASE k = "{"
      BY <1>1, <1>7, <3>1
    <3>2. CASE k = "["
      BY <1>1, <1>7, <3>2
    <3> QED
      BY <1>7, <3>1, <3>2 DEF Bracket
  <2>2. r = [want |-> w, stack |-> st, read |-> s.read + 1, error |-> s.error]
    BY <1>3, <2>1
  <2>3. st \in Seq(Bracket) /\ st # <<>> /\ Head(st) = k
    BY <1>2, <1>7, OpenFits
  <2>4. (w = "key or close" => k = "{") /\ w \in {"key or close", "value or close"}
    OBVIOUS
  <2> HIDE DEF st, k, w
  <2>5. [want |-> w, stack |-> st, read |-> s.read + 1, error |-> s.error] \in ParseState
    BY <1>2, <1>7, <2>3, <2>4, StateFits
  <2> QED
    BY <1>7, <2>2, <2>5 DEF r
<1>8. CASE fine /\ s.want \in {"key", "key or close"} /\ k = "S"
  <2>1. r = Wants("colon")
    BY <1>1, <1>8
  <2> QED
    BY <1>2, <1>4, <1>8, <2>1 DEF r
<1>9. CASE fine /\ s.want = "colon" /\ k = ":"
  <2>1. r = Wants("value")
    BY <1>1, <1>9
  <2> QED
    BY <1>2, <1>4, <1>9, <2>1 DEF r
<1>10. CASE fine /\ s.want = "comma" /\ k = ","
  <2>1. r = Wants(IF Head(s.stack) = "{" THEN "key" ELSE "value")
    BY <1>1, <1>10
  <2> QED
    BY <1>2, <1>4, <1>10, <2>1 DEF r
<1>11. CASE fine /\ mayClose /\ k \notin {"S", "{", "[", ":", ","}
  <2> DEFINE st == Tail(s.stack)
             w  == AfterValue(st)
  <2>1. r = Closes
    BY <1>1, <1>11
  <2>2. r = [want |-> w, stack |-> st, read |-> s.read + 1, error |-> s.error]
    BY <1>3, <2>1
  <2>3. st \in Seq(Bracket)
    BY <1>2, <1>11, CloseFits
  <2>4. w \in {"end", "comma"} /\ (w = "comma" => st # <<>>)
    BY DEF AfterValue
  <2> HIDE DEF st, w
  <2>5. [want |-> w, stack |-> st, read |-> s.read + 1, error |-> s.error] \in ParseState
    BY <1>2, <2>3, <2>4, StateFits
  <2> QED
    BY <1>11, <2>2, <2>5 DEF r
<1>12. CASE r = Fails /\ fine
  <2> DEFINE e == IF s.want \in {"colon", "comma"} THEN "delimiter" ELSE "other"
  <2>1. s = [want |-> s.want, stack |-> s.stack, read |-> s.read, error |-> s.error]
    BY DEF ParseState
  <2>2. e \in {"none", "delimiter", "other"} /\ e # "none"
    OBVIOUS
  <2>3. r = [s EXCEPT !.error = e]
    BY <1>12
  <2> HIDE DEF e
  <2>4. r = [want |-> s.want, stack |-> s.stack, read |-> s.read, error |-> e]
    BY <2>1, <2>3
  <2>5. [want |-> s.want, stack |-> s.stack, read |-> s.read, error |-> e] \in ParseState
    BY <1>2, <2>2, StateFits
  <2> QED
    BY <1>12, <2>4, <2>5 DEF r
<1>13. \/ ~fine \/ (value /\ k = "S") \/ (value /\ k \in Bracket)
       \/ (fine /\ s.want \in {"key", "key or close"} /\ k = "S")
       \/ (fine /\ s.want = "colon" /\ k = ":") \/ (fine /\ s.want = "comma" /\ k = ",")
       \/ (fine /\ mayClose /\ k \notin {"S", "{", "[", ":", ","})
       \/ (fine /\ r = Fails)
  <2>1. mayClose => k \notin {"S", "{", "[", ":", ","}
    OBVIOUS
  <2> HIDE DEF k, Fails, Closes, mayClose
  <2> QED
    BY <1>1, <2>1 DEF Bracket
<1> HIDE DEF k, fine, value, mayClose, Fails
<1> QED
  BY <1>5, <1>6, <1>7, <1>8, <1>9, <1>10, <1>11, <1>12, <1>13

\* What a token that fits was wanted for, and what is wanted after it.
Fits(s, tok, r) ==
    /\ tok.kind = ":" => s.want = "colon" /\ r.want = "value" /\ r.stack = s.stack
    /\ s.want = "colon" => tok.kind = ":"
    /\ s.want = "value" /\ IsStr(tok) => r.want = AfterValue(s.stack) /\ r.stack = s.stack
    /\ s.want = "comma" /\ tok.kind = "," /\ Head(s.stack) = "{" => r.want = "key"
    /\ s.want = "key" /\ IsStr(tok) => r.want = "colon"

\* A token without an error fits.
LEMMA ParseSteps ==
    ASSUME NEW s \in ParseState, NEW tok \in Tok, Parse(s, tok).error = "none"
    PROVE  Fits(s, tok, Parse(s, tok))
<1>1. s.error = "none"
  <2> SUFFICES ASSUME s.error # "none" PROVE FALSE
    OBVIOUS
  <2> QED
    BY ParseFits
<1> DEFINE k == IF IsStr(tok) THEN "S" ELSE tok.kind
           r == Parse(s, tok)
           fails == [s EXCEPT !.error =
                        IF s.want \in {"colon", "comma"} THEN "delimiter" ELSE "other"]
<1>2. s = [want |-> s.want, stack |-> s.stack, read |-> s.read, error |-> s.error]
  BY DEF ParseState
<1>3. r # fails
  BY <1>2
<1>4. IsStr(tok) => tok.kind \notin {":", ","}
  BY DEF IsStr
<1>5. CASE tok.kind = ":"
  <2>1. ~IsStr(tok) /\ k = ":"
    BY <1>4, <1>5
  <2>2. CASE s.want = "colon"
    <3>1. r = [s EXCEPT !.want = "value", !.read = s.read + 1]
      BY <1>1, <2>1, <2>2 DEF Parse
    <3>2. r.want = "value" /\ r.stack = s.stack
      BY <1>2, <3>1
    <3> QED
      BY <1>5, <2>1, <2>2, <3>2 DEF Fits
  <2>3. CASE s.want # "colon"
    <3>1. r = fails
      BY <1>1, <2>1, <2>3 DEF Parse
    <3> QED
      BY <3>1, <1>3
  <2> QED
    BY <2>2, <2>3
<1>6. CASE tok.kind # ":"
  <2>1. s.want # "colon"
    <3> SUFFICES ASSUME s.want = "colon" PROVE FALSE
      OBVIOUS
    <3>1. k # ":"
      BY <1>6
    <3>2. r = fails
      BY <1>1, <3>1 DEF Parse
    <3> QED
      BY <3>2, <1>3
  <2>2. ASSUME s.want = "value", IsStr(tok) PROVE r.want = AfterValue(s.stack) /\ r.stack = s.stack
    <3>1. r = [s EXCEPT !.want = AfterValue(s.stack), !.read = s.read + 1]
      BY <1>1, <2>2 DEF Parse
    <3> QED
      BY <1>2, <3>1
  <2>3. ASSUME s.want = "comma", tok.kind = ",", Head(s.stack) = "{" PROVE r.want = "key"
    <3>1. ~IsStr(tok)
      BY <1>4, <2>3
    <3>2. r = [s EXCEPT !.want = "key", !.read = s.read + 1]
      BY <1>1, <2>3, <3>1 DEF Parse
    <3> QED
      BY <1>2, <3>2
  <2>4. ASSUME s.want = "key", IsStr(tok) PROVE r.want = "colon"
    <3>1. r = [s EXCEPT !.want = "colon", !.read = s.read + 1]
      BY <1>1, <2>4 DEF Parse
    <3> QED
      BY <1>2, <3>1
  <2> QED
    BY <1>6, <2>1, <2>2, <2>3, <2>4 DEF Fits
<1> QED
  BY <1>5, <1>6

-----------------------------------------------------------------------------
\* JSON is read to its end, through states that each fit; nothing is wanted then.
LEMMA LoadsReads ==
    ASSUME NEW t \in Seq(Tok), Loads(t).error = "none"
    PROVE  \E h \in [0 .. Len(t) -> ParseState] :
               /\ \A i \in 1 .. Len(t) : h[i] = Parse(h[i - 1], t[i])
               /\ \A i \in 0 .. Len(t) : h[i].error = "none"
               /\ h[Len(t)].want = "end"
<1> DEFINE n      == Len(t)
           a      == [want |-> "value", stack |-> <<>>, read |-> 0, error |-> "none"]
           IsT(h) == h = [m \in 0 .. n |-> IF m = 0 THEN a ELSE Parse(h[m - 1], t[m])]
           s      == CHOOSE h : IsT(h)
           last   == s[n]
           g      == [m \in 1 .. n |-> [x \in ParseState |-> Parse(x, t[m])]]
<1>1. n \in Nat /\ \A m \in 1 .. n : t[m] \in Tok
  OBVIOUS
<1>2. Loads(t).error = CASE last.error # "none" \/ last.want = "end"                 -> last.error
                         [] last.error = "none" /\ last.want \in {"colon", "comma"} -> "delimiter"
                         [] OTHER                                                   -> "other"
  BY DEF Loads
<1>3. a \in ParseState
  <2>1. <<>> \in Seq(Bracket)
    OBVIOUS
  <2> QED
    BY <2>1, StateFits
<1>4. \A m \in 1 .. n : \A x \in ParseState : Parse(x, t[m]) \in ParseState
  BY <1>1, ParseFits
<1>5. g \in [1 .. n -> [ParseState -> ParseState]]
  BY <1>4
<1> HIDE DEF n, a
<1>6. \E h : IsT(h)
  <2>1. PICK f \in [0 .. n -> ParseState] : IsLoop(f, n, a, g)
    <3> HIDE DEF g
    <3> QED
      BY <1>1, <1>3, <1>5, LoopExists
  <2>2. ASSUME NEW m \in 0 .. n PROVE f[m] = IF m = 0 THEN a ELSE Parse(f[m - 1], t[m])
    <3>1. CASE m = 0
      BY <2>1, <3>1 DEF IsLoop
    <3>2. CASE m # 0
      <4>1. m \in 1 .. n /\ m - 1 \in 0 .. n
        BY <1>1, <3>2
      <4>2. f[m] = g[m][f[m - 1]] /\ f[m - 1] \in ParseState
        <5> HIDE DEF g
        <5> QED
          BY <2>1, <4>1 DEF IsLoop
      <4> QED
        BY <3>2, <4>1, <4>2
    <3> QED
      BY <3>1, <3>2
  <2>3. IsT(f)
    BY <2>2
  <2> QED
    BY <2>3
<1>7. IsT(s)
  BY <1>6
<1> HIDE DEF s
<1>8. DOMAIN s = 0 .. n /\ s[0] = a /\ \A m \in 1 .. n : s[m] = Parse(s[m - 1], t[m])
  BY <1>1, <1>7
<1>9. \A m \in 0 .. n : s[m] \in ParseState
  <2>1. \A m \in 1 .. n : s[m - 1] \in ParseState => s[m] \in ParseState
    BY <1>4, <1>8
  <2> QED
    BY <1>1, <1>3, <1>8, <2>1, LoopStays
<1>10. s \in [0 .. n -> ParseState]
  BY <1>7, <1>9
<1>11. last.error = "none" /\ last.want = "end"
  <2> HIDE DEF last
  <2>1. CASE last.error # "none" \/ last.want = "end"
    BY <1>2, <2>1
  <2>2. CASE last.error = "none" /\ last.want \in {"colon", "comma"}
    BY <1>2, <2>2
  <2>3. CASE last.error = "none" /\ last.want \notin {"colon", "comma", "end"}
    BY <1>2, <2>3
  <2> QED
    BY <2>1, <2>2, <2>3
<1> DEFINE U == {k \in Nat : k <= n => s[n - k].error = "none"}
<1>12. \A k \in Nat : k \in U
  <2>1. 0 \in U
    <3>1. n - 0 = n
      BY <1>1
    <3> QED
      BY <1>11, <3>1
  <2>2. ASSUME NEW k \in Nat, k \in U PROVE k + 1 \in U
    <3> SUFFICES ASSUME k + 1 <= n PROVE s[n - (k + 1)].error = "none"
      OBVIOUS
    <3> DEFINE m == n - k
    <3>1. m \in 1 .. n /\ n - (k + 1) = m - 1 /\ m - 1 \in 0 .. n /\ k <= n
      BY <1>1
    <3>2. s[m].error = "none"
      BY <2>2, <3>1
    <3> HIDE DEF m
    <3>3. s[m - 1] \in ParseState /\ t[m] \in Tok /\ s[m] = Parse(s[m - 1], t[m])
      BY <1>1, <1>8, <1>9, <3>1
    <3>4. s[m - 1].error # "none" => s[m] = s[m - 1]
      BY <3>3, ParseFits
    <3> QED
      BY <3>1, <3>2, <3>4
  <2> HIDE DEF U
  <2> QED
    BY <2>1, <2>2, SetInduction
<1>13. \A m \in 0 .. n : s[m].error = "none"
  <2> TAKE m \in 0 .. n
  <2> DEFINE k == n - m
  <2>1. k \in Nat /\ k <= n /\ n - k = m
    BY <1>1
  <2> HIDE DEF k
  <2>2. s[n - k].error = "none"
    BY <1>12, <2>1
  <2> QED
    BY <2>1, <2>2
<1> QED
  BY <1>8, <1>10, <1>11, <1>13 DEF n

\* A comma after a pair of JSON is followed by a key with its colon.
LEMMA ValidIsStraight ==
    ASSUME NEW t \in Seq(Tok), Loads(t).error = "none",
           \A i \in DOMAIN t : IsStr(t[i]) => t[i].kind = "S"
    PROVE  Straight(t)
<1>1. Len(t) \in Nat /\ DOMAIN t = 1 .. Len(t) /\ \A i \in 1 .. Len(t) : t[i] \in Tok
  OBVIOUS
<1>2. PICK h \in [0 .. Len(t) -> ParseState] :
          /\ \A i \in 1 .. Len(t) : h[i] = Parse(h[i - 1], t[i])
          /\ \A i \in 0 .. Len(t) : h[i].error = "none"
          /\ h[Len(t)].want = "end"
  BY LoadsReads
<1>3. \A i \in 1 .. Len(t) : Fits(h[i - 1], t[i], h[i])
  <2> TAKE i \in 1 .. Len(t)
  <2> DEFINE x == h[i - 1]
             tok == t[i]
  <2>1. i - 1 \in 0 .. Len(t) /\ i \in 0 .. Len(t)
    BY <1>1
  <2>2. x \in ParseState /\ tok \in Tok /\ h[i] = Parse(x, tok) /\ h[i].error = "none"
    BY <1>1, <1>2, <2>1
  <2> HIDE DEF x, tok
  <2>3. Fits(x, tok, Parse(x, tok))
    BY <2>2, ParseSteps
  <2> QED
    BY <2>2, <2>3 DEF x, tok
<1> SUFFICES ASSUME NEW i \in DOMAIN t, IsPair(t, i)
             PROVE  ~IsBare(t, i + 3) /\ t[i + 2].kind = "S"
  BY DEF Straight
<1>4. /\ i \in 1 .. Len(t) /\ i + 1 \in 1 .. Len(t) /\ i + 2 \in 1 .. Len(t)
      /\ IsStr(t[i]) /\ t[i + 1].kind = ":" /\ IsStr(t[i + 2])
  BY <1>1 DEF IsPair, StrAt, Is
<1>5. t[i + 2].kind = "S"
  BY <1>1, <1>4
<1>6. SUFFICES ASSUME IsBare(t, i + 3) PROVE FALSE
  BY <1>5
<1>7. /\ i + 3 \in 1 .. Len(t) /\ i + 4 \in 1 .. Len(t)
      /\ t[i + 3].kind = "," /\ IsStr(t[i + 4]) /\ ~Is(t, i + 5, ":")
  <2>1. (i + 3) + 1 = i + 4 /\ (i + 3) + 2 = i + 5
    BY <1>1
  <2>2. Is(t, i + 3, ",") /\ StrAt(t, i + 4) /\ ~Is(t, i + 5, ":")
    BY <1>6, <2>1 DEF IsBare
  <2> QED
    BY <1>1, <2>2 DEF Is, StrAt
<1>8. h[i].want = "colon" /\ h[i + 1].want = "value" /\ h[i + 1].stack = h[i].stack
  <2>1. (i + 1) - 1 = i
    BY <1>1
  <2>2. Fits(h[i], t[i + 1], h[i + 1])
    BY <1>3, <1>4, <2>1
  <2> QED
    BY <1>4, <2>2 DEF Fits
<1>9. h[i].stack # <<>> /\ Head(h[i].stack) = "{"
  <2>1. h[i] \in ParseState /\ h[i].error = "none"
    <3>1. i \in 0 .. Len(t)
      BY <1>1, <1>4
    <3> QED
      BY <1>2, <3>1
  <2> QED
    BY <1>8, <2>1 DEF ParseState
<1>10. h[i + 2].want = "comma" /\ h[i + 2].stack = h[i].stack
  <2>1. (i + 2) - 1 = i + 1
    BY <1>1
  <2>2. Fits(h[i + 1], t[i + 2], h[i + 2])
    BY <1>3, <1>4, <2>1
  <2> QED
    BY <1>4, <1>8, <1>9, <2>2 DEF Fits, AfterValue
<1>11. h[i + 3].want = "key"
  <2>1. (i + 3) - 1 = i + 2
    BY <1>1
  <2>2. Fits(h[i + 2], t[i + 3], h[i + 3])
    BY <1>3, <1>7, <2>1
  <2> QED
    BY <1>7, <1>9, <1>10, <2>2 DEF Fits
<1>12. h[i + 4].want = "colon"
  <2>1. (i + 4) - 1 = i + 3
    BY <1>1
  <2>2. Fits(h[i + 3], t[i + 4], h[i + 4])
    BY <1>3, <1>7, <2>1
  <2> QED
    BY <1>7, <1>11, <2>2 DEF Fits
<1>13. i + 4 # Len(t)
  BY <1>2, <1>12
<1>14. i + 5 \in 1 .. Len(t) /\ (i + 5) - 1 = i + 4
  <2>1. i \in 1 .. Len(t) /\ i + 4 \in 1 .. Len(t) /\ Len(t) \in Nat
    BY <1>1, <1>4, <1>7
  <2> HIDE DEF Is
  <2>2. i \in Nat /\ i + 4 <= Len(t)
    BY <2>1
  <2> QED
    BY <1>13, <2>1, <2>2
<1>15. t[i + 5].kind = ":"
  <2>1. Fits(h[i + 4], t[i + 5], h[i + 5])
    BY <1>3, <1>14
  <2> QED
    BY <1>12, <2>1 DEF Fits
<1> QED
  BY <1>1, <1>7, <1>14, <1>15 DEF Is

-----------------------------------------------------------------------------
(* The reply for a text. *)

\* Where no key is repeated, reading and writing JSON changes nothing.
LEMMA DumpsKeeps ==
    ASSUME NEW t, Len(t) \in Nat, Twins(t) = {}
    PROVE  Dumps(t) = t
<1> DEFINE n      == Len(t)
           IsT(h) == h = [m \in 0 .. n |-> IF m = 0 THEN t ELSE OverwriteTurn(h[m - 1])]
           turn   == CHOOSE h : IsT(h)
<1>1. Dumps(t) = turn[n]
  BY DEF Dumps
<1>2. OverwriteTurn(t) = t
  BY DEF OverwriteTurn
<1> HIDE DEF n
<1>3. n \in Nat
  BY DEF n
<1>4. \E h : IsT(h)
  <2> DEFINE f == [m \in 0 .. n |-> t]
  <2>1. ASSUME NEW m \in 0 .. n PROVE f[m] = IF m = 0 THEN t ELSE OverwriteTurn(f[m - 1])
    <3>1. CASE m = 0
      BY <3>1
    <3>2. CASE m # 0
      <4>1. m - 1 \in 0 .. n
        BY <1>3, <3>2
      <4> QED
        BY <1>2, <3>2, <4>1
    <3> QED
      BY <3>1, <3>2
  <2>2. f = [m \in 0 .. n |-> f[m]]
    OBVIOUS
  <2> HIDE DEF f
  <2>3. IsT(f)
    BY <2>1, <2>2
  <2> QED
    BY <2>3
<1>5. IsT(turn)
  BY <1>4
<1> HIDE DEF turn
<1>6. turn[0] = t /\ \A m \in 1 .. n : turn[m] = OverwriteTurn(turn[m - 1])
  BY <1>3, <1>5
<1> DEFINE S == {t}
<1>7. \A m \in 1 .. n : turn[m - 1] \in S => turn[m] \in S
  BY <1>2, <1>6
<1>8. turn[0] \in S
  BY <1>6
<1> HIDE DEF S
<1>9. turn[n] \in S
  <2>1. \A m \in 0 .. n : turn[m] \in S
    BY <1>3, <1>7, <1>8, LoopStays
  <2>2. n \in 0 .. n
    BY <1>3
  <2> QED
    BY <2>1, <2>2
<1> QED
  BY <1>1, <1>9 DEF S

\* JSON has every part of the block and what is whole is replied as it is, if no object
\* has a key twice, and a text is lost only if it has a "response" or too many strings.
LEMMA RepliesFit ==
    ASSUME NEW t \in Seq(Token), NEW x \in Replies(t)
    PROVE  LET block == StripMarkdownCodeBlocks(t)
           IN  /\ x.status \in {"text", "json", "nested", "500"}
               /\ x.status = "json"
                  /\ Twins(RepairUnescapedQuotes(MergeBare(Tokens(block)), MaxAttempts).text) = {}
                     => Parts(x.text) = Parts(block)
               /\ (\A tok \in ToSet(block) : tok.kind \notin {"1", "fence", "N", "R"})
                  /\ Loads(block).error = "none" /\ Twins(block) = {}
                     => x.status = "json" /\ x.text = block
               /\ x.status = "500" => \/ \E tok \in ToSet(t) : tok.kind = "R"
                                      \/ 2 * Count(t) > MaxAttempts
<1> DEFINE block    == StripMarkdownCodeBlocks(t)
           tokens   == Tokens(block)
           merged   == MergeBare(tokens)
           repaired == RepairUnescapedQuotes(merged, MaxAttempts)
           nested   == ResponseValues(repaired.text)
           As(s, y) == [status |-> s, text |-> y]
           refused  == \E tok \in ToSet(merged) : tok.kind = "refused"
           plain    == repaired.ends = "JSONDecodeError" \/ refused
           json     == ~plain /\ repaired.ends = "returns"
           isStr    == StrAt(repaired.text, Max(nested))
           whole    == /\ \A tok \in ToSet(block) : tok.kind \notin {"1", "fence", "N", "R"}
                       /\ Loads(block).error = "none"
                       /\ Twins(block) = {}
           single   == Twins(repaired.text) = {}
           NoR      == {tok \in Tok : tok.kind # "R"}
<1>1. MaxAttempts \in Nat \ {0}
  BY AnswersAssumption
<1>2. Closed(Tok) /\ Closed(NoR) /\ Token \in SUBSET Tok
  BY TokFits DEF Closed
<1>3. block \in Seq(Token) /\ Count(block) <= Count(t)
  BY <1>2, StripTakes
<1>4. /\ tokens \in Seq(Token) /\ Keeps(tokens, block)
      /\ (\A i \in DOMAIN block : block[i].kind \notin {"1", "fence"}) => tokens = block
  BY <1>3, TokensKeep
<1>5. merged \in Seq(Tok) /\ Keeps(merged, tokens) /\ (Straight(tokens) => merged = tokens)
  <2>1. tokens \in Seq(Tok)
    BY <1>2, <1>4, SeqMonotone
  <2> QED
    BY <1>2, <2>1, MergeBareKeeps
<1>6. repaired \in RepairState(merged, MaxAttempts, Tok) /\ repaired.ends # "again"
  BY <1>1, <1>2, <1>5, RepairKeeps
<1>7. /\ repaired.text \in Seq(Tok) /\ Parts(repaired.text) = Parts(merged)
      /\ repaired.ends \in {"returns", "JSONDecodeError", "ValueError"}
      /\ repaired.ends = "ValueError" => 2 * Count(merged) > MaxAttempts
      /\ Loads(merged).error = "none" => repaired.text = merged /\ repaired.ends = "returns"
  BY <1>6 DEF RepairState
<1>8. (\A tok \in ToSet(t) : tok.kind # "R") => repaired.text \in Seq(NoR)
  <2> SUFFICES ASSUME \A tok \in ToSet(t) : tok.kind # "R" PROVE repaired.text \in Seq(NoR)
    OBVIOUS
  <2> DEFINE Y == {tok \in Token : tok.kind # "R"}
  <2>1. Y \in SUBSET Token /\ Y \in SUBSET Tok /\ Y \in SUBSET NoR
    BY <1>2
  <2>2. \A i \in 1 .. Len(t) : t[i] \in Y
    BY DEF ToSet
  <2>3. t \in Seq(Y)
    <3>1. Len(t) \in Nat /\ t = [i \in 1 .. Len(t) |-> t[i]]
      OBVIOUS
    <3> HIDE DEF Y
    <3> QED
      BY <2>2, <3>1, IsASeq
  <2> HIDE DEF Y, NoR, block, tokens, merged, repaired
  <2>4. block \in Seq(Y)
    BY <2>1, <2>3, StripTakes DEF block
  <2>5. tokens \in Seq(Y)
    BY <2>1, <2>4, TokensKeep DEF tokens
  <2>6. tokens \in Seq(NoR)
    BY <2>1, <2>5, SeqMonotone
  <2>7. merged \in Seq(NoR)
    BY <1>2, <2>6, MergeBareKeeps DEF merged
  <2>8. repaired \in RepairState(merged, MaxAttempts, NoR)
    BY <1>1, <1>2, <2>7, RepairKeeps DEF repaired
  <2> QED
    BY <2>8 DEF RepairState
<1>9. repaired.text \in Seq(NoR) => nested = {}
  <2> SUFFICES ASSUME repaired.text \in Seq(NoR), NEW i \in nested PROVE FALSE
    OBVIOUS
  <2>1. Is(repaired.text, i - 2, "R")
    BY DEF ResponseValues
  <2> DEFINE y == repaired.text
             j == i - 2
  <2>2. y \in Seq(NoR) /\ j \in DOMAIN y /\ y[j].kind = "R"
    BY <2>1 DEF Is
  <2> HIDE DEF y, j
  <2>3. y[j] \in NoR
    <3> HIDE DEF NoR
    <3> QED
      BY <2>2
  <2> QED
    BY <2>2, <2>3
<1>10. x \in CASE plain                            -> {As("text", t)}
               [] json /\ nested = {}              -> {As("json", Dumps(repaired.text))}
               [] json /\ nested # {} /\ isStr     ->
                     {As("text", t), As("nested", <<repaired.text[Max(nested)]>>)}
               [] json /\ nested # {} /\ ~isStr    -> {As("500", <<>>)}
               [] ~plain /\ ~json                  -> {As("500", <<>>)}
  BY DEF Replies, RepliesTo
<1>21. single => Dumps(repaired.text) = repaired.text
  <2>1. Len(repaired.text) \in Nat
    <3> HIDE DEF repaired
    <3> QED
      BY <1>7
  <2> HIDE DEF repaired
  <2> QED
    BY <2>1, DumpsKeeps
<1>11. whole => json /\ nested = {} /\ repaired.text = block
  <2> SUFFICES ASSUME whole PROVE json /\ nested = {} /\ repaired.text = block
    OBVIOUS
  <2> HIDE DEF tokens, merged, repaired, nested, block
  <2>1. \A i \in DOMAIN block : block[i].kind \notin {"1", "fence", "N", "R"}
    BY DEF ToSet
  <2>2. tokens = block
    BY <1>4, <2>1
  <2>3. block \in Seq(Tok) /\ \A i \in DOMAIN block : block[i] \in Token
    <3>1. block \in Seq(Tok)
      BY <1>2, <1>3, SeqMonotone
    <3>2. \A i \in DOMAIN block : block[i] \in Token
      BY <1>3
    <3> QED
      BY <3>1, <3>2
  <2>4. Straight(block)
    <3>1. \A i \in DOMAIN block : IsStr(block[i]) => block[i].kind = "S"
      BY <2>1 DEF IsStr
    <3> QED
      BY <2>3, <3>1, ValidIsStraight
  <2>5. merged = block
    BY <1>5, <2>2, <2>4
  <2>6. repaired.text = block /\ repaired.ends = "returns"
    BY <1>7, <2>5
  <2>7. ~refused
    <3>1. \A i \in DOMAIN block : block[i].kind # "refused"
      BY <2>3 DEF Token
    <3> QED
      BY <2>5, <3>1 DEF ToSet
  <2>8. block \in Seq(NoR)
    <3>1. \A i \in 1 .. Len(block) : block[i] \in NoR
      BY <1>2, <2>1, <2>3
    <3>2. Len(block) \in Nat /\ block = [i \in 1 .. Len(block) |-> block[i]]
      BY <2>3
    <3> HIDE DEF NoR
    <3> QED
      BY <3>1, <3>2, IsASeq
  <2> QED
    BY <1>9, <2>6, <2>7, <2>8
<1>12. Parts(repaired.text) = Parts(block)
  BY <1>4, <1>5, <1>7 DEF Keeps
<1>13. repaired.ends = "ValueError" => 2 * Count(t) > MaxAttempts
  <2>1. Count(merged) <= Count(tokens) /\ Count(tokens) <= Count(block) /\ Count(block) <= Count(t)
    BY <1>3, <1>4, <1>5 DEF Keeps
  <2>2. Count(merged) \in Nat /\ Count(tokens) \in Nat /\ Count(block) \in Nat /\ Count(t) \in Nat
    <3>1. tokens \in Seq(Tok) /\ block \in Seq(Tok) /\ t \in Seq(Tok)
      BY <1>2, <1>3, <1>4, SeqMonotone
    <3> QED
      BY <1>5, <3>1, CountType
  <2> HIDE DEF tokens, merged, repaired, block
  <2>3. 2 * Count(merged) <= 2 * Count(t)
    BY <2>1, <2>2
  <2> QED
    BY <1>1, <1>7, <2>2, <2>3
<1> SUFFICES /\ x.status \in {"text", "json", "nested", "500"}
             /\ x.status = "json" /\ single => Parts(x.text) = Parts(block)
             /\ whole => x.status = "json" /\ x.text = block
             /\ x.status = "500" => \/ \E tok \in ToSet(t) : tok.kind = "R"
                                    \/ 2 * Count(t) > MaxAttempts
  OBVIOUS
<1>14. repaired.ends \in {"returns", "JSONDecodeError", "ValueError"}
  BY <1>7
<1>15. nested # {} => \E tok \in ToSet(t) : tok.kind = "R"
  BY <1>8, <1>9
<1>22. whole => single
  BY <1>11
<1> HIDE DEF block, tokens, merged, repaired, nested, refused, isStr, whole, single, NoR
<1>16. CASE plain
  BY <1>10, <1>11, <1>16
<1>17. CASE json /\ nested = {}
  BY <1>10, <1>11, <1>12, <1>17, <1>21, <1>22
<1>18. CASE json /\ nested # {} /\ isStr
  BY <1>10, <1>11, <1>18
<1>19. CASE json /\ nested # {} /\ ~isStr
  <2>1. x = As("500", <<>>)
    BY <1>10, <1>19
  <2> QED
    BY <1>11, <1>15, <1>19, <2>1
<1>20. CASE ~plain /\ ~json
  <2>1. x = As("500", <<>>)
    BY <1>10, <1>20
  <2>2. repaired.ends = "ValueError"
    BY <1>14, <1>20
  <2> QED
    BY <1>11, <1>13, <1>20, <2>1, <2>2
<1> QED
  BY <1>16, <1>17, <1>18, <1>19, <1>20

-----------------------------------------------------------------------------
(* The stream. *)

\* What the first n lines of the stream say.
Pieces(n) ==
    [i \in 1 .. n |-> IF stream.lines[i].kind = "piece" THEN stream.lines[i].text ELSE <<>>]

\* The content is that of the lines read; the final chunk is the last of them.
StreamFits ==
    /\ stream \in Stream
    /\ next \in 1 .. Len(stream.lines) + 1
    /\ content = FlattenSeq(Pieces(next - 1))
    /\ at \in {"posting", "streaming", "generated", "replied"}
    /\ final \in BOOLEAN
    /\ final => /\ at \in {"generated", "replied"}
                /\ next > 1 /\ stream.lines[next - 1].done

\* A reply without a finish reason is an error; the others are those of the content.
ReplyFits ==
    /\ at # "replied" => reply.status = "none" /\ reply.finish = "none"
    /\ at = "replied" =>
          \/ reply.finish = "none" /\ reply.status \in {"500", "503", "504"}
          \/ /\ reply.finish = Finish
             /\ \E x \in Replies(Text) : reply.status = x.status /\ reply.text = x.text

\* The inductive invariant.
IInv == StreamFits /\ ReplyFits

\* The lines say texts of tokens.
LEMMA PiecesType ==
    ASSUME stream \in Stream, NEW n \in 0 .. Len(stream.lines)
    PROVE  /\ Pieces(n) \in Seq(Seq(Token)) /\ Len(Pieces(n)) = n
           /\ FlattenSeq(Pieces(n)) \in Seq(Token)
<1> DEFINE L == stream.lines
<1>1. L \in Seq([kind : LineKind, text : Seq(Token), done : BOOLEAN])
  BY AnswersAssumption
<1>2. \A i \in 1 .. n : L[i].text \in Seq(Token)
  <2> HIDE DEF L
  <2>1. Len(L) \in Nat /\ \A i \in 1 .. Len(L) : L[i] \in [kind : LineKind, text : Seq(Token), done : BOOLEAN]
    BY <1>1, LenProperties, ElementOfSeq
  <2>2. \A i \in 1 .. n : i \in 1 .. Len(L)
    BY <2>1 DEF L
  <2> TAKE i \in 1 .. n
  <2>3. L[i] \in [kind : LineKind, text : Seq(Token), done : BOOLEAN]
    BY <2>1, <2>2
  <2> QED
    BY <2>3
<1> DEFINE one(i) == IF L[i].kind = "piece" THEN L[i].text ELSE <<>>
<1>3. \A i \in 1 .. n : one(i) \in Seq(Token)
  <2>1. <<>> \in Seq(Token)
    OBVIOUS
  <2> QED
    BY <1>2, <2>1
<1>4. n \in Nat
  OBVIOUS
<1>5. Pieces(n) = [i \in 1 .. n |-> one(i)]
  BY DEF Pieces
<1> HIDE DEF one
<1>6. [i \in 1 .. n |-> one(i)] \in Seq(Seq(Token))
  BY <1>3, <1>4, IsASeq
<1> DEFINE ss == Pieces(n)
<1>7. ss \in Seq(Seq(Token)) /\ Len(ss) = n
  BY <1>4, <1>5, <1>6
<1> HIDE DEF ss
<1>8. FlattenSeq(ss) \in Seq(Token)
  <2>1. PICK f \in [0 .. Len(ss) -> Seq(Token)] : FlattenSeq(ss) = f[Len(ss)]
    BY <1>7, FlattenLoops
  <2>2. Len(ss) \in 0 .. Len(ss)
    BY <1>4, <1>7
  <2> QED
    BY <2>1, <2>2
<1> QED
  BY <1>7, <1>8 DEF ss

\* A line more.
LEMMA PiecesGrow ==
    ASSUME stream \in Stream, NEW n \in 1 .. Len(stream.lines)
    PROVE  FlattenSeq(Pieces(n)) = FlattenSeq(Pieces(n - 1)) \o
               (IF stream.lines[n].kind = "piece" THEN stream.lines[n].text ELSE <<>>)
<1> DEFINE x  == IF stream.lines[n].kind = "piece" THEN stream.lines[n].text ELSE <<>>
           ss == Pieces(n - 1)
           tt == Pieces(n)
<1>1. n \in 0 .. Len(stream.lines) /\ n - 1 \in 0 .. Len(stream.lines) /\ n \in 1 .. n /\ n \in Nat
  OBVIOUS
<1>2. /\ ss \in Seq(Seq(Token)) /\ Len(ss) = n - 1
      /\ tt \in Seq(Seq(Token)) /\ Len(tt) = n
  BY <1>1, PiecesType
<1>3. tt[n] = x /\ \A i \in 1 .. n - 1 : tt[i] = ss[i]
  BY <1>1 DEF Pieces
<1> HIDE DEF x, ss, tt
<1>4. x \in Seq(Token)
  BY <1>1, <1>2, <1>3
<1>5. tt = ss \o <<x>>
  <2>1. <<x>> \in Seq(Seq(Token)) /\ Len(<<x>>) = 1 /\ <<x>>[1] = x
    BY <1>4
  <2> DEFINE one == <<x>>
             uu  == ss \o one
  <2> HIDE DEF one
  <2>2. /\ uu \in Seq(Seq(Token)) /\ Len(uu) = Len(ss) + Len(one)
        /\ \A i \in 1 .. Len(ss) + Len(one) : uu[i] = IF i <= Len(ss) THEN ss[i] ELSE one[i - Len(ss)]
    BY <1>2, <2>1, ConcatProperties DEF one
  <2>3. Len(one) = 1 /\ one[1] = x
    BY <2>1 DEF one
  <2> HIDE DEF uu
  <2>4. ASSUME NEW i \in 1 .. n PROVE tt[i] = uu[i]
    <3>1. CASE i = n
      <4>1. uu[n] = one[n - Len(ss)] /\ n - Len(ss) = 1
        BY <1>1, <1>2, <2>2, <2>3
      <4> QED
        BY <1>3, <2>3, <3>1, <4>1
    <3>2. CASE i # n
      <4>1. i \in 1 .. n - 1
        BY <1>1, <3>2
      <4>2. uu[i] = ss[i]
        BY <1>1, <1>2, <2>2, <2>3, <4>1
      <4> QED
        BY <1>3, <4>1, <4>2
    <3> QED
      BY <3>1, <3>2
  <2>5. Len(tt) = Len(uu) /\ \A i \in 1 .. Len(tt) : tt[i] = uu[i]
    BY <1>1, <1>2, <2>2, <2>3, <2>4
  <2>6. tt = uu
    BY <1>2, <2>2, <2>5, SeqEqual
  <2> QED
    BY <2>6 DEF uu, one
<1>6. FlattenSeq(ss \o <<x>>) = FlattenSeq(ss) \o FlattenSeq(<<x>>) /\ FlattenSeq(<<x>>) = x
  <2>1. <<x>> \in Seq(Seq(Token))
    BY <1>4
  <2>2. FlattenSeq(<<x>>) = x
    BY <1>4, FlattenOne
  <2> QED
    BY <1>2, <2>1, <2>2, FlattenConcat
<1>7. FlattenSeq(tt) = FlattenSeq(ss) \o x
  BY <1>5, <1>6
<1> QED
  BY <1>7 DEF x, ss, tt

\* Nothing is read or replied at the start.
LEMMA InitHolds == Init => IInv
<1> SUFFICES ASSUME Init PROVE IInv
  OBVIOUS
<1>1. Len(stream.lines) \in Nat
  <2>1. stream.lines \in Seq([kind : LineKind, text : Seq(Token), done : BOOLEAN])
    BY AnswersAssumption DEF Init
  <2> QED
    BY <2>1, LenProperties
<1>2. FlattenSeq(Pieces(0)) = <<>>
  <2>1. Pieces(0) = <<>>
    BY DEF Pieces
  <2> QED
    BY <2>1 DEF FlattenSeq
<1>3. StreamFits
  <2>1. /\ stream \in Stream /\ next = 1 /\ content = <<>> /\ final = FALSE /\ at = "posting"
        /\ next - 1 = 0 /\ next \in 1 .. Len(stream.lines) + 1
    BY <1>1 DEF Init
  <2> QED
    BY <1>2, <2>1 DEF StreamFits
<1>4. ReplyFits
  BY DEF Init, ReplyFits
<1> QED
  BY <1>3, <1>4 DEF IInv

\* The status of the response.
LEMMA PostKeeps == ASSUME IInv, Post PROVE IInv'
<1>1. Pieces(next - 1)' = Pieces(next - 1)
  BY DEF Pieces, Post
<1>2. StreamFits'
  BY <1>1 DEF IInv, StreamFits, Post, Sends
<1>3. ReplyFits'
  BY DEF IInv, StreamFits, ReplyFits, Post, Sends
<1> QED
  BY <1>2, <1>3 DEF IInv

\* Where a line is read.
LEMMA LineFits ==
    ASSUME StreamFits, next <= Len(stream.lines)
    PROVE  /\ next \in 1 .. Len(stream.lines) /\ next + 1 \in 1 .. Len(stream.lines) + 1
           /\ (next + 1) - 1 = next /\ Line \in [kind : LineKind, text : Seq(Token), done : BOOLEAN]
           /\ content \in Seq(Token)
<1>1. stream.lines \in Seq([kind : LineKind, text : Seq(Token), done : BOOLEAN])
  BY AnswersAssumption DEF StreamFits
<1>2. Len(stream.lines) \in Nat
  BY <1>1, LenProperties
<1>3. next \in 1 .. Len(stream.lines) + 1
  BY DEF StreamFits
<1>4. /\ next \in 1 .. Len(stream.lines) /\ next + 1 \in 1 .. Len(stream.lines) + 1
      /\ (next + 1) - 1 = next /\ next - 1 \in 0 .. Len(stream.lines)
  BY <1>2, <1>3
<1>5. Line \in [kind : LineKind, text : Seq(Token), done : BOOLEAN]
  BY <1>1, <1>4, ElementOfSeq DEF Line
<1>6. content \in Seq(Token)
  BY <1>4, PiecesType DEF StreamFits
<1> QED
  BY <1>4, <1>5, <1>6

\* A chunk adds its piece, and is final if it is done.
LEMMA ReadChunkKeeps == ASSUME IInv, ReadChunk PROVE IInv'
<1>1. StreamFits /\ next <= Len(stream.lines)
  BY DEF IInv, ReadChunk
<1>2. /\ next \in 1 .. Len(stream.lines) /\ next + 1 \in 1 .. Len(stream.lines) + 1
      /\ (next + 1) - 1 = next /\ Line \in [kind : LineKind, text : Seq(Token), done : BOOLEAN]
      /\ content \in Seq(Token)
  BY <1>1, LineFits
<1>3. /\ stream' = stream /\ next' = next + 1 /\ reply' = reply /\ final' = Line.done
      /\ at' = IF Line.done THEN "generated" ELSE "streaming"
      /\ content' = IF Line.kind = "piece" THEN content \o Line.text ELSE content
      /\ at = "streaming"
  BY DEF ReadChunk, Chunk
<1>4. content' = FlattenSeq(Pieces(next))
  <2>1. FlattenSeq(Pieces(next)) = content \o (IF Line.kind = "piece" THEN Line.text ELSE <<>>)
    BY <1>1, <1>2, PiecesGrow DEF StreamFits, Line
  <2>2. content \o <<>> = content
    BY <1>2, ConcatEmptySeq
  <2> QED
    BY <1>3, <2>1, <2>2
<1>5. Pieces(next - 1)' = Pieces(next)
  BY <1>2, <1>3 DEF Pieces
<1>6. Line.done \in BOOLEAN
  BY <1>2
<1>7. next + 1 > 1
  BY <1>2
<1>8. StreamFits'
  <2>1. content' = FlattenSeq(Pieces(next - 1))'
    BY <1>4, <1>5
  <2>2. final' => at' = "generated" /\ next' > 1 /\ stream'.lines[next' - 1].done
    BY <1>2, <1>3, <1>7 DEF Line
  <2>3. stream' \in Stream /\ next' \in 1 .. Len(stream'.lines) + 1 /\ final' \in BOOLEAN
        /\ at' \in {"generated", "streaming"}
    BY <1>1, <1>2, <1>3, <1>6 DEF StreamFits
  <2> QED
    BY <2>1, <2>2, <2>3 DEF StreamFits
<1>9. ReplyFits'
  BY <1>3 DEF IInv, ReplyFits
<1> QED
  BY <1>8, <1>9 DEF IInv

\* Blank lines and garbage add nothing.
LEMMA SkipLineKeeps == ASSUME IInv, SkipLine PROVE IInv'
<1>1. StreamFits /\ next <= Len(stream.lines)
  BY DEF IInv, SkipLine
<1>2. /\ next \in 1 .. Len(stream.lines) /\ next + 1 \in 1 .. Len(stream.lines) + 1
      /\ (next + 1) - 1 = next /\ content \in Seq(Token)
  BY <1>1, LineFits
<1>3. /\ UNCHANGED <<stream, content, final, at, reply>> /\ next' = next + 1
      /\ Line.kind # "piece" /\ at = "streaming"
  BY DEF SkipLine
<1>4. content = FlattenSeq(Pieces(next))
  <2>1. FlattenSeq(Pieces(next)) = content \o <<>>
    BY <1>1, <1>2, <1>3, PiecesGrow DEF StreamFits, Line
  <2> QED
    BY <1>2, <2>1, ConcatEmptySeq
<1>5. StreamFits'
  <2>1. content' = FlattenSeq(Pieces(next - 1))'
    BY <1>2, <1>3, <1>4 DEF Pieces
  <2> QED
    BY <1>1, <1>2, <1>3, <2>1 DEF StreamFits
<1>6. ReplyFits'
  BY <1>3 DEF IInv, ReplyFits
<1> QED
  BY <1>5, <1>6 DEF IInv

\* A line of another shape is a 500.
LEMMA ReadOddLineKeeps == ASSUME IInv, ReadOddLine PROVE IInv'
<1>1. Pieces(next - 1)' = Pieces(next - 1)
  BY DEF Pieces, ReadOddLine
<1>2. StreamFits'
  BY <1>1 DEF IInv, StreamFits, ReadOddLine, Sends
<1>3. ReplyFits'
  BY DEF ReplyFits, ReadOddLine, Sends
<1> QED
  BY <1>2, <1>3 DEF IInv

\* The end without done leaves the chunk not final.
LEMMA EndOfStreamKeeps == ASSUME IInv, EndOfStream PROVE IInv'
<1>1. Pieces(next - 1)' = Pieces(next - 1)
  BY DEF Pieces, EndOfStream
<1>2. stream.ending \in Ending
  BY AnswersAssumption DEF IInv, StreamFits
<1>3. \/ at' = "generated" /\ UNCHANGED reply
      \/ \E s \in {"500", "503", "504"} : Sends(s, <<>>, "none")
  BY <1>2 DEF EndOfStream, Ending
<1>4. StreamFits'
  BY <1>1, <1>3 DEF IInv, StreamFits, EndOfStream, Sends
<1>5. ReplyFits'
  BY <1>3 DEF IInv, ReplyFits, EndOfStream, Sends
<1> QED
  BY <1>4, <1>5 DEF IInv

\* The reply is one for the content.
LEMMA ReplyKeeps == ASSUME IInv, Reply PROVE IInv'
<1>1. Pieces(next - 1)' = Pieces(next - 1) /\ Finish' = Finish /\ Text' = Text
  BY DEF Pieces, Reply, Finish, Text
<1>2. PICK x \in Replies(Text) : Sends(x.status, x.text, Finish)
  BY DEF Reply
<1>3. at' = "replied" /\ UNCHANGED <<stream, next, content, final>>
  BY <1>2 DEF Reply, Sends
<1>4. reply'.finish = Finish /\ reply'.status = x.status /\ reply'.text = x.text
  BY <1>2 DEF Sends
<1>5. StreamFits'
  BY <1>1, <1>3 DEF IInv, StreamFits
<1>6. Replies(Text)' = Replies(Text)
  <2>1. content' = content
    BY <1>3
  <2> QED
    BY <2>1 DEF Text
<1>7. ReplyFits'
  BY <1>1, <1>2, <1>3, <1>4, <1>6 DEF ReplyFits
<1> QED
  BY <1>5, <1>7 DEF IInv

\* Every step keeps the inductive invariant.
LEMMA StepHolds == IInv /\ [Next]_vars => IInv'
<1> SUFFICES ASSUME IInv, [Next]_vars PROVE IInv'
  OBVIOUS
<1>1. CASE UNCHANGED vars
  BY <1>1 DEF vars, IInv, StreamFits, ReplyFits, Pieces, Finish, Text
<1>2. CASE Done
  BY <1>1, <1>2 DEF Done, vars, IInv, StreamFits, ReplyFits, Pieces, Finish, Text
<1> QED
  BY <1>1, <1>2, PostKeeps, ReadChunkKeeps, SkipLineKeeps, ReadOddLineKeeps,
     EndOfStreamKeeps, ReplyKeeps DEF Next

\* The content is what was read of the stream, and the reply is one for it.
THEOREM AnswersInvariant == Spec => []IInv
BY InitHolds, StepHolds, PTL DEF Spec

\* The text is one of a backend's tokens.
LEMMA TextType == IInv => Text \in Seq(Token)
<1> SUFFICES ASSUME IInv PROVE Text \in Seq(Token)
  OBVIOUS
<1>1. content \in Seq(Token)
  <2>1. stream.lines \in Seq([kind : LineKind, text : Seq(Token), done : BOOLEAN])
    BY AnswersAssumption DEF IInv, StreamFits
  <2>2. Len(stream.lines) \in Nat
    BY <2>1, LenProperties
  <2>3. next \in 1 .. Len(stream.lines) + 1 /\ stream \in Stream
        /\ content = FlattenSeq(Pieces(next - 1))
    BY DEF IInv, StreamFits
  <2>4. next - 1 \in 0 .. Len(stream.lines)
    BY <2>2, <2>3
  <2> QED
    BY <2>3, <2>4, PiecesType
<1>2. <<Mark("1")>> \in Seq(Token)
  <2>1. Mark("1") \in Token
    <3>1. <<>> \in Seq(Nat)
      OBVIOUS
    <3> QED
      BY <3>1 DEF Mark, Token
  <2> QED
    BY <2>1
<1> QED
  BY <1>1, <1>2 DEF Text

\* A reply that generate() did not fail is one for the text.
LEMMA ReplyOf ==
    ASSUME IInv, reply.finish # "none"
    PROVE  /\ reply.finish = Finish /\ at = "replied"
           /\ \E x \in Replies(Text) : reply.status = x.status /\ reply.text = x.text
BY DEF IInv, StreamFits, ReplyFits

\* A delivered answer with a finish reason was ended by the backend, and has every piece
\* up to there.
THEOREM AnswersTruncationVisible == Spec => []TruncationIsVisible
<1>1. IInv => TruncationIsVisible
  <2> SUFFICES ASSUME IInv, Delivered, reply.finish # "unknown"
               PROVE  /\ \E i \in DOMAIN stream.lines : stream.lines[i].done /\ next = i + 1
                      /\ content = FlattenSeq(Pieces(next - 1))
    BY DEF TruncationIsVisible, Pieces
  <2>1. reply.finish # "none"
    BY DEF IInv, StreamFits, ReplyFits, Delivered, Finish
  <2>2. final
    BY <2>1, ReplyOf DEF Finish, IInv, StreamFits
  <2>3. stream.lines \in Seq([kind : LineKind, text : Seq(Token), done : BOOLEAN])
    BY AnswersAssumption DEF IInv, StreamFits
  <2>4. Len(stream.lines) \in Nat /\ DOMAIN stream.lines = 1 .. Len(stream.lines)
    BY <2>3, LenProperties
  <2>5. next \in 1 .. Len(stream.lines) + 1 /\ next > 1 /\ stream.lines[next - 1].done
    BY <2>2 DEF IInv, StreamFits
  <2>6. next - 1 \in DOMAIN stream.lines /\ next = (next - 1) + 1
    BY <2>4, <2>5
  <2>7. content = FlattenSeq(Pieces(next - 1))
    BY DEF IInv, StreamFits
  <2> QED
    BY <2>5, <2>6, <2>7
<1> QED
  BY <1>1, AnswersInvariant, PTL

\* JSON is replied with every string of the answer, in order, if no object of it has a
\* key twice.
THEOREM AnswersStringsSurvive == Spec => []StringsSurvive
<1>1. IInv => StringsSurvive
  <2> SUFFICES ASSUME IInv, reply.status = "json", Twins(Repaired) = {}
               PROVE  Parts(reply.text) = Parts(Block)
    BY DEF StringsSurvive
  <2>1. reply.finish # "none"
    BY DEF IInv, StreamFits, ReplyFits, Finish
  <2>2. PICK x \in Replies(Text) : reply.status = x.status /\ reply.text = x.text
    BY <2>1, ReplyOf
  <2>3. x.status = "json" /\ Twins(Repaired) = {} => Parts(x.text) = Parts(Block)
    BY TextType, RepliesFit DEF Block, Repaired
  <2> QED
    BY <2>2, <2>3
<1> QED
  BY <1>1, AnswersInvariant, PTL

\* JSON of strings alone, in which no object has a key twice, is replied as it is.
THEOREM AnswersValidKept == Spec => []ValidIsKept
<1>1. IInv => ValidIsKept
  <2> SUFFICES ASSUME IInv, reply.finish # "none",
                      \A tok \in ToSet(Block) : tok.kind \notin {"1", "fence", "N", "R"},
                      Loads(Block).error = "none",
                      Twins(Block) = {}
               PROVE  reply.status = "json" /\ reply.text = Block
    BY DEF ValidIsKept
  <2>1. PICK x \in Replies(Text) : reply.status = x.status /\ reply.text = x.text
    BY ReplyOf
  <2>2. x.status = "json" /\ x.text = Block
    BY TextType, RepliesFit DEF Block
  <2> QED
    BY <2>1, <2>2
<1> QED
  BY <1>1, AnswersInvariant, PTL

\* A generated answer is lost only to a "response", or to as many strings as half the
\* attempts.
THEOREM AnswersLostOnlyIfHopeless == Spec => []LostOnlyIfHopeless
<1>1. IInv => LostOnlyIfHopeless
  <2> SUFFICES ASSUME IInv, reply.status = "500", reply.finish # "none"
               PROVE  (\E tok \in ToSet(Text) : tok.kind = "R") \/ 2 * Count(Text) > MaxAttempts
    BY DEF LostOnlyIfHopeless, Count, Strings
  <2>1. PICK x \in Replies(Text) : reply.status = x.status
    BY ReplyOf
  <2>2. x.status = "500" => (\E tok \in ToSet(Text) : tok.kind = "R") \/ 2 * Count(Text) > MaxAttempts
    BY TextType, RepliesFit
  <2> QED
    BY <2>1, <2>2
<1> QED
  BY <1>1, AnswersInvariant, PTL
=============================================================================
