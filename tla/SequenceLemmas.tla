--------------------------- MODULE SequenceLemmas ---------------------------
(***************************************************************************)
(* Induction and recursion without operator parameters, and what Selected  *)
(* returns.                                                                *)
(***************************************************************************)
EXTENDS Selection, WellFoundedInduction, SequenceTheorems, TLAPS

\* A set of natural numbers has a least element.
LEMMA LeastNatural ==
    ASSUME NEW T, T \subseteq Nat, T # {}
    PROVE  \E n \in T : \A m \in T : n <= m
<1> DEFINE Less == {p \in Nat \X Nat : p[1] < p[2]}
<1>1. IsWellFoundedOn(Less, Nat)
  BY NatLessThanWellFounded DEF OpToRel
<1>2. PICK n \in T : \A m \in T : ~ (<<m, n>> \in Less)
  BY <1>1, WFMin
<1>3. ASSUME NEW m \in T PROVE n <= m
  <2>1. m \in Nat /\ n \in Nat /\ ~ (<<m, n>> \in Less)
    BY <1>2
  <2>2. ~ (m < n)
    BY <2>1
  <2> QED
    BY <2>1, <2>2
<1> QED
  BY <1>3

\* Induction up to a bound: what a set contains, instead of what a predicate
\* says, so that the lemma can be used with any of them.
LEMMA Induction ==
    ASSUME NEW T, NEW N \in Nat, 0 \in T,
           \A n \in 0 .. (N - 1) : n \in T => n + 1 \in T
    PROVE  \A n \in 0 .. N : n \in T
<1> DEFINE Missing == {n \in 0 .. N : n \notin T}
<1>1. SUFFICES ASSUME Missing # {} PROVE FALSE
  OBVIOUS
<1>2. Missing \subseteq Nat
  OBVIOUS
<1>3. PICK m \in Missing : \A l \in Missing : m <= l
  <2> HIDE DEF Missing
  <2> QED BY <1>1, <1>2, LeastNatural
<1>4. m # 0 /\ m \in 1 .. N
  BY <1>3
<1>5. m - 1 \in 0 .. (N - 1) /\ m - 1 \notin Missing
  BY <1>3, <1>4
<1>6. m - 1 \in T
  BY <1>5, <1>4
<1> QED
  BY <1>3, <1>4, <1>5, <1>6

\* What starts with base and takes the steps of F.
Solutions(N, V, base, F) ==
    {g \in [0 .. N -> V] : g[0] = base /\ \A k \in 1 .. N : g[k] = F[k][g[k - 1]]}

\* A recursion over 1 .. N has a solution, when each step maps V into V.
LEMMA RecursionExists ==
    ASSUME NEW N \in Nat, NEW V, NEW base \in V, NEW F \in [1 .. N -> [V -> V]]
    PROVE  \E g : g \in Solutions(N, V, base, F)
<1> DEFINE Solves(g, m) == /\ g \in [0 .. m -> V] /\ g[0] = base
                           /\ \A k \in 1 .. m : g[k] = F[k][g[k - 1]]
           T == {m \in 0 .. N : \E g : Solves(g, m)}
<1>1. 0 \in T
  <2> DEFINE g == [k \in 0 .. 0 |-> base]
  <2>1. 0 .. 0 = {0} /\ 1 .. 0 = {}
    OBVIOUS
  <2>2. g \in [0 .. 0 -> V] /\ g[0] = base
    BY <2>1
  <2> HIDE DEF g
  <2>3. Solves(g, 0)
    BY <2>1, <2>2
  <2> QED
    BY <2>3
<1>2. ASSUME NEW n \in 0 .. (N - 1), n \in T PROVE n + 1 \in T
  <2>1. PICK g : Solves(g, n)
    BY <1>2
  <2>2. n + 1 \in 1 .. N /\ F[n + 1] \in [V -> V] /\ g[n] \in V
    BY <2>1
  <2> DEFINE h == [k \in 0 .. (n + 1) |-> IF k <= n THEN g[k] ELSE F[n + 1][g[n]]]
  <2>3. h \in [0 .. (n + 1) -> V] /\ h[0] = base
    BY <2>1, <2>2
  <2>4. ASSUME NEW k \in 1 .. (n + 1) PROVE h[k] = F[k][h[k - 1]]
    <3>1. h[k - 1] = g[k - 1]
      OBVIOUS
    <3>2. CASE k <= n
      <4>1. k \in 1 .. n /\ h[k] = g[k]
        BY <3>2
      <4>2. g[k] = F[k][g[k - 1]]
        BY <2>1, <4>1
      <4> QED
        BY <3>1, <4>1, <4>2
    <3>3. CASE k = n + 1
      <4>1. h[k] = F[n + 1][g[n]] /\ k - 1 = n
        BY <3>3
      <4> QED
        BY <3>1, <3>3, <4>1
    <3> QED
      BY <3>2, <3>3
  <2> HIDE DEF h
  <2>5. Solves(h, n + 1)
    BY <2>3, <2>4
  <2> HIDE DEF Solves
  <2> QED
    BY <2>5
<1>3. N \in T
  <2>1. N \in 0 .. N
    OBVIOUS
  <2> HIDE DEF T
  <2> QED BY <1>1, <1>2, <2>1, Induction
<1> QED
  BY <1>3 DEF Solutions

----------------------------------------------------------------------------
\* The body of SelectedUpTo.
Select1(s, S, upTo, n) ==
    IF n = 0 THEN << >>
    ELSE IF s[n] \in S THEN Append(upTo[n - 1], s[n]) ELSE upTo[n - 1]

\* There is a function that satisfies the recursion.
LEMMA SelectionExists ==
    ASSUME NEW s, NEW S, NEW N \in Nat
    PROVE  \E g : g = [k \in 0 .. N |-> Select1(s, S, g, k)]
<1> DEFINE Has(m) == \E g : g = [k \in 0 .. m |-> Select1(s, S, g, k)]
           T == {m \in 0 .. N : Has(m)}
<1>1. 0 \in T
  <2> DEFINE g == [k \in 0 .. 0 |-> << >>]
  <2>1. g = [k \in 0 .. 0 |-> Select1(s, S, g, k)]
    BY DEF Select1
  <2> QED
    BY <2>1
<1>2. ASSUME NEW n \in 0 .. (N - 1), n \in T PROVE n + 1 \in T
  <2>1. PICK g : g = [k \in 0 .. n |-> Select1(s, S, g, k)]
    BY <1>2
  <2> DEFINE h == [k \in 0 .. (n + 1) |-> IF k <= n THEN g[k] ELSE Select1(s, S, g, n + 1)]
  <2>2. ASSUME NEW k \in 0 .. (n + 1) PROVE h[k] = Select1(s, S, h, k)
    <3>1. k # 0 => h[k - 1] = g[k - 1]
      OBVIOUS
    <3>2. Select1(s, S, h, k) = Select1(s, S, g, k)
      BY <3>1 DEF Select1
    <3>3. CASE k <= n
      <4>1. g[k] = Select1(s, S, g, k)
        BY <2>1, <3>3
      <4> QED
        BY <3>2, <3>3, <4>1
    <3>4. CASE k = n + 1
      BY <3>2, <3>4
    <3> QED
      BY <3>3, <3>4
  <2>3. h = [k \in 0 .. (n + 1) |-> Select1(s, S, h, k)]
    BY <2>2
  <2>4. Has(n + 1)
    <3> HIDE DEF h
    <3> QED BY <2>3
  <2> QED
    BY <2>4
<1>3. N \in T
  <2> HIDE DEF T
  <2> QED BY <1>1, <1>2, Induction
<1> QED
  BY <1>3

\* SelectedUpTo is what its recursion says: ...
LEMMA SelectedUpToDef ==
    ASSUME NEW s, NEW S, Len(s) \in Nat
    PROVE  SelectedUpTo(s, S) = [k \in 0 .. Len(s) |-> Select1(s, S, SelectedUpTo(s, S), k)]
<1> DEFINE Eq(g) == g = [k \in 0 .. Len(s) |-> Select1(s, S, g, k)]
<1>1. \E g : Eq(g)
  BY SelectionExists
<1>2. SelectedUpTo(s, S) = CHOOSE g : Eq(g)
  BY DEF SelectedUpTo, Select1
<1> HIDE DEF Eq
<1>3. Eq(CHOOSE g : Eq(g))
  BY <1>1
<1>4. Eq(SelectedUpTo(s, S))
  BY <1>2, <1>3
<1> QED
  BY <1>4 DEF Eq

\* ... nothing at first, and with each element it or nothing more.
LEMMA SelectedUpToStep ==
    ASSUME NEW s, NEW S, Len(s) \in Nat
    PROVE  /\ SelectedUpTo(s, S)[0] = << >>
           /\ \A n \in 1 .. Len(s) :
                 SelectedUpTo(s, S)[n] = IF s[n] \in S
                                         THEN Append(SelectedUpTo(s, S)[n - 1], s[n])
                                         ELSE SelectedUpTo(s, S)[n - 1]
<1> DEFINE f == SelectedUpTo(s, S)
<1>1. f = [k \in 0 .. Len(s) |-> Select1(s, S, f, k)]
  BY SelectedUpToDef
<1> HIDE DEF f
<1>2. \A k \in 0 .. Len(s) : f[k] = Select1(s, S, f, k)
  BY <1>1
<1>3. f[0] = << >>
  BY <1>2 DEF Select1
<1>4. \A n \in 1 .. Len(s) : f[n] = IF s[n] \in S THEN Append(f[n - 1], s[n]) ELSE f[n - 1]
  BY <1>2 DEF Select1
<1> QED
  BY <1>3, <1>4 DEF f

\* What is selected are elements of s that are in S.
LEMMA SelectedUpToType ==
    ASSUME NEW A, NEW s \in Seq(A), NEW S
    PROVE  \A n \in 0 .. Len(s) : SelectedUpTo(s, S)[n] \in Seq(A \cap S)
<1> DEFINE f == SelectedUpTo(s, S)
           T == {n \in 0 .. Len(s) : f[n] \in Seq(A \cap S)}
<1>1. /\ f[0] = << >>
      /\ \A n \in 1 .. Len(s) : f[n] = IF s[n] \in S THEN Append(f[n - 1], s[n]) ELSE f[n - 1]
  BY SelectedUpToStep
<1> HIDE DEF f
<1>2. 0 \in T
  <2>1. << >> \in Seq(A \cap S)
    BY EmptySeq
  <2>2. f[0] \in Seq(A \cap S)
    BY <1>1, <2>1
  <2>3. 0 \in 0 .. Len(s)
    OBVIOUS
  <2> QED BY <2>2, <2>3
<1>3. ASSUME NEW n \in 0 .. (Len(s) - 1), n \in T PROVE n + 1 \in T
  <2>1. f[n + 1] = IF s[n + 1] \in S THEN Append(f[n], s[n + 1]) ELSE f[n]
    BY <1>1
  <2>2. s[n + 1] \in A
    OBVIOUS
  <2>3. f[n + 1] \in Seq(A \cap S)
    BY <1>3, <2>1, <2>2
  <2> QED
    BY <2>3
<1>4. \A n \in 0 .. Len(s) : n \in T
  <2> HIDE DEF T
  <2> QED BY <1>2, <1>3, Induction
<1> QED
  BY <1>4 DEF f

\* What is selected is from the sequence and in the set.
LEMMA SelectedType ==
    ASSUME NEW A, NEW s \in Seq(A), NEW S
    PROVE  Selected(s, S) \in Seq(A \cap S)
<1>1. Len(s) \in 0 .. Len(s)
  OBVIOUS
<1> QED
  BY <1>1, SelectedUpToType DEF Selected

\* Nothing is selected from nothing.
LEMMA SelectedEmpty ==
    ASSUME NEW S
    PROVE  Selected(<< >>, S) = << >>
BY SelectedUpToStep DEF Selected

\* Whether further elements follow does not matter.
LEMMA SelectedUpToPrefix ==
    ASSUME NEW A, NEW s \in Seq(A), NEW t \in Seq(A), NEW S,
           Len(s) <= Len(t), \A i \in 1 .. Len(s) : t[i] = s[i]
    PROVE  \A n \in 0 .. Len(s) : SelectedUpTo(t, S)[n] = SelectedUpTo(s, S)[n]
<1> DEFINE f == SelectedUpTo(s, S)
           g == SelectedUpTo(t, S)
           T == {n \in 0 .. Len(s) : g[n] = f[n]}
<1>1. /\ f[0] = << >>
      /\ \A n \in 1 .. Len(s) : f[n] = IF s[n] \in S THEN Append(f[n - 1], s[n]) ELSE f[n - 1]
  BY SelectedUpToStep
<1>2. /\ g[0] = << >>
      /\ \A n \in 1 .. Len(t) : g[n] = IF t[n] \in S THEN Append(g[n - 1], t[n]) ELSE g[n - 1]
  BY SelectedUpToStep
<1> HIDE DEF f, g
<1>3. 0 \in T
  BY <1>1, <1>2
<1>4. ASSUME NEW n \in 0 .. (Len(s) - 1), n \in T PROVE n + 1 \in T
  <2>1. n + 1 \in 1 .. Len(s) /\ n + 1 \in 1 .. Len(t) /\ t[n + 1] = s[n + 1]
    OBVIOUS
  <2>2. g[n + 1] = f[n + 1]
    BY <1>1, <1>2, <1>4, <2>1
  <2> QED
    BY <2>2
<1>5. \A n \in 0 .. Len(s) : n \in T
  <2>1. Len(s) \in Nat
    OBVIOUS
  <2> HIDE DEF T
  <2> QED BY <1>3, <1>4, <2>1, Induction
<1> QED
  BY <1>5 DEF f, g

\* An element more is selected behind the others, if it is in the set.
LEMMA SelectedAppend ==
    ASSUME NEW A, NEW s \in Seq(A), NEW e \in A, NEW S
    PROVE  Selected(Append(s, e), S) = IF e \in S THEN Append(Selected(s, S), e)
                                                  ELSE Selected(s, S)
<1> DEFINE t == Append(s, e)
<1>1. /\ t \in Seq(A) /\ Len(t) = Len(s) + 1 /\ t[Len(t)] = e
      /\ \A i \in 1 .. Len(s) : t[i] = s[i]
  OBVIOUS
<1> HIDE DEF t
<1>2. SelectedUpTo(t, S)[Len(s)] = SelectedUpTo(s, S)[Len(s)]
  BY <1>1, SelectedUpToPrefix
<1>3. SelectedUpTo(t, S)[Len(t)] = IF e \in S THEN Append(SelectedUpTo(t, S)[Len(s)], e)
                                              ELSE SelectedUpTo(t, S)[Len(s)]
  BY <1>1, SelectedUpToStep
<1> QED
  BY <1>2, <1>3 DEF Selected, t

\* From a single element.
LEMMA SelectedOne ==
    ASSUME NEW A, NEW e \in A, NEW S
    PROVE  Selected(<<e>>, S) = IF e \in S THEN <<e>> ELSE << >>
<1>1. << >> \in Seq(A) /\ <<e>> = Append(<< >>, e)
  OBVIOUS
<1>2. Selected(Append(<< >>, e), S) = IF e \in S THEN Append(Selected(<< >>, S), e)
                                                 ELSE Selected(<< >>, S)
  BY <1>1, SelectedAppend
<1>3. Selected(<< >>, S) = << >>
  BY SelectedEmpty
<1> QED
  BY <1>1, <1>2, <1>3

\* A sequence with one element more.
LEMMA AppendIs ==
    ASSUME NEW A, NEW s \in Seq(A), NEW e \in A, NEW t \in Seq(A), Len(t) = Len(s) + 1,
           \A k \in 1 .. Len(s) : t[k] = s[k], t[Len(s) + 1] = e
    PROVE  t = Append(s, e)
<1> DEFINE u == Append(s, e)
<1>1. /\ u \in Seq(A) /\ Len(u) = Len(s) + 1 /\ Len(s) \in Nat
      /\ \A k \in 1 .. Len(s) : u[k] = s[k]
      /\ u[Len(s) + 1] = e
  OBVIOUS
<1> HIDE DEF u
<1>2. ASSUME NEW k \in 1 .. Len(s) + 1 PROVE t[k] = u[k]
  <2>1. k \in 1 .. Len(s) \/ k = Len(s) + 1
    BY <1>1
  <2> QED
    BY <1>1, <2>1
<1>3. t = u
  BY <1>1, <1>2, SeqEqual
<1> QED
  BY <1>3 DEF u

\* The first k elements.
Prefix(s, k) == [i \in 1 .. k |-> s[i]]

\* Prefixes grow from nothing to the whole sequence, one element at a time.
LEMMA PrefixGrows ==
    ASSUME NEW A, NEW s \in Seq(A)
    PROVE  /\ Prefix(s, 0) = << >> /\ Prefix(s, Len(s)) = s
           /\ \A k \in 0 .. Len(s) : Prefix(s, k) \in Seq(A) /\ Len(Prefix(s, k)) = k
           /\ \A k \in 1 .. Len(s) : Prefix(s, k) = Append(Prefix(s, k - 1), s[k])
<1>1. \A k \in 0 .. Len(s) : Prefix(s, k) \in Seq(A) /\ Len(Prefix(s, k)) = k
  BY DEF Prefix
<1>2. Prefix(s, Len(s)) = s
  BY DEF Prefix
<1>3. Prefix(s, 0) = << >>
  <2>1. Len(Prefix(s, 0)) = 0 /\ Prefix(s, 0) \in Seq(A)
    BY <1>1
  <2> QED
    BY <2>1, EmptySeq
<1>4. ASSUME NEW k \in 1 .. Len(s) PROVE Prefix(s, k) = Append(Prefix(s, k - 1), s[k])
  <2> DEFINE p == Prefix(s, k)
             q == Append(Prefix(s, k - 1), s[k])
  <2>1. k - 1 \in 0 .. Len(s) /\ k \in 0 .. Len(s) /\ s[k] \in A /\ (k - 1) + 1 = k
    OBVIOUS
  <2>2. p \in Seq(A) /\ Len(p) = k /\ \A i \in 1 .. k : p[i] = s[i]
    BY <1>1, <2>1 DEF Prefix
  <2>3. Prefix(s, k - 1) \in Seq(A) /\ Len(Prefix(s, k - 1)) = k - 1
    BY <1>1, <2>1
  <2>4. q \in Seq(A) /\ Len(q) = k /\ q[k] = s[k]
    BY <2>1, <2>3
  <2>5. \A i \in 1 .. k - 1 : q[i] = s[i]
    BY <2>1, <2>3 DEF Prefix
  <2>6. \A i \in 1 .. k : p[i] = q[i]
    BY <2>1, <2>2, <2>4, <2>5
  <2> HIDE DEF p, q
  <2>7. p = q
    BY <2>2, <2>4, <2>6, SeqEqual
  <2> QED
    BY <2>7 DEF p, q
<1> QED
  BY <1>1, <1>2, <1>3, <1>4

\* Appending to a concatenation is appending to its second part.
LEMMA AppendToConcat ==
    ASSUME NEW A, NEW s \in Seq(A), NEW t \in Seq(A), NEW e \in A,
           NEW u, u = Append(t, e)
    PROVE  Append(s \o t, e) = s \o u
<1> DEFINE whole == Append(s \o t, e)
           more  == Append(t, e)
           parts == s \o more
<1>1. /\ s \o t \in Seq(A) /\ Len(s \o t) = Len(s) + Len(t)
      /\ \A i \in 1 .. Len(s) + Len(t) :
            (s \o t)[i] = IF i <= Len(s) THEN s[i] ELSE t[i - Len(s)]
  BY ConcatProperties
<1>2. /\ whole \in Seq(A) /\ Len(whole) = Len(s) + Len(t) + 1
      /\ \A i \in 1 .. Len(s) + Len(t) : whole[i] = (s \o t)[i]
      /\ whole[Len(s) + Len(t) + 1] = e
  BY <1>1
<1>3. /\ more \in Seq(A) /\ Len(more) = Len(t) + 1
      /\ \A i \in 1 .. Len(t) : more[i] = t[i]
      /\ more[Len(t) + 1] = e
  OBVIOUS
<1> HIDE DEF more
<1>4. /\ parts \in Seq(A) /\ Len(parts) = Len(s) + Len(t) + 1
      /\ \A i \in 1 .. Len(s) + Len(t) + 1 :
            parts[i] = IF i <= Len(s) THEN s[i] ELSE more[i - Len(s)]
  <2>1. /\ parts \in Seq(A) /\ Len(parts) = Len(s) + Len(more)
        /\ \A i \in 1 .. Len(s) + Len(more) :
              parts[i] = IF i <= Len(s) THEN s[i] ELSE more[i - Len(s)]
    BY <1>3, ConcatProperties
  <2> QED
    BY <1>3, <2>1
<1>5. Len(s) \in Nat /\ Len(t) \in Nat
  OBVIOUS
<1> HIDE DEF whole, parts
<1>6. \A i \in 1 .. Len(s) + Len(t) + 1 : whole[i] = parts[i]
  <2> SUFFICES ASSUME NEW i \in 1 .. Len(s) + Len(t) + 1 PROVE whole[i] = parts[i]
    OBVIOUS
  <2>1. CASE i <= Len(s)
    <3>1. i \in 1 .. Len(s) + Len(t)
      BY <1>5, <2>1
    <3>2. whole[i] = s[i]
      BY <1>1, <1>2, <2>1, <3>1
    <3>3. parts[i] = s[i]
      BY <1>4, <2>1
    <3> QED
      BY <3>2, <3>3
  <2>2. CASE i = Len(s) + Len(t) + 1
    <3>1. i - Len(s) = Len(t) + 1 /\ ~(i <= Len(s))
      BY <1>5, <2>2
    <3>2. parts[i] = more[Len(t) + 1]
      BY <1>4, <3>1
    <3> QED
      BY <1>2, <1>3, <2>2, <3>2, Zenon
  <2>3. CASE Len(s) < i /\ i < Len(s) + Len(t) + 1
    <3> DEFINE j == i - Len(s)
    <3>1. j \in 1 .. Len(t) /\ i \in 1 .. Len(s) + Len(t) /\ ~(i <= Len(s))
      BY <1>5, <2>3
    <3>2. parts[i] = more[j]
      BY <1>4, <3>1
    <3>3. whole[i] = t[j]
      BY <1>1, <1>2, <3>1
    <3>4. more[j] = t[j]
      BY <1>3, <3>1, Zenon
    <3> QED
      BY <3>2, <3>3, <3>4, Zenon
  <2>4. \/ i <= Len(s)
        \/ i = Len(s) + Len(t) + 1
        \/ Len(s) < i /\ i < Len(s) + Len(t) + 1
    BY <1>5
  <2> QED
    BY <2>1, <2>2, <2>3, <2>4, Zenon
<1>7. whole = parts
  BY <1>2, <1>4, <1>6, SeqEqual
<1> QED
  BY <1>7 DEF whole, parts, more

\* From a concatenation is selected what is selected from its parts.
LEMMA SelectedConcat ==
    ASSUME NEW A, NEW s \in Seq(A), NEW t \in Seq(A), NEW S
    PROVE  Selected(s \o t, S) = Selected(s, S) \o Selected(t, S)
<1> DEFINE Claim(p) == Selected(s \o p, S) = Selected(s, S) \o Selected(p, S)
           N == Len(t)
           T == {n \in 0 .. N : Claim(Prefix(t, n))}
<1>1. N \in Nat
  OBVIOUS
<1>2. ASSUME NEW p \in Seq(A), NEW e \in A, Claim(p)
      PROVE  Claim(Append(p, e))
  <2> DEFINE b == Selected(s, S)
             c == Selected(p, S)
             d == Selected(Append(p, e), S)
             w == s \o p
  <2>1. b \in Seq(A \cap S) /\ c \in Seq(A \cap S)
    BY SelectedType
  <2>2. w \in Seq(A)
    BY ConcatProperties
  <2>3. Append(w, e) = s \o Append(p, e)
    <3> DEFINE u == Append(p, e)
    <3>1. u = Append(p, e)
      OBVIOUS
    <3> HIDE DEF u
    <3>2. Append(s \o p, e) = s \o u
      BY <3>1, AppendToConcat
    <3> QED BY <3>2, Zenon DEF u
  <2>4. Selected(Append(w, e), S) = IF e \in S THEN Append(Selected(w, S), e) ELSE Selected(w, S)
    <3> HIDE DEF w
    <3> QED BY <2>2, SelectedAppend
  <2>5. d = IF e \in S THEN Append(c, e) ELSE c
    BY SelectedAppend
  <2>6. Selected(w, S) = b \o c
    BY <1>2
  <2> HIDE DEF b, c, d, w
  <2>7. Selected(Append(w, e), S) = b \o d
    <3>1. CASE e \in S
      <4>1. d = Append(c, e)
        BY <2>5, <3>1
      <4>2. Append(b \o c, e) = b \o d
        <5>1. e \in A \cap S
          BY <3>1
        <5>2. Append(b \o c, e) = b \o Append(c, e)
          BY <2>1, <5>1, AppendToConcat
        <5> QED BY <4>1, <5>2, Zenon
      <4> QED BY <2>4, <2>6, <3>1, <4>2
    <3>2. CASE e \notin S
      BY <2>4, <2>5, <2>6, <3>2
    <3> QED BY <3>1, <3>2
  <2> QED
    BY <2>3, <2>7 DEF b, d
<1>3. 0 \in T
  <2>1. Prefix(t, 0) = << >>
    BY PrefixGrows
  <2>2. s \o << >> = s /\ Selected(<< >>, S) = << >>
    BY SelectedEmpty, ConcatEmptySeq
  <2>3. Selected(s, S) \o << >> = Selected(s, S)
    <3> DEFINE b == Selected(s, S)
    <3>1. b \in Seq(A \cap S)
      BY SelectedType
    <3> HIDE DEF b
    <3>2. b \o << >> = b
      BY <3>1, ConcatEmptySeq
    <3> QED BY <3>2 DEF b
  <2>4. Claim(Prefix(t, 0))
    BY <2>1, <2>2, <2>3, Zenon
  <2> HIDE DEF Claim
  <2> QED
    BY <1>1, <2>4
<1>4. ASSUME NEW n \in 0 .. (N - 1), n \in T
      PROVE  n + 1 \in T
  <2>1. n + 1 \in 1 .. N /\ n \in 0 .. N /\ (n + 1) - 1 = n /\ t[n + 1] \in A
    BY <1>1
  <2>2. Prefix(t, n + 1) = Append(Prefix(t, n), t[n + 1]) /\ Prefix(t, n) \in Seq(A)
    BY <2>1, PrefixGrows
  <2>3. Claim(Prefix(t, n))
    BY <1>4
  <2> HIDE DEF Claim
  <2>4. Claim(Append(Prefix(t, n), t[n + 1]))
    BY <1>2, <2>1, <2>2, <2>3
  <2>5. Claim(Prefix(t, n + 1))
    BY <2>2, <2>4, Zenon
  <2>6. n + 1 \in 0 .. N
    BY <1>1
  <2> QED
    BY <2>5, <2>6
<1>5. N \in T
  <2> HIDE DEF T, N
  <2>1. \A n \in 0 .. N : n \in T
    BY <1>1, <1>3, <1>4, Induction
  <2> QED BY <1>1, <2>1
<1>6. Prefix(t, Len(t)) = t
  BY PrefixGrows
<1> QED
  BY <1>5, <1>6

\* An element moves from the front of what follows to the end of what precedes.
LEMMA MoveToFirst ==
    ASSUME NEW A, NEW s \in Seq(A), NEW e \in A, NEW t \in Seq(A)
    PROVE  Append(s, e) \o t = s \o (<<e>> \o t)
<1> DEFINE one == <<e>>
<1>1. one \in Seq(A) /\ Append(s, e) = s \o one
  BY AppendIsConcat
<1> HIDE DEF one
<1>2. (s \o one) \o t = s \o (one \o t)
  BY <1>1, ConcatAssociative
<1> QED
  BY <1>1, <1>2 DEF one

\* The elements of a sequence that got a new first one.
LEMMA NewFirst ==
    ASSUME NEW A, NEW e \in A, NEW t \in Seq(A)
    PROVE  /\ <<e>> \o t \in Seq(A) /\ Len(<<e>> \o t) = Len(t) + 1
           /\ (<<e>> \o t)[1] = e
           /\ \A k \in 1 .. Len(t) : (<<e>> \o t)[k + 1] = t[k]
<1> DEFINE one == <<e>>
<1>1. one \in Seq(A) /\ Len(one) = 1 /\ one[1] = e
  OBVIOUS
<1>2. Len(t) \in Nat
  OBVIOUS
<1> HIDE DEF one
<1>3. /\ one \o t \in Seq(A) /\ Len(one \o t) = Len(one) + Len(t)
      /\ \A i \in 1 .. Len(one) + Len(t) :
             (one \o t)[i] = IF i <= Len(one) THEN one[i] ELSE t[i - Len(one)]
  BY <1>1, ConcatProperties
<1>4. (one \o t)[1] = e
  BY <1>1, <1>2, <1>3
<1>5. ASSUME NEW k \in 1 .. Len(t) PROVE (one \o t)[k + 1] = t[k]
  <2>1. (one \o t)[k + 1] = IF k + 1 <= 1 THEN one[k + 1] ELSE t[(k + 1) - 1]
    BY <1>1, <1>2, <1>3
  <2>2. (k + 1) - 1 = k /\ ~ (k + 1 <= 1)
    BY <1>2
  <2> QED
    BY <2>1, <2>2
<1> QED
  BY <1>1, <1>2, <1>3, <1>4, <1>5 DEF one

\* A sequence is its head and then its tail.
LEMMA HeadThenTail ==
    ASSUME NEW A, NEW s \in Seq(A), s # << >>
    PROVE  s = <<Head(s)>> \o Tail(s)
<1>1. /\ Len(s) \in Nat \ {0} /\ s = SubSeq(s, 1, Len(s))
      /\ Tail(s) = SubSeq(s, 2, Len(s)) /\ Head(s) = s[1]
  BY EmptySeq, SubSeqFull, TailIsSubSeq
<1>2. SubSeq(s, 1, Len(s)) = <<s[1]>> \o SubSeq(s, 1 + 1, Len(s))
  BY <1>1, SubSeqRecursiveFirst
<1> QED
  BY <1>1, <1>2

\* The head comes first in what is selected.
LEMMA SelectedTail ==
    ASSUME NEW A, NEW s \in Seq(A), s # << >>, NEW S
    PROVE  Selected(s, S) = (IF Head(s) \in S THEN <<Head(s)>> ELSE << >>)
                                \o Selected(Tail(s), S)
<1> DEFINE rest == Tail(s)
           front == IF Head(s) \in S THEN <<Head(s)>> ELSE << >>
           f == SelectedUpTo(s, S)
           g == SelectedUpTo(rest, S)
           T == {n \in 0 .. Len(rest) : f[n + 1] = front \o g[n]}
<1>1. /\ rest \in Seq(A) /\ Len(s) = Len(rest) + 1 /\ s[1] = Head(s) /\ Head(s) \in A
      /\ \A i \in 1 .. Len(rest) : rest[i] = s[i + 1]
  OBVIOUS
<1>2. /\ f[0] = << >>
      /\ \A n \in 1 .. Len(s) : f[n] = IF s[n] \in S THEN Append(f[n - 1], s[n]) ELSE f[n - 1]
  BY SelectedUpToStep
<1>3. /\ g[0] = << >>
      /\ \A n \in 1 .. Len(rest) : g[n] = IF rest[n] \in S THEN Append(g[n - 1], rest[n]) ELSE g[n - 1]
  <2>1. Len(rest) \in Nat
    BY <1>1
  <2> HIDE DEF rest
  <2> QED BY <2>1, SelectedUpToStep
<1>4. \A n \in 0 .. Len(rest) : g[n] \in Seq(A)
  <2>1. \A n \in 0 .. Len(rest) : g[n] \in Seq(A \cap S)
    BY <1>1, SelectedUpToType
  <2> QED
    BY <2>1, SeqMonotonic
<1>5. front \in Seq(A)
  BY <1>1
<1>11. front = IF s[1] \in S THEN <<s[1]>> ELSE << >>
  BY <1>1
<1> HIDE DEF f, g, rest, front
<1>6. 0 \in T
  <2>1. f[1] = IF s[1] \in S THEN Append(f[0], s[1]) ELSE f[0]
    <3>1. 1 \in 1 .. Len(s) /\ 1 - 1 = 0
      BY <1>1
    <3> QED BY <1>2, <3>1
  <2>2. f[1] = front
    BY <1>2, <2>1, <1>11
  <2> QED
    BY <1>1, <1>3, <1>5, <2>2
<1>7. ASSUME NEW n \in 0 .. (Len(rest) - 1), n \in T PROVE n + 1 \in T
  <2>1. /\ n + 1 \in 1 .. Len(rest) /\ n + 2 \in 1 .. Len(s) /\ rest[n + 1] = s[n + 2]
        /\ n + 1 \in 0 .. Len(rest) /\ rest[n + 1] \in A
    BY <1>1
  <2>2. f[n + 2] = IF rest[n + 1] \in S THEN Append(f[n + 1], rest[n + 1]) ELSE f[n + 1]
    BY <1>2, <2>1
  <2>3. g[n + 1] = IF rest[n + 1] \in S THEN Append(g[n], rest[n + 1]) ELSE g[n]
    BY <1>3, <2>1
  <2>4. g[n] \in Seq(A)
    BY <1>4, <2>1
  <2>5. f[n + 1] = front \o g[n]
    BY <1>7
  <2>6. Append(front \o g[n], rest[n + 1]) = front \o Append(g[n], rest[n + 1])
    <3> DEFINE gn == g[n]
               elt == rest[n + 1]
    <3>1. gn \in Seq(A) /\ elt \in A
      BY <2>1, <2>4
    <3> HIDE DEF gn, elt
    <3>2. Append(front \o gn, elt) = front \o Append(gn, elt)
      BY <1>5, <3>1, AppendToConcat
    <3> QED BY <3>2 DEF gn, elt
  <2>7. f[n + 2] = front \o g[n + 1]
    BY <2>2, <2>3, <2>5, <2>6
  <2> QED
    BY <2>7, <2>1
<1>8. \A n \in 0 .. Len(rest) : n \in T
  <2>1. Len(rest) \in Nat
    BY <1>1
  <2> HIDE DEF T
  <2> QED BY <1>6, <1>7, <2>1, Induction
<1>9. f[Len(s)] = front \o g[Len(rest)]
  BY <1>1, <1>8
<1> QED
  BY <1>9 DEF Selected, f, g, rest, front

----------------------------------------------------------------------------
\* What was put together can be taken apart.
LEMMA ConcatRest ==
    ASSUME NEW A, NEW s \in Seq(A), NEW t \in Seq(A)
    PROVE  SubSeq(s \o t, Len(s) + 1, Len(s \o t)) = t
<1> DEFINE u == s \o t
           r == SubSeq(u, Len(s) + 1, Len(u))
<1>1. /\ u \in Seq(A) /\ Len(u) = Len(s) + Len(t) /\ Len(s) \in Nat /\ Len(t) \in Nat
      /\ \A i \in 1 .. Len(s) + Len(t) : u[i] = IF i <= Len(s) THEN s[i] ELSE t[i - Len(s)]
  BY ConcatProperties, LenProperties
<1> HIDE DEF u
<1>2. \A i \in Len(s) + 1 .. Len(u) : u[i] \in A
  BY <1>1, ElementOfSeq
<1>3. /\ r \in Seq(A) /\ Len(r) = Len(t)
      /\ \A i \in 1 .. Len(t) : r[i] = u[Len(s) + i]
  <2>1. /\ Len(s) + 1 \in Int /\ Len(u) \in Int
        /\ (IF Len(s) + 1 <= Len(u) THEN Len(u) - (Len(s) + 1) + 1 ELSE 0) = Len(t)
        /\ Len(u) - (Len(s) + 1) + 1 = Len(t)
        /\ \A i \in 1 .. Len(t) : (Len(s) + 1) + i - 1 = Len(s) + i
    BY <1>1
  <2> QED
    BY <1>2, <2>1, SubSeqProperties
<1> HIDE DEF r
<1>4. ASSUME NEW i \in 1 .. Len(t) PROVE r[i] = t[i]
  <2>1. Len(s) + i \in 1 .. Len(s) + Len(t) /\ ~ (Len(s) + i <= Len(s))
        /\ (Len(s) + i) - Len(s) = i
    BY <1>1
  <2> QED
    BY <1>1, <1>3, <2>1
<1>5. r = t
  BY <1>3, <1>4, SeqEqual
<1> QED
  BY <1>5 DEF r, u

\* The first part of a concatenation, ...
LEMMA ConcatFirst ==
    ASSUME NEW A, NEW s \in Seq(A), NEW t \in Seq(A)
    PROVE  SubSeq(s \o t, 1, Len(s)) = s
<1> DEFINE u == s \o t
           r == SubSeq(u, 1, Len(s))
<1>1. /\ u \in Seq(A) /\ Len(u) = Len(s) + Len(t) /\ Len(s) \in Nat /\ Len(t) \in Nat
      /\ \A i \in 1 .. Len(s) + Len(t) : u[i] = IF i <= Len(s) THEN s[i] ELSE t[i - Len(s)]
  BY ConcatProperties, LenProperties
<1> HIDE DEF u
<1>2. \A i \in 1 .. Len(s) : u[i] \in A /\ u[i] = s[i]
  BY <1>1, ElementOfSeq
<1>3. /\ r \in Seq(A) /\ Len(r) = Len(s)
      /\ \A i \in 1 .. Len(s) : r[i] = u[i]
  <2>1. /\ 1 \in Int /\ Len(s) \in Int
        /\ (IF 1 <= Len(s) THEN Len(s) - 1 + 1 ELSE 0) = Len(s)
        /\ Len(s) - 1 + 1 = Len(s) /\ \A i \in 1 .. Len(s) : 1 + i - 1 = i
    BY <1>1
  <2> QED
    BY <1>2, <2>1, SubSeqProperties
<1> HIDE DEF r
<1>4. r = s
  BY <1>2, <1>3, SeqEqual
<1> QED
  BY <1>4 DEF r, u

\* ... and the middle one of three.
LEMMA ConcatMiddle ==
    ASSUME NEW A, NEW p \in Seq(A), NEW s \in Seq(A), NEW t \in Seq(A)
    PROVE  SubSeq((p \o s) \o t, Len(p) + 1, Len(p) + Len(s)) = s
<1> DEFINE ps == p \o s
           u == ps \o t
           r == SubSeq(u, Len(p) + 1, Len(p) + Len(s))
<1>1. /\ ps \in Seq(A) /\ Len(ps) = Len(p) + Len(s)
      /\ \A i \in 1 .. Len(p) + Len(s) : ps[i] = IF i <= Len(p) THEN p[i] ELSE s[i - Len(p)]
      /\ Len(p) \in Nat /\ Len(s) \in Nat /\ Len(t) \in Nat
  BY ConcatProperties, LenProperties
<1> HIDE DEF ps
<1>2. /\ u \in Seq(A) /\ Len(u) = Len(ps) + Len(t)
      /\ \A i \in 1 .. Len(ps) + Len(t) : u[i] = IF i <= Len(ps) THEN ps[i] ELSE t[i - Len(ps)]
  <2>1. ps \in Seq(A)
    BY <1>1
  <2> QED
    BY <2>1, ConcatProperties
<1> HIDE DEF u
<1>3. ASSUME NEW i \in 1 .. Len(s) PROVE u[Len(p) + i] = s[i]
  <2>1. /\ Len(p) + i \in 1 .. Len(p) + Len(s) /\ Len(p) + i \in 1 .. Len(ps) + Len(t)
        /\ Len(p) + i <= Len(ps) /\ ~ (Len(p) + i <= Len(p)) /\ (Len(p) + i) - Len(p) = i
    BY <1>1
  <2> QED
    BY <1>1, <1>2, <2>1
<1>4. \A i \in Len(p) + 1 .. Len(p) + Len(s) : u[i] \in A
  <2>1. \A i \in Len(p) + 1 .. Len(p) + Len(s) : i \in 1 .. Len(u)
    BY <1>1, <1>2
  <2> QED
    BY <1>2, <2>1, ElementOfSeq
<1>5. /\ r \in Seq(A) /\ Len(r) = Len(s)
      /\ \A i \in 1 .. Len(s) : r[i] = u[Len(p) + i]
  <2>1. /\ Len(p) + 1 \in Int /\ Len(p) + Len(s) \in Int
        /\ (IF Len(p) + 1 <= Len(p) + Len(s)
            THEN (Len(p) + Len(s)) - (Len(p) + 1) + 1 ELSE 0) = Len(s)
        /\ (Len(p) + Len(s)) - (Len(p) + 1) + 1 = Len(s)
        /\ \A i \in 1 .. Len(s) : (Len(p) + 1) + i - 1 = Len(p) + i
    BY <1>1
  <2> QED
    BY <1>4, <2>1, SubSeqProperties
<1> HIDE DEF r
<1>6. r = s
  BY <1>3, <1>5, SeqEqual
<1> QED
  BY <1>6 DEF r, u, ps

\* Short tuples: none is empty, and what their concatenations are.
LEMMA ShortTuples ==
    ASSUME NEW a, NEW b
    PROVE  /\ <<a>> # << >> /\ <<a, b>> # << >>
           /\ <<a>> \o << >> = <<a>> /\ <<a, b>> \o << >> = <<a, b>>
           /\ <<a>> \o <<b>> = <<a, b>>
<1> DEFINE A == {a, b}
<1>1. <<a>> \in Seq(A) /\ <<b>> \in Seq(A) /\ <<a, b>> \in Seq(A)
  OBVIOUS
<1>2. <<a>> # << >> /\ <<a, b>> # << >>
  <2>1. Len(<<a>>) = 1 /\ Len(<<a, b>>) = 2 /\ Len(<< >>) = 0
    BY EmptySeq
  <2> QED
    BY <2>1
<1>3. <<a>> \o << >> = <<a>> /\ <<a, b>> \o << >> = <<a, b>>
  BY <1>1, ConcatEmptySeq
<1>4. <<a>> \o <<b>> = <<a, b>>
  <2> DEFINE one == <<a>>
             two == <<a, b>>
  <2>1. one \in Seq(A) /\ Len(one) = 1 /\ one[1] = a /\ b \in A
    OBVIOUS
  <2>2. two \in Seq(A) /\ Len(two) = 2 /\ two[1] = a /\ two[2] = b
    OBVIOUS
  <2> HIDE DEF one, two, A
  <2> DEFINE u == Append(one, b)
  <2>3. /\ u \in Seq(A) /\ Len(u) = Len(one) + 1
        /\ \A i \in 1 .. Len(one) : u[i] = one[i]
        /\ u[Len(one) + 1] = b
    <3>1. one \in Seq(A) /\ b \in A
      BY <2>1
    <3> QED
      BY <3>1, AppendProperties
  <2> HIDE DEF u
  <2>4. Len(u) = 2 /\ \A i \in 1 .. 2 : u[i] = two[i]
    <3>1. Len(u) = 2 /\ u[1] = a /\ u[2] = b
      BY <2>1, <2>3
    <3>2. \A i \in 1 .. 2 : i = 1 \/ i = 2
      OBVIOUS
    <3> QED
      BY <2>2, <3>1, <3>2
  <2>5. u = two
    BY <2>2, <2>3, <2>4, SeqEqual
  <2>6. Append(one, b) = one \o <<b>>
    BY <2>1, AppendIsConcat
  <2> QED
    BY <2>5, <2>6 DEF one, two, u
<1> QED
  BY <1>2, <1>3, <1>4

----------------------------------------------------------------------------
\* A sequence is put together from its first n elements and the others.
LEMMA SplitAt ==
    ASSUME NEW A, NEW s \in Seq(A), NEW n \in 0 .. Len(s)
    PROVE  /\ SubSeq(s, 1, n) \in Seq(A) /\ Len(SubSeq(s, 1, n)) = n
           /\ SubSeq(s, n + 1, Len(s)) \in Seq(A) /\ Len(SubSeq(s, n + 1, Len(s))) = Len(s) - n
           /\ SubSeq(s, 1, n) \o SubSeq(s, n + 1, Len(s)) = s
<1>1. /\ Len(s) \in Nat /\ 1 \in 1 .. Len(s) + 1 /\ n \in 1 - 1 .. Len(s)
      /\ Len(s) \in n .. Len(s) /\ n \in Nat
  BY LenProperties
<1>2. SubSeq(s, 1, n) \o SubSeq(s, n + 1, Len(s)) = SubSeq(s, 1, Len(s))
  BY <1>1, ConcatAdjacentSubSeq
<1>3. SubSeq(s, 1, Len(s)) = s
  BY SubSeqFull
<1>4. SubSeq(s, 1, n) \in Seq(A) /\ Len(SubSeq(s, 1, n)) = n
  BY <1>1
<1>5. SubSeq(s, n + 1, Len(s)) \in Seq(A) /\ Len(SubSeq(s, n + 1, Len(s))) = Len(s) - n
  BY <1>1
<1> QED
  BY <1>2, <1>3, <1>4, <1>5

\* The last n elements.
Ending(s, n) == SubSeq(s, Len(s) - n + 1, Len(s))

\* One element less of the end, ...
LEMMA EndingTail ==
    ASSUME NEW A, NEW s \in Seq(A), NEW n \in 1 .. Len(s)
    PROVE  /\ Ending(s, n) # << >> /\ Head(Ending(s, n)) = s[Len(s) - n + 1]
           /\ Tail(Ending(s, n)) = Ending(s, n - 1) /\ Len(s) - n + 1 \in 1 .. Len(s)
<1> DEFINE m == Len(s) - n + 1
           l == Len(s)
<1>1. m \in 1 .. l /\ l \in m .. l /\ l - (n - 1) + 1 = m + 1 /\ l \in Nat
  BY LenProperties
<1>2. Head(SubSeq(s, m, l)) = s[m] /\ Tail(SubSeq(s, m, l)) = SubSeq(s, m + 1, l)
  <2> HIDE DEF m
  <2> QED
    BY <1>1, HeadTailOfSubSeq
<1>3. SubSeq(s, m, l) # << >>
  <2> HIDE DEF m
  <2>1. /\ m \in Int /\ l \in Int /\ m <= l /\ \A i \in m .. l : i \in 1 .. Len(s)
    BY <1>1
  <2>2. \A i \in m .. l : s[i] \in A
    BY <2>1, ElementOfSeq
  <2>3. Len(SubSeq(s, m, l)) = IF m <= l THEN l - m + 1 ELSE 0
    BY <2>1, <2>2, SubSeqProperties
  <2>4. Len(SubSeq(s, m, l)) # 0
    BY <1>1, <2>3
  <2> QED
    BY <2>4, EmptySeq
<1> QED
  BY <1>1, <1>2, <1>3 DEF Ending

\* ... and one more where one is appended.
LEMMA EndingAppend ==
    ASSUME NEW A, NEW s \in Seq(A), NEW n \in 0 .. Len(s), NEW e \in A
    PROVE  Ending(Append(s, e), n + 1) = Append(Ending(s, n), e)
<1> DEFINE k == Len(s) - n
           first == SubSeq(s, 1, k)
           end == SubSeq(s, k + 1, Len(s))
           one == <<e>>
           more == end \o one
<1>1. k \in 0 .. Len(s) /\ Len(s) \in Nat /\ n \in Nat
  BY LenProperties
<1>2. /\ first \in Seq(A) /\ Len(first) = k /\ end \in Seq(A) /\ first \o end = s
  <2> HIDE DEF k
  <2> QED
    BY <1>1, SplitAt
<1>3. one \in Seq(A)
  OBVIOUS
<1>4. Append(s, e) = s \o one /\ Append(end, e) = end \o one
  <2> HIDE DEF end
  <2>1. Append(s, e) = s \o <<e>>
    BY AppendIsConcat
  <2>2. Append(end, e) = end \o <<e>>
    BY <1>2, AppendIsConcat
  <2> QED
    BY <2>1, <2>2
<1>5. Ending(s, n) = end
  BY DEF Ending
<1> HIDE DEF first, end, one
<1>6. more \in Seq(A)
  BY <1>2, <1>3, ConcatProperties
<1>7. s \o one = first \o more
  <2>1. first \in Seq(A) /\ end \in Seq(A) /\ one \in Seq(A)
    BY <1>2, <1>3
  <2>2. (first \o end) \o one = first \o (end \o one)
    BY <2>1, ConcatAssociative
  <2> QED
    BY <1>2, <2>2, Zenon
<1> HIDE DEF more
<1>8. SubSeq(first \o more, Len(first) + 1, Len(first \o more)) = more
  BY <1>2, <1>6, ConcatRest
<1>9. Append(s, e) = first \o more
  BY <1>4, <1>7, Zenon
<1>10. Len(Append(s, e)) - (n + 1) + 1 = Len(first) + 1
  <2>1. Len(Append(s, e)) = Len(s) + 1
    BY AppendProperties
  <2> QED
    BY <1>1, <1>2, <2>1
<1>11. Ending(Append(s, e), n + 1) = more
  BY <1>8, <1>9, <1>10 DEF Ending
<1> QED
  BY <1>4, <1>5, <1>11 DEF more

\* The rest behind the first n elements grows with the sequence.
LEMMA RestGrows ==
    ASSUME NEW A, NEW s \in Seq(A), NEW n \in 0 .. Len(s), NEW t \in Seq(A)
    PROVE  SubSeq(s \o t, n + 1, Len(s \o t)) = SubSeq(s, n + 1, Len(s)) \o t
<1> DEFINE first == SubSeq(s, 1, n)
           rest == SubSeq(s, n + 1, Len(s))
           more == rest \o t
<1>1. first \in Seq(A) /\ Len(first) = n /\ rest \in Seq(A) /\ first \o rest = s
  BY SplitAt
<1> HIDE DEF first, rest
<1>2. more \in Seq(A)
  BY <1>1, ConcatProperties
<1>3. s \o t = first \o more
  <2>1. first \in Seq(A) /\ rest \in Seq(A)
    BY <1>1
  <2>2. (first \o rest) \o t = first \o (rest \o t)
    BY <2>1, ConcatAssociative
  <2> QED
    BY <1>1, <2>2, Zenon
<1> HIDE DEF more
<1>4. SubSeq(first \o more, Len(first) + 1, Len(first \o more)) = more
  BY <1>1, <1>2, ConcatRest
<1>5. SubSeq(s \o t, n + 1, Len(s \o t)) = more
  BY <1>1, <1>3, <1>4, Zenon
<1> QED
  BY <1>5 DEF more, rest
=============================================================================
