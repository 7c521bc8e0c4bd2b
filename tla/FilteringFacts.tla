---- MODULE FilteringFacts ----
(***************************************************************************)
(* Induction over the naturals in a form the provers can apply, to a set   *)
(* and not to a predicate; what Kept returns, by induction on the length.  *)
(***************************************************************************)
EXTENDS Filtering, SequencesExt, SequenceTheorems, WellFoundedInduction, TLAPS

\* Less-than on the naturals is a well-founded set of pairs.
LEMMA LessThanIsWellFounded ==
    \E R : /\ IsWellFoundedOn(R, Nat)
           /\ \A m, n \in Nat : <<m, n>> \in R <=> m < n
<1>1. IsWellFoundedOn(OpToRel(<, Nat), Nat)
    BY NatLessThanWellFounded
<1>2. \A m, n \in Nat : <<m, n>> \in OpToRel(<, Nat) <=> m < n
    BY DEF OpToRel
<1> QED
    BY <1>1, <1>2

\* A set of naturals that is not empty has a least element.
LEMMA LeastElement ==
    ASSUME NEW T \in SUBSET Nat, T # {}
    PROVE  \E n \in T : \A m \in T : n <= m
<1>1. PICK R : /\ IsWellFoundedOn(R, Nat)
               /\ \A m, n \in Nat : <<m, n>> \in R <=> m < n
    BY LessThanIsWellFounded
<1>2. IsWellFoundedOn(R, Nat) /\ T \subseteq Nat
    BY <1>1
<1>3. PICK n \in T : \A m \in T : <<m, n>> \notin R
    BY <1>2, WFMin
<1>4. \A m \in T : ~(m < n)
    BY <1>1, <1>3
<1> QED
    BY <1>4

\* A set that has 0 and the successors of its elements has every natural.
LEMMA SetInduction ==
    ASSUME NEW T \in SUBSET Nat, 0 \in T, \A n \in T : n + 1 \in T
    PROVE  T = Nat
<1>1. SUFFICES ASSUME T # Nat PROVE FALSE
    OBVIOUS
<1>2. PICK n \in Nat \ T : \A m \in Nat \ T : n <= m
    BY <1>1, LeastElement
<1>3. n # 0 /\ n - 1 \in Nat
    BY <1>2
<1>4. n - 1 \in T
    BY <1>2, <1>3
<1> QED
    BY <1>2, <1>3, <1>4

\* A place up to n + 1 is n + 1 or a place up to n.
LEMMA BelowNext ==
    \A n \in Nat : \A j \in 1 .. n + 1 : j = n + 1 \/ j \in 1 .. n
OBVIOUS

\* step[n] takes what is in S to what is in S, for each n up to N.
StaysWithin(step, N, S) == \A n \in 1 .. N : \A v \in S : step[n][v] \in S

\* f is base at 0, and step of what precedes after that, up to N.
IsRecursion(f, base, step, N, S) ==
    /\ f = [n \in 0 .. N |-> f[n]]
    /\ \A n \in 0 .. N : f[n] \in S
    /\ f[0] = base /\ \A n \in 1 .. N : f[n] = step[n][f[n - 1]]

\* A recursion over the naturals that stays within a set defines a function.
LEMMA RecursionDefines ==
    ASSUME NEW S, NEW N \in Nat, NEW base \in S, NEW step, StaysWithin(step, N, S)
    PROVE  \E f : IsRecursion(f, base, step, N, S)
<1> DEFINE A == {n \in Nat : n <= N => \E f : IsRecursion(f, base, step, n, S)}
<1>1. 0 \in A
    <2> DEFINE f == [i \in 0 .. 0 |-> base]
    <2>1. IsRecursion(f, base, step, 0, S)
        BY DEF IsRecursion
    <2> QED
        BY <2>1
<1>2. ASSUME NEW n \in A PROVE n + 1 \in A
    <2>1. SUFFICES ASSUME n + 1 <= N PROVE \E f : IsRecursion(f, base, step, n + 1, S)
        OBVIOUS
    <2>2. n \in Nat /\ \E f : IsRecursion(f, base, step, n, S)
        BY <2>1
    <2>3. PICK f : IsRecursion(f, base, step, n, S)
        BY <2>2
    <2> DEFINE next == step[n + 1][f[n]]
               g == [i \in 0 .. n + 1 |-> IF i = n + 1 THEN next ELSE f[i]]
    <2>4. next \in S
        <3>1. n \in 0 .. n /\ n + 1 \in 1 .. N
            BY <2>1, <2>2
        <3> QED
            BY <2>3, <3>1, Zenon DEF IsRecursion, StaysWithin
    <2> HIDE DEF next
    <2>5. g[n + 1] = next /\ \A i \in 0 .. n : g[i] = f[i]
        BY <2>2
    <2>6. g = [i \in 0 .. n + 1 |-> g[i]]
        OBVIOUS
    <2> HIDE DEF g
    <2>7. g[n + 1] = step[n + 1][g[n + 1 - 1]]
        <3>1. n + 1 - 1 = n /\ n \in 0 .. n
            BY <2>2
        <3> QED
            BY <2>5, <3>1, Zenon DEF next
    <2>8. ASSUME NEW i \in 1 .. n + 1 PROVE g[i] = step[i][g[i - 1]]
        <3>1. CASE i = n + 1
            BY <2>7, <3>1
        <3>2. CASE i \in 1 .. n
            <4>1. i \in 0 .. n /\ i - 1 \in 0 .. n
                BY <2>2, <3>2
            <4>2. f[i] = step[i][f[i - 1]]
                BY <2>3, <3>2, Zenon DEF IsRecursion
            <4> QED
                BY <2>5, <4>1, <4>2
        <3> QED
            BY <2>2, <3>1, <3>2
    <2>9. ASSUME NEW i \in 0 .. n + 1 PROVE g[i] \in S
        <3>1. CASE i = n + 1
            BY <2>4, <2>5, <3>1
        <3>2. CASE i \in 0 .. n
            BY <2>3, <2>5, <3>2, Zenon DEF IsRecursion
        <3> QED
            BY <2>2, <3>1, <3>2
    <2>10. g[0] = base
        <3>1. 0 \in 0 .. n
            BY <2>2
        <3> QED
            BY <2>3, <2>5, <3>1, Zenon DEF IsRecursion
    <2> QED
        BY <2>6, <2>8, <2>9, <2>10, Zenon DEF IsRecursion
<1>3. A = Nat
    <2> HIDE DEF A
    <2>1. A \in SUBSET Nat
        BY DEF A
    <2> QED
        BY <1>1, <1>2, <2>1, SetInduction
<1> QED
    BY <1>3

----------------------------------------------------------------------------

\* What one more element adds to what is kept of those before it.
KeptOfNext(before, s, T, n) ==
    IF s[n] \in T THEN Append(before, s[n]) ELSE before

\* k is what Kept's recursion computes for the first m elements.
IsKept(k, s, T, m) ==
    k = [n \in 0 .. m |-> IF n = 0 THEN <<>> ELSE KeptOfNext(k[n - 1], s, T, n)]

\* The recursion of Kept defines a function.
LEMMA KeptIsDefined ==
    ASSUME NEW s, NEW T, NEW m \in Nat
    PROVE  \E k : IsKept(k, s, T, m)
<1> DEFINE A == {n \in Nat : \E k : IsKept(k, s, T, n)}
<1>1. 0 \in A
    <2>1. IsKept([n \in 0 .. 0 |-> <<>>], s, T, 0)
        BY DEF IsKept
    <2> QED
        BY <2>1
<1>2. ASSUME NEW n \in A PROVE n + 1 \in A
    <2>1. PICK k : IsKept(k, s, T, n)
        OBVIOUS
    <2> DEFINE l == [i \in 0 .. n + 1 |-> IF i = n + 1 THEN KeptOfNext(k[n], s, T, n + 1)
                                          ELSE k[i]]
    <2>2. \A i \in 0 .. n : l[i] = k[i]
        OBVIOUS
    <2>3. ASSUME NEW i \in 0 .. n + 1
          PROVE  l[i] = IF i = 0 THEN <<>> ELSE KeptOfNext(l[i - 1], s, T, i)
        <3>1. CASE i = n + 1
            BY <2>2, <3>1
        <3>2. CASE i \in 1 .. n
            <4>1. k[i] = KeptOfNext(k[i - 1], s, T, i)
                BY <2>1, <3>2 DEF IsKept
            <4> QED
                BY <2>2, <3>2, <4>1
        <3>3. CASE i = 0
            BY <2>1, <2>2, <3>3 DEF IsKept
        <3> QED
            BY <3>1, <3>2, <3>3
    <2>4. IsKept(l, s, T, n + 1)
        <3> HIDE DEF l
        <3>1. l = [i \in 0 .. n + 1 |-> l[i]]
            BY DEF l
        <3> QED
            BY <2>3, <3>1 DEF IsKept
    <2> QED
        BY <2>4
<1>3. A = Nat
    <2> HIDE DEF A
    <2>1. A \in SUBSET Nat
        BY DEF A
    <2> QED
        BY <1>1, <1>2, <2>1, SetInduction
<1> QED
    BY <1>3

\* r is what T has of the first n elements of s, each once and in their order: at says
\* where its elements come from.
Picks(at, r, s, T, n) ==
    /\ at \in [1 .. Len(r) -> 1 .. n]
    /\ \A j \in 1 .. Len(r) : r[j] = s[at[j]] /\ s[at[j]] \in T
    /\ \A i, j \in 1 .. Len(r) : i < j => at[i] < at[j]
    /\ \A i \in 1 .. n : s[i] \in T => \E j \in 1 .. Len(r) : at[j] = i

\* Nothing is picked of nothing.
LEMMA PicksOfNone ==
    ASSUME NEW S, NEW s \in Seq(S), NEW T
    PROVE  <<>> \in Seq(S) /\ Picks(<<>>, <<>>, s, T, 0)
BY DEF Picks

\* What one more element adds is picked, too.
LEMMA PicksOfNext ==
    ASSUME NEW S, NEW s \in Seq(S), NEW T, NEW n \in Nat, n + 1 <= Len(s),
           NEW r \in Seq(S), NEW at, Picks(at, r, s, T, n)
    PROVE  /\ KeptOfNext(r, s, T, n + 1) \in Seq(S)
           /\ \E to : Picks(to, KeptOfNext(r, s, T, n + 1), s, T, n + 1)
<1> /\ at \in [1 .. Len(r) -> 1 .. n]
    /\ \A j \in 1 .. Len(r) : r[j] = s[at[j]] /\ s[at[j]] \in T
    /\ \A i, j \in 1 .. Len(r) : i < j => at[i] < at[j]
    /\ \A i \in 1 .. n : s[i] \in T => \E j \in 1 .. Len(r) : at[j] = i
    BY DEF Picks
<1> s[n + 1] \in S /\ Len(r) \in Nat
    BY ElementOfSeq, LenProperties
<1>1. CASE s[n + 1] \notin T
    <2>1. KeptOfNext(r, s, T, n + 1) = r
        BY <1>1 DEF KeptOfNext
    <2>2. at \in [1 .. Len(r) -> 1 .. n + 1]
        OBVIOUS
    <2>3. \A i \in 1 .. n + 1 : s[i] \in T => i \in 1 .. n
        BY <1>1
    <2>4. Picks(at, r, s, T, n + 1)
        BY <2>2, <2>3 DEF Picks
    <2> QED
        BY <2>1, <2>4
<1>2. CASE s[n + 1] \in T
    <2> DEFINE q == Append(r, s[n + 1])
                to == [j \in 1 .. Len(r) + 1 |-> IF j = Len(r) + 1 THEN n + 1 ELSE at[j]]
    <2>1. KeptOfNext(r, s, T, n + 1) = q
        BY <1>2 DEF KeptOfNext
    <2>2. /\ q \in Seq(S) /\ Len(q) = Len(r) + 1
          /\ \A i \in 1 .. Len(r) : q[i] = r[i]
          /\ q[Len(r) + 1] = s[n + 1]
        BY AppendProperties
    <2>3. /\ to \in [1 .. Len(r) + 1 -> 1 .. n + 1]
          /\ \A j \in 1 .. Len(r) : to[j] = at[j] /\ at[j] \in 1 .. n
          /\ to[Len(r) + 1] = n + 1
        <3> HIDE DEF q, to
        <3>1. \A j \in 1 .. Len(r) : at[j] \in 1 .. n
            BY at \in [1 .. Len(r) -> 1 .. n], Zenon
        <3>2. \A j \in 1 .. Len(r) + 1 : j # Len(r) + 1 => j \in 1 .. Len(r)
            BY BelowNext, Zenon
        <3>3. \A j \in 1 .. Len(r) + 1 : (IF j = Len(r) + 1 THEN n + 1 ELSE at[j]) \in 1 .. n + 1
            BY <3>1, <3>2
        <3>4. to \in [1 .. Len(r) + 1 -> 1 .. n + 1]
            BY <3>3, Zenon DEF to
        <3>5. to[Len(r) + 1] = n + 1
            BY DEF to
        <3>6. \A j \in 1 .. Len(r) : to[j] = at[j]
            BY DEF to
        <3> QED
            BY <3>1, <3>4, <3>5, <3>6
    <2> HIDE DEF q, to
    <2>4. \A j \in 1 .. Len(r) + 1 : q[j] = s[to[j]] /\ s[to[j]] \in T
        <3> TAKE j \in 1 .. Len(r) + 1
        <3>1. CASE j = Len(r) + 1
            BY <1>2, <2>2, <2>3, <3>1
        <3>2. CASE j \in 1 .. Len(r)
            BY <2>2, <2>3, <3>2
        <3>3. j = Len(r) + 1 \/ j \in 1 .. Len(r)
            BY BelowNext, Zenon
        <3> QED
            BY <3>1, <3>2, <3>3, Zenon
    <2>5. \A i, j \in 1 .. Len(r) + 1 : i < j => to[i] < to[j]
        <3> TAKE i, j \in 1 .. Len(r) + 1
        <3>1. CASE j = Len(r) + 1
            BY <2>3, <3>1
        <3>2. CASE j \in 1 .. Len(r)
            <4>1. SUFFICES ASSUME i < j PROVE to[i] < to[j]
                OBVIOUS
            <4>2. i \in 1 .. Len(r)
                BY <3>2, <4>1
            <4>3. at[i] < at[j]
                BY <3>2, <4>1, <4>2
            <4>4. to[i] = at[i] /\ to[j] = at[j]
                BY <2>3, <3>2, <4>2
            <4> QED
                BY <4>3, <4>4
        <3>3. j = Len(r) + 1 \/ j \in 1 .. Len(r)
            BY BelowNext, Zenon
        <3> QED
            BY <3>1, <3>2, <3>3, Zenon
    <2>6. \A i \in 1 .. n + 1 : s[i] \in T => \E j \in 1 .. Len(r) + 1 : to[j] = i
        <3> TAKE i \in 1 .. n + 1
        <3>1. CASE i = n + 1
            BY <2>3, <3>1
        <3>2. CASE i \in 1 .. n
            BY <2>3, <3>2
        <3>3. i = n + 1 \/ i \in 1 .. n
            BY BelowNext, Zenon
        <3> QED
            BY <3>1, <3>2, <3>3, Zenon
    <2>7. Picks(to, q, s, T, n + 1)
        BY <2>2, <2>3, <2>4, <2>5, <2>6 DEF Picks
    <2> QED
        BY <2>1, <2>2, <2>7
<1> QED
    BY <1>1, <1>2

\* What is kept of a sequence is a sequence that picks, in order, what T has of it.
LEMMA KeptPicks ==
    ASSUME NEW S, NEW s \in Seq(S), NEW T
    PROVE  /\ Kept(s, T) \in Seq(S)
           /\ \E at : Picks(at, Kept(s, T), s, T, Len(s))
<1> Len(s) \in Nat
    BY LenProperties
<1> DEFINE k == CHOOSE k : IsKept(k, s, T, Len(s))
<1>1. IsKept(k, s, T, Len(s))
    BY KeptIsDefined
<1>2. Kept(s, T) = k[Len(s)]
    BY DEF Kept, IsKept, KeptOfNext
<1> HIDE DEF k
<1> DEFINE A == {n \in Nat : n <= Len(s) => /\ k[n] \in Seq(S)
                                            /\ \E at : Picks(at, k[n], s, T, n)}
<1>3. 0 \in A
    <2>1. k[0] = <<>>
        BY <1>1 DEF IsKept
    <2> QED
        BY <2>1, PicksOfNone
<1>4. ASSUME NEW n \in A PROVE n + 1 \in A
    <2>1. CASE n + 1 > Len(s)
        BY <2>1
    <2>2. CASE n + 1 <= Len(s)
        <3>1. k[n] \in Seq(S) /\ \E at : Picks(at, k[n], s, T, n)
            BY <2>2
        <3>2. k[n + 1] = KeptOfNext(k[n], s, T, n + 1)
            BY <1>1, <2>2 DEF IsKept
        <3> QED
            BY <2>2, <3>1, <3>2, PicksOfNext
    <2> QED
        BY <2>1, <2>2
<1>5. A = Nat
    <2> HIDE DEF A
    <2>1. A \in SUBSET Nat
        BY DEF A
    <2> QED
        BY <1>3, <1>4, <2>1, SetInduction
<1> QED
    BY <1>2, <1>5

\* No element is there twice.
Distinct(s) == \A i, j \in 1 .. Len(s) : i # j => s[i] # s[j]

\* What is kept are the elements in T, none of them twice if none was.
LEMMA KeptProperties ==
    ASSUME NEW S, NEW s \in Seq(S), NEW T
    PROVE  /\ Kept(s, T) \in Seq(S)
           /\ ToSet(Kept(s, T)) = ToSet(s) \cap T
           /\ Distinct(s) => Distinct(Kept(s, T))
<1> DEFINE r == Kept(s, T)
<1>1. r \in Seq(S) /\ \E at : Picks(at, r, s, T, Len(s))
    BY KeptPicks
<1> HIDE DEF r
<1>2. PICK at : Picks(at, r, s, T, Len(s))
    BY <1>1
<1>3. /\ at \in [1 .. Len(r) -> 1 .. Len(s)]
      /\ \A j \in 1 .. Len(r) : r[j] = s[at[j]] /\ s[at[j]] \in T
      /\ \A i, j \in 1 .. Len(r) : i < j => at[i] < at[j]
      /\ \A i \in 1 .. Len(s) : s[i] \in T => \E j \in 1 .. Len(r) : at[j] = i
    BY <1>2 DEF Picks
<1>4. Len(r) \in Nat /\ Len(s) \in Nat /\ DOMAIN r = 1 .. Len(r) /\ DOMAIN s = 1 .. Len(s)
    BY <1>1, LenProperties
<1>5. \A j \in 1 .. Len(r) : at[j] \in 1 .. Len(s)
    BY <1>3, Zenon
<1>6. ToSet(r) \subseteq ToSet(s) \cap T
    <2>1. ASSUME NEW j \in 1 .. Len(r) PROVE r[j] \in ToSet(s) \cap T
        <3>1. r[j] = s[at[j]] /\ s[at[j]] \in T
            BY <1>3, Zenon
        <3>2. s[at[j]] \in ToSet(s)
            BY <1>4, <1>5, Zenon DEF ToSet
        <3> QED
            BY <3>1, <3>2, Zenon
    <2> QED
        BY <1>4, <2>1, Zenon DEF ToSet
<1>7. ToSet(s) \cap T \subseteq ToSet(r)
    <2>1. SUFFICES ASSUME NEW i \in 1 .. Len(s), s[i] \in T PROVE s[i] \in ToSet(r)
        BY <1>4, Zenon DEF ToSet
    <2>2. PICK j \in 1 .. Len(r) : at[j] = i
        BY <1>3, <2>1, Zenon
    <2>3. s[i] = r[j]
        BY <1>3, <2>2
    <2> QED
        BY <1>4, <2>3, Zenon DEF ToSet
<1>8. Distinct(s) => Distinct(r)
    <2>1. SUFFICES ASSUME Distinct(s), NEW i \in 1 .. Len(r), NEW j \in 1 .. Len(r), i # j
                   PROVE  r[i] # r[j]
        BY DEF Distinct
    <2>2. i < j \/ j < i
        BY <2>1, <1>4
    <2>3. at[i] \in 1 .. Len(s) /\ at[j] \in 1 .. Len(s)
        BY <1>5
    <2>4. at[i] # at[j]
        BY <1>3, <2>2, <2>3
    <2>5. r[i] = s[at[i]] /\ r[j] = s[at[j]]
        BY <1>3
    <2> QED
        BY <2>1, <2>3, <2>4, <2>5, Zenon DEF Distinct
<1> QED
    BY <1>1, <1>6, <1>7, <1>8 DEF r

\* A new element at the end is there once, beside the others.
LEMMA AppendedAnew ==
    ASSUME NEW S, NEW s \in Seq(S), NEW e \in S, e \notin ToSet(s), Distinct(s)
    PROVE  ToSet(Append(s, e)) = ToSet(s) \cup {e} /\ Distinct(Append(s, e))
<1> DEFINE r == Append(s, e)
<1>1. /\ r \in Seq(S) /\ Len(r) = Len(s) + 1
      /\ \A i \in 1 .. Len(s) : r[i] = s[i]
      /\ r[Len(s) + 1] = e
    BY AppendProperties
<1> HIDE DEF r
<1>2. /\ Len(s) \in Nat
      /\ DOMAIN s = 1 .. Len(s) /\ DOMAIN r = 1 .. Len(s) + 1
    BY <1>1, LenProperties
<1>3. \A i \in 1 .. Len(s) + 1 : i = Len(s) + 1 \/ i \in 1 .. Len(s)
    BY <1>2, BelowNext
<1>4. Len(s) + 1 \in 1 .. Len(s) + 1 /\ \A i \in 1 .. Len(s) : i \in 1 .. Len(s) + 1
    BY <1>2
<1>5. ToSet(r) = ToSet(s) \cup {e}
    <2>1. ASSUME NEW x \in ToSet(r) PROVE x \in ToSet(s) \cup {e}
        BY <1>1, <1>2, <1>3, Zenon DEF ToSet
    <2>2. ASSUME NEW x \in ToSet(s) PROVE x \in ToSet(r)
        BY <1>1, <1>2, <1>4, Zenon DEF ToSet
    <2>3. e \in ToSet(r)
        BY <1>1, <1>2, <1>4, Zenon DEF ToSet
    <2> QED
        BY <2>1, <2>2, <2>3, Zenon
<1>6. Distinct(r)
    <2>1. \A i \in 1 .. Len(s) : s[i] # e
        BY <1>2, Zenon DEF ToSet
    <2>2. SUFFICES ASSUME NEW i \in 1 .. Len(s) + 1, NEW j \in 1 .. Len(s) + 1, i # j
                   PROVE  r[i] # r[j]
        BY <1>1 DEF Distinct
    <2> QED
        BY <1>1, <1>3, <2>1, <2>2, Zenon DEF Distinct
<1> QED
    BY <1>5, <1>6 DEF r

====
