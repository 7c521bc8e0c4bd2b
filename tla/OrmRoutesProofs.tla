---- MODULE OrmRoutesProofs ----
(***************************************************************************)
(* The properties of OrmRoutes, proved: a specification is taken apart by  *)
(* the fields of its outer level, and what holds of one is shown by        *)
(* induction on the length of its paths.                                   *)
(***************************************************************************)
EXTENDS OrmRoutes, FilteringFacts, FiniteSetTheorems

----------------------------------------------------------------------------
(* Paths *)

\* A path has a length.
LEMMA PathLength ==
    \A p \in Path : Len(p) \in Nat
BY DEF Path

\* One or more.
LEMMA OneOrMore ==
    \A n \in Nat : n >= 1 => n = 1 \/ n > 1
OBVIOUS

\* The first name of a path, and its last.
LEMMA PathEnds ==
    ASSUME NEW p \in Path, Len(p) >= 1
    PROVE  Head(p) = p[1] /\ Head(p) \in STRING /\ Last(p) = p[Len(p)] /\ Last(p) \in STRING
<1>1. p \in Seq(STRING) /\ Len(p) \in Nat /\ p # <<>>
    BY DEF Path
<1>2. p[1] \in STRING /\ p[Len(p)] \in STRING
    BY <1>1, ElementOfSeq
<1>3. Head(p) = p[1]
    BY <1>1
<1> QED
    BY <1>2, <1>3 DEF Last

\* What follows the first name of a path.
LEMMA PathTail ==
    ASSUME NEW p \in Path, Len(p) >= 1
    PROVE  /\ Tail(p) \in Path /\ Len(Tail(p)) = Len(p) - 1
           /\ \A i \in 1 .. Len(p) - 1 : Tail(p)[i] = p[i + 1]
<1>1. p \in Seq(STRING) /\ Len(p) \in Nat /\ p # <<>>
    BY DEF Path
<1>2. /\ Tail(p) \in Seq(STRING) /\ Len(Tail(p)) = Len(p) - 1
      /\ \A i \in 1 .. Len(Tail(p)) : Tail(p)[i] = p[i + 1]
    BY <1>1, HeadTailProperties
<1> QED
    BY <1>1, <1>2 DEF Path

\* What precedes the last name of a path.
LEMMA PathFront ==
    ASSUME NEW p \in Path, Len(p) >= 1
    PROVE  /\ Front(p) \in Path /\ Len(Front(p)) = Len(p) - 1
           /\ \A i \in 1 .. Len(p) - 1 : Front(p)[i] = p[i]
<1>1. p \in Seq(STRING) /\ Len(p) \in Nat
    BY DEF Path
<1> DEFINE n == Len(p) - 1
<1>2. n \in Nat /\ \A i \in 1 .. n : i \in 1 .. Len(p)
    BY <1>1
<1>3. \A i \in 1 .. n : p[i] \in STRING
    BY <1>1, <1>2, ElementOfSeq
<1>4. Front(p) = SubSeq(p, 1, n)
    BY DEF Front
<1> HIDE DEF n
<1>5. /\ SubSeq(p, 1, n) \in Seq(STRING)
      /\ Len(SubSeq(p, 1, n)) = IF 1 <= n THEN n - 1 + 1 ELSE 0
      /\ \A i \in 1 .. n - 1 + 1 : SubSeq(p, 1, n)[i] = p[1 + i - 1]
    BY <1>2, <1>3, SubSeqProperties
<1>6. Len(SubSeq(p, 1, n)) = n /\ \A i \in 1 .. n : SubSeq(p, 1, n)[i] = p[i]
    BY <1>2, <1>5
<1> QED
    BY <1>4, <1>5, <1>6 DEF Path, n

\* A path is its first name and what follows.
LEMMA PathOfParts ==
    ASSUME NEW p \in Path, NEW q \in Path, Len(p) >= 1, Len(q) >= 1,
           Head(p) = Head(q), Tail(p) = Tail(q)
    PROVE  p = q
<1>1. Len(p) = Len(q) /\ Len(p) \in Nat /\ p[1] = q[1]
    BY PathLength, PathEnds, PathTail
<1>2. ASSUME NEW i \in 1 .. Len(p) PROVE p[i] = q[i]
    <2>1. CASE i = 1
        BY <1>1, <2>1
    <2>2. CASE i > 1
        <3>1. i - 1 \in 1 .. Len(p) - 1 /\ i - 1 \in 1 .. Len(q) - 1 /\ (i - 1) + 1 = i
            BY <1>1, <2>2
        <3>2. Tail(p)[i - 1] = p[i] /\ Tail(q)[i - 1] = q[i]
            BY <3>1, PathTail
        <3> QED
            BY <3>2
    <2> QED
        BY <1>1, <2>1, <2>2
<1> QED
    BY <1>1, <1>2, SeqEqual DEF Path

\* The sequence of one element.
LEMMA OneElement ==
    ASSUME NEW S, NEW e \in S
    PROVE  /\ <<e>> \in Seq(S) /\ Len(<<e>>) = 1 /\ <<e>>[1] = e
           /\ Head(<<e>>) = e /\ Tail(<<e>>) = <<>>
OBVIOUS

\* The path of one name.
LEMMA OneName ==
    ASSUME NEW f \in STRING
    PROVE  /\ <<f>> \in Path /\ Len(<<f>>) = 1 /\ Head(<<f>>) = f /\ Tail(<<f>>) = <<>>
           /\ Last(<<f>>) = f /\ <<f>>[1] = f
<1>1. /\ <<f>> \in Seq(STRING) /\ Len(<<f>>) = 1 /\ <<f>>[1] = f
      /\ Head(<<f>>) = f /\ Tail(<<f>>) = <<>>
    BY OneElement
<1> QED
    BY <1>1, Zenon DEF Path, Last

\* A path of one name.
LEMMA IsOneName ==
    ASSUME NEW p \in Path, Len(p) = 1
    PROVE  p = <<Head(p)>>
<1>1. Tail(p) \in Path /\ Len(Tail(p)) = 0 /\ Head(p) \in STRING
    BY PathEnds, PathTail
<1>2. Tail(p) = <<>>
    BY <1>1, EmptySeq DEF Path
<1>3. /\ <<Head(p)>> \in Path /\ Len(<<Head(p)>>) = 1
      /\ Head(<<Head(p)>>) = Head(p) /\ Tail(<<Head(p)>>) = <<>>
    BY <1>1, OneName
<1> DEFINE q == <<Head(p)>>
<1> HIDE DEF q
<1>4. p = q
    BY <1>2, <1>3, PathOfParts DEF q
<1> QED
    BY <1>4 DEF q

\* What precedes the second of two names.
LEMMA FrontOfTwo ==
    ASSUME NEW p \in Path, Len(p) = 2
    PROVE  Front(p) = <<Head(p)>>
<1> DEFINE q == Front(p)
<1> Len(p) >= 1
    OBVIOUS
<1>1. q \in Path /\ Len(q) = Len(p) - 1 /\ \A i \in 1 .. Len(p) - 1 : q[i] = p[i]
    BY PathFront
<1>2. Head(p) = p[1]
    BY PathEnds
<1> HIDE DEF q
<1>3. Len(q) = 1 /\ q[1] = p[1]
    <2>1. Len(p) - 1 = 1 /\ 1 \in 1 .. Len(p) - 1
        OBVIOUS
    <2>2. Len(q) = 1
        BY <1>1, <2>1
    <2>3. q[1] = p[1]
        BY <1>1, <2>1
    <2> QED
        BY <2>2, <2>3
<1>4. Head(q) = q[1]
    BY <1>1, <1>3, PathEnds
<1>5. q = <<Head(q)>>
    BY <1>1, <1>3, IsOneName
<1> QED
    BY <1>2, <1>3, <1>4, <1>5, Zenon DEF q

\* A path up to its nth name.
LEMMA UpTo ==
    ASSUME NEW p \in Path, NEW n \in 1 .. Len(p)
    PROVE  /\ SubSeq(p, 1, n) \in Path /\ Len(SubSeq(p, 1, n)) = n
           /\ \A i \in 1 .. n : SubSeq(p, 1, n)[i] = p[i]
           /\ Head(SubSeq(p, 1, n)) = Head(p)
<1>1. p \in Seq(STRING) /\ Len(p) \in Nat /\ n \in Nat /\ n >= 1
    BY DEF Path
<1>2. \A i \in 1 .. n : p[i] \in STRING
    BY <1>1, ElementOfSeq
<1>3. /\ SubSeq(p, 1, n) \in Seq(STRING) /\ Len(SubSeq(p, 1, n)) = n
      /\ \A i \in 1 .. n : SubSeq(p, 1, n)[i] = p[i]
    BY <1>1, <1>2, SubSeqProperties
<1>4. Head(SubSeq(p, 1, n)) = SubSeq(p, 1, n)[1] /\ Head(p) = p[1]
    BY <1>1, <1>3, PathEnds DEF Path
<1> QED
    BY <1>1, <1>3, <1>4 DEF Path

\* Names up to one are the names up to the one before it, after the first.
LEMMA TailUpTo ==
    ASSUME NEW p \in Path, NEW n \in 1 .. Len(p) - 1
    PROVE  /\ n + 1 \in 1 .. Len(p)
           /\ Tail(SubSeq(p, 1, n + 1)) = SubSeq(Tail(p), 1, n)
<1>1. Len(p) \in Nat /\ n \in Nat /\ n >= 1 /\ n + 1 \in 1 .. Len(p)
    BY DEF Path
<1>2. Tail(p) \in Path /\ Len(Tail(p)) = Len(p) - 1
    BY <1>1, PathTail
<1>3. n \in 1 .. Len(Tail(p))
    BY <1>1, <1>2
<1> DEFINE q == SubSeq(p, 1, n + 1)
           r == SubSeq(Tail(p), 1, n)
<1>4. q \in Path /\ Len(q) = n + 1 /\ \A i \in 1 .. n + 1 : q[i] = p[i]
    BY <1>1, UpTo
<1>5. r \in Path /\ Len(r) = n /\ \A i \in 1 .. n : r[i] = Tail(p)[i]
    BY <1>2, <1>3, UpTo
<1> HIDE DEF q, r
<1>6. /\ Tail(q) \in Path /\ Len(Tail(q)) = n
      /\ \A i \in 1 .. n : Tail(q)[i] = q[i + 1]
    BY <1>1, <1>4, PathTail
<1>7. ASSUME NEW i \in 1 .. n PROVE Tail(q)[i] = r[i]
    <2>1. i \in 1 .. Len(p) - 1 /\ i + 1 \in 1 .. n + 1
        BY <1>1
    <2> QED
        BY <1>1, <1>4, <1>5, <1>6, <2>1, PathTail
<1>8. Tail(q) = r
    BY <1>5, <1>6, <1>7, SeqEqual DEF Path
<1> QED
    BY <1>1, <1>8 DEF q, r

----------------------------------------------------------------------------
(* Specifications *)

\* Paths of at most n names, with those on the way to them.
IsSpecification(spec, n) ==
    /\ spec \subseteq Path
    /\ \A p \in spec : Len(p) \in 1 .. n /\ PathsTo(p) \subseteq spec

\* What is on the way to a path of a specification is in it.
LEMMA OnTheWay ==
    ASSUME NEW n \in Nat, NEW spec, IsSpecification(spec, n), NEW p \in spec,
           NEW i \in 1 .. Len(p)
    PROVE  SubSeq(p, 1, i) \in spec
BY DEF IsSpecification, PathsTo

\* A field of a specification is a path of one name in it.
LEMMA FieldsAreThere ==
    ASSUME NEW n \in Nat, NEW spec, IsSpecification(spec, n)
    PROVE  \A f : f \in Fields(spec) <=> f \in STRING /\ <<f>> \in spec
<1>1. ASSUME NEW p \in spec PROVE Head(p) \in STRING /\ <<Head(p)>> \in spec
    <2>1. p \in Path /\ Len(p) \in 1 .. n
        BY DEF IsSpecification
    <2>2. Len(p) >= 1 /\ 1 \in 1 .. Len(p)
        BY <2>1
    <2>3. SubSeq(p, 1, 1) \in spec
        BY <2>2, OnTheWay
    <2>4. /\ SubSeq(p, 1, 1) \in Path /\ Len(SubSeq(p, 1, 1)) = 1
          /\ Head(SubSeq(p, 1, 1)) = Head(p)
        BY <2>1, <2>2, UpTo
    <2>5. SubSeq(p, 1, 1) = <<Head(p)>>
        BY <2>4, IsOneName
    <2> QED
        BY <2>1, <2>2, <2>3, <2>5, PathEnds
<1>2. ASSUME NEW f \in STRING, <<f>> \in spec PROVE f \in Fields(spec)
    <2>1. Head(<<f>>) = f
        BY OneName
    <2> QED
        BY <1>2, <2>1, Zenon DEF Fields
<1> QED
    BY <1>1, <1>2, Zenon DEF Fields

\* What is below a field.
LEMMA BelowContains ==
    ASSUME NEW spec, NEW f
    PROVE  \A q : q \in Below(spec, f) <=>
                \E p \in spec : Len(p) > 1 /\ Head(p) = f /\ Tail(p) = q
BY Zenon DEF Below

\* What is below a field is a specification of shorter paths.
LEMMA BelowIsSpecification ==
    ASSUME NEW n \in Nat, NEW spec, IsSpecification(spec, n + 1), NEW f
    PROVE  IsSpecification(Below(spec, f), n)
<1>1. ASSUME NEW q \in Below(spec, f)
      PROVE  q \in Path /\ Len(q) \in 1 .. n /\ PathsTo(q) \subseteq Below(spec, f)
    <2>1. PICK p \in spec : Len(p) > 1 /\ Head(p) = f /\ Tail(p) = q
        BY BelowContains
    <2>2. p \in Path /\ Len(p) \in 1 .. n + 1 /\ Len(p) \in Nat
        BY PathLength DEF IsSpecification
    <2>3. q \in Path /\ Len(q) = Len(p) - 1
        <3>1. Len(p) >= 1
            BY <2>1, <2>2
        <3>2. Tail(p) \in Path /\ Len(Tail(p)) = Len(p) - 1
            BY <2>2, <3>1, PathTail
        <3> QED
            BY <2>1, <3>2
    <2>4. ASSUME NEW i \in 1 .. Len(q) PROVE SubSeq(q, 1, i) \in Below(spec, f)
        <3>1. i \in 1 .. Len(p) - 1
            BY <2>3
        <3>2. i + 1 \in 1 .. Len(p) /\ Tail(SubSeq(p, 1, i + 1)) = SubSeq(q, 1, i)
            BY <2>1, <2>2, <3>1, TailUpTo
        <3>3. /\ Len(SubSeq(p, 1, i + 1)) = i + 1
              /\ Head(SubSeq(p, 1, i + 1)) = f
            BY <2>1, <2>2, <3>2, UpTo
        <3>4. SubSeq(p, 1, i + 1) \in spec /\ i + 1 > 1
            BY <3>2, OnTheWay
        <3>5. Len(SubSeq(p, 1, i + 1)) > 1
            BY <3>3, <3>4
        <3> QED
            BY <3>2, <3>3, <3>4, <3>5, BelowContains, Zenon
    <2>5. PathsTo(q) \subseteq Below(spec, f)
        BY <2>4, Zenon DEF PathsTo
    <2> QED
        BY <2>1, <2>2, <2>3, <2>5
<1> QED
    BY <1>1 DEF IsSpecification

\* A specification of paths of no name is empty.
LEMMA NoSpecification ==
    ASSUME NEW spec, IsSpecification(spec, 0)
    PROVE  spec = {}
BY DEF IsSpecification

\* Longer paths are allowed, too.
LEMMA LongerSpecification ==
    ASSUME NEW n \in Nat, NEW m \in Nat, n <= m, NEW spec, IsSpecification(spec, n)
    PROVE  IsSpecification(spec, m)
BY DEF IsSpecification

\* A field of the outer level is expanded if anything is below it.
LEMMA ExpandedHere ==
    ASSUME NEW n \in Nat, NEW spec, IsSpecification(spec, n), NEW f \in STRING
    PROVE  IsExpanded(<<f>>, spec) <=> Below(spec, f) # {}
<1>1. ASSUME IsExpanded(<<f>>, spec) PROVE Below(spec, f) # {}
    <2>1. PICK q \in spec : Len(q) > 1 /\ Front(q) = <<f>>
        BY <1>1 DEF IsExpanded
    <2>2. q \in Path /\ Len(q) \in Nat
        BY PathLength DEF IsSpecification
    <2>3. Front(q)[1] = q[1] /\ Head(q) = q[1]
        <3>1. Len(q) >= 1 /\ 1 \in 1 .. Len(q) - 1
            BY <2>1, <2>2
        <3> QED
            BY <2>2, <3>1, PathEnds, PathFront
    <2>4. Head(q) = f
        BY <2>1, <2>3, OneName
    <2>5. Tail(q) \in Below(spec, f)
        BY <2>1, <2>4, Zenon DEF Below
    <2> QED
        BY <2>5, Zenon
<1>2. ASSUME Below(spec, f) # {} PROVE IsExpanded(<<f>>, spec)
    <2>1. PICK q \in spec : Len(q) > 1 /\ Head(q) = f
        BY <1>2, BelowContains
    <2>2. q \in Path /\ 2 \in 1 .. Len(q)
        BY <2>1 DEF IsSpecification
    <2> DEFINE r == SubSeq(q, 1, 2)
    <2>3. r \in spec /\ r \in Path /\ Len(r) = 2 /\ Head(r) = f
        BY <2>1, <2>2, OnTheWay, UpTo
    <2> HIDE DEF r
    <2>6. Front(r) = <<f>>
        BY <2>3, FrontOfTwo
    <2>7. Len(r) > 1
        BY <2>3
    <2> QED
        BY <2>3, <2>6, <2>7, Zenon DEF IsExpanded
<1> QED
    BY <1>1, <1>2

\* The front of a tail is the tail of the front.
LEMMA FrontOfTail ==
    ASSUME NEW p \in Path, Len(p) > 1
    PROVE  /\ Front(p) \in Path /\ Len(Front(p)) >= 1
           /\ Head(Front(p)) = Head(p) /\ Front(Tail(p)) = Tail(Front(p))
<1>1. Len(p) \in Nat
    BY PathLength
<1>2. /\ Tail(p) \in Path /\ Len(Tail(p)) = Len(p) - 1
      /\ Front(p) \in Path /\ Len(Front(p)) = Len(p) - 1
      /\ Head(p) = p[1] /\ Front(p)[1] = p[1]
    BY <1>1, PathEnds, PathTail, PathFront
<1> DEFINE t == Tail(p)
           f == Front(p)
<1> HIDE DEF t, f
<1>6. t \in Path /\ Len(t) = Len(p) - 1 /\ f \in Path /\ Len(f) = Len(p) - 1
    BY <1>2 DEF t, f
<1>7. /\ Front(t) \in Path /\ Len(Front(t)) = Len(p) - 2
      /\ \A i \in 1 .. Len(p) - 2 : Front(t)[i] = t[i]
    BY <1>1, <1>6, PathFront
<1>8. /\ Tail(f) \in Path /\ Len(Tail(f)) = Len(p) - 2 /\ Head(f) = f[1]
      /\ \A i \in 1 .. Len(p) - 2 : Tail(f)[i] = f[i + 1]
    BY <1>1, <1>6, PathEnds, PathTail
<1>3. ASSUME NEW i \in 1 .. Len(p) - 2 PROVE Front(t)[i] = Tail(f)[i]
    <2>1. i \in 1 .. Len(p) - 1 /\ i + 1 \in 1 .. Len(p) - 1
        BY <1>1
    <2>2. t[i] = p[i + 1]
        BY <1>1, <2>1, PathTail DEF t
    <2>3. f[i + 1] = p[i + 1]
        BY <1>1, <2>1, PathFront DEF f
    <2> QED
        BY <1>7, <1>8, <2>2, <2>3
<1>4. Front(t) = Tail(f)
    BY <1>3, <1>7, <1>8, SeqEqual DEF Path
<1> QED
    BY <1>1, <1>2, <1>4, <1>8 DEF t, f

\* A field further down is expanded as it is in what is below the first.
LEMMA ExpandedBelow ==
    ASSUME NEW n \in Nat, NEW spec, IsSpecification(spec, n), NEW p \in Path, Len(p) > 1
    PROVE  IsExpanded(p, spec) <=> IsExpanded(Tail(p), Below(spec, Head(p)))
<1>1. ASSUME IsExpanded(p, spec) PROVE IsExpanded(Tail(p), Below(spec, Head(p)))
    <2>1. PICK q \in spec : Len(q) > 1 /\ Front(q) = p
        BY <1>1 DEF IsExpanded
    <2>2. q \in Path /\ Len(q) \in Nat /\ Len(p) \in Nat
        BY PathLength DEF IsSpecification
    <2>3. Head(p) = Head(q) /\ Front(Tail(q)) = Tail(p)
        BY <2>1, <2>2, FrontOfTail
    <2>4. Len(Tail(q)) > 1
        BY <2>1, <2>2, PathTail, PathFront
    <2>5. Tail(q) \in Below(spec, Head(p))
        BY <2>1, <2>3, BelowContains
    <2> QED
        BY <2>3, <2>4, <2>5 DEF IsExpanded
<1>2. ASSUME IsExpanded(Tail(p), Below(spec, Head(p))) PROVE IsExpanded(p, spec)
    <2>1. PICK r \in Below(spec, Head(p)) : Len(r) > 1 /\ Front(r) = Tail(p)
        BY <1>2 DEF IsExpanded
    <2>2. PICK q \in spec : Len(q) > 1 /\ Head(q) = Head(p) /\ Tail(q) = r
        BY BelowContains
    <2>3. q \in Path
        BY DEF IsSpecification
    <2>4. /\ Front(q) \in Path /\ Len(Front(q)) >= 1
          /\ Head(Front(q)) = Head(q) /\ Front(Tail(q)) = Tail(Front(q))
        BY <2>2, <2>3, FrontOfTail
    <2>5. Front(q) = p
        <3> DEFINE r1 == Front(q)
        <3> HIDE DEF r1
        <3>1. r1 \in Path /\ Len(r1) >= 1 /\ Head(r1) = Head(p) /\ Tail(r1) = Tail(p)
            BY <2>1, <2>2, <2>4 DEF r1
        <3>2. Len(p) >= 1
            BY PathLength
        <3> QED
            BY <3>1, <3>2, PathOfParts DEF r1
    <2> QED
        BY <2>2, <2>5 DEF IsExpanded
<1> QED
    BY <1>1, <1>2

----------------------------------------------------------------------------
(* Merging the paths of a query *)

\* What is on the way to a path are paths.
LEMMA PathsToArePaths ==
    \A p \in Path : PathsTo(p) \subseteq Path
BY UpTo, Zenon DEF PathsTo

\* f is what SpecificationFromQuery computes.
IsMerged(f, paths) ==
    f = [n \in 0 .. Len(paths) |->
            IF n = 0 THEN {} ELSE MergeDottedPath(f[n - 1], paths[n])]

\* The recursion of SpecificationFromQuery defines a function.
LEMMA MergedIsDefined ==
    ASSUME NEW paths \in Seq(Path)
    PROVE  \E f : IsMerged(f, paths)
<1> DEFINE N == Len(paths)
           step == [n \in 1 .. N |-> [v \in SUBSET Path |-> MergeDottedPath(v, paths[n])]]
<1>1. N \in Nat /\ \A n \in 1 .. N : paths[n] \in Path
    BY LenProperties, ElementOfSeq
<1> HIDE DEF N
<1>2. \A n \in 1 .. N : \A v \in SUBSET Path : MergeDottedPath(v, paths[n]) \in SUBSET Path
    BY <1>1, PathsToArePaths DEF MergeDottedPath
<1>3. \A n \in 1 .. N : \A v \in SUBSET Path : step[n][v] = MergeDottedPath(v, paths[n])
    BY <1>2
<1> HIDE DEF step
<1>4. StaysWithin(step, N, SUBSET Path)
    BY <1>2, <1>3 DEF StaysWithin
<1>5. {} \in SUBSET Path
    OBVIOUS
<1>6. PICK f : IsRecursion(f, {}, step, N, SUBSET Path)
    BY <1>1, <1>4, <1>5, RecursionDefines
<1>7. ASSUME NEW n \in 0 .. N
      PROVE  f[n] = IF n = 0 THEN {} ELSE MergeDottedPath(f[n - 1], paths[n])
    <2>1. CASE n = 0
        BY <1>6, <2>1 DEF IsRecursion
    <2>2. CASE n # 0
        <3>1. n \in 1 .. N /\ n - 1 \in 0 .. N
            BY <1>1, <2>2
        <3>2. f[n - 1] \in SUBSET Path /\ f[n] = step[n][f[n - 1]]
            BY <1>6, <3>1, Zenon DEF IsRecursion
        <3> QED
            BY <1>3, <2>2, <3>1, <3>2
    <2> QED
        BY <2>1, <2>2
<1>8. f = [n \in 0 .. N |-> f[n]]
    BY <1>6 DEF IsRecursion
<1> QED
    BY <1>7, <1>8 DEF IsMerged, N

\* A query's paths are merged into themselves and what is on the way to them, in
\* whichever order.
LEMMA SpecificationIsClosure ==
    ASSUME NEW paths \in Seq(Path)
    PROVE  SpecificationFromQuery(paths) = Closure(paths)
<1> DEFINE f == CHOOSE f : IsMerged(f, paths)
           N == Len(paths)
           A == {n \in Nat : n <= N => f[n] = UNION {PathsTo(paths[i]) : i \in 1 .. n}}
<1>1. IsMerged(f, paths)
    BY MergedIsDefined
<1>2. SpecificationFromQuery(paths) = f[N]
    BY DEF SpecificationFromQuery, IsMerged
<1>3. N \in Nat /\ DOMAIN paths = 1 .. N
    BY LenProperties
<1> HIDE DEF f, N
<1>4. \A n \in 0 .. N : f[n] = IF n = 0 THEN {} ELSE MergeDottedPath(f[n - 1], paths[n])
    BY <1>1 DEF IsMerged, N
<1>5. 0 \in A
    BY <1>3, <1>4
<1>6. ASSUME NEW n \in A PROVE n + 1 \in A
    <2>1. SUFFICES ASSUME n + 1 <= N
                   PROVE  f[n + 1] = UNION {PathsTo(paths[i]) : i \in 1 .. n + 1}
        OBVIOUS
    <2>2. n \in Nat /\ f[n] = UNION {PathsTo(paths[i]) : i \in 1 .. n}
        BY <1>3, <2>1
    <2>3. f[n + 1] = f[n] \cup PathsTo(paths[n + 1])
        <3>1. n + 1 \in 0 .. N /\ n + 1 # 0 /\ n + 1 - 1 = n
            BY <1>3, <2>1, <2>2
        <3>2. f[n + 1] = IF n + 1 = 0 THEN {} ELSE MergeDottedPath(f[n + 1 - 1], paths[n + 1])
            BY <1>4, <3>1
        <3>3. f[n + 1] = MergeDottedPath(f[n], paths[n + 1])
            BY <3>1, <3>2
        <3> QED
            BY <3>3 DEF MergeDottedPath
    <2>4. \A i : i \in 1 .. n + 1 <=> i = n + 1 \/ i \in 1 .. n
        BY <2>2
    <2> QED
        BY <2>2, <2>3, <2>4, Zenon
<1>7. A = Nat
    <2> HIDE DEF A
    <2>1. A \in SUBSET Nat
        BY DEF A
    <2> QED
        BY <1>5, <1>6, <2>1, SetInduction
<1>8. f[N] = UNION {PathsTo(paths[i]) : i \in 1 .. N}
    BY <1>3, <1>7
<1>9. UNION {PathsTo(paths[i]) : i \in 1 .. N} = Closure(paths)
    BY <1>3, Zenon DEF Closure, ToSet
<1> QED
    BY <1>2, <1>8, <1>9

\* The paths of a query, with what is on the way to them, are a specification.
LEMMA ClosureIsSpecification ==
    ASSUME NEW n \in Nat, NEW paths \in Seq(Path), \A p \in ToSet(paths) : Len(p) \in 1 .. n
    PROVE  IsSpecification(Closure(paths), n)
<1>1. ToSet(paths) \subseteq Path
    BY LenProperties, ElementOfSeq DEF ToSet
<1>2. ASSUME NEW p \in ToSet(paths), NEW q \in PathsTo(p)
      PROVE  q \in Path /\ Len(q) \in 1 .. n /\ PathsTo(q) \subseteq PathsTo(p)
    <2>1. PICK k \in 1 .. Len(p) : q = SubSeq(p, 1, k)
        BY DEF PathsTo
    <2>2. p \in Path /\ Len(p) \in 1 .. n
        BY <1>1
    <2>3. q \in Path /\ Len(q) = k
        BY <2>1, <2>2, UpTo
    <2>4. ASSUME NEW i \in 1 .. Len(q) PROVE SubSeq(q, 1, i) = SubSeq(p, 1, i)
        <3>1. i \in 1 .. Len(p) /\ \A j \in 1 .. i : j \in 1 .. k
            BY <2>2, <2>3
        <3>2. /\ SubSeq(q, 1, i) \in Path /\ Len(SubSeq(q, 1, i)) = i
              /\ \A j \in 1 .. i : SubSeq(q, 1, i)[j] = q[j]
            BY <2>3, UpTo
        <3>3. /\ SubSeq(p, 1, i) \in Path /\ Len(SubSeq(p, 1, i)) = i
              /\ \A j \in 1 .. i : SubSeq(p, 1, i)[j] = p[j]
            BY <2>2, <3>1, UpTo
        <3>4. \A j \in 1 .. k : q[j] = p[j]
            BY <2>1, <2>2, UpTo
        <3>5. \A j \in 1 .. i : SubSeq(q, 1, i)[j] = SubSeq(p, 1, i)[j]
            BY <3>1, <3>2, <3>3, <3>4, Zenon
        <3> DEFINE r == SubSeq(q, 1, i)
                   t == SubSeq(p, 1, i)
        <3> HIDE DEF r, t
        <3>6. r \in Path /\ t \in Path /\ Len(r) = i /\ Len(t) = i /\ \A j \in 1 .. i : r[j] = t[j]
            BY <3>2, <3>3, <3>5 DEF r, t
        <3>7. r = t
            BY <3>6, SeqEqual DEF Path
        <3> QED
            BY <3>7 DEF r, t
    <2>5. \A i \in 1 .. Len(q) : i \in 1 .. Len(p)
        BY <2>2, <2>3
    <2>6. PathsTo(q) \subseteq PathsTo(p)
        BY <2>4, <2>5, Zenon DEF PathsTo
    <2>7. Len(q) \in 1 .. n
        BY <2>2, <2>3
    <2> QED
        BY <2>3, <2>6, <2>7
<1> QED
    BY <1>2, Zenon DEF IsSpecification, Closure

\* The fields that every model has are names.
LEMMA CommonFields ==
    ASSUME NEW m \in DOMAIN Schema
    PROVE  {"id", "name"} \subseteq DOMAIN Schema[m] /\ "id" \in STRING /\ "name" \in STRING
BY SchemaAssumption DEF SchemaAssumption

\* The implied id of a write's response.
LEMMA WithIdIsSpecification ==
    ASSUME NEW n \in Nat \ {0}, NEW spec, IsSpecification(spec, n), NEW m \in DOMAIN Schema
    PROVE  IsSpecification(spec \cup {<<"id">>}, n)
<1>1. "id" \in STRING /\ <<"id">> \in Path /\ Len(<<"id">>) = 1
    BY CommonFields, OneName, Zenon
<1>2. PathsTo(<<"id">>) = {<<"id">>}
    <2>1. 1 .. Len(<<"id">>) = {1}
        BY <1>1
    <2>2. SubSeq(<<"id">>, 1, 1) = <<"id">>
        <3>1. /\ SubSeq(<<"id">>, 1, 1) \in Path /\ Len(SubSeq(<<"id">>, 1, 1)) = 1
              /\ Head(SubSeq(<<"id">>, 1, 1)) = Head(<<"id">>)
            BY <1>1, <2>1, UpTo
        <3>2. SubSeq(<<"id">>, 1, 1) = <<Head(SubSeq(<<"id">>, 1, 1))>>
            BY <3>1, IsOneName
        <3>3. Head(<<"id">>) = "id"
            BY OneName
        <3> QED
            BY <3>1, <3>2, <3>3
    <2> QED
        BY <2>1, <2>2, Zenon DEF PathsTo
<1>3. 1 \in 1 .. n
    OBVIOUS
<1> QED
    BY <1>1, <1>2, <1>3, Zenon DEF IsSpecification

----------------------------------------------------------------------------
(* Models along a path *)

\* What FieldType says of a field.
LEMMA FieldsAreTyped ==
    ASSUME NEW m \in DOMAIN Schema, NEW f \in DOMAIN Schema[m]
    PROVE  /\ f \in STRING /\ FieldOf(m, f) \in FieldType
           /\ FieldOf(m, f).type \in Relational => FieldOf(m, f).comodel \in DOMAIN Schema
<1>1. DOMAIN Schema[m] \subseteq STRING
    BY SchemaAssumption DEF SchemaAssumption
<1> QED
    BY <1>1, SchemaAssumption, Zenon DEF SchemaAssumption, FieldOf

ModelOrNone == DOMAIN Schema \cup {Unset}

\* Where a name leads from a model.
Lead(m, f) ==
    IF /\ m # Unset /\ f \in DOMAIN Schema[m]
       /\ FieldOf(m, f).type \in Relational
    THEN FieldOf(m, f).comodel
    ELSE Unset

\* f is what ModelAt computes.
IsModelAt(f, m, p) ==
    f = [n \in 0 .. Len(p) - 1 |-> IF n = 0 THEN m ELSE Lead(f[n - 1], p[n])]

ModelsAlong(m, p) == CHOOSE f : IsModelAt(f, m, p)

\* A name leads to a model or to none.
LEMMA LeadIsModel ==
    ASSUME NEW m \in ModelOrNone, NEW f
    PROVE  Lead(m, f) \in ModelOrNone
BY FieldsAreTyped DEF ModelOrNone, Lead

\* The recursion of ModelAt defines a function.
LEMMA ModelAtIsDefined ==
    ASSUME NEW m \in ModelOrNone, NEW p \in Path, Len(p) >= 1
    PROVE  \E f : IsModelAt(f, m, p)
<1> DEFINE N == Len(p) - 1
           step == [n \in 1 .. N |-> [v \in ModelOrNone |-> Lead(v, p[n])]]
<1>1. N \in Nat
    BY PathLength
<1> HIDE DEF N
<1>2. \A n \in 1 .. N : \A v \in ModelOrNone : step[n][v] = Lead(v, p[n])
    OBVIOUS
<1> HIDE DEF step
<1>3. StaysWithin(step, N, ModelOrNone)
    BY <1>2, LeadIsModel DEF StaysWithin
<1>4. PICK f : IsRecursion(f, m, step, N, ModelOrNone)
    BY <1>1, <1>3, RecursionDefines
<1>5. ASSUME NEW n \in 0 .. N
      PROVE  f[n] = IF n = 0 THEN m ELSE Lead(f[n - 1], p[n])
    <2>1. CASE n = 0
        BY <1>4, <2>1 DEF IsRecursion
    <2>2. CASE n # 0
        <3>1. n \in 1 .. N /\ n - 1 \in 0 .. N
            BY <1>1, <2>2
        <3>2. f[n - 1] \in ModelOrNone /\ f[n] = step[n][f[n - 1]]
            BY <1>4, <3>1, Zenon DEF IsRecursion
        <3> QED
            BY <1>2, <2>2, <3>1, <3>2
    <2> QED
        BY <2>1, <2>2
<1>6. f = [n \in 0 .. N |-> f[n]]
    BY <1>4 DEF IsRecursion
<1> QED
    BY <1>5, <1>6 DEF IsModelAt, N

\* What the recursion of ModelAt computes.
LEMMA ModelsAlongPath ==
    ASSUME NEW m \in ModelOrNone, NEW p \in Path, Len(p) >= 1
    PROVE  /\ ModelAt(m, p) = ModelsAlong(m, p)[Len(p) - 1]
           /\ ModelsAlong(m, p)[0] = m
           /\ \A n \in 1 .. Len(p) - 1 :
                ModelsAlong(m, p)[n] = Lead(ModelsAlong(m, p)[n - 1], p[n])
<1> DEFINE f == ModelsAlong(m, p)
<1>1. IsModelAt(f, m, p)
    BY ModelAtIsDefined DEF ModelsAlong
<1>2. ModelAt(m, p) = f[Len(p) - 1]
    BY DEF ModelAt, ModelsAlong, IsModelAt, Lead
<1> HIDE DEF f
<1>3. Len(p) \in Nat
    BY PathLength
<1>4. \A n \in 0 .. Len(p) - 1 : f[n] = IF n = 0 THEN m ELSE Lead(f[n - 1], p[n])
    BY <1>1 DEF IsModelAt
<1>5. f[0] = m /\ \A n \in 1 .. Len(p) - 1 : f[n] = Lead(f[n - 1], p[n])
    BY <1>3, <1>4
<1> QED
    BY <1>2, <1>5 DEF f

\* The first name of a path is a field of the model itself.
LEMMA ModelAtFirst ==
    ASSUME NEW m \in ModelOrNone, NEW p \in Path, Len(p) = 1
    PROVE  ModelAt(m, p) = m
<1>1. Len(p) >= 1 /\ Len(p) - 1 = 0
    OBVIOUS
<1> DEFINE f == ModelsAlong(m, p)
<1>2. ModelAt(m, p) = f[Len(p) - 1] /\ f[0] = m
    BY <1>1, ModelsAlongPath
<1> HIDE DEF f
<1> QED
    BY <1>1, <1>2

\* What follows the first name are fields from where it leads.
LEMMA ModelAtNext ==
    ASSUME NEW m \in ModelOrNone, NEW p \in Path, Len(p) > 1
    PROVE  ModelAt(m, p) = ModelAt(Lead(m, Head(p)), Tail(p))
<1> DEFINE c == Lead(m, Head(p))
           q == Tail(p)
           f == ModelsAlong(m, p)
           g == ModelsAlong(c, q)
           N == Len(p) - 2
           A == {n \in Nat : n <= N => g[n] = f[n + 1]}
<1>1. c \in ModelOrNone
    BY LeadIsModel
<1>2. Len(p) \in Nat /\ Len(p) >= 1
    BY PathLength
<1>3. q \in Path /\ Len(q) = Len(p) - 1 /\ \A i \in 1 .. Len(p) - 1 : q[i] = p[i + 1]
    BY <1>2, PathTail
<1>4. N \in Nat /\ Len(p) - 1 = N + 1 /\ Len(q) - 1 = N /\ Len(q) >= 1
    BY <1>2, <1>3
<1>5. /\ ModelAt(m, p) = f[Len(p) - 1] /\ f[0] = m
      /\ \A n \in 1 .. Len(p) - 1 : f[n] = Lead(f[n - 1], p[n])
    BY <1>2, ModelsAlongPath
<1> HIDE DEF c, q, f, N
<1>6. /\ ModelAt(c, q) = g[Len(q) - 1] /\ g[0] = c
      /\ \A n \in 1 .. Len(q) - 1 : g[n] = Lead(g[n - 1], q[n])
    BY <1>1, <1>3, <1>4, ModelsAlongPath
<1> HIDE DEF g
<1>7. ModelAt(m, p) = f[N + 1] /\ \A n \in 1 .. N + 1 : f[n] = Lead(f[n - 1], p[n])
    BY <1>4, <1>5
<1>8. ModelAt(c, q) = g[N] /\ \A n \in 1 .. N : g[n] = Lead(g[n - 1], q[n])
    BY <1>4, <1>6
<1>9. 0 \in A
    <2>1. f[1] = Lead(f[0], p[1])
        BY <1>4, <1>7
    <2>2. Head(p) = p[1]
        BY <1>2, PathEnds
    <2> QED
        BY <1>5, <1>6, <2>1, <2>2 DEF c
<1>10. ASSUME NEW n \in A PROVE n + 1 \in A
    <2>1. SUFFICES ASSUME n + 1 <= N PROVE g[n + 1] = f[n + 1 + 1]
        OBVIOUS
    <2>2. n \in Nat /\ g[n] = f[n + 1]
        BY <1>4, <2>1
    <2>3. /\ n + 1 \in 1 .. N /\ n + 1 + 1 \in 1 .. N + 1 /\ n + 1 \in 1 .. Len(p) - 1
          /\ n + 1 - 1 = n /\ n + 1 + 1 - 1 = n + 1
        BY <1>4, <2>1, <2>2
    <2>4. g[n + 1] = Lead(g[n], q[n + 1])
        BY <1>8, <2>3
    <2>5. f[n + 1 + 1] = Lead(f[n + 1], p[n + 1 + 1])
        BY <1>7, <2>3
    <2>6. q[n + 1] = p[n + 1 + 1]
        BY <1>3, <2>3
    <2> QED
        BY <2>2, <2>4, <2>5, <2>6
<1>11. A = Nat
    <2> HIDE DEF A
    <2>1. A \in SUBSET Nat
        BY DEF A
    <2> QED
        BY <1>9, <1>10, <2>1, SetInduction
<1>12. g[N] = f[N + 1]
    BY <1>4, <1>11
<1> QED
    BY <1>7, <1>8, <1>12 DEF c, q

\* From no model there is no way.
LEMMA ModelAtNone ==
    ASSUME NEW p \in Path, Len(p) >= 1
    PROVE  ModelAt(Unset, p) = Unset
<1> DEFINE f == ModelsAlong(Unset, p)
           N == Len(p) - 1
           A == {n \in Nat : n <= N => f[n] = Unset}
<1>1. N \in Nat /\ Unset \in ModelOrNone
    BY PathLength DEF ModelOrNone
<1>2. /\ ModelAt(Unset, p) = f[N] /\ f[0] = Unset
      /\ \A n \in 1 .. N : f[n] = Lead(f[n - 1], p[n])
    BY <1>1, ModelsAlongPath
<1> HIDE DEF f, N
<1>3. 0 \in A
    BY <1>2
<1>4. ASSUME NEW n \in A PROVE n + 1 \in A
    <2>1. SUFFICES ASSUME n + 1 <= N PROVE f[n + 1] = Unset
        OBVIOUS
    <2>2. f[n] = Unset /\ n + 1 \in 1 .. N /\ n + 1 - 1 = n
        BY <1>1, <2>1
    <2>3. f[n + 1] = Lead(f[n], p[n + 1])
        BY <1>2, <2>2
    <2> QED
        BY <2>2, <2>3 DEF Lead
<1>5. A = Nat
    <2> HIDE DEF A
    <2>1. A \in SUBSET Nat
        BY DEF A
    <2> QED
        BY <1>3, <1>4, <2>1, SetInduction
<1> QED
    BY <1>1, <1>2, <1>5

----------------------------------------------------------------------------
(* Validation *)

\* What lies below a name of the path's last field is a field of where the name leads.
LEMMA LastOfTail ==
    ASSUME NEW p \in Path, Len(p) > 1
    PROVE  Tail(p) \in Path /\ Len(Tail(p)) >= 1 /\ Last(Tail(p)) = Last(p)
<1> DEFINE q == Tail(p)
<1>1. Len(p) \in Nat /\ Len(p) >= 1 /\ Len(p) - 1 \in 1 .. Len(p) - 1 /\ Len(p) - 1 + 1 = Len(p)
    BY PathLength
<1>2. q \in Path /\ Len(q) = Len(p) - 1 /\ \A i \in 1 .. Len(p) - 1 : q[i] = p[i + 1]
    BY <1>1, PathTail
<1> HIDE DEF q
<1>3. Len(q) >= 1
    BY <1>1, <1>2
<1>4. q[Len(q)] = p[Len(p)]
    BY <1>1, <1>2
<1> QED
    BY <1>2, <1>3, <1>4 DEF q, Last

\* The paths of a specification lead to fields if its outer fields do, and the paths
\* below each from where it leads.
LEMMA WellFormedByField ==
    ASSUME NEW n \in Nat, NEW spec, IsSpecification(spec, n), NEW m \in DOMAIN Schema
    PROVE  WellFormed(m, spec) <=>
                \A f \in Fields(spec) :
                    /\ f \in DOMAIN Schema[m]
                    /\ Below(spec, f) # {} =>
                        /\ FieldOf(m, f).type \in Relational
                        /\ WellFormed(FieldOf(m, f).comodel, Below(spec, f))
<1>1. m \in ModelOrNone /\ m # Unset /\ Unset \notin DOMAIN Schema
    BY SchemaAssumption DEF ModelOrNone, SchemaAssumption
<1>2. \A p \in spec : p \in Path /\ Len(p) >= 1 /\ Len(p) \in Nat
    BY PathLength DEF IsSpecification
<1>3. ASSUME WellFormed(m, spec), NEW f \in Fields(spec)
      PROVE  /\ f \in DOMAIN Schema[m]
             /\ Below(spec, f) # {} =>
                    /\ FieldOf(m, f).type \in Relational
                    /\ WellFormed(FieldOf(m, f).comodel, Below(spec, f))
    <2>1. f \in STRING /\ <<f>> \in spec
        BY FieldsAreThere
    <2>2. <<f>> \in Path /\ Len(<<f>>) = 1 /\ Last(<<f>>) = f
        BY <2>1, OneName, Zenon
    <2>3. ModelAt(m, <<f>>) = m
        BY <1>1, <2>2, ModelAtFirst, Zenon
    <2>4. f \in DOMAIN Schema[m]
        BY <1>3, <2>1, <2>2, <2>3, Zenon DEF WellFormed
    <2>5. ASSUME NEW q \in Below(spec, f)
          PROVE  /\ FieldOf(m, f).type \in Relational
                 /\ ModelAt(FieldOf(m, f).comodel, q) # Unset
                 /\ Last(q) \in DOMAIN Schema[ModelAt(FieldOf(m, f).comodel, q)]
        <3>1. PICK p \in spec : Len(p) > 1 /\ Head(p) = f /\ Tail(p) = q
            BY BelowContains
        <3>2. p \in Path
            BY <1>2
        <3>3. q \in Path /\ Len(q) >= 1 /\ Last(q) = Last(p)
            BY <3>1, <3>2, LastOfTail
        <3>4. ModelAt(m, p) = ModelAt(Lead(m, f), q)
            BY <1>1, <3>1, <3>2, ModelAtNext
        <3>5. ModelAt(m, p) # Unset /\ Last(p) \in DOMAIN Schema[ModelAt(m, p)]
            BY <1>3, Zenon DEF WellFormed
        <3>6. Lead(m, f) # Unset
            BY <3>3, <3>4, <3>5, ModelAtNone
        <3>7. FieldOf(m, f).type \in Relational /\ Lead(m, f) = FieldOf(m, f).comodel
            BY <3>6 DEF Lead
        <3> QED
            BY <3>3, <3>4, <3>5, <3>7
    <2> QED
        BY <2>4, <2>5, Zenon DEF WellFormed
<1>4. ASSUME \A f \in Fields(spec) :
                    /\ f \in DOMAIN Schema[m]
                    /\ Below(spec, f) # {} =>
                        /\ FieldOf(m, f).type \in Relational
                        /\ WellFormed(FieldOf(m, f).comodel, Below(spec, f)),
             NEW p \in spec
      PROVE  ModelAt(m, p) # Unset /\ Last(p) \in DOMAIN Schema[ModelAt(m, p)]
    <2>1. Head(p) \in Fields(spec)
        BY Zenon DEF Fields
    <2>2. p \in Path /\ Len(p) >= 1 /\ Len(p) \in Nat
        BY <1>2
    <2>3. CASE Len(p) = 1
        <3>1. ModelAt(m, p) = m
            BY <1>1, <2>2, <2>3, ModelAtFirst
        <3>2. Last(p) = p[Len(p)] /\ Head(p) = p[1]
            BY <2>2, PathEnds
        <3>3. Last(p) = Head(p)
            BY <2>3, <3>2
        <3> QED
            BY <1>1, <1>4, <2>1, <3>1, <3>3
    <2>4. CASE Len(p) > 1
        <3> DEFINE f == Head(p)
                   q == Tail(p)
        <3>1. q \in Below(spec, f)
            BY <2>4, BelowContains
        <3>2. q \in Path /\ Len(q) >= 1 /\ Last(q) = Last(p)
            BY <2>2, <2>4, LastOfTail
        <3>3. ModelAt(m, p) = ModelAt(Lead(m, f), q)
            BY <1>1, <2>2, <2>4, ModelAtNext
        <3> HIDE DEF f, q
        <3>4. /\ f \in DOMAIN Schema[m] /\ FieldOf(m, f).type \in Relational
              /\ WellFormed(FieldOf(m, f).comodel, Below(spec, f))
            BY <1>4, <2>1, <3>1, Zenon DEF f
        <3>5. Lead(m, f) = FieldOf(m, f).comodel
            BY <1>1, <3>4 DEF Lead
        <3> QED
            BY <3>1, <3>2, <3>3, <3>4, <3>5, Zenon DEF WellFormed
    <2>5. Len(p) = 1 \/ Len(p) > 1
        BY <2>2, OneOrMore, Zenon
    <2> QED
        BY <2>3, <2>4, <2>5, Zenon
<1> QED
    BY <1>3, <1>4, Zenon DEF WellFormed

\* What Valid asks of a specification at one level, given what it accepts below.
Accepts(below, n, model, wanted) ==
    \A f \in Fields(wanted) :
        /\ n > 0 /\ f \in DOMAIN Schema[model]
        /\ Below(wanted, f) # {} =>
            /\ FieldOf(model, f).type \in Relational
            /\ Below(wanted, f) \in below[FieldOf(model, f).comodel]

\* What Valid accepts at one more level.
ValidNext(below, n) ==
    [model \in DOMAIN Schema |-> {wanted \in SUBSET Path : Accepts(below, n, model, wanted)}]

\* v is what Valid computes.
IsValid(v) == v = [n \in 0 .. MaxDepth |-> ValidNext(v[n - 1], n)]

\* The longest path is a bound.
LEMMA DepthIsNatural ==
    MaxDepth \in Nat \ {0}
BY SchemaAssumption DEF SchemaAssumption

\* The recursion of Valid defines a function.
LEMMA ValidIsDefined ==
    \E v : IsValid(v)
<1> DEFINE S == [DOMAIN Schema -> SUBSET SUBSET Path]
           step == [n \in 1 .. MaxDepth |-> [before \in S |-> ValidNext(before, n)]]
<1>1. \A before, n : ValidNext(before, n) \in S
    BY DEF ValidNext
<1> HIDE DEF S
<1>2. \A n \in 1 .. MaxDepth : \A before \in S : step[n][before] = ValidNext(before, n)
    OBVIOUS
<1> HIDE DEF step
<1>3. StaysWithin(step, MaxDepth, S)
    BY <1>1, <1>2 DEF StaysWithin
<1>4. PICK v : IsRecursion(v, ValidNext(<<>>, 0), step, MaxDepth, S)
    BY <1>1, <1>3, DepthIsNatural, RecursionDefines
<1>5. \A before : ValidNext(before, 0) = ValidNext(<<>>, 0)
    <2> TAKE before
    <2>1. ~(0 > 0)
        OBVIOUS
    <2> QED
        BY <2>1, Zenon DEF ValidNext, Accepts
<1>6. ASSUME NEW n \in 0 .. MaxDepth PROVE v[n] = ValidNext(v[n - 1], n)
    <2>1. CASE n = 0
        BY <1>4, <1>5, <2>1, Zenon DEF IsRecursion
    <2>2. CASE n # 0
        <3>1. n \in 1 .. MaxDepth /\ n - 1 \in 0 .. MaxDepth
            BY DepthIsNatural, <2>2
        <3>2. v[n - 1] \in S /\ v[n] = step[n][v[n - 1]]
            BY <1>4, <3>1, Zenon DEF IsRecursion
        <3> QED
            BY <1>2, <3>1, <3>2
    <2> QED
        BY <2>1, <2>2
<1>7. v = [n \in 0 .. MaxDepth |-> v[n]]
    BY <1>4, Zenon DEF IsRecursion
<1> QED
    BY <1>6, <1>7, Zenon DEF IsValid

\* _validate_specification accepts what its paths say, at every level.
LEMMA ValidMeansWellFormed ==
    ASSUME NEW m \in DOMAIN Schema, NEW spec, IsSpecification(spec, MaxDepth)
    PROVE  Valid(m, spec) <=> WellFormed(m, spec)
<1> DEFINE v == CHOOSE v : IsValid(v)
           A == {n \in Nat : n <= MaxDepth =>
                    \A model \in DOMAIN Schema : \A wanted :
                        IsSpecification(wanted, n) =>
                            (wanted \in v[n][model] <=> WellFormed(model, wanted))}
<1>1. IsValid(v)
    BY ValidIsDefined
<1>2. Valid(m, spec) <=> spec \in v[MaxDepth][m]
    BY DEF Valid, IsValid, ValidNext, Accepts
<1> HIDE DEF v
<1>3. ASSUME NEW n \in 0 .. MaxDepth, NEW model \in DOMAIN Schema, NEW wanted \in SUBSET Path
      PROVE  wanted \in v[n][model] <=> Accepts(v[n - 1], n, model, wanted)
    <2>1. v[n] = ValidNext(v[n - 1], n)
        BY <1>1 DEF IsValid
    <2> QED
        BY <2>1 DEF ValidNext
<1>4. 0 \in A
    <2>1. SUFFICES ASSUME NEW model \in DOMAIN Schema, NEW wanted, IsSpecification(wanted, 0)
                   PROVE  wanted \in v[0][model] /\ WellFormed(model, wanted)
        BY Zenon
    <2>2. wanted = {}
        BY <2>1, NoSpecification
    <2>3. Fields(wanted) = {} /\ wanted \in SUBSET Path /\ 0 \in 0 .. MaxDepth
        BY <2>2, DepthIsNatural DEF Fields
    <2>4. Accepts(v[0 - 1], 0, model, wanted)
        BY <2>3, Zenon DEF Accepts
    <2> QED
        BY <1>3, <2>2, <2>3, <2>4, Zenon DEF WellFormed
<1>5. ASSUME NEW n \in A PROVE n + 1 \in A
    <2>1. SUFFICES ASSUME n + 1 <= MaxDepth, NEW model \in DOMAIN Schema, NEW wanted,
                          IsSpecification(wanted, n + 1)
                   PROVE  wanted \in v[n + 1][model] <=> WellFormed(model, wanted)
        OBVIOUS
    <2>2. n \in Nat /\ n <= MaxDepth
        BY DepthIsNatural, <2>1
    <2>3. \A c \in DOMAIN Schema : \A nested :
              IsSpecification(nested, n) => (nested \in v[n][c] <=> WellFormed(c, nested))
        BY <2>2
    <2>4. n + 1 \in 0 .. MaxDepth /\ n + 1 > 0 /\ n + 1 - 1 = n /\ n + 1 \in Nat
        BY DepthIsNatural, <2>1, <2>2
    <2>5. wanted \in SUBSET Path
        BY <2>1 DEF IsSpecification
    <2>6. \A f : IsSpecification(Below(wanted, f), n)
        BY <2>1, <2>2, BelowIsSpecification
    <2>7. \A f \in DOMAIN Schema[model] :
              FieldOf(model, f).type \in Relational => FieldOf(model, f).comodel \in DOMAIN Schema
        BY FieldsAreTyped
    <2> HIDE DEF A
    <2>8. wanted \in v[n + 1][model] <=> Accepts(v[n], n + 1, model, wanted)
        <3> DEFINE k == n + 1
        <3>1. k \in 0 .. MaxDepth /\ k - 1 = n
            BY <2>2, <2>4
        <3> HIDE DEF k
        <3>2. wanted \in v[k][model] <=> Accepts(v[k - 1], k, model, wanted)
            BY <1>3, <2>5, <3>1, Zenon
        <3> QED
            BY <3>1, <3>2 DEF k
    <2>9. WellFormed(model, wanted) <=>
              \A f \in Fields(wanted) :
                  /\ f \in DOMAIN Schema[model]
                  /\ Below(wanted, f) # {} =>
                      /\ FieldOf(model, f).type \in Relational
                      /\ WellFormed(FieldOf(model, f).comodel, Below(wanted, f))
        BY <2>1, <2>4, WellFormedByField, Zenon
    <2> QED
        BY <2>3, <2>4, <2>6, <2>7, <2>8, <2>9, Zenon DEF Accepts
<1>6. A = Nat
    <2> HIDE DEF A
    <2>1. A \in SUBSET Nat
        BY DEF A
    <2> QED
        BY <1>4, <1>5, <2>1, SetInduction
<1> QED
    BY <1>2, <1>6, DepthIsNatural

----------------------------------------------------------------------------
(* Records along a path *)

\* The records are typed, and none of them is what stands for none.
Sound(rows) == Unset \notin DOMAIN rows /\ WellTyped(rows)

\* What WellTyped says of a record.
LEMMA RecordsAreTyped ==
    ASSUME NEW rows, Sound(rows), NEW x \in DOMAIN rows
    PROVE  /\ rows[x].model \in DOMAIN Schema /\ rows[x].visible \in BOOLEAN
           /\ DOMAIN rows[x].values = DOMAIN Schema[rows[x].model]
           /\ \A f \in DOMAIN Schema[rows[x].model] :
                /\ FieldOf(rows[x].model, f).type = "many2one" =>
                        rows[x].values[f] \in Of(rows, FieldOf(rows[x].model, f).comodel) \cup {Unset}
                /\ FieldOf(rows[x].model, f).type = "x2many" =>
                        rows[x].values[f] \subseteq Of(rows, FieldOf(rows[x].model, f).comodel)
BY Zenon DEF Sound, WellTyped

\* A relation leads to records of its comodel.
LEMMA RelatedAreTyped ==
    ASSUME NEW rows, Sound(rows), NEW x \in DOMAIN rows,
           NEW f \in DOMAIN Schema[rows[x].model], FieldOf(rows[x].model, f).type \in Relational
    PROVE  Related(rows, x, f) \subseteq Of(rows, FieldOf(rows[x].model, f).comodel)
<1> DEFINE field == FieldOf(rows[x].model, f)
<1>1. /\ field.type = "many2one" =>
            rows[x].values[f] \in Of(rows, field.comodel) \cup {Unset}
      /\ field.type = "x2many" => rows[x].values[f] \subseteq Of(rows, field.comodel)
    BY RecordsAreTyped
<1>2. field.type = "many2one" \/ field.type = "x2many"
    BY DEF Relational
<1> HIDE DEF field
<1>3. Related(rows, x, f) =
        IF field.type = "x2many" THEN {y \in rows[x].values[f] : rows[y].visible}
        ELSE IF rows[x].values[f] = Unset THEN {} ELSE {rows[x].values[f]}
    BY DEF Related, field
<1>4. Related(rows, x, f) \subseteq Of(rows, field.comodel)
    BY <1>1, <1>2, <1>3
<1> QED
    BY <1>4 DEF field

\* What is followed are related records, of the comodel.
LEMMA FollowedAreTyped ==
    ASSUME NEW rows, Sound(rows), NEW x \in DOMAIN rows, NEW f, NEW m2o
    PROVE  /\ Followed(rows, x, f, m2o) \subseteq DOMAIN rows
           /\ Followed(rows, x, f, m2o) # {} =>
                /\ f \in DOMAIN Schema[rows[x].model]
                /\ Followed(rows, x, f, m2o) = Related(rows, x, f)
                /\ Related(rows, x, f) \subseteq Of(rows, FieldOf(rows[x].model, f).comodel)
<1>1. CASE Followed(rows, x, f, m2o) = {}
    BY <1>1
<1>2. CASE Followed(rows, x, f, m2o) # {}
    <2>1. /\ f \in DOMAIN Schema[rows[x].model] /\ FieldOf(rows[x].model, f).type \in Relational
          /\ Followed(rows, x, f, m2o) = Related(rows, x, f)
        BY <1>2, Zenon DEF Followed
    <2>2. Related(rows, x, f) \subseteq Of(rows, FieldOf(rows[x].model, f).comodel)
        BY <2>1, RelatedAreTyped
    <2>3. Of(rows, FieldOf(rows[x].model, f).comodel) \subseteq DOMAIN rows
        BY DEF Of
    <2> QED
        BY <2>1, <2>2, <2>3
<1> QED
    BY <1>1, <1>2

\* The records that a name leads to from some.
FollowedFrom(rows, from, f, m2o) == UNION {Followed(rows, y, f, m2o) : y \in from}

\* A record is followed from one of them.
LEMMA FollowedFromOne ==
    ASSUME NEW rows, NEW from, NEW f, NEW m2o
    PROVE  \A z : z \in FollowedFrom(rows, from, f, m2o)
                <=> \E y \in from : z \in Followed(rows, y, f, m2o)
BY Zenon DEF FollowedFrom

\* f is what Reach computes.
IsReached(f, rows, x, p, m2o) ==
    f = [n \in 0 .. Len(p) - 1 |-> IF n = 0 THEN {x} ELSE FollowedFrom(rows, f[n - 1], p[n], m2o)]

ReachedAlong(rows, x, p, m2o) == CHOOSE f : IsReached(f, rows, x, p, m2o)

\* The recursion of Reach defines a function.
LEMMA ReachIsDefined ==
    ASSUME NEW rows, Sound(rows), NEW x \in DOMAIN rows, NEW p \in Path, Len(p) >= 1, NEW m2o
    PROVE  \E f : IsReached(f, rows, x, p, m2o)
<1> DEFINE N == Len(p) - 1
           S == SUBSET DOMAIN rows
           step == [n \in 1 .. N |-> [v \in S |-> FollowedFrom(rows, v, p[n], m2o)]]
<1>1. N \in Nat
    BY PathLength
<1>2. ASSUME NEW n, NEW v \in S PROVE FollowedFrom(rows, v, p[n], m2o) \in S
    <2>1. \A y \in v : Followed(rows, y, p[n], m2o) \subseteq DOMAIN rows
        BY FollowedAreTyped
    <2> QED
        BY <2>1, Zenon DEF FollowedFrom
<1>3. {x} \in S
    OBVIOUS
<1> HIDE DEF N, S
<1>4. \A n \in 1 .. N : \A v \in S : step[n][v] = FollowedFrom(rows, v, p[n], m2o)
    OBVIOUS
<1> HIDE DEF step
<1>5. StaysWithin(step, N, S)
    BY <1>2, <1>4 DEF StaysWithin
<1>6. PICK f : IsRecursion(f, {x}, step, N, S)
    BY <1>1, <1>3, <1>5, RecursionDefines
<1>7. ASSUME NEW n \in 0 .. N
      PROVE  f[n] = IF n = 0 THEN {x} ELSE FollowedFrom(rows, f[n - 1], p[n], m2o)
    <2>1. CASE n = 0
        BY <1>6, <2>1 DEF IsRecursion
    <2>2. CASE n # 0
        <3>1. n \in 1 .. N /\ n - 1 \in 0 .. N
            BY <1>1, <2>2
        <3>2. f[n - 1] \in S /\ f[n] = step[n][f[n - 1]]
            BY <1>6, <3>1, Zenon DEF IsRecursion
        <3> QED
            BY <1>4, <2>2, <3>1, <3>2
    <2> QED
        BY <2>1, <2>2
<1>8. f = [n \in 0 .. N |-> f[n]]
    BY <1>6 DEF IsRecursion
<1> QED
    BY <1>7, <1>8 DEF IsReached, N

\* What the recursion of Reach computes.
LEMMA ReachedAlongPath ==
    ASSUME NEW rows, Sound(rows), NEW x \in DOMAIN rows, NEW p \in Path, Len(p) >= 1, NEW m2o
    PROVE  /\ Reach(rows, x, p, m2o) = ReachedAlong(rows, x, p, m2o)[Len(p) - 1]
           /\ ReachedAlong(rows, x, p, m2o)[0] = {x}
           /\ \A n \in 1 .. Len(p) - 1 :
                ReachedAlong(rows, x, p, m2o)[n] =
                    FollowedFrom(rows, ReachedAlong(rows, x, p, m2o)[n - 1], p[n], m2o)
<1> DEFINE f == ReachedAlong(rows, x, p, m2o)
<1>1. IsReached(f, rows, x, p, m2o)
    BY ReachIsDefined DEF ReachedAlong
<1>2. Reach(rows, x, p, m2o) = f[Len(p) - 1]
    BY DEF Reach, ReachedAlong, IsReached, FollowedFrom
<1> HIDE DEF f
<1>3. Len(p) \in Nat
    BY PathLength
<1>4. \A n \in 0 .. Len(p) - 1 :
          f[n] = IF n = 0 THEN {x} ELSE FollowedFrom(rows, f[n - 1], p[n], m2o)
    BY <1>1 DEF IsReached
<1>5. /\ f[0] = {x}
      /\ \A n \in 1 .. Len(p) - 1 : f[n] = FollowedFrom(rows, f[n - 1], p[n], m2o)
    BY <1>3, <1>4
<1> QED
    BY <1>2, <1>5 DEF f

\* The first name of a path is a field of the record itself.
LEMMA ReachFirst ==
    ASSUME NEW rows, Sound(rows), NEW x \in DOMAIN rows, NEW p \in Path, Len(p) >= 1, NEW m2o
    PROVE  Len(p) = 1 => \A y : y \in Reach(rows, x, p, m2o) <=> y = x
<1> DEFINE f == ReachedAlong(rows, x, p, m2o)
<1>1. /\ Reach(rows, x, p, m2o) = f[Len(p) - 1] /\ f[0] = {x}
      /\ \A n \in 1 .. Len(p) - 1 : f[n] = FollowedFrom(rows, f[n - 1], p[n], m2o)
    BY ReachedAlongPath
<1> HIDE DEF f
<1>2. ASSUME Len(p) = 1 PROVE \A y : y \in Reach(rows, x, p, m2o) <=> y = x
    <2>1. Len(p) - 1 = 0
        BY <1>2
    <2> QED
        BY <1>1, <2>1
<1> QED
    BY <1>2

\* What follows the first name are fields of the records where it leads.
LEMMA ReachNext ==
    ASSUME NEW rows, Sound(rows), NEW x \in DOMAIN rows, NEW p \in Path, Len(p) > 1, NEW m2o
    PROVE  \A z : z \in Reach(rows, x, p, m2o) <=>
                \E y \in Followed(rows, x, Head(p), m2o) : z \in Reach(rows, y, Tail(p), m2o)
<1> DEFINE from == Followed(rows, x, Head(p), m2o)
           q == Tail(p)
           f == ReachedAlong(rows, x, p, m2o)
           g == [y \in from |-> ReachedAlong(rows, y, q, m2o)]
           N == Len(p) - 2
           A == {n \in Nat : n <= N => \A z : z \in f[n + 1] <=> \E y \in from : z \in g[y][n]}
<1>1. from \subseteq DOMAIN rows
    BY FollowedAreTyped
<1>2. Len(p) \in Nat /\ Len(p) >= 1
    BY PathLength
<1>3. q \in Path /\ Len(q) = Len(p) - 1 /\ \A i \in 1 .. Len(p) - 1 : q[i] = p[i + 1]
    BY <1>2, PathTail
<1>4. N \in Nat /\ Len(p) - 1 = N + 1 /\ Len(q) - 1 = N /\ Len(q) >= 1
    BY <1>2, <1>3
<1>5. /\ Reach(rows, x, p, m2o) = f[Len(p) - 1] /\ f[0] = {x}
      /\ \A n \in 1 .. Len(p) - 1 : f[n] = FollowedFrom(rows, f[n - 1], p[n], m2o)
    BY <1>2, ReachedAlongPath
<1> HIDE DEF q, f, N, from
<1>6. ASSUME NEW y \in from
      PROVE  /\ Reach(rows, y, q, m2o) = g[y][N] /\ g[y][0] = {y}
             /\ \A n \in 1 .. N : g[y][n] = FollowedFrom(rows, g[y][n - 1], q[n], m2o)
    <2> DEFINE h == ReachedAlong(rows, y, q, m2o)
    <2>1. y \in DOMAIN rows
        BY <1>1
    <2>2. /\ Reach(rows, y, q, m2o) = h[Len(q) - 1] /\ h[0] = {y}
          /\ \A n \in 1 .. Len(q) - 1 : h[n] = FollowedFrom(rows, h[n - 1], q[n], m2o)
        BY <1>3, <1>4, <2>1, ReachedAlongPath
    <2>3. g[y] = h
        OBVIOUS
    <2> HIDE DEF g, h
    <2> QED
        BY <1>4, <2>2, <2>3
<1> HIDE DEF g
<1>7. /\ Reach(rows, x, p, m2o) = f[N + 1]
      /\ \A n \in 1 .. N + 1 : f[n] = FollowedFrom(rows, f[n - 1], p[n], m2o)
    BY <1>4, <1>5
<1>8. 0 \in A
    <2>1. f[1] = FollowedFrom(rows, f[0], p[1], m2o)
        BY <1>4, <1>7
    <2>2. Head(p) = p[1]
        BY <1>2, PathEnds
    <2>3. \A z : z \in f[1] <=> \E y \in {x} : z \in Followed(rows, y, p[1], m2o)
        BY <1>5, <2>1, FollowedFromOne
    <2>4. \A z : z \in f[1] <=> z \in from
        BY <2>2, <2>3 DEF from
    <2>5. \A z : z \in f[1] <=> \E y \in from : z \in g[y][0]
        BY <1>6, <2>4
    <2> QED
        BY <2>5
<1>9. ASSUME NEW n \in A PROVE n + 1 \in A
    <2>1. SUFFICES ASSUME n + 1 <= N
                   PROVE  \A z : z \in f[n + 1 + 1] <=> \E y \in from : z \in g[y][n + 1]
        OBVIOUS
    <2>2. n \in Nat /\ \A z : z \in f[n + 1] <=> \E y \in from : z \in g[y][n]
        BY <1>4, <2>1
    <2>3. /\ n + 1 \in 1 .. N /\ n + 1 + 1 \in 1 .. N + 1 /\ n + 1 \in 1 .. Len(p) - 1
          /\ n + 1 - 1 = n /\ n + 1 + 1 - 1 = n + 1
        BY <1>4, <2>1, <2>2
    <2>4. f[n + 1 + 1] = FollowedFrom(rows, f[n + 1], p[n + 1 + 1], m2o)
        BY <1>7, <2>3
    <2>5. ASSUME NEW y \in from
          PROVE  g[y][n + 1] = FollowedFrom(rows, g[y][n], q[n + 1], m2o)
        BY <1>6, <2>3
    <2>6. q[n + 1] = p[n + 1 + 1]
        BY <1>3, <2>3
    <2> DEFINE name == q[n + 1]
    <2>7. f[n + 1 + 1] = FollowedFrom(rows, f[n + 1], name, m2o)
        BY <2>4, <2>6
    <2> HIDE DEF A
    <2>8. \A z : z \in f[n + 1 + 1] <=> \E y \in f[n + 1] : z \in Followed(rows, y, name, m2o)
        BY <2>7, FollowedFromOne
    <2>9. \A y \in from : \A z :
              z \in g[y][n + 1] <=> \E w \in g[y][n] : z \in Followed(rows, w, name, m2o)
        BY <2>5, FollowedFromOne
    <2> QED
        BY <2>2, <2>8, <2>9, Zenon
<1>10. A = Nat
    <2> HIDE DEF A
    <2>1. A \in SUBSET Nat
        BY DEF A
    <2> QED
        BY <1>8, <1>9, <2>1, SetInduction
<1>11. \A z : z \in f[N + 1] <=> \E y \in from : z \in g[y][N]
    <2>1. N <= N
        BY <1>4
    <2>2. N \in A
        <3> HIDE DEF A
        <3> QED
            BY <1>4, <1>10
    <2> QED
        BY <2>1, <2>2, Zenon
<1>12. \A z : z \in f[N + 1] <=> \E y \in from : z \in Reach(rows, y, q, m2o)
    BY <1>6, <1>11
<1> QED
    BY <1>7, <1>12, Zenon DEF q, from

----------------------------------------------------------------------------
(* What is shown, field by field *)

\* From x, asked leads to field g of record y, which it expands or not.
LeadsTo(rows, x, asked, m2o, y, g, expanded) ==
    \E p \in asked : /\ y \in Reach(rows, x, p, m2o) /\ g = Last(p)
                     /\ expanded = IsExpanded(p, asked)

\* A path of one name leads to a field of the record itself.
LEMMA OuterPath ==
    ASSUME NEW rows, Sound(rows), NEW x \in DOMAIN rows, NEW m2o,
           NEW n \in Nat, NEW spec, IsSpecification(spec, n), NEW p \in spec
    PROVE  Len(p) = 1 =>
            /\ \A y : y \in Reach(rows, x, p, m2o) <=> y = x
            /\ Last(p) = Head(p) /\ IsExpanded(p, spec) = (Below(spec, Head(p)) # {})
<1>1. p \in Path /\ Len(p) \in Nat /\ Len(p) >= 1
    BY PathLength DEF IsSpecification
<1>2. Len(p) = 1 => \A y : y \in Reach(rows, x, p, m2o) <=> y = x
    BY <1>1, ReachFirst
<1>3. SUFFICES ASSUME Len(p) = 1
               PROVE  Last(p) = Head(p) /\ IsExpanded(p, spec) = (Below(spec, Head(p)) # {})
    BY <1>2
<1>4. Head(p) \in STRING /\ p = <<Head(p)>>
    BY <1>1, <1>3, PathEnds, IsOneName
<1> DEFINE f == Head(p)
<1> HIDE DEF f
<1>5. f \in STRING /\ p = <<f>>
    BY <1>4 DEF f
<1>6. IsExpanded(<<f>>, spec) <=> Below(spec, f) # {}
    BY <1>5, ExpandedHere
<1>7. Last(<<f>>) = f
    BY <1>5, OneName
<1>8. IsExpanded(p, spec) <=> Below(spec, f) # {}
    BY <1>5, <1>6
<1>9. IsExpanded(p, spec) = (Below(spec, f) # {})
    BY <1>8 DEF IsExpanded
<1> QED
    BY <1>5, <1>7, <1>9 DEF f

\* A longer one leads to where what follows its first name does, from the records
\* where that leads.
LEMMA InnerPath ==
    ASSUME NEW rows, Sound(rows), NEW x \in DOMAIN rows, NEW m2o,
           NEW n \in Nat, NEW spec, IsSpecification(spec, n), NEW p \in spec, Len(p) > 1
    PROVE  /\ \A y : y \in Reach(rows, x, p, m2o) <=>
                    \E z \in Followed(rows, x, Head(p), m2o) : y \in Reach(rows, z, Tail(p), m2o)
           /\ Last(Tail(p)) = Last(p)
           /\ IsExpanded(p, spec) = IsExpanded(Tail(p), Below(spec, Head(p)))
<1>1. p \in Path
    BY DEF IsSpecification
<1>2. IsExpanded(p, spec) <=> IsExpanded(Tail(p), Below(spec, Head(p)))
    BY <1>1, ExpandedBelow
<1>3. IsExpanded(p, spec) = IsExpanded(Tail(p), Below(spec, Head(p)))
    BY <1>2 DEF IsExpanded
<1> QED
    BY <1>1, <1>3, ReachNext, LastOfTail

\* Field f of x, and what is below it, lead to field g of record y.
LeadsByTo(rows, x, f, spec, m2o, y, g, expanded) ==
    \/ y = x /\ g = f /\ expanded = (Below(spec, f) # {})
    \/ \E z \in Followed(rows, x, f, m2o) :
            LeadsTo(rows, z, Below(spec, f), m2o, y, g, expanded)

\* Where a specification leads: to its own fields, and where what is below them leads.
LEMMA LeadsByField ==
    ASSUME NEW rows, Sound(rows), NEW x \in DOMAIN rows, NEW m2o,
           NEW n \in Nat, NEW spec, IsSpecification(spec, n), NEW y, NEW g, NEW expanded
    PROVE  LeadsTo(rows, x, spec, m2o, y, g, expanded) <=>
                \E f \in Fields(spec) : LeadsByTo(rows, x, f, spec, m2o, y, g, expanded)
<1>1. \A p \in spec : p \in Path /\ Len(p) >= 1 /\ Len(p) \in Nat
    BY PathLength DEF IsSpecification
<1>2. ASSUME LeadsTo(rows, x, spec, m2o, y, g, expanded)
      PROVE  \E f \in Fields(spec) : LeadsByTo(rows, x, f, spec, m2o, y, g, expanded)
    <2>1. PICK p \in spec : /\ y \in Reach(rows, x, p, m2o) /\ g = Last(p)
                            /\ expanded = IsExpanded(p, spec)
        BY <1>2 DEF LeadsTo
    <2>2. Head(p) \in Fields(spec)
        BY Zenon DEF Fields
    <2>3. CASE Len(p) = 1
        <3>1. y = x /\ g = Head(p) /\ expanded = (Below(spec, Head(p)) # {})
            BY <2>1, <2>3, OuterPath
        <3> QED
            BY <2>2, <3>1 DEF LeadsByTo
    <2>4. CASE Len(p) > 1
        <3>1. Tail(p) \in Below(spec, Head(p))
            BY <2>4, BelowContains
        <3>2. PICK z \in Followed(rows, x, Head(p), m2o) : y \in Reach(rows, z, Tail(p), m2o)
            BY <2>1, <2>4, InnerPath
        <3>3. g = Last(Tail(p)) /\ expanded = IsExpanded(Tail(p), Below(spec, Head(p)))
            BY <2>1, <2>4, InnerPath
        <3>4. LeadsTo(rows, z, Below(spec, Head(p)), m2o, y, g, expanded)
            BY <3>1, <3>2, <3>3, Zenon DEF LeadsTo
        <3> QED
            BY <2>2, <3>4 DEF LeadsByTo
    <2>5. Len(p) = 1 \/ Len(p) > 1
        BY <1>1, OneOrMore, Zenon
    <2> QED
        BY <2>3, <2>4, <2>5, Zenon
<1>3. ASSUME NEW f \in Fields(spec), y = x, g = f, expanded = (Below(spec, f) # {})
      PROVE  LeadsTo(rows, x, spec, m2o, y, g, expanded)
    <2>1. f \in STRING /\ <<f>> \in spec
        BY FieldsAreThere
    <2> DEFINE p == <<f>>
    <2>2. Len(p) = 1 /\ Head(p) = f /\ p \in spec
        BY <2>1, OneName, Zenon
    <2> HIDE DEF p
    <2>3. y \in Reach(rows, x, p, m2o) /\ Last(p) = f /\ IsExpanded(p, spec) = (Below(spec, f) # {})
        BY <1>3, <2>2, OuterPath
    <2> QED
        BY <1>3, <2>2, <2>3, Zenon DEF LeadsTo
<1>4. ASSUME NEW f \in Fields(spec), NEW z \in Followed(rows, x, f, m2o),
             LeadsTo(rows, z, Below(spec, f), m2o, y, g, expanded)
      PROVE  LeadsTo(rows, x, spec, m2o, y, g, expanded)
    <2>1. PICK q \in Below(spec, f) : /\ y \in Reach(rows, z, q, m2o) /\ g = Last(q)
                                      /\ expanded = IsExpanded(q, Below(spec, f))
        BY <1>4 DEF LeadsTo
    <2>2. PICK p \in spec : Len(p) > 1 /\ Head(p) = f /\ Tail(p) = q
        BY BelowContains
    <2>3. y \in Reach(rows, x, p, m2o)
        BY <2>1, <2>2, InnerPath
    <2>4. g = Last(p) /\ expanded = IsExpanded(p, spec)
        BY <2>1, <2>2, InnerPath
    <2> QED
        BY <2>3, <2>4, Zenon DEF LeadsTo
<1> QED
    BY <1>2, <1>3, <1>4, Zenon DEF LeadsByTo

\* One of the fields that must be read for what is asked of x cannot be.
Hidden(rows, x, asked, m2o) ==
    \E need \in Needed(rows, x, asked, m2o) : ~MayRead(rows, need[1], need[2])

\* What is shown are the triples of where asked leads.
LEMMA WantedAreLedTo ==
    ASSUME NEW rows, NEW x, NEW asked, NEW m2o
    PROVE  \A t : t \in Wanted(rows, x, asked, m2o) <=>
                \E y, g, expanded : /\ LeadsTo(rows, x, asked, m2o, y, g, expanded)
                                   /\ t \in Triples(rows, y, g, expanded, m2o)
<1>1. \A t : t \in Wanted(rows, x, asked, m2o) <=>
            \E p \in asked : t \in WantedBy(rows, x, p, asked, m2o)
    BY Zenon DEF Wanted
<1>2. \A p, t : t \in WantedBy(rows, x, p, asked, m2o) <=>
            \E y \in Reach(rows, x, p, m2o) :
                t \in Triples(rows, y, Last(p), IsExpanded(p, asked), m2o)
    BY Zenon DEF WantedBy
<1>3. ASSUME NEW t, NEW p \in asked, NEW y \in Reach(rows, x, p, m2o),
             t \in Triples(rows, y, Last(p), IsExpanded(p, asked), m2o)
      PROVE  \E z, g, expanded : /\ LeadsTo(rows, x, asked, m2o, z, g, expanded)
                                /\ t \in Triples(rows, z, g, expanded, m2o)
    <2>1. LeadsTo(rows, x, asked, m2o, y, Last(p), IsExpanded(p, asked))
        BY Zenon DEF LeadsTo
    <2> QED
        BY <1>3, <2>1, Zenon
<1>4. ASSUME NEW t, NEW y, NEW g, NEW expanded,
             LeadsTo(rows, x, asked, m2o, y, g, expanded),
             t \in Triples(rows, y, g, expanded, m2o)
      PROVE  \E p \in asked : \E z \in Reach(rows, x, p, m2o) :
                t \in Triples(rows, z, Last(p), IsExpanded(p, asked), m2o)
    <2>1. PICK p \in asked : /\ y \in Reach(rows, x, p, m2o) /\ g = Last(p)
                             /\ expanded = IsExpanded(p, asked)
        BY <1>4, Zenon DEF LeadsTo
    <2>2. t \in Triples(rows, y, Last(p), IsExpanded(p, asked), m2o)
        BY <1>4, <2>1
    <2> QED
        BY <2>1, <2>2, Zenon
<1> QED
    BY <1>1, <1>2, <1>3, <1>4, Zenon

\* Field g of record y must be read, for itself or for its triples, and cannot be.
Unreadable(rows, y, g, expanded, m2o) ==
    \/ \E t \in Triples(rows, y, g, expanded, m2o) : ~MayRead(rows, t[1], t[2])
    \/ ~FieldOf(rows[y].model, g).restricted /\ ~MayRead(rows, y, g)

\* What must be read for them.
LEMMA HiddenAreLedTo ==
    ASSUME NEW rows, NEW x, NEW asked, NEW m2o
    PROVE  Hidden(rows, x, asked, m2o) <=>
                \E y, g, expanded : /\ LeadsTo(rows, x, asked, m2o, y, g, expanded)
                                   /\ Unreadable(rows, y, g, expanded, m2o)
<1>1. \A need : need \in Needed(rows, x, asked, m2o) <=>
            \/ \E t \in Wanted(rows, x, asked, m2o) : need = <<t[1], t[2]>>
            \/ \E p \in asked : \E y \in Reach(rows, x, p, m2o) :
                    ~FieldOf(rows[y].model, Last(p)).restricted /\ need = <<y, Last(p)>>
    <2>1. \A p, need : need \in NeededBy(rows, x, p, m2o) <=>
                \E y \in Reach(rows, x, p, m2o) :
                    ~FieldOf(rows[y].model, Last(p)).restricted /\ need = <<y, Last(p)>>
        BY Zenon DEF NeededBy
    <2>2. \A need : need \in Needed(rows, x, asked, m2o) <=>
                \/ \E t \in Wanted(rows, x, asked, m2o) : need = <<t[1], t[2]>>
                \/ \E p \in asked : need \in NeededBy(rows, x, p, m2o)
        BY Zenon DEF Needed
    <2> QED
        BY <2>1, <2>2
<1>2. \A a, b : <<a, b>>[1] = a /\ <<a, b>>[2] = b
    OBVIOUS
<1>3. Hidden(rows, x, asked, m2o) <=>
            \/ \E t \in Wanted(rows, x, asked, m2o) : ~MayRead(rows, t[1], t[2])
            \/ \E p \in asked : \E y \in Reach(rows, x, p, m2o) :
                    ~FieldOf(rows[y].model, Last(p)).restricted /\ ~MayRead(rows, y, Last(p))
    <2>1. \A a, b : MayRead(rows, <<a, b>>[1], <<a, b>>[2]) <=> MayRead(rows, a, b)
        BY <1>2
    <2>2. ASSUME NEW a, NEW b, <<a, b>> \in Needed(rows, x, asked, m2o), ~MayRead(rows, a, b)
          PROVE  Hidden(rows, x, asked, m2o)
        BY <2>1, <2>2, Zenon DEF Hidden
    <2>3. ASSUME NEW a, NEW b, NEW need \in Needed(rows, x, asked, m2o), need = <<a, b>>,
                 ~MayRead(rows, need[1], need[2])
          PROVE  ~MayRead(rows, a, b)
        BY <2>1, <2>3
    <2>4. ASSUME Hidden(rows, x, asked, m2o)
          PROVE  \/ \E t \in Wanted(rows, x, asked, m2o) : ~MayRead(rows, t[1], t[2])
                 \/ \E p \in asked : \E y \in Reach(rows, x, p, m2o) :
                        ~FieldOf(rows[y].model, Last(p)).restricted /\ ~MayRead(rows, y, Last(p))
        <3>1. PICK need \in Needed(rows, x, asked, m2o) : ~MayRead(rows, need[1], need[2])
            BY <2>4 DEF Hidden
        <3>2. CASE \E t \in Wanted(rows, x, asked, m2o) : need = <<t[1], t[2]>>
            BY <2>3, <3>1, <3>2, Zenon
        <3>3. CASE \E p \in asked : \E y \in Reach(rows, x, p, m2o) :
                      ~FieldOf(rows[y].model, Last(p)).restricted /\ need = <<y, Last(p)>>
            BY <2>3, <3>1, <3>3, Zenon
        <3> QED
            BY <1>1, <3>1, <3>2, <3>3, Zenon
    <2>5. ASSUME NEW t \in Wanted(rows, x, asked, m2o), ~MayRead(rows, t[1], t[2])
          PROVE  Hidden(rows, x, asked, m2o)
        BY <1>1, <2>2, <2>5, Zenon
    <2>6. ASSUME NEW p \in asked, NEW y \in Reach(rows, x, p, m2o),
                 ~FieldOf(rows[y].model, Last(p)).restricted, ~MayRead(rows, y, Last(p))
          PROVE  Hidden(rows, x, asked, m2o)
        BY <1>1, <2>2, <2>6, Zenon
    <2> QED
        BY <2>4, <2>5, <2>6, Zenon
<1>4. (\E p \in asked : \E y \in Reach(rows, x, p, m2o) :
            ~FieldOf(rows[y].model, Last(p)).restricted /\ ~MayRead(rows, y, Last(p)))
      <=> \E y, g, expanded : /\ LeadsTo(rows, x, asked, m2o, y, g, expanded)
                             /\ ~FieldOf(rows[y].model, g).restricted /\ ~MayRead(rows, y, g)
    BY Zenon DEF LeadsTo
<1> QED
    BY <1>3, <1>4, WantedAreLedTo, Zenon DEF Unreadable

\* What field f of record x shows, with nested below it.
ShownOf(rows, x, f, nested, m2o) ==
    Triples(rows, x, f, nested # {}, m2o)
    \cup UNION {Wanted(rows, y, nested, m2o) : y \in Followed(rows, x, f, m2o)}

\* What must be read for it cannot be.
HiddenOf(rows, x, f, nested, m2o) ==
    \/ \E t \in Triples(rows, x, f, nested # {}, m2o) : ~MayRead(rows, t[1], t[2])
    \/ ~FieldOf(rows[x].model, f).restricted /\ ~MayRead(rows, x, f)
    \/ \E y \in Followed(rows, x, f, m2o) : Hidden(rows, y, nested, m2o)

\* What a field shows are the triples of where it leads.
LEMMA ShownOfLeads ==
    ASSUME NEW rows, NEW x, NEW f, NEW spec, NEW m2o
    PROVE  \A t : t \in ShownOf(rows, x, f, Below(spec, f), m2o) <=>
                \E y, g, expanded : /\ LeadsByTo(rows, x, f, spec, m2o, y, g, expanded)
                                   /\ t \in Triples(rows, y, g, expanded, m2o)
<1> DEFINE nested == Below(spec, f)
           Led(t) == \E y, g, expanded : /\ LeadsByTo(rows, x, f, spec, m2o, y, g, expanded)
                                        /\ t \in Triples(rows, y, g, expanded, m2o)
<1>1. \A t : t \in ShownOf(rows, x, f, nested, m2o) <=>
            \/ t \in Triples(rows, x, f, nested # {}, m2o)
            \/ \E z \in Followed(rows, x, f, m2o) : t \in Wanted(rows, z, nested, m2o)
    BY Zenon DEF ShownOf
<1>2. ASSUME NEW t, t \in Triples(rows, x, f, nested # {}, m2o) PROVE Led(t)
    <2>1. LeadsByTo(rows, x, f, spec, m2o, x, f, nested # {})
        BY Zenon DEF LeadsByTo
    <2> QED
        BY <1>2, <2>1, Zenon
<1>3. ASSUME NEW t, NEW z \in Followed(rows, x, f, m2o), t \in Wanted(rows, z, nested, m2o)
      PROVE  Led(t)
    <2>1. PICK y, g, expanded : /\ LeadsTo(rows, z, nested, m2o, y, g, expanded)
                               /\ t \in Triples(rows, y, g, expanded, m2o)
        BY <1>3, WantedAreLedTo, Zenon
    <2>2. LeadsByTo(rows, x, f, spec, m2o, y, g, expanded)
        BY <2>1, Zenon DEF LeadsByTo
    <2> QED
        BY <2>1, <2>2, Zenon
<1>4. ASSUME NEW t, NEW y, NEW g, NEW expanded,
             LeadsByTo(rows, x, f, spec, m2o, y, g, expanded),
             t \in Triples(rows, y, g, expanded, m2o)
      PROVE  \/ t \in Triples(rows, x, f, nested # {}, m2o)
             \/ \E z \in Followed(rows, x, f, m2o) : t \in Wanted(rows, z, nested, m2o)
    <2>1. CASE y = x /\ g = f /\ expanded = (nested # {})
        BY <1>4, <2>1
    <2>2. CASE \E z \in Followed(rows, x, f, m2o) :
                    LeadsTo(rows, z, nested, m2o, y, g, expanded)
        <3>1. PICK z \in Followed(rows, x, f, m2o) :
                    LeadsTo(rows, z, nested, m2o, y, g, expanded)
            BY <2>2
        <3>2. t \in Wanted(rows, z, nested, m2o)
            BY <1>4, <3>1, WantedAreLedTo, Zenon
        <3> QED
            BY <3>2
    <2> QED
        BY <1>4, <2>1, <2>2, Zenon DEF LeadsByTo
<1> QED
    BY <1>1, <1>2, <1>3, <1>4, Zenon

\* A field cannot be read for one of where it leads.
LEMMA HiddenOfLeads ==
    ASSUME NEW rows, NEW x, NEW f, NEW spec, NEW m2o
    PROVE  HiddenOf(rows, x, f, Below(spec, f), m2o) <=>
                \E y, g, expanded : /\ LeadsByTo(rows, x, f, spec, m2o, y, g, expanded)
                                   /\ Unreadable(rows, y, g, expanded, m2o)
<1> DEFINE nested == Below(spec, f)
           Led == \E y, g, expanded : /\ LeadsByTo(rows, x, f, spec, m2o, y, g, expanded)
                                     /\ Unreadable(rows, y, g, expanded, m2o)
<1>1. HiddenOf(rows, x, f, nested, m2o) <=>
            \/ Unreadable(rows, x, f, nested # {}, m2o)
            \/ \E z \in Followed(rows, x, f, m2o) : Hidden(rows, z, nested, m2o)
    BY Zenon DEF HiddenOf, Unreadable
<1>2. \A z : Hidden(rows, z, nested, m2o) <=>
            \E y, g, expanded : /\ LeadsTo(rows, z, nested, m2o, y, g, expanded)
                               /\ Unreadable(rows, y, g, expanded, m2o)
    BY HiddenAreLedTo, Zenon
<1>3. ASSUME Unreadable(rows, x, f, nested # {}, m2o) PROVE Led
    <2>1. LeadsByTo(rows, x, f, spec, m2o, x, f, nested # {})
        BY Zenon DEF LeadsByTo
    <2> QED
        BY <1>3, <2>1, Zenon
<1>4. ASSUME NEW z \in Followed(rows, x, f, m2o), Hidden(rows, z, nested, m2o) PROVE Led
    <2>1. PICK y, g, expanded : /\ LeadsTo(rows, z, nested, m2o, y, g, expanded)
                               /\ Unreadable(rows, y, g, expanded, m2o)
        BY <1>2, <1>4, Zenon
    <2>2. LeadsByTo(rows, x, f, spec, m2o, y, g, expanded)
        BY <2>1, Zenon DEF LeadsByTo
    <2> QED
        BY <2>1, <2>2, Zenon
<1>5. ASSUME NEW y, NEW g, NEW expanded,
             LeadsByTo(rows, x, f, spec, m2o, y, g, expanded),
             Unreadable(rows, y, g, expanded, m2o)
      PROVE  \/ Unreadable(rows, x, f, nested # {}, m2o)
             \/ \E z \in Followed(rows, x, f, m2o) : Hidden(rows, z, nested, m2o)
    <2>1. CASE y = x /\ g = f /\ expanded = (nested # {})
        BY <1>5, <2>1
    <2>2. CASE \E z \in Followed(rows, x, f, m2o) :
                    LeadsTo(rows, z, nested, m2o, y, g, expanded)
        <3>1. PICK z \in Followed(rows, x, f, m2o) :
                    LeadsTo(rows, z, nested, m2o, y, g, expanded)
            BY <2>2
        <3>2. Hidden(rows, z, nested, m2o)
            BY <1>2, <1>5, <3>1, Zenon
        <3> QED
            BY <3>2
    <2> QED
        BY <1>5, <2>1, <2>2, Zenon DEF LeadsByTo
<1> QED
    BY <1>1, <1>3, <1>4, <1>5, Zenon

\* A record shows what its fields do.
LEMMA WantedByField ==
    ASSUME NEW rows, Sound(rows), NEW x \in DOMAIN rows, NEW m2o,
           NEW n \in Nat, NEW spec, IsSpecification(spec, n)
    PROVE  \A t : t \in Wanted(rows, x, spec, m2o) <=>
                \E f \in Fields(spec) : t \in ShownOf(rows, x, f, Below(spec, f), m2o)
<1>1. \A y, g, expanded :
        LeadsTo(rows, x, spec, m2o, y, g, expanded) <=>
            \E f \in Fields(spec) : LeadsByTo(rows, x, f, spec, m2o, y, g, expanded)
    BY LeadsByField
<1>2. \A f, t : t \in ShownOf(rows, x, f, Below(spec, f), m2o) <=>
            \E y, g, expanded : /\ LeadsByTo(rows, x, f, spec, m2o, y, g, expanded)
                               /\ t \in Triples(rows, y, g, expanded, m2o)
    BY ShownOfLeads, Zenon
<1>3. \A t : t \in Wanted(rows, x, spec, m2o) <=>
            \E y, g, expanded : /\ LeadsTo(rows, x, spec, m2o, y, g, expanded)
                               /\ t \in Triples(rows, y, g, expanded, m2o)
    BY WantedAreLedTo, Zenon
<1> QED
    BY <1>1, <1>2, <1>3, Zenon

\* A record cannot be read for one of its fields.
LEMMA HiddenByField ==
    ASSUME NEW rows, Sound(rows), NEW x \in DOMAIN rows, NEW m2o,
           NEW n \in Nat, NEW spec, IsSpecification(spec, n)
    PROVE  Hidden(rows, x, spec, m2o) <=>
                \E f \in Fields(spec) : HiddenOf(rows, x, f, Below(spec, f), m2o)
<1>1. \A y, g, expanded :
        LeadsTo(rows, x, spec, m2o, y, g, expanded) <=>
            \E f \in Fields(spec) : LeadsByTo(rows, x, f, spec, m2o, y, g, expanded)
    BY LeadsByField
<1>2. \A f : HiddenOf(rows, x, f, Below(spec, f), m2o) <=>
            \E y, g, expanded : /\ LeadsByTo(rows, x, f, spec, m2o, y, g, expanded)
                               /\ Unreadable(rows, y, g, expanded, m2o)
    BY HiddenOfLeads, Zenon
<1>3. Hidden(rows, x, spec, m2o) <=>
            \E y, g, expanded : /\ LeadsTo(rows, x, spec, m2o, y, g, expanded)
                               /\ Unreadable(rows, y, g, expanded, m2o)
    BY HiddenAreLedTo, Zenon
<1> QED
    BY <1>1, <1>2, <1>3, Zenon

\* Nothing is shown, or read, for no path.
LEMMA NothingAsked ==
    ASSUME NEW rows, NEW x, NEW m2o
    PROVE  Wanted(rows, x, {}, m2o) = {} /\ ~Hidden(rows, x, {}, m2o)
<1>1. \A y, g, expanded : ~LeadsTo(rows, x, {}, m2o, y, g, expanded)
    BY DEF LeadsTo
<1>2. \A t : t \notin Wanted(rows, x, {}, m2o)
    BY <1>1, WantedAreLedTo, Zenon
<1>3. ~Hidden(rows, x, {}, m2o)
    BY <1>1, HiddenAreLedTo, Zenon
<1> QED
    BY <1>2, <1>3

----------------------------------------------------------------------------
(* What is serialised *)

\* What a serialisation comes to: refused for a field that cannot be read, or all that
\* is shown.
Outcome(hidden, shown) == IF hidden THEN Refused("denied") ELSE Shows(shown)

\* The outcome for y, if H are those that are hidden.
OutcomeFor(y, H, shown) == Outcome(y \in H, shown[y])

\* Its status and what it shows.
LEMMA OutcomeParts ==
    ASSUME NEW y, NEW H, NEW shown
    PROVE  /\ y \in H => OutcomeFor(y, H, shown).status = "denied"
           /\ y \notin H => /\ OutcomeFor(y, H, shown).status = "ok"
                            /\ OutcomeFor(y, H, shown).shown = shown[y]
BY DEF OutcomeFor, Outcome, Refused, Shows

\* parts are the outcomes for T, which show all.
AreOutcomes(parts, T, H, shown, all) ==
    /\ \A part : part \in parts <=> \E y \in T : part = OutcomeFor(y, H, shown)
    /\ \A t : t \in all <=> \E y \in T : t \in shown[y]

\* Outcomes together are one: what is hidden in one of them hides them all.
LEMMA TogetherOutcome ==
    ASSUME NEW T, NEW H, NEW shown, NEW parts, NEW all, AreOutcomes(parts, T, H, shown, all)
    PROVE  /\ (\E y \in T : y \in H) => Together(parts) = Refused("denied")
           /\ ~(\E y \in T : y \in H) => Together(parts) = Shows(all)
<1> DEFINE hidden == \E y \in T : y \in H
<1> USE DEF AreOutcomes
<1>1. ASSUME NEW part \in parts
      PROVE  /\ part.status # "invalid"
             /\ part.status = "denied" => hidden
             /\ ~hidden => \E y \in T : part.shown = shown[y]
    <2>1. PICK y \in T : part = OutcomeFor(y, H, shown)
        OBVIOUS
    <2> QED
        BY <2>1, OutcomeParts
<1>2. CASE hidden
    <2>1. PICK y \in T : y \in H
        BY <1>2
    <2>2. OutcomeFor(y, H, shown) \in parts
        OBVIOUS
    <2>3. OutcomeFor(y, H, shown).status = "denied"
        BY <2>1, OutcomeParts
    <2> QED
        BY <1>1, <1>2, <2>2, <2>3 DEF Together
<1>3. CASE ~hidden
    <2>1. \A part \in parts : part.status # "invalid" /\ part.status # "denied"
        BY <1>1, <1>3
    <2>2. Together(parts) = Shows(UNION {part.shown : part \in parts})
        BY <2>1 DEF Together
    <2>3. ASSUME NEW y \in T PROVE \E part \in parts : part.shown = shown[y]
        <3>1. OutcomeFor(y, H, shown) \in parts
            OBVIOUS
        <3>2. OutcomeFor(y, H, shown).shown = shown[y]
            BY <1>3, OutcomeParts
        <3> QED
            BY <3>1, <3>2
    <2>4. \A t : t \in UNION {part.shown : part \in parts} <=> \E part \in parts : t \in part.shown
        BY Zenon
    <2>5. \A t : t \in UNION {part.shown : part \in parts} <=> t \in all
        BY <1>1, <1>3, <2>3, <2>4
    <2>6. UNION {part.shown : part \in parts} = all
        BY <2>5
    <2> QED
        BY <1>3, <2>2, <2>6
<1> QED
    BY <1>2, <1>3, Zenon

\* A relation that is expanded shows nothing of its own.
LEMMA TriplesOfExpanded ==
    ASSUME NEW rows, NEW y, NEW f, NEW nested, NEW m2o, nested # {},
           \/ FieldOf(rows[y].model, f).type = "x2many"
           \/ /\ FieldOf(rows[y].model, f).type = "many2one"
              /\ rows[y].values[f] # Unset /\ m2o # "id"
    PROVE  Triples(rows, y, f, nested # {}, m2o) = {}
BY DEF Triples

\* A relation to one record shows it and its name.
LEMMA TriplesOfOne ==
    ASSUME NEW rows, NEW y, NEW f, NEW m2o, ~FieldOf(rows[y].model, f).restricted,
           FieldOf(rows[y].model, f).type = "many2one", rows[y].values[f] # Unset, m2o # "id"
    PROVE  Triples(rows, y, f, {} # {}, m2o) =
                {<<y, f, rows[y].values[f]>>,
                 <<rows[y].values[f], "name", rows[rows[y].values[f]].values["name"]>>}
BY DEF Triples

\* A relation to many shows each.
LEMMA TriplesOfMany ==
    ASSUME NEW rows, NEW y, NEW f, NEW m2o, ~FieldOf(rows[y].model, f).restricted,
           FieldOf(rows[y].model, f).type = "x2many"
    PROVE  Triples(rows, y, f, {} # {}, m2o) = {<<y, f, z>> : z \in Related(rows, y, f)}
BY DEF Triples

\* Where a field leads that groups= leaves to the caller, and one it does not.
LEMMA FollowedByType ==
    ASSUME NEW rows, NEW x, NEW f, NEW m2o
    PROVE  LET field == FieldOf(rows[x].model, f) IN
           /\ field.restricted => Followed(rows, x, f, m2o) = {}
           /\ f \in DOMAIN Schema[rows[x].model] /\ ~field.restricted =>
                Followed(rows, x, f, m2o) =
                    IF field.type \notin Relational \/ (field.type = "many2one" /\ m2o = "id")
                    THEN {} ELSE Related(rows, x, f)
<1> DEFINE field == FieldOf(rows[x].model, f)
           to == Followed(rows, x, f, m2o)
           related == Related(rows, x, f)
           known == f \in DOMAIN Schema[rows[x].model]
           kept == field.type = "many2one" /\ m2o = "id"
<1>1. to = IF ~known \/ field.restricted \/ field.type \notin Relational \/ kept
           THEN {} ELSE related
    BY DEF Followed
<1> HIDE DEF to, related, known, kept, field
<1>2. /\ field.restricted => to = {}
      /\ known /\ ~field.restricted =>
            to = IF field.type \notin Relational \/ kept THEN {} ELSE related
    BY <1>1
<1> QED
    BY <1>2 DEF to, related, known, kept, field

\* serialized shows of the records f leads to what is below f.
ServesBelow(rows, x, f, nested, m2o, serialized) ==
    FieldOf(rows[x].model, f).type \in Relational =>
        \A y \in Related(rows, x, f) :
            serialized[y][nested] =
                Outcome(Hidden(rows, y, nested, m2o), Wanted(rows, y, nested, m2o))

\* A field that does not lead anywhere is shown as it is.
LEMMA ServedAsItIs ==
    ASSUME NEW rows, NEW x, NEW f \in DOMAIN Schema[rows[x].model], NEW nested, NEW m2o,
           ~FieldOf(rows[x].model, f).restricted, MayRead(rows, x, f),
           \/ FieldOf(rows[x].model, f).type \notin Relational
           \/ /\ FieldOf(rows[x].model, f).type = "many2one"
              /\ rows[x].values[f] = Unset \/ m2o = "id"
    PROVE  Outcome(HiddenOf(rows, x, f, nested, m2o), ShownOf(rows, x, f, nested, m2o))
                = Shows({<<x, f, rows[x].values[f]>>})
<1> DEFINE field == FieldOf(rows[x].model, f)
           single == {<<x, f, rows[x].values[f]>>}
<1>1. Triples(rows, x, f, nested # {}, m2o) = single
    <2>1. ~(field.type = "many2one" /\ rows[x].values[f] # Unset /\ m2o # "id")
        BY DEF Relational
    <2>2. field.type # "x2many"
        BY DEF Relational
    <2> QED
        BY <2>1, <2>2 DEF Triples
<1>2. Followed(rows, x, f, m2o) = {}
    <2>1. field.type = "many2one" /\ rows[x].values[f] = Unset => Related(rows, x, f) = {}
        BY DEF Related
    <2> QED
        BY <2>1, FollowedByType
<1>3. ~HiddenOf(rows, x, f, nested, m2o)
    <2>1. \A t \in single : t[1] = x /\ t[2] = f
        OBVIOUS
    <2> HIDE DEF single
    <2>2. \A t \in single : MayRead(rows, t[1], t[2])
        BY <2>1
    <2> QED
        BY <1>1, <1>2, <2>2, Zenon DEF HiddenOf
<1>4. ShownOf(rows, x, f, nested, m2o) = single
    <2>1. \A t : t \in ShownOf(rows, x, f, nested, m2o) <=>
                \/ t \in Triples(rows, x, f, nested # {}, m2o)
                \/ \E y \in Followed(rows, x, f, m2o) : t \in Wanted(rows, y, nested, m2o)
        BY Zenon DEF ShownOf
    <2>2. \A t : t \in ShownOf(rows, x, f, nested, m2o) <=> t \in single
        BY <1>1, <1>2, <2>1
    <2> QED
        BY <2>2
<1> QED
    BY <1>3, <1>4 DEF Outcome

\* A relation to a single record shows its name, if that can be read.
LEMMA ServedByName ==
    ASSUME NEW rows, NEW x, NEW f \in DOMAIN Schema[rows[x].model], NEW m2o,
           ~FieldOf(rows[x].model, f).restricted, MayRead(rows, x, f),
           FieldOf(rows[x].model, f).type = "many2one", rows[x].values[f] # Unset, m2o # "id"
    PROVE  Outcome(HiddenOf(rows, x, f, {}, m2o), ShownOf(rows, x, f, {}, m2o))
                = DisplayName(rows, x, f, rows[x].values[f])
<1> DEFINE v == rows[x].values[f]
           name == <<v, "name", rows[v].values["name"]>>
           both == {<<x, f, v>>, name}
<1>1. Triples(rows, x, f, {} # {}, m2o) = both
    BY TriplesOfOne
<1>2. Followed(rows, x, f, m2o) = Related(rows, x, f)
    BY FollowedByType DEF Relational
<1>3. \A y : Wanted(rows, y, {}, m2o) = {} /\ ~Hidden(rows, y, {}, m2o)
    BY NothingAsked
<1>4. HiddenOf(rows, x, f, {}, m2o) <=> ~MayRead(rows, v, "name")
    <2>1. <<x, f, v>>[1] = x /\ <<x, f, v>>[2] = f /\ name[1] = v /\ name[2] = "name"
        OBVIOUS
    <2>2. /\ MayRead(rows, <<x, f, v>>[1], <<x, f, v>>[2])
          /\ MayRead(rows, name[1], name[2]) <=> MayRead(rows, v, "name")
        BY <2>1
    <2>3. (\E t \in both : ~MayRead(rows, t[1], t[2])) <=> ~MayRead(rows, v, "name")
        <3> HIDE DEF name
        <3> QED
            BY <2>2, Zenon
    <2> QED
        BY <1>1, <1>3, <2>3, Zenon DEF HiddenOf
<1>5. ShownOf(rows, x, f, {}, m2o) = both
    <2>1. \A t : t \in ShownOf(rows, x, f, {}, m2o) <=>
                \/ t \in Triples(rows, x, f, {} # {}, m2o)
                \/ \E y \in Followed(rows, x, f, m2o) : t \in Wanted(rows, y, {}, m2o)
        BY Zenon DEF ShownOf
    <2>2. \A t : t \in ShownOf(rows, x, f, {}, m2o) <=> t \in both
        BY <1>1, <1>3, <2>1
    <2> QED
        BY <2>2
<1> QED
    BY <1>4, <1>5 DEF Outcome, DisplayName

\* A relation to many shows which they are.
LEMMA ServedEach ==
    ASSUME NEW rows, NEW x, NEW f \in DOMAIN Schema[rows[x].model], NEW m2o,
           ~FieldOf(rows[x].model, f).restricted, MayRead(rows, x, f),
           FieldOf(rows[x].model, f).type = "x2many"
    PROVE  Outcome(HiddenOf(rows, x, f, {}, m2o), ShownOf(rows, x, f, {}, m2o))
                = Shows({<<x, f, z>> : z \in Related(rows, x, f)})
<1> DEFINE each == {<<x, f, z>> : z \in Related(rows, x, f)}
<1>1. Triples(rows, x, f, {} # {}, m2o) = each
    BY TriplesOfMany
<1>2. \A y : Wanted(rows, y, {}, m2o) = {} /\ ~Hidden(rows, y, {}, m2o)
    BY NothingAsked
<1>3. ~HiddenOf(rows, x, f, {}, m2o)
    <2>1. \A t \in each : t[1] = x /\ t[2] = f
        OBVIOUS
    <2> HIDE DEF each
    <2>2. \A t \in each : MayRead(rows, t[1], t[2])
        BY <2>1
    <2> QED
        BY <1>1, <1>2, <2>2, Zenon DEF HiddenOf
<1>4. ShownOf(rows, x, f, {}, m2o) = each
    <2>1. \A t : t \in ShownOf(rows, x, f, {}, m2o) <=>
                \/ t \in Triples(rows, x, f, {} # {}, m2o)
                \/ \E y \in Followed(rows, x, f, m2o) : t \in Wanted(rows, y, {}, m2o)
        BY Zenon DEF ShownOf
    <2> HIDE DEF each
    <2>2. \A t : t \in ShownOf(rows, x, f, {}, m2o) <=> t \in each
        BY <1>1, <1>2, <2>1
    <2> QED
        BY <2>2
<1> QED
    BY <1>3, <1>4 DEF Outcome

\* A relation that is expanded shows what is below it of every record it leads to.
LEMMA ServedExpanded ==
    ASSUME NEW rows, NEW x, NEW f \in DOMAIN Schema[rows[x].model], NEW nested, NEW m2o,
           NEW serialized,
           ~FieldOf(rows[x].model, f).restricted, MayRead(rows, x, f), nested # {},
           \/ FieldOf(rows[x].model, f).type = "x2many"
           \/ /\ FieldOf(rows[x].model, f).type = "many2one"
              /\ rows[x].values[f] # Unset /\ m2o # "id",
           ServesBelow(rows, x, f, nested, m2o, serialized)
    PROVE  Outcome(HiddenOf(rows, x, f, nested, m2o), ShownOf(rows, x, f, nested, m2o))
                = Together({serialized[y][nested] : y \in Related(rows, x, f)})
<1> DEFINE to == Related(rows, x, f)
           hidden == HiddenOf(rows, x, f, nested, m2o)
           all == ShownOf(rows, x, f, nested, m2o)
           H == {y \in to : Hidden(rows, y, nested, m2o)}
           shown == [y \in to |-> Wanted(rows, y, nested, m2o)]
           parts == {serialized[y][nested] : y \in to}
<1>1. Triples(rows, x, f, nested # {}, m2o) = {}
    BY TriplesOfExpanded
<1>2. Followed(rows, x, f, m2o) = to
    BY FollowedByType DEF Relational
<1>3. hidden <=> \E y \in to : y \in H
    BY <1>1, <1>2, Zenon DEF HiddenOf
<1>4. \A t : t \in all <=> \E y \in to : t \in shown[y]
    <2>1. \A t : t \in all <=>
                \/ t \in Triples(rows, x, f, nested # {}, m2o)
                \/ \E y \in Followed(rows, x, f, m2o) : t \in Wanted(rows, y, nested, m2o)
        BY Zenon DEF ShownOf
    <2> HIDE DEF all, to
    <2> QED
        BY <1>1, <1>2, <2>1
<1>5. \A part : part \in parts <=> \E y \in to : part = OutcomeFor(y, H, shown)
    <2>1. ASSUME NEW y \in to PROVE serialized[y][nested] = OutcomeFor(y, H, shown)
        <3>1. y \in H <=> Hidden(rows, y, nested, m2o)
            OBVIOUS
        <3>2. shown[y] = Wanted(rows, y, nested, m2o)
            OBVIOUS
        <3>3. serialized[y][nested] =
                    Outcome(Hidden(rows, y, nested, m2o), Wanted(rows, y, nested, m2o))
            BY Zenon DEF ServesBelow, Relational
        <3> HIDE DEF H, shown
        <3> QED
            BY <3>1, <3>2, <3>3 DEF OutcomeFor, Outcome
    <2>2. \A part : part \in parts <=> \E y \in to : part = serialized[y][nested]
        BY Zenon
    <2> HIDE DEF H, shown, to, parts
    <2>3. ASSUME NEW part PROVE part \in parts <=> \E y \in to : part = OutcomeFor(y, H, shown)
        <3>1. part \in parts <=> \E y \in to : part = serialized[y][nested]
            BY <2>2, Zenon
        <3>2. \A y \in to : serialized[y][nested] = OutcomeFor(y, H, shown)
            BY <2>1, Zenon
        <3> QED
            BY <3>1, <3>2, Zenon
    <2> QED
        BY <2>3, Zenon
<1> HIDE DEF H, shown, to, parts, all
<1>6. /\ (\E y \in to : y \in H) => Together(parts) = Refused("denied")
      /\ ~(\E y \in to : y \in H) => Together(parts) = Shows(all)
    <2>1. AreOutcomes(parts, to, H, shown, all)
        BY <1>4, <1>5 DEF AreOutcomes
    <2> QED
        BY <2>1, TogetherOutcome
<1>7. Together(parts) = Outcome(hidden, all)
    BY <1>3, <1>6 DEF Outcome
<1> QED
    BY <1>7 DEF to, parts, all

\* A field that groups= leaves to the caller is serialised as asked.
LEMMA FieldIsServed ==
    ASSUME NEW rows, NEW x, NEW f \in DOMAIN Schema[rows[x].model], NEW nested, NEW m2o,
           NEW serialized, ~FieldOf(rows[x].model, f).restricted,
           nested # {} => /\ FieldOf(rows[x].model, f).type \in Relational
                          /\ Valid(FieldOf(rows[x].model, f).comodel, nested),
           ServesBelow(rows, x, f, nested, m2o, serialized)
    PROVE  SerializeValue(rows, x, f, nested, m2o, serialized) =
                Outcome(HiddenOf(rows, x, f, nested, m2o), ShownOf(rows, x, f, nested, m2o))
<1> DEFINE field == FieldOf(rows[x].model, f)
           v == rows[x].values[f]
           served == SerializeValue(rows, x, f, nested, m2o, serialized)
           outcome == Outcome(HiddenOf(rows, x, f, nested, m2o),
                              ShownOf(rows, x, f, nested, m2o))
           expanded == IF Valid(field.comodel, nested)
                       THEN Together({serialized[y][nested] : y \in Related(rows, x, f)})
                       ELSE Refused("invalid")
           name == DisplayName(rows, x, f, v)
           itself == Shows({<<x, f, v>>})
           each == Shows({<<x, f, y>> : y \in Related(rows, x, f)})
<1>1. served =
        IF ~MayRead(rows, x, f) THEN Refused("denied")
        ELSE CASE field.type = "many2one" ->
                    (IF v = Unset \/ m2o = "id" THEN itself
                     ELSE IF nested # {} THEN expanded ELSE name)
               [] field.type = "x2many" -> (IF nested # {} THEN expanded ELSE each)
               [] OTHER -> itself
    BY DEF SerializeValue
<1>2. ~MayRead(rows, x, f) => outcome = Refused("denied")
    BY DEF HiddenOf, Outcome
<1>3. /\ MayRead(rows, x, f)
      /\ \/ field.type \notin Relational
         \/ field.type = "many2one" /\ (v = Unset \/ m2o = "id")
      => outcome = itself
    BY ServedAsItIs
<1>4. /\ MayRead(rows, x, f) /\ nested = {}
      /\ field.type = "many2one" /\ v # Unset /\ m2o # "id"
      => outcome = name
    BY ServedByName
<1>5. MayRead(rows, x, f) /\ nested = {} /\ field.type = "x2many" => outcome = each
    BY ServedEach
<1>6. /\ MayRead(rows, x, f) /\ nested # {}
      /\ \/ field.type = "x2many"
         \/ field.type = "many2one" /\ v # Unset /\ m2o # "id"
      => outcome = expanded
    <2>1. nested # {} =>
            expanded = Together({serialized[y][nested] : y \in Related(rows, x, f)})
        OBVIOUS
    <2> QED
        BY <2>1, ServedExpanded
<1> HIDE DEF field, v, served, outcome, expanded, name, itself, each
<1>7. served = outcome
    BY <1>1, <1>2, <1>3, <1>4, <1>5, <1>6 DEF Relational
<1> QED
    BY <1>7 DEF served, outcome

\* A field that groups= keeps from the caller shows nothing, and hides nothing.
LEMMA RestrictedIsLeftOut ==
    ASSUME NEW rows, NEW x, NEW f, NEW nested, NEW m2o, FieldOf(rows[x].model, f).restricted
    PROVE  ~HiddenOf(rows, x, f, nested, m2o) /\ \A t : t \notin ShownOf(rows, x, f, nested, m2o)
<1>1. Triples(rows, x, f, nested # {}, m2o) = {}
    BY DEF Triples
<1>2. Followed(rows, x, f, m2o) = {}
    BY FollowedByType
<1>3. ~HiddenOf(rows, x, f, nested, m2o)
    BY <1>1, <1>2 DEF HiddenOf
<1>4. \A t : t \in ShownOf(rows, x, f, nested, m2o) <=>
            \/ t \in Triples(rows, x, f, nested # {}, m2o)
            \/ \E y \in Followed(rows, x, f, m2o) : t \in Wanted(rows, y, nested, m2o)
    BY Zenon DEF ShownOf
<1> QED
    BY <1>1, <1>2, <1>3, <1>4

\* What the fields of a record show, with one level less below them.
Parts(before, rows, x, wanted, m2o) ==
    {SerializeValue(rows, x, f, Below(wanted, f), m2o, before)
        : f \in Readable(rows[x].model, wanted)}

\* What records show, with one level more.
SerializedNext(before, rows, m2o, n) ==
    [x \in DOMAIN rows |->
        [wanted \in SUBSET Path |->
            IF n = 0 THEN Shows({}) ELSE Together(Parts(before, rows, x, wanted, m2o))]]

\* s is what SerializeRecords computes, up to m levels.
IsSerialized(s, rows, m2o, m) ==
    s = [n \in 0 .. m |-> SerializedNext(s[n - 1], rows, m2o, n)]

\* The recursion of SerializeRecords defines a function.
LEMMA SerializedIsDefined ==
    ASSUME NEW rows, NEW m2o, NEW m \in Nat
    PROVE  \E s : IsSerialized(s, rows, m2o, m)
<1> DEFINE A == {n \in Nat : \E s : IsSerialized(s, rows, m2o, n)}
<1>1. \A a, b : SerializedNext(a, rows, m2o, 0) = SerializedNext(b, rows, m2o, 0)
    BY DEF SerializedNext
<1>2. 0 \in A
    <2> DEFINE s == [n \in 0 .. 0 |-> SerializedNext(<<>>, rows, m2o, 0)]
    <2>1. \A n \in 0 .. 0 : s[n] = SerializedNext(s[n - 1], rows, m2o, n)
        <3>1. \A n \in 0 .. 0 : n = 0
            OBVIOUS
        <3>2. s[0] = SerializedNext(<<>>, rows, m2o, 0)
            OBVIOUS
        <3> HIDE DEF s
        <3> QED
            BY <1>1, <3>1, <3>2
    <2>2. s = [n \in 0 .. 0 |-> s[n]]
        OBVIOUS
    <2> HIDE DEF s
    <2>3. IsSerialized(s, rows, m2o, 0)
        BY <2>1, <2>2 DEF IsSerialized
    <2> QED
        BY <2>3
<1>3. ASSUME NEW n \in A PROVE n + 1 \in A
    <2>1. n \in Nat
        OBVIOUS
    <2>2. PICK s : IsSerialized(s, rows, m2o, n)
        OBVIOUS
    <2> DEFINE r == [i \in 0 .. n + 1 |->
                        IF i = n + 1 THEN SerializedNext(s[n], rows, m2o, n + 1) ELSE s[i]]
    <2>3. (\A i \in 0 .. n : r[i] = s[i]) /\ r[n + 1] = SerializedNext(s[n], rows, m2o, n + 1)
        BY <2>1
    <2>4. r = [i \in 0 .. n + 1 |-> r[i]]
        OBVIOUS
    <2> HIDE DEF r
    <2>5. ASSUME NEW i \in 0 .. n + 1
          PROVE  r[i] = SerializedNext(r[i - 1], rows, m2o, i)
        <3>1. CASE i = n + 1
            <4>1. i - 1 = n /\ n \in 0 .. n
                BY <2>1, <3>1
            <4> QED
                BY <2>3, <3>1, <4>1
        <3>2. CASE i \in 1 .. n
            <4>1. i \in 0 .. n /\ i - 1 \in 0 .. n
                BY <2>1, <3>2
            <4>2. s[i] = SerializedNext(s[i - 1], rows, m2o, i)
                BY <2>2, <4>1 DEF IsSerialized
            <4> QED
                BY <2>3, <4>1, <4>2
        <3>3. CASE i = 0
            <4>1. 0 \in 0 .. n
                BY <2>1
            <4>2. s[0] = SerializedNext(s[0 - 1], rows, m2o, 0)
                BY <2>2, <4>1 DEF IsSerialized
            <4> QED
                BY <1>1, <2>3, <3>3, <4>1, <4>2
        <3> QED
            BY <2>1, <3>1, <3>2, <3>3
    <2>6. IsSerialized(r, rows, m2o, n + 1)
        BY <2>4, <2>5 DEF IsSerialized
    <2> QED
        BY <2>6
<1>4. A = Nat
    <2> HIDE DEF A
    <2>1. A \in SUBSET Nat
        BY DEF A
    <2> QED
        BY <1>2, <1>3, <2>1, SetInduction
<1> QED
    BY <1>4

\* serialized shows of every record what a specification of its model's fields, of at
\* most n levels, asks for.
ServesLevels(serialized, rows, m2o, n) ==
    \A x \in DOMAIN rows : \A spec :
        IsSpecification(spec, n) /\ WellFormed(rows[x].model, spec) =>
            serialized[x][spec] = Outcome(Hidden(rows, x, spec, m2o), Wanted(rows, x, spec, m2o))

\* The parts of a record are the outcomes of its fields.
LEMMA PartsAreServed ==
    ASSUME NEW rows, Sound(rows), NEW m2o, NEW n \in Nat, n <= MaxDepth, NEW before,
           ServesLevels(before, rows, m2o, n), NEW x \in DOMAIN rows,
           NEW spec, IsSpecification(spec, n + 1), WellFormed(rows[x].model, spec),
           NEW f \in Fields(spec), ~FieldOf(rows[x].model, f).restricted
    PROVE  SerializeValue(rows, x, f, Below(spec, f), m2o, before) =
                Outcome(HiddenOf(rows, x, f, Below(spec, f), m2o),
                        ShownOf(rows, x, f, Below(spec, f), m2o))
<1> DEFINE nested == Below(spec, f)
           field == FieldOf(rows[x].model, f)
<1>1. rows[x].model \in DOMAIN Schema
    BY RecordsAreTyped
<1>2. IsSpecification(nested, n)
    BY BelowIsSpecification
<1>3. /\ f \in DOMAIN Schema[rows[x].model]
      /\ nested # {} => field.type \in Relational /\ WellFormed(field.comodel, nested)
    <2>1. n + 1 \in Nat
        OBVIOUS
    <2> QED
        BY <1>1, <2>1, WellFormedByField, Zenon
<1>4. field.type \in Relational => field.comodel \in DOMAIN Schema
    BY <1>1, <1>3, FieldsAreTyped
<1> HIDE DEF nested, field
<1>5. nested # {} => Valid(field.comodel, nested)
    <2>1. IsSpecification(nested, MaxDepth)
        BY <1>2, LongerSpecification, DepthIsNatural
    <2> QED
        BY <1>3, <1>4, <2>1, ValidMeansWellFormed
<1>6. WellFormed(field.comodel, nested)
    BY <1>3 DEF WellFormed
<1>7. ASSUME field.type \in Relational, NEW y \in Related(rows, x, f)
      PROVE  before[y][nested] =
                Outcome(Hidden(rows, y, nested, m2o), Wanted(rows, y, nested, m2o))
    <2>1. y \in DOMAIN rows /\ rows[y].model = field.comodel
        BY <1>3, <1>7, RelatedAreTyped DEF Of, field
    <2>2. WellFormed(rows[y].model, nested)
        BY <1>6, <2>1
    <2> QED
        BY <1>2, <2>1, <2>2, Zenon DEF ServesLevels
<1>8. ServesBelow(rows, x, f, nested, m2o, before)
    BY <1>7 DEF ServesBelow, field
<1>9. SerializeValue(rows, x, f, nested, m2o, before) =
        Outcome(HiddenOf(rows, x, f, nested, m2o), ShownOf(rows, x, f, nested, m2o))
    BY <1>3, <1>5, <1>8, FieldIsServed DEF field
<1> QED
    BY <1>9 DEF nested

\* One more level is served if those before it are.
LEMMA NextLevelIsServed ==
    ASSUME NEW rows, Sound(rows), NEW m2o, NEW n \in Nat, n <= MaxDepth, NEW before,
           ServesLevels(before, rows, m2o, n), NEW x \in DOMAIN rows,
           NEW spec, IsSpecification(spec, n + 1), WellFormed(rows[x].model, spec)
    PROVE  Together(Parts(before, rows, x, spec, m2o)) =
                Outcome(Hidden(rows, x, spec, m2o), Wanted(rows, x, spec, m2o))
<1> DEFINE T == Readable(rows[x].model, spec)
           H == {f \in T : HiddenOf(rows, x, f, Below(spec, f), m2o)}
           shown == [f \in T |-> ShownOf(rows, x, f, Below(spec, f), m2o)]
           parts == Parts(before, rows, x, spec, m2o)
           all == Wanted(rows, x, spec, m2o)
<1>1. \A f : f \in T <=> f \in Fields(spec) /\ ~FieldOf(rows[x].model, f).restricted
    BY DEF Readable
<1>2. n + 1 \in Nat
    OBVIOUS
<1>3. \A t : t \in all <=> \E f \in T : t \in shown[f]
    <2>1. \A t : t \in all <=>
                \E f \in Fields(spec) : t \in ShownOf(rows, x, f, Below(spec, f), m2o)
        BY <1>2, WantedByField
    <2>2. \A f : FieldOf(rows[x].model, f).restricted =>
                \A t : t \notin ShownOf(rows, x, f, Below(spec, f), m2o)
        BY RestrictedIsLeftOut, Zenon
    <2>3. \A f \in T : shown[f] = ShownOf(rows, x, f, Below(spec, f), m2o)
        OBVIOUS
    <2> HIDE DEF T, all, shown
    <2> QED
        BY <1>1, <2>1, <2>2, <2>3
<1>4. Hidden(rows, x, spec, m2o) <=> \E f \in T : f \in H
    <2>1. Hidden(rows, x, spec, m2o) <=>
                \E f \in Fields(spec) : HiddenOf(rows, x, f, Below(spec, f), m2o)
        BY <1>2, HiddenByField
    <2>2. \A f : FieldOf(rows[x].model, f).restricted =>
                ~HiddenOf(rows, x, f, Below(spec, f), m2o)
        BY RestrictedIsLeftOut, Zenon
    <2>3. \A f \in T : f \in H <=> HiddenOf(rows, x, f, Below(spec, f), m2o)
        OBVIOUS
    <2> HIDE DEF T, H
    <2> QED
        BY <1>1, <2>1, <2>2, <2>3, Zenon
<1>5. ASSUME NEW f \in T
      PROVE  SerializeValue(rows, x, f, Below(spec, f), m2o, before) = OutcomeFor(f, H, shown)
    <2>1. f \in H <=> HiddenOf(rows, x, f, Below(spec, f), m2o)
        OBVIOUS
    <2>2. shown[f] = ShownOf(rows, x, f, Below(spec, f), m2o)
        OBVIOUS
    <2> HIDE DEF T, H, shown
    <2>3. SerializeValue(rows, x, f, Below(spec, f), m2o, before) =
                Outcome(HiddenOf(rows, x, f, Below(spec, f), m2o),
                        ShownOf(rows, x, f, Below(spec, f), m2o))
        BY <1>1, PartsAreServed
    <2> QED
        BY <2>1, <2>2, <2>3 DEF OutcomeFor, Outcome
<1>6. \A part : part \in parts <=>
            \E f \in T : part = SerializeValue(rows, x, f, Below(spec, f), m2o, before)
    BY Zenon DEF Parts
<1> HIDE DEF T, H, shown, parts, all
<1>7. AreOutcomes(parts, T, H, shown, all)
    BY <1>3, <1>5, <1>6, Zenon DEF AreOutcomes
<1>8. /\ (\E f \in T : f \in H) => Together(parts) = Refused("denied")
      /\ ~(\E f \in T : f \in H) => Together(parts) = Shows(all)
    BY <1>7, TogetherOutcome
<1>9. Together(parts) = Outcome(Hidden(rows, x, spec, m2o), all)
    BY <1>4, <1>8 DEF Outcome
<1> QED
    BY <1>9 DEF parts, all

\* Every level is served.
LEMMA LevelsAreServed ==
    ASSUME NEW rows, Sound(rows), NEW m2o, NEW s, IsSerialized(s, rows, m2o, MaxDepth)
    PROVE  ServesLevels(s[MaxDepth], rows, m2o, MaxDepth)
<1> DEFINE A == {n \in Nat : n <= MaxDepth => ServesLevels(s[n], rows, m2o, n)}
<1>1. ASSUME NEW n \in 0 .. MaxDepth, NEW x \in DOMAIN rows, NEW wanted \in SUBSET Path
      PROVE  s[n][x][wanted] =
                IF n = 0 THEN Shows({}) ELSE Together(Parts(s[n - 1], rows, x, wanted, m2o))
    <2>1. s[n] = SerializedNext(s[n - 1], rows, m2o, n)
        BY DEF IsSerialized
    <2> QED
        BY <2>1 DEF SerializedNext
<1>2. 0 \in A
    <2>1. ASSUME NEW x \in DOMAIN rows, NEW spec, IsSpecification(spec, 0)
          PROVE  s[0][x][spec] = Outcome(Hidden(rows, x, spec, m2o), Wanted(rows, x, spec, m2o))
        <3>1. spec = {}
            BY <2>1, NoSpecification
        <3>2. s[0][x][{}] = Shows({})
            BY <1>1, DepthIsNatural
        <3>3. Wanted(rows, x, {}, m2o) = {} /\ ~Hidden(rows, x, {}, m2o)
            BY NothingAsked
        <3> QED
            BY <3>1, <3>2, <3>3 DEF Outcome
    <2> QED
        BY <2>1 DEF ServesLevels
<1>3. ASSUME NEW n \in A PROVE n + 1 \in A
    <2>1. SUFFICES ASSUME n + 1 <= MaxDepth PROVE ServesLevels(s[n + 1], rows, m2o, n + 1)
        OBVIOUS
    <2>2. n \in Nat /\ n <= MaxDepth /\ n + 1 \in 0 .. MaxDepth /\ n + 1 - 1 = n /\ n + 1 # 0
        BY <2>1, DepthIsNatural
    <2>3. ServesLevels(s[n], rows, m2o, n)
        BY <2>2
    <2> HIDE DEF A
    <2>4. ASSUME NEW x \in DOMAIN rows, NEW spec, IsSpecification(spec, n + 1),
                 WellFormed(rows[x].model, spec)
          PROVE  s[n + 1][x][spec] =
                    Outcome(Hidden(rows, x, spec, m2o), Wanted(rows, x, spec, m2o))
        <3>1. spec \in SUBSET Path
            BY <2>4 DEF IsSpecification
        <3> DEFINE k == n + 1
        <3>2. k \in 0 .. MaxDepth /\ k # 0 /\ k - 1 = n
            BY <2>2
        <3> HIDE DEF k
        <3>3. s[k][x][spec] = Together(Parts(s[k - 1], rows, x, spec, m2o))
            BY <1>1, <3>1, <3>2
        <3>4. s[k][x][spec] = Together(Parts(s[n], rows, x, spec, m2o))
            BY <3>2, <3>3
        <3>5. Together(Parts(s[n], rows, x, spec, m2o)) =
                    Outcome(Hidden(rows, x, spec, m2o), Wanted(rows, x, spec, m2o))
            BY <2>2, <2>3, <2>4, NextLevelIsServed
        <3> QED
            BY <3>4, <3>5 DEF k
    <2> QED
        BY <2>4, Zenon DEF ServesLevels
<1>4. A = Nat
    <2> HIDE DEF A
    <2>1. A \in SUBSET Nat
        BY DEF A
    <2> QED
        BY <1>2, <1>3, <2>1, SetInduction
<1> QED
    BY <1>4, DepthIsNatural

\* Records of a model that a well-formed specification serialises: all of what is asked
\* of them, or the refusal of it; and the refusal of one that is not.
LEMMA RecordsAreServed ==
    ASSUME NEW rows, Sound(rows), NEW m \in DOMAIN Schema, NEW m2o,
           NEW records, records \subseteq Of(rows, m),
           NEW spec, IsSpecification(spec, MaxDepth)
    PROVE  /\ ~WellFormed(m, spec) => SerializeRecords(rows, m, records, spec, m2o) = Refused("invalid")
           /\ WellFormed(m, spec) /\ (\E x \in records : Hidden(rows, x, spec, m2o)) =>
                SerializeRecords(rows, m, records, spec, m2o) = Refused("denied")
           /\ WellFormed(m, spec) /\ (\A x \in records : ~Hidden(rows, x, spec, m2o)) =>
                SerializeRecords(rows, m, records, spec, m2o) =
                    Shows(UNION {Wanted(rows, x, spec, m2o) : x \in records})
<1> DEFINE s == CHOOSE s : IsSerialized(s, rows, m2o, MaxDepth)
           H == {x \in records : Hidden(rows, x, spec, m2o)}
           shown == [x \in records |-> Wanted(rows, x, spec, m2o)]
           parts == {s[MaxDepth][x][spec] : x \in records}
           all == UNION {Wanted(rows, x, spec, m2o) : x \in records}
           served == SerializeRecords(rows, m, records, spec, m2o)
<1>1. IsSerialized(s, rows, m2o, MaxDepth)
    BY SerializedIsDefined, DepthIsNatural
<1>2. served = IF Valid(m, spec) THEN Together(parts) ELSE Refused("invalid")
    BY DEF SerializeRecords, IsSerialized, SerializedNext, Parts
<1> HIDE DEF s, served
<1>3. served = IF WellFormed(m, spec) THEN Together(parts) ELSE Refused("invalid")
    BY <1>2, ValidMeansWellFormed
<1>4. ASSUME WellFormed(m, spec), NEW x \in records
      PROVE  s[MaxDepth][x][spec] = OutcomeFor(x, H, shown)
    <2>1. x \in DOMAIN rows /\ rows[x].model = m
        BY DEF Of
    <2>2. ServesLevels(s[MaxDepth], rows, m2o, MaxDepth)
        BY <1>1, LevelsAreServed
    <2>3. WellFormed(rows[x].model, spec)
        BY <1>4, <2>1
    <2>4. s[MaxDepth][x][spec] = Outcome(Hidden(rows, x, spec, m2o), Wanted(rows, x, spec, m2o))
        BY <2>1, <2>2, <2>3, Zenon DEF ServesLevels
    <2>5. (x \in H <=> Hidden(rows, x, spec, m2o)) /\ shown[x] = Wanted(rows, x, spec, m2o)
        OBVIOUS
    <2> HIDE DEF H, shown
    <2> QED
        BY <2>4, <2>5 DEF OutcomeFor, Outcome
<1>5. \A t : t \in all <=> \E x \in records : t \in shown[x]
    <2>1. \A t : t \in all <=> \E x \in records : t \in Wanted(rows, x, spec, m2o)
        BY Zenon
    <2>2. \A x \in records : shown[x] = Wanted(rows, x, spec, m2o)
        OBVIOUS
    <2> HIDE DEF all, shown
    <2> QED
        BY <2>1, <2>2
<1>6. \A x \in records : x \in H <=> Hidden(rows, x, spec, m2o)
    OBVIOUS
<1>7. \A part : part \in parts <=> \E x \in records : part = s[MaxDepth][x][spec]
    BY Zenon
<1> HIDE DEF H, shown, parts, all
<1>8. ASSUME WellFormed(m, spec) PROVE AreOutcomes(parts, records, H, shown, all)
    <2>1. \A x \in records : s[MaxDepth][x][spec] = OutcomeFor(x, H, shown)
        BY <1>4, <1>8
    <2>2. \A part : part \in parts <=> \E x \in records : part = OutcomeFor(x, H, shown)
        BY <1>7, <2>1
    <2> QED
        BY <1>5, <2>2, Zenon DEF AreOutcomes
<1>9. WellFormed(m, spec) =>
        /\ (\E x \in records : x \in H) => Together(parts) = Refused("denied")
        /\ ~(\E x \in records : x \in H) => Together(parts) = Shows(all)
    BY <1>8, TogetherOutcome
<1>10. /\ ~WellFormed(m, spec) => served = Refused("invalid")
       /\ WellFormed(m, spec) /\ (\E x \in records : Hidden(rows, x, spec, m2o)) =>
                served = Refused("denied")
       /\ WellFormed(m, spec) /\ (\A x \in records : ~Hidden(rows, x, spec, m2o)) =>
                served = Shows(all)
    BY <1>3, <1>6, <1>9
<1> QED
    BY <1>10 DEF served, all

----------------------------------------------------------------------------
(* What a write leaves as it was *)

\* What cannot be read for a field: the field itself, the name of the record it shows,
\* or what is below it.
LEMMA HiddenOfByType ==
    ASSUME NEW rows, NEW x, NEW f, NEW nested, NEW m2o
    PROVE  HiddenOf(rows, x, f, nested, m2o) <=>
                /\ ~FieldOf(rows[x].model, f).restricted
                /\ \/ ~MayRead(rows, x, f)
                   \/ /\ FieldOf(rows[x].model, f).type = "many2one"
                      /\ rows[x].values[f] # Unset /\ m2o # "id" /\ nested = {}
                      /\ ~MayRead(rows, rows[x].values[f], "name")
                   \/ \E y \in Followed(rows, x, f, m2o) : Hidden(rows, y, nested, m2o)
<1> DEFINE field == FieldOf(rows[x].model, f)
           v == rows[x].values[f]
           one == field.type = "many2one" /\ v # Unset /\ m2o # "id"
           many == field.type = "x2many"
           triples == Triples(rows, x, f, nested # {}, m2o)
           denied == \E t \in triples : ~MayRead(rows, t[1], t[2])
           led == \E y \in Followed(rows, x, f, m2o) : Hidden(rows, y, nested, m2o)
<1>1. HiddenOf(rows, x, f, nested, m2o) <=>
            denied \/ (~field.restricted /\ ~MayRead(rows, x, f)) \/ led
    BY Zenon DEF HiddenOf
<1>2. field.restricted => triples = {} /\ Followed(rows, x, f, m2o) = {}
    BY FollowedByType DEF Triples
<1>3. \A a, b, c : <<a, b, c>>[1] = a /\ <<a, b, c>>[2] = b
    OBVIOUS
<1>4. ASSUME ~field.restricted, nested = {}, one
      PROVE  denied <=> ~MayRead(rows, x, f) \/ ~MayRead(rows, v, "name")
    <2>1. triples = {<<x, f, v>>, <<v, "name", rows[v].values["name"]>>}
        BY <1>4, TriplesOfOne
    <2> HIDE DEF triples, v
    <2>2. denied <=> \/ ~MayRead(rows, <<x, f, v>>[1], <<x, f, v>>[2])
                     \/ ~MayRead(rows, <<v, "name", rows[v].values["name"]>>[1],
                                 <<v, "name", rows[v].values["name"]>>[2])
        BY <2>1, Zenon
    <2> QED
        BY <1>3, <2>2
<1>5. ASSUME ~field.restricted, ~one \/ nested # {}
      PROVE  denied => ~MayRead(rows, x, f)
    <2>1. \A t \in triples : t[1] = x /\ t[2] = f
        <3>1. CASE (one \/ many) /\ nested # {}
            <4>1. triples = {}
                BY <3>1, TriplesOfExpanded
            <4> QED
                BY <4>1
        <3>2. CASE many /\ nested = {}
            <4>1. triples = {<<x, f, z>> : z \in Related(rows, x, f)}
                BY <1>5, <3>2, TriplesOfMany
            <4> QED
                BY <4>1
        <3>3. CASE ~one /\ ~many
            <4>1. triples = {<<x, f, v>>}
                BY <1>5, <3>3 DEF Triples
            <4> QED
                BY <4>1
        <3> HIDE DEF one, many
        <3> QED
            BY <1>5, <3>1, <3>2, <3>3
    <2> HIDE DEF triples
    <2> QED
        BY <2>1
<1> HIDE DEF denied, led, triples, v, field
<1>6. HiddenOf(rows, x, f, nested, m2o) <=>
            /\ ~field.restricted
            /\ \/ ~MayRead(rows, x, f)
               \/ one /\ nested = {} /\ ~MayRead(rows, v, "name")
               \/ led
    <2>1. field.restricted => ~denied /\ ~led
        BY <1>2 DEF denied, led
    <2> QED
        BY <1>1, <1>4, <1>5, <2>1
<1> QED
    BY <1>6 DEF led, v, field

\* Records that differ in nothing but what is in fields that lead nowhere.
AlikeButValues(a, b) ==
    /\ DOMAIN a = DOMAIN b
    /\ \A x \in DOMAIN a :
        /\ a[x].model = b[x].model /\ a[x].visible = b[x].visible
        /\ \A f \in DOMAIN Schema[a[x].model] :
            FieldOf(a[x].model, f).type \in Relational => a[x].values[f] = b[x].values[f]

\* The same can be read of them, and they lead to the same.
LEMMA AlikeFields ==
    ASSUME NEW a, Sound(a), NEW b, AlikeButValues(a, b), NEW x \in DOMAIN a,
           NEW f \in DOMAIN Schema[a[x].model], NEW m2o
    PROVE  /\ MayRead(a, x, f) <=> MayRead(b, x, f)
           /\ Followed(a, x, f, m2o) = Followed(b, x, f, m2o)
           /\ FieldOf(a[x].model, f).type = "many2one" /\ a[x].values[f] # Unset =>
                /\ b[x].values[f] = a[x].values[f]
                /\ MayRead(a, a[x].values[f], "name") <=> MayRead(b, a[x].values[f], "name")
<1> DEFINE field == FieldOf(a[x].model, f)
<1>1. a[x].model = b[x].model /\ a[x].visible = b[x].visible
    BY DEF AlikeButValues
<1>2. \A y \in DOMAIN a : a[y].model = b[y].model /\ a[y].visible = b[y].visible
    BY DEF AlikeButValues
<1>3. field.type \in Relational => a[x].values[f] = b[x].values[f]
    BY DEF AlikeButValues
<1>4. \A y \in DOMAIN a : \A g : MayRead(a, y, g) <=> MayRead(b, y, g)
    BY <1>2 DEF MayRead
<1>5. field.type = "many2one" /\ a[x].values[f] # Unset => a[x].values[f] \in DOMAIN a
    BY RecordsAreTyped DEF Of
<1>6. field.type \in Relational => Related(a, x, f) = Related(b, x, f)
    <2>1. field.type = "x2many" => a[x].values[f] \subseteq DOMAIN a
        BY RecordsAreTyped DEF Of
    <2>2. field.type = "x2many" =>
            {y \in a[x].values[f] : a[y].visible} = {y \in b[x].values[f] : b[y].visible}
        BY <1>2, <1>3, <2>1 DEF Relational
    <2> HIDE DEF field
    <2> QED
        BY <1>1, <1>3, <2>2 DEF Related, field
<1>7. Followed(a, x, f, m2o) = Followed(b, x, f, m2o)
    <2>1. Followed(a, x, f, m2o) =
            IF \/ f \notin DOMAIN Schema[a[x].model] \/ field.restricted
               \/ field.type \notin Relational \/ (field.type = "many2one" /\ m2o = "id")
            THEN {} ELSE Related(a, x, f)
        BY DEF Followed
    <2>2. Followed(b, x, f, m2o) =
            IF \/ f \notin DOMAIN Schema[a[x].model] \/ field.restricted
               \/ field.type \notin Relational \/ (field.type = "many2one" /\ m2o = "id")
            THEN {} ELSE Related(b, x, f)
        BY <1>1 DEF Followed
    <2> HIDE DEF field
    <2> QED
        BY <1>6, <2>1, <2>2
<1> QED
    BY <1>3, <1>4, <1>5, <1>7 DEF Relational

\* The same is hidden in them, of whatever specification.
LEMMA HiddenAlike ==
    ASSUME NEW a, Sound(a), NEW b, Sound(b), AlikeButValues(a, b), NEW x \in DOMAIN a, NEW m2o,
           NEW spec, IsSpecification(spec, MaxDepth), WellFormed(a[x].model, spec)
    PROVE  Hidden(a, x, spec, m2o) <=> Hidden(b, x, spec, m2o)
<1> DEFINE A == {n \in Nat :
                    \A y \in DOMAIN a : \A asked :
                        IsSpecification(asked, n) /\ WellFormed(a[y].model, asked) =>
                            (Hidden(a, y, asked, m2o) <=> Hidden(b, y, asked, m2o))}
<1>1. DOMAIN b = DOMAIN a /\ \A y \in DOMAIN a : b[y].model = a[y].model
    BY DEF AlikeButValues
<1>2. 0 \in A
    <2>1. ASSUME NEW y \in DOMAIN a, NEW asked, IsSpecification(asked, 0)
          PROVE  Hidden(a, y, asked, m2o) <=> Hidden(b, y, asked, m2o)
        BY <2>1, NoSpecification, NothingAsked
    <2> QED
        BY <2>1
<1>3. ASSUME NEW n \in A PROVE n + 1 \in A
    <2>1. n \in Nat /\ n + 1 \in Nat
        OBVIOUS
    <2>2. \A y \in DOMAIN a : \A asked :
              IsSpecification(asked, n) /\ WellFormed(a[y].model, asked) =>
                  (Hidden(a, y, asked, m2o) <=> Hidden(b, y, asked, m2o))
        OBVIOUS
    <2> HIDE DEF A
    <2>3. ASSUME NEW y \in DOMAIN a, NEW asked, IsSpecification(asked, n + 1),
                 WellFormed(a[y].model, asked), NEW f \in Fields(asked)
          PROVE  HiddenOf(a, y, f, Below(asked, f), m2o)
                    <=> HiddenOf(b, y, f, Below(asked, f), m2o)
        <3> DEFINE nested == Below(asked, f)
                   field == FieldOf(a[y].model, f)
                   to == Followed(a, y, f, m2o)
                   v == a[y].values[f]
        <3>1. a[y].model \in DOMAIN Schema
            BY RecordsAreTyped
        <3>2. /\ f \in DOMAIN Schema[a[y].model]
              /\ nested # {} => field.type \in Relational /\ WellFormed(field.comodel, nested)
            BY <2>1, <2>3, <3>1, WellFormedByField, Zenon
        <3>3. IsSpecification(nested, n) /\ WellFormed(field.comodel, nested)
            <4>1. IsSpecification(nested, n)
                BY <2>1, <2>3, BelowIsSpecification
            <4> HIDE DEF nested
            <4> QED
                BY <3>2, <4>1 DEF WellFormed
        <3>4. \A z \in to : z \in DOMAIN a /\ a[z].model = field.comodel
            BY FollowedAreTyped DEF Of
        <3> HIDE DEF nested, to
        <3>5. \A z \in to : Hidden(a, z, nested, m2o) <=> Hidden(b, z, nested, m2o)
            BY <2>2, <3>3, <3>4
        <3>6. /\ MayRead(a, y, f) <=> MayRead(b, y, f)
              /\ to = Followed(b, y, f, m2o)
              /\ field.type = "many2one" /\ v # Unset =>
                    b[y].values[f] = v /\ (MayRead(a, v, "name") <=> MayRead(b, v, "name"))
            BY <3>2, AlikeFields DEF to
        <3>7. HiddenOf(a, y, f, nested, m2o) <=>
                /\ ~field.restricted
                /\ \/ ~MayRead(a, y, f)
                   \/ /\ field.type = "many2one" /\ v # Unset /\ m2o # "id" /\ nested = {}
                      /\ ~MayRead(a, v, "name")
                   \/ \E z \in to : Hidden(a, z, nested, m2o)
            BY HiddenOfByType DEF to
        <3>8. HiddenOf(b, y, f, nested, m2o) <=>
                /\ ~field.restricted
                /\ \/ ~MayRead(b, y, f)
                   \/ /\ field.type = "many2one" /\ b[y].values[f] # Unset /\ m2o # "id"
                      /\ nested = {} /\ ~MayRead(b, b[y].values[f], "name")
                   \/ \E z \in to : Hidden(b, z, nested, m2o)
            <4>1. FieldOf(b[y].model, f) = field
                BY <1>1
            <4>2. HiddenOf(b, y, f, nested, m2o) <=>
                    /\ ~FieldOf(b[y].model, f).restricted
                    /\ \/ ~MayRead(b, y, f)
                       \/ /\ FieldOf(b[y].model, f).type = "many2one"
                          /\ b[y].values[f] # Unset /\ m2o # "id" /\ nested = {}
                          /\ ~MayRead(b, b[y].values[f], "name")
                       \/ \E z \in Followed(b, y, f, m2o) : Hidden(b, z, nested, m2o)
                BY HiddenOfByType
            <4> HIDE DEF field
            <4> QED
                BY <3>6, <4>1, <4>2
        <3>9. field.type = "many2one" =>
                (b[y].values[f] # Unset <=> v # Unset)
            BY <1>1, <3>2 DEF AlikeButValues, Relational
        <3> HIDE DEF field, v
        <3>10. HiddenOf(a, y, f, nested, m2o) <=> HiddenOf(b, y, f, nested, m2o)
            BY <3>5, <3>6, <3>7, <3>8, <3>9
        <3> QED
            BY <3>10 DEF nested
    <2>4. ASSUME NEW y \in DOMAIN a, NEW asked, IsSpecification(asked, n + 1),
                 WellFormed(a[y].model, asked)
          PROVE  Hidden(a, y, asked, m2o) <=> Hidden(b, y, asked, m2o)
        <3>1. Hidden(a, y, asked, m2o) <=>
                \E f \in Fields(asked) : HiddenOf(a, y, f, Below(asked, f), m2o)
            BY <2>1, <2>4, HiddenByField
        <3>2. Hidden(b, y, asked, m2o) <=>
                \E f \in Fields(asked) : HiddenOf(b, y, f, Below(asked, f), m2o)
            BY <1>1, <2>1, <2>4, HiddenByField
        <3> QED
            BY <2>3, <2>4, <3>1, <3>2, Zenon
    <2> QED
        BY <2>1, <2>4 DEF A
<1>4. A = Nat
    <2> HIDE DEF A
    <2>1. A \in SUBSET Nat
        BY DEF A
    <2> QED
        BY <1>2, <1>3, <2>1, SetInduction
<1> QED
    BY <1>4, DepthIsNatural

\* The records after a write of their names.
Written(rows, ids, name) ==
    [x \in DOMAIN rows |->
        IF x \in ToSet(ids) THEN [rows[x] EXCEPT !.values.name = name] ELSE rows[x]]

\* A write of names leaves everything else as it was.
LEMMA WrittenRows ==
    ASSUME NEW rows, Sound(rows), NEW ids, NEW name
    PROVE  Sound(Written(rows, ids, name)) /\ AlikeButValues(rows, Written(rows, ids, name))
<1> DEFINE written == Written(rows, ids, name)
<1>1. DOMAIN written = DOMAIN rows
    BY DEF Written
<1>2. ASSUME NEW x \in DOMAIN rows
      PROVE  /\ DOMAIN written[x] = {"model", "visible", "values"}
             /\ written[x].model = rows[x].model /\ written[x].visible = rows[x].visible
             /\ DOMAIN written[x].values = DOMAIN Schema[rows[x].model]
             /\ \A f \in DOMAIN Schema[rows[x].model] :
                    f # "name" => written[x].values[f] = rows[x].values[f]
    <2>1. DOMAIN rows[x] = {"model", "visible", "values"}
        BY Zenon DEF Sound, WellTyped
    <2>2. DOMAIN rows[x].values = DOMAIN Schema[rows[x].model]
        BY RecordsAreTyped
    <2>3. written[x] = IF x \in ToSet(ids) THEN [rows[x] EXCEPT !.values.name = name]
                       ELSE rows[x]
        BY DEF Written
    <2> HIDE DEF written
    <2> QED
        BY <2>1, <2>2, <2>3
<1> HIDE DEF written
<1>3. \A m : Of(written, m) = Of(rows, m)
    BY <1>1, <1>2 DEF Of
<1>4. ASSUME NEW x \in DOMAIN rows, NEW f \in DOMAIN Schema[rows[x].model],
             FieldOf(rows[x].model, f).type \in Relational
      PROVE  rows[x].values[f] = written[x].values[f]
    <2>1. rows[x].model \in DOMAIN Schema
        BY RecordsAreTyped
    <2>2. f # "name"
        BY <1>4, <2>1, SchemaAssumption DEF SchemaAssumption, FieldOf, Relational
    <2> QED
        BY <1>2, <2>2
<1>5. AlikeButValues(rows, written)
    BY <1>1, <1>2, <1>4 DEF AlikeButValues
<1>6. WellTyped(written)
    <2>1. SUFFICES ASSUME NEW x \in DOMAIN rows
                   PROVE  /\ DOMAIN written[x] = {"model", "visible", "values"}
                          /\ written[x].model \in DOMAIN Schema /\ written[x].visible \in BOOLEAN
                          /\ DOMAIN written[x].values = DOMAIN Schema[written[x].model]
                          /\ \A f \in DOMAIN Schema[written[x].model] :
                                LET field == FieldOf(written[x].model, f) IN
                                /\ field.type = "many2one" =>
                                    written[x].values[f] \in Of(written, field.comodel) \cup {Unset}
                                /\ field.type = "x2many" =>
                                    written[x].values[f] \subseteq Of(written, field.comodel)
        BY <1>1, Zenon DEF WellTyped
    <2>2. ASSUME NEW f \in DOMAIN Schema[rows[x].model]
          PROVE  LET field == FieldOf(rows[x].model, f) IN
                 /\ field.type = "many2one" =>
                     written[x].values[f] \in Of(written, field.comodel) \cup {Unset}
                 /\ field.type = "x2many" =>
                     written[x].values[f] \subseteq Of(written, field.comodel)
        BY <1>3, <1>4, RecordsAreTyped DEF Relational
    <2> QED
        BY <1>2, <2>2, RecordsAreTyped
<1>7. Unset \notin DOMAIN written
    BY <1>1 DEF Sound
<1> QED
    BY <1>5, <1>6, <1>7 DEF Sound, written

\* What a record is created with.
CreatedValue(m, f, new, name) ==
    CASE f = "id" -> new
      [] f = "name" -> name
      [] FieldOf(m, f).type = "x2many" -> {}
      [] OTHER -> Unset

CreatedRow(m, new, name) ==
    [model |-> m, visible |-> TRUE,
     values |-> [f \in DOMAIN Schema[m] |-> CreatedValue(m, f, new, name)]]

\* The records once it is.
Created(rows, m, new, name) ==
    [x \in DOMAIN rows \cup {new} |-> IF x = new THEN CreatedRow(m, new, name) ELSE rows[x]]

\* A record that is created leads nowhere yet.
LEMMA CreatedValues ==
    ASSUME NEW m \in DOMAIN Schema, NEW new, NEW name, NEW f \in DOMAIN Schema[m]
    PROVE  /\ FieldOf(m, f).type = "x2many" => CreatedRow(m, new, name).values[f] = {}
           /\ FieldOf(m, f).type = "many2one" => CreatedRow(m, new, name).values[f] = Unset
<1>1. FieldOf(m, f).type \in Relational => f # "id" /\ f # "name"
    BY SchemaAssumption DEF SchemaAssumption, FieldOf, Relational
<1>2. CreatedRow(m, new, name).values[f] = CreatedValue(m, f, new, name)
    BY DEF CreatedRow
<1> QED
    BY <1>1, <1>2 DEF CreatedValue, Relational

\* The records stay sound, the new one among them.
LEMMA CreatedRows ==
    ASSUME NEW rows, Sound(rows), NEW m \in DOMAIN Schema, NEW new,
           new \notin DOMAIN rows \cup {Unset}, NEW name
    PROVE  Sound(Created(rows, m, new, name))
<1> DEFINE created == Created(rows, m, new, name)
           row == CreatedRow(m, new, name)
<1>1. /\ DOMAIN created = DOMAIN rows \cup {new} /\ created[new] = row
      /\ \A x \in DOMAIN rows : created[x] = rows[x]
    BY DEF Created
<1>2. /\ DOMAIN row = {"model", "visible", "values"} /\ row.model = m /\ row.visible = TRUE
      /\ DOMAIN row.values = DOMAIN Schema[m]
    BY DEF CreatedRow
<1>3. \A f \in DOMAIN Schema[m] :
        /\ FieldOf(m, f).type = "x2many" => row.values[f] = {}
        /\ FieldOf(m, f).type = "many2one" => row.values[f] = Unset
    BY CreatedValues
<1> HIDE DEF created, row
<1>4. \A c : Of(rows, c) \subseteq Of(created, c)
    BY <1>1 DEF Of
<1>5. ASSUME NEW x \in DOMAIN created
      PROVE  /\ DOMAIN created[x] = {"model", "visible", "values"}
             /\ created[x].model \in DOMAIN Schema /\ created[x].visible \in BOOLEAN
             /\ DOMAIN created[x].values = DOMAIN Schema[created[x].model]
             /\ \A f \in DOMAIN Schema[created[x].model] :
                LET field == FieldOf(created[x].model, f) IN
                /\ field.type = "many2one" =>
                    created[x].values[f] \in Of(created, field.comodel) \cup {Unset}
                /\ field.type = "x2many" =>
                    created[x].values[f] \subseteq Of(created, field.comodel)
    <2>1. CASE x = new
        BY <1>1, <1>2, <1>3, <2>1
    <2>2. CASE x \in DOMAIN rows
        <3>1. DOMAIN rows[x] = {"model", "visible", "values"}
            BY <2>2, Zenon DEF Sound, WellTyped
        <3>2. ASSUME NEW f \in DOMAIN Schema[rows[x].model]
              PROVE  LET field == FieldOf(rows[x].model, f) IN
                     /\ field.type = "many2one" =>
                         rows[x].values[f] \in Of(created, field.comodel) \cup {Unset}
                     /\ field.type = "x2many" =>
                         rows[x].values[f] \subseteq Of(created, field.comodel)
            BY <1>4, <2>2, RecordsAreTyped
        <3>3. created[x] = rows[x]
            BY <1>1, <2>2
        <3> QED
            BY <2>2, <3>1, <3>2, <3>3, RecordsAreTyped
    <2> QED
        BY <1>1, <2>1, <2>2
<1>6. WellTyped(created)
    BY <1>5, Zenon DEF WellTyped
<1>7. Unset \notin DOMAIN created
    BY <1>1 DEF Sound
<1> QED
    BY <1>6, <1>7 DEF Sound, created

\* Whatever is asked of it can be read.
LEMMA CreatedIsNotHidden ==
    ASSUME NEW rows, Sound(rows), NEW m \in DOMAIN Schema, NEW new,
           new \notin DOMAIN rows \cup {Unset}, NEW name, NEW m2o,
           NEW spec, IsSpecification(spec, MaxDepth), WellFormed(m, spec)
    PROVE  ~Hidden(Created(rows, m, new, name), new, spec, m2o)
<1> DEFINE created == Created(rows, m, new, name)
           row == CreatedRow(m, new, name)
<1>1. Sound(created) /\ new \in DOMAIN created /\ created[new] = row
    <2>1. Sound(created)
        BY CreatedRows
    <2>2. DOMAIN created = DOMAIN rows \cup {new} /\ created[new] = row
        BY DEF Created
    <2> HIDE DEF created, row
    <2> QED
        BY <2>1, <2>2
<1>2. row.model = m /\ row.visible = TRUE
    BY DEF CreatedRow
<1> HIDE DEF created, row
<1>3. ASSUME NEW f \in Fields(spec)
      PROVE  ~HiddenOf(created, new, f, Below(spec, f), m2o)
    <2> DEFINE to == Followed(created, new, f, m2o)
               field == FieldOf(m, f)
               nested == Below(spec, f)
    <2>1. f \in DOMAIN Schema[m]
        BY WellFormedByField, DepthIsNatural, Zenon
    <2>2. /\ field.type = "x2many" => row.values[f] = {}
          /\ field.type = "many2one" => row.values[f] = Unset
        BY <2>1, CreatedValues DEF row
    <2>3. to = {}
        <3>1. field.type \in Relational => Related(created, new, f) = {}
            BY <1>1, <1>2, <2>2 DEF Related, Relational
        <3> QED
            BY <1>1, <1>2, <3>1 DEF Followed
    <2>4. MayRead(created, new, f)
        BY <1>1, <1>2 DEF MayRead
    <2> HIDE DEF to
    <2>5. HiddenOf(created, new, f, nested, m2o) <=>
            /\ ~FieldOf(created[new].model, f).restricted
            /\ \/ ~MayRead(created, new, f)
               \/ /\ FieldOf(created[new].model, f).type = "many2one"
                  /\ created[new].values[f] # Unset /\ m2o # "id" /\ nested = {}
                  /\ ~MayRead(created, created[new].values[f], "name")
               \/ \E y \in to : Hidden(created, y, nested, m2o)
        BY HiddenOfByType DEF to
    <2> HIDE DEF nested
    <2>6. ~HiddenOf(created, new, f, nested, m2o)
        BY <1>1, <1>2, <2>2, <2>3, <2>4, <2>5
    <2> QED
        BY <2>6 DEF nested
<1>4. Hidden(created, new, spec, m2o) <=>
        \E f \in Fields(spec) : HiddenOf(created, new, f, Below(spec, f), m2o)
    BY <1>1, HiddenByField, DepthIsNatural
<1> QED
    BY <1>3, <1>4 DEF created

----------------------------------------------------------------------------
(* Pages *)

\* A page is the records of the search from offset on, as many as there are up to limit.
LEMMA PageIsPart ==
    ASSUME NEW S, NEW found \in Seq(S), NEW limit \in Int, limit >= 0, NEW offset \in Nat
    PROVE  LET page == Page(found, limit, offset) IN
           /\ page \in Seq(S) /\ Len(page) \in Nat
           /\ \A i \in 1 .. Len(page) : i + offset \in 1 .. Len(found) /\ page[i] = found[i + offset]
           /\ \/ offset + Len(page) >= Len(found)
              \/ limit > 0 /\ Len(page) = limit
<1> DEFINE page == Page(found, limit, offset)
           last == IF limit # 0 /\ offset + limit < Len(found) THEN offset + limit ELSE Len(found)
           first == offset + 1
<1>1. Len(found) \in Nat
    BY LenProperties
<1>2. page = SubSeq(found, first, last)
    BY DEF Page
<1>3. last \in Int /\ last <= Len(found) /\ first \in Int /\ first >= 1
    BY <1>1
<1>4. last = Len(found) \/ (limit > 0 /\ last = offset + limit)
    BY <1>1
<1>5. first = offset + 1
    OBVIOUS
<1> HIDE DEF page, last, first
<1>6. \A i \in first .. last : found[i] \in S
    <2>1. \A i \in first .. last : i \in 1 .. Len(found)
        BY <1>1, <1>3
    <2> QED
        BY <2>1, ElementOfSeq
<1>7. /\ page \in Seq(S)
      /\ Len(page) = IF first <= last THEN last - first + 1 ELSE 0
      /\ \A i \in 1 .. last - first + 1 : page[i] = found[first + i - 1]
    BY <1>2, <1>3, <1>6, SubSeqProperties
<1>8. Len(page) \in Nat
    BY <1>3, <1>7
<1>9. ASSUME NEW i \in 1 .. Len(page)
      PROVE  i + offset \in 1 .. Len(found) /\ page[i] = found[i + offset]
    <2>1. i \in 1 .. last - first + 1 /\ first + i - 1 = i + offset
        BY <1>3, <1>5, <1>7
    <2>2. i + offset \in 1 .. Len(found)
        BY <1>1, <1>3, <1>5, <2>1
    <2> QED
        BY <1>7, <2>1, <2>2
<1>10. offset + Len(page) >= Len(found) \/ (limit > 0 /\ Len(page) = limit)
    BY <1>1, <1>3, <1>4, <1>5, <1>7
<1> QED
    BY <1>7, <1>8, <1>9, <1>10 DEF page

\* The order of a search lists no record twice.
LEMMA FoundAreDistinct ==
    ASSUME NEW rows
    PROVE  /\ Matching(rows) \in Seq(ToSet(Order)) /\ Len(Matching(rows)) \in Nat
           /\ ToSet(Matching(rows)) \subseteq Of(rows, query.model)
           /\ Distinct(Matching(rows))
<1> DEFINE T == {x \in DOMAIN rows : rows[x].model = query.model /\ rows[x].visible}
<1>1. Order \in Seq(ToSet(Order)) /\ IsInjective(Order)
    BY OrmAssumption DEF OrmAssumption
<1>2. Distinct(Order)
    <2>1. DOMAIN Order = 1 .. Len(Order)
        BY <1>1, LenProperties
    <2> QED
        BY <1>1, <2>1 DEF IsInjective, Distinct
<1>3. Matching(rows) = Kept(Order, T)
    BY DEF Matching
<1>4. T \subseteq Of(rows, query.model)
    BY DEF Of
<1> HIDE DEF T
<1>5. /\ Kept(Order, T) \in Seq(ToSet(Order)) /\ ToSet(Kept(Order, T)) = ToSet(Order) \cap T
      /\ Distinct(Order) => Distinct(Kept(Order, T))
    BY <1>1, KeptProperties
<1> QED
    BY <1>2, <1>3, <1>4, <1>5, LenProperties

\* The records of a page by their place in the search, and how many they are.
LEMMA PageIsChosen ==
    ASSUME NEW S, NEW found \in Seq(S), Distinct(found),
           NEW limit \in Int, limit >= 0, NEW offset \in Nat
    PROVE  LET page == Page(found, limit, offset)
               places == {i \in DOMAIN found : i > offset /\ i <= offset + Len(page)}
           IN  /\ ToSet(page) = {found[i] : i \in places}
               /\ ToSet(page) \subseteq ToSet(found)
               /\ Cardinality(ToSet(page)) = Len(page)
<1> DEFINE page == Page(found, limit, offset)
           places == {i \in DOMAIN found : i > offset /\ i <= offset + Len(page)}
           n == Len(page)
<1>1. /\ page \in Seq(S) /\ n \in Nat
      /\ \A i \in 1 .. n : i + offset \in 1 .. Len(found) /\ page[i] = found[i + offset]
    BY PageIsPart
<1>2. DOMAIN found = 1 .. Len(found) /\ DOMAIN page = 1 .. n
    BY <1>1, LenProperties
<1> HIDE DEF page
<1>3. \A i : i \in places <=> i \in DOMAIN found /\ i > offset /\ i <= offset + n
    OBVIOUS
<1>4. \A x : x \in ToSet(page) <=> \E i \in 1 .. n : x = page[i]
    BY <1>2, Zenon DEF ToSet
<1>5. \A x : x \in ToSet(found) <=> \E i \in DOMAIN found : x = found[i]
    BY Zenon DEF ToSet
<1> HIDE DEF places, n
<1>6. ASSUME NEW i \in 1 .. n PROVE i + offset \in places
    BY <1>1, <1>2, <1>3
<1>7. ASSUME NEW i \in places PROVE i - offset \in 1 .. n /\ i = (i - offset) + offset
    <2>1. i \in Int
        BY <1>2, <1>3
    <2> QED
        BY <1>1, <1>3, <2>1
<1>8. ASSUME NEW i \in places PROVE page[i - offset] = found[i]
    BY <1>1, <1>7
<1>9. ToSet(page) = {found[i] : i \in places}
    <2>1. ASSUME NEW i \in 1 .. n PROVE \E j \in places : page[i] = found[j]
        BY <1>1, <1>6
    <2>2. ASSUME NEW j \in places PROVE \E i \in 1 .. n : page[i] = found[j]
        BY <1>7, <1>8
    <2> QED
        BY <1>4, <2>1, <2>2
<1>10. ToSet(page) \subseteq ToSet(found)
    <2>1. \A i \in 1 .. n : i + offset \in DOMAIN found
        BY <1>3, <1>6
    <2> QED
        BY <1>1, <1>4, <1>5, <2>1
<1>11. Cardinality(ToSet(page)) = n
    <2>1. page \in [1 .. n -> ToSet(page)]
        <3>1. page = [i \in 1 .. n |-> page[i]]
            BY <1>1, <1>2, LenProperties DEF n
        <3> QED
            BY <1>4, <3>1
    <2>2. \A i, j \in 1 .. n : i # j => page[i] # page[j]
        <3>1. SUFFICES ASSUME NEW i \in 1 .. n, NEW j \in 1 .. n, i # j PROVE page[i] # page[j]
            OBVIOUS
        <3>2. i + offset \in 1 .. Len(found) /\ j + offset \in 1 .. Len(found)
            BY <1>1
        <3>3. i + offset # j + offset
            BY <3>1
        <3>4. found[i + offset] # found[j + offset]
            BY <3>2, <3>3 DEF Distinct
        <3> QED
            BY <1>1, <3>4
    <2>3. ExistsBijection(1 .. n, ToSet(page))
        <3>1. IsInjective(page)
            BY <1>2, <2>2 DEF IsInjective, n
        <3>2. page \in Bijection(1 .. n, ToSet(page))
            BY <1>4, <2>1, <2>2 DEF Bijection, Injection, Surjection, IsInjective
        <3> QED
            BY <3>2 DEF ExistsBijection
    <2> QED
        BY <1>1, <2>3, FS_CountingElements
<1> QED
    BY <1>9, <1>10, <1>11 DEF page, places, n

----------------------------------------------------------------------------
(* Replies *)

\* What a query asks for are specifications, and what is serialised is what it asks for.
LEMMA AskedAreSpecifications ==
    ASSUME query \in Queries, query.model \in DOMAIN Schema
    PROVE  /\ Specification = Closure(query.paths)
           /\ IsSpecification(Closure(query.paths), MaxDepth)
           /\ IsSpecification(Closure(query.paths) \cup {<<"id">>}, MaxDepth)
           /\ IsSpecification({<<"id">>}, MaxDepth)
<1>1. query.paths \in Seq(Path) /\ \A p \in ToSet(query.paths) : Len(p) \in 1 .. MaxDepth
    BY OrmAssumption DEF OrmAssumption
<1>2. MaxDepth \in Nat \ {0} /\ MaxDepth \in Nat
    BY DepthIsNatural
<1>3. Specification = Closure(query.paths)
    BY <1>1, SpecificationIsClosure DEF Specification
<1>4. IsSpecification(Closure(query.paths), MaxDepth)
    BY <1>1, <1>2, ClosureIsSpecification
<1>5. IsSpecification(Closure(query.paths) \cup {<<"id">>}, MaxDepth)
    BY <1>2, <1>4, WithIdIsSpecification
<1>6. IsSpecification({<<"id">>}, MaxDepth)
    <2>1. IsSpecification({}, MaxDepth)
        BY DEF IsSpecification
    <2>2. {} \cup {<<"id">>} = {<<"id">>}
        OBVIOUS
    <2>3. IsSpecification({} \cup {<<"id">>}, MaxDepth)
        BY <1>2, <2>1, WithIdIsSpecification
    <2> QED
        BY <2>2, <2>3
<1> QED
    BY <1>3, <1>4, <1>5, <1>6

\* The three ways to answer for records: the specification is refused, one of them is,
\* or they are shown.
Answers(rows, records, spec, length) ==
    \/ /\ ~WellFormed(query.model, spec)
       /\ Serialized(rows, records, spec).status = "invalid"
       /\ reply'.status = "validation_error"
    \/ /\ WellFormed(query.model, spec)
       /\ \E x \in ToSet(records) : Hidden(rows, x, spec, query.m2o)
       /\ Serialized(rows, records, spec).status = "denied"
       /\ reply'.status = "access_denied"
    \/ /\ WellFormed(query.model, spec)
       /\ \A x \in ToSet(records) : ~Hidden(rows, x, spec, query.m2o)
       /\ Serialized(rows, records, spec).status = "ok"
       /\ reply' = [status |-> "ok", records |-> records,
                    shown |-> UNION {Wanted(rows, x, spec, query.m2o) : x \in ToSet(records)},
                    length |-> length]

\* What is returned is one of them.
LEMMA ReturnAnswers ==
    ASSUME NEW rows, Sound(rows), query.model \in DOMAIN Schema,
           NEW records, ToSet(records) \subseteq Of(rows, query.model),
           NEW spec, IsSpecification(spec, MaxDepth), NEW length,
           Return(Serialized(rows, records, spec), records, length)
    PROVE  Answers(rows, records, spec, length)
<1> DEFINE out == Serialized(rows, records, spec)
           all == UNION {Wanted(rows, x, spec, query.m2o) : x \in ToSet(records)}
<1>1. out = SerializeRecords(rows, query.model, ToSet(records), spec, query.m2o)
    BY DEF Serialized
<1>2. /\ ~WellFormed(query.model, spec) => out = Refused("invalid")
      /\ /\ WellFormed(query.model, spec)
         /\ \E x \in ToSet(records) : Hidden(rows, x, spec, query.m2o)
         => out = Refused("denied")
      /\ /\ WellFormed(query.model, spec)
         /\ \A x \in ToSet(records) : ~Hidden(rows, x, spec, query.m2o)
         => out = Shows(all)
    BY <1>1, RecordsAreServed
<1> HIDE DEF out, all
<1>3. Return(out, records, length)
    BY DEF out
<1>4. out = Refused("invalid") =>
            out.status = "invalid" /\ reply'.status = "validation_error"
    BY <1>3 DEF Return, ReplyError, NoReply, Refused
<1>5. out = Refused("denied") =>
            out.status = "denied" /\ reply'.status = "access_denied"
    BY <1>3 DEF Return, ReplyError, NoReply, Refused
<1>6. out = Shows(all) =>
            /\ out.status = "ok"
            /\ reply' = [status |-> "ok", records |-> records, shown |-> all, length |-> length]
    BY <1>3 DEF Return, Shows
<1>7. \/ /\ ~WellFormed(query.model, spec) /\ out.status = "invalid"
         /\ reply'.status = "validation_error"
      \/ /\ WellFormed(query.model, spec)
         /\ \E x \in ToSet(records) : Hidden(rows, x, spec, query.m2o)
         /\ out.status = "denied" /\ reply'.status = "access_denied"
      \/ /\ WellFormed(query.model, spec)
         /\ \A x \in ToSet(records) : ~Hidden(rows, x, spec, query.m2o)
         /\ out.status = "ok"
         /\ reply' = [status |-> "ok", records |-> records, shown |-> all, length |-> length]
    BY <1>2, <1>4, <1>5, <1>6
<1> QED
    BY <1>7, Zenon DEF Answers, out, all

\* All that a reply promises.
OrmPromises == ShownAsAsked /\ RefusedAsWritten /\ ShortPageIsLast

\* Any other error promises nothing.
LEMMA ErrorKeepsPromises ==
    ASSUME NEW status, reply' = [NoReply EXCEPT !.status = status],
           status \notin {"ok", "access_denied", "validation_error"}
    PROVE  OrmPromises'
<1>1. reply'.status = status
    BY DEF NoReply
<1> QED
    BY <1>1 DEF OrmPromises, ShownAsAsked, RefusedAsWritten, ShortPageIsLast, Served

\* What is asked stays the same.
LEMMA AskedAsBefore ==
    ASSUME query' = query
    PROVE  AskedFor' = AskedFor /\ (Searching' <=> Searching)
BY DEF AskedFor, Searching

\* What is forbidden stays the same while the records that are named are as visible.
LEMMA ForbiddenAsBefore ==
    ASSUME query' = query, grant' = grant,
           query.operation = "write" =>
                \A x \in ToSet(query.ids) : db'[x].visible = db[x].visible
    PROVE  Forbidden' <=> Forbidden
BY DEF Forbidden, Searching

\* The refusal of a specification, or of a name that is missing or invalid.
LEMMA InvalidKeepsPromises ==
    ASSUME query' = query, reply'.status = "validation_error",
           \/ ~WellFormed(query.model, AskedFor)
           \/ query.operation \in {"write", "create"} /\ query.name \in {Unset, Invalid}
    PROVE  OrmPromises'
<1>1. AskedFor' = AskedFor
    BY AskedAsBefore
<1>2. ~Served' /\ reply'.status # "access_denied"
    BY DEF Served
<1>3. RefusedAsWritten'
    BY <1>1, <1>2 DEF RefusedAsWritten
<1>4. ShownAsAsked' /\ ShortPageIsLast'
    BY <1>2 DEF ShownAsAsked, ShortPageIsLast
<1> QED
    BY <1>3, <1>4 DEF OrmPromises

\* The refusal of a model or of a record.
LEMMA DeniedKeepsPromises ==
    ASSUME query' = query, reply'.status = "access_denied",
           \/ Forbidden'
           \/ \E x \in Of(db', query.model) : Hidden(db', x, AskedFor, query.m2o)
    PROVE  OrmPromises'
<1>1. AskedFor' = AskedFor
    BY AskedAsBefore
<1>2. ~Served' /\ reply'.status # "validation_error"
    BY DEF Served
<1>3. RefusedAsWritten' /\ ShortPageIsLast'
    BY <1>2 DEF RefusedAsWritten, ShortPageIsLast
<1>4. CASE Forbidden'
    <2>1. ShownAsAsked'
        BY <1>2, <1>4, Zenon DEF ShownAsAsked
    <2> QED
        BY <1>3, <2>1 DEF OrmPromises
<1>5. CASE \E x \in Of(db', query.model) : Hidden(db', x, AskedFor, query.m2o)
    <2>1. PICK x \in DOMAIN db' :
                db'[x].model = query.model /\ Hidden(db', x, AskedFor, query.m2o)
        BY <1>5 DEF Of
    <2>2. \E need \in Needed(db', x, AskedFor, query.m2o) : ~MayRead(db', need[1], need[2])
        BY <2>1 DEF Hidden
    <2>3. ShownAsAsked'
        BY <1>1, <1>2, <2>1, <2>2, Zenon DEF ShownAsAsked
    <2> QED
        BY <1>3, <2>3 DEF OrmPromises
<1> QED
    BY <1>4, <1>5

\* The records that were named, as they are.
LEMMA NamedKeepsPromises ==
    ASSUME query' = query, ~Searching, ~Forbidden', WellFormed(query.model, AskedFor),
           \A x \in ToSet(query.ids) : ~Hidden(db', x, AskedFor, query.m2o), NEW length,
           reply' = [status |-> "ok", records |-> query.ids,
                     shown |-> UNION {Wanted(db', x, AskedFor, query.m2o)
                                        : x \in ToSet(query.ids)},
                     length |-> length]
    PROVE  OrmPromises'
<1>1. AskedFor' = AskedFor /\ ~Searching'
    BY AskedAsBefore
<1>2. /\ reply'.status = "ok" /\ reply'.records = query.ids
      /\ reply'.shown = UNION {Wanted(db', x, AskedFor, query.m2o) : x \in ToSet(query.ids)}
    BY Zenon
<1>3. Chosen' = ToSet(query.ids)
    BY <1>1 DEF Chosen
<1>4. RefusedAsWritten' /\ ShortPageIsLast'
    BY <1>1, <1>2 DEF RefusedAsWritten, ShortPageIsLast
<1>5. \A x \in Chosen' :
        ~(\E need \in Needed(db', x, AskedFor, query.m2o) : ~MayRead(db', need[1], need[2]))
    BY <1>3, Zenon DEF Hidden
<1>6. reply'.shown = UNION {Wanted(db', x, AskedFor, query.m2o) : x \in Chosen'}
    BY <1>2, <1>3
<1>7. ShownAsAsked'
    <2>1. reply'.status # "access_denied"
        BY <1>2
    <2> QED
        BY <1>1, <1>2, <1>5, <1>6, <2>1, Zenon DEF ShownAsAsked, Served
<1> QED
    BY <1>4, <1>7 DEF OrmPromises

\* What a query gives of a page is a number.
LEMMA QueriedPage ==
    ASSUME query \in Queries
    PROVE  /\ query.offset \in Nat /\ query.limit \in Int \cup {Unset}
           /\ Paginate(query.limit) \in Int
           /\ query.limit # Unset =>
                \/ Paginate(query.limit) = query.limit
                \/ Paginate(query.limit) = MaxPageSize
<1>1. /\ DefaultPageSize \in Int /\ MaxPageSize \in Int
      /\ query.limit \in Int \cup {Unset} /\ query.offset \in Nat
    BY OrmAssumption DEF OrmAssumption
<1> QED
    BY <1>1 DEF Paginate

\* The page a search answers with.
Paged == Page(Matching(db), Paginate(query.limit), query.offset)

\* A page that is short is the last.
LEMMA PagesKeepTheirPromise ==
    ASSUME query \in Queries, query' = query, db' = db, Paginate(query.limit) >= 0,
           reply'.records = Paged, reply'.length = Len(Matching(db))
    PROVE  ShortPageIsLast'
<1> DEFINE found == Matching(db)
           n == Len(Paged)
           limit == Paginate(query.limit)
<1>1. found \in Seq(ToSet(Order)) /\ Len(found) \in Nat
    BY FoundAreDistinct
<1>2. /\ query.offset \in Nat /\ query.limit \in Int \cup {Unset} /\ limit \in Int
      /\ query.limit # Unset => limit = query.limit \/ limit = MaxPageSize
    BY QueriedPage
<1>3. Matching(db)' = found
    BY DEF Matching
<1>4. DOMAIN found = 1 .. Len(found)
    BY <1>1, LenProperties
<1> HIDE DEF found
<1>5. n \in Nat /\ (query.offset + n >= Len(found) \/ (limit > 0 /\ n = limit))
    BY <1>1, <1>2, PageIsPart DEF Paged, found
<1> HIDE DEF n, limit
<1>6. query.limit # Unset =>
        query.offset + n >= Len(found) \/ n >= query.limit \/ n = MaxPageSize
    BY <1>1, <1>2, <1>5
<1>7. query.offset + n >= Len(found) <=> \A i \in DOMAIN found : i <= query.offset + n
    BY <1>1, <1>2, <1>4, <1>5
<1>8. Len(reply'.records) = n /\ reply'.length = Len(found)
    BY DEF n, found
<1> QED
    BY <1>3, <1>6, <1>7, <1>8 DEF ShortPageIsLast

\* The records of a page, as they are.
LEMMA SearchedKeepsPromises ==
    ASSUME query \in Queries, query' = query, db' = db, Searching, ~Forbidden',
           Paginate(query.limit) >= 0, WellFormed(query.model, AskedFor),
           \A x \in ToSet(Paged) : ~Hidden(db, x, AskedFor, query.m2o),
           reply' = [status |-> "ok", records |-> Paged,
                     shown |-> UNION {Wanted(db, x, AskedFor, query.m2o) : x \in ToSet(Paged)},
                     length |-> Len(Matching(db))]
    PROVE  OrmPromises'
<1>1. AskedFor' = AskedFor /\ Searching'
    BY AskedAsBefore
<1>2. /\ reply'.status = "ok" /\ reply'.records = Paged /\ reply'.length = Len(Matching(db))
      /\ reply'.shown = UNION {Wanted(db, x, AskedFor, query.m2o) : x \in ToSet(Paged)}
    BY Zenon
<1>3. ToSet(Paged) = Chosen' /\ Cardinality(ToSet(Paged)) = Len(Paged)
    <2> DEFINE found == Matching(db)
               places == {i \in DOMAIN found : /\ i > query.offset
                                               /\ i <= query.offset + Len(Paged)}
    <2>1. found \in Seq(ToSet(Order)) /\ Distinct(found)
        BY FoundAreDistinct
    <2>2. /\ ToSet(Paged) = {found[i] : i \in places}
          /\ Cardinality(ToSet(Paged)) = Len(Paged)
        <3>1. Paginate(query.limit) \in Int /\ query.offset \in Nat
            BY QueriedPage
        <3> HIDE DEF found
        <3> DEFINE page == Page(found, Paginate(query.limit), query.offset)
        <3>2. /\ ToSet(page) = {found[i] : i \in {i \in DOMAIN found :
                                    i > query.offset /\ i <= query.offset + Len(page)}}
              /\ Cardinality(ToSet(page)) = Len(page)
            BY <2>1, <3>1, PageIsChosen
        <3>3. Paged = page
            BY DEF Paged, found
        <3> HIDE DEF page
        <3> QED
            BY <3>2, <3>3
    <2>3. Matching(db)' = found
        BY DEF Matching
    <2>4. Chosen' = {found[i] : i \in places}
        BY <1>1, <1>2, <2>3 DEF Chosen
    <2> QED
        BY <2>2, <2>4
<1>4. RefusedAsWritten'
    BY <1>1, <1>2 DEF RefusedAsWritten
<1>5. ShortPageIsLast'
    BY <1>2, PagesKeepTheirPromise
<1>6. \A x \in Chosen' :
        ~(\E need \in Needed(db', x, AskedFor, query.m2o) : ~MayRead(db', need[1], need[2]))
    BY <1>3, Zenon DEF Hidden
<1>7. /\ reply'.shown = UNION {Wanted(db', x, AskedFor, query.m2o) : x \in Chosen'}
      /\ Cardinality(Chosen') = Len(reply'.records)
    BY <1>2, <1>3
<1>8. ShownAsAsked'
    <2>1. reply'.status # "access_denied"
        BY <1>2
    <2> QED
        BY <1>1, <1>2, <1>6, <1>7, <2>1, Zenon DEF ShownAsAsked, Served
<1> QED
    BY <1>4, <1>5, <1>8 DEF OrmPromises

\* What is known of a query that is not answered yet.
Waiting == db \in Databases /\ query \in Queries

\* A query of named records: what it answers keeps what it promises.
LEMMA NamedAnswersKeepPromises ==
    ASSUME query' = query, ~Searching, ~Forbidden', NEW spec, spec = AskedFor, NEW rows, NEW length,
           ToSet(query.ids) \subseteq Of(rows, query.model),
           Answers(rows, query.ids, spec, length),
           Serialized(rows, query.ids, spec).status = "ok" => db' = rows,
           Serialized(rows, query.ids, spec).status = "denied" =>
                \E x \in Of(db', query.model) : Hidden(db', x, spec, query.m2o)
    PROVE  OrmPromises'
<1>1. CASE ~WellFormed(query.model, spec) /\ reply'.status = "validation_error"
    BY <1>1, InvalidKeepsPromises
<1>2. CASE /\ Serialized(rows, query.ids, spec).status = "denied"
           /\ reply'.status = "access_denied"
    BY <1>2, DeniedKeepsPromises
<1>3. CASE /\ WellFormed(query.model, spec)
           /\ \A x \in ToSet(query.ids) : ~Hidden(rows, x, spec, query.m2o)
           /\ Serialized(rows, query.ids, spec).status = "ok"
           /\ reply' = [status |-> "ok", records |-> query.ids,
                        shown |-> UNION {Wanted(rows, x, spec, query.m2o)
                                            : x \in ToSet(query.ids)},
                        length |-> length]
    <2>1. db' = rows
        BY <1>3
    <2>2. /\ WellFormed(query.model, AskedFor)
          /\ \A x \in ToSet(query.ids) : ~Hidden(db', x, AskedFor, query.m2o)
          /\ reply' = [status |-> "ok", records |-> query.ids,
                       shown |-> UNION {Wanted(db', x, AskedFor, query.m2o)
                                            : x \in ToSet(query.ids)},
                       length |-> length]
        BY <1>3, <2>1
    <2> QED
        BY <2>2, NamedKeepsPromises
<1> QED
    BY <1>1, <1>2, <1>3, Zenon DEF Answers

\* The records of a page are of the model that was asked for.
LEMMA PagedAreOfModel ==
    ASSUME query \in Queries, Paginate(query.limit) >= 0
    PROVE  ToSet(Paged) \subseteq Of(db, query.model)
<1>1. /\ Matching(db) \in Seq(ToSet(Order)) /\ Distinct(Matching(db))
      /\ ToSet(Matching(db)) \subseteq Of(db, query.model)
    BY FoundAreDistinct
<1>2. Paginate(query.limit) \in Int /\ query.offset \in Nat
    BY QueriedPage
<1> DEFINE page == Page(Matching(db), Paginate(query.limit), query.offset)
<1>3. ToSet(page) \subseteq ToSet(Matching(db))
    BY <1>1, <1>2, PageIsChosen
<1>4. Paged = page
    BY DEF Paged
<1> HIDE DEF page
<1> QED
    BY <1>1, <1>3, <1>4

\* A query of a page: what it answers keeps what it promises.
LEMMA PagedAnswersKeepPromises ==
    ASSUME query \in Queries, query' = query, db' = db, Searching, ~Forbidden',
           NEW spec, spec = AskedFor,
           Paginate(query.limit) >= 0, Answers(db, Paged, spec, Len(Matching(db)))
    PROVE  OrmPromises'
<1>1. CASE ~WellFormed(query.model, spec) /\ reply'.status = "validation_error"
    BY <1>1, InvalidKeepsPromises
<1>2. CASE /\ \E x \in ToSet(Paged) : Hidden(db, x, spec, query.m2o)
           /\ reply'.status = "access_denied"
    <2>1. ToSet(Paged) \subseteq Of(db, query.model)
        BY PagedAreOfModel
    <2>2. \E x \in Of(db', query.model) : Hidden(db', x, AskedFor, query.m2o)
        BY <1>2, <2>1
    <2> QED
        BY <1>2, <2>2, DeniedKeepsPromises
<1>3. CASE /\ WellFormed(query.model, spec)
           /\ \A x \in ToSet(Paged) : ~Hidden(db, x, spec, query.m2o)
           /\ reply' = [status |-> "ok", records |-> Paged,
                        shown |-> UNION {Wanted(db, x, spec, query.m2o) : x \in ToSet(Paged)},
                        length |-> Len(Matching(db))]
    BY <1>3, SearchedKeepsPromises
<1> QED
    BY <1>1, <1>2, <1>3, Zenon DEF Answers

\* The records a query meets are sound.
LEMMA WaitingRecords ==
    ASSUME Waiting
    PROVE  /\ query \in Queries /\ Sound(db)
           /\ query.operation \in {"read", "write"} =>
                ToSet(query.ids) \subseteq Of(db, query.model)
           /\ query.operation = "create" =>
                /\ Len(query.ids) = 1 /\ query.ids \in Seq(ToSet(query.ids))
                /\ query.ids[1] \notin DOMAIN db \cup {Unset}
BY OrmAssumption, RecordsAssumption DEF Waiting, OrmAssumption, RecordsAssumption, Sound

\* read: the records that were named.
LEMMA OrmReadKeepsPromises ==
    ASSUME Waiting, OrmRead
    PROVE  OrmPromises'
<1>1. /\ query' = query /\ query.operation = "read" /\ query.model \in DOMAIN Schema
      /\ db' = db /\ grant' = grant
    BY DEF OrmRead, Asking
<1>2. Sound(db) /\ query \in Queries /\ ToSet(query.ids) \subseteq Of(db, query.model)
    BY <1>1, WaitingRecords
<1>3. Specification = Closure(query.paths) /\ IsSpecification(Closure(query.paths), MaxDepth)
    BY <1>1, <1>2, AskedAreSpecifications
<1>4. AskedFor = Closure(query.paths) /\ ~Searching
    BY <1>1 DEF AskedFor, Searching
<1> DEFINE spec == Closure(query.paths)
<1> HIDE DEF spec
<1>5. Return(Serialized(db, query.ids, spec), query.ids, Len(query.ids))
    BY <1>3 DEF OrmRead, spec
<1>6. Answers(db, query.ids, spec, Len(query.ids))
    BY <1>1, <1>2, <1>3, <1>5, ReturnAnswers DEF spec
<1>7. Serialized(db, query.ids, spec).status = "denied" =>
        \E x \in Of(db', query.model) : Hidden(db', x, spec, query.m2o)
    BY <1>1, <1>2, <1>6 DEF Answers
<1>8. ~Forbidden'
    BY <1>1, <1>4, ForbiddenAsBefore DEF Forbidden
<1> QED
    BY <1>1, <1>2, <1>4, <1>6, <1>7, <1>8, NamedAnswersKeepPromises DEF spec

\* A page serialised as spec, the refusal of the model or the error of a negative limit.
PageReturned(spec) ==
    IF grant = "none" THEN ReplyError("access_denied")
    ELSE IF Paginate(query.limit) < 0 THEN ReplyError("internal_error")
    ELSE Return(Serialized(db, Paged, spec), Paged, Len(Matching(db)))

\* search and search_read: a page of records.
LEMMA PageKeepsPromises ==
    ASSUME Waiting, query' = query, db' = db, grant' = grant,
           query.model \in DOMAIN Schema, Searching, NEW spec, spec = AskedFor,
           IsSpecification(spec, MaxDepth), PageReturned(spec)
    PROVE  OrmPromises'
<1>1. Sound(db) /\ query \in Queries
    BY WaitingRecords
<1>2. CASE grant # "none" /\ Paginate(query.limit) < 0
    <2>1. reply' = [NoReply EXCEPT !.status = "internal_error"]
        BY <1>2 DEF PageReturned, ReplyError
    <2> QED
        BY <2>1, ErrorKeepsPromises
<1>3. Searching' /\ (Forbidden' <=> grant = "none")
    <2>1. query.operation # "write" /\ query.operation # "create"
        BY DEF Searching
    <2> QED
        BY <2>1, AskedAsBefore DEF Forbidden
<1>4. CASE grant = "none"
    <2>1. reply'.status = "access_denied"
        BY <1>4 DEF PageReturned, ReplyError, NoReply
    <2> QED
        BY <1>3, <1>4, <2>1, DeniedKeepsPromises
<1>5. CASE grant # "none" /\ ~(Paginate(query.limit) < 0)
    <2>1. Paginate(query.limit) \in Int /\ query.offset \in Nat
        BY <1>1, QueriedPage
    <2>2. Paginate(query.limit) >= 0
        BY <1>5, <2>1
    <2>3. ToSet(Paged) \subseteq Of(db, query.model)
        BY <1>1, <2>2, PagedAreOfModel
    <2>4. Return(Serialized(db, Paged, spec), Paged, Len(Matching(db)))
        BY <1>5 DEF PageReturned
    <2>5. Answers(db, Paged, spec, Len(Matching(db)))
        BY <1>1, <2>3, <2>4, ReturnAnswers
    <2> QED
        BY <1>1, <1>3, <1>5, <2>2, <2>5, PagedAnswersKeepPromises
<1> QED
    BY <1>2, <1>4, <1>5

\* search: identifiers.
LEMMA OrmSearchKeepsPromises ==
    ASSUME Waiting, OrmSearch
    PROVE  OrmPromises'
<1>1. /\ query' = query /\ query.operation = "search" /\ query.model \in DOMAIN Schema
      /\ db' = db /\ grant' = grant
    BY DEF OrmSearch, Asking
<1>2. AskedFor = {<<"id">>} /\ Searching
    BY <1>1 DEF AskedFor, Searching
<1>3. IsSpecification({<<"id">>}, MaxDepth)
    BY <1>1, AskedAreSpecifications DEF Waiting
<1>4. PageReturned({<<"id">>})
    BY DEF OrmSearch, PageReturned, Paged
<1> QED
    BY <1>1, <1>2, <1>3, <1>4, PageKeepsPromises

\* search_read: what is asked of them.
LEMMA OrmSearchReadKeepsPromises ==
    ASSUME Waiting, OrmSearchRead
    PROVE  OrmPromises'
<1>1. /\ query' = query /\ query.operation = "search_read" /\ query.model \in DOMAIN Schema
      /\ db' = db /\ grant' = grant
    BY DEF OrmSearchRead, Asking
<1>2. AskedFor = Closure(query.paths) /\ Searching
    BY <1>1 DEF AskedFor, Searching
<1>3. Specification = AskedFor /\ IsSpecification(AskedFor, MaxDepth)
    BY <1>1, <1>2, AskedAreSpecifications DEF Waiting
<1>4. PageReturned(AskedFor)
    BY <1>3 DEF OrmSearchRead, PageReturned, Paged
<1> QED
    BY <1>1, <1>2, <1>3, <1>4, PageKeepsPromises

\* The name is not given, or is not one the model takes.
LEMMA NameIsRequired ==
    ASSUME query' = query, query.operation \in {"write", "create"},
           query.name \in {Unset, Invalid}, ReplyError("validation_error")
    PROVE  OrmPromises'
<1>1. reply'.status = "validation_error"
    BY DEF ReplyError, NoReply
<1> QED
    BY <1>1, InvalidKeepsPromises

\* write: the records as they are once written.
LEMMA OrmWriteKeepsPromises ==
    ASSUME Waiting, OrmWrite
    PROVE  OrmPromises'
<1> DEFINE rows == Written(db, query.ids, query.name)
           spec == AskedFor
           out == Serialized(rows, query.ids, spec)
           forbidden == \E x \in ToSet(query.ids) : grant # "change" \/ ~db[x].visible
<1>1. /\ query' = query /\ query.operation = "write" /\ query.model \in DOMAIN Schema
      /\ grant' = grant
    BY DEF OrmWrite, Asking
<1>2. Sound(db) /\ query \in Queries /\ ToSet(query.ids) \subseteq Of(db, query.model)
    BY <1>1, WaitingRecords
<1>3. AskedFor = Closure(query.paths) \cup {<<"id">>} /\ ~Searching
    BY <1>1 DEF AskedFor, Searching
<1>4. WithId(Specification) = spec /\ IsSpecification(spec, MaxDepth)
    BY <1>1, <1>2, <1>3, AskedAreSpecifications DEF WithId
<1>5. Sound(rows) /\ AlikeButValues(db, rows)
    BY <1>2, WrittenRows
<1>6. rows = [x \in DOMAIN db |->
                IF x \in ToSet(query.ids) THEN [db[x] EXCEPT !.values.name = query.name]
                ELSE db[x]]
    BY DEF Written
<1>7. IF query.name = Unset THEN ReplyError("validation_error") /\ UNCHANGED db
      ELSE IF forbidden THEN ReplyError("access_denied") /\ UNCHANGED db
      ELSE IF query.name = Invalid /\ query.ids # <<>>
      THEN ReplyError("validation_error") /\ UNCHANGED db
      ELSE /\ Return(out, query.ids, Len(query.ids))
           /\ db' = IF out.status = "ok" THEN rows ELSE db
    BY <1>4, <1>6 DEF OrmWrite
<1>8. forbidden <=> Forbidden
    BY <1>1 DEF Forbidden, Searching
<1> HIDE DEF rows, spec, out, forbidden
<1>9. CASE query.name = Unset \/ (~forbidden /\ query.name = Invalid /\ query.ids # <<>>)
    <2>1. query.name \in {Unset, Invalid} /\ ReplyError("validation_error")
        BY <1>7, <1>9
    <2> QED
        BY <1>1, <2>1, NameIsRequired
<1>10. CASE query.name # Unset /\ forbidden
    <2>1. reply'.status = "access_denied" /\ db' = db
        BY <1>7, <1>10 DEF ReplyError, NoReply
    <2>2. Forbidden'
        BY <1>1, <1>8, <1>10, <2>1, ForbiddenAsBefore
    <2> QED
        BY <1>1, <2>1, <2>2, DeniedKeepsPromises
<1>11. CASE /\ query.name # Unset /\ ~forbidden
            /\ ~(query.name = Invalid /\ query.ids # <<>>)
    <2>1. /\ Return(out, query.ids, Len(query.ids))
          /\ db' = IF out.status = "ok" THEN rows ELSE db
        BY <1>7, <1>11
    <2>2. DOMAIN rows = DOMAIN db /\ \A x \in DOMAIN db : rows[x].model = db[x].model
        BY <1>5 DEF AlikeButValues
    <2>3. ToSet(query.ids) \subseteq Of(rows, query.model)
        BY <1>2, <2>2 DEF Of
    <2>4. Answers(rows, query.ids, spec, Len(query.ids))
        BY <1>1, <1>4, <1>5, <2>1, <2>3, ReturnAnswers DEF out
    <2>5. ASSUME out.status = "denied"
          PROVE  \E x \in Of(db', query.model) : Hidden(db', x, spec, query.m2o)
        <3>1. WellFormed(query.model, spec)
            BY <2>4, <2>5 DEF Answers, out
        <3>2. PICK x \in ToSet(query.ids) : Hidden(rows, x, spec, query.m2o)
            BY <2>4, <2>5 DEF Answers, out
        <3>3. x \in DOMAIN db /\ db[x].model = query.model
            BY <1>2, <3>2 DEF Of
        <3>4. Hidden(db, x, spec, query.m2o) <=> Hidden(rows, x, spec, query.m2o)
            BY <1>2, <1>4, <1>5, <3>1, <3>3, HiddenAlike
        <3>5. db' = db
            BY <2>1, <2>5
        <3> QED
            BY <3>2, <3>3, <3>4, <3>5 DEF Of
    <2>6. ~Forbidden'
        <3>1. \A x \in ToSet(query.ids) : x \in DOMAIN db
            BY <1>2 DEF Of
        <3>2. \A x \in DOMAIN db : rows[x].visible = db[x].visible
            BY <1>5 DEF AlikeButValues
        <3>3. db' = rows \/ db' = db
            BY <2>1
        <3>4. \A x \in ToSet(query.ids) : db'[x].visible = db[x].visible
            BY <3>1, <3>2, <3>3
        <3> QED
            BY <1>1, <1>8, <1>11, <3>4, ForbiddenAsBefore
    <2> QED
        BY <1>1, <1>3, <2>1, <2>3, <2>4, <2>5, <2>6, NamedAnswersKeepPromises DEF out, spec
<1> QED
    BY <1>9, <1>10, <1>11

\* create: the record that was created.
LEMMA OrmCreateKeepsPromises ==
    ASSUME Waiting, OrmCreate
    PROVE  OrmPromises'
<1> DEFINE new == query.ids[1]
           rows == Created(db, query.model, new, query.name)
           spec == AskedFor
           out == Serialized(rows, query.ids, spec)
<1>1. /\ query' = query /\ query.operation = "create" /\ query.model \in DOMAIN Schema
      /\ grant' = grant
    BY DEF OrmCreate, Asking
<1>2. /\ Sound(db) /\ query \in Queries /\ Len(query.ids) = 1
      /\ query.ids \in Seq(ToSet(query.ids)) /\ new \notin DOMAIN db \cup {Unset}
    BY <1>1, WaitingRecords
<1>3. AskedFor = Closure(query.paths) \cup {<<"id">>} /\ ~Searching
    BY <1>1 DEF AskedFor, Searching
<1>4. WithId(Specification) = spec /\ IsSpecification(spec, MaxDepth)
    BY <1>1, <1>2, <1>3, AskedAreSpecifications DEF WithId
<1>5. Sound(rows)
    BY <1>1, <1>2, CreatedRows
<1>6. IF query.name = Unset THEN ReplyError("validation_error") /\ UNCHANGED db
      ELSE IF grant # "change" THEN ReplyError("access_denied") /\ UNCHANGED db
      ELSE IF query.name = Invalid THEN ReplyError("validation_error") /\ UNCHANGED db
      ELSE /\ Return(out, query.ids, 1)
           /\ db' = IF out.status = "ok" THEN rows ELSE db
    BY <1>4 DEF OrmCreate, Created, CreatedRow, CreatedValue
<1>7. ToSet(query.ids) = {new}
    <2>1. DOMAIN query.ids = 1 .. 1
        BY <1>2, LenProperties
    <2> QED
        BY <2>1 DEF ToSet
<1>8. new \in Of(rows, query.model)
    <2>1. /\ DOMAIN rows = DOMAIN db \cup {new}
          /\ rows[new] = CreatedRow(query.model, new, query.name)
        BY DEF Created
    <2>2. CreatedRow(query.model, new, query.name).model = query.model
        BY DEF CreatedRow
    <2> HIDE DEF rows, new
    <2> QED
        BY <2>1, <2>2 DEF Of
<1>9. WellFormed(query.model, spec) => ~Hidden(rows, new, spec, query.m2o)
    BY <1>1, <1>2, <1>4, CreatedIsNotHidden
<1> HIDE DEF new, rows, spec, out
<1>10. Forbidden' <=> grant # "change"
    BY <1>1, <1>3, ForbiddenAsBefore DEF Forbidden
<1>11. CASE query.name = Unset \/ (grant = "change" /\ query.name = Invalid)
    <2>1. query.name \in {Unset, Invalid} /\ ReplyError("validation_error")
        BY <1>6, <1>11
    <2> QED
        BY <1>1, <2>1, NameIsRequired
<1>12. CASE query.name # Unset /\ grant # "change"
    <2>1. reply'.status = "access_denied"
        BY <1>6, <1>12 DEF ReplyError, NoReply
    <2> QED
        BY <1>1, <1>10, <1>12, <2>1, DeniedKeepsPromises
<1>13. CASE query.name \notin {Unset, Invalid} /\ grant = "change"
    <2>1. /\ Return(out, query.ids, 1)
          /\ db' = IF out.status = "ok" THEN rows ELSE db
        BY <1>6, <1>13
    <2>2. ToSet(query.ids) \subseteq Of(rows, query.model)
        BY <1>7, <1>8
    <2>3. Answers(rows, query.ids, spec, 1)
        BY <1>1, <1>4, <1>5, <2>1, <2>2, ReturnAnswers DEF out
    <2>4. out.status # "denied"
        BY <1>7, <1>9, <2>3 DEF Answers, out
    <2> QED
        BY <1>1, <1>3, <1>10, <1>13, <2>1, <2>2, <2>3, <2>4, NamedAnswersKeepPromises
           DEF out, spec
<1> QED
    BY <1>11, <1>12, <1>13

----------------------------------------------------------------------------
(* The theorems *)

\* Until a request is answered, its query and the records are as they were; and what it
\* was answered keeps what a reply promises.
OrmInv ==
    /\ reply.status = "none" => Waiting
    /\ OrmPromises

\* Nothing is promised before.
LEMMA OrmInvInit ==
    OrmInit => OrmInv
<1> SUFFICES ASSUME OrmInit PROVE OrmInv
    OBVIOUS
<1>1. Waiting /\ reply = NoReply
    BY DEF OrmInit, Waiting
<1>2. reply.status = "none"
    BY <1>1 DEF NoReply
<1>3. OrmPromises
    BY <1>2 DEF OrmPromises, ShownAsAsked, RefusedAsWritten, ShortPageIsLast, Served
<1> QED
    BY <1>1, <1>3 DEF OrmInv

\* Serialisation succeeds, or it is one of two refusals.
LEMMA SerializedStatus ==
    ASSUME NEW rows, NEW records, NEW spec
    PROVE  Serialized(rows, records, spec).status \in {"ok", "invalid", "denied"}
<1>1. \A parts : Together(parts).status \in {"ok", "invalid", "denied"}
    BY DEF Together, Refused, Shows
<1>2. Refused("invalid").status = "invalid"
    BY DEF Refused
<1> QED
    BY <1>1, <1>2 DEF Serialized, SerializeRecords

\* A request that waits is answered by every route.
LEMMA ReplyIsGiven ==
    /\ \A status : ReplyError(status) => reply'.status = status
    /\ \A rows, records, spec, length :
        Return(Serialized(rows, records, spec), records, length) => reply'.status # "none"
<1>1. \A status : ReplyError(status) => reply'.status = status
    BY DEF ReplyError, NoReply
<1>2. ASSUME NEW rows, NEW records, NEW spec, NEW length,
             Return(Serialized(rows, records, spec), records, length)
      PROVE  reply'.status # "none"
    <2> DEFINE out == Serialized(rows, records, spec)
    <2>1. out.status \in {"ok", "invalid", "denied"}
        BY SerializedStatus
    <2> HIDE DEF out
    <2>2. CASE out.status = "invalid" \/ out.status = "denied"
        <3>1. ReplyError("validation_error") \/ ReplyError("access_denied")
            BY <1>2, <2>2 DEF Return, out
        <3> QED
            BY <1>1, <3>1
    <2>3. CASE out.status = "ok"
        BY <1>2, <2>3 DEF Return, out
    <2> QED
        BY <2>1, <2>2, <2>3
<1> QED
    BY <1>1, <1>2

\* Every route keeps what a reply promises, and so does a reply that was given.
LEMMA OrmInvNext ==
    OrmInv /\ [OrmNext]_ormVars => OrmInv'
<1> SUFFICES ASSUME OrmInv, [OrmNext]_ormVars PROVE OrmInv'
    OBVIOUS
<1>1. ASSUME NEW operation, Asking(operation) PROVE Waiting
    BY <1>1 DEF Asking, NoReply, OrmInv
<1>2. CASE MissingModel
    <2>1. reply' = [NoReply EXCEPT !.status = "missing_record"] /\ reply'.status # "none"
        BY <1>2 DEF MissingModel, ReplyError, NoReply
    <2> QED
        BY <2>1, ErrorKeepsPromises DEF OrmInv
<1>3. CASE OrmRead
    <2>1. Asking("read")
          /\ Return(Serialized(db, query.ids, Specification), query.ids, Len(query.ids))
        BY <1>3 DEF OrmRead
    <2> QED
        BY <1>1, <1>3, <2>1, OrmReadKeepsPromises, ReplyIsGiven DEF OrmInv
<1>4. CASE OrmSearch
    <2>1. Asking("search") /\ PageReturned({<<"id">>})
        BY <1>4 DEF OrmSearch, PageReturned, Paged
    <2>2. reply'.status # "none"
        BY <2>1, ReplyIsGiven DEF PageReturned
    <2> QED
        BY <1>1, <1>4, <2>1, <2>2, OrmSearchKeepsPromises DEF OrmInv
<1>5. CASE OrmSearchRead
    <2>1. Asking("search_read") /\ PageReturned(Specification)
        BY <1>5 DEF OrmSearchRead, PageReturned, Paged
    <2>2. reply'.status # "none"
        BY <2>1, ReplyIsGiven DEF PageReturned
    <2> QED
        BY <1>1, <1>5, <2>1, <2>2, OrmSearchReadKeepsPromises DEF OrmInv
<1>6. CASE OrmWrite
    <2>1. Asking("write")
        BY <1>6 DEF OrmWrite
    <2>2. reply'.status # "none"
        BY <1>6, ReplyIsGiven DEF OrmWrite
    <2> QED
        BY <1>1, <1>6, <2>1, <2>2, OrmWriteKeepsPromises DEF OrmInv
<1>7. CASE OrmCreate
    <2>1. Asking("create")
        BY <1>7 DEF OrmCreate
    <2>2. reply'.status # "none"
        BY <1>7, ReplyIsGiven DEF OrmCreate
    <2> QED
        BY <1>1, <1>7, <2>1, <2>2, OrmCreateKeepsPromises DEF OrmInv
<1>8. CASE UNCHANGED ormVars
    <2>1. db' = db /\ query' = query /\ grant' = grant /\ reply' = reply
        BY <1>8 DEF ormVars
    <2>2. AskedFor' = AskedFor /\ (Searching' <=> Searching) /\ (Served' <=> Served)
        BY <2>1, AskedAsBefore DEF Served
    <2>3. Matching(db)' = Matching(db)
        BY <2>1 DEF Matching
    <2>4. Chosen' = Chosen
        BY <2>1, <2>2, <2>3 DEF Chosen
    <2>5. RefusedAsWritten'
        BY <2>1, <2>2 DEF RefusedAsWritten, OrmInv, OrmPromises
    <2>6. ShortPageIsLast'
        BY <2>1, <2>2, <2>3 DEF ShortPageIsLast, OrmInv, OrmPromises
    <2>7. ShownAsAsked'
        <3>1. ShownAsAsked
            BY DEF OrmInv, OrmPromises
        <3> QED
            BY <2>1, <2>2, <2>4, <3>1, ForbiddenAsBefore DEF ShownAsAsked
    <2>8. reply'.status = "none" => Waiting'
        BY <2>1 DEF OrmInv, Waiting
    <2> QED
        BY <2>5, <2>6, <2>7, <2>8 DEF OrmInv, OrmPromises
<1> QED
    BY <1>2, <1>3, <1>4, <1>5, <1>6, <1>7, <1>8 DEF OrmNext, Replied

\* The invariant holds.
LEMMA OrmInvHolds ==
    OrmSpec => []OrmInv
BY OrmInvInit, OrmInvNext, PTL DEF OrmSpec

\* What serialize_records makes of well-typed records and a specification is what its
\* paths lead to: refused if one of them leads to no field, then if one of the fields they
\* need cannot be read, and otherwise the triples of all of them, at every depth.
THEOREM SerializerShowsWhatIsAsked ==
    ASSUME NEW rows, Sound(rows), NEW m \in DOMAIN Schema, NEW m2o,
           NEW records, records \subseteq Of(rows, m),
           NEW spec, IsSpecification(spec, MaxDepth)
    PROVE  LET out == SerializeRecords(rows, m, records, spec, m2o) IN
           /\ out.status = "invalid" <=> ~WellFormed(m, spec)
           /\ out.status = "denied" <=>
                WellFormed(m, spec) /\ \E x \in records : Hidden(rows, x, spec, m2o)
           /\ out.status = "ok" =>
                out.shown = UNION {Wanted(rows, x, spec, m2o) : x \in records}
<1> DEFINE out == SerializeRecords(rows, m, records, spec, m2o)
           all == UNION {Wanted(rows, x, spec, m2o) : x \in records}
<1>1. /\ ~WellFormed(m, spec) => out = Refused("invalid")
      /\ WellFormed(m, spec) /\ (\E x \in records : Hidden(rows, x, spec, m2o)) =>
            out = Refused("denied")
      /\ WellFormed(m, spec) /\ (\A x \in records : ~Hidden(rows, x, spec, m2o)) =>
            out = Shows(all)
    BY RecordsAreServed
<1>2. /\ Refused("invalid").status = "invalid" /\ Refused("denied").status = "denied"
      /\ Shows(all).status = "ok" /\ Shows(all).shown = all
    BY DEF Refused, Shows
<1> HIDE DEF out, all
<1>3. /\ out.status = "invalid" <=> ~WellFormed(m, spec)
      /\ out.status = "denied" <=>
            WellFormed(m, spec) /\ \E x \in records : Hidden(rows, x, spec, m2o)
      /\ out.status = "ok" => out.shown = all
    BY <1>1, <1>2
<1> QED
    BY <1>3 DEF out, all

\* _validate_specification accepts exactly the specifications all of whose paths lead,
\* over relations, to a field of a model, whatever records there are.
THEOREM ValidationIsOfPaths ==
    \A m \in DOMAIN Schema : \A spec :
        IsSpecification(spec, MaxDepth) => (Valid(m, spec) <=> WellFormed(m, spec))
BY ValidMeansWellFormed

\* The merge of a query's dotted paths does not depend on their order: it is the set of
\* the paths and of what is on the way to them.
THEOREM MergeIsClosure ==
    \A paths \in Seq(Path) : SpecificationFromQuery(paths) = Closure(paths)
BY SpecificationIsClosure

\* A reply shows what was asked for and may be seen, to a caller with the right to ask it;
\* and access is denied only for want of that right, or for a record that may not be read.
THEOREM ShowsWhatIsAsked ==
    OrmSpec => []ShownAsAsked
<1>1. OrmInv => ShownAsAsked
    BY DEF OrmInv, OrmPromises
<1> QED
    BY <1>1, OrmInvHolds, PTL

\* A specification is accepted or refused for what it says.
THEOREM RefusesWhatIsIllFormed ==
    OrmSpec => []RefusedAsWritten
<1>1. OrmInv => RefusedAsWritten
    BY DEF OrmInv, OrmPromises
<1> QED
    BY <1>1, OrmInvHolds, PTL

\* A page that is short is the last.
THEOREM ShortPagesAreLast ==
    OrmSpec => []ShortPageIsLast
<1>1. OrmInv => ShortPageIsLast
    BY DEF OrmInv, OrmPromises
<1> QED
    BY <1>1, OrmInvHolds, PTL

====
