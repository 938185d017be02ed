----------------------------- MODULE Data_proofs -----------------------------
(***************************************************************************)
(* What holds of data, whatever the state: what a sum is and how it moves  *)
(* with one of its terms, what sequences become when they are joined, gone *)
(* through and flattened, and what the operators of Conversions keep of    *)
(* the messages that they read and write.                                  *)
(***************************************************************************)
EXTENDS UnitCounts, Conversions, SequencesExt, FiniteSetTheorems,
        SequenceTheorems, TLAPS

----------------------------------------------------------------------------
(* Sums. *)

(* The units of one member. *)
UnitsOf(s, v) == {s} \X (1..v)

(* A member of value v owns v units. *)
LEMMA UnitsOfCount ==
  ASSUME NEW s, NEW v \in Nat
  PROVE  IsFiniteSet(UnitsOf(s, v)) /\ Cardinality(UnitsOf(s, v)) = v
<1> DEFINE f == [k \in 1..v |-> <<s, k>>]
<1>1. f \in [1..v -> UnitsOf(s, v)]
  BY DEF UnitsOf
<1>2. IsInjective(f)
  BY DEF IsInjective
<1>3. \A u \in UnitsOf(s, v) : \E k \in 1..v : f[k] = u
  BY DEF UnitsOf
<1>4. f \in Bijection(1..v, UnitsOf(s, v))
  BY <1>1, <1>2, <1>3 DEF Bijection, Injection, Surjection
<1>5. ExistsBijection(1..v, UnitsOf(s, v))
  BY <1>4 DEF ExistsBijection
<1>6. IsFiniteSet(1..v) /\ IsFiniteSet(UnitsOf(s, v))
  BY <1>5, FS_Interval, FS_Bijection
<1>7. QED
  BY <1>5, <1>6, FS_CountingElements

(* There are finitely many units. *)
LEMMA UnitsOverFinite ==
  ASSUME NEW S, IsFiniteSet(S), NEW M \in Nat, NEW f \in [S -> 0..M]
  PROVE  /\ IsFiniteSet(UnitsOver(S, M, f))
         /\ Cardinality(UnitsOver(S, M, f)) \in Nat
<1>1. IsFiniteSet(S \X (1..M))
  <2>1. IsFiniteSet(1..M)
    BY FS_Interval
  <2>2. QED
    BY <2>1, FS_Product
<1>2. UnitsOver(S, M, f) \in SUBSET (S \X (1..M))
  BY DEF UnitsOver
<1>3. QED
  BY <1>1, <1>2, FS_Subset, FS_CardinalityType

(* Changing one value changes the sum by the difference. *)
LEMMA UnitsOverExcept ==
  ASSUME NEW S, IsFiniteSet(S), NEW M \in Nat,
         NEW f \in [S -> 0..M], NEW g \in [S -> 0..M],
         NEW s \in S, \A x \in S \ {s} : g[x] = f[x]
  PROVE  Cardinality(UnitsOver(S, M, g)) + f[s]
           = Cardinality(UnitsOver(S, M, f)) + g[s]
<1> DEFINE v == g[s]
           Others == {u \in UnitsOver(S, M, f) : u[1] # s}
<1>1. v \in 0..M /\ f[s] \in 0..M
  OBVIOUS
<1>2. /\ UnitsOver(S, M, f) = Others \cup UnitsOf(s, f[s])
      /\ UnitsOver(S, M, g) = Others \cup UnitsOf(s, v)
      /\ Others \cap UnitsOf(s, f[s]) = {}
      /\ Others \cap UnitsOf(s, v) = {}
  BY <1>1 DEF UnitsOver, UnitsOf
<1>3. IsFiniteSet(Others)
  BY UnitsOverFinite, FS_Subset
<1>4. /\ IsFiniteSet(UnitsOf(s, f[s])) /\ Cardinality(UnitsOf(s, f[s])) = f[s]
      /\ IsFiniteSet(UnitsOf(s, v)) /\ Cardinality(UnitsOf(s, v)) = v
  BY <1>1, UnitsOfCount
<1>5. /\ Cardinality(Others \cup UnitsOf(s, f[s])) =
           Cardinality(Others) + Cardinality(UnitsOf(s, f[s])) - Cardinality({})
      /\ Cardinality(Others \cup UnitsOf(s, v)) =
           Cardinality(Others) + Cardinality(UnitsOf(s, v)) - Cardinality({})
  <2> HIDE DEF Others
  <2>1. QED
    BY <1>2, <1>3, <1>4, FS_Union
<1>6. Cardinality({}) = 0 /\ Cardinality(Others) \in Nat /\ f[s] \in Nat /\ v \in Nat
  BY <1>1, <1>3, FS_EmptySet, FS_CardinalityType
<1>7. /\ Cardinality(UnitsOver(S, M, f)) = Cardinality(Others) + f[s]
      /\ Cardinality(UnitsOver(S, M, g)) = Cardinality(Others) + v
  <2> HIDE DEF Others
  <2>1. QED
    BY <1>2, <1>4, <1>5, <1>6
<1>8. QED
  <2> HIDE DEF Others
  <2>1. QED
    BY <1>6, <1>7

(* The sum is 0 exactly when no value is positive. *)
LEMMA UnitsOverNone ==
  ASSUME NEW S, IsFiniteSet(S), NEW M \in Nat, NEW f \in [S -> 0..M]
  PROVE  Cardinality(UnitsOver(S, M, f)) = 0 <=> {s \in S : f[s] > 0} = {}
<1>1. Cardinality(UnitsOver(S, M, f)) = 0 <=> UnitsOver(S, M, f) = {}
  BY UnitsOverFinite, FS_EmptySet
<1>2. ASSUME NEW s \in S, f[s] > 0
      PROVE  <<s, 1>> \in UnitsOver(S, M, f)
  <2>1. f[s] \in 0..M
    OBVIOUS
  <2>2. QED
    BY <1>2, <2>1 DEF UnitsOver
<1>3. ASSUME NEW u \in UnitsOver(S, M, f)
      PROVE  u[1] \in S /\ f[u[1]] > 0
  BY DEF UnitsOver
<1>4. QED
  BY <1>1, <1>2, <1>3

(* A further member adds its value to the sum. *)
LEMMA UnitsOverAdd ==
  ASSUME NEW D, NEW S \in SUBSET D, IsFiniteSet(S), NEW s \in D, s \notin S,
         NEW M \in Nat, NEW f \in [D -> 0..M]
  PROVE  /\ IsFiniteSet(UnitsOver(S, M, f))
         /\ Cardinality(UnitsOver(S, M, f)) \in Nat
         /\ Cardinality(UnitsOver(S \cup {s}, M, f))
              = Cardinality(UnitsOver(S, M, f)) + f[s]
<1> DEFINE rest == UnitsOver(S, M, f)
<1>1. f[s] \in 0..M /\ f[s] \in Nat
  OBVIOUS
<1>2. UnitsOver(S \cup {s}, M, f) = rest \cup UnitsOf(s, f[s])
  BY <1>1 DEF UnitsOver, UnitsOf
<1>3. rest \cap UnitsOf(s, f[s]) = {}
  BY DEF UnitsOver, UnitsOf
<1>4. IsFiniteSet(rest) /\ Cardinality(rest) \in Nat
  <2>1. IsFiniteSet(S \X (1..M))
    <3>1. IsFiniteSet(1..M)
      BY FS_Interval
    <3>2. QED
      BY <3>1, FS_Product
  <2>2. rest \in SUBSET (S \X (1..M))
    BY DEF UnitsOver
  <2>3. QED
    BY <2>1, <2>2, FS_Subset, FS_CardinalityType
<1>5. IsFiniteSet(UnitsOf(s, f[s])) /\ Cardinality(UnitsOf(s, f[s])) = f[s]
  BY <1>1, UnitsOfCount
<1>6. Cardinality({}) = 0
  BY FS_EmptySet
<1>7. Cardinality(rest \cup UnitsOf(s, f[s])) =
        Cardinality(rest) + Cardinality(UnitsOf(s, f[s])) - Cardinality({})
  <2> HIDE DEF rest
  <2>1. QED
    BY <1>3, <1>4, <1>5, FS_Union
<1>8. Cardinality(UnitsOver(S \cup {s}, M, f)) = Cardinality(rest) + f[s]
  <2>1. Cardinality(UnitsOver(S \cup {s}, M, f)) = Cardinality(rest \cup UnitsOf(s, f[s]))
    BY <1>2
  <2> HIDE DEF rest
  <2>2. QED
    BY <1>1, <1>4, <1>5, <1>6, <1>7, <2>1
<1>9. QED
  BY <1>4, <1>8

(* Among sets of subsets of a finite set, one holds no other: induction    *)
(* over finite sets, said without an operator.                             *)
LEMMA LeastSubset ==
  ASSUME NEW S, IsFiniteSet(S), NEW Q \in SUBSET (SUBSET S), Q # {}
  PROVE  \E X \in Q : \A Y \in Q : Y \subseteq X => Y = X
<1>1. IsWellFoundedOn(StrictSubsetOrdering(S), SUBSET S)
  BY FS_StrictSubsetOrderingWellFounded, FS_FiniteSubsetsOfFinite
<1>2. \E X \in Q : \A Y \in Q : ~ (<<Y, X>> \in StrictSubsetOrdering(S))
  BY <1>1, WFMin
<1>3. QED
  BY <1>2 DEF StrictSubsetOrdering

LEMMA WeighedStep ==
  ASSUME NEW p \in Nat, NEW q \in Nat, NEW c \in Int,
         NEW A \in Nat, NEW B \in Nat, NEW k \in Nat, NEW x \in Nat, NEW y \in Nat,
         p * A <= q * B + c * k, p * x <= q * y + c
  PROVE  p * (A + x) <= q * (B + y) + c * (k + 1)
<1>1. /\ p * (A + x) = p * A + p * x
      /\ q * (B + y) = q * B + q * y
      /\ c * (k + 1) = c * k + c
  OBVIOUS
<1>2. p * A \in Int /\ p * x \in Int /\ q * B \in Int /\ q * y \in Int /\ c * k \in Int
  OBVIOUS
<1>3. QED
  BY <1>1, <1>2

(* A set without one of its members, and its sum. *)
LEMMA UnitsOverWithout ==
  ASSUME NEW D, NEW X \in SUBSET D, IsFiniteSet(X), NEW s \in X,
         NEW M \in Nat, NEW f \in [D -> 0..M]
  PROVE  /\ Cardinality(UnitsOver(X, M, f)) = Cardinality(UnitsOver(X \ {s}, M, f)) + f[s]
         /\ Cardinality(UnitsOver(X \ {s}, M, f)) \in Nat
         /\ Cardinality(X) = Cardinality(X \ {s}) + 1
         /\ Cardinality(X \ {s}) \in Nat
         /\ f[s] \in Nat
<1> DEFINE Y == X \ {s}
<1>1. Y \in SUBSET D /\ s \in D /\ s \notin Y /\ IsFiniteSet(Y)
  BY FS_Subset
<1>2. X = Y \cup {s}
  OBVIOUS
<1> HIDE DEF Y
<1>3. /\ Cardinality(UnitsOver(Y \cup {s}, M, f)) = Cardinality(UnitsOver(Y, M, f)) + f[s]
      /\ Cardinality(UnitsOver(Y, M, f)) \in Nat
  BY <1>1, UnitsOverAdd
<1>4. Cardinality(X) = Cardinality(Y) + 1 /\ Cardinality(Y) \in Nat
  BY <1>1, <1>2, FS_AddElement, FS_CardinalityType
<1>5. f[s] \in Nat
  BY <1>1
<1>6. QED
  BY <1>2, <1>3, <1>4, <1>5 DEF Y

LEMMA UnitsOverWithin ==
  ASSUME NEW D, NEW S \in SUBSET D, IsFiniteSet(S), NEW M \in Nat, NEW f \in [D -> 0..M]
  PROVE  \A X \in SUBSET S : \A s \in X :
           /\ Cardinality(UnitsOver(X, M, f)) = Cardinality(UnitsOver(X \ {s}, M, f)) + f[s]
           /\ Cardinality(UnitsOver(X \ {s}, M, f)) \in Nat
           /\ Cardinality(X) = Cardinality(X \ {s}) + 1
           /\ Cardinality(X \ {s}) \in Nat
           /\ f[s] \in Nat
<1> TAKE X \in SUBSET S
<1> TAKE s \in X
<1>1. X \in SUBSET D /\ IsFiniteSet(X)
  BY FS_Subset
<1>2. QED
  BY <1>1, UnitsOverWithout

(* A bound on every term is a bound on the sum.                            *)
LEMMA UnitsOverWeighed ==
  ASSUME NEW D, NEW S \in SUBSET D, IsFiniteSet(S), NEW M \in Nat,
         NEW f \in [D -> 0..M], NEW g \in [D -> 0..M],
         NEW p \in Nat, NEW q \in Nat, NEW c \in Int
  PROVE  (\A s \in S : p * f[s] <= q * g[s] + c)
           => p * Cardinality(UnitsOver(S, M, f))
                <= q * Cardinality(UnitsOver(S, M, g)) + c * Cardinality(S)
<1> DEFINE F(T) == Cardinality(UnitsOver(T, M, f))
           G(T) == Cardinality(UnitsOver(T, M, g))
           Bad  == {T \in SUBSET S : ~ (p * F(T) <= q * G(T) + c * Cardinality(T))}
<1>1. \A X \in SUBSET S : \A s \in X :
         /\ F(X) = F(X \ {s}) + f[s] /\ F(X \ {s}) \in Nat /\ f[s] \in Nat
         /\ G(X) = G(X \ {s}) + g[s] /\ G(X \ {s}) \in Nat /\ g[s] \in Nat
         /\ Cardinality(X) = Cardinality(X \ {s}) + 1 /\ Cardinality(X \ {s}) \in Nat
  <2>1. \A h \in [D -> 0..M] : \A X \in SUBSET S : \A s \in X :
           /\ Cardinality(UnitsOver(X, M, h)) = Cardinality(UnitsOver(X \ {s}, M, h)) + h[s]
           /\ Cardinality(UnitsOver(X \ {s}, M, h)) \in Nat
           /\ Cardinality(X) = Cardinality(X \ {s}) + 1
           /\ Cardinality(X \ {s}) \in Nat
           /\ h[s] \in Nat
    <3> TAKE h \in [D -> 0..M]
    <3>1. QED
      BY UnitsOverWithin
  <2>2. QED
    BY <2>1
<1>2. F({}) = 0 /\ G({}) = 0 /\ Cardinality({}) = 0
  BY FS_EmptySet DEF UnitsOver
<1> SUFFICES ASSUME \A s \in S : p * f[s] <= q * g[s] + c, Bad # {}
             PROVE  FALSE
  OBVIOUS
<1>3. PICK X \in Bad : \A Y \in Bad : Y \subseteq X => Y = X
  <2>1. Bad \in SUBSET (SUBSET S)
    OBVIOUS
  <2> HIDE DEF Bad
  <2>2. QED
    BY <2>1, LeastSubset
<1> HIDE DEF F, G
<1>4. X # {}
  <2>1. p * 0 <= q * 0 + c * 0
    OBVIOUS
  <2>2. QED
    BY <1>2, <2>1
<1>5. PICK s \in X : TRUE
  BY <1>4
<1> DEFINE Y == X \ {s}
<1>6. p * F(Y) <= q * G(Y) + c * Cardinality(Y)
  BY <1>3
<1>7. /\ F(X) = F(Y) + f[s] /\ F(Y) \in Nat /\ f[s] \in Nat
      /\ G(X) = G(Y) + g[s] /\ G(Y) \in Nat /\ g[s] \in Nat
      /\ Cardinality(X) = Cardinality(Y) + 1 /\ Cardinality(Y) \in Nat
  BY <1>1
<1>8. p * f[s] <= q * g[s] + c
  OBVIOUS
<1>9. p * F(X) <= q * G(X) + c * Cardinality(X)
  <2> HIDE DEF Y
  <2>1. p * (F(Y) + f[s]) <= q * (G(Y) + g[s]) + c * (Cardinality(Y) + 1)
    BY <1>6, <1>7, <1>8, WeighedStep
  <2>2. QED
    BY <1>7, <2>1
<1>10. QED
  BY <1>9

----------------------------------------------------------------------------
(* Sequences, whatever their elements are. *)

IsSeq(s) == s \in Seq(ToSet(s))

LEMMA SeqIsSeq ==
  ASSUME NEW S, NEW s \in Seq(S)
  PROVE  IsSeq(s)
BY SeqOfRange DEF IsSeq, ToSet, Range

LEMMA EmptyIsSeq == IsSeq(<<>>) /\ Len(<<>>) = 0
<1>1. <<>> \in Seq({})
  OBVIOUS
<1>2. QED
  BY <1>1, SeqIsSeq

LEMMA SingleIsSeq ==
  ASSUME NEW e
  PROVE  IsSeq(<<e>>) /\ <<e>> # <<>>
<1>1. <<e>> \in Seq({e})
  OBVIOUS
<1>2. QED
  BY <1>1, SeqIsSeq

LEMMA IsSeqIn ==
  ASSUME NEW s, IsSeq(s), NEW S, ToSet(s) \subseteq S
  PROVE  s \in Seq(S)
BY SeqMonotonic DEF IsSeq

LEMMA Concat ==
  ASSUME NEW s, IsSeq(s), NEW t, IsSeq(t)
  PROVE  /\ IsSeq(s \o t)
         /\ s \o <<>> = s /\ <<>> \o t = t
<1> DEFINE S == ToSet(s) \cup ToSet(t)
<1>1. s \in Seq(S) /\ t \in Seq(S)
  BY IsSeqIn
<1> HIDE DEF S
<1>2. s \o t \in Seq(S)
  BY <1>1, ConcatProperties
<1>3. s \o <<>> = s /\ <<>> \o t = t
  BY <1>1, ConcatEmptySeq
<1>4. QED
  BY <1>2, <1>3, SeqIsSeq

LEMMA Associative ==
  ASSUME NEW s, IsSeq(s), NEW t, IsSeq(t), NEW u, IsSeq(u)
  PROVE  (s \o t) \o u = s \o (t \o u)
<1> DEFINE S == ToSet(s) \cup ToSet(t) \cup ToSet(u)
<1>1. s \in Seq(S) /\ t \in Seq(S) /\ u \in Seq(S)
  BY IsSeqIn
<1> HIDE DEF S
<1>2. QED
  BY <1>1, ConcatAssociative

LEMMA Members ==
  /\ ToSet(<<>>) = {}
  /\ \A e : ToSet(<<e>>) = {e}
  /\ \A e, f : ToSet(<<e, f>>) = {e, f}
  /\ \A e, f, g : ToSet(<<e, f, g>>) = {e, f, g}
<1>1. ToSet(<<>>) = {}
  BY DEF ToSet
<1>2. ASSUME NEW e PROVE ToSet(<<e>>) = {e}
  <2>1. DOMAIN <<e>> = {1} /\ <<e>>[1] = e
    OBVIOUS
  <2>2. QED
    BY <2>1 DEF ToSet
<1>3. ASSUME NEW e, NEW f PROVE ToSet(<<e, f>>) = {e, f}
  <2>1. DOMAIN <<e, f>> = {1, 2} /\ <<e, f>>[1] = e /\ <<e, f>>[2] = f
    OBVIOUS
  <2>2. QED
    BY <2>1 DEF ToSet
<1>4. ASSUME NEW e, NEW f, NEW g PROVE ToSet(<<e, f, g>>) = {e, f, g}
  <2>1. DOMAIN <<e, f, g>> = {1, 2, 3} /\ <<e, f, g>>[1] = e /\ <<e, f, g>>[2] = f
                                     /\ <<e, f, g>>[3] = g
    OBVIOUS
  <2>2. QED
    BY <2>1 DEF ToSet
<1>5. QED
  BY <1>1, <1>2, <1>3, <1>4

LEMMA MembersOfConcat ==
  ASSUME NEW s, IsSeq(s), NEW t, IsSeq(t)
  PROVE  ToSet(s \o t) = ToSet(s) \cup ToSet(t)
<1> DEFINE S == ToSet(s) \cup ToSet(t)
<1>1. s \in Seq(S) /\ t \in Seq(S)
  BY IsSeqIn
<1> HIDE DEF S
<1>2. Range(s \o t) = Range(s) \cup Range(t)
  BY <1>1, RangeConcatenation
<1>3. QED
  BY <1>2 DEF Range, ToSet

(* A sequence that is read in two parts. *)
LEMMA Halves ==
  ASSUME NEW s, IsSeq(s), NEW n \in 1..Len(s)
  PROVE  /\ IsSeq(SubSeq(s, 1, n)) /\ IsSeq(SubSeq(s, n + 1, Len(s)))
         /\ SubSeq(s, 1, n) \o SubSeq(s, n + 1, Len(s)) = s
<1> DEFINE S == ToSet(s)
<1>1. s \in Seq(S) /\ Len(s) \in Nat
  BY LenProperties DEF IsSeq
<1> HIDE DEF S
<1>2. \A i \in 1..Len(s) : s[i] \in S
  BY <1>1, ElementOfSeq
<1>3. SubSeq(s, 1, n) \in Seq(S)
  BY <1>1, <1>2, SubSeqProperties
<1>4. SubSeq(s, n + 1, Len(s)) \in Seq(S)
  BY <1>1, <1>2, SubSeqProperties
<1>5. SubSeq(s, 1, n) \o SubSeq(s, n + 1, Len(s)) = SubSeq(s, 1, Len(s))
  BY <1>1, ConcatAdjacentSubSeq
<1>6. SubSeq(s, 1, Len(s)) = s
  BY <1>1, SubSeqFull
<1>7. QED
  BY <1>3, <1>4, <1>5, <1>6, SeqIsSeq

LEMMA PrefixOfConcat ==
  ASSUME NEW s, IsSeq(s), NEW t, IsSeq(t), NEW u, IsSeq(u)
  PROVE  /\ IsPrefix(s, s \o t)
         /\ IsPrefix(s, t) => IsPrefix(s, t \o u)
<1> DEFINE S == ToSet(s) \cup ToSet(t) \cup ToSet(u)
<1>1. s \in Seq(S) /\ t \in Seq(S) /\ u \in Seq(S)
  BY IsSeqIn
<1> HIDE DEF S
<1>2. /\ Len(s) \in Nat /\ Len(t) \in Nat /\ Len(u) \in Nat
      /\ Len(s \o t) = Len(s) + Len(t) /\ Len(t \o u) = Len(t) + Len(u)
  BY <1>1, LenProperties, ConcatProperties
<1>3. SubSeq(s \o t, 1, Len(s)) = SubSeq(s, 1, Len(s))
  <2>1. CASE Len(s) = 0
    <3>1. SubSeq(s \o t, 1, 0) = <<>> /\ SubSeq(s, 1, 0) = <<>>
      BY SubSeqEmpty
    <3>2. QED
      BY <2>1, <3>1
  <2>2. CASE Len(s) # 0
    BY <1>1, <1>2, <2>2, SubSeqOfConcat1
  <2>3. QED
    BY <2>1, <2>2
<1>4. ASSUME Len(s) <= Len(t)
      PROVE  SubSeq(t \o u, 1, Len(s)) = SubSeq(t, 1, Len(s))
  <2>1. CASE Len(s) = 0
    <3>1. SubSeq(t \o u, 1, 0) = <<>> /\ SubSeq(t, 1, 0) = <<>>
      BY SubSeqEmpty
    <3>2. QED
      BY <2>1, <3>1
  <2>2. CASE Len(s) # 0
    BY <1>1, <1>2, <1>4, <2>2, SubSeqOfConcat1
  <2>3. QED
    BY <2>1, <2>2
<1>5. IsPrefix(s, s \o t)
  BY <1>2, <1>3 DEF IsPrefix
<1>6. ASSUME IsPrefix(s, t) PROVE IsPrefix(s, t \o u)
  <2>1. Len(s) <= Len(t) /\ SubSeq(s, 1, Len(s)) = SubSeq(t, 1, Len(s))
    BY <1>6 DEF IsPrefix
  <2>2. Len(s) <= Len(t \o u)
    BY <1>2, <2>1
  <2>3. QED
    BY <1>4, <2>1, <2>2 DEF IsPrefix
<1>7. QED
  BY <1>5, <1>6

LEMMA FlattenNone == FlattenSeq(<<>>) = <<>>
BY DEF FlattenSeq

LEMMA FlattenOne ==
  ASSUME NEW e
  PROVE  FlattenSeq(<<e>>) = e
<1> DEFINE flatten == CHOOSE flatten :
                        flatten = [i \in 1..1 |-> IF i = 1 THEN <<e>>[i] ELSE flatten[i - 1] \o <<e>>[i]]
<1>1. [i \in 1..1 |-> e]
        = [i \in 1..1 |-> IF i = 1 THEN <<e>>[i] ELSE [j \in 1..1 |-> e][i - 1] \o <<e>>[i]]
  OBVIOUS
<1>2. flatten = [i \in 1..1 |-> IF i = 1 THEN <<e>>[i] ELSE flatten[i - 1] \o <<e>>[i]]
  BY <1>1
<1>3. QED
  BY <1>2 DEF FlattenSeq

----------------------------------------------------------------------------
(* Recursion over indices, which is what a fold over a sequence is.        *)

(* Among sets of indices, one holds no other.                              *)
LEMMA LeastIndices ==
  ASSUME NEW n \in Nat, NEW Q, Q # {}, \A X \in Q : X \subseteq 1..n
  PROVE  \E X \in Q : \A Y \in Q : Y \subseteq X => Y = X
<1> DEFINE S == 1..n
<1>1. IsFiniteSet(S)
  BY FS_Interval
<1>2. Q \in SUBSET (SUBSET S)
  OBVIOUS
<1> HIDE DEF S
<1>3. \A R \in SUBSET (SUBSET S) : R # {} => \E X \in R : \A Y \in R : Y \subseteq X => Y = X
  BY <1>1, LeastSubset
<1>4. Q \in SUBSET (SUBSET S) => \E X \in Q : \A Y \in Q : Y \subseteq X => Y = X
  BY <1>3, Zenon
<1>5. QED
  BY <1>2, <1>4, Zenon

(* The greatest of some indices. *)
LEMMA Greatest ==
  ASSUME NEW n \in Nat, NEW X \in SUBSET (1..n), X # {}
  PROVE  Max(X) \in X /\ Max(X) \in Nat /\ \A y \in X : y <= Max(X)
<1> DEFINE Above(x) == {y \in X : y > x}
           Q == {Above(x) : x \in X}
<1>1. \A y \in X : y \in 1..n /\ y \in Nat
  OBVIOUS
<1>2. /\ Q # {} /\ \A Y \in Q : Y \subseteq 1..n
      /\ \A x \in X : Above(x) \in Q
  OBVIOUS
<1>3. PICK Y \in Q : \A Z \in Q : Z \subseteq Y => Z = Y
  <2>1. Q # {} /\ \A Y \in Q : Y \subseteq 1..n
    BY <1>2
  <2> HIDE DEF Q
  <2> QED
    BY <2>1, LeastIndices
<1>4. PICK x \in X : Y = Above(x)
  BY <1>3
<1>5. \A y \in X : x >= y
  <2> SUFFICES ASSUME NEW y \in X, y > x PROVE FALSE
    OBVIOUS
  <2>1. Above(y) \in Q /\ Above(y) \subseteq Above(x)
    <3> HIDE DEF Q
    <3>1. \A z \in X : z > y => z > x
      BY <1>1
    <3>2. Above(y) \subseteq Above(x)
      BY <3>1
    <3>3. QED
      BY <1>2, <3>2
  <2>2. Above(y) = Above(x)
    BY <1>3, <1>4, <2>1
  <2>3. y \in Above(x) /\ y \notin Above(y)
    OBVIOUS
  <2>4. QED
    BY <2>2, <2>3
<1>6. Max(X) \in X /\ \A y \in X : Max(X) >= y
  BY <1>5 DEF Max
<1> HIDE DEF Q
<1>7. QED
  BY <1>1, <1>6

LEMMA GreatestIs ==
  ASSUME NEW n \in Nat, NEW X \in SUBSET (1..n), NEW m \in X, \A y \in X : y <= m
  PROVE  Max(X) = m
<1>1. Max(X) \in X /\ Max(X) \in Nat /\ m <= Max(X)
  BY Greatest
<1>2. Max(X) <= m /\ m \in Nat
  BY <1>1
<1>3. QED
  BY <1>1, <1>2

(* Recursion over sets of indices, from which the greatest is taken, and   *)
(* its one solution: what a fold of the library computes.                  *)
FoldOf(n, A, base, step, f) ==
  /\ f \in [SUBSET (1..n) -> A]
  /\ f[{}] = base
  /\ \A s \in SUBSET (1..n) : s # {} => f[s] = step[<<Max(s), f[s \ {Max(s)}]>>]

LEMMA FoldExists ==
  ASSUME NEW n \in Nat, NEW A, NEW base \in A, NEW step \in [(1..n) \X A -> A]
  PROVE  \E f : FoldOf(n, A, base, step, f)
<1> DEFINE Good(X, f) == /\ f[{}] = base
                         /\ \A s \in SUBSET X : s # {} => f[s] = step[<<Max(s), f[s \ {Max(s)}]>>]
           Bad == {X \in SUBSET (1..n) : ~ \E f \in [SUBSET X -> A] : Good(X, f)}
<1> SUFFICES ASSUME Bad # {} PROVE FALSE
  <2>1. SUFFICES \E f \in [SUBSET (1..n) -> A] : Good(1..n, f)
    BY DEF FoldOf
  <2>2. QED
    OBVIOUS
<1>1. PICK X \in Bad : \A Y \in Bad : Y \subseteq X => Y = X
  <2>1. \A Y \in Bad : Y \subseteq 1..n
    OBVIOUS
  <2> HIDE DEF Bad
  <2>2. Bad # {}
    OBVIOUS
  <2>3. QED
    BY <2>1, <2>2, LeastIndices
<1>2. X \in SUBSET (1..n)
  OBVIOUS
<1>3. X # {}
  <2> SUFFICES ASSUME X = {} PROVE FALSE
    OBVIOUS
  <2> DEFINE f == [s \in SUBSET X |-> base]
  <2>1. f \in [SUBSET X -> A] /\ Good(X, f)
    OBVIOUS
  <2>2. QED
    BY <2>1
<1> DEFINE m == Max(X)
           Y == X \ {m}
<1>4. m \in X /\ m \in 1..n /\ \A y \in X : y <= m
  BY <1>2, <1>3, Greatest
<1>5. PICK f \in [SUBSET Y -> A] : Good(Y, f)
  <2>1. Y \in SUBSET (1..n) /\ Y \subseteq X /\ Y # X
    BY <1>2, <1>4
  <2>2. Y \notin Bad
    BY <1>1, <2>1
  <2> HIDE DEF Y
  <2>3. QED
    BY <2>1, <2>2
<1> DEFINE g == [s \in SUBSET X |-> IF m \in s THEN step[<<m, f[s \ {m}]>>] ELSE f[s]]
<1>6. ASSUME NEW s \in SUBSET X, m \notin s
      PROVE  s \in SUBSET Y /\ g[s] = f[s] /\ f[s] \in A
  BY <1>6
<1>7. ASSUME NEW s \in SUBSET X, m \in s
      PROVE  /\ s \ {m} \in SUBSET Y /\ f[s \ {m}] \in A
             /\ g[s] = step[<<m, f[s \ {m}]>>] /\ g[s] \in A
             /\ g[s \ {m}] = f[s \ {m}]
             /\ Max(s) = m
  <2>1. s \ {m} \in SUBSET Y
    OBVIOUS
  <2>2. f[s \ {m}] \in A /\ g[s] = step[<<m, f[s \ {m}]>>]
    BY <1>7, <2>1
  <2>3. g[s] \in A
    BY <1>4, <2>2
  <2>4. g[s \ {m}] = f[s \ {m}]
    BY <2>1
  <2>5. Max(s) = m
    BY <1>2, <1>4, <1>7, GreatestIs
  <2>6. QED
    BY <2>1, <2>2, <2>3, <2>4, <2>5
<1> HIDE DEF m
<1>8. \A s \in SUBSET X : g[s] \in A
  <2> TAKE s \in SUBSET X
  <2> HIDE DEF g, Y
  <2> QED
    BY <1>6, <1>7
<1>9. g \in [SUBSET X -> A]
  BY <1>8
<1>10. g[{}] = base
  BY <1>5, <1>6
<1>11. ASSUME NEW s \in SUBSET X, s # {}
       PROVE  g[s] = step[<<Max(s), g[s \ {Max(s)}]>>]
  <2>1. CASE m \in s
    <3> HIDE DEF g, Y
    <3>1. g[s] = step[<<m, f[s \ {m}]>>] /\ g[s \ {m}] = f[s \ {m}] /\ Max(s) = m
      BY <1>7, <2>1
    <3>2. QED
      BY <3>1
  <2>2. CASE m \notin s
    <3>1. s \in SUBSET Y /\ g[s] = f[s]
      BY <1>6, <2>2
    <3>2. m \notin s \ {Max(s)}
      BY <2>2
    <3>3. g[s \ {Max(s)}] = f[s \ {Max(s)}]
      BY <1>6, <3>2
    <3>4. f[s] = step[<<Max(s), f[s \ {Max(s)}]>>]
      BY <1>5, <1>11, <3>1
    <3>5. QED
      BY <3>1, <3>3, <3>4
  <2>3. QED
    BY <2>1, <2>2
<1>12. Good(X, g)
  BY <1>10, <1>11
<1> HIDE DEF g, Good
<1>13. QED
  BY <1>1, <1>9, <1>12

(* As much as is known of another function.                                *)
FoldWithin(n, A, base, step, g) ==
  /\ g[{}] = base
  /\ \A s \in SUBSET (1..n) :
       s # {} /\ g[s \ {Max(s)}] \in A => g[s] = step[<<Max(s), g[s \ {Max(s)}]>>]

LEMMA FoldUnique ==
  ASSUME NEW n \in Nat, NEW A, NEW base, NEW step,
         NEW f, FoldOf(n, A, base, step, f),
         NEW g, FoldWithin(n, A, base, step, g)
  PROVE  g[1..n] = f[1..n]
<1> DEFINE Bad == {s \in SUBSET (1..n) : g[s] # f[s]}
<1> SUFFICES ASSUME Bad # {} PROVE FALSE
  OBVIOUS
<1>1. PICK X \in Bad : \A Y \in Bad : Y \subseteq X => Y = X
  <2>1. \A Y \in Bad : Y \subseteq 1..n
    OBVIOUS
  <2> HIDE DEF Bad
  <2>2. Bad # {}
    OBVIOUS
  <2>3. QED
    BY <2>1, <2>2, LeastIndices
<1>2. X \in SUBSET (1..n) /\ X # {}
  BY DEF FoldOf, FoldWithin
<1> DEFINE Y == X \ {Max(X)}
<1>3. Max(X) \in X
  BY <1>2, Greatest
<1>4. Y \in SUBSET (1..n) /\ Y \subseteq X /\ Y # X
  BY <1>2, <1>3
<1>5. g[Y] = f[Y] /\ f[Y] \in A
  <2>1. Y \notin Bad
    BY <1>1, <1>4
  <2>2. f[Y] \in A
    BY <1>4 DEF FoldOf
  <2>3. QED
    BY <1>4, <2>1, <2>2
<1>6. g[X] = step[<<Max(X), g[Y]>>] /\ f[X] = step[<<Max(X), f[Y]>>]
  BY <1>2, <1>5 DEF FoldOf, FoldWithin
<1>7. QED
  BY <1>1, <1>5, <1>6

(* Along the indices, the recursion goes from each to the next. *)
Steps(n, A) == [(1..n) \X A -> A]

Along(n, A, base, step, h) ==
  /\ h \in [0..n -> A]
  /\ h[0] = base /\ \A k \in 1..n : h[k] = step[<<k, h[k - 1]>>]

LEMMA FoldInOrder ==
  ASSUME NEW n \in Nat, NEW A, NEW base \in A, NEW step, step \in Steps(n, A)
  PROVE  \E f, h : FoldOf(n, A, base, step, f) /\ Along(n, A, base, step, h) /\ h[n] = f[1..n]
<1>1. PICK f : FoldOf(n, A, base, step, f)
  BY FoldExists DEF Steps
<1> DEFINE h == [k \in 0..n |-> f[1..k]]
<1>2. \A k \in 0..n : 1..k \in SUBSET (1..n)
  OBVIOUS
<1>3. h \in [0..n -> A]
  BY <1>1, <1>2 DEF FoldOf
<1>4. h[0] = base
  <2>1. 1..0 = {}
    OBVIOUS
  <2>2. QED
    BY <1>1, <2>1 DEF FoldOf
<1>5. ASSUME NEW k \in 1..n
      PROVE  h[k] = step[<<k, h[k - 1]>>]
  <2>1. 1..k \in SUBSET (1..n) /\ k \in 1..k /\ 1..k # {} /\ \A y \in 1..k : y <= k
    OBVIOUS
  <2>2. Max(1..k) = k
    BY <2>1, GreatestIs
  <2>3. (1..k) \ {k} = 1..(k - 1)
    OBVIOUS
  <2>4. f[1..k] = step[<<Max(1..k), f[(1..k) \ {Max(1..k)}]>>]
    BY <1>1, <2>1 DEF FoldOf
  <2>5. f[1..k] = step[<<k, f[1..(k - 1)]>>]
    BY <2>2, <2>3, <2>4
  <2>6. h[k] = f[1..k] /\ h[k - 1] = f[1..(k - 1)]
    OBVIOUS
  <2>7. QED
    BY <2>5, <2>6
<1>6. h[n] = f[1..n]
  OBVIOUS
<1> HIDE DEF h
<1>7. QED
  BY <1>1, <1>3, <1>4, <1>5, <1>6 DEF Along

(* Two functions that agree at 0, and from each index to the next.         *)
LEMMA SameAlong ==
  ASSUME NEW n \in Nat, NEW g, NEW h, g[0] = h[0],
         \A k \in 1..n : g[k - 1] = h[k - 1] => g[k] = h[k]
  PROVE  \A k \in 0..n : g[k] = h[k]
<1> DEFINE Bad == {k \in 1..n : g[k] # h[k]}
           Q == {1..k : k \in Bad}
<1> SUFFICES ASSUME Q # {} PROVE FALSE
  OBVIOUS
<1>1. \A X \in Q : X \subseteq 1..n
  OBVIOUS
<1>2. PICK X \in Q : \A Y \in Q : Y \subseteq X => Y = X
  <2> HIDE DEF Q
  <2>1. Q # {}
    OBVIOUS
  <2>2. QED
    BY <1>1, <2>1, LeastIndices
<1>3. PICK k \in Bad : X = 1..k
  OBVIOUS
<1>4. g[k - 1] # h[k - 1] /\ k \in 1..n /\ k - 1 # 0
  OBVIOUS
<1>5. k - 1 \in Bad
  BY <1>4
<1>6. 1..(k - 1) \in Q /\ 1..(k - 1) \subseteq 1..k
  BY <1>4, <1>5
<1>7. 1..(k - 1) = 1..k
  BY <1>2, <1>3, <1>6
<1>8. k \in 1..k /\ k \notin 1..(k - 1)
  BY <1>4
<1>9. QED
  BY <1>7, <1>8

----------------------------------------------------------------------------
(* The elements of sequences, one sequence after another. *)

AllSeqs(s) == IsSeq(s) /\ \A i \in 1..Len(s) : IsSeq(s[i])

FlatAlong(s, h) ==
  /\ \A k \in 0..Len(s) : IsSeq(h[k])
  /\ h[0] = <<>>
  /\ \A k \in 1..Len(s) : h[k] = h[k - 1] \o s[k]
  /\ FlattenSeq(s) = h[Len(s)]

LEMMA FlattenAlong ==
  ASSUME NEW s, AllSeqs(s)
  PROVE  \E h : FlatAlong(s, h)
<1> DEFINE n == Len(s)
           A == Seq(UNION {ToSet(s[i]) : i \in 1..n})
           step == [p \in (1..n) \X A |-> p[2] \o s[p[1]]]
<1>1. n \in Nat
  BY LenProperties DEF AllSeqs, IsSeq
<1>2. \A i \in 1..n : s[i] \in A
  <2> TAKE i \in 1..n
  <2>1. IsSeq(s[i]) /\ ToSet(s[i]) \subseteq UNION {ToSet(s[j]) : j \in 1..n}
    BY DEF AllSeqs
  <2>2. QED
    BY <2>1, IsSeqIn
<1>3. <<>> \in A
  OBVIOUS
<1>4. \A i \in 1..n : \A v \in A : v \o s[i] \in A
  <2> TAKE i \in 1..n
  <2> TAKE v \in A
  <2> DEFINE S == UNION {ToSet(s[j]) : j \in 1..n}
  <2>1. v \in Seq(S) /\ s[i] \in Seq(S)
    BY <1>2
  <2> HIDE DEF S
  <2>2. v \o s[i] \in Seq(S)
    BY <2>1, ConcatProperties
  <2>3. QED
    BY <2>2 DEF S
<1>5. \A v \in A : IsSeq(v)
  BY SeqIsSeq
<1> HIDE DEF A
<1>6. step \in Steps(n, A)
  BY <1>4 DEF Steps
<1>7. \A i \in 1..n : \A v \in A : step[<<i, v>>] = v \o s[i]
  OBVIOUS
<1> HIDE DEF n, step
<1>8. PICK f, h : FoldOf(n, A, <<>>, step, f) /\ Along(n, A, <<>>, step, h) /\ h[n] = f[1..n]
  BY <1>1, <1>3, <1>6, FoldInOrder
<1>9. \A k \in 0..n : h[k] \in A
  BY <1>8 DEF Along
<1>10. h[0] = <<>> /\ \A k \in 1..n : h[k] = h[k - 1] \o s[k]
  <2>1. h[0] = <<>>
    BY <1>8 DEF Along
  <2>2. ASSUME NEW k \in 1..n PROVE h[k] = h[k - 1] \o s[k]
    <3>1. k - 1 \in 0..n
      BY <1>1
    <3>2. h[k] = step[<<k, h[k - 1]>>] /\ h[k - 1] \in A
      BY <1>8, <1>9, <3>1 DEF Along
    <3>3. QED
      BY <1>7, <3>2
  <2>3. QED
    BY <2>1, <2>2
<1>11. FlattenSeq(s) = h[n]
  <2>1. CASE n = 0
    <3>1. s = <<>>
      <4>1. s \in Seq(ToSet(s)) /\ Len(s) = 0
        BY <2>1 DEF AllSeqs, IsSeq, n
      <4>2. QED
        BY <4>1, EmptySeq
    <3>2. QED
      BY <1>10, <2>1, <3>1, FlattenNone
  <2>2. CASE n # 0
    <3> DEFINE Next1(g, i) == IF i = 1 THEN s[i] ELSE g[i - 1] \o s[i]
               known == [i \in 1..n |-> h[i]]
               flatten == CHOOSE flatten : flatten = [i \in 1..n |-> Next1(flatten, i)]
    <3>1. \A i \in 1..n : known[i] = Next1(known, i)
      <4> TAKE i \in 1..n
      <4>1. CASE i = 1
        <5>1. h[1] = h[0] \o s[1] /\ IsSeq(s[1])
          <6>1. 1 \in 1..n /\ 1 - 1 = 0
            BY <4>1
          <6>2. h[1] = h[1 - 1] \o s[1]
            BY <1>10, <6>1
          <6>3. IsSeq(s[1])
            BY <6>1 DEF AllSeqs, n
          <6>4. QED
            BY <6>1, <6>2, <6>3
        <5>2. <<>> \o s[1] = s[1]
          BY <5>1, Concat, EmptyIsSeq
        <5>3. QED
          BY <1>10, <4>1, <5>1, <5>2
      <4>2. CASE i # 1
        <5>1. i - 1 \in 1..n
          BY <1>1, <4>2
        <5>2. QED
          BY <1>10, <4>2, <5>1
      <4>3. QED
        BY <4>1, <4>2
    <3>2. known = [i \in 1..n |-> Next1(known, i)]
      BY <3>1
    <3>3. flatten = [i \in 1..n |-> Next1(flatten, i)]
      BY <3>2
    <3>4. FlattenSeq(s) = flatten[n]
      BY <2>2 DEF FlattenSeq, n
    <3> HIDE DEF flatten
    <3>5. \A i \in 1..n : flatten[i] = Next1(flatten, i)
      BY <3>3
    <3> DEFINE g == [k \in 0..n |-> IF k = 0 THEN <<>> ELSE flatten[k]]
    <3>6. g[0] = h[0] /\ g[n] = flatten[n]
      BY <1>1, <1>10, <2>2
    <3>7. ASSUME NEW k \in 1..n, g[k - 1] = h[k - 1]
          PROVE  g[k] = h[k]
      <4>1. g[k] = Next1(flatten, k)
        BY <1>1, <3>5
      <4>2. CASE k = 1
        BY <1>1, <2>2, <3>1, <4>1, <4>2
      <4>3. CASE k # 1
        <5>1. k - 1 \in 0..n /\ k - 1 # 0 /\ g[k - 1] = flatten[k - 1]
          BY <1>1, <4>3
        <5>2. g[k] = h[k - 1] \o s[k]
          BY <3>7, <4>1, <4>3, <5>1
        <5>3. QED
          BY <1>10, <5>2
      <4>4. QED
        BY <4>2, <4>3
    <3> HIDE DEF g
    <3>8. \A k \in 0..n : g[k] = h[k]
      BY <1>1, <3>6, <3>7, SameAlong
    <3>9. QED
      BY <1>1, <3>4, <3>6, <3>8
  <2>3. QED
    BY <2>1, <2>2
<1>12. QED
  BY <1>5, <1>9, <1>10, <1>11 DEF n, FlatAlong

LEMMA FlattenIsSeq ==
  ASSUME NEW s, AllSeqs(s)
  PROVE  IsSeq(FlattenSeq(s))
<1>1. PICK h : FlatAlong(s, h)
  BY FlattenAlong
<1>2. Len(s) \in Nat
  BY LenProperties DEF AllSeqs, IsSeq
<1>3. QED
  BY <1>1, <1>2 DEF FlatAlong

LEMMA ConcatIs ==
  ASSUME NEW s, IsSeq(s), NEW t, IsSeq(t)
  PROVE  /\ Len(s) \in Nat /\ Len(t) \in Nat /\ Len(s \o t) = Len(s) + Len(t)
         /\ \A i \in 1..Len(s) : (s \o t)[i] = s[i]
         /\ \A i \in 1..Len(t) : (s \o t)[Len(s) + i] = t[i]
<1> DEFINE S == ToSet(s) \cup ToSet(t)
<1>1. s \in Seq(S) /\ t \in Seq(S)
  BY IsSeqIn
<1> HIDE DEF S
<1>2. /\ Len(s) \in Nat /\ Len(t) \in Nat /\ Len(s \o t) = Len(s) + Len(t)
      /\ \A i \in 1..Len(s) + Len(t) : (s \o t)[i] = IF i <= Len(s) THEN s[i] ELSE t[i - Len(s)]
  BY <1>1, LenProperties, ConcatProperties
<1>3. ASSUME NEW i \in 1..Len(t) PROVE (s \o t)[Len(s) + i] = t[i]
  <2>1. Len(s) + i \in 1..Len(s) + Len(t) /\ ~(Len(s) + i <= Len(s)) /\ (Len(s) + i) - Len(s) = i
    BY <1>2
  <2>2. QED
    BY <1>2, <2>1
<1>4. ASSUME NEW i \in 1..Len(s) PROVE (s \o t)[i] = s[i]
  <2>1. i \in 1..Len(s) + Len(t) /\ i <= Len(s)
    BY <1>2
  <2>2. QED
    BY <1>2, <2>1
<1>5. QED
  BY <1>2, <1>3, <1>4

LEMMA FlattenConcat ==
  ASSUME NEW s, AllSeqs(s), NEW t, AllSeqs(t)
  PROVE  /\ AllSeqs(s \o t)
         /\ FlattenSeq(s \o t) = FlattenSeq(s) \o FlattenSeq(t)
<1> DEFINE u == s \o t
           n == Len(s)
           m == Len(t)
<1>1. /\ n \in Nat /\ m \in Nat /\ Len(u) = n + m
      /\ \A i \in 1..n : u[i] = s[i]
      /\ \A i \in 1..m : u[n + i] = t[i]
  BY ConcatIs DEF AllSeqs
<1>2. AllSeqs(u)
  <2>1. IsSeq(u)
    BY Concat DEF AllSeqs
  <2>2. \A i \in 1..n + m : i \in 1..n \/ \E j \in 1..m : i = n + j
    <3> TAKE i \in 1..n + m
    <3>1. CASE i <= n
      BY <1>1, <3>1
    <3>2. CASE ~(i <= n)
      <4>1. i - n \in 1..m /\ i = n + (i - n)
        BY <1>1, <3>2
      <4>2. QED
        BY <4>1
    <3>3. QED
      BY <3>1, <3>2
  <2> HIDE DEF u
  <2>3. \A i \in 1..n + m : IsSeq(u[i])
    BY <1>1, <2>2 DEF AllSeqs
  <2>4. QED
    BY <1>1, <2>1, <2>3 DEF AllSeqs
<1>3. PICK f : FlatAlong(s, f)
  BY FlattenAlong
<1>4. PICK g : FlatAlong(t, g)
  BY FlattenAlong
<1>5. PICK h : FlatAlong(u, h)
  BY <1>2, FlattenAlong
<1>6. /\ \A k \in 0..n : IsSeq(f[k])
      /\ f[0] = <<>> /\ \A k \in 1..n : f[k] = f[k - 1] \o s[k]
  BY <1>3 DEF FlatAlong
<1>7. FlattenSeq(s) = f[n] /\ FlattenSeq(t) = g[m]
  BY <1>3, <1>4 DEF FlatAlong
<1>8. /\ \A k \in 0..m : IsSeq(g[k])
      /\ g[0] = <<>> /\ \A k \in 1..m : g[k] = g[k - 1] \o t[k]
      /\ \A k \in 1..m : IsSeq(t[k])
  BY <1>4 DEF FlatAlong, AllSeqs
<1>9. /\ h[0] = <<>> /\ \A k \in 1..n + m : h[k] = h[k - 1] \o u[k]
      /\ FlattenSeq(u) = h[n + m]
  BY <1>1, <1>5 DEF FlatAlong
<1>10. ASSUME NEW a, IsSeq(a), NEW b, IsSeq(b), NEW c, IsSeq(c)
      PROVE  (a \o b) \o c = a \o (b \o c)
  BY <1>10, Associative
<1> HIDE DEF u, n, m
<1>11. \A k \in 0..n : h[k] = f[k]
  <2>1. h[0] = f[0]
    BY <1>6, <1>9
  <2>2. ASSUME NEW k \in 1..n, h[k - 1] = f[k - 1] PROVE h[k] = f[k]
    <3>1. k \in 1..n + m
      BY <1>1
    <3>2. h[k] = h[k - 1] \o u[k] /\ f[k] = f[k - 1] \o s[k]
      BY <1>6, <1>9, <3>1
    <3>3. QED
      BY <1>1, <2>2, <3>2
  <2>3. n \in Nat
    BY <1>1
  <2>4. QED
    BY <2>1, <2>2, <2>3, SameAlong
<1> DEFINE left  == [k \in 0..m |-> h[n + k]]
           right == [k \in 0..m |-> f[n] \o g[k]]
<1>12. IsSeq(f[n])
  BY <1>1, <1>6
<1>13. left[0] = right[0]
  <2>1. n + 0 = n /\ n \in 0..n /\ 0 \in 0..m
    BY <1>1
  <2>2. left[0] = f[n] /\ right[0] = f[n] \o <<>>
    BY <1>6, <1>8, <1>11, <2>1
  <2>3. QED
    BY <1>12, <2>2, Concat, EmptyIsSeq
<1>14. ASSUME NEW k \in 1..m, left[k - 1] = right[k - 1]
       PROVE  left[k] = right[k]
  <2>1. /\ n + k \in 1..n + m /\ (n + k) - 1 = n + (k - 1)
        /\ k \in 0..m /\ k - 1 \in 0..m
    BY <1>1
  <2>2. h[n + k] = h[n + (k - 1)] \o u[n + k] /\ u[n + k] = t[k]
    BY <1>1, <1>9, <2>1
  <2>3. g[k] = g[k - 1] \o t[k] /\ IsSeq(g[k - 1]) /\ IsSeq(t[k])
    BY <1>8, <2>1
  <2>4. h[n + (k - 1)] = f[n] \o g[k - 1]
    BY <1>14, <2>1
  <2>5. (f[n] \o g[k - 1]) \o t[k] = f[n] \o (g[k - 1] \o t[k])
    <3> DEFINE x == f[n]
               y == g[k - 1]
               z == t[k]
    <3>1. IsSeq(x) /\ IsSeq(y) /\ IsSeq(z)
      BY <1>12, <2>3
    <3> HIDE DEF x, y, z
    <3>2. (x \o y) \o z = x \o (y \o z)
      BY <3>1, Associative
    <3>3. QED
      BY <3>2 DEF x, y, z
  <2>6. QED
    BY <2>1, <2>2, <2>3, <2>4, <2>5
<1> HIDE DEF left, right
<1>15. \A k \in 0..m : left[k] = right[k]
  <2>1. m \in Nat
    BY <1>1
  <2>2. QED
    BY <1>13, <1>14, <2>1, SameAlong
<1>16. h[n + m] = f[n] \o g[m]
  <2>1. m \in 0..m
    BY <1>1
  <2>2. left[m] = right[m]
    BY <1>15, <2>1
  <2>3. left[m] = h[n + m] /\ right[m] = f[n] \o g[m]
    BY <2>1 DEF left, right
  <2>4. QED
    BY <2>2, <2>3
<1>17. FlattenSeq(u) = FlattenSeq(s) \o FlattenSeq(t)
  <2>1. FlattenSeq(u) = h[n + m]
    BY <1>9, Zenon
  <2>2. QED
    BY <1>16, <1>7, <2>1
<1>18. QED
  BY <1>2, <1>17 DEF u

(* A function applied to each element. *)
Through(f, s) == [i \in 1..Len(s) |-> f[s[i]]]

LEMMA ThroughIs ==
  ASSUME NEW s, IsSeq(s), NEW f
  PROVE  /\ IsSeq(Through(f, s)) /\ Len(Through(f, s)) = Len(s) /\ Len(s) \in Nat
         /\ \A i \in 1..Len(s) : Through(f, s)[i] = f[s[i]]
<1>1. Len(s) \in Nat
  BY LenProperties DEF IsSeq
<1> DEFINE n == Len(s)
           S == {f[s[i]] : i \in 1..n}
           t == [i \in 1..n |-> f[s[i]]]
<1>2. t \in [1..n -> S]
  OBVIOUS
<1>3. t = Through(f, s) /\ \A i \in 1..n : t[i] = f[s[i]]
  BY DEF Through
<1> HIDE DEF n, S, t
<1>4. n \in Nat
  BY <1>1 DEF n
<1>5. t \in Seq(S) /\ Len(t) = n
  <2>1. t \in Seq(S)
    BY <1>2, <1>4, IsASeq
  <2>2. DOMAIN t = 1..n /\ DOMAIN t = 1..Len(t) /\ Len(t) \in Nat
    BY <1>2, <2>1, LenProperties
  <2>3. QED
    BY <1>4, <2>1, <2>2
<1>6. IsSeq(t)
  BY <1>5, SeqIsSeq
<1>7. QED
  BY <1>3, <1>4, <1>5, <1>6 DEF n

LEMMA ThroughConcat ==
  ASSUME NEW s, IsSeq(s), NEW t, IsSeq(t), NEW f
  PROVE  Through(f, s \o t) = Through(f, s) \o Through(f, t)
<1> DEFINE u == s \o t
           n == Len(s)
           m == Len(t)
           fs == Through(f, s)
           ft == Through(f, t)
           fu == Through(f, u)
           both == fs \o ft
           S == ToSet(fu) \cup ToSet(both)
<1>1. /\ IsSeq(u) /\ n \in Nat /\ m \in Nat /\ Len(u) = n + m
      /\ \A i \in 1..n : u[i] = s[i]
      /\ \A i \in 1..m : u[n + i] = t[i]
  BY Concat, ConcatIs
<1>2. /\ IsSeq(fs) /\ Len(fs) = n /\ \A i \in 1..n : fs[i] = f[s[i]]
      /\ IsSeq(ft) /\ Len(ft) = m /\ \A i \in 1..m : ft[i] = f[t[i]]
  BY ThroughIs
<1>3. IsSeq(fu) /\ Len(fu) = n + m /\ \A i \in 1..n + m : fu[i] = f[u[i]]
  <2> HIDE DEF u, n, m
  <2> QED
    BY <1>1, ThroughIs
<1>4. /\ IsSeq(both) /\ Len(both) = n + m
      /\ \A i \in 1..n : both[i] = fs[i]
      /\ \A i \in 1..m : both[n + i] = ft[i]
  <2>1. IsSeq(fs) /\ IsSeq(ft) /\ Len(fs) = n /\ Len(ft) = m
    BY <1>2
  <2> HIDE DEF n, m, fs, ft
  <2>2. IsSeq(both)
    BY <2>1, Concat
  <2>3. /\ Len(both) = Len(fs) + Len(ft)
        /\ \A i \in 1..Len(fs) : both[i] = fs[i]
        /\ \A i \in 1..Len(ft) : both[Len(fs) + i] = ft[i]
    <3>1. Len(both) = Len(fs) + Len(ft)
      BY <2>1, ConcatIs
    <3>2. \A i \in 1..Len(fs) : both[i] = fs[i]
      BY <2>1, ConcatIs
    <3>3. \A i \in 1..Len(ft) : both[Len(fs) + i] = ft[i]
      BY <2>1, ConcatIs
    <3>4. QED
      BY <3>1, <3>2, <3>3
  <2> HIDE DEF both
  <2>4. QED
    BY <2>1, <2>2, <2>3
<1>5. fu \in Seq(S) /\ both \in Seq(S)
  <2> HIDE DEF fu, both
  <2> QED
    BY <1>3, <1>4, IsSeqIn
<1> HIDE DEF u, n, m, fs, ft, fu, both, S
<1>6. \A i \in 1..n + m : fu[i] = both[i]
  <2> TAKE i \in 1..n + m
  <2>1. CASE i <= n
    <3>1. i \in 1..n
      BY <1>1, <2>1
    <3>2. QED
      BY <1>1, <1>2, <1>3, <1>4, <3>1
  <2>2. CASE ~(i <= n)
    <3> DEFINE j == i - n
    <3>1. j \in 1..m /\ i = n + j
      BY <1>1, <2>2
    <3> HIDE DEF j
    <3>2. u[n + j] = t[j] /\ both[n + j] = ft[j] /\ ft[j] = f[t[j]]
      BY <1>1, <1>2, <1>4, <3>1
    <3>3. fu[i] = f[u[i]]
      BY <1>3
    <3>4. QED
      BY <3>1, <3>2, <3>3
  <2>3. QED
    BY <2>1, <2>2
<1>7. fu = both
  BY <1>3, <1>4, <1>5, <1>6, SeqEqual
<1>8. QED
  BY <1>7 DEF fu, both, fs, ft, u

----------------------------------------------------------------------------
(* Sequences that are gathered: what a function makes of each element of a *)
(* sequence, one after the other.                                          *)

Gather(f, s)  == FlattenSeq(Through(f, s))
Gathers(f, s) == IsSeq(s) /\ \A i \in 1..Len(s) : IsSeq(f[s[i]])

LEMMA ElementsOf ==
  ASSUME NEW s, IsSeq(s)
  PROVE  /\ Len(s) \in Nat /\ DOMAIN s = 1..Len(s) /\ \A i \in 1..Len(s) : s[i] \in ToSet(s)
         /\ \A e \in ToSet(s) : \E i \in 1..Len(s) : e = s[i]
<1>1. DOMAIN s = 1..Len(s) /\ Len(s) \in Nat
  BY LenProperties DEF IsSeq
<1>2. QED
  BY <1>1 DEF ToSet

LEMMA SameElements ==
  ASSUME NEW s, IsSeq(s), NEW t, IsSeq(t), Len(s) = Len(t), \A i \in 1..Len(s) : s[i] = t[i]
  PROVE  s = t
<1> DEFINE S == ToSet(s) \cup ToSet(t)
<1>1. s \in Seq(S) /\ t \in Seq(S)
  BY IsSeqIn
<1> HIDE DEF S
<1>2. QED
  BY <1>1, SeqEqual

(* A sequence that holds one and then the other. *)
Joined(s, t, u) ==
  /\ Len(u) = Len(s) + Len(t)
  /\ \A i \in 1..Len(s) : s[i] = u[i]
  /\ \A i \in 1..Len(t) : t[i] = u[Len(s) + i]

LEMMA JoinedIs ==
  ASSUME NEW s, IsSeq(s), NEW t, IsSeq(t), NEW u, IsSeq(u), Joined(s, t, u)
  PROVE  u = s \o t
<1> DEFINE w == s \o t
           n == Len(s)
           m == Len(t)
<1>1. n \in Nat /\ m \in Nat /\ Len(w) = n + m
  BY ConcatIs
<1>2. \A i \in 1..n : w[i] = s[i]
  BY ConcatIs
<1>3. \A i \in 1..m : w[n + i] = t[i]
  BY ConcatIs
<1>4. IsSeq(w)
  BY Concat
<1>5. /\ Len(u) = n + m
      /\ \A i \in 1..n : s[i] = u[i]
      /\ \A i \in 1..m : t[i] = u[n + i]
  BY DEF Joined
<1> HIDE DEF w, n, m
<1>6. ASSUME NEW i \in 1..(n + m) PROVE u[i] = w[i]
  <2>1. CASE i \in 1..n
    BY <1>2, <1>5, <2>1
  <2>2. CASE i \notin 1..n
    <3>1. i - n \in 1..m /\ n + (i - n) = i
      BY <1>1, <2>2
    <3>2. t[i - n] = u[n + (i - n)] /\ w[n + (i - n)] = t[i - n]
      BY <1>3, <1>5, <3>1
    <3>3. QED
      BY <3>1, <3>2
  <2>3. QED
    BY <2>1, <2>2
<1>7. u = w
  BY <1>1, <1>4, <1>5, <1>6, SameElements
<1>8. QED
  BY <1>7 DEF w

LEMMA GathersAll ==
  ASSUME NEW f, NEW s, Gathers(f, s)
  PROVE  AllSeqs(Through(f, s)) /\ IsSeq(Gather(f, s))
<1>1. AllSeqs(Through(f, s))
  BY ThroughIs DEF Gathers, AllSeqs
<1>2. QED
  BY <1>1, FlattenIsSeq DEF Gather

LEMMA GatherNone ==
  ASSUME NEW f
  PROVE  Gather(f, <<>>) = <<>> /\ Gathers(f, <<>>)
<1>1. Through(f, <<>>) = <<>>
  BY DEF Through
<1>2. QED
  BY <1>1, FlattenNone, EmptyIsSeq DEF Gather, Gathers

LEMMA GatherOne ==
  ASSUME NEW f, NEW e
  PROVE  Gather(f, <<e>>) = f[e] /\ (IsSeq(f[e]) => Gathers(f, <<e>>))
<1> DEFINE x == f[e]
<1>1. Through(f, <<e>>) = <<x>>
  BY DEF Through
<1>2. Gather(f, <<e>>) = x
  BY <1>1, FlattenOne DEF Gather
<1>3. QED
  BY <1>2, SingleIsSeq DEF Gathers

LEMMA GatherConcat ==
  ASSUME NEW f, NEW s, Gathers(f, s), NEW t, Gathers(f, t)
  PROVE  Gather(f, s \o t) = Gather(f, s) \o Gather(f, t) /\ Gathers(f, s \o t)
<1>1. IsSeq(s) /\ IsSeq(t)
  BY DEF Gathers
<1>2. AllSeqs(Through(f, s)) /\ AllSeqs(Through(f, t))
  BY GathersAll
<1>3. Through(f, s \o t) = Through(f, s) \o Through(f, t)
  BY <1>1, ThroughConcat
<1>4. /\ FlattenSeq(Through(f, s) \o Through(f, t))
           = FlattenSeq(Through(f, s)) \o FlattenSeq(Through(f, t))
      /\ AllSeqs(Through(f, s) \o Through(f, t))
  BY <1>2, FlattenConcat
<1>5. IsSeq(s \o t)
  BY <1>1, Concat
<1>6. \A i \in 1..Len(s \o t) : IsSeq(f[(s \o t)[i]])
  <2> DEFINE u == s \o t
  <2>1. IsSeq(u) /\ AllSeqs(Through(f, u))
    BY <1>3, <1>4, <1>5
  <2> HIDE DEF u
  <2>2. Len(Through(f, u)) = Len(u) /\ \A i \in 1..Len(u) : Through(f, u)[i] = f[u[i]]
    BY <2>1, ThroughIs
  <2>3. \A i \in 1..Len(u) : IsSeq(f[u[i]])
    BY <2>1, <2>2 DEF AllSeqs
  <2>4. QED
    BY <2>3 DEF u
<1>7. QED
  BY <1>3, <1>4, <1>5, <1>6 DEF Gather, Gathers

(* What has been gathered of each beginning. *)
GatherAlong(f, s, h) ==
  /\ \A k \in 0..Len(s) : IsSeq(h[k])
  /\ h[0] = <<>>
  /\ \A k \in 1..Len(s) : h[k] = h[k - 1] \o f[s[k]]
  /\ Gather(f, s) = h[Len(s)]

LEMMA GatherSteps ==
  ASSUME NEW f, NEW s, Gathers(f, s)
  PROVE  \E h : GatherAlong(f, s, h)
<1> DEFINE t == Through(f, s)
<1>1. IsSeq(s)
  BY DEF Gathers
<1>2. Len(t) = Len(s) /\ \A i \in 1..Len(s) : t[i] = f[s[i]]
  BY <1>1, ThroughIs
<1>3. AllSeqs(t)
  BY GathersAll
<1>4. Gather(f, s) = FlattenSeq(t)
  BY DEF Gather
<1> HIDE DEF t
<1>5. PICK h : FlatAlong(t, h)
  BY <1>3, FlattenAlong
<1>6. GatherAlong(f, s, h)
  BY <1>2, <1>4, <1>5 DEF FlatAlong, GatherAlong
<1>7. QED
  BY <1>6

(* What is gathered of two functions that agree. *)
LEMMA GatherSame ==
  ASSUME NEW f, NEW g, NEW s, \A i \in 1..Len(s) : f[s[i]] = g[s[i]]
  PROVE  Through(f, s) = Through(g, s) /\ Gather(f, s) = Gather(g, s)
<1>1. Through(f, s) = Through(g, s)
  BY DEF Through
<1>2. QED
  BY <1>1 DEF Gather

(* How one function after another, each applied or gathered, is one.       *)
Twice(f, g, h, s) ==
  \A i \in 1..Len(s) : g[f[s[i]]] = h[s[i]]
ThroughEach(f, g, h, s) ==
  \A i \in 1..Len(s) : Through(g, f[s[i]]) = h[s[i]]
GatherEach(f, g, h, s) ==
  \A i \in 1..Len(s) : Gathers(g, f[s[i]]) /\ Gather(g, f[s[i]]) = h[s[i]]

(* Gathering from what was gathered is gathering at once. *)
LEMMA GatherTwice ==
  ASSUME NEW f, NEW g, NEW h, NEW s, Gathers(f, s), GatherEach(f, g, h, s)
  PROVE  Gathers(g, Gather(f, s)) /\ Gather(g, Gather(f, s)) = Gather(h, s) /\ Gathers(h, s)
<1> DEFINE n == Len(s)
<1>1. n \in Nat /\ IsSeq(s)
  BY ElementsOf DEF Gathers
<1>2. \A i \in 1..n : IsSeq(h[s[i]])
  BY GathersAll DEF GatherEach
<1>3. Gathers(h, s)
  BY <1>1, <1>2 DEF Gathers
<1>4. PICK a : GatherAlong(f, s, a)
  BY GatherSteps
<1>5. PICK b : GatherAlong(h, s, b)
  BY <1>3, GatherSteps
<1>6. /\ a[0] = <<>> /\ \A k \in 1..n : a[k] = a[k - 1] \o f[s[k]]
      /\ Gather(f, s) = a[n]
  BY <1>4 DEF GatherAlong
<1>7. /\ b[0] = <<>> /\ \A k \in 1..n : b[k] = b[k - 1] \o h[s[k]]
      /\ Gather(h, s) = b[n]
  BY <1>5 DEF GatherAlong
<1>8. \A i \in 1..n : Gathers(g, f[s[i]]) /\ Gather(g, f[s[i]]) = h[s[i]]
  BY DEF GatherEach
<1> DEFINE x == [k \in 0..n |-> IF Gathers(g, a[k]) THEN <<Gather(g, a[k])>> ELSE <<>>]
           y == [k \in 0..n |-> <<b[k]>>]
<1> HIDE DEF n
<1>9. x[0] = y[0]
  <2>1. Gathers(g, a[0]) /\ Gather(g, a[0]) = b[0]
    BY <1>6, <1>7, GatherNone
  <2>2. 0 \in 0..n
    BY <1>1
  <2>3. QED
    BY <2>1, <2>2
<1>10. ASSUME NEW k \in 1..n, x[k - 1] = y[k - 1]
       PROVE  x[k] = y[k]
  <2>1. k \in 0..n /\ k - 1 \in 0..n
    BY <1>1
  <2> DEFINE p == a[k - 1]
             q == f[s[k]]
  <2>2. Gathers(g, p) /\ Gather(g, p) = b[k - 1]
    BY <1>10, <2>1
  <2>3. Gathers(g, q) /\ Gather(g, q) = h[s[k]]
    BY <1>8
  <2>4. a[k] = p \o q /\ b[k] = b[k - 1] \o h[s[k]]
    BY <1>6, <1>7
  <2> HIDE DEF p, q
  <2>5. Gathers(g, p \o q) /\ Gather(g, p \o q) = Gather(g, p) \o Gather(g, q)
    BY <2>2, <2>3, GatherConcat
  <2>6. Gathers(g, a[k]) /\ Gather(g, a[k]) = b[k]
    BY <2>2, <2>3, <2>4, <2>5
  <2>7. QED
    BY <2>1, <2>6
<1> HIDE DEF x, y
<1>11. \A k \in 0..n : x[k] = y[k]
  BY <1>1, <1>9, <1>10, SameAlong
<1>12. n \in 0..n
  BY <1>1
<1>13. Gathers(g, a[n]) /\ Gather(g, a[n]) = b[n]
  <2>1. /\ x[n] = IF Gathers(g, a[n]) THEN <<Gather(g, a[n])>> ELSE <<>>
        /\ y[n] = <<b[n]>>
    BY <1>12 DEF x, y
  <2>2. x[n] = y[n]
    BY <1>11, <1>12
  <2>3. QED
    BY <2>1, <2>2
<1>14. QED
  BY <1>3, <1>6, <1>7, <1>13

(* A function of every element that is gathered. *)
LEMMA ThroughGather ==
  ASSUME NEW f, NEW g, NEW h, NEW s, Gathers(f, s), ThroughEach(f, g, h, s)
  PROVE  Through(g, Gather(f, s)) = Gather(h, s) /\ Gathers(h, s)
<1> DEFINE n == Len(s)
<1>1. n \in Nat /\ IsSeq(s)
  BY ElementsOf DEF Gathers
<1>2. \A i \in 1..n : IsSeq(h[s[i]])
  BY ThroughIs DEF Gathers, ThroughEach
<1>3. Gathers(h, s)
  BY <1>1, <1>2 DEF Gathers
<1>4. PICK a : GatherAlong(f, s, a)
  BY GatherSteps
<1>5. PICK b : GatherAlong(h, s, b)
  BY <1>3, GatherSteps
<1>6. /\ a[0] = <<>> /\ \A k \in 1..n : a[k] = a[k - 1] \o f[s[k]]
      /\ Gather(f, s) = a[n] /\ \A k \in 0..n : IsSeq(a[k])
  BY <1>4 DEF GatherAlong
<1>7. /\ b[0] = <<>> /\ \A k \in 1..n : b[k] = b[k - 1] \o h[s[k]]
      /\ Gather(h, s) = b[n]
  BY <1>5 DEF GatherAlong
<1>8. \A i \in 1..n : IsSeq(f[s[i]]) /\ Through(g, f[s[i]]) = h[s[i]]
  BY DEF Gathers, ThroughEach
<1> DEFINE x == [k \in 0..n |-> Through(g, a[k])]
<1> HIDE DEF n
<1>9. x[0] = b[0]
  BY <1>1, <1>6, <1>7 DEF Through
<1>10. ASSUME NEW k \in 1..n, x[k - 1] = b[k - 1]
       PROVE  x[k] = b[k]
  <2>1. k \in 0..n /\ k - 1 \in 0..n
    BY <1>1
  <2> DEFINE p == a[k - 1]
             q == f[s[k]]
  <2>2. IsSeq(p) /\ Through(g, p) = b[k - 1]
    BY <1>6, <1>10, <2>1
  <2>3. IsSeq(q) /\ Through(g, q) = h[s[k]]
    BY <1>8
  <2>4. a[k] = p \o q /\ b[k] = b[k - 1] \o h[s[k]]
    BY <1>6, <1>7
  <2> HIDE DEF p, q
  <2>5. Through(g, p \o q) = Through(g, p) \o Through(g, q)
    BY <2>2, <2>3, ThroughConcat
  <2>6. QED
    BY <2>1, <2>2, <2>3, <2>4, <2>5
<1>11. n \in 0..n
  BY <1>1
<1>12. x[n] = b[n]
  <2> HIDE DEF x
  <2>1. \A k \in 0..n : x[k] = b[k]
    BY <1>1, <1>9, <1>10, SameAlong
  <2>2. QED
    BY <1>11, <2>1
<1>13. QED
  BY <1>3, <1>6, <1>7, <1>11, <1>12

(* One function after the other. *)
LEMMA ThroughTwice ==
  ASSUME NEW f, NEW g, NEW h, NEW s, IsSeq(s), Twice(f, g, h, s)
  PROVE  Through(g, Through(f, s)) = Through(h, s) /\ Gather(g, Through(f, s)) = Gather(h, s)
<1> DEFINE t == Through(f, s)
<1>1. IsSeq(t) /\ Len(t) = Len(s) /\ \A i \in 1..Len(s) : t[i] = f[s[i]]
  BY ThroughIs
<1> HIDE DEF t
<1>2. Through(g, t) = Through(h, s)
  BY <1>1 DEF Through, Twice
<1>3. Through(g, Through(f, s)) = Through(h, s)
  BY <1>2 DEF t
<1>4. QED
  BY <1>3 DEF Gather

(* Elements that are gathered one by one. *)
Singly(f, g, s) == \A i \in 1..Len(s) : g[s[i]] = <<f[s[i]]>>

LEMMA GatherSingles ==
  ASSUME NEW f, NEW g, NEW s, IsSeq(s), Singly(f, g, s)
  PROVE  Gather(g, s) = Through(f, s) /\ Gathers(g, s)
<1> DEFINE n == Len(s)
           single == [i \in 1..n |-> <<s[i]>>]
           t == Through(f, s)
<1>1. n \in Nat
  BY ElementsOf
<1>2. Gathers(g, s)
  BY SingleIsSeq DEF Gathers, Singly
<1>3. PICK b : GatherAlong(g, s, b)
  BY <1>2, GatherSteps
<1>4. /\ b[0] = <<>> /\ \A k \in 1..n : b[k] = b[k - 1] \o <<f[s[k]]>>
      /\ Gather(g, s) = b[n] /\ \A k \in 0..n : IsSeq(b[k])
  BY <1>3 DEF GatherAlong, Singly
<1>5. IsSeq(t) /\ Len(t) = n /\ \A i \in 1..n : t[i] = f[s[i]]
  BY ThroughIs
<1> DEFINE y == [k \in 0..n |-> [i \in 1..k |-> t[i]]]
<1> HIDE DEF n, t
<1>6. \A k \in 0..n : IsSeq(y[k]) /\ Len(y[k]) = k /\ \A i \in 1..k : y[k][i] = t[i]
  <2> TAKE k \in 0..n
  <2> DEFINE S == {t[i] : i \in 1..k}
             begun == [i \in 1..k |-> t[i]]
  <2>1. k \in Nat /\ begun \in [1..k -> S] /\ y[k] = begun
    BY <1>1
  <2>2. \A i \in 1..k : begun[i] = t[i]
    OBVIOUS
  <2> HIDE DEF S, begun, y
  <2>3. begun \in Seq(S)
    BY <2>1, IsASeq
  <2>4. Len(begun) = k
    BY <2>1, <2>3, LenProperties
  <2>5. QED
    BY <2>1, <2>2, <2>3, <2>4, SeqIsSeq
<1> HIDE DEF y
<1>7. b[0] = y[0]
  <2>1. 0 \in 0..n
    BY <1>1
  <2>2. IsSeq(y[0]) /\ Len(y[0]) = 0 /\ IsSeq(b[0]) /\ Len(b[0]) = 0
    BY <1>4, <1>6, <2>1, EmptyIsSeq
  <2>3. \A i \in 1..Len(b[0]) : b[0][i] = y[0][i]
    BY <2>2
  <2>4. QED
    BY <2>2, <2>3, SameElements
<1>8. ASSUME NEW k \in 1..n, b[k - 1] = y[k - 1]
      PROVE  b[k] = y[k]
  <2>1. k \in 0..n /\ k - 1 \in 0..n /\ k \in Nat
    BY <1>1
  <2> DEFINE p == b[k - 1]
             e == f[s[k]]
             q == y[k]
             one == <<e>>
  <2>2. IsSeq(p) /\ Len(p) = k - 1 /\ \A i \in 1..k - 1 : p[i] = t[i]
    BY <1>6, <1>8, <2>1
  <2>3. b[k] = p \o one /\ t[k] = e
    BY <1>4, <1>5
  <2>4. IsSeq(q) /\ Len(q) = k /\ \A i \in 1..k : q[i] = t[i]
    BY <1>6, <2>1
  <2>5. IsSeq(one) /\ Len(one) = 1 /\ one[1] = e
    BY SingleIsSeq
  <2> HIDE DEF p, e, q, one
  <2> DEFINE r == p \o one
  <2>6. /\ Len(r) = Len(p) + Len(one)
        /\ \A i \in 1..Len(p) : r[i] = p[i]
        /\ \A i \in 1..Len(one) : r[Len(p) + i] = one[i]
    <3>1. Len(r) = Len(p) + Len(one)
      BY <2>2, <2>5, ConcatIs
    <3>2. \A i \in 1..Len(p) : r[i] = p[i]
      BY <2>2, <2>5, ConcatIs
    <3>3. \A i \in 1..Len(one) : r[Len(p) + i] = one[i]
      BY <2>2, <2>5, ConcatIs
    <3>4. QED
      BY <3>1, <3>2, <3>3
  <2>7. IsSeq(r)
    BY <2>2, <2>5, Concat
  <2> HIDE DEF r
  <2>8. Len(r) = k
    BY <2>1, <2>2, <2>5, <2>6
  <2>9. ASSUME NEW i \in 1..k PROVE r[i] = q[i]
    <3>1. CASE i = k
      <4>1. Len(p) + 1 = k /\ 1 \in 1..Len(one)
        BY <2>1, <2>2, <2>5
      <4>2. r[Len(p) + 1] = one[1]
        BY <2>6, <4>1
      <4>3. QED
        BY <2>3, <2>4, <2>5, <3>1, <4>1, <4>2
    <3>2. CASE i # k
      <4>1. i \in 1..k - 1 /\ i \in 1..Len(p)
        BY <2>1, <2>2, <3>2
      <4>2. QED
        BY <2>2, <2>4, <2>6, <4>1
    <3>3. QED
      BY <3>1, <3>2
  <2>10. r = q
    BY <2>4, <2>7, <2>8, <2>9, SameElements
  <2>11. QED
    BY <2>3, <2>10 DEF r, q
<1>9. b[n] = t
  <2>1. n \in 0..n
    BY <1>1
  <2>2. \A k \in 0..n : b[k] = y[k]
    BY <1>1, <1>7, <1>8, SameAlong
  <2>3. b[n] = y[n]
    BY <2>1, <2>2
  <2>4. IsSeq(y[n]) /\ Len(y[n]) = n /\ \A i \in 1..n : y[n][i] = t[i]
    BY <1>6, <2>1
  <2>5. y[n] = t
    BY <1>5, <2>4, SameElements
  <2>6. QED
    BY <2>3, <2>5
<1>10. QED
  BY <1>2, <1>4, <1>9 DEF t

(* Nothing is gathered where nothing is made of each.                      *)
LEMMA GatherNothing ==
  ASSUME NEW f, NEW s, IsSeq(s), \A i \in 1..Len(s) : f[s[i]] = <<>>
  PROVE  Gather(f, s) = <<>> /\ Gathers(f, s)
<1> DEFINE n == Len(s)
<1>1. n \in Nat
  BY ElementsOf
<1>2. Gathers(f, s)
  BY EmptyIsSeq DEF Gathers
<1>3. PICK b : GatherAlong(f, s, b)
  BY <1>2, GatherSteps
<1>4. /\ b[0] = <<>> /\ \A k \in 1..n : b[k] = b[k - 1] \o <<>>
      /\ Gather(f, s) = b[n] /\ \A k \in 0..n : IsSeq(b[k])
  BY <1>3 DEF GatherAlong
<1> DEFINE y == [k \in 0..n |-> <<>>]
<1> HIDE DEF n
<1>5. b[0] = y[0]
  BY <1>1, <1>4
<1>6. ASSUME NEW k \in 1..n, b[k - 1] = y[k - 1]
      PROVE  b[k] = y[k]
  <2>1. k \in 0..n /\ k - 1 \in 0..n
    BY <1>1
  <2>2. b[k] = <<>> \o <<>>
    BY <1>4, <1>6, <2>1
  <2>3. QED
    BY <2>1, <2>2, Concat, EmptyIsSeq
<1>7. n \in 0..n
  BY <1>1
<1>8. b[n] = <<>>
  <2>1. b[n] = y[n]
    <3> HIDE DEF y
    <3>1. \A k \in 0..n : b[k] = y[k]
      BY <1>1, <1>5, <1>6, SameAlong
    <3>2. QED
      BY <1>7, <3>1
  <2>2. QED
    BY <1>7, <2>1
<1>9. QED
  BY <1>2, <1>4, <1>8

LEMMA GatherElements ==
  ASSUME NEW f, NEW s, Gathers(f, s), NEW S, \A i \in 1..Len(s) : ToSet(f[s[i]]) \subseteq S
  PROVE  ToSet(Gather(f, s)) \subseteq S
<1> DEFINE n == Len(s)
<1>1. n \in Nat /\ IsSeq(s)
  BY ElementsOf DEF Gathers
<1>2. PICK b : GatherAlong(f, s, b)
  BY GatherSteps
<1>3. /\ b[0] = <<>> /\ \A k \in 1..n : b[k] = b[k - 1] \o f[s[k]]
      /\ Gather(f, s) = b[n] /\ \A k \in 0..n : IsSeq(b[k])
  BY <1>2 DEF GatherAlong
<1>4. \A k \in 1..n : IsSeq(f[s[k]]) /\ ToSet(f[s[k]]) \subseteq S
  BY DEF Gathers
<1> DEFINE x == [k \in 0..n |-> ToSet(b[k]) \cup S]
           y == [k \in 0..n |-> S]
<1> HIDE DEF n
<1>5. x[0] = y[0]
  BY <1>1, <1>3, Members
<1>6. ASSUME NEW k \in 1..n, x[k - 1] = y[k - 1]
      PROVE  x[k] = y[k]
  <2>1. k \in 0..n /\ k - 1 \in 0..n
    BY <1>1
  <2> DEFINE p == b[k - 1]
             q == f[s[k]]
  <2>2. IsSeq(p) /\ ToSet(p) \subseteq S /\ IsSeq(q) /\ ToSet(q) \subseteq S /\ b[k] = p \o q
    BY <1>3, <1>4, <1>6, <2>1
  <2> HIDE DEF p, q
  <2>3. ToSet(b[k]) = ToSet(p) \cup ToSet(q)
    BY <2>2, MembersOfConcat
  <2>4. QED
    BY <2>1, <2>2, <2>3
<1>7. n \in 0..n
  BY <1>1
<1>8. x[n] = y[n]
  <2> HIDE DEF x, y
  <2>1. \A k \in 0..n : x[k] = y[k]
    BY <1>1, <1>5, <1>6, SameAlong
  <2>2. QED
    BY <1>7, <2>1
<1>9. QED
  BY <1>3, <1>7, <1>8

----------------------------------------------------------------------------
(* The pieces of some kinds. *)

OfKinds(kinds, S) == [p \in S |-> IF p.kind \in kinds THEN <<p>> ELSE <<>>]

LEMMA PickIs ==
  ASSUME NEW kinds, NEW S, NEW p \in S
  PROVE  /\ IsSeq(OfKinds(kinds, S)[p])
         /\ p.kind \in kinds => OfKinds(kinds, S)[p] = <<p>>
         /\ p.kind \notin kinds => OfKinds(kinds, S)[p] = <<>>
BY SingleIsSeq, EmptyIsSeq DEF OfKinds

LEMMA OnlyIs ==
  ASSUME NEW kinds, NEW s, IsSeq(s), NEW S, ToSet(s) \subseteq S
  PROVE  Only(kinds, s) = Gather(OfKinds(kinds, S), s) /\ Gathers(OfKinds(kinds, S), s)
<1>1. \A i \in 1..Len(s) : s[i] \in S
  BY ElementsOf
<1>2. [i \in 1..Len(s) |-> IF s[i].kind \in kinds THEN <<s[i]>> ELSE <<>>]
        = [i \in 1..Len(s) |-> OfKinds(kinds, S)[s[i]]]
  BY <1>1 DEF OfKinds
<1>3. Only(kinds, s) = Gather(OfKinds(kinds, S), s)
  BY <1>2 DEF Only, Where, Each, Gather, Through
<1>4. \A i \in 1..Len(s) : IsSeq(OfKinds(kinds, S)[s[i]])
  BY <1>1, PickIs
<1>5. QED
  BY <1>3, <1>4 DEF Gathers

LEMMA OnlyElements ==
  ASSUME NEW kinds, NEW s, IsSeq(s)
  PROVE  /\ IsSeq(Only(kinds, s))
         /\ \A p \in ToSet(Only(kinds, s)) : p \in ToSet(s) /\ p.kind \in kinds
<1> DEFINE S == ToSet(s)
           T == {p \in S : p.kind \in kinds}
           f == OfKinds(kinds, S)
<1>1. Only(kinds, s) = Gather(f, s) /\ Gathers(f, s)
  BY OnlyIs
<1>2. \A i \in 1..Len(s) : s[i] \in S
  BY ElementsOf
<1>3. \A i \in 1..Len(s) : ToSet(f[s[i]]) \subseteq T
  <2> TAKE i \in 1..Len(s)
  <2> DEFINE p == s[i]
  <2>1. p \in S
    BY <1>2
  <2> HIDE DEF p
  <2>2. CASE p.kind \in kinds
    <3>1. f[p] = <<p>> /\ p \in T
      BY <2>1, <2>2, PickIs
    <3>2. QED
      BY <3>1, Members DEF p
  <2>3. CASE p.kind \notin kinds
    <3>1. f[p] = <<>>
      BY <2>1, <2>3, PickIs
    <3>2. QED
      BY <3>1, Members DEF p
  <2>4. QED
    BY <2>2, <2>3
<1> HIDE DEF f, T
<1>4. ToSet(Gather(f, s)) \subseteq T
  BY <1>1, <1>3, GatherElements
<1>5. QED
  BY <1>1, <1>4, GathersAll DEF T

LEMMA OnlyConcat ==
  ASSUME NEW kinds, NEW s, IsSeq(s), NEW t, IsSeq(t)
  PROVE  Only(kinds, s \o t) = Only(kinds, s) \o Only(kinds, t)
<1> DEFINE S == ToSet(s) \cup ToSet(t)
           u == s \o t
           f == OfKinds(kinds, S)
<1>1. IsSeq(u) /\ ToSet(u) = S
  BY Concat, MembersOfConcat
<1>2. Only(kinds, s) = Gather(f, s) /\ Gathers(f, s)
  BY OnlyIs
<1>3. Only(kinds, t) = Gather(f, t) /\ Gathers(f, t)
  BY OnlyIs
<1>4. Only(kinds, u) = Gather(f, u)
  <2> HIDE DEF u
  <2> QED
    BY <1>1, OnlyIs
<1> HIDE DEF f
<1>5. Gather(f, s \o t) = Gather(f, s) \o Gather(f, t)
  BY <1>2, <1>3, GatherConcat
<1>6. QED
  BY <1>2, <1>3, <1>4, <1>5

LEMMA OnlyEmpty ==
  ASSUME NEW kinds
  PROVE  Only(kinds, <<>>) = <<>>
<1>1. Only(kinds, <<>>) = Gather(OfKinds(kinds, ToSet(<<>>)), <<>>)
  BY OnlyIs, EmptyIsSeq
<1>2. QED
  BY <1>1, GatherNone

LEMMA OnlyOne ==
  ASSUME NEW kinds, NEW p
  PROVE  Only(kinds, <<p>>) = IF p.kind \in kinds THEN <<p>> ELSE <<>>
<1>1. IsSeq(<<p>>) /\ ToSet(<<p>>) = {p}
  BY SingleIsSeq, Members
<1>2. Only(kinds, <<p>>) = Gather(OfKinds(kinds, {p}), <<p>>)
  BY <1>1, OnlyIs
<1>3. Gather(OfKinds(kinds, {p}), <<p>>) = OfKinds(kinds, {p})[p]
  BY GatherOne
<1>4. QED
  BY <1>2, <1>3, PickIs

(* None of these kinds, and no other kinds. *)
LEMMA OnlyNone ==
  ASSUME NEW kinds, NEW s, IsSeq(s), \A p \in ToSet(s) : p.kind \notin kinds
  PROVE  Only(kinds, s) = <<>>
<1> DEFINE f == OfKinds(kinds, ToSet(s))
<1>1. Only(kinds, s) = Gather(f, s)
  BY OnlyIs
<1>2. \A i \in 1..Len(s) : s[i] \in ToSet(s)
  BY ElementsOf
<1>3. \A i \in 1..Len(s) : f[s[i]] = <<>>
  BY <1>2, PickIs
<1> HIDE DEF f
<1>4. QED
  BY <1>1, <1>3, GatherNothing

LEMMA OnlyAll ==
  ASSUME NEW kinds, NEW s, IsSeq(s), \A p \in ToSet(s) : p.kind \in kinds
  PROVE  Only(kinds, s) = s
<1> DEFINE f == [p \in ToSet(s) |-> p]
           g == OfKinds(kinds, ToSet(s))
<1>1. Only(kinds, s) = Gather(g, s)
  BY OnlyIs
<1>2. \A i \in 1..Len(s) : s[i] \in ToSet(s)
  BY ElementsOf
<1>3. \A i \in 1..Len(s) : f[s[i]] = s[i]
  BY <1>2
<1>4. \A i \in 1..Len(s) : g[s[i]] = <<s[i]>>
  BY <1>2, PickIs
<1> HIDE DEF f, g
<1>5. Singly(f, g, s)
  BY <1>3, <1>4 DEF Singly
<1>6. Gather(g, s) = Through(f, s)
  BY <1>5, GatherSingles
<1>7. Through(f, s) = s
  <2>1. /\ IsSeq(Through(f, s)) /\ Len(Through(f, s)) = Len(s)
        /\ \A i \in 1..Len(s) : Through(f, s)[i] = f[s[i]]
    BY ThroughIs
  <2>2. QED
    BY <1>3, <2>1, SameElements
<1>8. QED
  BY <1>1, <1>6, <1>7

LEMMA OnlyTwice ==
  ASSUME NEW kinds, NEW others, NEW s, IsSeq(s)
  PROVE  Only(kinds, Only(others, s)) = Only(kinds \cap others, s)
<1> DEFINE S == ToSet(s)
           f == OfKinds(others, S)
           g == OfKinds(kinds, S)
           h == OfKinds(kinds \cap others, S)
           t == Only(others, s)
<1>1. t = Gather(f, s) /\ Gathers(f, s) /\ IsSeq(t) /\ ToSet(t) \subseteq S
  BY OnlyIs, OnlyElements
<1>2. Only(kinds \cap others, s) = Gather(h, s)
  BY OnlyIs
<1>3. Only(kinds, t) = Gather(g, t)
  <2> HIDE DEF t
  <2> QED
    BY <1>1, OnlyIs
<1>4. \A i \in 1..Len(s) : s[i] \in S
  BY ElementsOf
<1>5. ASSUME NEW i \in 1..Len(s)
      PROVE  Gathers(g, f[s[i]]) /\ Gather(g, f[s[i]]) = h[s[i]]
  <2> DEFINE p == s[i]
  <2>1. p \in S
    BY <1>4
  <2> HIDE DEF p
  <2>2. CASE p.kind \in others
    <3>1. f[p] = <<p>> /\ IsSeq(g[p])
      BY <2>1, <2>2, PickIs
    <3>2. g[p] = h[p]
      BY <2>1, <2>2, PickIs
    <3> HIDE DEF f, g, h
    <3>3. Gathers(g, f[p]) /\ Gather(g, f[p]) = g[p]
      BY <3>1, GatherOne
    <3>4. QED
      BY <3>2, <3>3 DEF p
  <2>3. CASE p.kind \notin others
    <3>1. f[p] = <<>> /\ h[p] = <<>>
      BY <2>1, <2>3, PickIs
    <3> HIDE DEF f, g, h
    <3>2. QED
      BY <3>1, GatherNone DEF p
  <2>4. QED
    BY <2>2, <2>3
<1> HIDE DEF f, g, h, t
<1>6. GatherEach(f, g, h, s)
  BY <1>5 DEF GatherEach
<1>7. Gather(g, Gather(f, s)) = Gather(h, s)
  BY <1>1, <1>6, GatherTwice
<1>8. QED
  BY <1>1, <1>2, <1>3, <1>7 DEF t

(* A function that keeps the kinds. *)
LEMMA OnlyThrough ==
  ASSUME NEW kinds, NEW f, NEW s, IsSeq(s), \A p \in ToSet(s) : f[p].kind = p.kind
  PROVE  Only(kinds, Through(f, s)) = Through(f, Only(kinds, s))
<1> DEFINE S == ToSet(s)
           t == Through(f, s)
           T == ToSet(t)
           a == OfKinds(kinds, S)
           b == OfKinds(kinds, T)
           h == [p \in S |-> IF p.kind \in kinds THEN <<f[p]>> ELSE <<>>]
<1>1. IsSeq(t) /\ Len(t) = Len(s) /\ \A i \in 1..Len(s) : t[i] = f[s[i]]
  BY ThroughIs
<1>2. \A i \in 1..Len(s) : s[i] \in S
  BY ElementsOf
<1>3. \A i \in 1..Len(s) : f[s[i]] \in T
  <2> HIDE DEF t
  <2> QED
    BY <1>1, ElementsOf
<1>4. Only(kinds, s) = Gather(a, s) /\ Gathers(a, s)
  BY OnlyIs
<1>5. Only(kinds, t) = Gather(b, t)
  <2> HIDE DEF t
  <2> QED
    BY <1>1, OnlyIs
<1>6. ASSUME NEW i \in 1..Len(s)
      PROVE  b[f[s[i]]] = h[s[i]] /\ Through(f, a[s[i]]) = h[s[i]]
  <2> DEFINE p == s[i]
             q == f[p]
  <2>1. p \in S /\ q \in T
    BY <1>2, <1>3
  <2> HIDE DEF p, T
  <2>2. q.kind = p.kind
    BY <2>1
  <2> HIDE DEF q
  <2>3. CASE p.kind \in kinds
    <3>1. b[q] = <<q>> /\ a[p] = <<p>>
      BY <2>1, <2>2, <2>3, PickIs
    <3>2. h[p] = <<q>>
      BY <2>1, <2>3 DEF q
    <3>3. Through(f, <<p>>) = <<q>>
      BY DEF Through, q
    <3>4. QED
      BY <3>1, <3>2, <3>3 DEF p, q
  <2>4. CASE p.kind \notin kinds
    <3>1. b[q] = <<>> /\ a[p] = <<>>
      BY <2>1, <2>2, <2>4, PickIs
    <3>2. h[p] = <<>>
      BY <2>1, <2>4
    <3>3. Through(f, <<>>) = <<>>
      BY DEF Through
    <3>4. QED
      BY <3>1, <3>2, <3>3 DEF p, q
  <2>5. QED
    BY <2>3, <2>4
<1> HIDE DEF a, b, h
<1>7. Twice(f, b, h, s)
  BY <1>6 DEF Twice
<1>8. ThroughEach(a, f, h, s)
  BY <1>6 DEF ThroughEach
<1>9. Gather(b, Through(f, s)) = Gather(h, s)
  BY <1>7, ThroughTwice
<1>10. Through(f, Gather(a, s)) = Gather(h, s)
  BY <1>4, <1>8, ThroughGather
<1>11. QED
  BY <1>4, <1>5, <1>9, <1>10 DEF t

(* What is made of each piece of some kinds. *)
LEMMA ThroughOnly ==
  ASSUME NEW kinds, NEW e, NEW u, IsSeq(u)
  PROVE  Through(e, Only(kinds, u))
           = Gather([p \in ToSet(u) |-> IF p.kind \in kinds THEN <<e[p]>> ELSE <<>>], u)
<1> DEFINE S == ToSet(u)
           h == [p \in S |-> IF p.kind \in kinds THEN <<e[p]>> ELSE <<>>]
           a == OfKinds(kinds, S)
<1>1. Only(kinds, u) = Gather(a, u) /\ Gathers(a, u)
  BY OnlyIs
<1>2. \A i \in 1..Len(u) : u[i] \in S
  BY ElementsOf
<1>3. ASSUME NEW i \in 1..Len(u) PROVE Through(e, a[u[i]]) = h[u[i]]
  <2> DEFINE p == u[i]
  <2>1. p \in S
    BY <1>2
  <2> HIDE DEF p
  <2>2. CASE p.kind \in kinds
    <3>1. a[p] = <<p>>
      BY <2>1, <2>2, PickIs
    <3>2. h[p] = <<e[p]>>
      BY <2>1, <2>2
    <3>3. Through(e, <<p>>) = <<e[p]>>
      BY DEF Through
    <3>4. QED
      BY <3>1, <3>2, <3>3 DEF p
  <2>3. CASE p.kind \notin kinds
    <3>1. a[p] = <<>>
      BY <2>1, <2>3, PickIs
    <3>2. h[p] = <<>>
      BY <2>1, <2>3
    <3>3. Through(e, <<>>) = <<>>
      BY DEF Through
    <3>4. QED
      BY <3>1, <3>2, <3>3 DEF p
  <2>4. QED
    BY <2>2, <2>3
<1> HIDE DEF a, h
<1>4. ThroughEach(a, e, h, u)
  BY <1>3 DEF ThroughEach
<1>5. Through(e, Gather(a, u)) = Gather(h, u)
  BY <1>1, <1>4, ThroughGather
<1>6. QED
  BY <1>1, <1>5 DEF h

(* The pieces of some kinds, with what matters of them, in two sequences   *)
(* that hold them at the same places.                                      *)
Alike(kinds, f, s, g, t) ==
  /\ IsSeq(s) /\ IsSeq(t) /\ Len(s) = Len(t)
  /\ \A i \in 1..Len(s) :
       /\ s[i].kind \in kinds <=> t[i].kind \in kinds
       /\ s[i].kind \in kinds => f[s[i]] = g[t[i]]

LEMMA OnlyAlike ==
  ASSUME NEW kinds, NEW f, NEW s, NEW g, NEW t, Alike(kinds, f, s, g, t)
  PROVE  Through(f, Only(kinds, s)) = Through(g, Only(kinds, t))
<1>1. ASSUME NEW e, NEW u, IsSeq(u)
      PROVE  LET h == [p \in ToSet(u) |-> IF p.kind \in kinds THEN <<e[p]>> ELSE <<>>]
             IN Through(e, Only(kinds, u)) = Gather(h, u)
  BY <1>1, ThroughOnly
<1> DEFINE hs == [p \in ToSet(s) |-> IF p.kind \in kinds THEN <<f[p]>> ELSE <<>>]
           ht == [p \in ToSet(t) |-> IF p.kind \in kinds THEN <<g[p]>> ELSE <<>>]
<1>2. IsSeq(s) /\ IsSeq(t) /\ Len(s) = Len(t)
  BY DEF Alike
<1>3. Through(f, Only(kinds, s)) = Gather(hs, s) /\ Through(g, Only(kinds, t)) = Gather(ht, t)
  BY <1>1, <1>2
<1>4. \A i \in 1..Len(s) : s[i] \in ToSet(s) /\ t[i] \in ToSet(t)
  BY <1>2, ElementsOf
<1>5. \A i \in 1..Len(s) : hs[s[i]] = ht[t[i]]
  BY <1>4 DEF Alike
<1> HIDE DEF hs, ht
<1>6. Through(hs, s) = Through(ht, t)
  BY <1>2, <1>5 DEF Through
<1>7. QED
  BY <1>3, <1>6 DEF Gather

----------------------------------------------------------------------------
(* Answers: what they hold and why they end. *)

(* What matters of a call, where arguments that are no JSON become         *)
(* others.                                                                 *)
CallKept(told, p) == <<p.name, IF p.args = "broken" THEN told ELSE p.args>>

CallsOf(told, pieces) == Each(LAMBDA c : CallKept(told, c), Only({"call"}, pieces))

PieceOK(p) ==
  \/ \E text : p = Text(text)
  \/ \E id, name, args : p = Call(id, name, args)

PiecesOK(pieces) == IsSeq(pieces) /\ \A p \in ToSet(pieces) : PieceOK(p)

LEMMA PieceIs ==
  /\ \A text : Text(text).kind = "text" /\ Text(text).text = text
  /\ \A id, name, args : LET c == Call(id, name, args)
                         IN c.kind = "call" /\ c.id = id /\ c.name = name /\ c.args = args
BY DEF Text, Call

LEMMA PieceKinds ==
  ASSUME NEW p, PieceOK(p)
  PROVE  /\ p.kind \in {"text", "call"}
         /\ p.kind = "text" => p = Text(p.text)
         /\ p.kind = "call" => p = Call(p.id, p.name, p.args)
BY PieceIs DEF PieceOK

LEMMA EachOnly ==
  ASSUME NEW kinds, NEW s, IsSeq(s), NEW S, ToSet(s) \subseteq S, NEW told
  PROVE  /\ Each(LAMBDA p : p.text, Only(kinds, s)) = Through([p \in S |-> p.text], Only(kinds, s))
         /\ Each(LAMBDA p : CallKept(told, p), Only(kinds, s))
              = Through([p \in S |-> CallKept(told, p)], Only(kinds, s))
<1> DEFINE t == Only(kinds, s)
<1>1. IsSeq(t) /\ ToSet(t) \subseteq S
  BY OnlyElements
<1> HIDE DEF t
<1>2. \A i \in 1..Len(t) : t[i] \in S
  BY <1>1, ElementsOf
<1>3. QED
  BY <1>2 DEF Each, Through, t

SameCalls(told, other, s, t) ==
  \A i \in 1..Len(s) :
    /\ s[i].kind = "call" <=> t[i].kind = "call"
    /\ s[i].kind = "call" => CallKept(told, s[i]) = CallKept(other, t[i])

LEMMA CallsAlike ==
  ASSUME NEW told, NEW other, NEW s, IsSeq(s), NEW t, IsSeq(t), Len(s) = Len(t),
         SameCalls(told, other, s, t)
  PROVE  CallsOf(told, s) = CallsOf(other, t)
<1> DEFINE kinds == {"call"}
           f == [p \in ToSet(s) |-> CallKept(told, p)]
           g == [p \in ToSet(t) |-> CallKept(other, p)]
<1>1. \A i \in 1..Len(s) : s[i] \in ToSet(s) /\ t[i] \in ToSet(t)
  BY ElementsOf
<1>2. Alike(kinds, f, s, g, t)
  BY <1>1 DEF Alike, SameCalls
<1>3. CallsOf(told, s) = Through(f, Only(kinds, s))
  BY EachOnly DEF CallsOf
<1>4. CallsOf(other, t) = Through(g, Only(kinds, t))
  BY EachOnly DEF CallsOf
<1> HIDE DEF f, g, kinds
<1>5. QED
  BY <1>2, <1>3, <1>4, OnlyAlike

LEMMA ShortSeqs ==
  /\ \A e : IsSeq(<<e>>) /\ Len(<<e>>) = 1
  /\ \A e, f : IsSeq(<<e, f>>) /\ Len(<<e, f>>) = 2
  /\ \A d, e, f, g : IsSeq(<<d, e, f, g>>) /\ ToSet(<<d, e, f, g>>) = {d, e, f, g}
<1>1. ASSUME NEW e PROVE IsSeq(<<e>>) /\ Len(<<e>>) = 1
  BY SingleIsSeq
<1>2. ASSUME NEW e, NEW f PROVE IsSeq(<<e, f>>) /\ Len(<<e, f>>) = 2
  <2>1. <<e, f>> \in Seq({e, f}) /\ Len(<<e, f>>) = 2
    OBVIOUS
  <2>2. QED
    BY <2>1, SeqIsSeq
<1>3. ASSUME NEW d, NEW e, NEW f, NEW g
      PROVE  IsSeq(<<d, e, f, g>>) /\ ToSet(<<d, e, f, g>>) = {d, e, f, g}
  <2> DEFINE s == <<d, e, f, g>>
  <2>1. s \in Seq({d, e, f, g})
    OBVIOUS
  <2>2. DOMAIN s = 1..4 /\ s[1] = d /\ s[2] = e /\ s[3] = f /\ s[4] = g
    OBVIOUS
  <2> HIDE DEF s
  <2>3. 1..4 = {1, 2, 3, 4}
    OBVIOUS
  <2>4. ToSet(s) = {d, e, f, g}
    BY <2>2, <2>3 DEF ToSet
  <2>5. IsSeq(s)
    BY <2>1, SeqIsSeq
  <2>6. QED
    BY <2>4, <2>5 DEF s
<1>4. QED
  BY <1>1, <1>2, <1>3

(* The pieces of an answer are texts and calls. *)
LEMMA TextsAreTexts ==
  ASSUME NEW pieces, PiecesOK(pieces)
  PROVE  Only({"text", "image", "inline"}, pieces) = Only({"text"}, pieces)
<1> DEFINE both == {"text", "call"}
<1>1. IsSeq(pieces) /\ \A p \in ToSet(pieces) : p.kind \in both
  BY PieceKinds DEF PiecesOK
<1>2. Only(both, pieces) = pieces
  BY <1>1, OnlyAll
<1>3. {"text", "image", "inline"} \cap both = {"text"}
  OBVIOUS
<1> HIDE DEF both
<1>4. Only({"text", "image", "inline"}, Only(both, pieces)) = Only({"text", "image", "inline"} \cap both, pieces)
  BY <1>1, OnlyTwice
<1>5. QED
  BY <1>2, <1>3, <1>4

(* A sequence given by its elements. *)
LEMMA SeqGiven ==
  ASSUME NEW n \in Nat, NEW s, DOMAIN s = 1..n, s = [i \in 1..n |-> s[i]]
  PROVE  IsSeq(s) /\ Len(s) = n /\ \A e \in ToSet(s) : \E i \in 1..n : e = s[i]
<1> DEFINE S == {s[i] : i \in 1..n}
<1>1. s \in [1..n -> S]
  OBVIOUS
<1>2. s \in Seq(S)
  BY <1>1, IsASeq
<1>3. Len(s) = n
  <2>1. DOMAIN s = 1..Len(s) /\ Len(s) \in Nat
    BY <1>2, LenProperties
  <2>2. QED
    BY <2>1
<1>4. IsSeq(s)
  BY <1>2, SeqIsSeq
<1>5. QED
  BY <1>3, <1>4 DEF ToSet

(* Naming the calls, and writing them for Gemini. *)
NamedAs(pieces, fresh) ==
  [i \in 1..Len(pieces) |-> IF pieces[i].kind = "call" THEN [pieces[i] EXCEPT !.id = fresh \o <<i>>]
                            ELSE pieces[i]]

WriteFor(p) ==
  IF p.kind = "text" THEN p ELSE Call(<<>>, p.name, IF p.args = "broken" THEN "{}" ELSE p.args)

WrittenFor(pieces) == Each(WriteFor, pieces)

(* Why an answer ends, in each format. *)
EndsOf(format) ==
  CASE format \in OpenAIFormats -> {"stop", "tool_calls", "length", "content_filter"}
    [] format = "anthropic"     -> {"end_turn", "tool_use", "max_tokens", "refusal"}
    [] format = "gemini"        -> {"STOP", "MAX_TOKENS", "SAFETY"}

EndWritten(format, reason) ==
  CASE format = "anthropic" -> FinishToAnthropic(reason)
    [] format = "gemini"    -> FinishToGemini(reason)
    [] OTHER                -> reason

(* An answer, with the choices and the usage, in a format. *)
AnswerOf(choices, usage) == [choices |-> choices, usage |-> usage]

NoneBroken(pieces) == \A p \in ToSet(pieces) : p.kind = "call" => p.args # "broken"

ChoiceOK(format, choices) ==
  \E role, pieces : \E finish \in EndsOf(format) :
    /\ choices = <<Choice(role, pieces, finish)>> /\ PiecesOK(pieces)
    /\ format = "gemini" => NoneBroken(pieces)

AnswerOK(format, a) ==
  \E choices, usage :
    /\ a = AnswerOf(choices, usage)
    /\ choices = <<>> \/ ChoiceOK(format, choices)

LEMMA AnswerIs ==
  ASSUME NEW choices, NEW usage
  PROVE  LET a == AnswerOf(choices, usage)
         IN /\ a.choices = choices /\ a.usage = usage
            /\ \A others : [a EXCEPT !.choices = others] = AnswerOf(others, usage)
BY DEF AnswerOf

LEMMA ChoiceIs ==
  ASSUME NEW role, NEW pieces, NEW finish
  PROVE  LET c == Choice(role, pieces, finish)
         IN /\ c.role = role /\ c.pieces = pieces /\ c.finish = finish
            /\ \A others : [c EXCEPT !.pieces = others] = Choice(role, others, finish)
BY DEF Choice

LEMMA ChoiceAlone ==
  ASSUME NEW role, NEW pieces, NEW finish
  PROVE  LET choices == <<Choice(role, pieces, finish)>>
         IN choices # <<>> /\ choices[1].pieces = pieces /\ choices[1].finish = finish
<1> DEFINE c == Choice(role, pieces, finish)
<1>1. c.pieces = pieces /\ c.finish = finish
  BY ChoiceIs
<1> HIDE DEF c
<1>2. <<c>> # <<>> /\ <<c>>[1] = c
  BY SingleIsSeq
<1>3. QED
  BY <1>1, <1>2 DEF c

(* An answer that is read. *)
LEMMA ReadNothing ==
  ASSUME NEW format, NEW usage, NEW fresh
  PROVE  ResponseToInternal(format, AnswerOf(<<>>, usage), fresh) = AnswerOf(<<>>, usage)
<1> DEFINE a == AnswerOf(<<>>, usage)
<1>1. a.choices = <<>> /\ [a EXCEPT !.choices = <<>>] = a
  BY AnswerIs
<1>2. Len(<<>>) = 0
  BY EmptyIsSeq
<1>3. OpenAIResponseToInternal(a) = a
  BY <1>1, <1>2 DEF OpenAIResponseToInternal, Each, AnswerOf
<1>4. AnthropicResponseToInternal(a) = a
  BY <1>1, <1>2 DEF AnthropicResponseToInternal, Each, AnswerOf
<1>5. GeminiResponseToInternal(a, fresh) = a
  BY <1>1, <1>2 DEF GeminiResponseToInternal, Each, AnswerOf
<1>6. QED
  BY <1>3, <1>4, <1>5 DEF ResponseToInternal

LEMMA Unbroken ==
  ASSUME NEW s, IsSeq(Only({"call"}, s)), NEW t, CallsOf("broken", s) = CallsOf("broken", t),
         \A p \in ToSet(Only({"call"}, s)) : p.args # "broken",
         IsSeq(Only({"call"}, t))
  PROVE  ~Unwritable("anthropic", Only({"call"}, t))
<1> DEFINE x == Only({"call"}, s)
           y == Only({"call"}, t)
<1>1. CallsOf("broken", s) = [i \in 1..Len(x) |-> CallKept("broken", x[i])]
  BY DEF CallsOf, Each
<1>2. CallsOf("broken", t) = [i \in 1..Len(y) |-> CallKept("broken", y[i])]
  BY DEF CallsOf, Each
<1>3. IsSeq(x) /\ IsSeq(y) /\ \A p \in ToSet(x) : p.args # "broken"
  OBVIOUS
<1> HIDE DEF x, y
<1>4. \A i \in 1..Len(x) : x[i] \in ToSet(x)
  BY <1>3, ElementsOf
<1>5. \A p : CallKept("broken", p) = <<p.name, p.args>>
  BY DEF CallKept
<1>6. ASSUME NEW i \in 1..Len(y) PROVE y[i].args # "broken"
  <2> DEFINE calls == [j \in 1..Len(x) |-> CallKept("broken", x[j])]
             others == [j \in 1..Len(y) |-> CallKept("broken", y[j])]
  <2>1. calls = others
    BY <1>1, <1>2
  <2>2. DOMAIN calls = 1..Len(x) /\ DOMAIN others = 1..Len(y)
    OBVIOUS
  <2>3. i \in 1..Len(x)
    BY <2>1, <2>2
  <2>4. calls[i] = CallKept("broken", x[i]) /\ others[i] = CallKept("broken", y[i])
    BY <2>3
  <2> HIDE DEF calls, others
  <2>5. <<x[i].name, x[i].args>> = <<y[i].name, y[i].args>>
    BY <1>5, <2>1, <2>4
  <2>6. x[i].args = y[i].args
    BY <2>5
  <2>7. QED
    BY <1>3, <1>4, <2>3, <2>6
<1>7. QED
  BY <1>6 DEF Unwritable, y

----------------------------------------------------------------------------
(* The calls that a conversation holds, and those that were said. *)

(* A call, as a request tells it, where arguments that are no JSON         *)
(* become others.                                                          *)
Made(told, c) == <<"assistant", c.name, IF c.args = "broken" THEN told ELSE c.args>>

MadeBy(told, pieces) == Each(LAMBDA c : Made(told, c), Only({"call"}, pieces))

CallsHeld(told, messages) == FlattenSeq(Each(LAMBDA m : MadeBy(told, m.pieces), messages))

CallsSaid(told, sayings) ==
  FlattenSeq(Each(LAMBDA s : IF s.piece.kind = "call" THEN <<Made(told, s.piece)>> ELSE <<>>, sayings))

LEMMA MadeByIs ==
  ASSUME NEW told, NEW pieces, IsSeq(pieces)
  PROVE  /\ IsSeq(MadeBy(told, pieces))
         /\ Only({"call"}, pieces) = <<>> => MadeBy(told, pieces) = <<>>
         /\ MadeBy(told, pieces)
              = Gather([p \in ToSet(pieces) |-> IF p.kind \in {"call"} THEN <<Made(told, p)>> ELSE <<>>],
                       pieces)
<1> DEFINE S == ToSet(pieces)
           f == [p \in S |-> Made(told, p)]
           t == Only({"call"}, pieces)
           g == [p \in S |-> IF p.kind \in {"call"} THEN <<f[p]>> ELSE <<>>]
           h == [p \in S |-> IF p.kind \in {"call"} THEN <<Made(told, p)>> ELSE <<>>]
<1>1. IsSeq(t) /\ \A p \in ToSet(t) : p \in S
  BY OnlyElements
<1>2. MadeBy(told, pieces) = Through(f, t)
  <2>1. MadeBy(told, pieces) = Each(LAMBDA c : Made(told, c), t)
    BY DEF MadeBy
  <2> HIDE DEF t
  <2>2. \A i \in 1..Len(t) : t[i] \in S
    BY <1>1, ElementsOf
  <2>3. QED
    BY <2>1, <2>2 DEF Each, Through
<1>3. IsSeq(Through(f, t))
  <2> HIDE DEF f, t
  <2> QED
    BY <1>1, ThroughIs
<1>4. t = <<>> => Through(f, t) = <<>>
  BY DEF Through
<1>5. Through(f, t) = Gather(g, pieces)
  <2> HIDE DEF f
  <2> QED
    BY ThroughOnly
<1>6. g = h
  OBVIOUS
<1>7. QED
  BY <1>2, <1>3, <1>4, <1>5, <1>6

(* The calls that a sequence of messages holds. *)
MakersOf(told, S) == [m \in S |-> MadeBy(told, m.pieces)]

LEMMA HeldIs ==
  ASSUME NEW told, NEW messages, IsSeq(messages), NEW S, ToSet(messages) \subseteq S,
         \A m \in ToSet(messages) : IsSeq(m.pieces)
  PROVE  /\ CallsHeld(told, messages) = Gather(MakersOf(told, S), messages)
         /\ Gathers(MakersOf(told, S), messages)
<1>1. \A i \in 1..Len(messages) : messages[i] \in S /\ messages[i] \in ToSet(messages)
  BY ElementsOf
<1>2. Each(LAMBDA m : MadeBy(told, m.pieces), messages) = Through(MakersOf(told, S), messages)
  BY <1>1 DEF Each, Through, MakersOf
<1>3. ASSUME NEW i \in 1..Len(messages) PROVE IsSeq(MakersOf(told, S)[messages[i]])
  <2> DEFINE m == messages[i]
  <2>1. m \in S /\ IsSeq(m.pieces)
    BY <1>1
  <2> HIDE DEF m
  <2>2. MakersOf(told, S)[m] = MadeBy(told, m.pieces)
    BY <2>1 DEF MakersOf
  <2>3. QED
    BY <2>1, <2>2, MadeByIs DEF m
<1>4. QED
  BY <1>2, <1>3 DEF CallsHeld, Gather, Gathers

LEMMA HeldConcat ==
  ASSUME NEW told, NEW s, IsSeq(s), NEW t, IsSeq(t),
         \A m \in ToSet(s) \cup ToSet(t) : IsSeq(m.pieces)
  PROVE  CallsHeld(told, s \o t) = CallsHeld(told, s) \o CallsHeld(told, t)
<1> DEFINE S == ToSet(s) \cup ToSet(t)
           f == MakersOf(told, S)
           u == s \o t
<1>1. IsSeq(u) /\ ToSet(u) = S
  BY Concat, MembersOfConcat
<1>2. CallsHeld(told, s) = Gather(f, s) /\ Gathers(f, s)
  BY HeldIs
<1>3. CallsHeld(told, t) = Gather(f, t) /\ Gathers(f, t)
  BY HeldIs
<1>4. CallsHeld(told, u) = Gather(f, u)
  <2> HIDE DEF u
  <2> QED
    BY <1>1, HeldIs
<1> HIDE DEF f
<1>5. Gather(f, s \o t) = Gather(f, s) \o Gather(f, t)
  BY <1>2, <1>3, GatherConcat
<1>6. QED
  BY <1>2, <1>3, <1>4, <1>5

LEMMA HeldNone ==
  ASSUME NEW told, NEW messages, IsSeq(messages),
         \A m \in ToSet(messages) : IsSeq(m.pieces) /\ Only({"call"}, m.pieces) = <<>>
  PROVE  CallsHeld(told, messages) = <<>>
<1> DEFINE S == ToSet(messages)
           f == MakersOf(told, S)
<1>1. CallsHeld(told, messages) = Gather(f, messages)
  BY HeldIs
<1>2. \A i \in 1..Len(messages) : messages[i] \in S
  BY ElementsOf
<1>3. ASSUME NEW i \in 1..Len(messages) PROVE f[messages[i]] = <<>>
  <2> DEFINE m == messages[i]
  <2>1. m \in S
    BY <1>2
  <2> HIDE DEF m
  <2>2. f[m] = MadeBy(told, m.pieces)
    BY <2>1 DEF MakersOf
  <2>3. QED
    BY <2>1, <2>2, MadeByIs DEF m
<1> HIDE DEF f
<1>4. QED
  BY <1>1, <1>3, GatherNothing

LEMMA HeldOne ==
  ASSUME NEW told, NEW m, IsSeq(m.pieces)
  PROVE  CallsHeld(told, <<m>>) = MadeBy(told, m.pieces)
<1>1. IsSeq(<<m>>) /\ ToSet(<<m>>) = {m}
  BY SingleIsSeq, Members
<1>2. CallsHeld(told, <<m>>) = Gather(MakersOf(told, {m}), <<m>>)
  BY <1>1, HeldIs
<1>3. MakersOf(told, {m})[m] = MadeBy(told, m.pieces)
  BY DEF MakersOf
<1>4. QED
  BY <1>2, <1>3, GatherOne

(* The calls among the sayings. *)
SpeakersOf(told, S) == [s \in S |-> IF s.piece.kind = "call" THEN <<Made(told, s.piece)>> ELSE <<>>]

LEMMA SaidIs ==
  ASSUME NEW told, NEW sayings, IsSeq(sayings), NEW S, ToSet(sayings) \subseteq S
  PROVE  /\ CallsSaid(told, sayings) = Gather(SpeakersOf(told, S), sayings)
         /\ Gathers(SpeakersOf(told, S), sayings)
<1>1. \A i \in 1..Len(sayings) : sayings[i] \in S
  BY ElementsOf
<1>2. Each(LAMBDA s : IF s.piece.kind = "call" THEN <<Made(told, s.piece)>> ELSE <<>>, sayings)
        = Through(SpeakersOf(told, S), sayings)
  BY <1>1 DEF Each, Through, SpeakersOf
<1>3. \A i \in 1..Len(sayings) : IsSeq(SpeakersOf(told, S)[sayings[i]])
  BY <1>1, SingleIsSeq, EmptyIsSeq DEF SpeakersOf
<1>4. QED
  BY <1>2, <1>3 DEF CallsSaid, Gather, Gathers

LEMMA SaidConcat ==
  ASSUME NEW told, NEW s, IsSeq(s), NEW t, IsSeq(t)
  PROVE  CallsSaid(told, s \o t) = CallsSaid(told, s) \o CallsSaid(told, t)
<1> DEFINE S == ToSet(s) \cup ToSet(t)
           f == SpeakersOf(told, S)
           u == s \o t
<1>1. IsSeq(u) /\ ToSet(u) = S
  BY Concat, MembersOfConcat
<1>2. CallsSaid(told, s) = Gather(f, s) /\ Gathers(f, s)
  BY SaidIs
<1>3. CallsSaid(told, t) = Gather(f, t) /\ Gathers(f, t)
  BY SaidIs
<1>4. CallsSaid(told, u) = Gather(f, u)
  <2> HIDE DEF u
  <2> QED
    BY <1>1, SaidIs
<1> HIDE DEF f
<1>5. Gather(f, s \o t) = Gather(f, s) \o Gather(f, t)
  BY <1>2, <1>3, GatherConcat
<1>6. QED
  BY <1>2, <1>3, <1>4, <1>5

----------------------------------------------------------------------------
(* Internal messages, what is read into them and what calls nothing. *)

(* Only assistants call, and they give no results. *)
InternalOK(im) ==
  /\ IsSeq(im.content) /\ \A p \in ToSet(im.content) : p.kind \in {"text", "image"}
  /\ IsSeq(im.calls) /\ \A p \in ToSet(im.calls) : p.kind \in {"call"}
  /\ IsSeq(im.result) /\ \A p \in ToSet(im.result) : p.kind \in {"result"}
  /\ im.calls # <<>> => im.role = "assistant" /\ im.result = <<>>

LEMMA MessageIs ==
  ASSUME NEW role, NEW pieces
  PROVE  LET m == Message(role, pieces) IN m.role = role /\ m.pieces = pieces
BY DEF Message

LEMMA MadeByNone ==
  ASSUME NEW told
  PROVE  MadeBy(told, <<>>) = <<>>
<1>1. IsSeq(<<>>) /\ Only({"call"}, <<>>) = <<>>
  BY EmptyIsSeq, OnlyEmpty
<1>2. QED
  BY <1>1, MadeByIs

(* What a call says when it is written with other arguments. *)
Rewords(told, calls, others) ==
  /\ Len(others) = Len(calls)
  /\ \A i \in 1..Len(calls) :
       /\ others[i].name = calls[i].name
       /\ others[i].args = IF calls[i].args = "broken" THEN told ELSE calls[i].args

(* The texts of an assistant that calls, for Gemini. *)
LEMMA NotEmptyTexts ==
  ASSUME NEW content, IsSeq(content)
  PROVE  LET texts == Where(LAMBDA p : p.kind = "text" /\ p.text # <<>>, content)
         IN IsSeq(texts) /\ ToSet(texts) \subseteq ToSet(content)
<1> DEFINE S == ToSet(content)
           f == [p \in S |-> IF p.kind = "text" /\ p.text # <<>> THEN <<p>> ELSE <<>>]
           texts == Where(LAMBDA p : p.kind = "text" /\ p.text # <<>>, content)
<1>1. \A i \in 1..Len(content) : content[i] \in S
  BY ElementsOf
<1>2. Each(LAMBDA e : IF e.kind = "text" /\ e.text # <<>> THEN <<e>> ELSE <<>>, content)
        = Through(f, content)
  BY <1>1 DEF Each, Through
<1>3. texts = Gather(f, content)
  BY <1>2 DEF Where, Gather
<1>4. ASSUME NEW p \in S PROVE IsSeq(f[p]) /\ ToSet(f[p]) \subseteq S
  <2>1. IsSeq(<<>>) /\ IsSeq(<<p>>) /\ ToSet(<<>>) = {} /\ ToSet(<<p>>) = {p}
    BY EmptyIsSeq, SingleIsSeq, Members
  <2>2. f[p] = <<p>> \/ f[p] = <<>>
    OBVIOUS
  <2> HIDE DEF f
  <2>3. QED
    BY <1>4, <2>1, <2>2
<1> HIDE DEF f, texts
<1>5. Gathers(f, content)
  BY <1>1, <1>4 DEF Gathers
<1>6. \A i \in 1..Len(content) : ToSet(f[content[i]]) \subseteq S
  BY <1>1, <1>4
<1>7. IsSeq(Gather(f, content)) /\ ToSet(Gather(f, content)) \subseteq S
  BY <1>5, <1>6, GathersAll, GatherElements
<1>8. QED
  BY <1>3, <1>7 DEF texts

(* The images without a url are left out, and nothing else. *)
LEMMA WithUrlsIs ==
  ASSUME NEW content, IsSeq(content)
  PROVE  LET f == [p \in ToSet(content) |-> IF p # Image(<<>>) THEN <<p>> ELSE <<>>]
         IN /\ WithUrls(content) = Gather(f, content) /\ Gathers(f, content)
            /\ IsSeq(WithUrls(content)) /\ ToSet(WithUrls(content)) \subseteq ToSet(content)
            /\ Image(<<>>) \notin ToSet(content) => WithUrls(content) = content
<1> DEFINE S == ToSet(content)
           f == [p \in S |-> IF p # Image(<<>>) THEN <<p>> ELSE <<>>]
           same == [p \in S |-> p]
<1>1. \A i \in 1..Len(content) : content[i] \in S
  BY ElementsOf
<1>2. Each(LAMBDA e : IF e # Image(<<>>) THEN <<e>> ELSE <<>>, content) = Through(f, content)
  BY <1>1 DEF Each, Through
<1>3. WithUrls(content) = Gather(f, content)
  BY <1>2 DEF WithUrls, Where, Gather
<1>4. ASSUME NEW p \in S PROVE IsSeq(f[p]) /\ ToSet(f[p]) \subseteq S
  <2>1. IsSeq(<<>>) /\ IsSeq(<<p>>) /\ ToSet(<<>>) = {} /\ ToSet(<<p>>) = {p}
    BY EmptyIsSeq, SingleIsSeq, Members
  <2>2. f[p] = <<p>> \/ f[p] = <<>>
    OBVIOUS
  <2> HIDE DEF f
  <2>3. QED
    BY <1>4, <2>1, <2>2
<1>5. ASSUME Image(<<>>) \notin S PROVE Singly(same, f, content)
  BY <1>1, <1>5 DEF Singly
<1>6. \A i \in 1..Len(content) : same[content[i]] = content[i]
  BY <1>1
<1> HIDE DEF f, same
<1>7. Gathers(f, content)
  BY <1>1, <1>4 DEF Gathers
<1>8. \A i \in 1..Len(content) : ToSet(f[content[i]]) \subseteq S
  BY <1>1, <1>4
<1>9. IsSeq(Gather(f, content)) /\ ToSet(Gather(f, content)) \subseteq S
  BY <1>7, <1>8, GathersAll, GatherElements
<1>10. Image(<<>>) \notin S => WithUrls(content) = content
  <2>1. Through(same, content) = content
    <3>1. /\ IsSeq(Through(same, content)) /\ Len(Through(same, content)) = Len(content)
          /\ \A i \in 1..Len(content) : Through(same, content)[i] = same[content[i]]
      BY ThroughIs
    <3>2. QED
      BY <1>6, <3>1, SameElements
  <2>2. QED
    BY <1>3, <1>5, <2>1, GatherSingles
<1>11. QED
  BY <1>3, <1>7, <1>9, <1>10 DEF f

(* What Gemini is told of a content is of the content, or an empty text. *)
LEMMA PartsAre ==
  ASSUME NEW content, IsSeq(content)
  PROVE  /\ IsSeq(GeminiParts(content))
         /\ \A p \in ToSet(GeminiParts(content)) : p \in ToSet(content) \/ p.kind = "text"
<1> DEFINE empty == Text(<<>>)
           urls == WithUrls(content)
<1>1. IsSeq(urls) /\ ToSet(urls) \subseteq ToSet(content)
  BY WithUrlsIs
<1>2. empty.kind = "text"
  BY PieceIs
<1>3. GeminiParts(content) = IF urls = <<>> THEN <<empty>> ELSE urls
  BY Zenon DEF GeminiParts, OrEmptyText
<1> HIDE DEF empty, urls
<1>4. IsSeq(<<empty>>) /\ ToSet(<<empty>>) = {empty}
  BY SingleIsSeq, Members
<1>5. QED
  BY <1>1, <1>2, <1>3, <1>4

(* Its calls. *)
NoArgs == "{}"

CallFor(c)     == Call(<<>>, c.name, IF c.args = "broken" THEN NoArgs ELSE c.args)

CallsFor(calls) == [i \in 1..Len(calls) |-> CallFor(calls[i])]

LEMMA CallsForGemini ==
  ASSUME NEW calls, IsSeq(calls)
  PROVE  /\ IsSeq(CallsFor(calls)) /\ \A p \in ToSet(CallsFor(calls)) : p.kind \in {"call"}
         /\ Rewords(NoArgs, calls, CallsFor(calls))
<1> DEFINE n == Len(calls)
           others == CallsFor(calls)
<1>1. n \in Nat
  BY ElementsOf
<1>2. DOMAIN others = 1..n /\ others = [i \in 1..n |-> others[i]]
      /\ \A i \in 1..n : others[i] = CallFor(calls[i])
  BY DEF CallsFor
<1> HIDE DEF n, others
<1>3. IsSeq(others) /\ Len(others) = n /\ \A e \in ToSet(others) : \E i \in 1..n : e = others[i]
  BY <1>1, <1>2, SeqGiven
<1>4. ASSUME NEW i \in 1..n
      PROVE  /\ others[i].kind \in {"call"} /\ others[i].name = calls[i].name
             /\ others[i].args = IF calls[i].args = "broken" THEN NoArgs ELSE calls[i].args
  BY <1>2, PieceIs DEF CallFor
<1>5. QED
  BY <1>3, <1>4 DEF Rewords, others, n

(* The calls of internal messages. *)
CallersOf(told, S) == [im \in S |-> MadeBy(told, im.calls)]

(* The messages of all roles but some. *)
Keep(roles, S) == [im \in S |-> IF im.role \notin roles THEN <<im>> ELSE <<>>]

LEMMA SilentIs ==
  ASSUME NEW roles, NEW s, IsSeq(s)
  PROVE  /\ Silent(roles, s) = Gather(Keep(roles, ToSet(s)), s)
         /\ IsSeq(Silent(roles, s)) /\ ToSet(Silent(roles, s)) \subseteq ToSet(s)
         /\ roles = {} => Silent(roles, s) = s
<1> DEFINE S == ToSet(s)
           f == Keep(roles, S)
           same == [im \in S |-> im]
<1>1. \A i \in 1..Len(s) : s[i] \in S
  BY ElementsOf
<1>2. Each(LAMBDA e : IF e.role \notin roles THEN <<e>> ELSE <<>>, s) = Through(f, s)
  BY <1>1 DEF Each, Through, Keep
<1>3. Silent(roles, s) = Gather(f, s)
  BY <1>2 DEF Silent, Where, Gather
<1>4. ASSUME NEW im \in S PROVE IsSeq(f[im]) /\ ToSet(f[im]) \subseteq S
  <2>1. IsSeq(<<>>) /\ IsSeq(<<im>>) /\ ToSet(<<>>) = {} /\ ToSet(<<im>>) = {im}
    BY EmptyIsSeq, SingleIsSeq, Members
  <2>2. f[im] = <<im>> \/ f[im] = <<>>
    BY DEF Keep
  <2> HIDE DEF f
  <2>3. QED
    BY <1>4, <2>1, <2>2
<1>5. roles = {} => Singly(same, f, s)
  BY <1>1 DEF Singly, Keep
<1>6. \A i \in 1..Len(s) : same[s[i]] = s[i]
  BY <1>1
<1> HIDE DEF f, same
<1>7. Gathers(f, s)
  BY <1>1, <1>4 DEF Gathers
<1>8. \A i \in 1..Len(s) : ToSet(f[s[i]]) \subseteq S
  BY <1>1, <1>4
<1>9. IsSeq(Gather(f, s)) /\ ToSet(Gather(f, s)) \subseteq S
  BY <1>7, <1>8, GathersAll, GatherElements
<1>10. roles = {} => Gather(f, s) = s
  <2>1. Through(same, s) = s
    <3>1. /\ IsSeq(Through(same, s)) /\ Len(Through(same, s)) = Len(s)
          /\ \A i \in 1..Len(s) : Through(same, s)[i] = same[s[i]]
      BY ThroughIs
    <3>2. QED
      BY <1>6, <3>1, SameElements
  <2>2. QED
    BY <1>5, <2>1, GatherSingles
<1>11. QED
  BY <1>3, <1>9, <1>10 DEF f

(* What a piece of a request may be. *)
AnyPiece(p) ==
  \/ PieceOK(p)
  \/ \E what : p = Image(what) \/ p = Inline(what)
  \/ \E id, name, text, listed : p = Result(id, name, text, listed)

LEMMA OtherPieces ==
  /\ \A what : Image(what).kind = "image" /\ Inline(what).kind = "inline"
  /\ \A id, name, text, listed :
       LET r == Result(id, name, text, listed)
       IN r.kind = "result" /\ \A other : [r EXCEPT !.text = other].kind = "result"
  /\ \A id, name, args, other :
       LET c == [Call(id, name, args) EXCEPT !.id = other]
       IN c.kind = "call" /\ c.name = name /\ c.args = args
BY DEF Image, Inline, Result, Call

LEMMA LastOfIs ==
  ASSUME NEW s, IsSeq(s)
  PROVE  /\ IsSeq(LastOf(s)) /\ ToSet(LastOf(s)) \subseteq ToSet(s)
         /\ s = <<>> => LastOf(s) = <<>>
<1>1. CASE s = <<>>
  BY <1>1 DEF LastOf
<1>2. CASE s # <<>>
  <2> DEFINE e == s[Len(s)]
  <2>1. LastOf(s) = <<e>>
    BY <1>2 DEF LastOf, Last
  <2>2. e \in ToSet(s)
    <3>1. Len(s) \in 1..Len(s)
      <4>1. s \in Seq(ToSet(s)) /\ Len(s) \in Nat
        BY ElementsOf DEF IsSeq
      <4>2. Len(s) # 0
        BY <1>2, <4>1, EmptySeq
      <4>3. QED
        BY <4>1, <4>2
    <3>2. QED
      BY <3>1, ElementsOf
  <2>3. IsSeq(<<e>>) /\ ToSet(<<e>>) = {e}
    BY SingleIsSeq, Members
  <2>4. QED
    BY <1>2, <2>1, <2>2, <2>3
<1>3. QED
  BY <1>1, <1>2

(* How a message is read: an internal one that holds the same calls.       *)
ReadAs(m, im) == InternalOK(im) /\ \A told : MadeBy(told, im.calls) = MadeBy(told, m.pieces)

LEMMA InternalIs ==
  ASSUME NEW role, NEW content, NEW calls, NEW result
  PROVE  LET im == Internal(role, content, calls, result)
         IN im.role = role /\ im.content = content /\ im.calls = calls /\ im.result = result
BY DEF Internal

(* What the readers take of the pieces. *)
LEMMA PiecesRead ==
  ASSUME NEW pieces, IsSeq(pieces)
  PROVE  LET calls   == Only({"call"}, pieces)
             results == Only({"result"}, pieces)
         IN /\ \A kinds \in {{"text"}, {"text", "image"}} :
                 /\ IsSeq(Only(kinds, pieces))
                 /\ \A p \in ToSet(Only(kinds, pieces)) : p.kind \in {"text", "image"}
            /\ IsSeq(calls) /\ \A p \in ToSet(calls) : p \in ToSet(pieces) /\ p.kind \in {"call"}
            /\ IsSeq(results) /\ \A p \in ToSet(results) : p \in ToSet(pieces) /\ p.kind \in {"result"}
            /\ \A told : MadeBy(told, calls) = MadeBy(told, pieces)
<1> DEFINE calls == Only({"call"}, pieces)
           results == Only({"result"}, pieces)
<1>1. ASSUME NEW kinds \in {{"text"}, {"text", "image"}}
      PROVE  /\ IsSeq(Only(kinds, pieces))
             /\ \A p \in ToSet(Only(kinds, pieces)) : p.kind \in {"text", "image"}
  <2>1. kinds \subseteq {"text", "image"}
    OBVIOUS
  <2>2. /\ IsSeq(Only(kinds, pieces))
        /\ \A p \in ToSet(Only(kinds, pieces)) : p \in ToSet(pieces) /\ p.kind \in kinds
    BY OnlyElements
  <2>3. QED
    BY <2>1, <2>2
<1>2. IsSeq(calls) /\ \A p \in ToSet(calls) : p \in ToSet(pieces) /\ p.kind \in {"call"}
  BY OnlyElements
<1>3. IsSeq(results) /\ \A p \in ToSet(results) : p \in ToSet(pieces) /\ p.kind \in {"result"}
  BY OnlyElements
<1>4. Only({"call"}, calls) = calls
  <2> HIDE DEF calls
  <2> QED
    BY <1>2, OnlyAll
<1>5. ASSUME NEW told PROVE MadeBy(told, calls) = MadeBy(told, pieces)
  BY <1>4 DEF MadeBy
<1> HIDE DEF calls, results
<1>6. QED
  BY <1>1, <1>2, <1>3, <1>5 DEF calls, results

(* The images that a message holds itself are read as images without a url.*)
AnthropicContent(m) ==
  Each(LAMBDA p : IF p.kind = "inline" THEN Image(<<>>) ELSE p,
       Only({"text", "image", "inline"}, m.pieces))

LEMMA AnthropicContentIs ==
  ASSUME NEW m, IsSeq(m.pieces)
  PROVE  /\ IsSeq(AnthropicContent(m))
         /\ \A p \in ToSet(AnthropicContent(m)) : p.kind \in {"text", "image"}
<1> DEFINE s == Only({"text", "image", "inline"}, m.pieces)
           read == [p \in ToSet(s) |-> IF p.kind = "inline" THEN Image(<<>>) ELSE p]
           t == Through(read, s)
<1>1. IsSeq(s) /\ \A p \in ToSet(s) : p.kind \in {"text", "image", "inline"}
  BY OnlyElements
<1> HIDE DEF s
<1>2. Each(LAMBDA p : IF p.kind = "inline" THEN Image(<<>>) ELSE p, s) = t
  BY <1>1, ElementsOf DEF Each, Through
<1>3. \A p \in ToSet(s) : read[p].kind \in {"text", "image"}
  BY <1>1, OtherPieces
<1> HIDE DEF read
<1>4. /\ IsSeq(t) /\ Len(t) = Len(s)
      /\ \A i \in 1..Len(s) : t[i] = read[s[i]]
  BY <1>1, ThroughIs
<1> HIDE DEF t
<1>5. \A p \in ToSet(t) : p.kind \in {"text", "image"}
  BY <1>1, <1>3, <1>4, ElementsOf
<1>6. QED
  BY <1>2, <1>4, <1>5 DEF AnthropicContent, s

(* The calls of internal messages, the first of which are the system's. *)
ReadThrough(u, messages) ==
  Len(u) = Len(messages) /\ \A i \in 1..Len(messages) : ReadAs(messages[i], u[i])

Wordless(first) == \A im \in ToSet(first) : InternalOK(im) /\ im.calls = <<>>

LEMMA CallersAlike ==
  ASSUME NEW first, IsSeq(first), Wordless(first),
         NEW u, IsSeq(u), NEW messages, IsSeq(messages), ReadThrough(u, messages),
         \A m \in ToSet(messages) : IsSeq(m.pieces)
  PROVE  LET s == first \o u
         IN /\ IsSeq(s) /\ \A im \in ToSet(s) : InternalOK(im)
            /\ \A told : Gather(CallersOf(told, ToSet(s)), s) = CallsHeld(told, messages)
<1> DEFINE s == first \o u
           S == ToSet(first) \cup ToSet(u)
<1>1. IsSeq(s) /\ ToSet(s) = S
  BY Concat, MembersOfConcat
<1>2. \A im \in ToSet(u) : InternalOK(im)
  BY ElementsOf DEF ReadThrough, ReadAs
<1>3. \A im \in S : InternalOK(im)
  BY <1>2 DEF Wordless
<1> HIDE DEF S, s
<1>4. ASSUME NEW told
      PROVE  Gather(CallersOf(told, S), first \o u) = CallsHeld(told, messages)
  <2> DEFINE f == CallersOf(told, S)
             T == ToSet(messages)
             g == MakersOf(told, T)
  <2>1. ASSUME NEW im \in S PROVE f[im] = MadeBy(told, im.calls) /\ IsSeq(f[im])
    <3>1. f[im] = MadeBy(told, im.calls)
      BY DEF CallersOf
    <3>2. IsSeq(im.calls)
      BY <1>3 DEF InternalOK
    <3>3. QED
      BY <3>1, <3>2, MadeByIs
  <2>2. ASSUME NEW i \in 1..Len(first) PROVE first[i] \in S /\ f[first[i]] = <<>>
    <3>1. first[i] \in ToSet(first)
      BY ElementsOf
    <3>2. first[i] \in S /\ first[i].calls = <<>>
      BY <3>1 DEF Wordless, S
    <3>3. QED
      BY <2>1, <3>2, MadeByNone
  <2>3. ASSUME NEW i \in 1..Len(u) PROVE u[i] \in S /\ IsSeq(f[u[i]]) /\ f[u[i]] = g[messages[i]]
    <3>1. u[i] \in S
      BY ElementsOf DEF S
    <3>2. i \in 1..Len(messages) /\ ReadAs(messages[i], u[i])
      BY DEF ReadThrough
    <3>3. messages[i] \in T
      BY <3>2, ElementsOf
    <3>4. g[messages[i]] = MadeBy(told, messages[i].pieces)
      BY <3>3 DEF MakersOf
    <3>5. MadeBy(told, u[i].calls) = MadeBy(told, messages[i].pieces)
      BY <3>2 DEF ReadAs
    <3>6. QED
      BY <2>1, <3>1, <3>4, <3>5
  <2>4. CallsHeld(told, messages) = Gather(g, messages)
    BY HeldIs
  <2> HIDE DEF f, g
  <2>5. Gather(f, first) = <<>> /\ Gathers(f, first)
    BY <2>2, GatherNothing
  <2>6. Gathers(f, u)
    BY <2>3 DEF Gathers
  <2>7. Through(f, u) = Through(g, messages)
    BY <2>3 DEF Through, ReadThrough
  <2>8. Gather(f, first \o u) = Gather(f, first) \o Gather(f, u)
    BY <2>5, <2>6, GatherConcat
  <2>9. IsSeq(Gather(f, u))
    BY <2>6, GathersAll
  <2>10. Gather(f, u) = Gather(g, messages)
    BY <2>7 DEF Gather
  <2>11. Gather(f, first \o u) = Gather(f, u)
    BY <2>5, <2>8, <2>9, Concat
  <2>12. QED
    BY <2>4, <2>10, <2>11 DEF f
<1>5. QED
  BY <1>1, <1>3, <1>4 DEF s

(* The system's texts are read into one message, which calls nothing.      *)
LEMMA SystemIsWordless ==
  ASSUME NEW texts, IsSeq(texts)
  PROVE  IsSeq(SystemRead(texts)) /\ Wordless(SystemRead(texts))
<1> DEFINE content == Each(Text, texts)
           n == Len(texts)
           im == Internal("system", content, <<>>, <<>>)
<1>1. n \in Nat
  BY ElementsOf
<1>2. DOMAIN content = 1..n /\ content = [i \in 1..n |-> content[i]]
      /\ \A i \in 1..n : content[i] = Text(texts[i])
  BY DEF Each
<1>3. im.content = content /\ im.calls = <<>> /\ im.result = <<>>
  BY InternalIs
<1>4. SystemRead(texts) = IF texts = <<>> THEN <<>> ELSE <<im>>
  BY DEF SystemRead
<1> HIDE DEF content, n, im
<1>5. IsSeq(content) /\ \A e \in ToSet(content) : \E i \in 1..n : e = content[i]
  BY <1>1, <1>2, SeqGiven
<1>6. \A p \in ToSet(content) : p.kind \in {"text", "image"}
  BY <1>2, <1>5, PieceIs
<1>7. InternalOK(im)
  BY <1>3, <1>5, <1>6, EmptyIsSeq, Members DEF InternalOK
<1>8. IsSeq(<<im>>) /\ ToSet(<<im>>) = {im} /\ IsSeq(<<>>) /\ ToSet(<<>>) = {}
  BY SingleIsSeq, EmptyIsSeq, Members
<1>9. CASE texts = <<>>
  BY <1>4, <1>8, <1>9 DEF Wordless
<1>10. CASE texts # <<>>
  BY <1>3, <1>4, <1>7, <1>8, <1>10 DEF Wordless
<1>11. QED
  BY <1>9, <1>10

(* Messages that call nothing. *)
QuietPieces(pieces) == IsSeq(pieces) /\ \A p \in ToSet(pieces) : AnyPiece(p) /\ p.kind # "call"

AllQuiet(messages) == IsSeq(messages) /\ \A m \in ToSet(messages) : QuietPieces(m.pieces)

LEMMA SaidNone ==
  ASSUME NEW sayings, IsSeq(sayings), \A s \in ToSet(sayings) : s.piece.kind # "call", NEW told
  PROVE  CallsSaid(told, sayings) = <<>>
<1> DEFINE S == ToSet(sayings)
           f == SpeakersOf(told, S)
<1>1. CallsSaid(told, sayings) = Gather(f, sayings)
  BY SaidIs
<1>2. \A i \in 1..Len(sayings) : sayings[i] \in S
  BY ElementsOf
<1>3. \A i \in 1..Len(sayings) : f[sayings[i]] = <<>>
  BY <1>2 DEF SpeakersOf
<1> HIDE DEF f
<1>4. QED
  BY <1>1, <1>3, GatherNothing

(* The texts of an opening call nothing. *)
LEMMA TextsAreQuiet ==
  ASSUME NEW texts, IsSeq(texts)
  PROVE  QuietPieces(Each(Text, texts))
<1> DEFINE content == Each(Text, texts)
           n == Len(texts)
<1>1. n \in Nat
  BY ElementsOf
<1>2. DOMAIN content = 1..n /\ content = [i \in 1..n |-> content[i]]
      /\ \A i \in 1..n : content[i] = Text(texts[i])
  BY DEF Each
<1> HIDE DEF content, n
<1>3. IsSeq(content) /\ \A e \in ToSet(content) : \E i \in 1..n : e = content[i]
  BY <1>1, <1>2, SeqGiven
<1>4. \A text : AnyPiece(Text(text)) /\ Text(text).kind = "text"
  BY PieceIs DEF AnyPiece, PieceOK
<1>5. \A p \in ToSet(content) : AnyPiece(p) /\ p.kind # "call"
  BY <1>2, <1>3, <1>4
<1>6. QED
  BY <1>3, <1>5 DEF QuietPieces, content

LEMMA QuietOne ==
  ASSUME NEW role, NEW pieces, QuietPieces(pieces)
  PROVE  AllQuiet(<<Message(role, pieces)>>)
<1> DEFINE m == Message(role, pieces)
<1>1. m.pieces = pieces
  BY MessageIs
<1> HIDE DEF m
<1>2. IsSeq(<<m>>) /\ ToSet(<<m>>) = {m}
  BY SingleIsSeq, Members
<1>3. AllQuiet(<<m>>)
  BY <1>1, <1>2 DEF AllQuiet
<1>4. QED
  BY <1>3 DEF m

(* The results of tools call nothing. *)
LEMMA ResultsQuiet ==
  ASSUME NEW calls, IsSeq(calls), NEW results, DOMAIN results = 1..Len(calls),
         results = [i \in 1..Len(calls) |-> results[i]],
         \A i \in 1..Len(calls) :
           \E id, name, text, listed : results[i] = Result(id, name, text, listed)
  PROVE  IsSeq(results) /\ \A p \in ToSet(results) : AnyPiece(p) /\ p.kind # "call"
<1>1. Len(calls) \in Nat
  BY ElementsOf
<1>2. IsSeq(results) /\ \A e \in ToSet(results) : \E i \in 1..Len(calls) : e = results[i]
  BY <1>1, SeqGiven
<1>3. \A p \in ToSet(results) : \E id, name, text, listed : p = Result(id, name, text, listed)
  BY <1>2
<1>4. QED
  BY <1>2, <1>3, OtherPieces DEF AnyPiece

(* The calls of an answer, as they are given and as they were made.        *)
LEMMA MadeAsKept ==
  ASSUME NEW s, IsSeq(s), NEW t, IsSeq(t), NEW x, CallsOf(x, s) = CallsOf("broken", t), NEW told
  PROVE  MadeBy(told, t) = MadeBy(IF x = "broken" THEN told ELSE x, s)
<1> DEFINE a == Only({"call"}, s)
           b == Only({"call"}, t)
           other == IF x = "broken" THEN told ELSE x
<1>1. /\ CallsOf(x, s) = [i \in 1..Len(a) |-> CallKept(x, a[i])]
      /\ CallsOf("broken", t) = [i \in 1..Len(b) |-> CallKept("broken", b[i])]
  BY DEF CallsOf, Each
<1>2. /\ MadeBy(told, t) = [i \in 1..Len(b) |-> Made(told, b[i])]
      /\ MadeBy(other, s) = [i \in 1..Len(a) |-> Made(other, a[i])]
  BY DEF MadeBy, Each
<1>3. IsSeq(a) /\ IsSeq(b)
  BY OnlyElements
<1> HIDE DEF a, b
<1>4. Len(a) \in Nat /\ Len(b) \in Nat
  BY <1>3, ElementsOf
<1> DEFINE calls == [i \in 1..Len(a) |-> CallKept(x, a[i])]
           others == [i \in 1..Len(b) |-> CallKept("broken", b[i])]
<1>5. calls = others /\ DOMAIN calls = 1..Len(a) /\ DOMAIN others = 1..Len(b)
  BY <1>1
<1>6. 1..Len(a) = 1..Len(b)
  <2> HIDE DEF calls, others
  <2> QED
    BY <1>5
<1>7. ASSUME NEW i \in 1..Len(b)
      PROVE  Made(told, b[i]) = Made(other, a[i])
  <2>1. calls[i] = CallKept(x, a[i]) /\ others[i] = CallKept("broken", b[i])
    BY <1>6
  <2> HIDE DEF calls, others
  <2> DEFINE p == a[i]
             q == b[i]
  <2>2. CallKept(x, p) = CallKept("broken", q)
    BY <1>5, <2>1
  <2> HIDE DEF p, q, other
  <2>3. p.name = q.name /\ q.args = IF p.args = "broken" THEN x ELSE p.args
    BY <2>2 DEF CallKept
  <2>4. (IF q.args = "broken" THEN told ELSE q.args) = IF p.args = "broken" THEN other ELSE p.args
    BY <2>3 DEF other
  <2>5. QED
    BY <2>3, <2>4 DEF Made, p, q
<1>8. QED
  BY <1>2, <1>6, <1>7

LEMMA MadeUnbroken ==
  ASSUME NEW pieces, PiecesOK(pieces), NoneBroken(pieces), NEW told, NEW other
  PROVE  MadeBy(told, pieces) = MadeBy(other, pieces)
<1> DEFINE calls == Only({"call"}, pieces)
<1>1. IsSeq(calls) /\ \A p \in ToSet(calls) : p \in ToSet(pieces) /\ p.kind \in {"call"}
  BY OnlyElements DEF PiecesOK
<1>2. /\ MadeBy(told, pieces) = [i \in 1..Len(calls) |-> Made(told, calls[i])]
      /\ MadeBy(other, pieces) = [i \in 1..Len(calls) |-> Made(other, calls[i])]
  BY DEF MadeBy, Each
<1> HIDE DEF calls
<1>3. \A i \in 1..Len(calls) : calls[i].args # "broken"
  BY <1>1, ElementsOf DEF NoneBroken
<1>4. \A i \in 1..Len(calls) : Made(told, calls[i]) = Made(other, calls[i])
  BY <1>3 DEF Made
<1>5. QED
  BY <1>2, <1>4

(* To ask for a stream or for none leaves the messages as they are. *)
LEMMA WrittenMessages ==
  ASSUME NEW format \in Formats, NEW ir, NEW r, r = FromInternal(format, ir)
  PROVE  \A w : [r EXCEPT !.stream = w].messages = r.messages
<1>1. ASSUME NEW system, NEW messages, NEW stream, NEW choice, NEW stop, NEW max,
             NEW q, q = Request(system, messages, stream, choice, stop, max)
      PROVE  \A w : [q EXCEPT !.stream = w].messages = q.messages
  BY <1>1 DEF Request
<1>2. CASE format = "openai_chat"
  <2>1. \E system, messages :
          r = Request(system, messages, ir.stream, OpenAIChoice(ir.choice), ir.stop, ir.max)
    BY <1>2 DEF FromInternal, InternalToOpenAIChat
  <2>2. QED
    BY <1>1, <2>1
<1>3. CASE format = "openai_responses"
  <2>1. \E system, messages, choice :
          r = Request(system, messages, ir.stream, choice, <<>>, ir.max)
    BY <1>3 DEF FromInternal, InternalToResponses
  <2>2. QED
    BY <1>1, <2>1
<1>4. CASE format = "anthropic"
  <2> DEFINE max == IF ir.max = 0 THEN 4096 ELSE ir.max
  <2>1. \E system, messages :
          r = Request(system, messages, ir.stream, AnthropicChoice(ir.choice), ir.stop, max)
    BY <1>4 DEF FromInternal, InternalToAnthropic
  <2>2. QED
    BY <1>1, <2>1
<1>5. CASE format = "gemini"
  <2>1. \E system, messages :
          r = Request(system, messages, ir.stream, GeminiChoice(ir.choice), ir.stop, ir.max)
    BY <1>5 DEF FromInternal, InternalToGemini
  <2>2. QED
    BY <1>1, <2>1
<1>6. QED
  BY <1>2, <1>3, <1>4, <1>5 DEF Formats, OpenAIFormats

----------------------------------------------------------------------------
(* Requests, message by message: what is made of the opening, and then     *)
(* each message of the conversation, read and written.                     *)

ReadOf(format, m, fresh) ==
  CASE format = "anthropic" -> FromAnthropicMessage(m)
    [] format = "gemini"    -> FromGeminiContent(m, fresh)
    [] OTHER                -> FromOpenAIMessage(m)

WriteOf(format, im) ==
  CASE format = "anthropic" -> ToAnthropicMessage(im)
    [] format = "gemini"    -> ToGeminiContent(im)
    [] OTHER                -> ToOpenAIMessage(im)

WriteAll(format, s) == [i \in 1..Len(s) |-> WriteOf(format, s[i])]

(* The roles that a writer leaves out of the messages. *)
LeftOut(format) ==
  CASE format = "openai_chat"      -> {}
    [] format = "openai_responses" -> {"system", "developer"}
    [] OTHER                       -> {"system"}

OpeningRead(format, o) ==
  IF format = "openai_chat" THEN Each(FromOpenAIMessage, o.messages) ELSE SystemRead(o.system)

LEMMA SilentOne ==
  ASSUME NEW roles, NEW s, IsSeq(s), NEW t, IsSeq(t), \A im \in ToSet(t) : im.role \notin roles
  PROVE  Silent(roles, s \o t) = Silent(roles, s) \o t
<1> DEFINE S == ToSet(s) \cup ToSet(t)
           f == Keep(roles, S)
           same == [im \in S |-> im]
<1>1. ASSUME NEW u, IsSeq(u), ToSet(u) \subseteq S
      PROVE  Silent(roles, u) = Gather(f, u) /\ Gathers(f, u)
  <2>1. \A i \in 1..Len(u) : u[i] \in S
    BY <1>1, ElementsOf
  <2>2. Each(LAMBDA e : IF e.role \notin roles THEN <<e>> ELSE <<>>, u) = Through(f, u)
    BY <2>1 DEF Each, Through, Keep
  <2>3. \A i \in 1..Len(u) : IsSeq(f[u[i]])
    BY <2>1, SingleIsSeq, EmptyIsSeq DEF Keep
  <2>4. QED
    BY <1>1, <2>2, <2>3 DEF Silent, Where, Gather, Gathers
<1>2. \A i \in 1..Len(t) : t[i] \in S /\ t[i].role \notin roles
  BY ElementsOf
<1>3. Singly(same, f, t)
  BY <1>2 DEF Singly, Keep
<1>4. \A i \in 1..Len(t) : same[t[i]] = t[i]
  BY <1>2
<1> HIDE DEF same, f
<1>5. Gather(f, t) = Through(same, t)
  BY <1>3, GatherSingles
<1>6. Through(same, t) = t
  <2>1. /\ IsSeq(Through(same, t)) /\ Len(Through(same, t)) = Len(t)
        /\ \A i \in 1..Len(t) : Through(same, t)[i] = same[t[i]]
    BY ThroughIs
  <2>2. QED
    BY <1>4, <2>1, SameElements
<1>7. Gather(f, s \o t) = Gather(f, s) \o Gather(f, t)
  <2>1. Gathers(f, s) /\ Gathers(f, t)
    BY <1>1
  <2>2. QED
    BY <2>1, GatherConcat
<1> DEFINE u == s \o t
<1>8. Silent(roles, u) = Gather(f, u)
  <2>1. IsSeq(u) /\ ToSet(u) \subseteq S
    BY Concat, MembersOfConcat
  <2> HIDE DEF u
  <2>2. QED
    BY <1>1, <2>1
<1>9. Silent(roles, s) = Gather(f, s)
  BY <1>1
<1>10. QED
  BY <1>5, <1>6, <1>7, <1>8, <1>9

LEMMA WriteAllIs ==
  ASSUME NEW format, NEW s, IsSeq(s)
  PROVE  /\ IsSeq(WriteAll(format, s)) /\ Len(WriteAll(format, s)) = Len(s)
         /\ \A i \in 1..Len(s) : WriteAll(format, s)[i] = WriteOf(format, s[i])
         /\ \A m \in ToSet(WriteAll(format, s)) : \E im \in ToSet(s) : m = WriteOf(format, im)
<1> DEFINE w == WriteAll(format, s)
           n == Len(s)
<1>1. n \in Nat /\ \A i \in 1..n : s[i] \in ToSet(s)
  BY ElementsOf
<1>2. DOMAIN w = 1..n /\ w = [i \in 1..n |-> w[i]] /\ \A i \in 1..n : w[i] = WriteOf(format, s[i])
  BY DEF WriteAll
<1> HIDE DEF w, n
<1>3. IsSeq(w) /\ Len(w) = n /\ \A e \in ToSet(w) : \E i \in 1..n : e = w[i]
  BY <1>1, <1>2, SeqGiven
<1>4. QED
  BY <1>1, <1>2, <1>3 DEF w, n

LEMMA WriteAllConcat ==
  ASSUME NEW format, NEW s, IsSeq(s), NEW t, IsSeq(t)
  PROVE  WriteAll(format, s \o t) = WriteAll(format, s) \o WriteAll(format, t)
<1> DEFINE S == ToSet(s) \cup ToSet(t)
           f == [im \in S |-> WriteOf(format, im)]
<1>1. ASSUME NEW u, IsSeq(u), ToSet(u) \subseteq S
      PROVE  WriteAll(format, u) = Through(f, u)
  <2>1. \A i \in 1..Len(u) : u[i] \in S
    BY <1>1, ElementsOf
  <2>2. QED
    BY <2>1 DEF WriteAll, Through
<1> HIDE DEF f
<1>2. Through(f, s \o t) = Through(f, s) \o Through(f, t)
  BY ThroughConcat
<1> DEFINE u == s \o t
<1>3. WriteAll(format, u) = Through(f, u)
  <2>1. IsSeq(u) /\ ToSet(u) \subseteq S
    BY Concat, MembersOfConcat
  <2> HIDE DEF u
  <2>2. QED
    BY <1>1, <2>1
<1>4. WriteAll(format, s) = Through(f, s) /\ WriteAll(format, t) = Through(f, t)
  BY <1>1
<1>5. QED
  BY <1>2, <1>3, <1>4

(* The messages that a writer makes. *)
LEMMA MessagesWritten ==
  ASSUME NEW format \in Formats, NEW ir, IsSeq(ir.messages)
  PROVE  FromInternal(format, ir).messages
           = WriteAll(format, Silent(LeftOut(format), ir.messages))
<1> DEFINE s == ir.messages
<1>1. \A system, messages, stream, choice, stop, max :
        Request(system, messages, stream, choice, stop, max).messages = messages
  BY DEF Request
<1>2. Silent({}, s) = s
  BY SilentIs
<1> HIDE DEF s
<1>3. CASE format = "openai_chat"
  <2>1. FromInternal(format, ir).messages = Each(ToOpenAIMessage, Silent({}, s))
    BY <1>1, <1>2, <1>3 DEF FromInternal, InternalToOpenAIChat, s
  <2>2. QED
    BY <1>3, <2>1 DEF Each, WriteAll, WriteOf, LeftOut, s
<1>4. CASE format = "openai_responses"
  <2>1. FromInternal(format, ir).messages = Each(ToOpenAIMessage, Silent({"system", "developer"}, s))
    BY <1>1, <1>4 DEF FromInternal, InternalToResponses, s
  <2>2. QED
    BY <1>4, <2>1 DEF Each, WriteAll, WriteOf, LeftOut, s
<1>5. CASE format = "anthropic"
  <2>1. FromInternal(format, ir).messages = Each(ToAnthropicMessage, Silent({"system"}, s))
    BY <1>1, <1>5 DEF FromInternal, InternalToAnthropic, s
  <2>2. QED
    BY <1>5, <2>1 DEF Each, WriteAll, WriteOf, LeftOut, s
<1>6. CASE format = "gemini"
  <2>1. FromInternal(format, ir).messages = Each(ToGeminiContent, Silent({"system"}, s))
    BY <1>1, <1>6 DEF FromInternal, InternalToGemini, s
  <2>2. QED
    BY <1>6, <2>1 DEF Each, WriteAll, WriteOf, LeftOut, s
<1>7. QED
  BY <1>3, <1>4, <1>5, <1>6 DEF Formats, OpenAIFormats

(* How the messages of a conversation are read: one by one, and none as    *)
(* the system's or the developer's.                                        *)
ReadEach(format, messages, u) ==
  /\ IsSeq(u) /\ Len(u) = Len(messages)
  /\ \A i \in 1..Len(messages) : \E fresh : u[i] = ReadOf(format, messages[i], fresh)

(* An opening: only clients of Chat open with messages. *)
OpensWith(format, o) == IsSeq(o.messages) /\ (format # "openai_chat" => o.messages = <<>>)

ReadAfter(format, first, messages, whole) ==
  \E u : ReadEach(format, messages, u) /\ whole = first \o u

LEMMA ReadIsOpeningAndRest ==
  ASSUME NEW format \in Formats, format # "openai_responses", NEW o, OpensWith(format, o),
         NEW messages, IsSeq(messages),
         NEW doc, doc.system = o.system, doc.messages = o.messages \o messages, NEW fresh
  PROVE  ReadAfter(format, OpeningRead(format, o), messages, ToInternal(format, doc, fresh).messages)
<1> DEFINE n == Len(messages)
           openAI    == Each(FromOpenAIMessage, messages)
           anthropic == Each(FromAnthropicMessage, messages)
           gemini    == [i \in 1..n |-> FromGeminiContent(messages[i], Append(fresh, i))]
<1>1. n \in Nat
  BY ElementsOf
<1>2. ASSUME NEW u, DOMAIN u = 1..n, u = [i \in 1..n |-> u[i]],
             \A i \in 1..n : \E f : u[i] = ReadOf(format, messages[i], f)
      PROVE  ReadEach(format, messages, u)
  <2> HIDE DEF n
  <2>1. IsSeq(u) /\ Len(u) = n
    BY <1>1, <1>2, SeqGiven
  <2>2. QED
    BY <1>2, <2>1 DEF ReadEach, n
<1>3. IsSeq(o.messages) /\ (format # "openai_chat" => doc.messages = messages)
  BY Concat DEF OpensWith
<1>4. CASE format = "openai_chat"
  <2> DEFINE first == o.messages
             both == first \o messages
             m == Len(first)
             before == Each(FromOpenAIMessage, first)
             whole == Each(FromOpenAIMessage, both)
  <2>1. ToInternal(format, doc, fresh).messages = whole /\ OpeningRead(format, o) = before
    BY <1>4 DEF ToInternal, OpenAIToInternal, OpeningRead
  <2>2. DOMAIN openAI = 1..n /\ openAI = [i \in 1..n |-> openAI[i]]
        /\ \A i \in 1..n : openAI[i] = ReadOf(format, messages[i], fresh)
    BY <1>4 DEF Each, ReadOf
  <2>3. whole = before \o openAI
    <3> DEFINE S == ToSet(first) \cup ToSet(messages)
               f == [x \in S |-> FromOpenAIMessage(x)]
    <3>1. IsSeq(both) /\ ToSet(both) = S
      BY <1>3, Concat, MembersOfConcat
    <3> HIDE DEF both
    <3>2. ASSUME NEW s, IsSeq(s), ToSet(s) \subseteq S PROVE Each(FromOpenAIMessage, s) = Through(f, s)
      <4>1. \A i \in 1..Len(s) : s[i] \in S
        BY <3>2, ElementsOf
      <4>2. QED
        BY <4>1 DEF Each, Through
    <3>3. before = Through(f, first) /\ openAI = Through(f, messages) /\ whole = Through(f, both)
      <4> HIDE DEF f
      <4> QED
        BY <1>3, <3>1, <3>2
    <3> HIDE DEF f, before, openAI, whole
    <3>4. Through(f, both) = Through(f, first) \o Through(f, messages)
      BY <1>3, ThroughConcat DEF both
    <3>5. QED
      BY <3>3, <3>4
  <2> HIDE DEF openAI, whole, before, n
  <2>4. ReadEach(format, messages, openAI)
    BY <1>2, <2>2
  <2>5. QED
    BY <2>1, <2>3, <2>4 DEF ReadAfter
<1>5. CASE format = "anthropic"
  <2>1. ToInternal(format, doc, fresh).messages = OpeningRead(format, o) \o anthropic
    BY <1>3, <1>5 DEF ToInternal, AnthropicToInternal, OpeningRead
  <2>2. DOMAIN anthropic = 1..n /\ anthropic = [i \in 1..n |-> anthropic[i]]
        /\ \A i \in 1..n : anthropic[i] = ReadOf(format, messages[i], fresh)
    BY <1>5 DEF Each, ReadOf
  <2> HIDE DEF anthropic, n
  <2>3. ReadEach(format, messages, anthropic)
    BY <1>2, <2>2
  <2>4. QED
    BY <2>1, <2>3 DEF ReadAfter
<1>6. CASE format = "gemini"
  <2>1. ToInternal(format, doc, fresh).messages = OpeningRead(format, o) \o gemini
    BY <1>3, <1>6 DEF ToInternal, GeminiToInternal, OpeningRead
  <2>2. DOMAIN gemini = 1..n /\ gemini = [i \in 1..n |-> gemini[i]]
        /\ \A i \in 1..n : gemini[i] = ReadOf(format, messages[i], Append(fresh, i))
    BY <1>6 DEF ReadOf
  <2> HIDE DEF gemini, n
  <2>3. ReadEach(format, messages, gemini)
    BY <1>2, <2>2
  <2>4. QED
    BY <2>1, <2>3 DEF ReadAfter
<1>7. QED
  BY <1>4, <1>5, <1>6 DEF Formats, OpenAIFormats

(* What the upstream gets of the messages. *)
WrittenEach(from, to, messages, post) ==
  /\ IsSeq(post) /\ Len(post) = Len(messages)
  /\ \A i \in 1..Len(messages) : \E fresh : post[i] = WriteOf(to, ReadOf(from, messages[i], fresh))

SpeakAs(roles, messages) == \A m \in ToSet(messages) : m.role \in roles

Converts(from, to, o, messages, written) ==
  \E post : /\ WrittenEach(from, to, messages, post)
            /\ written = WriteAll(to, Silent(LeftOut(to), OpeningRead(from, o))) \o post

(* Two functions that take the same steps. *)
StepsAlike(n, g, h) == \A k \in 1..n : g[k - 1] = h[k - 1] => g[k] = h[k]
EachAlike(n, g, h)  == \A k \in 0..n : g[k] = h[k]

LEMMA SameSteps ==
  ASSUME NEW n \in Nat, NEW g, NEW h, g[0] = h[0], StepsAlike(n, g, h)
  PROVE  EachAlike(n, g, h)
BY SameAlong DEF StepsAlike, EachAlike

(* What is gathered of one element is gathered of all. *)
LEMMA GatherHas ==
  ASSUME NEW f, NEW s, Gathers(f, s), NEW i \in 1..Len(s), NEW e \in ToSet(f[s[i]])
  PROVE  e \in ToSet(Gather(f, s))
<1> DEFINE n == Len(s)
<1>1. PICK h : GatherAlong(f, s, h)
  BY GatherSteps
<1>2. /\ \A k \in 0..n : IsSeq(h[k])
      /\ \A k \in 1..n : h[k] = h[k - 1] \o f[s[k]]
      /\ Gather(f, s) = h[n]
  BY <1>1 DEF GatherAlong
<1>3. n \in Nat /\ \A k \in 1..n : IsSeq(f[s[k]])
  BY ElementsOf DEF Gathers
<1> DEFINE missing == [k \in 0..n |-> IF k >= i /\ e \notin ToSet(h[k]) THEN 1 ELSE 0]
           none == [k \in 0..n |-> 0]
<1> HIDE DEF n
<1>4. missing[0] = none[0]
  BY <1>3 DEF n
<1>5. ASSUME NEW k \in 1..n, missing[k - 1] = none[k - 1]
      PROVE  missing[k] = none[k]
  <2>1. k - 1 \in 0..n /\ k \in 0..n /\ k \in Int /\ i \in Int
    BY <1>3 DEF n
  <2>2. ToSet(h[k]) = ToSet(h[k - 1]) \cup ToSet(f[s[k]])
    BY <1>2, <1>3, <2>1, MembersOfConcat
  <2>3. k - 1 >= i => e \in ToSet(h[k - 1])
    BY <1>5, <2>1
  <2>4. k = i => e \in ToSet(f[s[k]])
    OBVIOUS
  <2>5. k >= i => e \in ToSet(h[k])
    BY <2>1, <2>2, <2>3, <2>4
  <2>6. QED
    BY <2>1, <2>5
<1> HIDE DEF missing, none
<1>6. EachAlike(n, missing, none)
  <2>1. n \in Nat
    BY <1>3
  <2>2. StepsAlike(n, missing, none)
    BY <1>5 DEF StepsAlike
  <2>3. QED
    BY <1>4, <2>1, <2>2, SameSteps
<1>7. n \in 0..n /\ n >= i
  BY <1>3 DEF n
<1>8. e \in ToSet(h[n])
  BY <1>6, <1>7 DEF EachAlike, missing, none
<1>9. QED
  BY <1>2, <1>8

LEMMA OnlyHas ==
  ASSUME NEW kinds, NEW s, IsSeq(s), NEW p \in ToSet(s), p.kind \in kinds
  PROVE  p \in ToSet(Only(kinds, s))
<1> DEFINE f == OfKinds(kinds, ToSet(s))
<1>1. Only(kinds, s) = Gather(f, s) /\ Gathers(f, s)
  BY OnlyIs
<1>2. PICK i \in 1..Len(s) : p = s[i]
  BY ElementsOf
<1>3. f[p] = <<p>>
  BY PickIs
<1>4. p \in ToSet(f[s[i]])
  BY <1>2, <1>3, Members
<1> HIDE DEF f
<1>5. QED
  BY <1>1, <1>4, GatherHas

LEMMA ResultIs ==
  ASSUME NEW id, NEW name, NEW text, NEW listed
  PROVE  LET r == Result(id, name, text, listed)
         IN /\ r.kind = "result" /\ r.id = id /\ r.name = name /\ r.text = text /\ r.listed = listed
            /\ \A other : [r EXCEPT !.text = other] = Result(id, name, other, listed)
BY DEF Result

(* What is written of a message without results: texts and images, and     *)
(* then calls.                                                             *)
RoleFor(format, role) ==
  IF role = "assistant" THEN (IF format = "gemini" THEN "model" ELSE "assistant") ELSE "user"

TextsFor(format, im) ==
  IF format = "anthropic" /\ im.role = "assistant"
    THEN IF FirstText(im.content) = <<>> THEN <<>> ELSE <<Text(FirstText(im.content))>> ELSE
  IF format = "gemini"
    THEN IF im.calls = <<>> THEN GeminiParts(im.content)
         ELSE Where(LAMBDA p : p.kind = "text" /\ p.text # <<>>, im.content)
    ELSE IF format = "anthropic" THEN WithUrls(im.content) ELSE im.content

CallsIntoFormat(format, calls) == IF format = "gemini" THEN CallsFor(calls) ELSE calls

LEMMA TextsForAre ==
  ASSUME NEW format, NEW im, InternalOK(im)
  PROVE  /\ IsSeq(TextsFor(format, im))
         /\ \A p \in ToSet(TextsFor(format, im)) : p.kind \in {"text", "image"}
<1>1. IsSeq(im.content) /\ \A p \in ToSet(im.content) : p.kind \in {"text", "image"}
  BY DEF InternalOK
<1>2. ASSUME NEW text
      PROVE  IsSeq(<<Text(text)>>) /\ \A p \in ToSet(<<Text(text)>>) : p.kind \in {"text", "image"}
  <2> DEFINE t == Text(text)
  <2>1. t.kind = "text"
    BY PieceIs
  <2> HIDE DEF t
  <2>2. IsSeq(<<t>>) /\ ToSet(<<t>>) = {t}
    BY SingleIsSeq, Members
  <2>3. QED
    BY <2>1, <2>2 DEF t
<1>3. IsSeq(<<>>) /\ ToSet(<<>>) = {}
  BY EmptyIsSeq, Members
<1> DEFINE texts == Where(LAMBDA p : p.kind = "text" /\ p.text # <<>>, im.content)
<1>4. IsSeq(texts) /\ ToSet(texts) \subseteq ToSet(im.content)
  BY <1>1, NotEmptyTexts
<1>5. IsSeq(WithUrls(im.content)) /\ ToSet(WithUrls(im.content)) \subseteq ToSet(im.content)
  BY <1>1, WithUrlsIs
<1>6. \/ TextsFor(format, im) \in {<<>>, im.content, WithUrls(im.content), texts}
      \/ \E text : TextsFor(format, im) = <<Text(text)>>
  <2>1. GeminiParts(im.content) \in {<<Text(<<>>)>>, WithUrls(im.content)}
    BY Zenon DEF GeminiParts, OrEmptyText
  <2>2. QED
    BY <2>1, Zenon DEF TextsFor
<1> HIDE DEF texts
<1>7. QED
  BY <1>1, <1>2, <1>3, <1>4, <1>5, <1>6

LEMMA WrittenParts ==
  ASSUME NEW format \in Formats, NEW im, InternalOK(im), im.result = <<>>,
         im.role \in {"user", "assistant"}
  PROVE  WriteOf(format, im) =
           Message(RoleFor(format, im.role), TextsFor(format, im) \o CallsIntoFormat(format, im.calls))
<1> DEFINE texts == TextsFor(format, im)
           calls == CallsIntoFormat(format, im.calls)
           role  == RoleFor(format, im.role)
<1>1. /\ IsSeq(texts) /\ IsSeq(im.content) /\ IsSeq(im.calls)
      /\ im.calls # <<>> => im.role = "assistant"
  BY TextsForAre DEF InternalOK
<1>2. texts \o <<>> = texts
  <2> HIDE DEF texts
  <2> QED
    BY <1>1, Concat
<1>3. CallsFor(<<>>) = <<>>
  BY DEF CallsFor
<1>4. im.calls = <<>> => calls = <<>>
  BY <1>3 DEF CallsIntoFormat
<1>5. CASE format \in OpenAIFormats
  <2>1. WriteOf(format, im) = Message(im.role, im.content \o im.calls)
    BY <1>5, Zenon DEF WriteOf, ToOpenAIMessage, OpenAIFormats
  <2>2. texts = im.content /\ calls = im.calls /\ role = im.role
    BY <1>5 DEF TextsFor, CallsIntoFormat, RoleFor, OpenAIFormats
  <2>3. QED
    BY <2>1, <2>2
<1>6. CASE format = "anthropic"
  <2>1. WriteOf(format, im) = ToAnthropicMessage(im)
    BY <1>6 DEF WriteOf
  <2>2. CASE im.role = "assistant"
    <3>1. ToAnthropicMessage(im) = Message("assistant", texts \o im.calls)
      BY <1>6, <2>2 DEF ToAnthropicMessage, AnthropicAssistant, TextsFor
    <3>2. calls = im.calls /\ role = "assistant"
      BY <1>6, <2>2 DEF CallsIntoFormat, RoleFor
    <3>3. QED
      BY <2>1, <3>1, <3>2
  <2>3. CASE im.role = "user"
    <3>1. ToAnthropicMessage(im) = Message("user", WithUrls(im.content))
          /\ texts = WithUrls(im.content)
      BY <1>6, <2>3 DEF ToAnthropicMessage, TextsFor
    <3>2. calls = <<>> /\ role = "user"
      BY <1>1, <1>4, <2>3 DEF RoleFor
    <3>3. QED
      BY <1>2, <2>1, <3>1, <3>2, Zenon
  <2>4. QED
    BY <2>2, <2>3
<1>7. CASE format = "gemini"
  <2>1. WriteOf(format, im) = ToGeminiContent(im)
    BY <1>7 DEF WriteOf
  <2>2. CASE im.role = "assistant" /\ im.calls # <<>>
    <3>1. ToGeminiContent(im) = GeminiAssistant(im)
      BY <2>2 DEF ToGeminiContent
    <3>2. GeminiAssistant(im) = Message("model",
            Where(LAMBDA p : p.kind = "text" /\ p.text # <<>>, im.content) \o CallsFor(im.calls))
      BY <2>2, Zenon DEF GeminiAssistant, CallsFor, CallFor, Each, NoArgs
    <3>3. texts = Where(LAMBDA p : p.kind = "text" /\ p.text # <<>>, im.content)
      BY <1>7, <2>2, Zenon DEF TextsFor
    <3>4. calls = CallsFor(im.calls) /\ role = "model"
      BY <1>7, <2>2 DEF CallsIntoFormat, RoleFor
    <3>5. QED
      BY <2>1, <3>1, <3>2, <3>3, <3>4, Zenon
  <2>3. CASE im.calls = <<>>
    <3>1. texts = GeminiParts(im.content)
      BY <1>7, <2>3, Zenon DEF TextsFor
    <3>2. im.role = "assistant" => ToGeminiContent(im) = Message("model", GeminiParts(im.content))
      BY <2>3 DEF ToGeminiContent, GeminiAssistant
    <3>3. im.role = "user" => ToGeminiContent(im) = Message("user", GeminiParts(im.content))
      BY DEF ToGeminiContent
    <3>4. ToGeminiContent(im) = Message(role, GeminiParts(im.content))
      BY <1>7, <3>2, <3>3 DEF RoleFor
    <3>5. QED
      BY <1>2, <1>4, <2>1, <2>3, <3>1, <3>4, Zenon
  <2>4. QED
    BY <1>1, <2>2, <2>3
<1>8. QED
  BY <1>5, <1>6, <1>7 DEF Formats

----------------------------------------------------------------------------
(* The pieces that messages hold, and that were said. *)

HeldPieces(messages)  == FlattenSeq([i \in 1..Len(messages) |-> messages[i].pieces])

SpokenPieces(sayings) == [i \in 1..Len(sayings) |-> sayings[i].piece]

PiecesIn(messages) == IsSeq(messages) /\ \A m \in ToSet(messages) : IsSeq(m.pieces)

LEMMA SpokenIs ==
  ASSUME NEW sayings, IsSeq(sayings), NEW S, ToSet(sayings) \subseteq S
  PROVE  /\ SpokenPieces(sayings) = Through([s \in S |-> s.piece], sayings)
         /\ IsSeq(SpokenPieces(sayings))
<1> DEFINE g == [s \in S |-> s.piece]
<1>1. \A i \in 1..Len(sayings) : sayings[i] \in S
  BY ElementsOf
<1>2. SpokenPieces(sayings) = Through(g, sayings)
  BY <1>1 DEF SpokenPieces, Through
<1> HIDE DEF g
<1>3. IsSeq(Through(g, sayings))
  BY ThroughIs
<1>4. QED
  BY <1>2, <1>3 DEF g

LEMMA SpokenConcat ==
  ASSUME NEW s, IsSeq(s), NEW t, IsSeq(t)
  PROVE  SpokenPieces(s \o t) = SpokenPieces(s) \o SpokenPieces(t)
<1> DEFINE S == ToSet(s) \cup ToSet(t)
           u == s \o t
           g == [x \in S |-> x.piece]
<1>1. IsSeq(u) /\ ToSet(u) = S
  BY Concat, MembersOfConcat
<1>2. SpokenPieces(s) = Through(g, s)
  BY SpokenIs
<1>3. SpokenPieces(t) = Through(g, t)
  BY SpokenIs
<1>4. SpokenPieces(u) = Through(g, u)
  <2> HIDE DEF u
  <2> QED
    BY <1>1, SpokenIs
<1> HIDE DEF g
<1>5. Through(g, s \o t) = Through(g, s) \o Through(g, t)
  BY ThroughConcat
<1>6. QED
  BY <1>2, <1>3, <1>4, <1>5

LEMMA HeldPiecesIs ==
  ASSUME NEW messages, PiecesIn(messages), NEW S, ToSet(messages) \subseteq S
  PROVE  /\ HeldPieces(messages) = Gather([m \in S |-> m.pieces], messages)
         /\ Gathers([m \in S |-> m.pieces], messages)
         /\ IsSeq(HeldPieces(messages))
<1> DEFINE g == [m \in S |-> m.pieces]
<1>1. IsSeq(messages) /\ \A m \in ToSet(messages) : IsSeq(m.pieces)
  BY DEF PiecesIn
<1>2. \A i \in 1..Len(messages) : messages[i] \in S /\ messages[i] \in ToSet(messages)
  BY <1>1, ElementsOf
<1>3. [i \in 1..Len(messages) |-> messages[i].pieces] = Through(g, messages)
  BY <1>2 DEF Through
<1>4. \A i \in 1..Len(messages) : IsSeq(g[messages[i]])
  BY <1>1, <1>2
<1> HIDE DEF g
<1>5. Gathers(g, messages)
  BY <1>1, <1>4 DEF Gathers
<1>6. HeldPieces(messages) = Gather(g, messages)
  BY <1>3 DEF HeldPieces, Gather
<1>7. QED
  BY <1>5, <1>6, GathersAll DEF g

LEMMA HeldPiecesConcat ==
  ASSUME NEW s, PiecesIn(s), NEW t, PiecesIn(t)
  PROVE  /\ HeldPieces(s \o t) = HeldPieces(s) \o HeldPieces(t)
         /\ PiecesIn(s \o t)
<1> DEFINE S == ToSet(s) \cup ToSet(t)
           u == s \o t
           g == [m \in S |-> m.pieces]
<1>1. IsSeq(u) /\ ToSet(u) = S
  BY Concat, MembersOfConcat DEF PiecesIn
<1>2. HeldPieces(s) = Gather(g, s) /\ Gathers(g, s)
  BY HeldPiecesIs
<1>3. HeldPieces(t) = Gather(g, t) /\ Gathers(g, t)
  BY HeldPiecesIs
<1>4. PiecesIn(u)
  <2> HIDE DEF u
  <2> QED
    BY <1>1 DEF PiecesIn
<1>5. HeldPieces(u) = Gather(g, u)
  <2> HIDE DEF u
  <2> QED
    BY <1>1, <1>4, HeldPiecesIs
<1> HIDE DEF g
<1>6. Gather(g, s \o t) = Gather(g, s) \o Gather(g, t)
  BY <1>2, <1>3, GatherConcat
<1>7. QED
  BY <1>2, <1>3, <1>4, <1>5, <1>6

(* What is held is held by one of the messages. *)
LEMMA HeldByOne ==
  ASSUME NEW messages, PiecesIn(messages), NEW kinds
  PROVE  /\ \A p \in ToSet(Only(kinds, HeldPieces(messages))) :
              p.kind \in kinds /\ \E k \in 1..Len(messages) : p \in ToSet(messages[k].pieces)
<1> DEFINE n == Len(messages)
           S == UNION {ToSet(messages[k].pieces) : k \in 1..n}
           g == [m \in ToSet(messages) |-> m.pieces]
<1>1. HeldPieces(messages) = Gather(g, messages) /\ Gathers(g, messages) /\ IsSeq(HeldPieces(messages))
  BY HeldPiecesIs
<1>2. \A k \in 1..n : messages[k] \in ToSet(messages)
  BY ElementsOf DEF PiecesIn
<1>3. \A k \in 1..n : ToSet(g[messages[k]]) \subseteq S
  BY <1>2
<1>4. \A p \in S : \E k \in 1..n : p \in ToSet(messages[k].pieces)
  OBVIOUS
<1> HIDE DEF g, S
<1>5. ToSet(HeldPieces(messages)) \subseteq S
  BY <1>1, <1>3, GatherElements
<1>6. QED
  BY <1>1, <1>4, <1>5, OnlyElements

LEMMA TextsEach ==
  ASSUME NEW texts, IsSeq(texts)
  PROVE  IsSeq(Each(Text, texts)) /\ \A p \in ToSet(Each(Text, texts)) : PieceOK(p) /\ p.kind = "text"
<1> DEFINE n == Len(texts)
           s == Each(Text, texts)
<1>1. n \in Nat
  BY ElementsOf
<1>2. n \in Nat /\ DOMAIN s = 1..n /\ s = [i \in 1..n |-> s[i]]
      /\ \A i \in 1..n : s[i] = Text(texts[i])
  BY <1>1 DEF Each
<1> HIDE DEF s, n
<1>3. IsSeq(s) /\ \A p \in ToSet(s) : \E i \in 1..n : p = s[i]
  BY <1>2, SeqGiven
<1>4. \A text : Text(text).kind = "text"
  BY PieceIs
<1>5. \A text : PieceOK(Text(text))
  BY DEF PieceOK
<1>6. \A p \in ToSet(s) : PieceOK(p) /\ p.kind = "text"
  BY <1>2, <1>3, <1>4, <1>5
<1>7. QED
  BY <1>3, <1>6 DEF s

(* What an upstream answers holds no results. *)
LEMMA NoResults ==
  ASSUME NEW pieces, PiecesOK(pieces)
  PROVE  Only({"result"}, pieces) = <<>>
<1>1. IsSeq(pieces) /\ \A p \in ToSet(pieces) : p.kind \notin {"result"}
  BY PieceKinds DEF PiecesOK
<1>2. QED
  BY <1>1, OnlyNone

(* The pieces of the results that were said are the results among the      *)
(* pieces that were said.                                                  *)
LEMMA ResultsSpoken ==
  ASSUME NEW s, IsSeq(s), NEW t, t = Where(LAMBDA x : x.piece.kind = "result", s)
  PROVE  IsSeq(t) /\ SpokenPieces(t) = Only({"result"}, SpokenPieces(s))
<1> DEFINE S == ToSet(s)
           keep == [x \in S |-> IF x.piece.kind = "result" THEN <<x>> ELSE <<>>]
           f == [x \in S |-> x.piece]
           h == [x \in S |-> IF x.piece.kind = "result" THEN <<x.piece>> ELSE <<>>]
           u == SpokenPieces(s)
           g == OfKinds({"result"}, ToSet(u))
<1>1. \A i \in 1..Len(s) : s[i] \in S
  BY ElementsOf
<1>2. t = Gather(keep, s)
  <2>1. [i \in 1..Len(s) |-> IF s[i].piece.kind = "result" THEN <<s[i]>> ELSE <<>>]
          = [i \in 1..Len(s) |-> keep[s[i]]]
    BY <1>1
  <2>2. QED
    BY <2>1 DEF Where, Each, Gather, Through
<1>3. \A x \in S : /\ IsSeq(keep[x]) /\ ToSet(keep[x]) \subseteq S
                   /\ Through(f, keep[x]) = h[x]
  <2> TAKE x \in S
  <2>1. CASE x.piece.kind = "result"
    <3>1. keep[x] = <<x>> /\ f[x] = x.piece /\ h[x] = <<x.piece>>
      BY <2>1
    <3> HIDE DEF keep, f, h, S
    <3>2. IsSeq(<<x>>) /\ ToSet(<<x>>) = {x}
      BY SingleIsSeq, Members
    <3>3. Through(f, <<x>>) = <<f[x]>>
      BY DEF Through
    <3>4. QED
      BY <3>1, <3>2, <3>3
  <2>2. CASE x.piece.kind # "result"
    <3>1. keep[x] = <<>> /\ h[x] = <<>>
      BY <2>2
    <3> HIDE DEF keep, f, h, S
    <3>2. IsSeq(<<>>) /\ ToSet(<<>>) = {}
      BY EmptyIsSeq, Members
    <3>3. Through(f, <<>>) = <<>>
      BY DEF Through
    <3>4. QED
      BY <3>1, <3>2, <3>3
  <2>3. QED
    BY <2>1, <2>2
<1>4. u = Through(f, s) /\ IsSeq(u)
  BY SpokenIs
<1>5. Only({"result"}, u) = Gather(g, u)
  <2> HIDE DEF u
  <2> QED
    BY <1>4, OnlyIs
<1>6. \A i \in 1..Len(s) : g[f[s[i]]] = h[s[i]]
  <2> TAKE i \in 1..Len(s)
  <2>1. u[i] \in ToSet(u) /\ u[i] = s[i].piece
    <3>1. u[i] = s[i].piece /\ Len(u) = Len(s)
      BY ElementsOf DEF SpokenPieces
    <3> HIDE DEF u
    <3>2. QED
      BY <1>4, <3>1, ElementsOf
  <2>2. f[s[i]] = s[i].piece
    BY <1>1
  <2>3. g[u[i]] = IF u[i].kind \in {"result"} THEN <<u[i]>> ELSE <<>>
    <3> HIDE DEF u
    <3> QED
      BY <2>1 DEF OfKinds
  <2>4. h[s[i]] = IF s[i].piece.kind = "result" THEN <<s[i].piece>> ELSE <<>>
    BY <1>1
  <2> HIDE DEF u, g, f, h
  <2>5. QED
    BY <2>1, <2>2, <2>3, <2>4
<1> HIDE DEF S, keep, h, u, g
<1>7. Gathers(keep, s) /\ \A i \in 1..Len(s) : ToSet(keep[s[i]]) \subseteq S
  BY <1>1, <1>3 DEF Gathers
<1>8. IsSeq(t) /\ ToSet(t) \subseteq S
  BY <1>2, <1>7, GathersAll, GatherElements
<1>9. SpokenPieces(t) = Through(f, t)
  BY <1>8, SpokenIs
<1> HIDE DEF f
<1>10. Through(f, t) = Gather(h, s)
  <2>1. ThroughEach(keep, f, h, s)
    BY <1>1, <1>3 DEF ThroughEach
  <2>2. QED
    BY <1>2, <1>7, <2>1, ThroughGather
<1>11. Gather(g, Through(f, s)) = Gather(h, s)
  <2>1. Twice(f, g, h, s)
    BY <1>6 DEF Twice
  <2>2. QED
    BY <2>1, ThroughTwice
<1>12. QED
  BY <1>4, <1>5, <1>8, <1>9, <1>10, <1>11 DEF u

==============================================================================
