--------------------------- MODULE OrderingProofs ---------------------------
(***************************************************************************)
(* Facts about Orders(S), the sequences that hold each element of S once,   *)
(* and about sets of numbers, for the proofs about the components.          *)
(***************************************************************************)
EXTENDS Ordering, Integers, FiniteSetTheorems, SequenceTheorems, WellFoundedInduction, TLAPS

\* An element of Orders(S) is a sequence that holds each element of S once.
LEMMA OrdersElements ==
  ASSUME NEW S, IsFiniteSet(S), NEW s \in Orders(S)
  PROVE  s \in Seq(S) /\ Range(s) = S /\ IsInjective(s) /\ Len(s) = Cardinality(S)
<1> DEFINE n == Cardinality(S)
<1>1. n \in Nat /\ s \in Injection(1 .. n, S)
  BY FS_CardinalityType DEF Orders
<1>2. s \in [1 .. n -> S] /\ IsInjective(s)
  BY <1>1 DEF Injection
<1>3. Cardinality(1 .. n) = n
  BY <1>1, FS_Interval
<1>4. s \in Surjection(1 .. n, S)
  BY <1>1, <1>3, FS_Injection
<1>5. Range(s) = S
  BY <1>2, <1>4 DEF Surjection, Range
<1>6. s \in Seq(S) /\ Len(s) = n
  BY <1>1, <1>2
<1> QED
  BY <1>2, <1>5, <1>6

\* A sequence without repetition that holds as many elements as S is an order of S.
LEMMA InjectiveIsOrder ==
  ASSUME NEW S, NEW s \in Seq(S), IsInjective(s), Len(s) = Cardinality(S)
  PROVE  s \in Orders(S)
<1>1. s \in [1 .. Cardinality(S) -> S]
  BY LenProperties
<1> QED
  BY <1>1 DEF Orders, Injection

\* A sequence without repetition that holds every element of S is as long as S.
LEMMA InjectiveLength ==
  ASSUME NEW S, NEW s \in Seq(S), IsInjective(s), Range(s) = S
  PROVE  Len(s) = Cardinality(S)
<1>1. Len(s) \in Nat /\ s \in [1 .. Len(s) -> S]
  BY LenProperties
<1>2. s \in Bijection(1 .. Len(s), S)
  BY <1>1 DEF Bijection, Injection, Surjection, IsInjective, Range
<1>3. ExistsBijection(1 .. Len(s), S)
  BY <1>2 DEF ExistsBijection
<1> QED
  BY <1>1, <1>3, FS_CountingElements

\* Appending a new element.
LEMMA AppendNew ==
  ASSUME NEW S, NEW s \in Seq(S), IsInjective(s), NEW u \in S, u \notin Range(s)
  PROVE  /\ Append(s, u) \in Seq(S) /\ IsInjective(Append(s, u))
         /\ Range(Append(s, u)) = Range(s) \cup {u}
<1>1. Len(s) \in Nat /\ DOMAIN s = 1 .. Len(s)
  BY LenProperties
<1>2. Append(s, u) \in Seq(S) /\ Len(Append(s, u)) = Len(s) + 1
      /\ DOMAIN Append(s, u) = 1 .. Len(s) + 1
  BY AppendProperties, LenProperties
<1>3. \A i \in 1 .. Len(s) : Append(s, u)[i] = s[i]
  BY AppendProperties
<1>4. Append(s, u)[Len(s) + 1] = u
  BY AppendProperties
<1>5. 1 .. Len(s) + 1 = (1 .. Len(s)) \cup {Len(s) + 1}
  BY <1>1
<1>6. Range(Append(s, u)) = Range(s) \cup {u}
  BY <1>1, <1>2, <1>3, <1>4, <1>5 DEF Range
<1>7. IsInjective(Append(s, u))
  BY <1>1, <1>2, <1>3, <1>4, <1>5 DEF IsInjective, Range
<1> QED
  BY <1>2, <1>6, <1>7

\* Taking the first element.
LEMMA TailRest ==
  ASSUME NEW S, NEW s \in Seq(S), IsInjective(s), s # <<>>
  PROVE  /\ Head(s) \in Range(s) /\ Head(s) \in S
         /\ Tail(s) \in Seq(S) /\ IsInjective(Tail(s))
         /\ Range(Tail(s)) = Range(s) \ {Head(s)}
<1>1. Len(s) \in Nat \ {0} /\ DOMAIN s = 1 .. Len(s)
  BY LenProperties, EmptySeq
<1>2. Head(s) = s[1] /\ Tail(s) \in Seq(S) /\ Len(Tail(s)) = Len(s) - 1
      /\ DOMAIN Tail(s) = 1 .. Len(s) - 1
  BY HeadTailProperties, LenProperties
<1>3. \A i \in 1 .. Len(s) - 1 : Tail(s)[i] = s[i + 1]
  BY HeadTailProperties, <1>2
<1>4. IsInjective(Tail(s))
  BY <1>1, <1>2, <1>3 DEF IsInjective
<1>5. \A x \in Range(s) \ {Head(s)} : x \in Range(Tail(s))
  <2> SUFFICES ASSUME NEW i \in 1 .. Len(s), s[i] # s[1]
               PROVE  s[i] \in Range(Tail(s))
    BY <1>1, <1>2 DEF Range
  <2>1. i - 1 \in 1 .. Len(s) - 1 /\ Tail(s)[i - 1] = s[i]
    BY <1>1, <1>3
  <2> QED
    BY <1>2, <2>1 DEF Range
<1>6. \A x \in Range(Tail(s)) : x \in Range(s) /\ x # Head(s)
  BY <1>1, <1>2, <1>3 DEF Range, IsInjective
<1>7. Range(Tail(s)) = Range(s) \ {Head(s)}
  BY <1>5, <1>6
<1>8. Head(s) \in Range(s) /\ Head(s) \in S
  BY <1>1, <1>2, ElementOfSeq DEF Range
<1> QED
  BY <1>2, <1>4, <1>7, <1>8

\* Two sequences without repetition and with no element in common.
LEMMA ConcatDisjoint ==
  ASSUME NEW S, NEW s \in Seq(S), NEW t \in Seq(S), IsInjective(s), IsInjective(t),
         Range(s) \cap Range(t) = {}
  PROVE  /\ s \o t \in Seq(S) /\ IsInjective(s \o t)
         /\ Range(s \o t) = Range(s) \cup Range(t)
<1>1. Len(s) \in Nat /\ DOMAIN s = 1 .. Len(s) /\ Len(t) \in Nat /\ DOMAIN t = 1 .. Len(t)
  BY LenProperties
<1>2. s \o t \in Seq(S) /\ DOMAIN (s \o t) = 1 .. Len(s) + Len(t)
  BY ConcatProperties, LenProperties
<1>3. \A i \in 1 .. Len(s) + Len(t) :
        (s \o t)[i] = IF i <= Len(s) THEN s[i] ELSE t[i - Len(s)]
  BY ConcatProperties
<1>4. \A i \in 1 .. Len(s) + Len(t) : i <= Len(s) => i \in DOMAIN s
  BY <1>1
<1>5. \A i \in 1 .. Len(s) + Len(t) : ~(i <= Len(s)) => i - Len(s) \in DOMAIN t
  BY <1>1
<1>6. IsInjective(s \o t)
  <2> SUFFICES ASSUME NEW i \in 1 .. Len(s) + Len(t), NEW k \in 1 .. Len(s) + Len(t),
                      (s \o t)[i] = (s \o t)[k]
               PROVE  i = k
    BY <1>2 DEF IsInjective
  <2>1. CASE i <= Len(s) /\ k <= Len(s)
    BY <2>1, <1>3, <1>4 DEF IsInjective
  <2>2. CASE ~(i <= Len(s)) /\ ~(k <= Len(s))
    <3>1. i - Len(s) = k - Len(s)
      BY <2>2, <1>3, <1>5 DEF IsInjective
    <3> QED
      BY <3>1, <1>1
  <2>3. CASE (i <= Len(s)) /\ ~(k <= Len(s))
    BY <2>3, <1>3, <1>4, <1>5 DEF Range
  <2>4. CASE ~(i <= Len(s)) /\ (k <= Len(s))
    BY <2>4, <1>3, <1>4, <1>5 DEF Range
  <2> QED
    BY <2>1, <2>2, <2>3, <2>4
<1>7. Range(s \o t) = Range(s) \cup Range(t)
  BY RangeConcatenation
<1> QED
  BY <1>2, <1>6, <1>7

-----------------------------------------------------------------------------
(* Sets of numbers                                                         *)

LEMMA NatOrder ==
  \E R : IsWellFoundedOn(R, Nat) /\ \A n, m \in Nat : n < m => <<n, m>> \in R
<1>1. OpToRel(<, Nat) = {ss \in Nat \X Nat : ss[1] < ss[2]}
  BY Zenon DEF OpToRel
<1>2. IsWellFoundedOn({ss \in Nat \X Nat : ss[1] < ss[2]}, Nat)
  BY <1>1, NatLessThanWellFounded, Zenon
<1> QED BY <1>2

\* A set of numbers that is not empty has a least one: what induction would show.
LEMMA LeastNat ==
  ASSUME NEW S, S \subseteq Nat, S # {}
  PROVE  \E m \in S : \A n \in S : m <= n
<1>1. PICK R : IsWellFoundedOn(R, Nat) /\ \A n, m \in Nat : n < m => <<n, m>> \in R
  BY NatOrder
<1>2. PICK m \in S : \A n \in S : ~ (<<n, m>> \in R)
  <2>1. IsWellFoundedOn(R, Nat)
    BY <1>1
  <2>2. \E m \in S : \A n \in S : ~ (<<n, m>> \in R)
    BY <2>1, WFMin, Zenon
  <2> QED BY <2>2
<1>3. \A n \in S : m <= n
  <2> TAKE n \in S
  <2>1. n \in Nat /\ m \in Nat /\ ~ (n < m)
    BY <1>1, <1>2
  <2> QED BY <2>1
<1> QED BY <1>3

LEMMA Greatest ==
  ASSUME NEW S, NEW n \in Nat, S \subseteq 0 .. n, S # {}
  PROVE  \E m \in S : \A k \in S : m >= k
<1> DEFINE T == {n - k : k \in S}
<1>1. T \subseteq Nat /\ T # {}
  <2>1. \A k \in S : n - k \in Nat
    OBVIOUS
  <2> QED BY <2>1
<1>2. PICK t \in T : \A j \in T : t <= j
  <2> HIDE DEF T
  <2> QED BY <1>1, LeastNat
<1>3. PICK m \in S : t = n - m
  OBVIOUS
<1>4. \A k \in S : n - m <= n - k
  BY <1>2, <1>3
<1> QED BY <1>4

\* Induction up to a bound, over the set of the numbers for which a claim holds.
LEMMA UpTo ==
  ASSUME NEW k \in Nat, NEW P, P \subseteq 0 .. k, 0 \in P,
         \A n \in 1 .. k : n - 1 \in P => n \in P
  PROVE  P = 0 .. k
<1> DEFINE Bad == (0 .. k) \ P
<1> SUFFICES ASSUME Bad # {} PROVE FALSE
  OBVIOUS
<1>1. PICK m \in Bad : \A j \in Bad : m <= j
  <2>1. Bad \subseteq Nat
    OBVIOUS
  <2> HIDE DEF Bad
  <2> QED BY <2>1, LeastNat
<1>2. m \in 1 .. k /\ m - 1 \in 0 .. k /\ ~ (m <= m - 1)
  BY <1>1
<1>3. m - 1 \in P
  BY <1>1, <1>2
<1> QED BY <1>1, <1>2, <1>3

\* A function that is iterated from a value of S exists, and its values are in S.
LEMMA Iterated ==
  ASSUME NEW S, NEW base \in S, NEW k \in Nat, NEW F \in [1 .. k -> [S -> S]]
  PROVE  \E f \in [0 .. k -> S] :
           f[0] = base /\ \A n \in 1 .. k : f[n] = F[n][f[n - 1]]
<1> DEFINE Upto(j, f) == f[0] = base /\ \A n \in 1 .. j : f[n] = F[n][f[n - 1]]
           Bad == {j \in 0 .. k : ~ \E f \in [0 .. j -> S] : Upto(j, f)}
<1> SUFFICES ASSUME Bad # {} PROVE FALSE
  <2>1. k \in 0 .. k
    OBVIOUS
  <2>2. k \notin Bad => \E f \in [0 .. k -> S] : Upto(k, f)
    BY <2>1
  <2>3. Bad = {} => \E f \in [0 .. k -> S] : Upto(k, f)
    <3> HIDE DEF Bad, Upto
    <3> QED BY <2>2
  <2> QED BY <2>3, Zenon
<1>1. PICK m \in Bad : \A j \in Bad : m <= j
  <2>1. Bad \subseteq Nat
    OBVIOUS
  <2> HIDE DEF Bad
  <2> QED BY <2>1, LeastNat
<1>2. CASE m = 0
  <2> DEFINE g == [n \in 0 .. 0 |-> base]
  <2>1. g \in [0 .. 0 -> S] /\ Upto(0, g)
    OBVIOUS
  <2> QED BY <1>1, <1>2, <2>1
<1>3. CASE m # 0
  <2>1. m \in 1 .. k /\ m - 1 \in 0 .. k /\ m - 1 \notin Bad
    <3>1. m \in 0 .. k /\ ~ (m <= m - 1)
      BY <1>1
    <3>2. m \in 1 .. k /\ m - 1 \in 0 .. k
      BY <1>3, <3>1
    <3> HIDE DEF Bad
    <3> QED BY <1>1, <3>1, <3>2
  <2>2. PICK f \in [0 .. m - 1 -> S] : Upto(m - 1, f)
    BY <2>1
  <2>3. m - 1 \in 0 .. m - 1
    BY <2>1
  <2>4. F[m][f[m - 1]] \in S
    BY <2>1, <2>2, <2>3
  <2> DEFINE g == [n \in 0 .. m |-> IF n = m THEN F[m][f[m - 1]] ELSE f[n]]
  <2>5. \A n \in 0 .. m : n # m => n \in 0 .. m - 1
    BY <2>1
  <2>6. g \in [0 .. m -> S]
    BY <2>2, <2>4, <2>5
  <2>7. \A n \in 1 .. m : /\ n - 1 \in 0 .. m - 1 /\ n - 1 \in 0 .. m /\ n - 1 # m
                          /\ n \in 0 .. m /\ (n # m => n \in 1 .. m - 1)
    BY <2>1
  <2>8. g[0] = base
    BY <2>1, <2>2
  <2>9. \A n \in 1 .. m : g[n] = F[n][g[n - 1]]
    <3> TAKE n \in 1 .. m
    <3>1. g[n - 1] = f[n - 1]
      BY <2>7
    <3>2. g[n] = F[n][f[n - 1]]
      BY <2>2, <2>7
    <3> QED BY <3>1, <3>2
  <2>10. m \in 0 .. k /\ Upto(m, g)
    BY <2>1, <2>8, <2>9
  <2> HIDE DEF g
  <2> QED BY <1>1, <2>6, <2>10
<1> QED BY <1>2, <1>3

-----------------------------------------------------------------------------
(* The elements of a sequence                                              *)

LEMMA RangeAppend ==
  ASSUME NEW S, NEW s \in Seq(S), NEW x \in S
  PROVE  Range(Append(s, x)) = Range(s) \cup {x} /\ Range(s) \subseteq S
<1>1. Len(s) \in Nat /\ DOMAIN s = 1 .. Len(s) /\ \A i \in 1 .. Len(s) : s[i] \in S
  BY LenProperties, ElementOfSeq
<1>2. /\ DOMAIN Append(s, x) = 1 .. Len(s) + 1
      /\ \A i \in 1 .. Len(s) : Append(s, x)[i] = s[i]
      /\ Append(s, x)[Len(s) + 1] = x
  BY AppendProperties, LenProperties
<1>3. /\ \A i \in 1 .. Len(s) + 1 : i \in 1 .. Len(s) \/ i = Len(s) + 1
      /\ \A i \in 1 .. Len(s) : i \in 1 .. Len(s) + 1
      /\ Len(s) + 1 \in 1 .. Len(s) + 1
  BY <1>1
<1> QED BY <1>1, <1>2, <1>3 DEF Range

LEMMA RangeConcat ==
  ASSUME NEW S, NEW s \in Seq(S), NEW t \in Seq(S)
  PROVE  Range(s \o t) = Range(s) \cup Range(t)
<1>1. Len(s) \in Nat /\ DOMAIN s = 1 .. Len(s) /\ Len(t) \in Nat /\ DOMAIN t = 1 .. Len(t)
  BY LenProperties
<1>2. /\ DOMAIN (s \o t) = 1 .. Len(s) + Len(t)
      /\ \A i \in 1 .. Len(s) + Len(t) : (s \o t)[i] = IF i <= Len(s) THEN s[i] ELSE t[i - Len(s)]
  BY ConcatProperties, LenProperties
<1>3. \A i \in 1 .. Len(s) + Len(t) : IF i <= Len(s) THEN i \in 1 .. Len(s) ELSE i - Len(s) \in 1 .. Len(t)
  BY <1>1
<1>4. \A i \in 1 .. Len(s) : i \in 1 .. Len(s) + Len(t) /\ (s \o t)[i] = s[i]
  BY <1>1, <1>2
<1>5. \A i \in 1 .. Len(t) : Len(s) + i \in 1 .. Len(s) + Len(t) /\ (s \o t)[Len(s) + i] = t[i]
  BY <1>1, <1>2
<1>6. Range(s \o t) \subseteq Range(s) \cup Range(t)
  BY <1>1, <1>2, <1>3 DEF Range
<1>7. Range(s) \subseteq Range(s \o t)
  BY <1>1, <1>2, <1>4 DEF Range
<1>8. Range(t) \subseteq Range(s \o t)
  BY <1>1, <1>2, <1>5 DEF Range
<1> QED BY <1>6, <1>7, <1>8

LEMMA RangeTail ==
  ASSUME NEW S, NEW s \in Seq(S), s # <<>>
  PROVE  Range(s) = Range(Tail(s)) \cup {Head(s)}
<1>1. Len(s) \in Nat \ {0} /\ DOMAIN s = 1 .. Len(s)
  BY LenProperties, EmptySeq
<1>2. /\ DOMAIN Tail(s) = 1 .. Len(s) - 1
      /\ \A i \in 1 .. Len(s) - 1 : Tail(s)[i] = s[i + 1]
  BY HeadTailProperties, LenProperties
<1>3. Head(s) = s[1] /\ 1 \in 1 .. Len(s)
  BY <1>1
<1>4. \A i \in 1 .. Len(s) : i = 1 \/ (i - 1 \in 1 .. Len(s) - 1 /\ Tail(s)[i - 1] = s[i])
  BY <1>1, <1>2
<1>5. \A i \in 1 .. Len(s) - 1 : i + 1 \in 1 .. Len(s)
  BY <1>1
<1>6. Range(s) \subseteq Range(Tail(s)) \cup {Head(s)}
  <2> SUFFICES ASSUME NEW i \in 1 .. Len(s) PROVE s[i] \in Range(Tail(s)) \cup {Head(s)}
    BY <1>1 DEF Range
  <2>1. CASE i = 1
    BY <1>3, <2>1
  <2>2. CASE i # 1
    BY <1>2, <1>4, <2>2 DEF Range
  <2> QED BY <2>1, <2>2
<1>7. Range(Tail(s)) \subseteq Range(s)
  BY <1>1, <1>2, <1>5 DEF Range
<1> QED BY <1>1, <1>3, <1>6, <1>7 DEF Range
=============================================================================
