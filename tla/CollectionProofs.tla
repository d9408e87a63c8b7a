-------------------------- MODULE CollectionProofs --------------------------
(***************************************************************************)
(* What the proofs of several components need of numbers, sums, sequences  *)
(* and sets: least elements and induction on the natural numbers, stated   *)
(* over sets so that they can be cited; sums over a set; the operations on *)
(* a queue without repetition; sets made into sequences.                   *)
(***************************************************************************)
EXTENDS Tally, SequencesExt, FiniteSetTheorems, SequenceTheorems,
        WellFoundedInduction, TLAPS
-----------------------------------------------------------------------------
(***************************************************************************)
(* Numbers.                                                                *)
(***************************************************************************)
Below == {pair \in Nat \X Nat : pair[1] < pair[2]}

LEMMA BelowIsWellFounded == IsWellFoundedOn(Below, Nat)
BY NatLessThanWellFounded, Zenon DEF OpToRel, Below

\* A set of numbers that is not empty has a least one.
LEMMA LeastNumber ==
  ASSUME NEW T, T \subseteq Nat, T # {}
  PROVE  \E x \in T : \A y \in T : x <= y
<1>1. PICK x \in T : \A y \in T : ~ (<<y, x>> \in Below)
  BY BelowIsWellFounded, WFMin
<1>2. ASSUME NEW y \in T
      PROVE  x <= y
  <2>1. <<y, x>>[1] = y /\ <<y, x>>[2] = x /\ <<y, x>> \in Nat \X Nat
    OBVIOUS
  <2>2. ~ (y < x)
    BY <1>1, <2>1 DEF Below
  <2> QED
    BY <2>2
<1> QED
  BY <1>2

\* Induction: a set with 0, and with the next of each of its numbers, has all.
LEMMA Induction ==
  ASSUME NEW S, 0 \in S, \A n \in Nat : n \in S => n + 1 \in S
  PROVE  \A n \in Nat : n \in S
<1> DEFINE T == Nat \ S
<1> SUFFICES ASSUME T # {}
             PROVE  FALSE
  OBVIOUS
<1>1. T \subseteq Nat
  OBVIOUS
<1> HIDE DEF T
<1>2. PICK x \in T : \A y \in T : x <= y
  BY <1>1, LeastNumber
<1>3. x # 0 /\ x - 1 \in Nat /\ x - 1 \notin T
  BY <1>1, <1>2 DEF T
<1> QED
  BY <1>2, <1>3 DEF T
-----------------------------------------------------------------------------
(***************************************************************************)
(* Sums (Tally).                                                           *)
(***************************************************************************)
\* One member's tokens are as many as its value.
LEMMA RowSize ==
  ASSUME NEW x, NEW n \in Nat
  PROVE  /\ IsFiniteSet({x} \X (1 .. n))
         /\ Cardinality({x} \X (1 .. n)) = n
<1>1. IsFiniteSet(1 .. n) /\ Cardinality(1 .. n) = n
  BY FS_Interval
<1>2. IsFiniteSet({x}) /\ Cardinality({x}) = 1
  BY FS_Singleton
<1> QED
  BY <1>1, <1>2, FS_Product

\* A finite set has finitely many tokens.
LEMMA TokensFinite ==
  ASSUME NEW S, IsFiniteSet(S), NEW f, \A x \in S : f[x] \in Nat
  PROVE  IsFiniteSet(Tokens(f, S))
<1> DEFINE Rows == {{x} \X (1 .. f[x]) : x \in S}
           row == [x \in S |-> {x} \X (1 .. f[x])]
<1>1. row \in Surjection(S, Rows)
  BY DEF Surjection
<1>2. IsFiniteSet(Rows)
  BY <1>1, FS_Surjection
<1>3. \A T \in Rows : IsFiniteSet(T)
  <2>1. \A x \in S : IsFiniteSet({x} \X (1 .. f[x]))
    BY RowSize
  <2> QED
    BY <2>1
<1> HIDE DEF Rows
<1>4. IsFiniteSet(UNION Rows)
  BY <1>2, <1>3, FS_UNION
<1> QED
  BY <1>4 DEF Tokens, Rows

\* The sum is a natural number.
LEMMA SumIsNat ==
  ASSUME NEW S, IsFiniteSet(S), NEW f, \A x \in S : f[x] \in Nat
  PROVE  SumOver(f, S) \in Nat
BY TokensFinite, FS_CardinalityType DEF SumOver

\* Nothing adds up to zero.
LEMMA SumEmpty ==
  ASSUME NEW f
  PROVE  SumOver(f, {}) = 0
<1>1. Tokens(f, {}) = {}
  BY DEF Tokens
<1> QED
  BY <1>1, FS_EmptySet DEF SumOver

\* Only the values on S matter.
LEMMA SumAgree ==
  ASSUME NEW S, NEW f, NEW g, \A x \in S : f[x] = g[x]
  PROVE  SumOver(f, S) = SumOver(g, S)
BY DEF SumOver, Tokens

\* A new member adds its value.
LEMMA SumAdd ==
  ASSUME NEW S, IsFiniteSet(S), NEW f, NEW c, c \notin S,
         \A x \in S \cup {c} : f[x] \in Nat
  PROVE  SumOver(f, S \cup {c}) = SumOver(f, S) + f[c]
<1> DEFINE Row == {c} \X (1 .. f[c])
<1>1. IsFiniteSet(Row) /\ Cardinality(Row) = f[c]
  BY RowSize
<1>2. IsFiniteSet(Tokens(f, S))
  BY TokensFinite
<1>3. Tokens(f, S \cup {c}) = Tokens(f, S) \cup Row
  BY DEF Tokens
<1>4. Tokens(f, S) \cap Row = {}
  BY DEF Tokens
<1>5. Cardinality(Tokens(f, S)) \in Nat /\ Cardinality(Row) \in Nat
  BY <1>1, <1>2, FS_CardinalityType
<1>6. Cardinality({}) = 0
  BY FS_EmptySet
<1> HIDE DEF Row
<1>7. Cardinality(Tokens(f, S) \cup Row)
        = Cardinality(Tokens(f, S)) + Cardinality(Row) - Cardinality(Tokens(f, S) \cap Row)
  BY <1>1, <1>2, FS_Union
<1>8. Cardinality(Tokens(f, S) \cap Row) = 0
  BY <1>4, <1>6
<1>9. Cardinality(Tokens(f, S) \cup Row) = Cardinality(Tokens(f, S)) + Cardinality(Row)
  BY <1>5, <1>7, <1>8
<1> QED
  BY <1>1, <1>3, <1>9 DEF SumOver

\* A member that leaves takes its value with it.
LEMMA SumRemove ==
  ASSUME NEW S, IsFiniteSet(S), NEW f, NEW c \in S,
         \A x \in S : f[x] \in Nat
  PROVE  /\ SumOver(f, S \ {c}) = SumOver(f, S) - f[c]
         /\ SumOver(f, S \ {c}) \in Nat
         /\ f[c] <= SumOver(f, S)
<1>1. IsFiniteSet(S \ {c})
  BY FS_RemoveElement
<1>2. S = (S \ {c}) \cup {c}
  OBVIOUS
<1>3. SumOver(f, (S \ {c}) \cup {c}) = SumOver(f, S \ {c}) + f[c]
  BY <1>1, SumAdd
<1>4. SumOver(f, S \ {c}) \in Nat /\ f[c] \in Nat
  BY <1>1, SumIsNat
<1>5. SumOver(f, S) = SumOver(f, S \ {c}) + f[c]
  BY <1>2, <1>3
<1> QED
  BY <1>4, <1>5

\* A part adds up to no more than the whole.
LEMMA SumGrows ==
  ASSUME NEW S, IsFiniteSet(S), NEW f, \A x \in S : f[x] \in Nat, NEW T \in SUBSET S
  PROVE  SumOver(f, T) <= SumOver(f, S)
<1>1. Tokens(f, T) \subseteq Tokens(f, S)
  BY DEF Tokens
<1> QED
  BY <1>1, TokensFinite, FS_Subset DEF SumOver
-----------------------------------------------------------------------------
(***************************************************************************)
(* The queue of candidates: a push at either end, and the pops up to the   *)
(* candidate that is fired.                                                *)
(***************************************************************************)
\* No element of s comes twice.
NoRepeat(s) == \A i, j \in DOMAIN s : i # j => s[i] # s[j]

Elements(s) == {s[i] : i \in DOMAIN s}

\* A candidate put at the front of the queue.
LEMMA AtFront ==
  ASSUME NEW S, NEW q \in Seq(S), NEW c \in S, c \notin Elements(q), NoRepeat(q)
  PROVE  /\ <<c>> \o q \in Seq(S)
         /\ NoRepeat(<<c>> \o q)
         /\ Elements(<<c>> \o q) = Elements(q) \cup {c}
<1> DEFINE p == <<c>> \o q
<1>1. /\ p \in Seq(S)
      /\ Len(p) = Len(q) + 1
      /\ p[1] = c
      /\ \A i \in 2 .. Len(p) : p[i] = q[i - 1]
  BY ConcatProperties
<1>2. DOMAIN p = 1 .. Len(q) + 1 /\ DOMAIN q = 1 .. Len(q) /\ Len(q) \in Nat
  BY <1>1, LenProperties
<1> HIDE DEF p
<1>3. \A i \in DOMAIN q : p[i + 1] = q[i] /\ i + 1 \in DOMAIN p
  BY <1>1, <1>2
<1>4. Elements(p) = Elements(q) \cup {c}
  <2>1. Elements(p) \subseteq Elements(q) \cup {c}
    <3>1. \A i \in DOMAIN p : i = 1 \/ (i - 1 \in DOMAIN q /\ p[i] = q[i - 1])
      BY <1>1, <1>2
    <3> QED
      BY <1>1, <3>1 DEF Elements
  <2>2. c \in Elements(p)
    BY <1>1, <1>2 DEF Elements
  <2>3. Elements(q) \subseteq Elements(p)
    BY <1>3 DEF Elements
  <2> QED
    BY <2>1, <2>2, <2>3
<1>5. NoRepeat(p)
  <2> SUFFICES ASSUME NEW i \in DOMAIN p, NEW j \in DOMAIN p, i < j
               PROVE  p[i] # p[j]
    BY <1>2 DEF NoRepeat
  <2>1. p[j] = q[j - 1] /\ j - 1 \in DOMAIN q
    BY <1>1, <1>2
  <2>2. CASE i = 1
    BY <1>1, <2>1, <2>2 DEF Elements
  <2>3. CASE i # 1
    <3>1. p[i] = q[i - 1] /\ i - 1 \in DOMAIN q
      BY <1>1, <1>2, <2>3
    <3> QED
      BY <1>2, <2>1, <3>1 DEF NoRepeat
  <2> QED
    BY <2>2, <2>3
<1> QED
  BY <1>1, <1>4, <1>5 DEF p

\* A candidate put at the back of the queue.
LEMMA AtBack ==
  ASSUME NEW S, NEW q \in Seq(S), NEW c \in S, c \notin Elements(q), NoRepeat(q)
  PROVE  /\ Append(q, c) \in Seq(S)
         /\ NoRepeat(Append(q, c))
         /\ Elements(Append(q, c)) = Elements(q) \cup {c}
<1> DEFINE p == Append(q, c)
<1>1. /\ p \in Seq(S)
      /\ Len(p) = Len(q) + 1
      /\ p[Len(q) + 1] = c
      /\ \A i \in 1 .. Len(q) : p[i] = q[i]
  BY AppendProperties
<1>2. DOMAIN p = 1 .. Len(q) + 1 /\ DOMAIN q = 1 .. Len(q) /\ Len(q) \in Nat
  BY <1>1, LenProperties
<1> HIDE DEF p
<1>3. \A i \in DOMAIN p : i = Len(q) + 1 \/ i \in DOMAIN q
  BY <1>2
<1>4. Elements(p) = Elements(q) \cup {c}
  <2>1. Elements(p) \subseteq Elements(q) \cup {c}
    BY <1>1, <1>2, <1>3 DEF Elements
  <2>2. c \in Elements(p)
    BY <1>1, <1>2 DEF Elements
  <2>3. Elements(q) \subseteq Elements(p)
    <3>1. \A i \in DOMAIN q : p[i] = q[i] /\ i \in DOMAIN p
      BY <1>1, <1>2
    <3> QED
      BY <3>1 DEF Elements
  <2> QED
    BY <2>1, <2>2, <2>3
<1>5. NoRepeat(p)
  BY <1>1, <1>2, <1>3 DEF NoRepeat, Elements
<1> QED
  BY <1>1, <1>4, <1>5 DEF p

\* What is left of the queue once its first k candidates were dropped and the
\* next one was fired.
LEMMA AfterFiring ==
  ASSUME NEW S, NEW q \in Seq(S), NEW k \in 0 .. Len(q) - 1, NoRepeat(q)
  PROVE  /\ SubSeq(q, k + 2, Len(q)) \in Seq(S)
         /\ NoRepeat(SubSeq(q, k + 2, Len(q)))
         /\ q[k + 1] \in S
         /\ q[k + 1] \in Elements(q)
         /\ Elements(SubSeq(q, k + 2, Len(q))) \subseteq Elements(q) \ {q[k + 1]}
         /\ Elements(q) = Elements(SubSeq(q, k + 2, Len(q))) \cup {q[k + 1]}
                            \cup {q[i] : i \in 1 .. k}
<1> DEFINE p == SubSeq(q, k + 2, Len(q))
<1>0. PICK n \in Nat : n = Len(q) /\ DOMAIN q = 1 .. n
  BY LenProperties
<1>1. k \in Nat /\ k + 1 <= n /\ k + 1 \in DOMAIN q
  BY <1>0
<1> HIDE DEF p
<1>2. /\ p \in Seq(S)
      /\ Len(p) = n - k - 1
      /\ \A i \in 1 .. n - k - 1 : p[i] = q[k + 1 + i]
  <2>1. CASE k + 2 <= n
    <3>1. /\ p \in Seq(S)
          /\ Len(p) = n - (k + 2) + 1
          /\ \A i \in 1 .. n - (k + 2) + 1 : p[i] = q[(k + 2) + i - 1]
      BY <1>0, <1>1, <2>1, SubSeqProperties DEF p
    <3>2. n - (k + 2) + 1 = n - k - 1
      BY <1>1
    <3>3. \A i \in 1 .. n - k - 1 : (k + 2) + i - 1 = k + 1 + i
      BY <1>1
    <3> QED
      BY <3>1, <3>2, <3>3
  <2>2. CASE k + 1 = n
    <3>1. p = <<>>
      BY <1>0, <1>1, <2>2, SubSeqProperties DEF p
    <3>2. n - k - 1 = 0
      BY <1>0, <1>1, <2>2
    <3> QED
      BY <3>1, <3>2, EmptySeq
  <2>3. k + 2 <= n \/ k + 1 = n
    BY <1>1
  <2> QED
    BY <2>1, <2>2, <2>3
<1>3. DOMAIN p = 1 .. n - k - 1
  BY <1>2, LenProperties
<1>4. \A i \in DOMAIN p : k + 1 + i \in DOMAIN q /\ p[i] = q[k + 1 + i]
  BY <1>0, <1>1, <1>2, <1>3
<1>5. Elements(p) \subseteq Elements(q) \ {q[k + 1]}
  <2>1. \A i \in DOMAIN p : p[i] # q[k + 1] /\ p[i] \in Elements(q)
    BY <1>0, <1>1, <1>3, <1>4 DEF NoRepeat, Elements
  <2> QED
    BY <2>1 DEF Elements
<1>6. NoRepeat(p)
  BY <1>0, <1>1, <1>3, <1>4 DEF NoRepeat
<1>7. q[k + 1] \in S /\ q[k + 1] \in Elements(q)
  BY <1>0, <1>1, ElementOfSeq DEF Elements
<1>8. Elements(q) \subseteq Elements(p) \cup {q[k + 1]} \cup {q[i] : i \in 1 .. k}
  <2> SUFFICES ASSUME NEW m \in DOMAIN q
               PROVE  q[m] \in Elements(p) \cup {q[k + 1]} \cup {q[i] : i \in 1 .. k}
    BY DEF Elements
  <2>1. CASE m > k + 1
    <3>1. m - k - 1 \in DOMAIN p /\ p[m - k - 1] = q[m]
      BY <1>0, <1>1, <1>3, <1>4, <2>1
    <3> QED
      BY <3>1 DEF Elements
  <2>2. CASE m <= k
    BY <1>0, <1>1, <2>2
  <2> QED
    BY <1>0, <1>1, <2>1, <2>2
<1>9. {q[i] : i \in 1 .. k} \subseteq Elements(q)
  BY <1>0, <1>1 DEF Elements
<1> QED
  BY <1>2, <1>5, <1>6, <1>7, <1>8, <1>9 DEF p
-----------------------------------------------------------------------------
(***************************************************************************)
(* Sets as sequences.                                                      *)
(***************************************************************************)
LEMMA SetToSeqType ==
  ASSUME NEW S, IsFiniteSet(S)
  PROVE  SetToSeq(S) \in Seq(S)
<1>1. \E f \in [1 .. Cardinality(S) -> S] : IsInjective(f)
  <2>1. PICK f : f \in Bijection(1 .. Cardinality(S), S)
    BY FS_CardinalityType DEF ExistsBijection
  <2> QED
    BY <2>1 DEF Bijection, Injection, IsInjective
<1>2. SetToSeq(S) \in [1 .. Cardinality(S) -> S]
  BY <1>1 DEF SetToSeq
<1>3. Cardinality(S) \in Nat
  BY FS_CardinalityType
<1> QED
  BY <1>2, <1>3
=============================================================================
