------------------------- MODULE StringReaderProofs -------------------------
(***************************************************************************)
(* The strings string_getline returns and the fields the tokenizer finds   *)
(* in them are those of the text, for every text, every delimiter and      *)
(* every pattern of refused pushes.                                        *)
(*                                                                         *)
(* The lines of a text are defined without the loop that reads them.  So   *)
(* what one more character does to them comes first: the positions of a    *)
(* set in order, the pieces between them, the lines they make.  Each step  *)
(* of the loop is then one of these cases.  A pass of the tokenizer is     *)
(* followed along the cuts of the string it was called with.               *)
(***************************************************************************)
EXTENDS StringReader, FiniteSetTheorems, SequenceTheorems, SortedKeysProofs

-----------------------------------------------------------------------------
(* The elements of a set in order.                                         *)

Below(S, x) == {y \in S : y <= x}
Rank(S, x) == Cardinality(Below(S, x))

FiniteNumbers(S) == S \in SUBSET Nat /\ IsFiniteSet(S)

LEMMA CountIsNat ==
  ASSUME NEW S, FiniteNumbers(S)
  PROVE  Cardinality(S) \in Nat
BY FS_CardinalityType DEF FiniteNumbers

LEMMA BelowIsFinite ==
  ASSUME NEW S, FiniteNumbers(S), NEW x
  PROVE  /\ FiniteNumbers(Below(S, x))
         /\ Rank(S, x) \in Nat
         /\ Rank(S, x) <= Cardinality(S)
<1>1. Below(S, x) \in SUBSET S /\ Below(S, x) \in SUBSET Nat /\ IsFiniteSet(S)
  BY DEF Below, FiniteNumbers
<1>2. IsFiniteSet(Below(S, x)) /\ Cardinality(Below(S, x)) <= Cardinality(S)
  BY <1>1, FS_Subset
<1>3. FiniteNumbers(Below(S, x))
  BY <1>1, <1>2 DEF FiniteNumbers
<1> QED BY <1>2, <1>3, CountIsNat DEF Rank

LEMMA RankIsPositive ==
  ASSUME NEW S, FiniteNumbers(S), NEW x \in S
  PROVE  Rank(S, x) \in 1 .. Cardinality(S)
<1>1. FiniteNumbers(Below(S, x)) /\ Rank(S, x) \in Nat /\ Rank(S, x) <= Cardinality(S)
  BY BelowIsFinite
<1>2. x \in Below(S, x)
  BY DEF Below, FiniteNumbers
<1>3. Rank(S, x) # 0
  BY <1>1, <1>2, FS_EmptySet DEF Rank, FiniteNumbers
<1> QED BY <1>1, <1>3, CountIsNat

LEMMA RankAscends ==
  ASSUME NEW S, FiniteNumbers(S), NEW x \in S, NEW y \in S, x < y
  PROVE  Rank(S, x) < Rank(S, y)
<1>0. x \in Nat /\ y \in Nat /\ \A z \in S : z \in Nat
  BY DEF FiniteNumbers
<1>1. Below(S, x) \in SUBSET Below(S, y) /\ y \in Below(S, y) /\ y \notin Below(S, x)
  <2>1. \A z \in S : z <= x => z <= y
    BY <1>0
  <2>2. y <= y /\ ~ (y <= x)
    BY <1>0
  <2> QED BY <2>1, <2>2 DEF Below
<1>2. IsFiniteSet(Below(S, y)) /\ Rank(S, x) \in Nat /\ Rank(S, y) \in Nat
  BY BelowIsFinite DEF FiniteNumbers
<1>3. Rank(S, x) <= Rank(S, y) /\ Rank(S, y) # Rank(S, x)
  BY <1>1, <1>2, FS_Subset DEF Rank
<1> QED BY <1>2, <1>3

LEMMA RankIsUnique ==
  ASSUME NEW S, FiniteNumbers(S), NEW x \in S, NEW y \in S, Rank(S, x) = Rank(S, y)
  PROVE  x = y
<1>1. x \in Nat /\ y \in Nat /\ Rank(S, x) \in Nat /\ Rank(S, y) \in Nat
  BY BelowIsFinite DEF FiniteNumbers
<1>2. CASE x < y
  BY <1>1, <1>2, RankAscends
<1>3. CASE y < x
  BY <1>1, <1>3, RankAscends
<1> QED BY <1>1, <1>2, <1>3

(* Without the least element every rank is one less.                       *)
LEMMA RankWithoutLeast ==
  ASSUME NEW S, FiniteNumbers(S), NEW m \in S, \A y \in S : m <= y
  PROVE  /\ FiniteNumbers(S \ {m})
         /\ Cardinality(S \ {m}) = Cardinality(S) - 1
         /\ Rank(S, m) = 1
         /\ \A x \in S \ {m} : Rank(S, x) = Rank(S \ {m}, x) + 1
<1>1. S \in SUBSET Nat /\ IsFiniteSet(S)
  BY DEF FiniteNumbers
<1>2. IsFiniteSet(S \ {m}) /\ Cardinality(S \ {m}) = Cardinality(S) - 1
  BY <1>1, FS_RemoveElement
<1>3. FiniteNumbers(S \ {m})
  BY <1>1, <1>2 DEF FiniteNumbers
<1>4. Rank(S, m) = 1
  <2>1. \A y \in S : y \in Nat /\ m <= y
    BY <1>1
  <2>2. \A y \in S : y <= m => y = m
    BY <2>1
  <2>3. m <= m
    BY <2>1
  <2>4. Below(S, m) = {m}
    BY <2>2, <2>3 DEF Below
  <2> QED BY <2>4, FS_Singleton DEF Rank
<1>5. ASSUME NEW x \in S \ {m}
      PROVE  Rank(S, x) = Rank(S \ {m}, x) + 1
  <2>1. m <= x /\ m \in S
    BY <1>1
  <2>2. Below(S, x) = Below(S \ {m}, x) \cup {m} /\ m \notin Below(S \ {m}, x)
    BY <2>1 DEF Below
  <2>3. IsFiniteSet(Below(S \ {m}, x))
    BY <1>3, BelowIsFinite DEF FiniteNumbers
  <2> QED BY <2>2, <2>3, FS_AddElement DEF Rank
<1> QED BY <1>2, <1>3, <1>4, <1>5

(* Every rank up to the last is somebody's.                                *)
RanksTaken(S) == \A n \in 1 .. Cardinality(S) : \E x \in S : Rank(S, x) = n

LEMMA RanksAreTaken ==
  ASSUME NEW S, FiniteNumbers(S)
  PROVE  RanksTaken(S)
<1> DEFINE Bad == {c \in Nat : \E T : FiniteNumbers(T) /\ Cardinality(T) = c /\ ~ RanksTaken(T)}
<1>1. Bad = {}
  <2>1. SUFFICES ASSUME Bad # {} PROVE FALSE
    OBVIOUS
  <2>2. PICK c \in Bad : \A d \in Bad : c <= d
    <3>1. Bad \in SUBSET Nat
      OBVIOUS
    <3> QED BY <2>1, <3>1, LeastElement
  <2>3. PICK T : FiniteNumbers(T) /\ Cardinality(T) = c /\ ~ RanksTaken(T)
    BY <2>2
  <2>4. PICK n \in 1 .. c : \A x \in T : Rank(T, x) # n
    BY <2>3 DEF RanksTaken
  <2>5. c \in Nat /\ c # 0
    BY <2>2, <2>4
  <2>6. T # {} /\ T \in SUBSET Nat
    BY <2>3, <2>5, FS_EmptySet DEF FiniteNumbers
  <2>7. PICK m \in T : \A y \in T : m <= y
    BY <2>6, LeastElement
  <2> DEFINE U == T \ {m}
  <2>8. /\ FiniteNumbers(U) /\ Cardinality(U) = c - 1
        /\ Rank(T, m) = 1
        /\ \A x \in U : Rank(T, x) = Rank(U, x) + 1
    BY <2>3, <2>7, RankWithoutLeast
  <2>9. RanksTaken(U)
    <3>1. c - 1 \in Nat /\ ~ (c <= c - 1)
      BY <2>5
    <3>2. c - 1 \notin Bad
      BY <2>2, <3>1
    <3> HIDE DEF U
    <3> QED BY <2>8, <3>1, <3>2
  <2>10. n # 1
    BY <2>4, <2>7, <2>8
  <2>11. n - 1 \in 1 .. Cardinality(U)
    BY <2>4, <2>5, <2>8, <2>10
  <2>12. PICK x \in U : Rank(U, x) = n - 1
    BY <2>9, <2>11 DEF RanksTaken
  <2>13. Rank(T, x) = n /\ x \in T
    BY <2>4, <2>8, <2>12
  <2> QED BY <2>4, <2>13
<1>2. Cardinality(S) \in Nat
  BY CountIsNat
<1> QED BY <1>1, <1>2

LEMMA InOrderIsByRank ==
  ASSUME NEW S
  PROVE  InOrder(S) = [n \in 1 .. Cardinality(S) |-> CHOOSE x \in S : Rank(S, x) = n]
BY DEF InOrder, Rank, Below

LEMMA InOrderRanks ==
  ASSUME NEW S, FiniteNumbers(S), NEW n \in 1 .. Cardinality(S)
  PROVE  InOrder(S)[n] \in S /\ Rank(S, InOrder(S)[n]) = n
<1>1. \E x \in S : Rank(S, x) = n
  BY RanksAreTaken DEF RanksTaken
<1>2. InOrder(S)[n] = CHOOSE x \in S : Rank(S, x) = n
  BY InOrderIsByRank
<1> QED BY <1>1, <1>2

(* The one of rank n is the nth.                                           *)
LEMMA InOrderAtRank ==
  ASSUME NEW S, FiniteNumbers(S), NEW x \in S
  PROVE  /\ Rank(S, x) \in 1 .. Cardinality(S)
         /\ InOrder(S)[Rank(S, x)] = x
<1>1. Rank(S, x) \in 1 .. Cardinality(S)
  BY RankIsPositive
<1>2. InOrder(S)[Rank(S, x)] \in S /\ Rank(S, InOrder(S)[Rank(S, x)]) = Rank(S, x)
  BY <1>1, InOrderRanks
<1> QED BY <1>1, <1>2, RankIsUnique

LEMMA InOrderIsASequence ==
  ASSUME NEW S, FiniteNumbers(S)
  PROVE  /\ InOrder(S) \in Seq(S) /\ InOrder(S) \in Seq(Nat)
         /\ Len(InOrder(S)) = Cardinality(S)
         /\ DOMAIN InOrder(S) = 1 .. Cardinality(S)
<1>1. Cardinality(S) \in Nat /\ S \in SUBSET Nat
  BY CountIsNat DEF FiniteNumbers
<1>2. InOrder(S) \in [1 .. Cardinality(S) -> S]
  <2>1. \A n \in 1 .. Cardinality(S) : (CHOOSE x \in S : Rank(S, x) = n) \in S
    BY RanksAreTaken DEF RanksTaken
  <2> QED BY <2>1, InOrderIsByRank
<1>3. InOrder(S) \in Seq(S)
  BY <1>1, <1>2, SeqDef
<1>4. InOrder(S) \in Seq(Nat)
  BY <1>1, <1>3, SeqMonotonic
<1> QED BY <1>1, <1>2, <1>3, <1>4, LenProperties

(* A later one is greater, and there is none between two neighbours.       *)
LEMMA InOrderAscends ==
  ASSUME NEW S, FiniteNumbers(S), NEW i \in 1 .. Cardinality(S), NEW j \in 1 .. Cardinality(S)
  PROVE  i < j <=> InOrder(S)[i] < InOrder(S)[j]
<1> DEFINE x == InOrder(S)[i]
           y == InOrder(S)[j]
<1>1. x \in S /\ y \in S /\ Rank(S, x) = i /\ Rank(S, y) = j
  BY InOrderRanks
<1>2. x \in Nat /\ y \in Nat /\ i \in Nat /\ j \in Nat
  <2>1. S \in SUBSET Nat /\ Cardinality(S) \in Nat
    BY CountIsNat DEF FiniteNumbers
  <2> HIDE DEF x, y
  <2> QED BY <1>1, <2>1
<1> HIDE DEF x, y
<1>3. x < y => i < j
  BY <1>1, RankAscends
<1>4. y < x => j < i
  BY <1>1, RankAscends
<1>5. x = y => i = j
  BY <1>1
<1>6. i < j <=> x < y
  BY <1>2, <1>3, <1>4, <1>5
<1> QED BY <1>6 DEF x, y

(* One more sequence element, told by its length and its elements.         *)
LEMMA IsAppend ==
  ASSUME NEW E, NEW s \in Seq(E), NEW e \in E, NEW t \in Seq(E),
         Len(t) = Len(s) + 1,
         \A i \in 1 .. Len(s) : t[i] = s[i],
         t[Len(s) + 1] = e
  PROVE  t = Append(s, e)
<1> DEFINE a == Append(s, e)
<1>1. /\ a \in Seq(E) /\ Len(a) = Len(s) + 1
      /\ \A i \in 1 .. Len(s) : a[i] = s[i]
      /\ a[Len(s) + 1] = e
  BY AppendProperties
<1>2. Len(s) \in Nat
  BY LenProperties
<1> HIDE DEF a
<1>3. \A i \in 1 .. Len(t) : t[i] = a[i]
  <2>1. \A i \in 1 .. Len(t) : i \in 1 .. Len(s) \/ i = Len(s) + 1
    BY <1>2
  <2> QED BY <1>1, <2>1
<1>4. t = a
  BY <1>1, <1>3, SeqEqual
<1> QED BY <1>4 DEF a

(* A number behind all others comes last.                                  *)
LEMMA InOrderWithLast ==
  ASSUME NEW S, FiniteNumbers(S), NEW x \in Nat, \A y \in S : y < x
  PROVE  /\ FiniteNumbers(S \cup {x})
         /\ Cardinality(S \cup {x}) = Cardinality(S) + 1
         /\ InOrder(S \cup {x}) = Append(InOrder(S), x)
<1> DEFINE T == S \cup {x}
           C == Cardinality(S)
<1>1. S \in SUBSET Nat /\ IsFiniteSet(S) /\ C \in Nat
  BY CountIsNat DEF FiniteNumbers
<1>2. x \notin S
  BY <1>1
<1>3. IsFiniteSet(T) /\ Cardinality(T) = C + 1
  BY <1>1, <1>2, FS_AddElement
<1>4. FiniteNumbers(T)
  BY <1>1, <1>3 DEF FiniteNumbers
<1>5. ASSUME NEW y \in S
      PROVE  Rank(T, y) = Rank(S, y)
  <2>1. y \in Nat /\ ~ (x <= y)
    BY <1>1
  <2>2. Below(T, y) = Below(S, y)
    BY <2>1 DEF Below
  <2> QED BY <2>2 DEF Rank
<1>6. Rank(T, x) = C + 1
  <2>1. \A y \in T : y <= x
    BY <1>1
  <2>2. Below(T, x) = T
    BY <2>1 DEF Below
  <2> QED BY <1>3, <2>2 DEF Rank
<1> HIDE DEF T, C
<1>7. x \in T /\ S \subseteq T
  BY DEF T
<1>8. InOrder(T)[C + 1] = x
  BY <1>4, <1>6, <1>7, InOrderAtRank
<1>9. ASSUME NEW n \in 1 .. C
      PROVE  InOrder(T)[n] = InOrder(S)[n]
  <2>1. InOrder(S)[n] \in S /\ Rank(S, InOrder(S)[n]) = n
    BY InOrderRanks DEF C
  <2>2. Rank(T, InOrder(S)[n]) = n /\ InOrder(S)[n] \in T
    BY <1>5, <1>7, <2>1
  <2> QED BY <1>4, <2>2, InOrderAtRank
<1>10. /\ InOrder(S) \in Seq(Nat) /\ Len(InOrder(S)) = C
       /\ InOrder(T) \in Seq(Nat) /\ Len(InOrder(T)) = C + 1
  BY <1>3, <1>4, InOrderIsASequence DEF C
<1>11. InOrder(T) = Append(InOrder(S), x)
  BY <1>8, <1>9, <1>10, IsAppend
<1> QED BY <1>3, <1>4, <1>11 DEF T, C

-----------------------------------------------------------------------------
(* Keeping part of a sequence.                                             *)

LEMMA PositionsAreNumbers ==
  ASSUME NEW n \in Nat, NEW P \in SUBSET (1 .. n)
  PROVE  FiniteNumbers(P) /\ Cardinality(P) \in Nat
<1>1. IsFiniteSet(1 .. n)
  BY FS_Interval
<1>2. IsFiniteSet(P)
  BY <1>1, FS_Subset
<1>3. P \in SUBSET Nat
  OBVIOUS
<1> QED BY <1>2, <1>3, CountIsNat DEF FiniteNumbers

LEMMA KeptProperties ==
  ASSUME NEW E, NEW s \in Seq(E), NEW P \in SUBSET (1 .. Len(s))
  PROVE  /\ FiniteNumbers(P)
         /\ Kept(s, P) \in Seq(E)
         /\ Len(Kept(s, P)) = Cardinality(P)
         /\ \A n \in 1 .. Cardinality(P) :
              InOrder(P)[n] \in P /\ Kept(s, P)[n] = s[InOrder(P)[n]]
<1>1. Len(s) \in Nat
  BY LenProperties
<1>2. FiniteNumbers(P) /\ Cardinality(P) \in Nat
  BY <1>1, PositionsAreNumbers
<1>3. ASSUME NEW n \in 1 .. Cardinality(P)
      PROVE  InOrder(P)[n] \in P /\ s[InOrder(P)[n]] \in E
  <2>1. InOrder(P)[n] \in P
    BY <1>2, InOrderRanks
  <2> QED BY <2>1, ElementOfSeq
<1>4. Kept(s, P) \in [1 .. Cardinality(P) -> E]
  BY <1>3 DEF Kept
<1>5. Kept(s, P) \in Seq(E)
  BY <1>2, <1>4, SeqDef
<1>6. Len(Kept(s, P)) = Cardinality(P)
  BY <1>2, <1>4, <1>5, LenProperties
<1> QED BY <1>2, <1>3, <1>5, <1>6 DEF Kept

(* What is kept of a sequence is kept of a longer one ...                  *)
LEMMA KeptOfLonger ==
  ASSUME NEW E, NEW s \in Seq(E), NEW e \in E, NEW P \in SUBSET (1 .. Len(s))
  PROVE  Kept(Append(s, e), P) = Kept(s, P)
<1> DEFINE a == Append(s, e)
<1>1. /\ a \in Seq(E) /\ Len(a) = Len(s) + 1 /\ Len(s) \in Nat
      /\ \A i \in 1 .. Len(s) : a[i] = s[i]
  BY AppendProperties, LenProperties
<1> HIDE DEF a
<1>2. P \in SUBSET (1 .. Len(a))
  BY <1>1
<1>3. /\ Kept(s, P) \in Seq(E) /\ Len(Kept(s, P)) = Cardinality(P)
      /\ \A n \in 1 .. Cardinality(P) : InOrder(P)[n] \in P /\ Kept(s, P)[n] = s[InOrder(P)[n]]
  BY KeptProperties
<1>4. /\ Kept(a, P) \in Seq(E) /\ Len(Kept(a, P)) = Cardinality(P)
      /\ \A n \in 1 .. Cardinality(P) : Kept(a, P)[n] = a[InOrder(P)[n]]
  BY <1>1, <1>2, KeptProperties
<1>5. \A n \in 1 .. Len(Kept(a, P)) : Kept(a, P)[n] = Kept(s, P)[n]
  BY <1>1, <1>3, <1>4
<1>6. Kept(a, P) = Kept(s, P)
  BY <1>3, <1>4, <1>5, SeqEqual
<1> QED BY <1>6 DEF a

(* ... and its last element comes last.                                    *)
LEMMA KeptWithLast ==
  ASSUME NEW E, NEW s \in Seq(E), NEW e \in E, NEW P \in SUBSET (1 .. Len(s))
  PROVE  Kept(Append(s, e), P \cup {Len(s) + 1}) = Append(Kept(s, P), e)
<1> DEFINE a == Append(s, e)
           x == Len(s) + 1
           Q == P \cup {x}
           C == Cardinality(P)
<1>1. /\ a \in Seq(E) /\ Len(a) = x /\ Len(s) \in Nat
      /\ \A i \in 1 .. Len(s) : a[i] = s[i]
      /\ a[x] = e
  BY AppendProperties, LenProperties
<1>2. FiniteNumbers(P) /\ C \in Nat
  BY <1>1, PositionsAreNumbers
<1>3. Cardinality(Q) = C + 1 /\ InOrder(Q) = Append(InOrder(P), x)
  <2>1. x \in Nat /\ \A y \in P : y < x
    BY <1>1
  <2> HIDE DEF x
  <2> QED BY <1>2, <2>1, InOrderWithLast
<1>4. /\ Kept(s, P) \in Seq(E) /\ Len(Kept(s, P)) = C
      /\ \A n \in 1 .. C : InOrder(P)[n] \in P /\ Kept(s, P)[n] = s[InOrder(P)[n]]
  BY KeptProperties
<1>5. /\ \A n \in 1 .. C : InOrder(Q)[n] = InOrder(P)[n]
      /\ InOrder(Q)[C + 1] = x
  <2>1. InOrder(P) \in Seq(Nat) /\ Len(InOrder(P)) = C
    BY <1>2, InOrderIsASequence
  <2>2. x \in Nat
    BY <1>1
  <2> HIDE DEF C, x, Q
  <2> QED BY <1>3, <2>1, <2>2, AppendProperties
<1>6. Q \in SUBSET (1 .. Len(a))
  <2>1. \A y \in P : y \in 1 .. x
    BY <1>1
  <2>2. x \in 1 .. x
    BY <1>1
  <2> QED BY <1>1, <2>1, <2>2
<1> HIDE DEF a, C, Q, x
<1>7. /\ Kept(a, Q) \in Seq(E) /\ Len(Kept(a, Q)) = C + 1
      /\ \A n \in 1 .. (C + 1) : Kept(a, Q)[n] = a[InOrder(Q)[n]]
  <2>1. /\ Kept(a, Q) \in Seq(E) /\ Len(Kept(a, Q)) = Cardinality(Q)
        /\ \A n \in 1 .. Cardinality(Q) : Kept(a, Q)[n] = a[InOrder(Q)[n]]
    <3>1. a \in Seq(E)
      BY <1>1
    <3> QED BY <1>6, <3>1, KeptProperties
  <2> QED BY <1>3, <2>1
<1>8. \A n \in 1 .. C : Kept(a, Q)[n] = Kept(s, P)[n]
  <2>1. ASSUME NEW n \in 1 .. C
        PROVE  Kept(a, Q)[n] = Kept(s, P)[n]
    <3>1. n \in 1 .. (C + 1)
      BY <1>2
    <3>2. Kept(a, Q)[n] = a[InOrder(P)[n]]
      BY <1>5, <1>7, <3>1
    <3>3. InOrder(P)[n] \in 1 .. Len(s)
      BY <1>4
    <3> QED BY <1>1, <1>4, <3>2, <3>3
  <2> QED BY <2>1
<1>9. Kept(a, Q)[C + 1] = e
  <2>1. C + 1 \in 1 .. (C + 1)
    BY <1>2
  <2> QED BY <1>1, <1>5, <1>7, <2>1
<1>10. Kept(a, Q) = Append(Kept(s, P), e)
  BY <1>4, <1>7, <1>8, <1>9, IsAppend
<1> QED BY <1>10 DEF a, Q, x

(* The positions of what is not bad, and what they keep.                   *)
Without(s, bad) == {i \in DOMAIN s : s[i] # bad}

LEMMA UncarriagedIsKept ==
  ASSUME NEW t
  PROVE  Uncarriaged(t) = Kept(t, Without(t, CR))
BY DEF Uncarriaged, Without

LEMMA NonEmptyIsKept ==
  ASSUME NEW s
  PROVE  NonEmpty(s) = Kept(s, Without(s, << >>))
BY DEF NonEmpty, Without

LEMMA WithoutNothing ==
  ASSUME NEW bad
  PROVE  Kept(<< >>, Without(<< >>, bad)) = << >>
<1>1. Without(<< >>, bad) = {}
  BY DEF Without
<1>2. Cardinality(Without(<< >>, bad)) = 0
  BY <1>1, FS_EmptySet
<1> QED BY <1>2 DEF Kept

LEMMA WithoutProperties ==
  ASSUME NEW E, NEW s \in Seq(E), NEW bad
  PROVE  Without(s, bad) \in SUBSET (1 .. Len(s)) /\ Kept(s, Without(s, bad)) \in Seq(E)
<1>1. DOMAIN s = 1 .. Len(s)
  BY LenProperties
<1>2. Without(s, bad) \in SUBSET (1 .. Len(s))
  BY <1>1 DEF Without
<1> QED BY <1>2, KeptProperties

LEMMA WithoutAppend ==
  ASSUME NEW E, NEW s \in Seq(E), NEW e \in E, NEW bad
  PROVE  Kept(Append(s, e), Without(Append(s, e), bad)) =
           IF e = bad THEN Kept(s, Without(s, bad)) ELSE Append(Kept(s, Without(s, bad)), e)
<1> DEFINE a == Append(s, e)
           x == Len(s) + 1
           P == Without(s, bad)
<1>1. /\ a \in Seq(E) /\ Len(a) = x /\ Len(s) \in Nat
      /\ \A i \in 1 .. Len(s) : a[i] = s[i]
      /\ a[x] = e
  BY AppendProperties, LenProperties
<1>2. DOMAIN s = 1 .. Len(s) /\ DOMAIN a = 1 .. x
  BY <1>1, LenProperties
<1>3. \A i : i \in 1 .. x <=> i \in 1 .. Len(s) \/ i = x
  BY <1>1
<1>4. P \in SUBSET (1 .. Len(s))
  BY WithoutProperties
<1> HIDE DEF a, x
<1>5. \A i : i \in Without(a, bad) <=> i \in P \/ (i = x /\ e # bad)
  BY <1>1, <1>2, <1>3 DEF Without
<1> HIDE DEF P
<1>6. CASE e = bad
  <2>1. Without(a, bad) = P
    BY <1>5, <1>6
  <2>2. Kept(a, P) = Kept(s, P)
    BY <1>4, KeptOfLonger DEF a
  <2> QED BY <1>6, <2>1, <2>2 DEF a, P
<1>7. CASE e # bad
  <2>1. Without(a, bad) = P \cup {x}
    BY <1>5, <1>7
  <2>2. Kept(a, P \cup {x}) = Append(Kept(s, P), e)
    BY <1>4, KeptWithLast DEF a, x
  <2> QED BY <1>7, <2>1, <2>2 DEF a, P
<1> QED BY <1>6, <1>7

-----------------------------------------------------------------------------
(* The pieces of a sequence.                                               *)

(* The positions a piece starts behind.                                    *)
Cuts(s, c) == {0} \cup {i \in DOMAIN s : s[i] = c}

LEMMA CutsProperties ==
  ASSUME NEW E, NEW s \in Seq(E), NEW c
  PROVE  /\ Cuts(s, c) \in SUBSET (0 .. Len(s)) /\ FiniteNumbers(Cuts(s, c))
         /\ Cardinality(Cuts(s, c)) \in Nat \ {0}
         /\ InOrder(Cuts(s, c)) \in Seq(Nat)
         /\ Len(InOrder(Cuts(s, c))) = Cardinality(Cuts(s, c))
         /\ \A n \in 1 .. Cardinality(Cuts(s, c)) : InOrder(Cuts(s, c))[n] \in Cuts(s, c)
<1> DEFINE K == Cuts(s, c)
<1>1. Len(s) \in Nat /\ DOMAIN s = 1 .. Len(s)
  BY LenProperties
<1>2. K \in SUBSET (0 .. Len(s)) /\ 0 \in K
  BY <1>1 DEF Cuts
<1> HIDE DEF K
<1>3. IsFiniteSet(K)
  <2>1. IsFiniteSet(0 .. Len(s))
    BY <1>1, FS_Interval
  <2> QED BY <1>2, <2>1, FS_Subset
<1>4. FiniteNumbers(K)
  BY <1>2, <1>3 DEF FiniteNumbers
<1>5. Cardinality(K) \in Nat \ {0}
  BY <1>2, <1>3, <1>4, CountIsNat, FS_EmptySet
<1>6. InOrder(K) \in Seq(Nat) /\ Len(InOrder(K)) = Cardinality(K)
  BY <1>4, InOrderIsASequence
<1>7. \A n \in 1 .. Cardinality(K) : InOrder(K)[n] \in K
  BY <1>4, InOrderRanks
<1> QED BY <1>2, <1>4, <1>5, <1>6, <1>7 DEF K

(* Each piece ends at the next cut, the last one at the end.               *)
PieceEnd(s, c, n) ==
  IF n < Cardinality(Cuts(s, c)) THEN InOrder(Cuts(s, c))[n + 1] - 1 ELSE Len(s)

LEMMA PiecesProperties ==
  ASSUME NEW E, NEW s \in Seq(E), NEW c
  PROVE  /\ Pieces(s, c) \in Seq(Seq(E))
         /\ Len(Pieces(s, c)) = Cardinality(Cuts(s, c))
         /\ \A n \in 1 .. Cardinality(Cuts(s, c)) :
              /\ PieceEnd(s, c, n) \in 0 .. Len(s)
              /\ InOrder(Cuts(s, c))[n] \in 0 .. PieceEnd(s, c, n)
              /\ Pieces(s, c)[n] = SubSeq(s, InOrder(Cuts(s, c))[n] + 1, PieceEnd(s, c, n))
<1> DEFINE K == Cuts(s, c)
           C == Cardinality(K)
           x == Len(s) + 1
           q == InOrder(K)
           r == InOrder(K \cup {x})
           e(n) == PieceEnd(s, c, n)
           p == Pieces(s, c)
<1>1. Len(s) \in Nat
  BY LenProperties
<1>2. /\ K \in SUBSET (0 .. Len(s)) /\ FiniteNumbers(K) /\ C \in Nat \ {0}
      /\ q \in Seq(Nat) /\ Len(q) = C /\ \A n \in 1 .. C : q[n] \in K
  BY CutsProperties
<1> HIDE DEF C, q, r
<1>3. /\ Len(r) = C + 1
      /\ \A n \in 1 .. C : r[n] = q[n]
      /\ r[C + 1] = x
  <2>1. x \in Nat /\ \A y \in K : y < x
    BY <1>1, <1>2
  <2> HIDE DEF x, K
  <2>2. r = Append(q, x)
    BY <1>2, <2>1, InOrderWithLast DEF q, r
  <2> QED BY <1>2, <2>1, <2>2, AppendProperties
<1>4. p = [n \in 1 .. C |-> SubSeq(s, r[n] + 1, r[n + 1] - 1)]
  <2>1. {0, Len(s) + 1} \cup {i \in DOMAIN s : s[i] = c} = K \cup {x}
    BY DEF Cuts
  <2>2. p = [n \in 1 .. (Len(r) - 1) |-> SubSeq(s, r[n] + 1, r[n + 1] - 1)]
    BY <2>1 DEF Pieces, r
  <2>3. Len(r) - 1 = C
    BY <1>2, <1>3
  <2> QED BY <2>2, <2>3
<1>5. ASSUME NEW n \in 1 .. C
      PROVE  /\ r[n + 1] - 1 = e(n) /\ r[n] = q[n]
             /\ e(n) \in 0 .. Len(s) /\ q[n] \in 0 .. e(n)
  <2>1. q[n] \in 0 .. Len(s) /\ n \in Nat /\ n <= C
    BY <1>2
  <2>2. CASE n = C
    <3>1. e(n) = Len(s)
      BY <1>2, <2>2 DEF PieceEnd, C
    <3>2. r[n + 1] - 1 = Len(s)
      BY <1>1, <1>3, <2>2
    <3> QED BY <1>1, <1>3, <2>1, <3>1, <3>2
  <2>3. CASE n # C
    <3>1. n < C /\ n + 1 \in 1 .. C
      BY <1>2, <2>1, <2>3
    <3>2. e(n) = q[n + 1] - 1
      BY <3>1 DEF PieceEnd, C, q
    <3>3. r[n + 1] = q[n + 1] /\ q[n + 1] \in 0 .. Len(s)
      BY <1>2, <1>3, <3>1
    <3>4. q[n] < q[n + 1]
      <4>1. n < n + 1
        BY <2>1
      <4> QED BY <1>2, <3>1, <4>1, InOrderAscends DEF q, C
    <3>5. PICK y : y = q[n + 1]
      OBVIOUS
    <3>6. y \in 0 .. Len(s) /\ q[n] < y /\ q[n] \in 0 .. Len(s) /\ e(n) = y - 1
      BY <2>1, <3>2, <3>3, <3>4, <3>5
    <3>7. e(n) \in 0 .. Len(s) /\ q[n] \in 0 .. e(n)
      <4> HIDE DEF e
      <4> QED BY <1>1, <3>6
    <3>8. r[n + 1] - 1 = e(n)
      BY <3>2, <3>3
    <3> QED BY <1>3, <3>7, <3>8
  <2> QED BY <2>2, <2>3
<1> HIDE DEF e, p, x
<1>6. \A n \in 1 .. C : p[n] = SubSeq(s, q[n] + 1, e(n))
  BY <1>4, <1>5
<1>7. ASSUME NEW n \in 1 .. C
      PROVE  p[n] \in Seq(E)
  <2>1. q[n] + 1 \in Int /\ e(n) \in Int /\ q[n] + 1 >= 1 /\ e(n) <= Len(s)
    BY <1>1, <1>5
  <2>2. \A i \in (q[n] + 1) .. e(n) : i \in 1 .. Len(s)
    BY <1>1, <2>1
  <2>3. \A i \in (q[n] + 1) .. e(n) : s[i] \in E
    BY <2>2, ElementOfSeq
  <2>4. SubSeq(s, q[n] + 1, e(n)) \in Seq(E)
    BY <2>1, <2>3, SubSeqProperties
  <2> QED BY <1>6, <2>4
<1>8. p \in [1 .. C -> Seq(E)]
  BY <1>4, <1>7
<1>9. p \in Seq(Seq(E))
  BY <1>2, <1>8, SeqDef
<1>10. Len(p) = C
  BY <1>2, <1>8, <1>9, LenProperties
<1> QED BY <1>5, <1>6, <1>9, <1>10 DEF p, C, q, e

(* Slices of sequences that agree there.                                   *)
LEMMA SlicesEqual ==
  ASSUME NEW E, NEW a, NEW s, NEW m \in Int, NEW n \in Int,
         \A i \in m .. n : s[i] \in E /\ a[i] = s[i]
  PROVE  SubSeq(a, m, n) = SubSeq(s, m, n)
<1> DEFINE u == SubSeq(a, m, n)
           v == SubSeq(s, m, n)
           k == IF m <= n THEN n - m + 1 ELSE 0
<1>1. v \in Seq(E) /\ Len(v) = k /\ \A i \in 1 .. (n - m + 1) : v[i] = s[m + i - 1]
  BY SubSeqProperties
<1>2. u \in Seq(E) /\ Len(u) = k /\ \A i \in 1 .. (n - m + 1) : u[i] = a[m + i - 1]
  <2>1. \A i \in m .. n : a[i] \in E
    OBVIOUS
  <2> QED BY <2>1, SubSeqProperties
<1> HIDE DEF u, v
<1>3. \A i \in 1 .. k : i \in 1 .. (n - m + 1) /\ m + i - 1 \in m .. n
  OBVIOUS
<1>4. \A i \in 1 .. Len(u) : u[i] = v[i]
  BY <1>1, <1>2, <1>3
<1>5. u = v
  BY <1>1, <1>2, <1>4, SeqEqual
<1> QED BY <1>5 DEF u, v

(* A slice before the new element, and a slice up to it.                   *)
LEMMA SliceOfLonger ==
  ASSUME NEW E, NEW s \in Seq(E), NEW e \in E, NEW m \in Nat \ {0}, NEW n \in 0 .. Len(s)
  PROVE  SubSeq(Append(s, e), m, n) = SubSeq(s, m, n)
<1>1. Len(s) \in Nat /\ \A i \in 1 .. Len(s) : Append(s, e)[i] = s[i]
  BY AppendProperties, LenProperties
<1>2. \A i \in m .. n : i \in 1 .. Len(s)
  BY <1>1
<1>3. \A i \in m .. n : s[i] \in E /\ Append(s, e)[i] = s[i]
  BY <1>1, <1>2, ElementOfSeq
<1>4. m \in Int /\ n \in Int
  BY <1>1
<1> QED BY <1>3, <1>4, SlicesEqual

LEMMA SliceUpToLast ==
  ASSUME NEW E, NEW s \in Seq(E), NEW e \in E, NEW m \in 1 .. (Len(s) + 1)
  PROVE  SubSeq(Append(s, e), m, Len(s) + 1) = Append(SubSeq(s, m, Len(s)), e)
<1> DEFINE a == Append(s, e)
           x == Len(s) + 1
<1>1. /\ a \in Seq(E) /\ Len(a) = x /\ Len(s) \in Nat
      /\ \A i \in 1 .. Len(s) : a[i] = s[i]
      /\ a[x] = e
  BY AppendProperties, LenProperties
<1> HIDE DEF a
<1>2. m \in Int /\ x \in Int /\ Len(s) \in Int /\ m <= x /\ m >= 1
  BY <1>1
<1> DEFINE u == SubSeq(a, m, x)
           v == SubSeq(s, m, Len(s))
<1>3. v \in Seq(E) /\ Len(v) = x - m /\ \A i \in 1 .. (x - m) : v[i] = s[m + i - 1]
  <2>1. \A i \in m .. Len(s) : i \in 1 .. Len(s)
    BY <1>2
  <2>2. \A i \in m .. Len(s) : s[i] \in E
    BY <2>1, ElementOfSeq
  <2>3. /\ v \in Seq(E)
        /\ Len(v) = IF m <= Len(s) THEN Len(s) - m + 1 ELSE 0
        /\ \A i \in 1 .. (Len(s) - m + 1) : v[i] = s[m + i - 1]
    BY <1>2, <2>2, SubSeqProperties
  <2>4. Len(s) - m + 1 = x - m /\ (~ (m <= Len(s)) => x - m = 0)
    BY <1>2
  <2> QED BY <2>3, <2>4
<1>4. u \in Seq(E) /\ Len(u) = x - m + 1 /\ \A i \in 1 .. (x - m + 1) : u[i] = a[m + i - 1]
  <2>1. \A i \in m .. x : i \in 1 .. Len(a)
    BY <1>1, <1>2
  <2>2. \A i \in m .. x : a[i] \in E
    BY <1>1, <2>1, ElementOfSeq
  <2> HIDE DEF x
  <2> QED BY <1>2, <2>2, SubSeqProperties
<1> HIDE DEF u, v
<1>5. \A i \in 1 .. Len(v) : u[i] = v[i]
  <2>1. ASSUME NEW i \in 1 .. (x - m)
        PROVE  u[i] = v[i]
    <3>1. i \in 1 .. (x - m + 1) /\ m + i - 1 \in 1 .. Len(s)
      BY <1>2
    <3> QED BY <1>1, <1>3, <1>4, <3>1
  <2> QED BY <1>3, <2>1
<1>6. Len(u) = Len(v) + 1 /\ u[Len(v) + 1] = e
  <2>1. PICK d : d = x - m + 1
    OBVIOUS
  <2>2. d \in 1 .. (x - m + 1) /\ m + d - 1 = x /\ Len(v) + 1 = d /\ Len(u) = d
    BY <1>2, <1>3, <1>4, <2>1
  <2>3. u[d] = a[x]
    BY <1>4, <2>2
  <2> QED BY <1>1, <2>2, <2>3
<1>7. u = Append(v, e)
  BY <1>3, <1>4, <1>5, <1>6, IsAppend
<1> QED BY <1>7 DEF a, u, v, x

LEMMA CutsAppend ==
  ASSUME NEW E, NEW s \in Seq(E), NEW e \in E, NEW c
  PROVE  Cuts(Append(s, e), c) =
           IF e = c THEN Cuts(s, c) \cup {Len(s) + 1} ELSE Cuts(s, c)
<1> DEFINE a == Append(s, e)
           x == Len(s) + 1
<1>1. /\ a \in Seq(E) /\ Len(a) = x /\ Len(s) \in Nat
      /\ \A i \in 1 .. Len(s) : a[i] = s[i]
      /\ a[x] = e
  BY AppendProperties, LenProperties
<1>2. DOMAIN s = 1 .. Len(s) /\ DOMAIN a = 1 .. x
  BY <1>1, LenProperties
<1>3. \A i : i \in 1 .. x <=> i \in 1 .. Len(s) \/ i = x
  BY <1>1
<1> HIDE DEF a, x
<1>4. \A i : i \in Cuts(a, c) <=> i \in Cuts(s, c) \/ (i = x /\ e = c)
  BY <1>1, <1>2, <1>3 DEF Cuts
<1>5. Cuts(a, c) = IF e = c THEN Cuts(s, c) \cup {x} ELSE Cuts(s, c)
  BY <1>4
<1> QED BY <1>5 DEF a, x

(* All elements but the last, and the last.                                *)
SplitAt(E, p, C) ==
  /\ Front(p) \in Seq(E) /\ Len(Front(p)) = C - 1
  /\ \A n \in 1 .. (C - 1) : Front(p)[n] = p[n]
  /\ Last(p) = p[C] /\ Last(p) \in E
  /\ p = Append(Front(p), Last(p))

LEMMA FrontAndLast ==
  ASSUME NEW E, NEW p \in Seq(E), NEW C, C \in Nat \ {0}, Len(p) = C
  PROVE  SplitAt(E, p, C)
<1>1. \A i \in 1 .. (C - 1) : i \in 1 .. Len(p)
  OBVIOUS
<1>2. \A i \in 1 .. (C - 1) : p[i] \in E
  BY <1>1, ElementOfSeq
<1>3. /\ SubSeq(p, 1, C - 1) \in Seq(E)
      /\ Len(SubSeq(p, 1, C - 1)) = IF 1 <= C - 1 THEN C - 1 - 1 + 1 ELSE 0
      /\ \A i \in 1 .. (C - 1 - 1 + 1) : SubSeq(p, 1, C - 1)[i] = p[1 + i - 1]
  <2>1. 1 \in Int /\ C - 1 \in Int
    OBVIOUS
  <2> QED BY <1>2, <2>1, SubSeqProperties
<1>4. Front(p) = SubSeq(p, 1, C - 1)
  BY DEF Front
<1>5. /\ Front(p) \in Seq(E) /\ Len(Front(p)) = C - 1
      /\ \A n \in 1 .. (C - 1) : Front(p)[n] = p[n]
  BY <1>3, <1>4
<1>6. Last(p) = p[C] /\ Last(p) \in E
  BY ElementOfSeq DEF Last
<1>7. p = Append(Front(p), Last(p))
  <2> DEFINE f == Front(p)
             l == Last(p)
  <2>1. /\ f \in Seq(E) /\ l \in E /\ Len(p) = Len(f) + 1
        /\ \A n \in 1 .. Len(f) : p[n] = f[n]
        /\ p[Len(f) + 1] = l
    BY <1>5, <1>6
  <2> HIDE DEF f, l
  <2>2. p = Append(f, l)
    BY <2>1, IsAppend
  <2> QED BY <2>2 DEF f, l
<1> QED BY <1>5, <1>6, <1>7 DEF SplitAt

LEMMA PiecesFrontAndLast ==
  ASSUME NEW E, NEW s \in Seq(E), NEW c
  PROVE  /\ Front(Pieces(s, c)) \in Seq(Seq(E))
         /\ Last(Pieces(s, c)) \in Seq(E)
         /\ Pieces(s, c) = Append(Front(Pieces(s, c)), Last(Pieces(s, c)))
<1>1. Pieces(s, c) \in Seq(Seq(E)) /\ Len(Pieces(s, c)) = Cardinality(Cuts(s, c))
  BY PiecesProperties
<1>2. Cardinality(Cuts(s, c)) \in Nat \ {0}
  BY CutsProperties
<1>3. SplitAt(Seq(E), Pieces(s, c), Cardinality(Cuts(s, c)))
  BY <1>1, <1>2, FrontAndLast
<1> QED BY <1>3 DEF SplitAt

(* An element that is no delimiter goes on with the last piece ...         *)
LEMMA PiecesGoOn ==
  ASSUME NEW E, NEW s \in Seq(E), NEW e \in E, NEW c, e # c
  PROVE  /\ Front(Pieces(Append(s, e), c)) = Front(Pieces(s, c))
         /\ Last(Pieces(Append(s, e), c)) = Append(Last(Pieces(s, c)), e)
<1> DEFINE a == Append(s, e)
           K == Cuts(s, c)
           C == Cardinality(K)
           q == InOrder(K)
           u == Pieces(a, c)
           v == Pieces(s, c)
           x == Len(s) + 1
<1>1. a \in Seq(E) /\ Len(a) = x /\ Len(s) \in Nat
  BY AppendProperties, LenProperties
<1>2. Cuts(a, c) = K
  BY CutsAppend
<1>3. C \in Nat \ {0}
  BY CutsProperties
<1>4. /\ v \in Seq(Seq(E)) /\ Len(v) = C
      /\ \A n \in 1 .. C : /\ PieceEnd(s, c, n) \in 0 .. Len(s)
                           /\ q[n] \in 0 .. PieceEnd(s, c, n)
                           /\ v[n] = SubSeq(s, q[n] + 1, PieceEnd(s, c, n))
  BY PiecesProperties
<1>5. /\ u \in Seq(Seq(E)) /\ Len(u) = C
      /\ \A n \in 1 .. C : u[n] = SubSeq(a, q[n] + 1, PieceEnd(a, c, n))
  <2> HIDE DEF a
  <2> QED BY <1>1, <1>2, PiecesProperties
<1>6. /\ Front(v) \in Seq(Seq(E)) /\ Len(Front(v)) = C - 1
      /\ \A n \in 1 .. (C - 1) : Front(v)[n] = v[n]
      /\ Last(v) = v[C]
  <2>1. v \in Seq(Seq(E)) /\ Len(v) = C
    BY <1>4
  <2> HIDE DEF v, C
  <2>2. SplitAt(Seq(E), v, C)
    BY <1>3, <2>1, FrontAndLast
  <2> QED BY <2>2 DEF SplitAt
<1>7. /\ Front(u) \in Seq(Seq(E)) /\ Len(Front(u)) = C - 1
      /\ \A n \in 1 .. (C - 1) : Front(u)[n] = u[n]
      /\ Last(u) = u[C]
  <2>1. u \in Seq(Seq(E)) /\ Len(u) = C
    BY <1>5
  <2> HIDE DEF u, C
  <2>2. SplitAt(Seq(E), u, C)
    BY <1>3, <2>1, FrontAndLast
  <2> QED BY <2>2 DEF SplitAt
<1>8. ASSUME NEW n \in 1 .. (C - 1)
      PROVE  u[n] = v[n]
  <2>1. n \in 1 .. C /\ n < C
    BY <1>3
  <2>2. PieceEnd(a, c, n) = PieceEnd(s, c, n)
    BY <1>2, <2>1 DEF PieceEnd
  <2>3. q[n] + 1 \in Nat \ {0} /\ PieceEnd(s, c, n) \in 0 .. Len(s)
    <3> HIDE DEF C, q, u, v
    <3>1. PieceEnd(s, c, n) \in 0 .. Len(s) /\ q[n] \in 0 .. PieceEnd(s, c, n)
      BY <1>4, <2>1
    <3> QED BY <1>1, <3>1
  <2> HIDE DEF C, q, u, v
  <2>4. SubSeq(a, q[n] + 1, PieceEnd(s, c, n)) = SubSeq(s, q[n] + 1, PieceEnd(s, c, n))
    BY <2>3, SliceOfLonger
  <2> QED BY <1>4, <1>5, <2>1, <2>2, <2>4
<1>9. u[C] = Append(v[C], e)
  <2>1. C \in 1 .. C /\ ~ (C < C)
    BY <1>3
  <2>2. PieceEnd(s, c, C) = Len(s) /\ PieceEnd(a, c, C) = x
    BY <1>1, <1>2, <2>1 DEF PieceEnd
  <2>3. q[C] \in 0 .. Len(s)
    BY <1>4, <2>1, <2>2
  <2>4. q[C] + 1 \in 1 .. (Len(s) + 1)
    BY <1>1, <2>3
  <2> HIDE DEF C, q, u, v
  <2>5. SubSeq(a, q[C] + 1, x) = Append(SubSeq(s, q[C] + 1, Len(s)), e)
    BY <2>4, SliceUpToLast
  <2> QED BY <1>4, <1>5, <2>1, <2>2, <2>5
<1> HIDE DEF a, C, u, v
<1>10. Front(u) = Front(v)
  <2>1. \A n \in 1 .. Len(Front(u)) : Front(u)[n] = Front(v)[n]
    BY <1>6, <1>7, <1>8
  <2> QED BY <1>6, <1>7, <2>1, SeqEqual
<1>11. Last(u) = Append(Last(v), e)
  BY <1>6, <1>7, <1>9
<1> QED BY <1>10, <1>11 DEF a, u, v

(* ... and a delimiter ends it.                                            *)
LEMMA PiecesCutOff ==
  ASSUME NEW E, NEW s \in Seq(E), NEW c \in E
  PROVE  /\ Front(Pieces(Append(s, c), c)) = Pieces(s, c)
         /\ Last(Pieces(Append(s, c), c)) = << >>
<1> DEFINE a == Append(s, c)
           K == Cuts(s, c)
           C == Cardinality(K)
           q == InOrder(K)
           x == Len(s) + 1
           L == K \cup {x}
           r == InOrder(L)
           u == Pieces(a, c)
           v == Pieces(s, c)
<1>1. a \in Seq(E) /\ Len(a) = x /\ Len(s) \in Nat
  BY AppendProperties, LenProperties
<1>2. Cuts(a, c) = L
  BY CutsAppend
<1>3. /\ C \in Nat \ {0} /\ K \in SUBSET (0 .. Len(s)) /\ FiniteNumbers(K)
      /\ q \in Seq(Nat) /\ Len(q) = C
  BY CutsProperties
<1>4. Cardinality(L) = C + 1 /\ \A n \in 1 .. C : r[n] = q[n]
  <2>1. x \in Nat /\ \A y \in K : y < x
    BY <1>1, <1>3
  <2> HIDE DEF x, K
  <2>2. Cardinality(L) = C + 1 /\ r = Append(q, x)
    BY <1>3, <2>1, InOrderWithLast
  <2> HIDE DEF C, q, r, L
  <2> QED BY <1>3, <2>1, <2>2, AppendProperties
<1>5. r[C + 1] = x
  <2>1. x \in Nat /\ \A y \in K : y < x
    BY <1>1, <1>3
  <2> HIDE DEF x, K
  <2>2. r = Append(q, x)
    BY <1>3, <2>1, InOrderWithLast
  <2> HIDE DEF C, q, r, L
  <2> QED BY <1>3, <2>1, <2>2, AppendProperties
<1>6. /\ v \in Seq(Seq(E)) /\ Len(v) = C
      /\ \A n \in 1 .. C : /\ PieceEnd(s, c, n) \in 0 .. Len(s)
                           /\ q[n] \in 0 .. PieceEnd(s, c, n)
                           /\ v[n] = SubSeq(s, q[n] + 1, PieceEnd(s, c, n))
  BY PiecesProperties
<1>7. /\ u \in Seq(Seq(E)) /\ Len(u) = C + 1
      /\ \A n \in 1 .. (C + 1) : u[n] = SubSeq(a, r[n] + 1, PieceEnd(a, c, n))
  <2>1. /\ u \in Seq(Seq(E)) /\ Len(u) = Cardinality(L)
        /\ \A n \in 1 .. Cardinality(L) : u[n] = SubSeq(a, r[n] + 1, PieceEnd(a, c, n))
    <3> HIDE DEF a, L
    <3> QED BY <1>1, <1>2, PiecesProperties
  <2> QED BY <1>4, <2>1
<1>8. /\ Front(u) \in Seq(Seq(E)) /\ Len(Front(u)) = C
      /\ \A n \in 1 .. C : Front(u)[n] = u[n]
      /\ Last(u) = u[C + 1]
  <2> DEFINE D == C + 1
  <2>1. D \in Nat \ {0} /\ D - 1 = C
    BY <1>3
  <2>2. u \in Seq(Seq(E)) /\ Len(u) = D
    BY <1>7
  <2> HIDE DEF u, C, D
  <2>3. SplitAt(Seq(E), u, D)
    BY <2>1, <2>2, FrontAndLast
  <2>4. /\ Front(u) \in Seq(Seq(E)) /\ Len(Front(u)) = D - 1
        /\ \A n \in 1 .. (D - 1) : Front(u)[n] = u[n]
        /\ Last(u) = u[D]
    BY <2>3 DEF SplitAt
  <2> QED BY <2>1, <2>4 DEF D
<1>9. ASSUME NEW n \in 1 .. C
      PROVE  u[n] = v[n]
  <2>1. n \in 1 .. (C + 1) /\ n < C + 1 /\ n \in Nat
    BY <1>3
  <2>2. PieceEnd(a, c, n) = r[n + 1] - 1
    <3> HIDE DEF L, C, a
    <3> QED BY <1>2, <1>4, <2>1 DEF PieceEnd
  <2>3. PieceEnd(a, c, n) = PieceEnd(s, c, n)
    <3>1. CASE n < C
      <4>1. n + 1 \in 1 .. C
        BY <1>3, <2>1, <3>1
      <4>2. r[n + 1] = q[n + 1]
        BY <1>4, <4>1
      <4> QED BY <2>2, <3>1, <4>2 DEF PieceEnd
    <3>2. CASE ~ (n < C)
      <4>1. n = C
        BY <1>3, <2>1, <3>2
      <4>2. PieceEnd(s, c, n) = Len(s)
        BY <3>2 DEF PieceEnd
      <4>3. r[n + 1] - 1 = Len(s)
        BY <1>1, <1>5, <4>1
      <4> QED BY <2>2, <4>2, <4>3
    <3> QED BY <3>1, <3>2
  <2>4. q[n] + 1 \in Nat \ {0} /\ PieceEnd(s, c, n) \in 0 .. Len(s)
    <3> HIDE DEF C, q, u, v, r
    <3>1. PieceEnd(s, c, n) \in 0 .. Len(s) /\ q[n] \in 0 .. PieceEnd(s, c, n)
      BY <1>6
    <3> QED BY <1>1, <3>1
  <2> HIDE DEF C, q, u, v, r
  <2>5. SubSeq(a, q[n] + 1, PieceEnd(s, c, n)) = SubSeq(s, q[n] + 1, PieceEnd(s, c, n))
    BY <2>4, SliceOfLonger
  <2> QED BY <1>4, <1>6, <1>7, <2>1, <2>3, <2>5
<1>10. u[C + 1] = << >>
  <2>1. C + 1 \in 1 .. (C + 1) /\ ~ (C + 1 < C + 1)
    BY <1>3
  <2>2. PieceEnd(a, c, C + 1) = x
    <3> HIDE DEF L, C, a
    <3> QED BY <1>1, <1>2, <1>4, <2>1 DEF PieceEnd
  <2>3. u[C + 1] = SubSeq(a, x + 1, x)
    BY <1>5, <1>7, <2>1, <2>2
  <2>4. x + 1 \in Int /\ x \in Int /\ x < x + 1
    BY <1>1
  <2> HIDE DEF a, x, u
  <2> QED BY <2>3, <2>4, SubSeqEmpty
<1> HIDE DEF a, C, u, v
<1>11. Front(u) = v
  <2>1. \A n \in 1 .. Len(Front(u)) : Front(u)[n] = v[n]
    BY <1>8, <1>9
  <2> QED BY <1>6, <1>8, <2>1, SeqEqual
<1>12. Last(u) = << >>
  BY <1>8, <1>10
<1> QED BY <1>11, <1>12 DEF a, u, v

(* Nothing is one piece, with nothing in it.                               *)
LEMMA PiecesOfNothing ==
  ASSUME NEW c
  PROVE  Front(Pieces(<< >>, c)) = << >> /\ Last(Pieces(<< >>, c)) = << >>
<1>1. Cuts(<< >>, c) = {0}
  BY DEF Cuts
<1>2. Cardinality(Cuts(<< >>, c)) = 1
  BY <1>1, FS_Singleton
<1>3. << >> \in Seq({0}) /\ Len(<< >>) = 0
  BY EmptySeq
<1> DEFINE E == {0}
           e == << >>
           p == Pieces(e, c)
           q == InOrder(Cuts(e, c))
<1>4. e \in Seq(E) /\ Len(e) = 0 /\ Cardinality(Cuts(e, c)) = 1
  BY <1>2, <1>3
<1> HIDE DEF e, E
<1>5. /\ p \in Seq(Seq(E)) /\ Len(p) = 1
      /\ p[1] = SubSeq(e, q[1] + 1, PieceEnd(e, c, 1))
      /\ q[1] \in 0 .. PieceEnd(e, c, 1)
  <2>1. /\ p \in Seq(Seq(E)) /\ Len(p) = Cardinality(Cuts(e, c))
        /\ \A n \in 1 .. Cardinality(Cuts(e, c)) :
             /\ q[n] \in 0 .. PieceEnd(e, c, n)
             /\ p[n] = SubSeq(e, q[n] + 1, PieceEnd(e, c, n))
    <3>1. e \in Seq(E)
      BY <1>4
    <3> QED BY <3>1, PiecesProperties
  <2>2. 1 \in 1 .. 1
    OBVIOUS
  <2> HIDE DEF p, q
  <2> QED BY <1>4, <2>1, <2>2
<1>6. PieceEnd(e, c, 1) = 0
  BY <1>4 DEF PieceEnd
<1>7. p[1] = << >>
  <2>1. q[1] + 1 \in Int /\ 0 \in Int /\ 0 < q[1] + 1
    BY <1>5, <1>6
  <2>2. SubSeq(e, q[1] + 1, 0) = << >>
    BY <2>1, SubSeqEmpty
  <2> QED BY <1>5, <1>6, <2>2
<1> HIDE DEF p
<1>8. p \in Seq(Seq(E)) /\ Len(p) = 1
  BY <1>5
<1>9. Front(p) \in Seq(Seq(E)) /\ Len(Front(p)) = 0 /\ Last(p) = p[1]
  <2>1. PICK C \in Nat \ {0} : C = 1
    OBVIOUS
  <2>2. SplitAt(Seq(E), p, C)
    BY <1>8, <2>1, FrontAndLast
  <2> QED BY <2>1, <2>2 DEF SplitAt
<1>10. Front(p) = << >> /\ Last(p) = << >>
  BY <1>7, <1>9, EmptySeq
<1> QED BY <1>10 DEF p, e

-----------------------------------------------------------------------------
(* The lines of a text.                                                    *)

LEMMA NonEmptyProperties ==
  ASSUME NEW E, NEW s \in Seq(E)
  PROVE  NonEmpty(s) \in Seq(E)
BY WithoutProperties, NonEmptyIsKept

LEMMA NonEmptyAppend ==
  ASSUME NEW E, NEW s \in Seq(E), NEW e \in E
  PROVE  NonEmpty(Append(s, e)) = IF e = << >> THEN NonEmpty(s) ELSE Append(NonEmpty(s), e)
BY WithoutAppend, NonEmptyIsKept

LEMMA UncarriagedProperties ==
  ASSUME NEW t \in Seq(Char)
  PROVE  Uncarriaged(t) \in Seq(Char)
BY WithoutProperties, UncarriagedIsKept

LEMMA UncarriagedAppend ==
  ASSUME NEW t \in Seq(Char), NEW c \in Char
  PROVE  Uncarriaged(Append(t, c)) =
           IF c = CR THEN Uncarriaged(t) ELSE Append(Uncarriaged(t), c)
BY WithoutAppend, UncarriagedIsKept

LEMMA LinesProperties ==
  ASSUME NEW t \in Seq(Char)
  PROVE  LinesOf(t) \in Seq(Seq(Char)) /\ UnendedOf(t) \in Seq(Char)
<1>1. Uncarriaged(t) \in Seq(Char)
  BY UncarriagedProperties
<1>2. /\ Front(Pieces(Uncarriaged(t), LF)) \in Seq(Seq(Char))
      /\ Last(Pieces(Uncarriaged(t), LF)) \in Seq(Char)
  BY <1>1, PiecesFrontAndLast
<1> QED BY <1>2, NonEmptyProperties DEF LinesOf, UnendedOf

LEMMA LinesOfNothing == LinesOf(<< >>) = << >> /\ UnendedOf(<< >>) = << >>
<1>1. Uncarriaged(<< >>) = << >>
  BY WithoutNothing, UncarriagedIsKept
<1>2. NonEmpty(<< >>) = << >>
  BY WithoutNothing, NonEmptyIsKept
<1> QED BY <1>1, <1>2, PiecesOfNothing DEF LinesOf, UnendedOf

(* What the assumption on the characters is needed for.                    *)
LEMMA Distinct ==
  /\ CR # LF /\ CR # NUL /\ LF # NUL /\ Delimiter # CR /\ Delimiter # LF /\ Delimiter # NUL
  /\ NUL \notin Char /\ Nothing \notin Int
<1> DEFINE s == <<CR, LF, NUL, Delimiter, Nothing>>
<1>1. \A i, j \in 1 .. 5 : s[i] = s[j] => i = j
  BY DistinctAssumption
<1>2. s[1] # s[2] /\ s[1] # s[3] /\ s[2] # s[3] /\ s[4] # s[1] /\ s[4] # s[2] /\ s[4] # s[3]
  BY <1>1
<1>3. NUL \notin Letter
  BY DistinctAssumption
<1> QED BY <1>2, <1>3, DistinctAssumption DEF Char

(* What one more character does to the lines of a text.                    *)
LEMMA LinesWithCarriage ==
  ASSUME NEW t \in Seq(Char)
  PROVE  /\ LinesOf(Append(t, CR)) = LinesOf(t)
         /\ UnendedOf(Append(t, CR)) = UnendedOf(t)
<1>1. CR \in Char
  BY DEF Char
<1>2. Uncarriaged(Append(t, CR)) = Uncarriaged(t)
  BY <1>1, UncarriagedAppend
<1> QED BY <1>2 DEF LinesOf, UnendedOf

LEMMA LinesWithNewline ==
  ASSUME NEW t \in Seq(Char)
  PROVE  /\ LinesOf(Append(t, LF)) =
              IF UnendedOf(t) = << >> THEN LinesOf(t) ELSE Append(LinesOf(t), UnendedOf(t))
         /\ UnendedOf(Append(t, LF)) = << >>
<1> DEFINE u == Uncarriaged(t)
           f == Front(Pieces(u, LF))
           l == Last(Pieces(u, LF))
<1>1. LF \in Char
  BY DEF Char
<1>2. Uncarriaged(Append(t, LF)) = Append(u, LF)
  BY <1>1, UncarriagedAppend, Distinct
<1>3. u \in Seq(Char)
  BY UncarriagedProperties
<1> HIDE DEF u
<1>4. f \in Seq(Seq(Char)) /\ l \in Seq(Char) /\ Pieces(u, LF) = Append(f, l)
  BY <1>3, PiecesFrontAndLast
<1>5. /\ Front(Pieces(Append(u, LF), LF)) = Pieces(u, LF)
      /\ Last(Pieces(Append(u, LF), LF)) = << >>
  BY <1>1, <1>3, PiecesCutOff
<1>6. LinesOf(t) = NonEmpty(f) /\ UnendedOf(t) = l
  BY DEF LinesOf, UnendedOf, u
<1>7. /\ LinesOf(Append(t, LF)) = NonEmpty(Append(f, l))
      /\ UnendedOf(Append(t, LF)) = << >>
  BY <1>2, <1>4, <1>5 DEF LinesOf, UnendedOf
<1> HIDE DEF f, l
<1>8. NonEmpty(Append(f, l)) = IF l = << >> THEN NonEmpty(f) ELSE Append(NonEmpty(f), l)
  BY <1>4, NonEmptyAppend
<1> QED BY <1>6, <1>7, <1>8

LEMMA LinesWithLetter ==
  ASSUME NEW t \in Seq(Char), NEW c \in Char \ {CR, LF}
  PROVE  /\ LinesOf(Append(t, c)) = LinesOf(t)
         /\ UnendedOf(Append(t, c)) = Append(UnendedOf(t), c)
<1> DEFINE u == Uncarriaged(t)
<1>1. Uncarriaged(Append(t, c)) = Append(u, c)
  BY UncarriagedAppend
<1>2. u \in Seq(Char)
  BY UncarriagedProperties
<1> HIDE DEF u
<1>3. /\ Front(Pieces(Append(u, c), LF)) = Front(Pieces(u, LF))
      /\ Last(Pieces(Append(u, c), LF)) = Append(Last(Pieces(u, LF)), c)
  BY <1>2, PiecesGoOn
<1> QED BY <1>1, <1>3 DEF LinesOf, UnendedOf, u

(* The lines of a text so far are the first lines of the text.             *)
StartsWith(s, t) == Len(t) <= Len(s) /\ \A i \in 1 .. Len(t) : s[i] = t[i]

LEMMA LinesGrow ==
  ASSUME NEW t \in Seq(Char), NEW c \in Char
  PROVE  StartsWith(LinesOf(Append(t, c)), LinesOf(t))
<1>1. LinesOf(t) \in Seq(Seq(Char)) /\ UnendedOf(t) \in Seq(Char) /\ Len(LinesOf(t)) \in Nat
  BY LinesProperties, LenProperties
<1>2. LinesOf(Append(t, c)) = LinesOf(t) \/ LinesOf(Append(t, c)) = Append(LinesOf(t), UnendedOf(t))
  <2>1. CASE c = CR
    BY <2>1, LinesWithCarriage
  <2>2. CASE c = LF
    BY <2>2, LinesWithNewline
  <2>3. CASE c \in Char \ {CR, LF}
    BY <2>3, LinesWithLetter
  <2> QED BY <2>1, <2>2, <2>3
<1>3. /\ Len(Append(LinesOf(t), UnendedOf(t))) = Len(LinesOf(t)) + 1
      /\ \A i \in 1 .. Len(LinesOf(t)) : Append(LinesOf(t), UnendedOf(t))[i] = LinesOf(t)[i]
  BY <1>1, AppendProperties
<1>4. StartsWith(LinesOf(t), LinesOf(t))
  BY <1>1 DEF StartsWith
<1>5. StartsWith(Append(LinesOf(t), UnendedOf(t)), LinesOf(t))
  BY <1>1, <1>3 DEF StartsWith
<1> QED BY <1>2, <1>4, <1>5

LEMMA LinesOfPrefix ==
  ASSUME NEW t \in Seq(Char), NEW k \in 0 .. Len(t)
  PROVE  StartsWith(LinesOf(t), LinesOf(SubSeq(t, 1, k)))
<1> DEFINE P(n) == SubSeq(t, 1, n)
           Bad == {n \in k .. Len(t) : ~ StartsWith(LinesOf(P(n)), LinesOf(P(k)))}
<1>1. Len(t) \in Nat /\ k \in Nat
  BY LenProperties
<1>2. \A n \in 0 .. Len(t) : P(n) \in Seq(Char)
  <2>1. ASSUME NEW n \in 0 .. Len(t)
        PROVE  P(n) \in Seq(Char)
    <3>1. \A i \in 1 .. n : i \in 1 .. Len(t)
      BY <1>1
    <3>2. \A i \in 1 .. n : t[i] \in Char
      BY <3>1, ElementOfSeq
    <3>3. 1 \in Int /\ n \in Int
      BY <1>1
    <3> QED BY <3>2, <3>3, SubSeqProperties
  <2> QED BY <2>1
<1>3. Bad = {}
  <2>1. SUFFICES ASSUME Bad # {} PROVE FALSE
    OBVIOUS
  <2>2. PICK n \in Bad : \A d \in Bad : n <= d
    <3>1. Bad \in SUBSET Nat
      BY <1>1
    <3> HIDE DEF Bad
    <3> QED BY <2>1, <3>1, LeastElement
  <2>3. n \in k .. Len(t) /\ n \in Nat /\ n \in 0 .. Len(t)
    BY <1>1
  <2>4. ~ StartsWith(LinesOf(P(n)), LinesOf(P(k)))
    OBVIOUS
  <2>5. n # k
    <3>1. k \in 0 .. Len(t)
      BY <1>1
    <3>2. P(k) \in Seq(Char)
      BY <1>2, <3>1
    <3> HIDE DEF P, Bad
    <3>3. LinesOf(P(k)) \in Seq(Seq(Char))
      BY <3>2, LinesProperties
    <3>4. Len(LinesOf(P(k))) \in Nat
      BY <3>3, LenProperties
    <3>5. StartsWith(LinesOf(P(k)), LinesOf(P(k)))
      BY <3>4 DEF StartsWith
    <3> QED BY <2>4, <3>5
  <2> DEFINE m == n - 1
  <2>6. m \in k .. Len(t) /\ m \in 0 .. Len(t) /\ n \in 1 .. Len(t) /\ ~ (n <= m)
    BY <1>1, <2>3, <2>5
  <2>7. StartsWith(LinesOf(P(m)), LinesOf(P(k)))
    BY <2>2, <2>6
  <2>8. P(n) = Append(P(m), t[n]) /\ t[n] \in Char
    <3>1. t[n] \in Char
      BY <2>6, ElementOfSeq
    <3>2. 1 \in 1 .. Len(t) /\ n \in 1 .. Len(t)
      BY <1>1, <2>6
    <3>3. P(n) = P(m) \o <<t[n]>>
      BY <3>2, SubSeqRecursiveSecond
    <3>4. P(m) \in Seq(Char)
      BY <1>2, <2>6
    <3> HIDE DEF P, m
    <3>5. Append(P(m), t[n]) = P(m) \o <<t[n]>>
      BY <3>1, <3>4, AppendIsConcat
    <3> QED BY <3>1, <3>3, <3>5
  <2>9. P(m) \in Seq(Char) /\ P(n) \in Seq(Char) /\ P(k) \in Seq(Char)
    BY <1>1, <1>2, <2>3, <2>6
  <2> HIDE DEF P, m, Bad
  <2>10. StartsWith(LinesOf(P(n)), LinesOf(P(m)))
    BY <2>8, <2>9, LinesGrow
  <2>11. Len(LinesOf(P(k))) \in Nat /\ Len(LinesOf(P(m))) \in Nat /\ Len(LinesOf(P(n))) \in Nat
    BY <2>9, LinesProperties, LenProperties
  <2>12. StartsWith(LinesOf(P(n)), LinesOf(P(k)))
    BY <2>7, <2>10, <2>11 DEF StartsWith
  <2> QED BY <2>4, <2>12
<1>4. Len(t) \in k .. Len(t) /\ P(Len(t)) = t
  BY <1>1, SubSeqFull
<1>5. StartsWith(LinesOf(P(Len(t))), LinesOf(P(k)))
  BY <1>3, <1>4
<1> QED BY <1>4, <1>5

-----------------------------------------------------------------------------
(* The inductive invariant.                                                *)

Plain == Char \ {CR, LF}
PlainOrNul == Plain \cup {NUL}
Answer == Seq(Plain) \cup {Nothing}

(* The stream is what is left of the text, Consumed what is gone.          *)
TextInv ==
  /\ text \in Seq(Char)
  /\ stream \in Seq(Char)
  /\ Len(stream) <= Len(text)
  /\ \A i \in 1 .. Len(stream) : stream[i] = text[Len(text) - Len(stream) + i]

Consumed == SubSeq(text, 1, Len(text) - Len(stream))

(* The buffer holds one line at a time, terminated when it is a string.    *)
BufferInv ==
  /\ phase \in {"idle", "reading", "line"}
  /\ phase = "reading" => buf \in Seq(Plain)
  /\ phase = "line" => buf \in Seq(PlainOrNul) /\ \E p \in 1 .. Len(buf) : buf[p] = NUL
  /\ phase = "line" /\ tokens = << >> =>
       Len(buf) > 1 /\ buf[Len(buf)] = NUL /\ \A i \in 1 .. (Len(buf) - 1) : buf[i] \in Plain
  /\ tokens # << >> => phase = "line"

(* Until a push is refused, the strings are the lines of what was read,    *)
(* and the buffer is the line begun.  At the end of the stream a new call  *)
(* clears an unended line that nobody will read.                           *)
LinesInv ==
  /\ lines \in Seq(Seq(Char))
  /\ ~ refused =>
       /\ lines = LinesOf(Consumed)
       /\ stream # << >> => UnendedOf(Consumed) = IF phase = "reading" THEN buf ELSE << >>
       /\ ret = 0 => stream = << >>

(* Each of the strings is the end of a line, of later and later ones.      *)
Sourced(strings, all) ==
  \E sources \in [1 .. Len(strings) -> 1 .. Len(all)] :
    \A i \in 1 .. Len(strings) :
      /\ IsSuffix(strings[i], all[sources[i]])
      /\ i > 1 => sources[i - 1] < sources[i]

SourcesInv ==
  /\ Sourced(lines, LinesOf(Consumed))
  /\ phase = "reading" => IsSuffix(buf, UnendedOf(Consumed))

(* A buffer that holds a string, terminated, from a position on.           *)
WholeFrom(b, s, begin) ==
  /\ Len(s) < Len(b) /\ b[Len(s) + 1] = NUL
  /\ \A p \in begin .. Len(s) : b[p] = s[p]

(* While there are fields left, the save pointer is at the cut behind the  *)
(* last one answered, and the string is still whole from there on.         *)
TokensInv ==
  LET cuts == InOrder(Cuts(subject, Delimiter))
      answered == Len(tokens)
  IN  /\ tokens \in Seq(Answer)
      /\ tokens # << >> =>
           /\ subject \in Seq(Plain)
           /\ IF answered < Len(cuts)
              THEN /\ saveptr = cuts[answered + 1]
                   /\ WholeFrom(buf, subject, saveptr + 1)
              ELSE saveptr = Nothing

Inv == TextInv /\ BufferInv /\ LinesInv /\ SourcesInv /\ TokensInv /\ TokensAreFields

-----------------------------------------------------------------------------
(* Getting a character.                                                    *)

LEMMA ConsumedIsText ==
  ASSUME TextInv
  PROVE  /\ Consumed \in Seq(Char)
         /\ Len(text) \in Nat /\ Len(stream) \in Nat
         /\ Len(text) - Len(stream) \in 0 .. Len(text)
         /\ Len(Consumed) = Len(text) - Len(stream)
<1>1. text \in Seq(Char) /\ Len(text) \in Nat /\ Len(stream) \in Nat /\ Len(stream) <= Len(text)
  BY LenProperties DEF TextInv
<1> DEFINE k == Len(text) - Len(stream)
<1>2. k \in 0 .. Len(text) /\ 1 \in Int /\ k \in Int
  BY <1>1
<1>3. \A i \in 1 .. k : i \in 1 .. Len(text)
  BY <1>1, <1>2
<1>4. \A i \in 1 .. k : text[i] \in Char
  BY <1>1, <1>3, ElementOfSeq
<1> HIDE DEF k
<1>5. SubSeq(text, 1, k) \in Seq(Char) /\ Len(SubSeq(text, 1, k)) = IF 1 <= k THEN k - 1 + 1 ELSE 0
  BY <1>2, <1>4, SubSeqProperties
<1>6. Len(SubSeq(text, 1, k)) = k
  BY <1>2, <1>5
<1> QED BY <1>1, <1>2, <1>5, <1>6 DEF Consumed, k

LEMMA FgetcConsumes ==
  ASSUME TextInv, NEW c, Fgetc(c)
  PROVE  c \in Char /\ TextInv' /\ Consumed' = Append(Consumed, c)
<1> DEFINE L == Len(text)
           S == Len(stream)
<1>1. /\ text \in Seq(Char) /\ stream \in Seq(Char) /\ stream # << >>
      /\ c = Head(stream) /\ stream' = Tail(stream) /\ text' = text
      /\ S <= L /\ \A i \in 1 .. S : stream[i] = text[L - S + i]
  BY DEF TextInv, Fgetc
<1>2. L \in Nat /\ S \in Nat \ {0}
  BY <1>1, LenProperties, EmptySeq
<1>3. /\ Head(stream) = stream[1] /\ stream' \in Seq(Char) /\ Len(stream') = S - 1
      /\ \A i \in 1 .. (S - 1) : stream'[i] = stream[i + 1]
  <2>1. Head(stream) = stream[1]
    BY <1>1
  <2>2. /\ Tail(stream) \in Seq(Char) /\ Len(Tail(stream)) = Len(stream) - 1
        /\ \A i \in 1 .. Len(Tail(stream)) : Tail(stream)[i] = stream[i + 1]
    BY <1>1, HeadTailProperties
  <2> QED BY <1>1, <2>1, <2>2
<1>4. c = text[L - S + 1] /\ L - S + 1 \in 1 .. L
  <2>1. 1 \in 1 .. S
    BY <1>2
  <2> QED BY <1>1, <1>2, <1>3, <2>1
<1>5. c \in Char
  BY <1>1, <1>4, ElementOfSeq
<1>6. TextInv'
  <2>1. ASSUME NEW i \in 1 .. (S - 1)
        PROVE  stream'[i] = text[L - (S - 1) + i]
    <3>1. i + 1 \in 1 .. S /\ L - S + (i + 1) = L - (S - 1) + i
      BY <1>2
    <3>2. stream[i + 1] = text[L - S + (i + 1)]
      BY <1>1, <3>1
    <3> QED BY <1>3, <3>1, <3>2
  <2>2. S - 1 <= L
    BY <1>1, <1>2
  <2> QED BY <1>1, <1>3, <2>1, <2>2 DEF TextInv
<1>7. Consumed' = Append(Consumed, c)
  <2> DEFINE n == L - S + 1
  <2>1. Consumed = SubSeq(text, 1, n - 1) /\ Consumed' = SubSeq(text, 1, n)
    <3>1. L - (S - 1) = n /\ n - 1 = L - S
      BY <1>2
    <3> QED BY <1>1, <1>3, <3>1 DEF Consumed
  <2>2. n \in 1 .. L /\ 1 \in 1 .. L /\ c = text[n]
    BY <1>2, <1>4
  <2> HIDE DEF n
  <2>3. SubSeq(text, 1, n) = SubSeq(text, 1, n - 1) \o <<text[n]>>
    BY <1>1, <2>2, SubSeqRecursiveSecond
  <2>4. Consumed \in Seq(Char)
    BY ConsumedIsText
  <2>5. Append(Consumed, c) = Consumed \o <<c>>
    BY <1>5, <2>4, AppendIsConcat
  <2> QED BY <2>1, <2>2, <2>3, <2>5
<1> QED BY <1>5, <1>6, <1>7

LEMMA TextStep ==
  ASSUME TextInv, [Next]_vars
  PROVE  TextInv'
<1>1. CASE stream' = stream /\ text' = text
  BY <1>1 DEF TextInv
<1>2. CASE \E c : Fgetc(c)
  BY <1>2, FgetcConsumes
<1>3. (stream' = stream /\ text' = text) \/ \E c : Fgetc(c)
  BY DEF Next, Read, Getline, IgnoreCarriage, IgnoreEmptyLine, CompleteLine, ReadLetter, EndOfFile,
         TokenizeFirst, TokenizeNext, vars, reader
<1> QED BY <1>1, <1>2, <1>3

LEMMA SameText ==
  ASSUME stream' = stream, text' = text
  PROVE  Consumed' = Consumed
BY DEF Consumed

-----------------------------------------------------------------------------
(* The strings are the lines.                                              *)

LEMMA LinesStep ==
  ASSUME TextInv, BufferInv, LinesInv, [Next]_vars
  PROVE  LinesInv'
<1>1. /\ lines \in Seq(Seq(Char)) /\ Consumed \in Seq(Char)
      /\ LinesOf(Consumed) \in Seq(Seq(Char)) /\ UnendedOf(Consumed) \in Seq(Char)
  BY ConsumedIsText, LinesProperties DEF LinesInv
<1>2. phase = "reading" => buf \in Seq(Char)
  <2>1. Plain \subseteq Char
    BY DEF Plain
  <2> QED BY <2>1, SeqMonotonic DEF BufferInv
<1>3. CASE Getline
  <2>1. Consumed' = Consumed /\ stream' = stream /\ refused' = refused /\ lines' = lines /\ ret' = Nothing
    BY <1>3, SameText DEF Getline
  <2>2. phase # "reading" /\ phase' = "reading" /\ buf' = << >> /\ Nothing # 0
    BY <1>3, Distinct DEF Getline
  <2> QED BY <2>1, <2>2 DEF LinesInv
<1>4. CASE IgnoreCarriage
  <2>1. Fgetc(CR) /\ GoOn
    BY <1>4 DEF IgnoreCarriage
  <2>2. Consumed' = Append(Consumed, CR) /\ phase = "reading" /\ stream # << >>
    BY <2>1, FgetcConsumes DEF Fgetc
  <2>3. LinesOf(Consumed') = LinesOf(Consumed) /\ UnendedOf(Consumed') = UnendedOf(Consumed)
    BY <1>1, <2>2, LinesWithCarriage
  <2>4. UNCHANGED <<buf, phase, ret, lines, refused>>
    BY <2>1 DEF GoOn
  <2> QED BY <2>2, <2>3, <2>4 DEF LinesInv
<1>5. CASE IgnoreEmptyLine
  <2>1. Fgetc(LF) /\ GoOn /\ buf = << >>
    BY <1>5 DEF IgnoreEmptyLine
  <2>2. Consumed' = Append(Consumed, LF) /\ phase = "reading" /\ stream # << >>
    BY <2>1, FgetcConsumes DEF Fgetc
  <2>3. /\ UnendedOf(Consumed') = << >>
        /\ UnendedOf(Consumed) = << >> => LinesOf(Consumed') = LinesOf(Consumed)
    BY <1>1, <2>2, LinesWithNewline
  <2>4. UNCHANGED <<buf, phase, ret, lines, refused>>
    BY <2>1 DEF GoOn
  <2> QED BY <2>1, <2>2, <2>3, <2>4 DEF LinesInv
<1>6. CASE CompleteLine
  <2>1. Fgetc(LF) /\ buf # << >>
    BY <1>6 DEF CompleteLine
  <2>2. Consumed' = Append(Consumed, LF) /\ phase = "reading" /\ stream # << >>
    BY <2>1, FgetcConsumes DEF Fgetc
  <2>3. CASE PushRefused
    <3>1. refused' /\ lines' = lines
      BY <2>3 DEF PushRefused
    <3> QED BY <1>1, <3>1 DEF LinesInv
  <2>4. CASE phase' = "line" /\ ret' = 1 /\ lines' = Append(lines, buf) /\ UNCHANGED refused
    <3>1. /\ UnendedOf(Consumed') = << >>
          /\ UnendedOf(Consumed) # << >> => LinesOf(Consumed') = Append(LinesOf(Consumed), UnendedOf(Consumed))
      BY <1>1, <2>2, LinesWithNewline
    <3>2. lines' \in Seq(Seq(Char))
      BY <1>1, <1>2, <2>2, <2>4, AppendProperties
    <3>3. ~ refused => lines = LinesOf(Consumed) /\ UnendedOf(Consumed) = buf
      BY <2>2 DEF LinesInv
    <3> QED BY <2>1, <2>4, <3>1, <3>2, <3>3 DEF LinesInv
  <2> QED BY <1>6, <2>3, <2>4 DEF CompleteLine
<1>7. CASE ReadLetter
  <2>1. PICK c \in Char \ {CR, LF} : Fgetc(c) /\ (PushRefused \/ Pushed(c))
    BY <1>7 DEF ReadLetter
  <2>2. Consumed' = Append(Consumed, c) /\ phase = "reading" /\ stream # << >>
    BY <2>1, FgetcConsumes DEF Fgetc
  <2>3. CASE PushRefused
    <3>1. refused' /\ lines' = lines
      BY <2>3 DEF PushRefused
    <3> QED BY <1>1, <3>1 DEF LinesInv
  <2>4. CASE Pushed(c)
    <3>1. buf' = Append(buf, c) /\ UNCHANGED <<phase, ret, lines, refused>>
      BY <2>4 DEF Pushed
    <3>2. LinesOf(Consumed') = LinesOf(Consumed) /\ UnendedOf(Consumed') = Append(UnendedOf(Consumed), c)
      BY <1>1, <2>2, LinesWithLetter
    <3> QED BY <2>2, <3>1, <3>2 DEF LinesInv
  <2> QED BY <2>1, <2>3, <2>4
<1>8. CASE EndOfFile
  <2>1. Consumed' = Consumed /\ stream' = << >> /\ refused' = refused /\ lines' = lines
    BY <1>8, SameText DEF EndOfFile
  <2> QED BY <2>1 DEF LinesInv
<1>9. CASE TokenizeFirst \/ TokenizeNext \/ UNCHANGED vars
  <2>1. /\ Consumed' = Consumed /\ UNCHANGED <<stream, phase, ret, lines, refused>>
        /\ phase # "reading" \/ buf' = buf
    BY <1>9, SameText DEF TokenizeFirst, TokenizeNext, vars, reader
  <2> QED BY <2>1 DEF LinesInv
<1> QED BY <1>3, <1>4, <1>5, <1>6, <1>7, <1>8, <1>9 DEF Next, Read

-----------------------------------------------------------------------------
(* After a refusal the strings are ends of lines.                          *)

LEMMA ReverseProperties ==
  ASSUME NEW E, NEW s \in Seq(E)
  PROVE  /\ Reverse(s) \in Seq(E) /\ Len(Reverse(s)) = Len(s)
         /\ \A i \in 1 .. Len(s) : Reverse(s)[i] = s[Len(s) - i + 1]
<1>1. Len(s) \in Nat
  BY LenProperties
<1>2. \A i \in 1 .. Len(s) : (Len(s) - i) + 1 \in 1 .. Len(s)
  BY <1>1
<1>3. \A i \in 1 .. Len(s) : s[(Len(s) - i) + 1] \in E
  BY <1>2, ElementOfSeq
<1>4. Reverse(s) \in [1 .. Len(s) -> E]
  BY <1>3 DEF Reverse
<1>5. Reverse(s) \in Seq(E)
  BY <1>1, <1>4, SeqDef
<1>6. Len(Reverse(s)) = Len(s)
  BY <1>1, <1>4, <1>5, LenProperties
<1> QED BY <1>5, <1>6 DEF Reverse

(* IsSuffix, told by the elements.                                         *)
EndsWith(t, s) ==
  Len(s) <= Len(t) /\ \A i \in 1 .. Len(s) : s[i] = t[Len(t) - Len(s) + i]

LEMMA SuffixIsEnd ==
  ASSUME NEW E, NEW s \in Seq(E), NEW t \in Seq(E)
  PROVE  IsSuffix(s, t) <=> EndsWith(t, s)
<1> DEFINE r == Reverse(s)
           q == Reverse(t)
           n == Len(s)
           m == Len(t)
<1>1. n \in Nat /\ m \in Nat
  BY LenProperties
<1>2. /\ r \in Seq(E) /\ Len(r) = n /\ \A i \in 1 .. n : r[i] = s[n - i + 1]
      /\ q \in Seq(E) /\ Len(q) = m /\ \A i \in 1 .. m : q[i] = t[m - i + 1]
  BY ReverseProperties
<1>3. IsSuffix(s, t) <=> n <= m /\ SubSeq(r, 1, n) = SubSeq(q, 1, n)
  BY <1>2 DEF IsSuffix, IsPrefix
<1> HIDE DEF r, q
<1>4. SubSeq(r, 1, n) = r
  BY <1>2, SubSeqFull
<1>5. ASSUME n <= m
      PROVE  /\ SubSeq(q, 1, n) \in Seq(E) /\ Len(SubSeq(q, 1, n)) = n
             /\ \A i \in 1 .. n : SubSeq(q, 1, n)[i] = q[i]
  <2>1. \A i \in 1 .. n : i \in 1 .. Len(q)
    BY <1>1, <1>2, <1>5
  <2>2. \A i \in 1 .. n : q[i] \in E
    BY <1>2, <2>1, ElementOfSeq
  <2>3. 1 \in Int /\ n \in Int
    BY <1>1
  <2> HIDE DEF n, m
  <2>4. /\ SubSeq(q, 1, n) \in Seq(E)
        /\ Len(SubSeq(q, 1, n)) = IF 1 <= n THEN n - 1 + 1 ELSE 0
        /\ \A i \in 1 .. (n - 1 + 1) : SubSeq(q, 1, n)[i] = q[1 + i - 1]
    BY <2>2, <2>3, SubSeqProperties
  <2> QED BY <1>1, <2>4 DEF n
<1> HIDE DEF n, m
<1>6. ASSUME n <= m
      PROVE  SubSeq(q, 1, n) = r <=> \A i \in 1 .. n : q[i] = r[i]
  <2>1. SubSeq(q, 1, n) = r => \A i \in 1 .. n : q[i] = r[i]
    BY <1>5, <1>6
  <2>2. (\A i \in 1 .. n : q[i] = r[i]) => SubSeq(q, 1, n) = r
    BY <1>2, <1>5, <1>6, SeqEqual
  <2> QED BY <2>1, <2>2
<1>7. ASSUME n <= m
      PROVE  (\A i \in 1 .. n : q[i] = r[i]) <=> \A i \in 1 .. n : s[i] = t[m - n + i]
  <2>1. \A i \in 1 .. n : q[i] = t[m - i + 1] /\ r[i] = s[n - i + 1]
    BY <1>1, <1>2, <1>7
  <2>2. \A i \in 1 .. n : n - i + 1 \in 1 .. n /\ m - (n - i + 1) + 1 = m - n + i /\ n - (n - i + 1) + 1 = i
                          /\ m - n + (n - i + 1) = m - i + 1
    BY <1>1, <1>7
  <2>3. ASSUME \A i \in 1 .. n : q[i] = r[i], NEW i \in 1 .. n
        PROVE  s[i] = t[m - n + i]
    <3>1. q[n - i + 1] = r[n - i + 1]
      BY <2>2, <2>3
    <3> QED BY <2>1, <2>2, <3>1
  <2>4. ASSUME \A i \in 1 .. n : s[i] = t[m - n + i], NEW i \in 1 .. n
        PROVE  q[i] = r[i]
    <3>1. s[n - i + 1] = t[m - n + (n - i + 1)]
      BY <2>2, <2>4
    <3> QED BY <2>1, <2>2, <3>1
  <2> QED BY <2>3, <2>4
<1>8. IsSuffix(s, t) <=> n <= m /\ \A i \in 1 .. n : s[i] = t[m - n + i]
  BY <1>3, <1>4, <1>6, <1>7
<1> QED BY <1>8 DEF EndsWith, n, m

LEMMA NothingIsASuffix ==
  ASSUME NEW E, NEW t \in Seq(E)
  PROVE  IsSuffix(<< >>, t)
<1>1. << >> \in Seq(E) /\ Len(<< >>) = 0 /\ Len(t) \in Nat
  BY EmptySeq, LenProperties
<1>2. EndsWith(t, << >>)
  BY <1>1 DEF EndsWith
<1> QED BY <1>1, <1>2, SuffixIsEnd

LEMMA SuffixAppend ==
  ASSUME NEW E, NEW s \in Seq(E), NEW t \in Seq(E), NEW e \in E, IsSuffix(s, t)
  PROVE  IsSuffix(Append(s, e), Append(t, e))
<1> DEFINE a == Append(s, e)
           b == Append(t, e)
           n == Len(s)
           m == Len(t)
<1>1. n \in Nat /\ m \in Nat
  BY LenProperties
<1>2. /\ a \in Seq(E) /\ Len(a) = n + 1 /\ a[n + 1] = e /\ \A i \in 1 .. n : a[i] = s[i]
      /\ b \in Seq(E) /\ Len(b) = m + 1 /\ b[m + 1] = e /\ \A i \in 1 .. m : b[i] = t[i]
  BY AppendProperties
<1>3. n <= m /\ \A i \in 1 .. n : s[i] = t[m - n + i]
  BY SuffixIsEnd DEF EndsWith
<1> HIDE DEF a, b, n, m
<1>4. ASSUME NEW i \in 1 .. (n + 1)
      PROVE  a[i] = b[(m + 1) - (n + 1) + i]
  <2>1. CASE i = n + 1
    <3>1. (m + 1) - (n + 1) + i = m + 1
      BY <1>1, <2>1
    <3> QED BY <1>2, <2>1, <3>1
  <2>2. CASE i # n + 1
    <3>1. i \in 1 .. n /\ (m + 1) - (n + 1) + i = m - n + i /\ m - n + i \in 1 .. m
      <4>1. i \in 1 .. n /\ n <= m
        BY <1>1, <1>3, <2>2
      <4> QED BY <1>1, <4>1
    <3> QED BY <1>2, <1>3, <3>1
  <2> QED BY <2>1, <2>2
<1>5. EndsWith(b, a)
  <2>1. n + 1 <= m + 1
    BY <1>1, <1>3
  <2> QED BY <1>2, <1>4, <2>1 DEF EndsWith
<1>6. IsSuffix(a, b)
  BY <1>2, <1>5, SuffixIsEnd
<1> QED BY <1>6 DEF a, b

LEMMA SuffixOfNothing ==
  ASSUME NEW E, NEW s \in Seq(E), IsSuffix(s, << >>)
  PROVE  s = << >>
<1>1. << >> \in Seq(E) /\ Len(<< >>) = 0
  BY EmptySeq
<1>2. Len(s) <= 0 /\ Len(s) \in Nat
  BY <1>1, SuffixIsEnd, LenProperties DEF EndsWith
<1>3. s # << >> => Len(s) \in Nat \ {0}
  BY EmptySeq
<1> QED BY <1>2, <1>3

(* More lines are no fewer sources ...                                     *)
LEMMA SourcedByMore ==
  ASSUME NEW strings \in Seq(Seq(Char)), NEW all \in Seq(Seq(Char)), NEW more \in Seq(Seq(Char)),
         StartsWith(more, all), Sourced(strings, all)
  PROVE  Sourced(strings, more)
<1>1. /\ Len(all) \in Nat /\ Len(more) \in Nat /\ Len(all) <= Len(more)
      /\ \A i \in 1 .. Len(all) : more[i] = all[i]
  BY LenProperties DEF StartsWith
<1>2. PICK f \in [1 .. Len(strings) -> 1 .. Len(all)] :
        \A i \in 1 .. Len(strings) :
          /\ IsSuffix(strings[i], all[f[i]])
          /\ i > 1 => f[i - 1] < f[i]
  BY DEF Sourced
<1>3. \A i \in 1 .. Len(all) : i \in 1 .. Len(more)
  BY <1>1
<1>4. f \in [1 .. Len(strings) -> 1 .. Len(more)]
  BY <1>3
<1>5. \A i \in 1 .. Len(strings) : more[f[i]] = all[f[i]]
  BY <1>1
<1> QED BY <1>2, <1>4, <1>5 DEF Sourced

(* ... and the end of a line that is added is sourced by it.               *)
LEMMA SourcedByLast ==
  ASSUME NEW strings \in Seq(Seq(Char)), NEW all \in Seq(Seq(Char)),
         NEW s \in Seq(Char), NEW l \in Seq(Char), IsSuffix(s, l), Sourced(strings, all)
  PROVE  Sourced(Append(strings, s), Append(all, l))
<1> DEFINE a == Append(strings, s)
           b == Append(all, l)
           n == Len(strings)
           m == Len(all)
<1>1. n \in Nat /\ m \in Nat
  BY LenProperties
<1>2. /\ a \in Seq(Seq(Char)) /\ Len(a) = n + 1 /\ a[n + 1] = s /\ \A i \in 1 .. n : a[i] = strings[i]
      /\ b \in Seq(Seq(Char)) /\ Len(b) = m + 1 /\ b[m + 1] = l /\ \A i \in 1 .. m : b[i] = all[i]
  BY AppendProperties
<1>3. PICK f \in [1 .. n -> 1 .. m] :
        \A i \in 1 .. n : IsSuffix(strings[i], all[f[i]]) /\ (i > 1 => f[i - 1] < f[i])
  BY DEF Sourced
<1> DEFINE g == [i \in 1 .. (n + 1) |-> IF i = n + 1 THEN m + 1 ELSE f[i]]
<1>4. \A i \in 1 .. (n + 1) : i = n + 1 \/ i \in 1 .. n
  BY <1>1
<1>5. \A i \in 1 .. n : f[i] \in 1 .. m /\ i # n + 1 /\ i \in 1 .. (n + 1)
  <2>1. \A i \in 1 .. n : f[i] \in 1 .. m
    BY <1>3
  <2> HIDE DEF m, n
  <2>2. \A i \in 1 .. n : i # n + 1 /\ i \in 1 .. (n + 1)
    BY <1>1
  <2> QED BY <2>1, <2>2
<1>6. m + 1 \in 1 .. (m + 1) /\ \A j \in 1 .. m : j \in 1 .. (m + 1) /\ j < m + 1
  BY <1>1
<1> HIDE DEF a, b, n, m
<1>7. g \in [1 .. (n + 1) -> 1 .. (m + 1)]
  BY <1>4, <1>5, <1>6
<1>8. g[n + 1] = m + 1 /\ \A i \in 1 .. n : g[i] = f[i]
  <2>1. n + 1 \in 1 .. (n + 1)
    BY <1>1
  <2> QED BY <1>5, <2>1
<1> HIDE DEF g
<1>9. ASSUME NEW i \in 1 .. (n + 1)
      PROVE  IsSuffix(a[i], b[g[i]]) /\ (i > 1 => g[i - 1] < g[i])
  <2>1. CASE i = n + 1
    <3>1. IsSuffix(a[i], b[g[i]])
      BY <1>2, <1>8, <2>1
    <3>2. i > 1 => i - 1 \in 1 .. n
      BY <1>1, <2>1
    <3>3. i > 1 => g[i - 1] < g[i]
      BY <1>5, <1>6, <1>8, <2>1, <3>2
    <3> QED BY <3>1, <3>3
  <2>2. CASE i \in 1 .. n
    <3>1. a[i] = strings[i] /\ g[i] = f[i] /\ b[g[i]] = all[f[i]]
      BY <1>2, <1>5, <1>8, <2>2
    <3>2. IsSuffix(a[i], b[g[i]])
      BY <1>3, <2>2, <3>1
    <3>3. i > 1 => i - 1 \in 1 .. n
      BY <1>1, <2>2
    <3> QED BY <1>3, <1>8, <2>2, <3>1, <3>2, <3>3
  <2> QED BY <1>4, <2>1, <2>2
<1>10. Sourced(a, b)
  BY <1>2, <1>7, <1>9 DEF Sourced
<1> QED BY <1>10 DEF a, b

LEMMA SourcesStep ==
  ASSUME TextInv, BufferInv, LinesInv, SourcesInv, [Next]_vars
  PROVE  SourcesInv'
<1>1. /\ lines \in Seq(Seq(Char)) /\ Consumed \in Seq(Char)
      /\ LinesOf(Consumed) \in Seq(Seq(Char)) /\ UnendedOf(Consumed) \in Seq(Char)
      /\ Sourced(lines, LinesOf(Consumed))
      /\ phase = "reading" => IsSuffix(buf, UnendedOf(Consumed))
  BY ConsumedIsText, LinesProperties DEF LinesInv, SourcesInv
<1>2. phase = "reading" => buf \in Seq(Char)
  <2>1. Plain \subseteq Char
    BY DEF Plain
  <2> QED BY <2>1, SeqMonotonic DEF BufferInv
<1>3. ASSUME NEW c \in Char, Fgetc(c), lines' = lines
      PROVE  Sourced(lines', LinesOf(Consumed'))
  <2>1. Consumed' = Append(Consumed, c)
    BY <1>3, FgetcConsumes
  <2>2. Append(Consumed, c) \in Seq(Char)
    BY <1>1, AppendProperties
  <2>3. LinesOf(Consumed') \in Seq(Seq(Char))
    BY <2>1, <2>2, LinesProperties
  <2>4. StartsWith(LinesOf(Consumed'), LinesOf(Consumed))
    BY <1>1, <2>1, LinesGrow
  <2> QED BY <1>1, <1>3, <2>3, <2>4, SourcedByMore
<1>4. CASE Getline
  <2>1. Consumed' = Consumed /\ lines' = lines /\ buf' = << >>
    BY <1>4, SameText DEF Getline
  <2>2. IsSuffix(<< >>, UnendedOf(Consumed))
    BY <1>1, NothingIsASuffix
  <2> QED BY <1>1, <2>1, <2>2 DEF SourcesInv
<1>5. CASE IgnoreCarriage
  <2>1. Fgetc(CR) /\ GoOn /\ CR \in Char
    BY <1>5 DEF IgnoreCarriage, Char
  <2>2. Consumed' = Append(Consumed, CR) /\ UNCHANGED <<buf, phase, lines>>
    BY <2>1, FgetcConsumes DEF GoOn
  <2>3. UnendedOf(Consumed') = UnendedOf(Consumed)
    BY <1>1, <2>2, LinesWithCarriage
  <2>4. Sourced(lines', LinesOf(Consumed'))
    BY <1>3, <2>1, <2>2
  <2> QED BY <1>1, <2>2, <2>3, <2>4 DEF SourcesInv
<1>6. CASE IgnoreEmptyLine
  <2>1. Fgetc(LF) /\ GoOn /\ LF \in Char /\ buf = << >>
    BY <1>6 DEF IgnoreEmptyLine, Char
  <2>2. Consumed' = Append(Consumed, LF) /\ UNCHANGED <<buf, phase, lines>>
    BY <2>1, FgetcConsumes DEF GoOn
  <2>3. UnendedOf(Consumed') = << >> /\ << >> \in Seq(Char)
    BY <1>1, <2>2, LinesWithNewline, EmptySeq
  <2>4. Sourced(lines', LinesOf(Consumed'))
    BY <1>3, <2>1, <2>2
  <2>5. IsSuffix(buf', UnendedOf(Consumed'))
    BY <2>1, <2>2, <2>3, NothingIsASuffix
  <2> QED BY <2>4, <2>5 DEF SourcesInv
<1>7. CASE CompleteLine
  <2>1. Fgetc(LF) /\ LF \in Char /\ buf # << >>
    BY <1>7 DEF CompleteLine, Char
  <2>2. CASE PushRefused
    <3>1. lines' = lines /\ phase' = "idle"
      BY <2>2 DEF PushRefused
    <3> QED BY <1>3, <2>1, <3>1 DEF SourcesInv
  <2>3. CASE phase' = "line" /\ lines' = Append(lines, buf)
    <3>1. Consumed' = Append(Consumed, LF) /\ phase = "reading"
      BY <2>1, FgetcConsumes DEF Fgetc
    <3>2. buf \in Seq(Char) /\ IsSuffix(buf, UnendedOf(Consumed))
      BY <1>1, <1>2, <3>1
    <3>3. UnendedOf(Consumed) # << >>
      BY <2>1, <3>2, SuffixOfNothing
    <3>4. LinesOf(Consumed') = Append(LinesOf(Consumed), UnendedOf(Consumed))
      BY <1>1, <3>1, <3>3, LinesWithNewline
    <3>5. Sourced(Append(lines, buf), Append(LinesOf(Consumed), UnendedOf(Consumed)))
      BY <1>1, <3>2, SourcedByLast
    <3> QED BY <2>3, <3>4, <3>5 DEF SourcesInv
  <2> QED BY <1>7, <2>2, <2>3 DEF CompleteLine
<1>8. CASE ReadLetter
  <2>1. PICK c \in Char \ {CR, LF} : Fgetc(c) /\ (PushRefused \/ Pushed(c))
    BY <1>8 DEF ReadLetter
  <2>2. Consumed' = Append(Consumed, c) /\ phase = "reading"
    BY <2>1, FgetcConsumes DEF Fgetc
  <2>3. lines' = lines
    BY <2>1 DEF PushRefused, Pushed
  <2>4. Sourced(lines', LinesOf(Consumed'))
    BY <1>3, <2>1, <2>3
  <2>5. CASE PushRefused
    BY <2>4, <2>5 DEF SourcesInv, PushRefused
  <2>6. CASE Pushed(c)
    <3>1. buf' = Append(buf, c)
      BY <2>6 DEF Pushed
    <3>2. UnendedOf(Consumed') = Append(UnendedOf(Consumed), c)
      BY <1>1, <2>2, LinesWithLetter
    <3>3. buf \in Seq(Char) /\ IsSuffix(buf, UnendedOf(Consumed))
      BY <1>1, <1>2, <2>2
    <3>4. IsSuffix(buf', UnendedOf(Consumed'))
      BY <1>1, <3>1, <3>2, <3>3, SuffixAppend
    <3> QED BY <2>4, <3>4 DEF SourcesInv
  <2> QED BY <2>1, <2>5, <2>6
<1>9. CASE EndOfFile
  <2>1. Consumed' = Consumed /\ lines' = lines /\ phase' = "idle"
    BY <1>9, SameText DEF EndOfFile
  <2> QED BY <1>1, <2>1 DEF SourcesInv
<1>10. CASE TokenizeFirst \/ TokenizeNext \/ UNCHANGED vars
  <2>1. /\ Consumed' = Consumed /\ lines' = lines /\ phase' = phase
        /\ phase # "reading" \/ buf' = buf
    BY <1>10, SameText DEF TokenizeFirst, TokenizeNext, vars, reader
  <2> QED BY <1>1, <2>1 DEF SourcesInv
<1> QED BY <1>4, <1>5, <1>6, <1>7, <1>8, <1>9, <1>10 DEF Next, Read

-----------------------------------------------------------------------------
(* The tokenizer.                                                          *)

LEMMA NulIsNotPlain ==
  /\ NUL \notin Plain /\ Delimiter # NUL /\ Plain \subseteq PlainOrNul /\ NUL \in PlainOrNul
  /\ Plain \subseteq Char
BY Distinct DEF Plain, PlainOrNul

(* The end of a C string is the first NUL there is.                        *)
LEMMA EndOfStringIs ==
  ASSUME NEW b, NEW i \in Nat, Len(b) \in Nat, NEW e \in i .. Len(b),
         b[e] = NUL, \A j \in i .. (e - 1) : b[j] # NUL
  PROVE  EndOfString(b, i) = e
<1> DEFINE P(d) == b[d] = NUL /\ \A j \in i .. (d - 1) : b[j] # NUL
<1>1. P(e)
  OBVIOUS
<1>2. ASSUME NEW d \in i .. Len(b), P(d)
      PROVE  d = e
  <2>1. d \in Int /\ e \in Int /\ d >= i /\ e >= i
    OBVIOUS
  <2>2. CASE d < e
    <3>1. d \in i .. (e - 1)
      BY <2>1, <2>2
    <3> QED BY <1>2, <3>1
  <2>3. CASE e < d
    <3>1. e \in i .. (d - 1)
      BY <2>1, <2>3
    <3> QED BY <1>2, <3>1
  <2> QED BY <2>1, <2>2, <2>3
<1> HIDE DEF P
<1>3. (CHOOSE d \in i .. Len(b) : P(d)) = e
  BY <1>1, <1>2
<1> QED BY <1>3 DEF EndOfString, P

LEMMA EndOfStringExists ==
  ASSUME NEW b, Len(b) \in Nat, NEW p \in 1 .. Len(b), b[p] = NUL
  PROVE  /\ EndOfString(b, 1) \in 1 .. Len(b)
         /\ b[EndOfString(b, 1)] = NUL
         /\ \A j \in 1 .. (EndOfString(b, 1) - 1) : b[j] # NUL
<1> DEFINE Nuls == {i \in 1 .. Len(b) : b[i] = NUL}
<1>1. Nuls \in SUBSET Nat /\ Nuls # {}
  OBVIOUS
<1>2. PICK e \in Nuls : \A i \in Nuls : e <= i
  BY <1>1, LeastElement
<1>3. e \in 1 .. Len(b) /\ b[e] = NUL
  BY <1>2
<1>4. ASSUME NEW j \in 1 .. (e - 1)
      PROVE  b[j] # NUL
  <2>1. j \in 1 .. Len(b) /\ ~ (e <= j)
    BY <1>3
  <2> QED BY <1>2, <2>1
<1>5. EndOfString(b, 1) = e
  BY <1>3, <1>4, EndOfStringIs
<1> QED BY <1>3, <1>4, <1>5

(* No piece has a cut in it, and behind each but the last there is one.    *)
LEMMA PieceHasNoCut ==
  ASSUME NEW E, NEW s \in Seq(E), NEW c, NEW k \in 1 .. Cardinality(Cuts(s, c))
  PROVE  /\ \A p \in (InOrder(Cuts(s, c))[k] + 1) .. PieceEnd(s, c, k) : s[p] # c
         /\ k < Cardinality(Cuts(s, c)) =>
              /\ InOrder(Cuts(s, c))[k + 1] = PieceEnd(s, c, k) + 1
              /\ InOrder(Cuts(s, c))[k + 1] \in 1 .. Len(s)
              /\ s[InOrder(Cuts(s, c))[k + 1]] = c
         /\ ~ (k < Cardinality(Cuts(s, c))) => PieceEnd(s, c, k) = Len(s)
<1> DEFINE K == Cuts(s, c)
           C == Cardinality(K)
           q == InOrder(K)
           e == PieceEnd(s, c, k)
<1>1. Len(s) \in Nat /\ DOMAIN s = 1 .. Len(s)
  BY LenProperties
<1>2. /\ K \in SUBSET (0 .. Len(s)) /\ FiniteNumbers(K) /\ C \in Nat \ {0}
      /\ \A n \in 1 .. C : q[n] \in K /\ q[n] \in Nat
  <2>1. /\ K \in SUBSET (0 .. Len(s)) /\ FiniteNumbers(K) /\ C \in Nat \ {0}
        /\ \A n \in 1 .. C : q[n] \in K
    BY CutsProperties
  <2>2. \A y \in K : y \in Nat
    BY <2>1 DEF FiniteNumbers
  <2> HIDE DEF K, C, q
  <2> QED BY <2>1, <2>2
<1>3. e \in 0 .. Len(s) /\ q[k] \in 0 .. e
  BY PiecesProperties
<1>4. e = IF k < C THEN q[k + 1] - 1 ELSE Len(s)
  BY DEF PieceEnd
<1>5. \A y : y \in K <=> y = 0 \/ (y \in 1 .. Len(s) /\ s[y] = c)
  BY <1>1 DEF Cuts
<1>6. \A y \in K : Rank(K, y) \in 1 .. C /\ q[Rank(K, y)] = y
  BY <1>2, InOrderAtRank
<1>7. \A i, j \in 1 .. C : i < j <=> q[i] < q[j]
  BY <1>2, InOrderAscends
<1>8. k \in 1 .. C
  OBVIOUS
<1> HIDE DEF K, C, q, e
<1>9. ASSUME NEW p \in (q[k] + 1) .. e
      PROVE  s[p] # c
  <2>1. SUFFICES ASSUME s[p] = c PROVE FALSE
    OBVIOUS
  <2>2. p \in 1 .. Len(s) /\ q[k] < p /\ p <= e
    BY <1>3
  <2>3. p \in K
    BY <1>5, <2>1, <2>2
  <2>4. PICK i \in 1 .. C : q[i] = p
    BY <1>6, <2>3
  <2>5. k < i
    BY <1>7, <1>8, <2>2, <2>4
  <2>6. i \in Nat /\ k \in Nat /\ i <= C /\ k + 1 <= i
    BY <1>2, <1>8, <2>5
  <2>7. k < C /\ k + 1 \in 1 .. C
    BY <1>2, <2>5, <2>6
  <2>8. q[k + 1] = e + 1
    BY <1>2, <1>3, <1>4, <2>7
  <2>9. p < q[k + 1]
    BY <1>3, <2>2, <2>8
  <2>10. i < k + 1
    BY <1>7, <2>4, <2>7, <2>9
  <2> QED BY <2>6, <2>10
<1>10. ASSUME k < C
       PROVE  q[k + 1] = e + 1 /\ q[k + 1] \in 1 .. Len(s) /\ s[q[k + 1]] = c
  <2>1. k + 1 \in 1 .. C
    BY <1>2, <1>8, <1>10
  <2>2. q[k + 1] \in K /\ q[k + 1] \in Nat
    BY <1>2, <2>1
  <2>3. q[k + 1] = e + 1
    BY <1>4, <1>10, <2>2
  <2>4. q[k + 1] # 0
    BY <1>3, <2>3
  <2> QED BY <1>5, <2>2, <2>3, <2>4
<1>11. ~ (k < C) => e = Len(s)
  BY <1>4
<1> QED BY <1>9, <1>10, <1>11 DEF K, C, q, e

(* The first piece starts at the beginning.                                *)
LEMMA FirstCut ==
  ASSUME NEW E, NEW s \in Seq(E), NEW c
  PROVE  InOrder(Cuts(s, c))[1] = 0
<1> DEFINE K == Cuts(s, c)
           C == Cardinality(K)
           q == InOrder(K)
<1>1. /\ K \in SUBSET (0 .. Len(s)) /\ FiniteNumbers(K) /\ C \in Nat \ {0}
      /\ \A n \in 1 .. C : q[n] \in K /\ q[n] \in Nat
  <2>1. /\ K \in SUBSET (0 .. Len(s)) /\ FiniteNumbers(K) /\ C \in Nat \ {0}
        /\ \A n \in 1 .. C : q[n] \in K
    BY CutsProperties
  <2>2. \A y \in K : y \in Nat
    BY <2>1 DEF FiniteNumbers
  <2> HIDE DEF K, C, q
  <2> QED BY <2>1, <2>2
<1>2. 0 \in K
  BY DEF Cuts
<1>3. Rank(K, 0) \in 1 .. C /\ q[Rank(K, 0)] = 0
  BY <1>1, <1>2, InOrderAtRank
<1>4. \A i, j \in 1 .. C : i < j <=> q[i] < q[j]
  BY <1>1, InOrderAscends
<1> HIDE DEF K, C, q
<1>5. 1 \in 1 .. C /\ q[1] \in Nat
  <2>1. 1 \in 1 .. C
    BY <1>1
  <2> QED BY <1>1, <2>1
<1>6. ~ (1 < Rank(K, 0))
  <2>1. ~ (q[1] < 0)
    BY <1>5
  <2> QED BY <1>3, <1>4, <1>5, <2>1
<1>7. Rank(K, 0) = 1
  BY <1>1, <1>3, <1>6
<1> QED BY <1>3, <1>7 DEF K, q

(* What the tokenizer finds from the beginning of a piece on: the end of   *)
(* the string, the delimiter behind the piece, and the piece.              *)
LEMMA WholeString ==
  ASSUME NEW b \in Seq(PlainOrNul), NEW s \in Seq(Plain), NEW begin \in 1 .. (Len(s) + 1),
         WholeFrom(b, s, begin)
  PROVE  EndOfString(b, begin) = Len(s) + 1
<1>1. Len(s) \in Nat /\ Len(b) \in Nat
  BY LenProperties
<1>2. Len(s) + 1 \in begin .. Len(b) /\ b[Len(s) + 1] = NUL /\ begin \in Nat
  BY <1>1 DEF WholeFrom
<1>3. ASSUME NEW j \in begin .. Len(s)
      PROVE  b[j] # NUL
  <2>1. j \in 1 .. Len(s) /\ b[j] = s[j]
    BY <1>1 DEF WholeFrom
  <2>2. s[j] \in Plain
    BY <2>1, ElementOfSeq
  <2> QED BY <2>1, <2>2, NulIsNotPlain
<1>4. (Len(s) + 1) - 1 = Len(s)
  BY <1>1
<1> QED BY <1>1, <1>2, <1>3, <1>4, EndOfStringIs

LEMMA StrchrFinds ==
  ASSUME NEW b \in Seq(PlainOrNul), NEW s \in Seq(Plain),
         NEW k \in 1 .. Cardinality(Cuts(s, Delimiter)),
         WholeFrom(b, s, InOrder(Cuts(s, Delimiter))[k] + 1)
  PROVE  Strchr(b, InOrder(Cuts(s, Delimiter))[k] + 1) =
           IF k < Cardinality(Cuts(s, Delimiter)) THEN {InOrder(Cuts(s, Delimiter))[k + 1]} ELSE {}
<1> DEFINE C == Cardinality(Cuts(s, Delimiter))
           q == InOrder(Cuts(s, Delimiter))
           e == PieceEnd(s, Delimiter, k)
           begin == q[k] + 1
           hit == Strchr(b, begin)
<1>1. Len(s) \in Nat
  BY LenProperties
<1>2. e \in 0 .. Len(s) /\ q[k] \in 0 .. e
  BY PiecesProperties
<1>3. /\ \A p \in begin .. e : s[p] # Delimiter
      /\ k < C => q[k + 1] = e + 1 /\ q[k + 1] \in 1 .. Len(s) /\ s[q[k + 1]] = Delimiter
      /\ ~ (k < C) => e = Len(s)
  BY PieceHasNoCut
<1>4. begin \in 1 .. (Len(s) + 1) /\ begin \in Nat
  BY <1>1, <1>2
<1>5. \A p \in begin .. Len(s) : b[p] = s[p]
  BY DEF WholeFrom
<1>6. EndOfString(b, begin) - 1 = Len(s)
  <2> HIDE DEF begin
  <2>1. WholeFrom(b, s, begin)
    BY DEF begin
  <2>2. EndOfString(b, begin) = Len(s) + 1
    BY <1>4, <2>1, WholeString
  <2> QED BY <1>1, <2>2
<1> HIDE DEF C, q, e, begin
<1>7. hit = {p \in begin .. Len(s) : b[p] = Delimiter /\ \A j \in begin .. (p - 1) : b[j] # Delimiter}
  BY <1>6 DEF Strchr
<1> HIDE DEF hit
<1>8. \A p \in begin .. Len(s) : p <= e => b[p] # Delimiter
  BY <1>2, <1>3, <1>4, <1>5
<1>9. CASE k < C
  <2>1. e + 1 \in begin .. Len(s) /\ b[e + 1] = Delimiter
    <3>1. e + 1 \in begin .. Len(s)
      BY <1>1, <1>2, <1>3, <1>9 DEF begin
    <3> QED BY <1>3, <1>5, <1>9, <3>1
  <2>2. \A j \in begin .. e : b[j] # Delimiter
    BY <1>1, <1>2, <1>4, <1>8
  <2>3. ASSUME NEW p \in hit
        PROVE  p = e + 1
    <3>1. p \in begin .. Len(s) /\ b[p] = Delimiter /\ \A j \in begin .. (p - 1) : b[j] # Delimiter
      BY <1>7
    <3>2. ~ (p <= e)
      BY <1>8, <3>1
    <3>3. ~ (e + 1 < p)
      <4>1. SUFFICES ASSUME e + 1 < p PROVE FALSE
        OBVIOUS
      <4>2. e + 1 \in begin .. (p - 1)
        BY <1>1, <1>2, <1>4, <2>1, <3>1, <4>1
      <4> QED BY <2>1, <3>1, <4>2
    <3> QED BY <1>1, <1>2, <1>4, <3>1, <3>2, <3>3
  <2>4. e + 1 \in hit
    <3>1. PICK d : d = e + 1
      OBVIOUS
    <3>2. d \in begin .. Len(s) /\ b[d] = Delimiter /\ \A j \in begin .. (d - 1) : b[j] # Delimiter
      <4>1. d - 1 = e
        BY <1>2, <3>1
      <4> QED BY <2>1, <2>2, <3>1, <4>1
    <3>3. d \in hit
      BY <1>7, <3>2
    <3> QED BY <3>1, <3>3
  <2>5. hit = {e + 1}
    BY <2>3, <2>4
  <2> QED BY <1>3, <1>9, <2>5 DEF hit, begin, q, C
<1>10. CASE ~ (k < C)
  <2>1. e = Len(s)
    BY <1>3, <1>10
  <2>2. \A p \in begin .. Len(s) : b[p] # Delimiter
    BY <1>1, <1>4, <1>8, <2>1
  <2>3. hit = {}
    BY <1>7, <2>2
  <2> QED BY <1>10, <2>3 DEF hit, begin, q, C
<1> QED BY <1>9, <1>10

(* The string cut at the delimiter, which is where the token ends.         *)
CutAt(b, hit) == [p \in DOMAIN b |-> IF p \in hit THEN NUL ELSE b[p]]

LEMMA CutAtProperties ==
  ASSUME NEW b \in Seq(PlainOrNul), NEW hit
  PROVE  /\ CutAt(b, hit) \in Seq(PlainOrNul) /\ Len(CutAt(b, hit)) = Len(b)
         /\ \A p \in 1 .. Len(b) : CutAt(b, hit)[p] = IF p \in hit THEN NUL ELSE b[p]
<1>1. Len(b) \in Nat /\ DOMAIN b = 1 .. Len(b)
  BY LenProperties
<1>2. \A p \in 1 .. Len(b) : b[p] \in PlainOrNul
  BY ElementOfSeq
<1>3. CutAt(b, hit) \in [1 .. Len(b) -> PlainOrNul]
  BY <1>1, <1>2, NulIsNotPlain DEF CutAt
<1>4. CutAt(b, hit) \in Seq(PlainOrNul)
  BY <1>1, <1>3, SeqDef
<1>5. Len(CutAt(b, hit)) = Len(b)
  BY <1>1, <1>3, <1>4, LenProperties
<1> QED BY <1>1, <1>4, <1>5 DEF CutAt

LEMMA TokenIsPiece ==
  ASSUME NEW b \in Seq(PlainOrNul), NEW s \in Seq(Plain),
         NEW k \in 1 .. Cardinality(Cuts(s, Delimiter)),
         WholeFrom(b, s, InOrder(Cuts(s, Delimiter))[k] + 1),
         NEW cut, cut = CutAt(b, Strchr(b, InOrder(Cuts(s, Delimiter))[k] + 1))
  PROVE  /\ CString(cut, InOrder(Cuts(s, Delimiter))[k] + 1) = Pieces(s, Delimiter)[k]
         /\ k < Cardinality(Cuts(s, Delimiter)) =>
              WholeFrom(cut, s, InOrder(Cuts(s, Delimiter))[k + 1] + 1)
<1> DEFINE C == Cardinality(Cuts(s, Delimiter))
           q == InOrder(Cuts(s, Delimiter))
           e == PieceEnd(s, Delimiter, k)
           begin == q[k] + 1
           hit == Strchr(b, begin)
           p == Pieces(s, Delimiter)
<1>1. Len(s) \in Nat /\ Len(b) \in Nat /\ Len(s) < Len(b)
  BY LenProperties DEF WholeFrom
<1>2. e \in 0 .. Len(s) /\ q[k] \in 0 .. e /\ p[k] = SubSeq(s, begin, e)
  BY PiecesProperties
<1>3. /\ k < C => q[k + 1] = e + 1 /\ q[k + 1] \in 1 .. Len(s)
      /\ ~ (k < C) => e = Len(s)
  BY PieceHasNoCut
<1>4. hit = IF k < C THEN {q[k + 1]} ELSE {}
  BY StrchrFinds
<1>5. /\ b[Len(s) + 1] = NUL
      /\ \A i \in begin .. Len(s) : b[i] = s[i]
  BY DEF WholeFrom
<1>6. /\ Len(cut) = Len(b)
      /\ \A i \in 1 .. Len(b) : cut[i] = IF i \in hit THEN NUL ELSE b[i]
  <2> HIDE DEF hit
  <2>1. cut = CutAt(b, hit)
    BY DEF hit
  <2> QED BY <2>1, CutAtProperties
<1> HIDE DEF C, q, e, hit, p
<1>7. begin \in 1 .. (e + 1) /\ e + 1 \in begin .. Len(b) /\ begin \in Nat
  BY <1>1, <1>2
<1> HIDE DEF begin
<1>8. cut[e + 1] = NUL
  <2>1. e + 1 \in 1 .. Len(b)
    BY <1>1, <1>2
  <2>2. CASE k < C
    BY <1>3, <1>4, <1>6, <2>1, <2>2
  <2>3. CASE ~ (k < C)
    BY <1>3, <1>4, <1>5, <1>6, <2>1, <2>3
  <2> QED BY <2>2, <2>3
<1>9. ASSUME NEW i \in begin .. e
      PROVE  cut[i] = s[i] /\ s[i] \in Plain /\ cut[i] # NUL
  <2>1. i \in 1 .. Len(b) /\ i \in begin .. Len(s) /\ i \in 1 .. Len(s) /\ i # e + 1
    BY <1>1, <1>2, <1>7
  <2>2. i \notin hit
    BY <1>3, <1>4, <2>1
  <2>3. cut[i] = s[i]
    BY <1>5, <1>6, <2>1, <2>2
  <2>4. s[i] \in Plain
    BY <2>1, ElementOfSeq
  <2> QED BY <2>3, <2>4, NulIsNotPlain
<1>10. EndOfString(cut, begin) = e + 1
  <2>1. (e + 1) - 1 = e
    BY <1>2
  <2>2. \A j \in begin .. ((e + 1) - 1) : cut[j] # NUL
    BY <1>9, <2>1
  <2>3. Len(cut) \in Nat /\ e + 1 \in begin .. Len(cut)
    BY <1>1, <1>6, <1>7
  <2> DEFINE d == e + 1
  <2> HIDE DEF d
  <2>4. EndOfString(cut, begin) = d
    BY <1>7, <1>8, <2>2, <2>3, EndOfStringIs DEF d
  <2> QED BY <2>4 DEF d
<1>11. CString(cut, begin) = SubSeq(cut, begin, e)
  <2>1. (e + 1) - 1 = e
    BY <1>2
  <2> QED BY <1>10, <2>1 DEF CString
<1>12. SubSeq(cut, begin, e) = SubSeq(s, begin, e)
  <2>1. begin \in Int /\ e \in Int
    BY <1>1, <1>2, <1>7
  <2> QED BY <1>9, <2>1, SlicesEqual
<1>13. ASSUME k < C
       PROVE  WholeFrom(cut, s, q[k + 1] + 1)
  <2>1. q[k + 1] = e + 1 /\ hit = {e + 1} /\ e + 1 \in 1 .. Len(s)
    BY <1>3, <1>4, <1>13
  <2>2. Len(s) + 1 \in 1 .. Len(b) /\ Len(s) + 1 # e + 1
    BY <1>1, <1>2, <2>1
  <2>3. cut[Len(s) + 1] = NUL
    BY <1>5, <1>6, <2>1, <2>2
  <2>4. ASSUME NEW i \in (q[k + 1] + 1) .. Len(s)
        PROVE  cut[i] = s[i]
    <3>1. i \in 1 .. Len(b) /\ i \in begin .. Len(s) /\ i # e + 1
      BY <1>1, <1>2, <1>7, <2>1
    <3> QED BY <1>5, <1>6, <2>1, <3>1
  <2> QED BY <1>1, <1>6, <2>3, <2>4 DEF WholeFrom
<1>14. CString(cut, begin) = p[k]
  BY <1>2, <1>11, <1>12
<1> QED BY <1>13, <1>14 DEF C, q, begin, p

(* One call of the tokenizer, from the beginning of field number           *)
(* Len(answers) + 1 of the string s on.                                    *)
AnswersAreFields(answers, s) ==
  \A i \in 1 .. Len(answers) :
    answers[i] = IF i <= Len(Pieces(s, Delimiter)) /\ Pieces(s, Delimiter)[i] # << >>
                 THEN Pieces(s, Delimiter)[i] ELSE Nothing

Answered(s, k) ==
  /\ buf' \in Seq(PlainOrNul) /\ Len(buf') = Len(buf)
  /\ \A p \in 1 .. Len(buf) : buf[p] = NUL => buf'[p] = NUL
  /\ tokens' \in Seq(Answer) /\ Len(tokens') = k
  /\ AnswersAreFields(tokens', s)
  /\ IF k < Cardinality(Cuts(s, Delimiter))
     THEN /\ saveptr' = InOrder(Cuts(s, Delimiter))[k + 1]
          /\ WholeFrom(buf', s, saveptr' + 1)
     ELSE saveptr' = Nothing

LEMMA NextTokenStep ==
  ASSUME buf \in Seq(PlainOrNul), NEW s \in Seq(Plain), NEW answers \in Seq(Answer),
         NEW k, k = Len(answers) + 1, k \in 1 .. Cardinality(Cuts(s, Delimiter)),
         NEW before, before = InOrder(Cuts(s, Delimiter))[k],
         WholeFrom(buf, s, before + 1), AnswersAreFields(answers, s),
         NextToken(before, answers)
  PROVE  Answered(s, k)
<1> DEFINE C == Cardinality(Cuts(s, Delimiter))
           q == InOrder(Cuts(s, Delimiter))
           hit == Strchr(buf, before + 1)
           cut == CutAt(buf, hit)
           token == CString(cut, before + 1)
           answer == IF token = << >> THEN Nothing ELSE token
           p == Pieces(s, Delimiter)
<1>1. /\ buf' = cut
      /\ saveptr' = IF hit = {} THEN Nothing ELSE CHOOSE x \in hit : TRUE
      /\ tokens' = Append(answers, answer)
  BY DEF NextToken, CutAt
<1>2. hit = IF k < C THEN {q[k + 1]} ELSE {}
  BY StrchrFinds
<1>3. token = p[k] /\ (k < C => WholeFrom(cut, s, q[k + 1] + 1))
  BY TokenIsPiece
<1>4. /\ cut \in Seq(PlainOrNul) /\ Len(cut) = Len(buf)
      /\ \A i \in 1 .. Len(buf) : cut[i] = IF i \in hit THEN NUL ELSE buf[i]
  <2> HIDE DEF hit
  <2> QED BY CutAtProperties
<1>5. p \in Seq(Seq(Plain)) /\ Len(p) = C
  BY PiecesProperties
<1> HIDE DEF C, q, hit, cut, token, p
<1>6. k \in 1 .. C
  BY DEF C
<1>7. p[k] \in Seq(Plain)
  BY <1>5, <1>6, ElementOfSeq
<1>8. answer \in Answer /\ answer = IF p[k] # << >> THEN p[k] ELSE Nothing
  BY <1>3, <1>7 DEF Answer
<1> HIDE DEF answer
<1>9. Len(answers) \in Nat
  BY LenProperties
<1>10. /\ tokens' \in Seq(Answer) /\ Len(tokens') = k
       /\ \A i \in 1 .. Len(answers) : tokens'[i] = answers[i]
       /\ tokens'[k] = answer
  BY <1>1, <1>8, AppendProperties
<1>11. AnswersAreFields(tokens', s)
  <2>1. ASSUME NEW i \in 1 .. k
        PROVE  tokens'[i] = IF i <= Len(p) /\ p[i] # << >> THEN p[i] ELSE Nothing
    <3>1. CASE i = k
      <4>1. k <= Len(p)
        BY <1>5, <1>6
      <4> QED BY <1>8, <1>10, <3>1, <4>1
    <3>2. CASE i # k
      <4>1. i \in 1 .. Len(answers)
        BY <1>9, <3>2
      <4> QED BY <1>10, <4>1 DEF AnswersAreFields, p
    <3> QED BY <3>1, <3>2
  <2> QED BY <1>10, <2>1 DEF AnswersAreFields, p
<1>12. IF k < C THEN saveptr' = q[k + 1] /\ WholeFrom(buf', s, saveptr' + 1) ELSE saveptr' = Nothing
  <2>1. CASE k < C
    <3>1. hit # {} /\ (CHOOSE x \in hit : TRUE) = q[k + 1]
      BY <1>2, <2>1
    <3> QED BY <1>1, <1>3, <2>1, <3>1
  <2>2. CASE ~ (k < C)
    BY <1>1, <1>2, <2>2
  <2> QED BY <2>1, <2>2
<1>13. Len(buf') = Len(buf) /\ buf' \in Seq(PlainOrNul) /\ \A i \in 1 .. Len(buf) : buf[i] = NUL => buf'[i] = NUL
  BY <1>1, <1>4
<1> QED BY <1>10, <1>11, <1>12, <1>13 DEF Answered, C, q

LEMMA CallFirst ==
  ASSUME BufferInv, TokenizeFirst
  PROVE  /\ subject' \in Seq(Plain)
         /\ Cardinality(Cuts(subject', Delimiter)) \in Nat \ {0}
         /\ InOrder(Cuts(subject', Delimiter))[1] = 0
         /\ WholeFrom(buf, subject', 1)
<1> DEFINE e == EndOfString(buf, 1)
           s == subject'
<1>1. buf \in Seq(PlainOrNul) /\ Len(buf) \in Nat
  BY LenProperties DEF BufferInv, TokenizeFirst, PlainOrNul
<1>2. PICK p \in 1 .. Len(buf) : buf[p] = NUL
  BY DEF BufferInv, TokenizeFirst
<1>3. e \in 1 .. Len(buf) /\ buf[e] = NUL /\ \A j \in 1 .. (e - 1) : buf[j] # NUL
  BY <1>1, <1>2, EndOfStringExists
<1>4. s = SubSeq(buf, 1, e - 1)
  BY DEF TokenizeFirst, CString
<1> HIDE DEF e, s
<1>5. ASSUME NEW j \in 1 .. (e - 1)
      PROVE  buf[j] \in Plain
  <2>1. j \in 1 .. Len(buf)
    BY <1>1, <1>3
  <2>2. buf[j] \in PlainOrNul
    BY <1>1, <2>1, ElementOfSeq
  <2> QED BY <1>3, <2>2 DEF PlainOrNul
<1>6. s \in Seq(Plain) /\ Len(s) = e - 1 /\ \A j \in 1 .. (e - 1) : s[j] = buf[j]
  <2>1. 1 \in Int /\ e - 1 \in Int
    BY <1>3
  <2>2. /\ s \in Seq(Plain)
        /\ Len(s) = IF 1 <= e - 1 THEN e - 1 - 1 + 1 ELSE 0
        /\ \A j \in 1 .. (e - 1 - 1 + 1) : s[j] = buf[1 + j - 1]
    BY <1>4, <1>5, <2>1, SubSeqProperties
  <2>3. e - 1 - 1 + 1 = e - 1 /\ (~ (1 <= e - 1) => e - 1 = 0)
    BY <1>3
  <2>4. \A j \in 1 .. (e - 1) : 1 + j - 1 = j
    BY <1>3
  <2> QED BY <2>2, <2>3, <2>4
<1>7. WholeFrom(buf, s, 1)
  <2>1. e - 1 < Len(buf) /\ (e - 1) + 1 = e
    BY <1>1, <1>3
  <2> QED BY <1>3, <1>6, <2>1 DEF WholeFrom
<1> QED BY <1>6, <1>7, CutsProperties, FirstCut DEF s

LEMMA TokenAnswers ==
  TokensAreFields <=> AnswersAreFields(tokens, subject)
BY DEF TokensAreFields, AnswersAreFields

(* A string, once read, is the tokenizer's.                                *)
LEMMA TokenizeFirstStep ==
  ASSUME BufferInv, TokensInv, TokenizeFirst
  PROVE  BufferInv' /\ TokensInv' /\ TokensAreFields'
<1> DEFINE s == subject'
           C == Cardinality(Cuts(s, Delimiter))
           q == InOrder(Cuts(s, Delimiter))
<1>1. s \in Seq(Plain) /\ C \in Nat \ {0} /\ q[1] = 0 /\ WholeFrom(buf, s, 1)
  BY CallFirst
<1>2. /\ buf \in Seq(PlainOrNul) /\ phase = "line" /\ phase' = phase /\ NextToken(0, << >>)
      /\ \E p \in 1 .. Len(buf) : buf[p] = NUL
  BY DEF BufferInv, TokenizeFirst, reader
<1> HIDE DEF s
<1>3. << >> \in Seq(Answer) /\ Len(<< >>) = 0
  BY EmptySeq
<1>4. AnswersAreFields(<< >>, s)
  BY <1>3 DEF AnswersAreFields
<1>5. /\ buf' \in Seq(PlainOrNul) /\ Len(buf') = Len(buf)
      /\ \A p \in 1 .. Len(buf) : buf[p] = NUL => buf'[p] = NUL
      /\ tokens' \in Seq(Answer) /\ Len(tokens') = 1
      /\ AnswersAreFields(tokens', s)
      /\ IF 1 < C THEN saveptr' = q[2] /\ WholeFrom(buf', s, saveptr' + 1)
                  ELSE saveptr' = Nothing
  <2>1. PICK k : k = 1
    OBVIOUS
  <2>2. PICK before : before = 0
    OBVIOUS
  <2>3. PICK answers : answers = << >>
    OBVIOUS
  <2>4. /\ k = Len(answers) + 1 /\ k \in 1 .. C /\ before = q[k] /\ WholeFrom(buf, s, before + 1)
        /\ AnswersAreFields(answers, s) /\ NextToken(before, answers) /\ answers \in Seq(Answer)
    BY <1>1, <1>2, <1>3, <1>4, <2>1, <2>2, <2>3
  <2>5. /\ buf' \in Seq(PlainOrNul) /\ Len(buf') = Len(buf)
        /\ \A p \in 1 .. Len(buf) : buf[p] = NUL => buf'[p] = NUL
        /\ tokens' \in Seq(Answer) /\ Len(tokens') = k
        /\ AnswersAreFields(tokens', s)
        /\ IF k < C THEN saveptr' = q[k + 1] /\ WholeFrom(buf', s, saveptr' + 1)
                    ELSE saveptr' = Nothing
    <3>1. Answered(s, k)
      BY <1>1, <1>2, <2>4, NextTokenStep
    <3> QED BY <3>1 DEF Answered
  <2>6. k + 1 = 2
    BY <2>1
  <2> QED BY <2>1, <2>5, <2>6
<1>6. tokens' # << >>
  BY <1>3, <1>5
<1>7. BufferInv'
  BY <1>2, <1>5, <1>6 DEF BufferInv
<1>8. Len(q) = C
  BY <1>1, CutsProperties
<1>9. TokensInv'
  BY <1>1, <1>5, <1>8 DEF TokensInv, s
<1>10. TokensAreFields'
  <2>1. TokensAreFields' <=> AnswersAreFields(tokens', subject')
    BY DEF TokensAreFields, AnswersAreFields
  <2> QED BY <1>5, <2>1 DEF s
<1> QED BY <1>7, <1>9, <1>10

LEMMA TokenizeNextStep ==
  ASSUME BufferInv, TokensInv, TokensAreFields, TokenizeNext
  PROVE  BufferInv' /\ TokensInv' /\ TokensAreFields'
<1> DEFINE s == subject
           C == Cardinality(Cuts(s, Delimiter))
           q == InOrder(Cuts(s, Delimiter))
           k == Len(tokens) + 1
<1>1. /\ phase = "line" /\ phase' = phase /\ tokens # << >> /\ subject' = s
      /\ \/ saveptr # Nothing /\ NextToken(saveptr, tokens)
         \/ saveptr = Nothing /\ tokens' = Append(tokens, Nothing) /\ UNCHANGED <<buf, saveptr>>
  BY DEF TokenizeNext, reader
<1>2. buf \in Seq(PlainOrNul) /\ \E p \in 1 .. Len(buf) : buf[p] = NUL
  BY <1>1 DEF BufferInv
<1>3. /\ tokens \in Seq(Answer) /\ s \in Seq(Plain)
      /\ IF Len(tokens) < Len(q)
         THEN saveptr = q[k] /\ WholeFrom(buf, s, saveptr + 1)
         ELSE saveptr = Nothing
  BY <1>1 DEF TokensInv
<1>4. Len(q) = C /\ C \in Nat \ {0} /\ \A n \in 1 .. C : q[n] \in Cuts(s, Delimiter)
  BY <1>3, CutsProperties
<1>5. Len(tokens) \in Nat
  BY <1>3, LenProperties
<1>6. AnswersAreFields(tokens, s)
  BY TokenAnswers
<1>7. TokensAreFields' <=> AnswersAreFields(tokens', subject')
  BY DEF TokensAreFields, AnswersAreFields
<1> HIDE DEF s, C, q, k
<1>8. CASE saveptr # Nothing
  <2>1. NextToken(saveptr, tokens) /\ Len(tokens) < C /\ saveptr = q[k] /\ WholeFrom(buf, s, saveptr + 1)
    BY <1>1, <1>3, <1>4, <1>8
  <2>2. k \in 1 .. C /\ k = Len(tokens) + 1
    BY <1>4, <1>5, <2>1 DEF k
  <2>3. /\ buf' \in Seq(PlainOrNul) /\ Len(buf') = Len(buf)
        /\ \A p \in 1 .. Len(buf) : buf[p] = NUL => buf'[p] = NUL
        /\ tokens' \in Seq(Answer) /\ Len(tokens') = k
        /\ AnswersAreFields(tokens', s)
        /\ IF k < C THEN saveptr' = q[k + 1] /\ WholeFrom(buf', s, saveptr' + 1)
                    ELSE saveptr' = Nothing
    <3>1. k \in 1 .. Cardinality(Cuts(s, Delimiter)) /\ saveptr = InOrder(Cuts(s, Delimiter))[k]
      BY <2>1, <2>2 DEF C, q
    <3>2. Answered(s, k)
      BY <1>2, <1>3, <1>6, <2>1, <2>2, <3>1, NextTokenStep
    <3> QED BY <3>2 DEF Answered, C, q
  <2>4. tokens' # << >>
    BY <2>2, <2>3, EmptySeq
  <2>5. BufferInv'
    BY <1>1, <1>2, <2>3, <2>4 DEF BufferInv
  <2>6. TokensInv'
    BY <1>1, <1>3, <1>4, <2>3 DEF TokensInv, s, q
  <2> QED BY <1>1, <1>7, <2>3, <2>5, <2>6
<1>9. CASE saveptr = Nothing
  <2>1. ~ (Len(tokens) < C)
    <3>1. SUFFICES ASSUME Len(tokens) < C PROVE FALSE
      OBVIOUS
    <3>2. k \in 1 .. C
      BY <1>4, <1>5, <3>1 DEF k
    <3>3. q[k] \in Cuts(s, Delimiter) /\ FiniteNumbers(Cuts(s, Delimiter))
      BY <1>3, <1>4, <3>2, CutsProperties
    <3>4. q[k] \in Int
      BY <3>3 DEF FiniteNumbers
    <3> QED BY <1>3, <1>4, <1>9, <3>1, <3>4, Distinct
  <2>2. tokens' = Append(tokens, Nothing) /\ UNCHANGED <<buf, saveptr>>
    BY <1>1, <1>9
  <2>3. Nothing \in Answer
    BY DEF Answer
  <2>4. /\ tokens' \in Seq(Answer) /\ tokens' # << >> /\ Len(tokens') = k
        /\ \A i \in 1 .. Len(tokens) : tokens'[i] = tokens[i]
        /\ tokens'[k] = Nothing
    BY <1>3, <2>2, <2>3, AppendProperties DEF k
  <2>5. BufferInv'
    BY <1>1, <1>2, <2>2, <2>4 DEF BufferInv
  <2>6. TokensInv'
    <3>1. ~ (k < Len(q))
      BY <1>4, <1>5, <2>1 DEF k
    <3> QED BY <1>1, <1>3, <1>9, <2>2, <2>4, <3>1 DEF TokensInv, s, q
  <2>7. AnswersAreFields(tokens', s)
    <3> DEFINE p == Pieces(s, Delimiter)
    <3>1. Len(p) = C
      BY <1>3, PiecesProperties DEF C
    <3>2. ASSUME NEW i \in 1 .. k
          PROVE  tokens'[i] = IF i <= Len(p) /\ p[i] # << >> THEN p[i] ELSE Nothing
      <4>1. CASE i = k
        <5>1. ~ (k <= Len(p))
          BY <1>4, <1>5, <2>1, <3>1 DEF k
        <5> QED BY <2>4, <4>1, <5>1
      <4>2. CASE i # k
        <5>1. i \in 1 .. Len(tokens)
          BY <1>5, <4>2 DEF k
        <5> QED BY <1>6, <2>4, <5>1 DEF AnswersAreFields
      <4> QED BY <4>1, <4>2
    <3> QED BY <2>4, <3>2 DEF AnswersAreFields
  <2> QED BY <1>1, <1>7, <2>5, <2>6, <2>7
<1> QED BY <1>8, <1>9

(* The steps of string_getline leave the tokenizer alone, or end its work. *)
LEMMA ReadStep ==
  ASSUME TextInv, BufferInv, TokensInv, TokensAreFields, Getline \/ Read
  PROVE  BufferInv' /\ TokensInv' /\ TokensAreFields'
<1>1. << >> \in Seq(Plain) /\ << >> \in Seq(Answer) /\ Len(<< >>) = 0
  BY EmptySeq
<1>2. ASSUME tokens' = << >>
      PROVE  TokensInv' /\ TokensAreFields'
  BY <1>1, <1>2 DEF TokensInv, TokensAreFields
<1>3. CASE Getline
  <2>1. tokens' = << >> /\ buf' = << >> /\ phase' = "reading"
    BY <1>3 DEF Getline
  <2> QED BY <1>1, <1>2, <2>1 DEF BufferInv
<1>4. CASE Read
  <2>1. phase = "reading" /\ tokens' = tokens
    BY <1>4 DEF Read, IgnoreCarriage, IgnoreEmptyLine, CompleteLine, ReadLetter, EndOfFile, Fgetc, tokenizer
  <2>2. tokens = << >> /\ buf \in Seq(Plain) /\ Len(buf) \in Nat
    BY <2>1, LenProperties DEF BufferInv
  <2>3. TokensInv' /\ TokensAreFields'
    BY <1>2, <2>1, <2>2
  <2>4. ASSUME phase' = "idle"
        PROVE  BufferInv'
    BY <2>1, <2>2, <2>4 DEF BufferInv
  <2>5. ASSUME phase' = phase /\ buf' = buf
        PROVE  BufferInv'
    BY <2>1, <2>2, <2>5 DEF BufferInv
  <2>6. ASSUME \E c \in Plain : phase' = phase /\ buf' = Append(buf, c)
        PROVE  BufferInv'
    <3>1. buf' \in Seq(Plain)
      BY <2>2, <2>6, AppendProperties
    <3> QED BY <2>1, <2>2, <2>6, <3>1 DEF BufferInv
  <2>7. ASSUME phase' = "line" /\ buf' = Append(buf, NUL) /\ buf # << >>
        PROVE  BufferInv'
    <3>1. buf \in Seq(PlainOrNul) /\ NUL \in PlainOrNul
      BY <2>2, NulIsNotPlain, SeqMonotonic
    <3> DEFINE n == Len(buf)
    <3>2. /\ buf' \in Seq(PlainOrNul) /\ Len(buf') = n + 1
          /\ buf'[n + 1] = NUL /\ \A i \in 1 .. n : buf'[i] = buf[i]
      BY <2>7, <3>1, AppendProperties
    <3>3. n > 0 /\ n \in Nat
      BY <2>2, <2>7, EmptySeq
    <3>4. \A i \in 1 .. n : buf'[i] \in Plain
      BY <2>2, <3>2, ElementOfSeq
    <3> HIDE DEF n
    <3>5. n + 1 \in 1 .. Len(buf') /\ Len(buf') > 1 /\ Len(buf') - 1 = n
      BY <3>2, <3>3
    <3> QED BY <2>1, <2>2, <2>7, <3>2, <3>4, <3>5 DEF BufferInv
  <2>8. \/ phase' = "idle"
        \/ phase' = phase /\ buf' = buf
        \/ \E c \in Plain : phase' = phase /\ buf' = Append(buf, c)
        \/ phase' = "line" /\ buf' = Append(buf, NUL) /\ buf # << >>
    <3>1. CASE IgnoreCarriage \/ IgnoreEmptyLine
      BY <3>1 DEF IgnoreCarriage, IgnoreEmptyLine, GoOn
    <3>2. CASE CompleteLine
      BY <3>2 DEF CompleteLine, PushRefused
    <3>3. CASE ReadLetter
      BY <3>3 DEF ReadLetter, PushRefused, Pushed, Plain
    <3>4. CASE EndOfFile
      BY <3>4 DEF EndOfFile
    <3> QED BY <1>4, <3>1, <3>2, <3>3, <3>4 DEF Read
  <2> QED BY <2>3, <2>4, <2>5, <2>6, <2>7, <2>8
<1> QED BY <1>3, <1>4

-----------------------------------------------------------------------------
(* The invariants.                                                         *)

LEMMA InitInv == Init => Inv
<1> SUFFICES ASSUME Init PROVE Inv
  OBVIOUS
<1>1. /\ text \in Seq(Char) /\ Len(text) \in Nat /\ stream = text /\ text \in [1 .. Len(text) -> Char]
  <2>1. PICK m \in 0 .. MaxText : text \in [1 .. m -> Char]
    BY DEF Init, BoundedSeq, SeqOf
  <2>2. m \in Nat
    BY <2>1, BoundsAssumption
  <2>3. text \in Seq(Char)
    BY <2>1, <2>2, SeqDef
  <2> QED BY <2>3, LenProperties DEF Init
<1>2. /\ << >> \in Seq(Seq(Char)) /\ << >> \in Seq(Answer) /\ Len(<< >>) = 0
  BY EmptySeq
<1>3. TextInv
  BY <1>1 DEF TextInv
<1>4. BufferInv
  BY DEF Init, BufferInv
<1>5. Consumed = << >>
  <2>1. Len(text) - Len(stream) = 0
    BY <1>1
  <2>2. SubSeq(text, 1, 0) = << >>
    BY SubSeqEmpty
  <2> QED BY <2>1, <2>2 DEF Consumed
<1>6. LinesOf(Consumed) = << >> /\ UnendedOf(Consumed) = << >>
  BY <1>5, LinesOfNothing
<1>7. LinesInv
  BY <1>2, <1>6, Distinct DEF Init, LinesInv
<1>8. SourcesInv
  <2>1. Sourced(<< >>, << >>)
    <3>1. \A i \in 1 .. 0 : FALSE
      OBVIOUS
    <3>2. [i \in 1 .. 0 |-> 1] \in [1 .. 0 -> 1 .. 0]
      BY <3>1
    <3> QED BY <1>2, <3>1, <3>2 DEF Sourced
  <2> QED BY <1>6, <2>1 DEF Init, SourcesInv
<1>9. TokensInv /\ TokensAreFields
  BY <1>2 DEF Init, TokensInv, TokensAreFields
<1> QED BY <1>3, <1>4, <1>7, <1>8, <1>9 DEF Inv

LEMMA NextInv == Inv /\ [Next]_vars => Inv'
<1> SUFFICES ASSUME Inv, [Next]_vars PROVE Inv'
  OBVIOUS
<1>1. TextInv /\ BufferInv /\ LinesInv /\ SourcesInv /\ TokensInv /\ TokensAreFields
  BY DEF Inv
<1>2. TextInv'
  BY <1>1, TextStep
<1>3. LinesInv' /\ SourcesInv'
  BY <1>1, LinesStep, SourcesStep
<1>4. BufferInv' /\ TokensInv' /\ TokensAreFields'
  <2>1. CASE Getline \/ Read
    BY <1>1, <2>1, ReadStep
  <2>2. CASE TokenizeFirst
    BY <1>1, <2>2, TokenizeFirstStep
  <2>3. CASE TokenizeNext
    BY <1>1, <2>3, TokenizeNextStep
  <2>4. CASE UNCHANGED vars
    <3>1. UNCHANGED <<buf, phase, tokens, saveptr, subject>>
      BY <2>4 DEF vars, reader, tokenizer
    <3> QED BY <1>1, <3>1 DEF BufferInv, TokensInv, TokensAreFields
  <2> QED BY <2>1, <2>2, <2>3, <2>4 DEF Next
<1> QED BY <1>2, <1>3, <1>4 DEF Inv

LEMMA Invariance == Spec => []Inv
<1>1. Inv /\ [Next]_vars => Inv'
  BY NextInv
<1> QED BY <1>1, InitInv, PTL DEF Spec

(* However string_getline is called, the strings it returns are the lines  *)
(* of the text in order, with none left out, until a push is refused; and  *)
(* when it answers that the stream is at its end, they are all of them.    *)
THEOREM LinesAreRead == Spec => []ReadsLinesInOrder
<1>1. Inv => ReadsLinesInOrder
  <2> SUFFICES ASSUME Inv, ~ refused PROVE IsPrefix(lines, LinesOfText) /\ (ret = 0 => lines = LinesOfText)
    BY DEF ReadsLinesInOrder
  <2>1. TextInv /\ LinesInv
    BY DEF Inv
  <2>2. lines = LinesOf(Consumed) /\ (ret = 0 => stream = << >>)
    BY <2>1 DEF LinesInv
  <2> DEFINE k == Len(text) - Len(stream)
  <2>3. k \in 0 .. Len(text) /\ text \in Seq(Char) /\ Consumed \in Seq(Char) /\ Consumed = SubSeq(text, 1, k)
    BY <2>1, ConsumedIsText DEF TextInv, Consumed
  <2> HIDE DEF k
  <2>4. StartsWith(LinesOfText, lines)
    BY <2>2, <2>3, LinesOfPrefix DEF LinesOfText
  <2>5. /\ lines \in Seq(Seq(Char)) /\ LinesOfText \in Seq(Seq(Char))
        /\ Len(lines) \in Nat /\ Len(LinesOfText) \in Nat
    BY <2>2, <2>3, LinesProperties, LenProperties DEF LinesOfText
  <2>6. SubSeq(lines, 1, Len(lines)) = SubSeq(LinesOfText, 1, Len(lines))
    <3>1. \A i \in 1 .. Len(lines) : LinesOfText[i] \in Seq(Char) /\ lines[i] = LinesOfText[i]
      <4>1. \A i \in 1 .. Len(lines) : i \in 1 .. Len(LinesOfText)
        BY <2>4, <2>5 DEF StartsWith
      <4> QED BY <2>4, <2>5, <4>1, ElementOfSeq DEF StartsWith
    <3>2. 1 \in Int /\ Len(lines) \in Int
      BY <2>5
    <3> QED BY <3>1, <3>2, SlicesEqual
  <2>7. IsPrefix(lines, LinesOfText)
    BY <2>4, <2>6 DEF IsPrefix, StartsWith
  <2>8. ret = 0 => Consumed = text
    <3>1. stream = << >> => k = Len(text)
      BY <2>1, ConsumedIsText, EmptySeq DEF k
    <3> QED BY <2>2, <2>3, <3>1, SubSeqFull
  <2> QED BY <2>2, <2>7, <2>8 DEF LinesOfText
<1> QED BY <1>1, Invariance, PTL

(* A refused push costs the beginning of one line: every string returned,  *)
(* before it or after, is the end of a line or a whole one, and the lines  *)
(* come in order; never two run together or one with a hole.               *)
THEOREM RefusalsLoseBeginnings == Spec => []RefusalLosesBeginnings
<1>1. Inv => RefusalLosesBeginnings
  <2> SUFFICES ASSUME Inv PROVE RefusalLosesBeginnings
    OBVIOUS
  <2>1. TextInv /\ lines \in Seq(Seq(Char)) /\ Sourced(lines, LinesOf(Consumed))
    BY DEF Inv, LinesInv, SourcesInv
  <2> DEFINE k == Len(text) - Len(stream)
  <2>2. k \in 0 .. Len(text) /\ text \in Seq(Char) /\ Consumed \in Seq(Char) /\ Consumed = SubSeq(text, 1, k)
    BY <2>1, ConsumedIsText DEF TextInv, Consumed
  <2> HIDE DEF k
  <2>3. StartsWith(LinesOfText, LinesOf(Consumed))
    BY <2>2, LinesOfPrefix DEF LinesOfText
  <2>4. LinesOf(Consumed) \in Seq(Seq(Char)) /\ LinesOfText \in Seq(Seq(Char))
    BY <2>2, LinesProperties DEF LinesOfText
  <2>5. Sourced(lines, LinesOfText)
    BY <2>1, <2>3, <2>4, SourcedByMore
  <2> QED BY <2>5 DEF Sourced, RefusalLosesBeginnings
<1> QED BY <1>1, Invariance, PTL

(* A string string_getline has returned, and the tokenizer not yet cut, is *)
(* not empty and ends with the only NUL in it, so that string_length, one  *)
(* less than the buffer, is its length.                                    *)
THEOREM StringsTerminated == Spec => []StringsAreTerminated
<1>1. Inv => StringsAreTerminated
  <2> SUFFICES ASSUME Inv, phase = "line", tokens = << >>
               PROVE  buf # << >> /\ Last(buf) = NUL /\ CString(buf, 1) = Front(buf) /\ Len(buf) - 1 > 0
    BY DEF StringsAreTerminated
  <2>1. /\ buf \in Seq(PlainOrNul)
        /\ Len(buf) > 1 /\ buf[Len(buf)] = NUL /\ \A i \in 1 .. (Len(buf) - 1) : buf[i] \in Plain
    BY DEF Inv, BufferInv
  <2>2. Len(buf) \in Nat
    BY <2>1, LenProperties
  <2>3. EndOfString(buf, 1) = Len(buf)
    <3>1. \A i \in 1 .. (Len(buf) - 1) : buf[i] # NUL
      BY <2>1, NulIsNotPlain
    <3>2. Len(buf) \in 1 .. Len(buf) /\ 1 \in Nat
      BY <2>1, <2>2
    <3> QED BY <2>1, <2>2, <3>1, <3>2, EndOfStringIs
  <2>4. buf # << >> /\ Len(buf) - 1 > 0
    BY <2>1, <2>2, EmptySeq
  <2> QED BY <2>1, <2>3, <2>4 DEF Last, Front, CString
<1> QED BY <1>1, Invariance, PTL

(* The answers of the tokenizer are the fields of the string it was called *)
(* with, in order, an empty field and the end answered by NULL, although   *)
(* it cuts the string as it goes and may be started over on one cut.       *)
THEOREM TokensFound == Spec => []TokensAreFields
<1>1. Inv => TokensAreFields
  BY DEF Inv
<1> QED BY <1>1, Invariance, PTL
=============================================================================
