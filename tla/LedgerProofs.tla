---------------------------- MODULE LedgerProofs ----------------------------
(***************************************************************************)
(* Proofs about Ledger, Speed and sniff's buffer, for any keys, callers,   *)
(* streams and buffer.                                                     *)
(***************************************************************************)
EXTENDS Ledger, SequenceTheorems, FiniteSetTheorems, WellFoundedInduction, TLAPS

-----------------------------------------------------------------------------
(* Latency.                                                                *)

\* A new average lies between the old one and the sample (speed.go:9): neither the division
\* nor the weights push it out.
THEOREM MeasureBetween ==
  ASSUME NEW old \in Nat \ {0}, NEW d \in Nat \ {0}
  PROVE  /\ Measure(old, d) \in Nat
         /\ Lesser(old, d) <= Measure(old, d) /\ Measure(old, d) <= Greater(old, d)
  BY DEF Measure, Lesser, Greater

\* A tightened budget is never below the floor nor above what is configured (speed.go:74).
THEOREM TightenBounded ==
  ASSUME NEW t \in Nat, NEW want \in Nat, NEW floor \in Nat, floor <= want
  PROVE  /\ Tighten(t, want, floor) \in Nat
         /\ floor <= Tighten(t, want, floor) /\ Tighten(t, want, floor) <= want
  BY SpeedAssumption, SMTT(30) DEF Tighten, Lesser, Greater

LEMMA MeasureNat ==
  ASSUME NEW old \in Nat, NEW d \in Nat
  PROVE  Measure(old, d) \in Nat
  BY DEF Measure

LEMMA TightenNat ==
  ASSUME NEW t \in Nat, NEW want \in Nat, NEW floor \in Nat
  PROVE  Tighten(t, want, floor) \in Nat
  BY SpeedAssumption DEF Tighten, Lesser, Greater

-----------------------------------------------------------------------------
(* Sums.  A sum is a fold: a function of all subsets, by recursion.        *)

LEMMA LeastNatural ==
  ASSUME NEW S \in SUBSET Nat, S # {}
  PROVE  \E m \in S : \A n \in S : m <= n
<1> DEFINE R == {x \in Nat \X Nat : x[1] < x[2]}
<1>1. R = OpToRel(<, Nat)
  BY DEF OpToRel
<1>2. IsWellFoundedOn(R, Nat)
  BY <1>1, NatLessThanWellFounded
<1> HIDE DEF R
<1>3. PICK m \in S : \A n \in S : <<n, m>> \notin R
  BY <1>2, WFMin
<1>4. \A n \in S : n \in Nat /\ m \in Nat /\ ~(n < m)
  BY <1>3 DEF R
<1> QED
  BY <1>4

\* The subsets of D with no more than n elements.
Small(D, n) == {s \in SUBSET D : Cardinality(s) <= n}

LEMMA SmallFacts ==
  ASSUME NEW D, IsFiniteSet(D)
  PROVE  /\ Small(D, 0) = {{}}
         /\ Small(D, Cardinality(D)) = SUBSET D /\ Cardinality(D) \in Nat
         /\ \A n \in Nat \ {0} : \A s \in Small(D, n) : \A x \in s : s \ {x} \in Small(D, n - 1)
         /\ \A n \in Nat : {} \in Small(D, n) /\ Small(D, n) \subseteq SUBSET D
<1>1. \A s \in SUBSET D : IsFiniteSet(s) /\ Cardinality(s) \in Nat /\ Cardinality(s) <= Cardinality(D)
  BY FS_Subset, FS_CardinalityType
<1>2. Cardinality({}) = 0 /\ \A s \in SUBSET D : Cardinality(s) = 0 => s = {}
  BY <1>1, FS_EmptySet
<1>3. Small(D, 0) = {{}}
  BY <1>1, <1>2 DEF Small
<1>4. Small(D, Cardinality(D)) = SUBSET D /\ Cardinality(D) \in Nat
  BY <1>1, FS_CardinalityType DEF Small
<1>5. ASSUME NEW n \in Nat \ {0}, NEW s \in Small(D, n), NEW x \in s
      PROVE  s \ {x} \in Small(D, n - 1)
  <2>1. s \in SUBSET D /\ IsFiniteSet(s) /\ Cardinality(s) \in Nat /\ Cardinality(s) <= n
    BY <1>1 DEF Small
  <2>2. Cardinality(s \ {x}) = Cardinality(s) - 1
    BY <2>1, FS_RemoveElement
  <2> QED
    BY <2>1, <2>2 DEF Small
<1>6. \A n \in Nat : {} \in Small(D, n) /\ Small(D, n) \subseteq SUBSET D
  BY <1>2 DEF Small
<1> QED
  BY <1>3, <1>4, <1>5, <1>6

Pick(s) == CHOOSE x \in s : TRUE

SumStep(h, t, s) == IF s = {} THEN 0 ELSE h[Pick(s)] + t[s \ {Pick(s)}]
SumTable(h, D) == CHOOSE t : t = [s \in SUBSET D |-> SumStep(h, t, s)]

LEMMA TotalTable ==
  ASSUME NEW h, NEW D
  PROVE  Total(h, D) = SumTable(h, D)[D]
BY Zenon DEF Total, MapThenSumSet, MapThenFoldSet, SumTable, SumStep, Pick

LEMMA PickIn == \A s : s # {} => Pick(s) \in s
BY DEF Pick

\* There is such a function.
LEMMA SumTableExists ==
  ASSUME NEW h, NEW D, IsFiniteSet(D)
  PROVE  SumTable(h, D) = [s \in SUBSET D |-> SumStep(h, SumTable(h, D), s)]
<1> DEFINE Good(n) == \E t : t = [s \in Small(D, n) |-> SumStep(h, t, s)]
           Bad == {n \in Nat : ~Good(n)}
<1>1. SUFFICES Bad = {}
  <2>1. Good(Cardinality(D))
    BY <1>1, SmallFacts
  <2>2. \E t : t = [s \in SUBSET D |-> SumStep(h, t, s)]
    BY <2>1, SmallFacts
  <2> QED
    BY <2>2, Zenon DEF SumTable
<1>2. SUFFICES ASSUME Bad # {} PROVE FALSE
  OBVIOUS
<1>3. PICK m \in Bad : \A n \in Bad : m <= n
  BY <1>2, LeastNatural
<1>4. m \in Nat /\ ~Good(m)
  OBVIOUS
<1>5. CASE m = 0
  <2> DEFINE t == [s \in {{}} |-> 0]
  <2>1. t = [s \in Small(D, 0) |-> SumStep(h, t, s)]
    BY SmallFacts DEF SumStep
  <2> QED
    BY <1>4, <1>5, <2>1
<1>6. CASE m # 0
  <2>1. m - 1 \in Nat /\ Good(m - 1)
    BY <1>3, <1>4, <1>6
  <2>2. PICK t : t = [s \in Small(D, m - 1) |-> SumStep(h, t, s)]
    BY <2>1
  <2> DEFINE u == [s \in Small(D, m) |-> SumStep(h, t, s)]
  <2>3. \A s \in Small(D, m - 1) : s \in Small(D, m) /\ u[s] = t[s]
    <3>1. \A s \in Small(D, m - 1) : s \in Small(D, m)
      <4>1. \A s \in SUBSET D : Cardinality(s) \in Nat
        BY FS_Subset, FS_CardinalityType
      <4> QED
        BY <1>4, <4>1 DEF Small
    <3> QED
      BY <2>2, <3>1
  <2>4. \A s \in Small(D, m) : SumStep(h, t, s) = SumStep(h, u, s)
    <3> SUFFICES ASSUME NEW s \in Small(D, m), s # {}
                 PROVE  t[s \ {Pick(s)}] = u[s \ {Pick(s)}]
      BY DEF SumStep
    <3>1. s \ {Pick(s)} \in Small(D, m - 1)
      BY <1>4, <1>6, SmallFacts, PickIn
    <3> QED
      BY <2>3, <3>1
  <2>5. u = [s \in Small(D, m) |-> SumStep(h, u, s)]
    <3> HIDE DEF u
    <3>1. u = [s \in Small(D, m) |-> SumStep(h, t, s)]
      BY DEF u
    <3> QED
      BY <2>4, <3>1
  <2> QED
    BY <1>4, <2>5
<1> QED
  BY <1>5, <1>6

LEMMA SumTablesAgree ==
  ASSUME NEW h, NEW D, IsFiniteSet(D), NEW E, IsFiniteSet(E), NEW s \in SUBSET (D \cap E)
  PROVE  SumTable(h, D)[s] = SumTable(h, E)[s]
<1> DEFINE Differs(u) == SumTable(h, D)[u] # SumTable(h, E)[u]
           Bad == {n \in Nat : \E u \in SUBSET (D \cap E) : Cardinality(u) = n /\ Differs(u)}
<1>1. \A u \in SUBSET (D \cap E) : IsFiniteSet(u) /\ Cardinality(u) \in Nat
  BY FS_Subset, FS_CardinalityType
<1>2. SUFFICES ASSUME Bad # {} PROVE FALSE
  BY <1>1
<1>3. PICK m \in Bad : \A n \in Bad : m <= n
  BY <1>2, LeastNatural
<1>4. PICK u \in SUBSET (D \cap E) : Cardinality(u) = m /\ Differs(u)
  OBVIOUS
<1>5. /\ SumTable(h, D)[u] = SumStep(h, SumTable(h, D), u)
      /\ SumTable(h, E)[u] = SumStep(h, SumTable(h, E), u)
  <2>1. SumTable(h, D) = [w \in SUBSET D |-> SumStep(h, SumTable(h, D), w)]
    BY SumTableExists
  <2>2. SumTable(h, E) = [w \in SUBSET E |-> SumStep(h, SumTable(h, E), w)]
    BY SumTableExists
  <2>3. u \in SUBSET D /\ u \in SUBSET E
    BY <1>4
  <2>4. SumTable(h, D)[u] = [w \in SUBSET D |-> SumStep(h, SumTable(h, D), w)][u]
    BY <2>1
  <2>5. SumTable(h, E)[u] = [w \in SUBSET E |-> SumStep(h, SumTable(h, E), w)][u]
    BY <2>2
  <2> QED
    BY <2>3, <2>4, <2>5
<1>6. u # {}
  BY <1>4, <1>5 DEF SumStep
<1>7. PICK w : w = u \ {Pick(u)}
  OBVIOUS
<1>8. w \in SUBSET (D \cap E) /\ Cardinality(w) = m - 1 /\ m \in Nat /\ m - 1 \in Nat
  BY <1>1, <1>4, <1>6, <1>7, PickIn, FS_RemoveElement
<1>9. ~Differs(w)
  <2>1. m - 1 \notin Bad
    BY <1>3, <1>8
  <2> QED
    BY <1>8, <2>1
<1> QED
  BY <1>4, <1>5, <1>6, <1>7, <1>9 DEF SumStep

LEMMA TotalUnfolds ==
  ASSUME NEW h, NEW D, IsFiniteSet(D)
  PROVE  Total(h, D) = IF D = {} THEN 0 ELSE h[Pick(D)] + Total(h, D \ {Pick(D)})
<1>1. Total(h, D) = SumStep(h, SumTable(h, D), D)
  <2>1. \A E : IsFiniteSet(E) => SumTable(h, E) = [w \in SUBSET E |-> SumStep(h, SumTable(h, E), w)]
    BY SumTableExists
  <2>2. SumTable(h, D)[D] = [w \in SUBSET D |-> SumStep(h, SumTable(h, D), w)][D]
    BY <2>1
  <2> QED
    BY <2>2, TotalTable
<1>2. ASSUME D # {}
      PROVE  SumTable(h, D)[D \ {Pick(D)}] = Total(h, D \ {Pick(D)})
  <2>1. PICK w : w = D \ {Pick(D)}
    OBVIOUS
  <2>2. w \in SUBSET (D \cap w) /\ IsFiniteSet(w)
    BY <2>1, FS_Subset
  <2>3. SumTable(h, D)[w] = SumTable(h, w)[w]
    BY <2>2, SumTablesAgree
  <2> QED
    BY <2>1, <2>3, TotalTable
<1> QED
  BY <1>1, <1>2 DEF SumStep

\* A sum is of naturals, and any element can be taken out of it.
LEMMA TotalWithout ==
  ASSUME NEW S, NEW h \in [S -> Nat], NEW D \in SUBSET S, IsFiniteSet(D)
  PROVE  Total(h, D) \in Nat /\ \A x \in D : Total(h, D) = h[x] + Total(h, D \ {x})
<1> DEFINE Fits(u) == Total(h, u) \in Nat /\ \A x \in u : Total(h, u) = h[x] + Total(h, u \ {x})
           Bad == {n \in Nat : \E u \in SUBSET D : Cardinality(u) = n /\ ~Fits(u)}
<1>1. \A u \in SUBSET D : IsFiniteSet(u) /\ Cardinality(u) \in Nat
  BY FS_Subset, FS_CardinalityType
<1>2. SUFFICES ASSUME Bad # {} PROVE FALSE
  BY <1>1
<1>3. PICK m \in Bad : \A n \in Bad : m <= n
  BY <1>2, LeastNatural
<1>4. PICK u \in SUBSET D : Cardinality(u) = m /\ ~Fits(u)
  OBVIOUS
<1>5. m \in Nat /\ \A w \in SUBSET D : Cardinality(w) < m => Fits(w)
  <2>1. ASSUME NEW w \in SUBSET D, Cardinality(w) < m
        PROVE  Fits(w)
    <3>1. Cardinality(w) \notin Bad
      BY <1>1, <1>3, <2>1
    <3> QED
      BY <1>1, <3>1
  <2> QED
    BY <2>1
<1>6. u # {}
  <2>1. Total(h, {}) = 0
    BY TotalUnfolds, FS_EmptySet, Zenon
  <2> QED
    BY <1>4, <2>1
<1>7. PICK p \in u : p = Pick(u)
  BY <1>6, PickIn
<1>8. Total(h, u) = h[p] + Total(h, u \ {p})
  BY <1>1, <1>6, <1>7, TotalUnfolds
<1>9. \A x \in u : u \ {x} \in SUBSET D /\ Cardinality(u \ {x}) < m
  BY <1>1, <1>4, FS_RemoveElement
<1>10. Total(h, u) \in Nat
  BY <1>5, <1>8, <1>9
<1>11. ASSUME NEW x \in u, x # p
       PROVE  Total(h, u) = h[x] + Total(h, u \ {x})
  <2>1. PICK r : r = (u \ {p}) \ {x}
    OBVIOUS
  <2>2. r = (u \ {x}) \ {p} /\ x \in u \ {p} /\ p \in u \ {x}
    BY <1>11, <2>1
  <2>3. Fits(u \ {p}) /\ Fits(u \ {x})
    BY <1>5, <1>9
  <2>4. Total(h, u \ {p}) = h[x] + Total(h, r)
    BY <2>1, <2>2, <2>3
  <2>5. Total(h, u \ {x}) = h[p] + Total(h, r)
    BY <2>2, <2>3
  <2>6. Total(h, r) \in Nat
    <3>1. r \in SUBSET D /\ Cardinality(r) < m
      <4>1. r \in SUBSET D /\ u \ {p} \in SUBSET D /\ Cardinality(u \ {p}) < m
        BY <1>9, <2>1
      <4>2. Cardinality(r) <= Cardinality(u \ {p}) /\ Cardinality(r) \in Nat /\ Cardinality(u \ {p}) \in Nat
        BY <1>1, <2>1, <4>1, FS_Subset
      <4> QED
        BY <1>5, <4>1, <4>2
    <3> QED
      BY <1>5, <3>1
  <2>7. h[x] \in Nat /\ h[p] \in Nat
    OBVIOUS
  <2> QED
    BY <1>8, <2>4, <2>5, <2>6, <2>7
<1> QED
  BY <1>4, <1>8, <1>10, <1>11

LEMMA TotalOfNone == \A h : Total(h, {}) = 0
BY TotalUnfolds, FS_EmptySet

LEMMA TotalWith ==
  ASSUME NEW S, NEW h \in [S -> Nat], NEW D \in SUBSET S, IsFiniteSet(D), NEW x \in S \ D
  PROVE  Total(h, D) \in Nat /\ Total(h, D \cup {x}) = Total(h, D) + h[x]
<1>1. PICK w : w = D \cup {x}
  OBVIOUS
<1>2. w \in SUBSET S /\ IsFiniteSet(w) /\ x \in w /\ w \ {x} = D
  BY <1>1, FS_AddElement
<1>3. Total(h, w) = h[x] + Total(h, D)
  BY <1>2, TotalWithout
<1>4. Total(h, D) \in Nat /\ h[x] \in Nat
  BY TotalWithout
<1> QED
  BY <1>1, <1>3, <1>4

-----------------------------------------------------------------------------
(* The order of targets.                                                   *)

LEMMA TierNat ==
  ASSUME NEW d \in Nat
  PROVE  Tier(d) \in Nat
<1>1. d \div Grain \in Nat
  BY SpeedAssumption
<1>2. ASSUME NEW n \in Nat
      PROVE  Bits(n) \in Nat
  <2>1. IsFiniteSet(0..n - 1)
    BY FS_Interval
  <2>2. {b \in 0..n - 1 : 2^b <= n} \in SUBSET (0..n - 1)
    BY Zenon
  <2>3. Cardinality({b \in 0..n - 1 : 2^b <= n}) \in Nat
    BY <2>1, <2>2, FS_Subset, FS_CardinalityType, Zenon
  <2> QED
    BY <2>3, Zenon DEF Bits
<1> QED
  BY <1>1, <1>2 DEF Tier

LEMMA KeysFinite == IsFiniteSet(Key)
<1>1. IsFiniteSet(DOMAIN Slots)
  BY LedgerAssumption, FS_Interval
<1>2. Slots \in Surjection(DOMAIN Slots, Key)
  BY LedgerAssumption DEF Surjection
<1> QED
  BY <1>1, <1>2, FS_Surjection

LEMMA SpeedNat ==
  ASSUME NEW t \in [Key -> Nat], NEW ks \in SUBSET Key
  PROVE  Speed(t, ks) \in Nat
<1>1. PICK s : s = {k \in ks : t[k] > 0}
  OBVIOUS
<1>2. s \in SUBSET Key /\ IsFiniteSet(s)
  BY <1>1, KeysFinite, FS_Subset
<1>3. Total(t, s) \in Nat
  BY <1>2, TotalWithout
<1>4. Cardinality(s) \in Nat /\ (s # {} => Cardinality(s) # 0)
  BY <1>2, FS_CardinalityType, FS_EmptySet
<1>5. s # {} => Total(t, s) \div Cardinality(s) \in Nat
  BY <1>3, <1>4
<1> QED
  BY <1>1, <1>5 DEF Speed

\* The elements of A that R puts before x.
Ahead(A, R, x) == {y \in A : <<y, x>> \in R}

\* A finite set that is totally ordered is numbered by how many come before each.
LEMMA Ranks ==
  ASSUME NEW A, IsFiniteSet(A), NEW R,
         \A x \in A : <<x, x>> \notin R,
         \A x, y, z \in A : <<x, y>> \in R /\ <<y, z>> \in R => <<x, z>> \in R,
         \A x, y \in A : x = y \/ <<x, y>> \in R \/ <<y, x>> \in R
  PROVE  /\ Cardinality(A) \in Nat
         /\ \A x \in A : Cardinality(Ahead(A, R, x)) \in 0..Cardinality(A) - 1
         /\ \A x, y \in A :
              <<x, y>> \in R <=> Cardinality(Ahead(A, R, x)) < Cardinality(Ahead(A, R, y))
         /\ \A m \in 0..Cardinality(A) - 1 : \E x \in A : Cardinality(Ahead(A, R, x)) = m
<1>1. Cardinality(A) \in Nat
  BY FS_CardinalityType
<1>2. \A x \in A : Ahead(A, R, x) \in SUBSET A /\ IsFiniteSet(Ahead(A, R, x))
                   /\ Cardinality(Ahead(A, R, x)) \in Nat
  <2> TAKE x \in A
  <2>1. Ahead(A, R, x) \in SUBSET A
    BY DEF Ahead
  <2> QED
    BY <2>1, FS_Subset, FS_CardinalityType
<1>3. ASSUME NEW x \in A
      PROVE  Cardinality(Ahead(A, R, x)) \in 0..Cardinality(A) - 1
  <2>1. Ahead(A, R, x) # A
    BY DEF Ahead
  <2>2. Cardinality(Ahead(A, R, x)) <= Cardinality(A) /\ Cardinality(Ahead(A, R, x)) # Cardinality(A)
    BY <1>2, <2>1, FS_Subset
  <2> QED
    BY <1>1, <1>2, <2>2
<1>4. ASSUME NEW x \in A, NEW y \in A, <<x, y>> \in R
      PROVE  Cardinality(Ahead(A, R, x)) < Cardinality(Ahead(A, R, y))
  <2>1. Ahead(A, R, x) \in SUBSET Ahead(A, R, y) /\ Ahead(A, R, x) # Ahead(A, R, y)
    BY <1>4 DEF Ahead
  <2>2. /\ Cardinality(Ahead(A, R, x)) <= Cardinality(Ahead(A, R, y))
        /\ Cardinality(Ahead(A, R, x)) # Cardinality(Ahead(A, R, y))
    BY <1>2, <2>1, FS_Subset
  <2> QED
    BY <1>2, <2>2
<1>5. ASSUME NEW x \in A, NEW y \in A, Cardinality(Ahead(A, R, x)) < Cardinality(Ahead(A, R, y))
      PROVE  <<x, y>> \in R
  <2>1. Cardinality(Ahead(A, R, x)) \in Nat /\ Cardinality(Ahead(A, R, y)) \in Nat
    BY <1>2
  <2>2. x # y
    BY <1>5, <2>1
  <2>3. ~(<<y, x>> \in R)
    <3> SUFFICES ASSUME <<y, x>> \in R PROVE FALSE
      OBVIOUS
    <3>1. Cardinality(Ahead(A, R, y)) < Cardinality(Ahead(A, R, x))
      BY <1>4
    <3> QED
      BY <1>5, <2>1, <3>1
  <2> QED
    BY <2>2, <2>3
<1>6. ASSUME NEW m \in 0..Cardinality(A) - 1
      PROVE  \E x \in A : Cardinality(Ahead(A, R, x)) = m
  <2> DEFINE T == 0..Cardinality(A) - 1
             f == [x \in A |-> Cardinality(Ahead(A, R, x))]
  <2>1. f \in [A -> T]
    BY <1>3
  <2>2. \A x, y \in A : f[x] = f[y] => x = y
    <3> SUFFICES ASSUME NEW x \in A, NEW y \in A, f[x] = f[y] PROVE x = y
      OBVIOUS
    <3>1. Cardinality(Ahead(A, R, x)) \in Nat /\ Cardinality(Ahead(A, R, x)) = Cardinality(Ahead(A, R, y))
      BY <1>2
    <3>2. ~(<<x, y>> \in R)
      <4> SUFFICES ASSUME <<x, y>> \in R PROVE FALSE
        OBVIOUS
      <4>1. Cardinality(Ahead(A, R, x)) < Cardinality(Ahead(A, R, y))
        BY <1>4
      <4> QED
        BY <3>1, <4>1
    <3>3. ~(<<y, x>> \in R)
      <4> SUFFICES ASSUME <<y, x>> \in R PROVE FALSE
        OBVIOUS
      <4>1. Cardinality(Ahead(A, R, y)) < Cardinality(Ahead(A, R, x))
        BY <1>4
      <4> QED
        BY <3>1, <4>1
    <3> QED
      BY <3>2, <3>3
  <2>3. f \in Injection(A, T)
    BY <2>1, <2>2 DEF Injection, IsInjective
  <2>4. IsFiniteSet(T) /\ Cardinality(T) = Cardinality(A)
    BY <1>1, FS_Interval
  <2>5. f \in Surjection(A, T)
    BY <2>3, <2>4, FS_Injection
  <2>6. \E x \in A : f[x] = m
    BY <2>5 DEF Surjection
  <2> QED
    BY <2>6
<1> QED
  BY <1>1, <1>3, <1>4, <1>5, <1>6

\* order is a permutation of the places that are measured, by tier and then by place.
LEMMA OrderSorts ==
  ASSUME NEW n \in Nat, NEW ts, DOMAIN ts = 1..n, NEW speed \in [1..n -> Nat]
  PROVE  \E s \in [1..n -> 1..n] :
           /\ Order(ts, speed) = [i \in 1..n |-> ts[s[i]]]
           /\ \A i \in 1..n : IF speed[i] > 0 THEN speed[s[i]] > 0 ELSE s[i] = i
           /\ \A j \in 1..n : \E i \in 1..n : s[i] = j
           /\ \A i, j \in 1..n : i < j /\ speed[i] > 0 /\ speed[j] > 0 => Before(speed, s[i], s[j])
<1>1. PICK at : at = {i \in 1..n : speed[i] > 0}
  OBVIOUS
<1>2. PICK P : P = {w \in at \X at : w[1] < w[2]}
  OBVIOUS
<1>3. PICK R : R = {w \in at \X at : Before(speed, w[1], w[2])}
  OBVIOUS
<1>4. at \in SUBSET (1..n) /\ IsFiniteSet(at)
  BY <1>1, FS_Interval, FS_Subset
<1>5. \A i, j \in at : /\ <<i, j>> \in P <=> i < j
                       /\ <<i, j>> \in R <=> Before(speed, i, j)
  BY <1>2, <1>3
<1>6. \A i \in 1..n : Tier(speed[i]) \in Nat
  BY TierNat
<1> DEFINE Place(i) == Cardinality(Ahead(at, P, i))
           Rank(i) == Cardinality(Ahead(at, R, i))
<1>7. /\ Cardinality(at) \in Nat
      /\ \A i \in at : Place(i) \in 0..Cardinality(at) - 1
      /\ \A i, j \in at : i < j <=> Place(i) < Place(j)
      /\ \A m \in 0..Cardinality(at) - 1 : \E i \in at : Place(i) = m
  <2>1. \A i, j, m \in at : /\ <<i, i>> \notin P
                            /\ <<i, j>> \in P /\ <<j, m>> \in P => <<i, m>> \in P
                            /\ i = j \/ <<i, j>> \in P \/ <<j, i>> \in P
    <3> TAKE i, j, m \in at
    <3>1. i \in Int /\ j \in Int /\ m \in Int
      BY <1>4
    <3>2. /\ <<i, i>> \in P <=> i < i
          /\ <<i, j>> \in P <=> i < j
          /\ <<j, i>> \in P <=> j < i
          /\ <<j, m>> \in P <=> j < m
          /\ <<i, m>> \in P <=> i < m
      BY <1>5
    <3> QED
      BY <3>1, <3>2
  <2>2. /\ Cardinality(at) \in Nat
        /\ \A i \in at : Place(i) \in 0..Cardinality(at) - 1
        /\ \A i, j \in at : <<i, j>> \in P <=> Place(i) < Place(j)
        /\ \A m \in 0..Cardinality(at) - 1 : \E i \in at : Place(i) = m
    BY <1>4, <2>1, Ranks
  <2> HIDE DEF Place
  <2> QED
    BY <1>5, <2>2
<1>8. /\ \A i \in at : Rank(i) \in 0..Cardinality(at) - 1
      /\ \A i, j \in at : Before(speed, i, j) <=> Rank(i) < Rank(j)
      /\ \A m \in 0..Cardinality(at) - 1 : \E i \in at : Rank(i) = m
  <2>1. \A i, j, m \in at : /\ <<i, i>> \notin R
                            /\ <<i, j>> \in R /\ <<j, m>> \in R => <<i, m>> \in R
                            /\ i = j \/ <<i, j>> \in R \/ <<j, i>> \in R
    <3> TAKE i, j, m \in at
    <3>1. /\ i \in Int /\ j \in Int /\ m \in Int
          /\ Tier(speed[i]) \in Int /\ Tier(speed[j]) \in Int /\ Tier(speed[m]) \in Int
      BY <1>4, <1>6
    <3>2. /\ <<i, i>> \in R <=> Before(speed, i, i)
          /\ <<i, j>> \in R <=> Before(speed, i, j)
          /\ <<j, i>> \in R <=> Before(speed, j, i)
          /\ <<j, m>> \in R <=> Before(speed, j, m)
          /\ <<i, m>> \in R <=> Before(speed, i, m)
      BY <1>5
    <3>3. /\ ~Before(speed, i, i)
          /\ Before(speed, i, j) /\ Before(speed, j, m) => Before(speed, i, m)
          /\ i = j \/ Before(speed, i, j) \/ Before(speed, j, i)
      BY <3>1 DEF Before
    <3> QED
      BY <3>2, <3>3
  <2>2. /\ \A i \in at : Rank(i) \in 0..Cardinality(at) - 1
        /\ \A i, j \in at : <<i, j>> \in R <=> Rank(i) < Rank(j)
        /\ \A m \in 0..Cardinality(at) - 1 : \E i \in at : Rank(i) = m
    BY <1>4, <2>1, Ranks
  <2> HIDE DEF Rank
  <2> QED
    BY <1>5, <2>2
<1> DEFINE s == [i \in 1..n |-> IF i \in at THEN CHOOSE j \in at : Rank(j) = Place(i) ELSE i]
<1>9. Order(ts, speed) = [i \in 1..n |-> ts[s[i]]]
  <2>1. \A i \in at : /\ {j \in at : j < i} = Ahead(at, P, i)
                      /\ {j \in at : Before(speed, j, i)} = Ahead(at, R, i)
    BY <1>5 DEF Ahead
  <2>2. {i \in DOMAIN ts : speed[i] > 0} = at
    BY <1>1
  <2>3. \A i \in at : (CHOOSE j \in at : Cardinality({m \in at : Before(speed, m, j)})
                                           = Cardinality({m \in at : m < i}))
                      = CHOOSE j \in at : Rank(j) = Place(i)
    BY <2>1
  <2>4. Order(ts, speed) =
          [i \in 1..n |-> IF i \in at THEN ts[CHOOSE j \in at : Cardinality({m \in at : Before(speed, m, j)})
                                                               = Cardinality({m \in at : m < i})]
                          ELSE ts[i]]
    <3> DEFINE A == {i \in DOMAIN ts : speed[i] > 0}
    <3>1. Order(ts, speed) =
            [i \in DOMAIN ts |-> IF i \in A THEN ts[CHOOSE j \in A : Cardinality({m \in A : Before(speed, m, j)})
                                                                  = Cardinality({m \in A : m < i})]
                                ELSE ts[i]]
      BY Zenon DEF Order
    <3>2. A = at
      BY <2>2
    <3> HIDE DEF A
    <3> QED
      BY <3>1, <3>2, Zenon
  <2> HIDE DEF Rank, Place
  <2>5. \A i \in 1..n : s[i] = IF i \in at THEN CHOOSE j \in at : Rank(j) = Place(i) ELSE i
    OBVIOUS
  <2> HIDE DEF s
  <2> QED
    BY <2>3, <2>4, <2>5
<1>10. \A i \in at : s[i] \in at /\ Rank(s[i]) = Place(i)
  <2> HIDE DEF Rank, Place
  <2> QED
    BY <1>4, <1>7, <1>8
<1>11. \A i \in (1..n) \ at : s[i] = i
  BY <1>4
<1> HIDE DEF s, Rank, Place
<1>12. s \in [1..n -> 1..n]
  <2>1. \A i \in 1..n : s[i] \in 1..n
    BY <1>4, <1>10, <1>11
  <2> QED
    BY <2>1 DEF s
<1>13. \A j \in 1..n : \E i \in 1..n : s[i] = j
  <2> TAKE j \in 1..n
  <2>1. CASE j \in at
    <3>1. PICK i \in at : Place(i) = Rank(j)
      BY <1>7, <1>8, <2>1
    <3>2. Rank(s[i]) = Rank(j) /\ s[i] \in at
      BY <1>10, <3>1
    <3>3. s[i] = j
      <4>1. ~Before(speed, s[i], j) /\ ~Before(speed, j, s[i])
        <5>1. Rank(j) \in Nat /\ Cardinality(at) \in Nat
          BY <1>7, <1>8, <2>1
        <5>2. ~(Rank(s[i]) < Rank(j)) /\ ~(Rank(j) < Rank(s[i]))
          BY <3>2, <5>1
        <5> QED
          BY <1>8, <2>1, <3>2, <5>2
      <4>2. s[i] \in 1..n /\ j \in 1..n /\ Tier(speed[s[i]]) \in Nat /\ Tier(speed[j]) \in Nat
        BY <1>4, <1>6, <3>2
      <4> QED
        BY <4>1, <4>2 DEF Before
    <3> QED
      BY <1>4, <3>3
  <2>2. CASE j \notin at
    BY <1>11, <2>2
  <2> QED
    BY <2>1, <2>2
<1>14. \A i, j \in 1..n : i < j /\ speed[i] > 0 /\ speed[j] > 0 => Before(speed, s[i], s[j])
  <2> SUFFICES ASSUME NEW i \in at, NEW j \in at, i < j PROVE Before(speed, s[i], s[j])
    BY <1>1
  <2>1. Rank(s[i]) < Rank(s[j]) /\ s[i] \in at /\ s[j] \in at
    BY <1>7, <1>10
  <2> QED
    BY <1>8, <2>1
<1>15. \A i \in 1..n : IF speed[i] > 0 THEN speed[s[i]] > 0 ELSE s[i] = i
  BY <1>1, <1>10, <1>11
<1> QED
  BY <1>9, <1>12, <1>13, <1>14, <1>15

-----------------------------------------------------------------------------
(* The body a provider is sent.                                            *)

\* One field of b fits n, and holds v.
Sole(b, n, v) ==
  \E i \in DOMAIN b : /\ Fold(b[i].name) = n /\ b[i].val = v
                      /\ \A j \in DOMAIN b : Fold(b[j].name) = n => j = i

LEMMA LastOfOne ==
  ASSUME NEW b, NEW i \in DOMAIN b, i \in Int
  PROVE  LastOf(b, {i}) = {b[i].val}
  BY DEF LastOf

LEMMA PeekSole ==
  ASSUME NEW b, DOMAIN b \subseteq Int, NEW n, NEW v, Sole(b, n, v)
  PROVE  Peek(b, n) = {v}
<1>1. PICK i \in DOMAIN b : /\ Fold(b[i].name) = n /\ b[i].val = v
                            /\ \A j \in DOMAIN b : Fold(b[j].name) = n => j = i
  BY DEF Sole
<1>2. {j \in DOMAIN b : Fold(b[j].name) = n} = {i}
  BY <1>1
<1> QED
  BY <1>1, <1>2, LastOfOne DEF Peek

LEMMA PeekNone ==
  ASSUME NEW b, NEW n, \A i \in DOMAIN b : Fold(b[i].name) # n
  PROVE  Peek(b, n) = {}
  BY DEF Peek, LastOf

\* A body that fits n once at most has a sole field for it, or none.
LEMMA PeekSome ==
  ASSUME NEW b, DOMAIN b \subseteq Int, NEW n, Peek(b, n) # {},
         \A i, j \in DOMAIN b : Fold(b[i].name) = Fold(b[j].name) => i = j
  PROVE  \E i \in DOMAIN b : Fold(b[i].name) = n /\ Peek(b, n) = {b[i].val}
<1>1. PICK i \in DOMAIN b : Fold(b[i].name) = n
  BY PeekNone
<1>2. Sole(b, n, b[i].val)
  BY <1>1 DEF Sole
<1> QED
  BY <1>1, <1>2, PeekSole

\* The value that a map has for a name that one field bears.
LEMMA AsMapOne ==
  ASSUME NEW b, DOMAIN b \subseteq Int, NEW i \in DOMAIN b,
         \A j \in DOMAIN b : b[j].name = b[i].name => j = i
  PROVE  b[i].name \in DOMAIN AsMap(b) /\ AsMap(b)[b[i].name] = b[i].val
<1>1. {j \in DOMAIN b : b[j].name = b[i].name} = {i}
  OBVIOUS
<1>2. LastOf(b, {j \in DOMAIN b : b[j].name = b[i].name}) = {b[i].val}
  BY <1>1, LastOfOne
<1>3. AsMap(b)[b[i].name] = CHOOSE v \in {b[i].val} : TRUE
  BY <1>2 DEF AsMap
<1> QED
  BY <1>3 DEF AsMap

LEMMA AsMapDomain ==
  ASSUME NEW b
  PROVE  DOMAIN AsMap(b) = {b[i].name : i \in DOMAIN b}
  BY DEF AsMap

LEMMA FoldedNames ==
  /\ \A n \in FieldName : Fold(n) = "model" <=> n \in {"model", "Model"}
  /\ \A n \in FieldName : Fold(n) = "stream_options" <=> n \in {"stream_options", "Stream_Options"}
  BY DEF FieldName, Fold

LEMMA FoundExact ==
  ASSUME NEW s, DOMAIN s \subseteq Int, NEW i \in DOMAIN s, s[i].name = "model",
         \A j \in DOMAIN s : s[j].name = "model" => j = i
  PROVE  Found(s) = s[i].val
<1>1. "model" \in DOMAIN AsMap(s) /\ AsMap(s)["model"] = s[i].val
  BY AsMapOne
<1> QED
  BY <1>1 DEF Found

\* A sequence of a finite set has each of its elements once.
LEMMA SeqOfSet ==
  ASSUME NEW T, IsFiniteSet(T)
  PROVE  LET s == SetToSeq(T)
         IN  /\ DOMAIN s \subseteq Int /\ \A i \in DOMAIN s : s[i] \in T
             /\ \A t \in T : \E i \in DOMAIN s : s[i] = t
             /\ \A i, j \in DOMAIN s : s[i] = s[j] => i = j
<1>1. Cardinality(T) \in Nat /\ ExistsBijection(1..Cardinality(T), T)
  BY FS_CardinalityType
<1>2. PICK f : f \in Bijection(1..Cardinality(T), T)
  BY <1>1 DEF ExistsBijection
<1>3. f \in [1..Cardinality(T) -> T] /\ IsInjective(f)
  BY <1>2 DEF Bijection, Injection
<1>4. SetToSeq(T) \in [1..Cardinality(T) -> T] /\ IsInjective(SetToSeq(T))
  BY <1>3 DEF SetToSeq
<1>5. PICK s : s = SetToSeq(T)
  OBVIOUS
<1>6. s \in [1..Cardinality(T) -> T] /\ \A i, j \in 1..Cardinality(T) : s[i] = s[j] => i = j
  BY <1>4, <1>5 DEF IsInjective
<1>7. s \in Injection(1..Cardinality(T), T) /\ IsFiniteSet(1..Cardinality(T))
      /\ Cardinality(1..Cardinality(T)) = Cardinality(T)
  BY <1>1, <1>4, <1>5, FS_Interval DEF Injection
<1>8. s \in Surjection(1..Cardinality(T), T)
  BY <1>7, FS_Injection
<1> QED
  BY <1>1, <1>5, <1>6, <1>8 DEF Surjection

LEMMA BodyFields ==
  ASSUME NEW b \in Seq(Field)
  PROVE  /\ DOMAIN b = 1..Len(b) /\ Len(b) \in Nat /\ DOMAIN b \subseteq Int
         /\ \A i \in DOMAIN b : b[i] \in Field /\ b[i].name \in FieldName
<1>1. DOMAIN b = 1..Len(b) /\ Len(b) \in Nat /\ \A i \in DOMAIN b : b[i] \in Field
  OBVIOUS
<1>2. \A f \in Field : f.name \in FieldName
  BY DEF Field
<1> QED
  BY <1>1, <1>2

\* The first branch of Send: the bytes of the caller.
LEMMA SameFaithful ==
  ASSUME NEW b \in Seq(Field), Plain(b), Named(b), NEW meter \in BOOLEAN, ~Add(b, meter)
  PROVE  Found(b) = Model(b)
<1>1. DOMAIN b \subseteq Int /\ \A i \in DOMAIN b : b[i] \in Field /\ b[i].name \in FieldName
  BY BodyFields
<1>2. PICK i \in DOMAIN b : Fold(b[i].name) = "model" /\ Peek(b, "model") = {b[i].val}
  BY <1>1, PeekSome DEF Named, Plain
<1>3. Model(b) = b[i].val
  BY <1>2 DEF Model
<1>4. \A j \in DOMAIN b : Fold(b[j].name) = "model" => j = i
  BY <1>2 DEF Plain
<1>5. b[i].name \in DOMAIN AsMap(b) /\ AsMap(b)[b[i].name] = b[i].val
  BY <1>1, <1>2, <1>4, AsMapOne
<1>6. b[i].name = "model" \/ b[i].name = "Model"
  BY <1>1, <1>2, FoldedNames
<1>7. b[i].name = "Model" => "model" \notin DOMAIN AsMap(b)
  <2> SUFFICES ASSUME "model" \in DOMAIN AsMap(b) PROVE b[i].name = "model"
    OBVIOUS
  <2>1. PICK j \in DOMAIN b : b[j].name = "model"
    BY AsMapDomain
  <2>2. Fold(b[j].name) = "model"
    BY <2>1 DEF Fold
  <2> QED
    BY <1>4, <2>1, <2>2
<1> QED
  BY <1>3, <1>5, <1>6, <1>7 DEF Found

\* The branch that replaces the value in place.
Spliced(b, at, model, meter) ==
  [b EXCEPT ![at].val = model] \o (IF Add(b, meter) THEN <<Inject>> ELSE <<>>)

LEMMA SplicedFaithful ==
  ASSUME NEW b \in Seq(Field), Plain(b), NEW model, NEW meter \in BOOLEAN,
         NEW at \in DOMAIN b, b[at].name = "model",
         NEW s, s = Spliced(b, at, model, meter)
  PROVE  /\ Others(s) = Others(b) /\ Found(s) = model
         /\ Peek(s, "stream_options") = IF Add(b, meter) THEN {Counted} ELSE Peek(b, "stream_options")
<1>1. /\ DOMAIN b = 1..Len(b) /\ Len(b) \in Nat /\ at \in 1..Len(b)
      /\ \A i \in DOMAIN b : b[i] \in Field /\ b[i].name \in FieldName
  BY BodyFields
<1>2. PICK c : c = [b EXCEPT ![at].val = model]
  OBVIOUS
<1>3. PICK tail : tail = IF Add(b, meter) THEN <<Inject>> ELSE <<>>
  OBVIOUS
<1>4. /\ c \in Seq({c[i] : i \in DOMAIN b}) /\ Len(c) = Len(b)
      /\ \A i \in 1..Len(b) : c[i].name = b[i].name /\ (i # at => c[i] = b[i])
      /\ c[at].val = model
  <2>1. DOMAIN c = 1..Len(b) /\ c = [i \in 1..Len(b) |-> c[i]]
    BY <1>1, <1>2
  <2>2. \A i \in 1..Len(b) : i # at => c[i] = b[i]
    BY <1>1, <1>2
  <2>3. c[at] = [b[at] EXCEPT !.val = model]
    BY <1>1, <1>2
  <2>4. c[at].name = b[at].name /\ c[at].val = model
    BY <1>1, <2>3 DEF Field
  <2>5. c \in [1..Len(b) -> {c[i] : i \in DOMAIN b}]
    BY <1>1, <2>1
  <2> QED
    BY <1>1, <2>1, <2>2, <2>4, <2>5
<1>5. tail \in Seq({Inject}) /\ Len(tail) = (IF Add(b, meter) THEN 1 ELSE 0)
      /\ (Add(b, meter) => tail[1] = Inject)
  <2>1. CASE Add(b, meter)
    <3>1. tail = <<Inject>>
      BY <1>3, <2>1
    <3>2. Len(tail) = 1 /\ tail[1] = Inject /\ tail \in Seq({Inject})
      BY <3>1
    <3> QED
      BY <2>1, <3>2
  <2>2. CASE ~Add(b, meter)
    <3>1. tail = <<>>
      BY <1>3, <2>2
    <3>2. Len(tail) = 0 /\ tail \in Seq({Inject})
      BY <3>1
    <3> QED
      BY <2>2, <3>2
  <2> QED
    BY <2>1, <2>2
<1>6. /\ DOMAIN s = 1..(Len(b) + Len(tail))
      /\ \A i \in 1..Len(b) : s[i] = c[i]
      /\ Add(b, meter) => s[Len(b) + 1] = Inject
  <2>1. s = c \o tail
    BY <1>2, <1>3 DEF Spliced
  <2> DEFINE S == {c[i] : i \in DOMAIN b} \cup {Inject}
  <2>2. c \in Seq(S) /\ tail \in Seq(S)
    BY <1>4, <1>5
  <2> HIDE DEF S
  <2>3. /\ Len(s) = Len(c) + Len(tail) /\ s \in Seq(S)
        /\ \A i \in 1..Len(c) + Len(tail) : s[i] = IF i <= Len(c) THEN c[i] ELSE tail[i - Len(c)]
    BY <2>1, <2>2, ConcatProperties
  <2>4. Len(s) = Len(b) + Len(tail) /\ Len(tail) \in Nat /\ DOMAIN s = 1..Len(s)
    <3>1. DOMAIN s = 1..Len(s)
      BY <2>3
    <3>2. Len(s) = Len(b) + Len(tail)
      BY <1>4, <2>3
    <3>3. Len(tail) \in Nat
      BY <1>5
    <3> QED
      BY <3>1, <3>2, <3>3
  <2>5. ASSUME NEW i \in 1..Len(b)
        PROVE  s[i] = c[i]
    <3>1. i \in 1..Len(c) + Len(tail) /\ i <= Len(c)
      BY <1>1, <1>4, <2>4
    <3> QED
      BY <2>3, <3>1
  <2>6. ASSUME Add(b, meter)
        PROVE  s[Len(b) + 1] = Inject
    <3>1. PICK i : i = Len(b) + 1
      OBVIOUS
    <3>2. i \in 1..Len(c) + Len(tail) /\ ~(i <= Len(c)) /\ i - Len(c) = 1
      BY <1>1, <1>4, <1>5, <2>6, <3>1
    <3>3. s[i] = tail[1]
      BY <2>3, <3>2
    <3> QED
      BY <1>5, <2>6, <3>1, <3>3
  <2> QED
    BY <2>4, <2>5, <2>6
<1>7. Inject.name = "stream_options" /\ Inject.val = Counted /\ Inject.name # "model"
      /\ Fold("stream_options") = "stream_options" /\ Fold("model") = "model"
  BY DEF Inject, Fold
<1>8. \A i \in DOMAIN s : i \in 1..Len(b) \/ (Add(b, meter) /\ i = Len(b) + 1)
  BY <1>1, <1>5, <1>6
<1>9. 1..Len(b) \subseteq DOMAIN s /\ (Add(b, meter) => Len(b) + 1 \in DOMAIN s) /\ DOMAIN s \subseteq Int
  BY <1>1, <1>5, <1>6
<1>10. Others(s) = Others(b)
  <2>1. \A i \in 1..Len(b) : Fold(b[i].name) \notin {"model", "stream_options"} => s[i] = b[i]
    BY <1>4, <1>6, <1>7
  <2>2. \A i \in 1..Len(b) : s[i].name = b[i].name
    BY <1>4, <1>6
  <2>3. ASSUME NEW o \in Others(s)
        PROVE  o \in Others(b)
    <3>1. PICK i \in DOMAIN s : o = s[i] /\ Fold(s[i].name) \notin {"model", "stream_options"}
      BY <2>3 DEF Others
    <3>2. i \in 1..Len(b)
      BY <1>6, <1>7, <1>8, <3>1
    <3> QED
      BY <1>1, <2>1, <2>2, <3>1, <3>2 DEF Others
  <2>4. ASSUME NEW o \in Others(b)
        PROVE  o \in Others(s)
    <3>1. PICK i \in DOMAIN b : o = b[i] /\ Fold(b[i].name) \notin {"model", "stream_options"}
      BY <2>4 DEF Others
    <3> QED
      BY <1>1, <1>9, <2>1, <2>2, <3>1 DEF Others
  <2> QED
    BY <2>3, <2>4
<1>11. Found(s) = model
  <2>1. at \in DOMAIN s /\ s[at].name = "model" /\ s[at].val = model
    BY <1>1, <1>4, <1>6, <1>9
  <2>2. \A j \in 1..Len(b) : b[j].name = "model" => j = at
    BY <1>1 DEF Plain
  <2>3. \A j \in DOMAIN s : s[j].name = "model" => j = at
    BY <1>4, <1>6, <1>7, <1>8, <2>2
  <2> QED
    BY <1>9, <2>1, <2>3, FoundExact
<1>12. CASE Add(b, meter)
  <2>1. \A i \in 1..Len(b) : Fold(b[i].name) # "stream_options"
    <3> SUFFICES ASSUME NEW i \in DOMAIN b, Fold(b[i].name) = "stream_options" PROVE FALSE
      BY <1>1
    <3>1. Sole(b, "stream_options", b[i].val)
      BY DEF Sole, Plain
    <3>2. Peek(b, "stream_options") = {b[i].val}
      BY <1>1, <3>1, PeekSole
    <3> QED
      BY <1>12, <3>2 DEF Add
  <2>2. Sole(s, "stream_options", Counted)
    <3>1. \A i \in DOMAIN s : Fold(s[i].name) = "stream_options" => i = Len(b) + 1
      BY <1>4, <1>6, <1>8, <2>1
    <3> QED
      BY <1>6, <1>7, <1>9, <1>12, <3>1 DEF Sole
  <2> QED
    BY <1>9, <1>10, <1>11, <1>12, <2>2, PeekSole
<1>13. CASE ~Add(b, meter)
  <2>1. DOMAIN s = DOMAIN b
    BY <1>1, <1>5, <1>6, <1>13
  <2>2. \A i \in DOMAIN b : s[i].name = b[i].name /\ (i # at => s[i].val = b[i].val)
    BY <1>1, <1>4, <1>6
  <2>3. Peek(s, "stream_options") = Peek(b, "stream_options")
    <3>1. PICK S : S = {i \in DOMAIN b : Fold(b[i].name) = "stream_options"}
      OBVIOUS
    <3>2. {i \in DOMAIN s : Fold(s[i].name) = "stream_options"} = S /\ at \notin S
      BY <1>7, <2>1, <2>2, <3>1
    <3>3. LastOf(s, S) = LastOf(b, S)
      BY <2>1, <2>2, <3>2 DEF LastOf
    <3> QED
      BY <3>1, <3>2, <3>3 DEF Peek
  <2> QED
    BY <1>10, <1>11, <1>13, <2>3
<1> QED
  BY <1>12, <1>13

\* The branch that makes a new object of the fields.
LEMMA SwappedFaithful ==
  ASSUME NEW b \in Seq(Field), Plain(b), NEW model, NEW meter \in BOOLEAN,
         \A i \in DOMAIN b : b[i].name # "model",
         NEW s, s = Swap(b, model, meter)
  PROVE  /\ Others(s) = Others(b) /\ Found(s) = model
         /\ Peek(s, "stream_options") = IF Add(b, meter) THEN {Counted} ELSE Peek(b, "stream_options")
<1>1. /\ DOMAIN b = 1..Len(b) /\ Len(b) \in Nat /\ DOMAIN b \subseteq Int
      /\ \A i \in DOMAIN b : b[i] \in Field /\ b[i].name \in FieldName
  BY BodyFields
<1>2. PICK m : m = AsMap(b)
  OBVIOUS
<1>3. /\ DOMAIN m = {b[i].name : i \in DOMAIN b}
      /\ \A i \in DOMAIN b : m[b[i].name] = b[i].val
  <2>1. ASSUME NEW i \in DOMAIN b
        PROVE  m[b[i].name] = b[i].val
    <3>1. \A j \in DOMAIN b : b[j].name = b[i].name => j = i
      BY DEF Plain
    <3> QED
      BY <1>1, <1>2, <3>1, AsMapOne
  <2> QED
    BY <1>2, <2>1, AsMapDomain
<1>4. PICK set : set = {"model"} \cup IF meter THEN {"stream_options"} \ DOMAIN m ELSE {}
  OBVIOUS
<1>5. PICK all : all = DOMAIN m \cup set
  OBVIOUS
<1> DEFINE Val(n) == IF n \in set THEN (IF n = "model" THEN model ELSE Counted) ELSE m[n]
           T == {[name |-> n, val |-> Val(n)] : n \in all}
<1>6. s = SetToSeq(T)
  <2> DEFINE new == [n \in set |-> IF n = "model" THEN model ELSE Counted]
  <2>1. s = SetToSeq({[name |-> n, val |-> IF n \in set THEN new[n] ELSE m[n]] : n \in all})
    BY <1>2, <1>4, <1>5, Zenon DEF Swap
  <2>2. \A n \in all : (IF n \in set THEN new[n] ELSE m[n]) = Val(n)
    OBVIOUS
  <2> HIDE DEF new, Val
  <2>3. {[name |-> n, val |-> IF n \in set THEN new[n] ELSE m[n]] : n \in all}
         = {[name |-> n, val |-> Val(n)] : n \in all}
    BY <2>2
  <2> QED
    BY <2>1, <2>3
<1>7. IsFiniteSet(T)
  <2>1. IsFiniteSet(DOMAIN m)
    <3>1. IsFiniteSet(DOMAIN b)
      BY <1>1, FS_Interval
    <3> DEFINE f == [i \in DOMAIN b |-> b[i].name]
    <3>2. f \in Surjection(DOMAIN b, DOMAIN m)
      BY <1>3 DEF Surjection
    <3> QED
      BY <3>1, <3>2, FS_Surjection
  <2>2. IsFiniteSet(all)
    <3>1. IsFiniteSet({"model", "stream_options"})
      <4>1. {"model", "stream_options"} = {"model"} \cup {"stream_options"}
        OBVIOUS
      <4>2. IsFiniteSet({"model"} \cup {"stream_options"})
        BY FS_Singleton, FS_AddElement, Zenon
      <4> QED
        BY <4>1, <4>2
    <3>2. set \subseteq {"model", "stream_options"}
      BY <1>4
    <3>3. IsFiniteSet(set)
      BY <3>1, <3>2, FS_Subset
    <3> QED
      BY <1>5, <2>1, <3>3, FS_Union
  <2> DEFINE g == [n \in all |-> [name |-> n, val |-> Val(n)]]
  <2>3. g \in Surjection(all, T)
    <3> HIDE DEF Val
    <3> QED
      BY DEF Surjection
  <2> QED
    BY <2>2, <2>3, FS_Surjection
<1>8. /\ DOMAIN s \subseteq Int /\ \A i \in DOMAIN s : s[i] \in T
      /\ \A t \in T : \E i \in DOMAIN s : s[i] = t
      /\ \A i, j \in DOMAIN s : s[i] = s[j] => i = j
  <2> HIDE DEF T
  <2> QED
    BY <1>6, <1>7, SeqOfSet
\* What the new object holds.
<1>9. /\ \A i \in DOMAIN s : s[i].name \in all /\ s[i].val = Val(s[i].name)
                             /\ s[i] = [name |-> s[i].name, val |-> Val(s[i].name)]
      /\ \A n \in all : \E i \in DOMAIN s : s[i] = [name |-> n, val |-> Val(n)] /\ s[i].name = n
      /\ \A i, j \in DOMAIN s : s[i].name = s[j].name => i = j
  <2> HIDE DEF Val
  <2>1. \A i \in DOMAIN s : \E n \in all : s[i] = [name |-> n, val |-> Val(n)]
    BY <1>8
  <2>2. \A i \in DOMAIN s : s[i].name \in all /\ s[i].val = Val(s[i].name)
                            /\ s[i] = [name |-> s[i].name, val |-> Val(s[i].name)]
    BY <2>1
  <2>3. \A n \in all : \E i \in DOMAIN s : s[i] = [name |-> n, val |-> Val(n)] /\ s[i].name = n
    <3> TAKE n \in all
    <3>1. [name |-> n, val |-> Val(n)] \in T
      OBVIOUS
    <3>2. PICK i \in DOMAIN s : s[i] = [name |-> n, val |-> Val(n)]
      BY <1>8, <3>1
    <3> QED
      BY <3>2
  <2>4. \A i, j \in DOMAIN s : s[i].name = s[j].name => i = j
    BY <1>8, <2>2
  <2> QED
    BY <2>2, <2>3, <2>4
<1> HIDE DEF T
<1>10. Fold("model") = "model" /\ Fold("stream_options") = "stream_options"
  BY DEF Fold
<1>11. "model" \in set /\ \A n \in set : Fold(n) \in {"model", "stream_options"}
  BY <1>4, <1>10
<1>12. Others(s) = Others(b)
  <2>1. ASSUME NEW o \in Others(s)
        PROVE  o \in Others(b)
    <3>1. PICK i \in DOMAIN s : o = s[i] /\ Fold(s[i].name) \notin {"model", "stream_options"}
      BY <2>1 DEF Others
    <3>2. s[i].name \notin set
      BY <1>11, <3>1
    <3>3. s[i].name \in DOMAIN m /\ Val(s[i].name) = m[s[i].name]
      BY <1>5, <1>9, <3>2
    <3>4. PICK j \in DOMAIN b : b[j].name = s[i].name
      BY <1>3, <3>3
    <3>5. o = [name |-> b[j].name, val |-> b[j].val]
      BY <1>3, <1>9, <3>1, <3>3, <3>4
    <3>6. o = b[j]
      BY <1>1, <3>5 DEF Field
    <3> QED
      BY <3>1, <3>4, <3>6 DEF Others
  <2>2. ASSUME NEW o \in Others(b)
        PROVE  o \in Others(s)
    <3>1. PICK j \in DOMAIN b : o = b[j] /\ Fold(b[j].name) \notin {"model", "stream_options"}
      BY <2>2 DEF Others
    <3>2. b[j].name \in all /\ Val(b[j].name) = b[j].val
      BY <1>3, <1>5, <1>11, <3>1
    <3>3. PICK i \in DOMAIN s : s[i] = [name |-> b[j].name, val |-> Val(b[j].name)] /\ s[i].name = b[j].name
      BY <1>9, <3>2
    <3>4. b[j] = [name |-> b[j].name, val |-> b[j].val]
      BY <1>1 DEF Field
    <3>5. o = s[i]
      BY <3>1, <3>2, <3>3, <3>4
    <3> QED
      BY <3>1, <3>3, <3>5 DEF Others
  <2> QED
    BY <2>1, <2>2
<1>13. Found(s) = model
  <2>1. "model" \in all /\ Val("model") = model
    BY <1>5, <1>11
  <2>2. PICK i \in DOMAIN s : s[i].name = "model" /\ s[i].val = model
    BY <1>9, <2>1
  <2>3. \A j \in DOMAIN s : s[j].name = "model" => j = i
    BY <1>9, <2>2
  <2> QED
    BY <1>8, <2>2, <2>3, FoundExact
\* The options have one spelling in a plain body, and so in the new object.
<1>14. \A i \in DOMAIN s : Fold(s[i].name) = "stream_options" => s[i].name = "stream_options"
  <2> SUFFICES ASSUME NEW i \in DOMAIN s, Fold(s[i].name) = "stream_options"
               PROVE  s[i].name = "stream_options"
    OBVIOUS
  <2>1. CASE s[i].name \in set
    BY <1>4, <1>10, <2>1
  <2>2. CASE s[i].name \in DOMAIN m
    <3>1. PICK j \in DOMAIN b : b[j].name = s[i].name
      BY <1>3, <2>2
    <3>2. s[i].name \in FieldName /\ s[i].name # "Stream_Options"
      BY <1>1, <3>1 DEF Plain
    <3> QED
      BY <3>2, FoldedNames
  <2> QED
    BY <1>5, <1>9, <2>1, <2>2
<1>15. \A v : "stream_options" \in all /\ Val("stream_options") = v => Peek(s, "stream_options") = {v}
  <2> SUFFICES ASSUME NEW v, "stream_options" \in all, Val("stream_options") = v
               PROVE  Sole(s, "stream_options", v)
    BY <1>8, PeekSole
  <2>1. PICK i \in DOMAIN s : s[i].name = "stream_options" /\ s[i].val = v
    BY <1>9
  <2> QED
    BY <1>9, <1>10, <1>14, <2>1 DEF Sole
<1>16. Peek(b, "stream_options") = {} <=> "stream_options" \notin DOMAIN m
  <2>1. ASSUME "stream_options" \in DOMAIN m
        PROVE  Peek(b, "stream_options") # {}
    <3>1. PICK i \in DOMAIN b : b[i].name = "stream_options"
      BY <1>3, <2>1
    <3>2. Sole(b, "stream_options", b[i].val)
      BY <1>10, <3>1 DEF Sole, Plain
    <3>3. Peek(b, "stream_options") = {b[i].val}
      BY <1>1, <3>2, PeekSole
    <3> QED
      BY <3>3
  <2>2. ASSUME Peek(b, "stream_options") # {}
        PROVE  "stream_options" \in DOMAIN m
    <3>1. PICK i \in DOMAIN b : Fold(b[i].name) = "stream_options"
      BY <2>2, PeekNone
    <3>2. b[i].name = "stream_options"
      BY <1>1, <3>1, FoldedNames DEF Plain
    <3> QED
      BY <1>3, <3>2
  <2> QED
    BY <2>1, <2>2
<1>17. CASE Add(b, meter)
  <2>1. "stream_options" \in set /\ "stream_options" # "model"
    BY <1>4, <1>16, <1>17 DEF Add
  <2>2. "stream_options" \in all /\ Val("stream_options") = Counted
    BY <1>5, <2>1
  <2> QED
    BY <1>12, <1>13, <1>15, <1>17, <2>2
<1>18. CASE ~Add(b, meter)
  <2>1. Peek(s, "stream_options") = Peek(b, "stream_options")
    <3>1. CASE Peek(b, "stream_options") = {}
      <4>1. "stream_options" \notin all
        BY <1>4, <1>5, <1>16, <1>18, <3>1 DEF Add
      <4>2. \A i \in DOMAIN s : Fold(s[i].name) # "stream_options"
        BY <1>9, <1>14, <4>1
      <4> QED
        BY <3>1, <4>2, PeekNone
    <3>2. CASE Peek(b, "stream_options") # {}
      <4>1. "stream_options" \in DOMAIN m /\ "stream_options" \notin set
        BY <1>4, <1>16, <3>2
      <4>2. PICK i \in DOMAIN b : b[i].name = "stream_options"
        BY <1>3, <4>1
      <4>3. Sole(b, "stream_options", b[i].val)
        BY <1>10, <4>2 DEF Sole, Plain
      <4>4. Peek(b, "stream_options") = {b[i].val}
        BY <1>1, <4>3, PeekSole
      <4>5. "stream_options" \in all /\ Val("stream_options") = b[i].val
        BY <1>3, <1>5, <4>1, <4>2
      <4> QED
        BY <1>15, <4>4, <4>5
    <3> QED
      BY <3>1, <3>2
  <2> QED
    BY <1>12, <1>13, <1>18, <2>1
<1> QED
  BY <1>17, <1>18

LEMMA LocateFinds ==
  ASSUME NEW b \in Seq(Field), Plain(b)
  PROVE  IF Locate(b) = 0 THEN \A i \in DOMAIN b : b[i].name # "model"
         ELSE Locate(b) \in DOMAIN b /\ b[Locate(b)].name = "model"
<1>1. DOMAIN b = 1..Len(b) /\ Len(b) \in Nat
  BY BodyFields
<1>2. PICK at : at = {i \in DOMAIN b : b[i].name = "model"}
  OBVIOUS
<1>3. Locate(b) = IF at = {} THEN 0 ELSE CHOOSE i \in at : \A j \in at : i <= j
  <2> DEFINE A == {i \in DOMAIN b : b[i].name = "model"}
  <2>1. Locate(b) = IF A = {} THEN 0 ELSE CHOOSE i \in A : \A j \in A : i <= j
    BY Zenon DEF Locate
  <2>2. at = A
    BY <1>2
  <2> HIDE DEF A
  <2> QED
    BY <2>1, <2>2
<1>4. CASE at = {}
  BY <1>2, <1>3, <1>4
<1>5. CASE at # {}
  <2>1. PICK i \in at : TRUE
    BY <1>5
  <2>2. \A j \in at : j = i
    BY <1>2 DEF Plain
  <2>3. \A j \in at : i <= j
    BY <1>1, <1>2, <2>2
  <2>4. Locate(b) \in at
    BY <1>3, <1>5, <2>3
  <2>5. Locate(b) # 0
    BY <1>1, <1>2, <2>4
  <2> QED
    BY <1>2, <2>4, <2>5
<1> QED
  BY <1>4, <1>5

\* Whatever a caller sends, each provider gets it with nothing lost or added but its own model
\* and, metered, the options that ask for usage, unless the caller has options (body.go:170).
THEOREM SendIsFaithful ==
  ASSUME NEW b \in Seq(Field), Plain(b), Named(b), NEW model, NEW meter \in BOOLEAN
  PROVE  Faithful(b, model, meter)
<1>1. PICK s : s = Send(b, model, meter)
  OBVIOUS
<1>2. /\ Others(s) = Others(b) /\ Found(s) = model
      /\ Peek(s, "stream_options") = IF Add(b, meter) THEN {Counted} ELSE Peek(b, "stream_options")
  <2>1. CASE model = Model(b) /\ ~Add(b, meter)
    <3>1. s = b
      BY <1>1, <2>1 DEF Send
    <3> QED
      BY <2>1, <3>1, SameFaithful
  <2>2. CASE ~(model = Model(b) /\ ~Add(b, meter)) /\ Locate(b) = 0
    <3>1. s = Swap(b, model, meter)
      BY <1>1, <2>2 DEF Send
    <3>2. \A i \in DOMAIN b : b[i].name # "model"
      BY <2>2, LocateFinds
    <3> QED
      BY <3>1, <3>2, SwappedFaithful
  <2>3. CASE ~(model = Model(b) /\ ~Add(b, meter)) /\ Locate(b) # 0
    <3>1. PICK at \in DOMAIN b : at = Locate(b) /\ b[at].name = "model"
      BY <2>3, LocateFinds
    <3>2. s = Spliced(b, at, model, meter)
      BY <1>1, <2>3, <3>1, Zenon DEF Send, Spliced
    <3> QED
      BY <3>1, <3>2, SplicedFaithful
  <2> QED
    BY <2>1, <2>2, <2>3
<1>3. (IF Add(b, meter) THEN {Counted} ELSE Peek(b, "stream_options"))
      = IF meter /\ Peek(b, "stream_options") = {} THEN {Counted} ELSE Peek(b, "stream_options")
  BY DEF Add
<1> QED
  BY <1>1, <1>2, <1>3 DEF Faithful

-----------------------------------------------------------------------------
(* sniff's buffer.                                                         *)

\* Ending by its elements.
LEMMA EndingElements ==
  ASSUME NEW S, NEW s \in Seq(S), NEW n \in Nat
  PROVE  /\ Ending(s, n) \in Seq(S)
         /\ Len(Ending(s, n)) = Lesser(Len(s), n)
         /\ \A i \in 1..Lesser(Len(s), n) : Ending(s, n)[i] = s[i + Len(s) - Lesser(Len(s), n)]
<1>1. CASE Len(s) <= n
  BY <1>1 DEF Ending, Lesser
<1>2. CASE Len(s) > n
  <2> DEFINE m == Len(s) - n + 1
  <2>1. m \in Int /\ Len(s) \in Int /\ \A i \in m..Len(s) : s[i] \in S
    BY <1>2
  <2> HIDE DEF m
  <2>2. /\ SubSeq(s, m, Len(s)) \in Seq(S)
        /\ Len(SubSeq(s, m, Len(s))) = IF m <= Len(s) THEN Len(s) - m + 1 ELSE 0
        /\ \A i \in 1..Len(s) - m + 1 : SubSeq(s, m, Len(s))[i] = s[m + i - 1]
    BY <2>1, SubSeqProperties
  <2>3. Ending(s, n) = SubSeq(s, m, Len(s)) /\ Lesser(Len(s), n) = n
    BY <1>2 DEF Ending, Lesser, m
  <2>4. \A i \in 1..n : m + i - 1 = i + Len(s) - n
    BY DEF m
  <2>5. (IF m <= Len(s) THEN Len(s) - m + 1 ELSE 0) = n /\ Len(s) - m + 1 = n
    BY <1>2 DEF m
  <2> QED
    BY <2>2, <2>3, <2>4, <2>5
<1> QED
  BY <1>1, <1>2

LEMMA EndingUnique ==
  ASSUME NEW S, NEW s \in Seq(S), NEW n \in Nat, NEW t \in Seq(S),
         Len(t) = Lesser(Len(s), n),
         \A i \in 1..Len(t) : t[i] = s[i + Len(s) - Len(t)]
  PROVE  t = Ending(s, n)
<1>1. /\ Ending(s, n) \in Seq(S) /\ Len(Ending(s, n)) = Len(t)
      /\ \A i \in 1..Len(t) : Ending(s, n)[i] = s[i + Len(s) - Len(t)]
  BY EndingElements
<1> HIDE DEF Ending
<1> QED
  BY <1>1, SeqEqual

LEMMA EndingOfEnding ==
  ASSUME NEW S, NEW s \in Seq(S), NEW n \in Nat, NEW m \in Nat, m <= n
  PROVE  Ending(Ending(s, n), m) = Ending(s, m)
<1>1. PICK e : e = Ending(s, n)
  OBVIOUS
<1>2. PICK t : t = Ending(e, m)
  OBVIOUS
<1>3. PICK l \in Nat : l = Len(s)
  OBVIOUS
<1>4. PICK le \in Nat : le = Lesser(l, n)
  BY <1>3 DEF Lesser
<1>5. PICK lt \in Nat : lt = Lesser(le, m)
  BY <1>4 DEF Lesser
<1>6. e \in Seq(S) /\ Len(e) = le /\ \A i \in 1..le : e[i] = s[i + l - le]
  BY <1>1, <1>3, <1>4, EndingElements
<1>7. t \in Seq(S) /\ Len(t) = lt /\ \A i \in 1..lt : t[i] = e[i + le - lt]
  BY <1>2, <1>5, <1>6, EndingElements
<1>8. lt = Lesser(l, m) /\ lt <= le
  BY <1>4, <1>5 DEF Lesser
<1>9. ASSUME NEW i \in 1..lt
      PROVE  t[i] = s[i + l - lt]
  <2>1. i + le - lt \in 1..le /\ (i + le - lt) + l - le = i + l - lt
    BY <1>8
  <2> QED
    BY <1>6, <1>7, <2>1
<1> QED
  BY <1>1, <1>2, <1>3, <1>7, <1>8, <1>9, EndingUnique

\* The end of a sequence and a chunk that leaves room for some of it.
LEMMA EndingOfConcat ==
  ASSUME NEW S, NEW s \in Seq(S), NEW p \in Seq(S), NEW n \in Nat, Len(p) <= n
  PROVE  Ending(s, n - Len(p)) \o p = Ending(s \o p, n)
<1>1. PICK e : e = Ending(s, n - Len(p))
  OBVIOUS
<1>2. PICK l \in Nat, lp \in Nat : l = Len(s) /\ lp = Len(p)
  OBVIOUS
<1>3. PICK r \in Nat : r = n - lp
  BY <1>2
<1>a. PICK le \in Nat : le = Lesser(l, r)
  BY <1>2 DEF Lesser
<1>4. e \in Seq(S) /\ Len(e) = le /\ \A i \in 1..le : e[i] = s[i + l - le]
  BY <1>1, <1>2, <1>3, <1>a, EndingElements
<1>5. PICK w : w = s \o p
  OBVIOUS
<1>6. PICK t : t = e \o p
  OBVIOUS
<1>7. w \in Seq(S) /\ Len(w) = l + lp
      /\ \A i \in 1..l + lp : w[i] = IF i <= l THEN s[i] ELSE p[i - l]
  BY <1>2, <1>5, ConcatProperties
<1>8. t \in Seq(S) /\ Len(t) = le + lp
      /\ \A i \in 1..le + lp : t[i] = IF i <= le THEN e[i] ELSE p[i - le]
  BY <1>2, <1>4, <1>6, ConcatProperties
<1>9. le + lp = Lesser(l + lp, n) /\ le <= l
  BY <1>3, <1>a DEF Lesser
<1>10. ASSUME NEW i \in 1..le + lp
       PROVE  t[i] = w[i + (l + lp) - (le + lp)]
  <2>1. i + (l + lp) - (le + lp) = i + l - le /\ i + l - le \in 1..l + lp
    BY <1>9
  <2>2. CASE i <= le
    <3>1. i + l - le <= l /\ i \in 1..le
      BY <2>2
    <3>2. w[i + l - le] = s[i + l - le] /\ t[i] = e[i]
      BY <1>7, <1>8, <2>1, <2>2, <3>1
    <3> QED
      BY <1>4, <2>1, <3>1, <3>2
  <2>3. CASE i > le
    <3>1. ~(i + l - le <= l) /\ i + l - le - l = i - le /\ ~(i <= le)
      BY <2>3
    <3>2. w[i + l - le] = p[i + l - le - l]
      BY <1>7, <2>1, <3>1
    <3>3. t[i] = p[i - le]
      BY <1>8, <3>1
    <3> QED
      BY <2>1, <3>1, <3>2, <3>3
  <2> QED
    BY <2>2, <2>3
<1> QED
  BY <1>1, <1>5, <1>6, <1>7, <1>8, <1>9, <1>10, EndingUnique

LEMMA EndingOfLongChunk ==
  ASSUME NEW S, NEW s \in Seq(S), NEW p \in Seq(S), NEW n \in Nat, n <= Len(p)
  PROVE  Ending(p, n) = Ending(s \o p, n)
<1>1. PICK t : t = Ending(p, n)
  OBVIOUS
<1>2. PICK l \in Nat, lp \in Nat : l = Len(s) /\ lp = Len(p)
  OBVIOUS
<1>3. t \in Seq(S) /\ Len(t) = n /\ \A i \in 1..n : t[i] = p[i + lp - n]
  <2>1. Lesser(lp, n) = n
    BY <1>2 DEF Lesser
  <2>2. /\ t \in Seq(S) /\ Len(t) = Lesser(lp, n)
        /\ \A i \in 1..Lesser(lp, n) : t[i] = p[i + lp - Lesser(lp, n)]
    BY <1>1, <1>2, EndingElements
  <2> QED
    BY <2>1, <2>2
<1>4. PICK w : w = s \o p
  OBVIOUS
<1>5. w \in Seq(S) /\ Len(w) = l + lp
      /\ \A i \in 1..l + lp : w[i] = IF i <= l THEN s[i] ELSE p[i - l]
  BY <1>2, <1>4, ConcatProperties
<1>6. ASSUME NEW i \in 1..n
      PROVE  t[i] = w[i + (l + lp) - n]
  <2>1. i + (l + lp) - n \in 1..l + lp /\ ~(i + (l + lp) - n <= l) /\ i + (l + lp) - n - l = i + lp - n
    BY <1>2
  <2> QED
    BY <1>3, <1>5, <2>1
<1>7. n = Lesser(l + lp, n)
  BY <1>2 DEF Lesser
<1>8. Len(t) = Lesser(Len(w), n) /\ \A i \in 1..Len(t) : t[i] = w[i + Len(w) - Len(t)]
  BY <1>3, <1>5, <1>6, <1>7
<1>9. t = Ending(w, n)
  BY <1>3, <1>5, <1>8, EndingUnique
<1> QED
  BY <1>1, <1>4, <1>9

\* Whatever the chunks were, the buffer holds the end of what was read (relay.go:29).
THEOREM FeedKeepsEnding ==
  ASSUME NEW h \in Seq(Unit), NEW p \in Seq(Unit)
  PROVE  Feed(Ending(h, Room), p) = Ending(h \o p, Room)
<1>1. Room \in Nat \ {0} /\ Len(h) \in Nat /\ Len(p) \in Nat
  BY LedgerAssumption
<1>2. PICK b : b = Ending(h, Room)
  OBVIOUS
<1>3. b \in Seq(Unit)
  BY <1>1, <1>2, EndingElements
<1>4. CASE Len(p) >= Room
  <2>1. Feed(b, p) = SubSeq(p, Len(p) - Room + 1, Len(p))
    BY <1>4 DEF Feed
  <2>2. Feed(b, p) = Ending(p, Room)
    <3>1. CASE Len(p) = Room
      <4>1. Feed(b, p) = SubSeq(p, 1, Len(p))
        BY <1>1, <2>1, <3>1
      <4> QED
        BY <3>1, <4>1, SubSeqFull DEF Ending
    <3>2. CASE Len(p) # Room
      BY <1>1, <1>4, <2>1, <3>2 DEF Ending
    <3> QED
      BY <3>1, <3>2
  <2> QED
    BY <1>1, <1>2, <1>4, <2>2, EndingOfLongChunk
<1>5. CASE Len(p) < Room
  <2>1. Feed(b, p) = Ending(b, Room - Len(p)) \o p
    <3>1. PICK lb \in Nat, lp \in Nat : lb = Len(b) /\ lp = Len(p)
      BY <1>3
    <3>2. (lb + lp - Room > 0) <=> ~(lb <= Room - lp)
      BY <1>1
    <3>3. (lb + lp - Room) + 1 = lb - (Room - lp) + 1
      BY <1>1
    <3>4. Feed(b, p) = (IF lb + lp - Room > 0 THEN SubSeq(b, (lb + lp - Room) + 1, lb) ELSE b) \o p
      <4>1. ~(Len(p) >= Room)
        BY <1>1, <1>5
      <4>2. Feed(b, p) = (IF Len(b) + Len(p) - Room > 0 THEN SubSeq(b, (Len(b) + Len(p) - Room) + 1, Len(b))
                          ELSE b) \o p
        BY <4>1, Zenon DEF Feed
      <4> QED
        BY <3>1, <4>2
    <3>5. Ending(b, Room - lp) = IF lb <= Room - lp THEN b ELSE SubSeq(b, lb - (Room - lp) + 1, lb)
      BY <3>1 DEF Ending
    <3> QED
      BY <3>1, <3>2, <3>3, <3>4, <3>5
  <2>2. Ending(b, Room - Len(p)) = Ending(h, Room - Len(p))
    <3>1. Room - Len(p) \in Nat /\ Room - Len(p) <= Room
      BY <1>1, <1>5
    <3> QED
      BY <1>1, <1>2, <3>1, EndingOfEnding
  <2>3. Ending(h, Room - Len(p)) \o p = Ending(h \o p, Room)
    BY <1>1, <1>5, EndingOfConcat
  <2> QED
    BY <1>2, <2>1, <2>2, <2>3
<1> QED
  BY <1>1, <1>4, <1>5

LEMMA FillSpend ==
  ASSUME NEW o \in Object
  PROVE  Fill(o) \in Spend
<1>1. PICK s \in Spend : s = o
  BY LedgerAssumption
<1>2. s.in + s.out \in Nat
  BY DEF Spend
<1>3. [s EXCEPT !.total = s.in + s.out] \in Spend
  BY <1>2 DEF Spend
<1> QED
  BY <1>1, <1>3 DEF Fill

LEMMA SniffedSpend ==
  ASSUME NEW b
  PROVE  Sniffed(b) \subseteq Spend
  BY FillSpend DEF Sniffed, LastUsage

\* There is one last mark.
LEMMA SniffedOnce ==
  ASSUME NEW b \in Seq(Unit), NEW s \in Sniffed(b), NEW t \in Sniffed(b)
  PROVE  s = t
<1>1. PICK i \in DOMAIN b : LastUsage(b, i) /\ s = Fill(b[i + 1])
  BY DEF Sniffed
<1>2. PICK j \in DOMAIN b : LastUsage(b, j) /\ t = Fill(b[j + 1])
  BY DEF Sniffed
<1>3. i \in Int /\ j \in Int /\ Len(b) \in Nat /\ i \in 1..Len(b) /\ j \in 1..Len(b)
  OBVIOUS
<1>4. i = j
  BY <1>1, <1>2, <1>3 DEF LastUsage
<1> QED
  BY <1>1, <1>2, <1>4

\* The usage in the buffer is the usage in the end of the stream.
LEMMA SniffedIsSaid ==
  ASSUME NEW h \in Seq(Unit)
  PROVE  Sniffed(Ending(h, Room)) = Said(h)
<1>1. PICK b : b = Ending(h, Room)
  OBVIOUS
<1>2. PICK l \in Nat : l = Len(h)
  OBVIOUS
<1>3. Room \in Nat \ {0}
  BY LedgerAssumption
<1>4. PICK n \in Nat : n = Lesser(l, Room)
  BY <1>3 DEF Lesser
<1>5. b \in Seq(Unit) /\ Len(b) = n /\ \A i \in 1..n : b[i] = h[i + l - n]
  BY <1>1, <1>2, <1>3, <1>4, EndingElements
<1>6. n <= l /\ n <= Room /\ (n = l \/ n = Room)
  BY <1>3, <1>4 DEF Lesser
<1>7. ASSUME NEW i \in 1..n
      PROVE  LastUsage(b, i) <=> LastUsage(h, i + l - n)
  <2>1. (\A j \in i + 1..n : b[j] # Mark) <=> (\A j \in i + l - n + 1..l : h[j] # Mark)
    <3>1. ASSUME \A j \in i + 1..n : b[j] # Mark, NEW j \in i + l - n + 1..l
          PROVE  h[j] # Mark
      <4>1. j - l + n \in i + 1..n /\ j - l + n \in 1..n /\ (j - l + n) + l - n = j
        BY <1>6
      <4> QED
        BY <1>5, <3>1, <4>1
    <3>2. ASSUME \A j \in i + l - n + 1..l : h[j] # Mark, NEW j \in i + 1..n
          PROVE  b[j] # Mark
      <4>1. j + l - n \in i + l - n + 1..l /\ j \in 1..n
        BY <1>6
      <4> QED
        BY <1>5, <3>2, <4>1
    <3> QED
      BY <3>1, <3>2
  <2>2. i < n <=> i + l - n < l
    OBVIOUS
  <2>3. i < n => b[i + 1] = h[i + l - n + 1]
    <3>1. i < n => i + 1 \in 1..n /\ (i + 1) + l - n = i + l - n + 1
      OBVIOUS
    <3> QED
      BY <1>5, <3>1
  <2>4. b[i] = h[i + l - n]
    BY <1>5
  <2> QED
    BY <1>2, <1>5, <2>1, <2>2, <2>3, <2>4 DEF LastUsage
<1>8. ASSUME NEW i \in 1..n, LastUsage(b, i)
      PROVE  b[i + 1] = h[i + l - n + 1]
  <2>1. i + 1 \in 1..n /\ (i + 1) + l - n = i + l - n + 1
    BY <1>5, <1>8 DEF LastUsage
  <2> QED
    BY <1>5, <2>1
<1>9. ASSUME NEW s \in Sniffed(b)
      PROVE  s \in Said(h)
  <2>1. PICK i \in 1..n : LastUsage(b, i) /\ s = Fill(b[i + 1])
    BY <1>5, <1>9 DEF Sniffed
  <2>2. i + l - n \in 1..l /\ i + l - n > l - Room
    BY <1>3, <1>6
  <2>3. LastUsage(h, i + l - n) /\ s = Fill(h[i + l - n + 1])
    BY <1>7, <1>8, <2>1
  <2> QED
    BY <1>2, <2>2, <2>3 DEF Said
<1>10. ASSUME NEW s \in Said(h)
       PROVE  s \in Sniffed(b)
  <2>1. PICK j \in 1..l : j > l - Room /\ LastUsage(h, j) /\ s = Fill(h[j + 1])
    BY <1>2, <1>10 DEF Said
  <2>2. PICK i \in 1..n : i + l - n = j
    <3>1. j - l + n \in 1..n /\ (j - l + n) + l - n = j
      BY <1>3, <1>6, <2>1
    <3> QED
      BY <3>1
  <2>3. LastUsage(b, i) /\ s = Fill(b[i + 1])
    BY <1>7, <1>8, <2>1, <2>2
  <2> QED
    BY <1>5, <2>3 DEF Sniffed
<1> QED
  BY <1>1, <1>9, <1>10

-----------------------------------------------------------------------------
(* The invariant.                                                          *)

CountersOK ==
  /\ due \in BOOLEAN
  /\ reqs \in [Key -> Nat] /\ errs \in [Key -> Nat] /\ blind \in [Key -> Nat]
  /\ toks \in [Key -> Spend] /\ life \in [Key -> Spend]

HealthOK == ttft \in [Key -> Nat] /\ resting \subseteq Key /\ mute \subseteq Prov

\* The fields of a request that a step may set to anything are those of an attempt; the
\* buffer holds the end of what was heard, and only a stream is heard.
ReqOK(r) ==
  /\ r = [at |-> r.at, plan |-> r.plan, route |-> r.route, key |-> r.key, target |-> r.target,
          meter |-> r.meter, budget |-> r.budget, used |-> r.used, tail |-> r.tail, heard |-> r.heard]
  /\ r.plan \in Asked \cup {<<>>} /\ r.key \in Key /\ r.budget \in Nat
  /\ r.at \in {"asked", "again"} => ProvOf[r.key] = r.target.prov
  /\ r.meter \in BOOLEAN
  /\ (r.meter = TRUE \/ r.at = "again") => Stream(r.plan)
  /\ r.used \subseteq Spend /\ (\A s, t \in r.used : s = t)
  /\ Stream(r.plan) => r.used = {}
  /\ ~Stream(r.plan) => r.heard = <<>>
  /\ r.at = "idle" => r.heard = <<>> /\ r.used = {} /\ r.meter = FALSE
  /\ r.heard \in Seq(Unit) /\ r.tail = Ending(r.heard, Room)

RequestsOK == req = [c \in Caller |-> req[c]] /\ \A c \in Caller : ReqOK(req[c])

Inv == CountersOK /\ HealthOK /\ RequestsOK

LEMMA CountTyped ==
  ASSUME CountersOK, NEW r \in [Key -> Nat], NEW e \in [Key -> Nat],
         NEW t \in [Key -> Spend], NEW b \in [Key -> Nat], Count(r, e, t, b), life' \in [Key -> Spend]
  PROVE  CountersOK'
<1>1. \A k \in Key : /\ Rolled(reqs, 0)[k] \in Nat /\ Rolled(errs, 0)[k] \in Nat
                     /\ Rolled(blind, 0)[k] \in Nat
  BY DEF CountersOK, Rolled
<1>2. \A k \in Key : Rolled(toks, None)[k] \in Spend
  BY DEF CountersOK, Rolled, None, Spend
<1>3. \A k \in Key : Plus(Rolled(toks, None)[k], t[k]) \in Spend
  BY <1>2 DEF Plus, Spend
<1>4. reqs' \in [Key -> Nat] /\ errs' \in [Key -> Nat] /\ blind' \in [Key -> Nat]
  <2> HIDE DEF Rolled
  <2>1. \A k \in Key : /\ Rolled(reqs, 0)[k] + r[k] \in Nat /\ Rolled(errs, 0)[k] + e[k] \in Nat
                       /\ Rolled(blind, 0)[k] + b[k] \in Nat
    BY <1>1
  <2> QED
    BY <2>1 DEF Count
<1>5. toks' \in [Key -> Spend] /\ due' \in BOOLEAN
  BY <1>3 DEF Count
<1> QED
  BY <1>4, <1>5 DEF CountersOK

LEMMA Zeros ==
  /\ Zero \in [Key -> Nat] /\ NoTokens \in [Key -> Spend]
  /\ \A k \in Key : One(k) \in [Key -> Nat]
  /\ \A k \in Key, s \in Spend : [NoTokens EXCEPT ![k] = s] \in [Key -> Spend]
  BY DEF Zero, NoTokens, One, None, Spend

LEMMA RollTyped ==
  ASSUME CountersOK, Roll, UNCHANGED life
  PROVE  CountersOK'
  BY CountTyped, Zeros DEF Roll, CountersOK

\* One request has changed.
LEMMA LocalKeeps ==
  ASSUME RequestsOK, NEW c \in Caller, NEW r, Local(c, r), ReqOK(r)
  PROVE  RequestsOK'
<1>1. req' = [d \in Caller |-> IF d = c THEN r ELSE req[d]]
  BY DEF RequestsOK, Local
<1>2. \A d \in Caller : req'[d] = IF d = c THEN r ELSE req[d]
  BY <1>1
<1>3. req' = [d \in Caller |-> req'[d]]
  BY <1>1
<1>4. \A d \in Caller : ReqOK(req[d])
  BY DEF RequestsOK
<1>5. \A d \in Caller : ReqOK(req'[d])
  BY <1>2, <1>4
<1> HIDE DEF ReqOK
<1> QED
  BY <1>3, <1>5 DEF RequestsOK

LEMMA EmptyEnding ==
  <<>> \in Seq(Unit) /\ Ending(<<>>, Room) = <<>>
<1>1. Room \in Nat /\ Len(<<>>) = 0
  BY LedgerAssumption
<1> QED
  BY <1>1 DEF Ending

LEMMA IdlerOK ==
  ReqOK(Idler) /\ ReqOK(Over)
<1>1. Slots[1] \in Key
  BY LedgerAssumption
<1>2. ASSUME NEW p, p \notin {"asked", "again"}
      PROVE  ReqOK([at |-> p, plan |-> <<>>, route |-> <<>>, key |-> Slots[1], target |-> Route[1],
                    meter |-> FALSE, budget |-> 0, used |-> {}, tail |-> <<>>, heard |-> <<>>])
  BY <1>1, <1>2, EmptyEnding DEF ReqOK
<1> QED
  BY <1>2 DEF Idler, Over

-----------------------------------------------------------------------------
(* The steps.                                                              *)

LEMMA LedgerInit ==
  Init => Inv
<1> SUFFICES ASSUME Init PROVE Inv
  OBVIOUS
<1>1. CountersOK
  BY Zeros DEF Init, CountersOK
<1>2. HealthOK
  BY LedgerAssumption DEF Init, HealthOK
<1>3. \A c \in Caller : req[c] = Idler
  BY DEF Init
<1>4. RequestsOK
  BY <1>3, IdlerOK DEF Init, RequestsOK
<1> QED
  BY <1>1, <1>2, <1>4 DEF Inv

LEMMA StartKeeps ==
  ASSUME Inv, NEW c \in Caller, NEW b \in Asked, Start(c, b)
  PROVE  Inv'
<1>1. CountersOK'
  BY RollTyped DEF Inv, Start
<1>2. HealthOK'
  BY DEF Inv, HealthOK, Start, health
<1>3. RequestsOK'
  <2>1. PICK r : r = [req[c] EXCEPT !.at = "walking", !.plan = b, !.route = Ranked]
    OBVIOUS
  <2>2. ReqOK(req[c]) /\ req[c].at = "idle"
    BY DEF Inv, RequestsOK, Start
  <2>3. ReqOK(r)
    BY <2>1, <2>2 DEF ReqOK
  <2> QED
    BY <2>1, <2>3, LocalKeeps DEF Inv, Start
<1> QED
  BY <1>1, <1>2, <1>3 DEF Inv

LEMMA BudgetNat ==
  ASSUME Inv, NEW c \in Caller, NEW k \in Key
  PROVE  Budget(c, k) \in Nat
<1>1. Want \in Nat /\ Floor \in Nat /\ Idle \in Nat /\ ttft[k] \in Nat
  BY LedgerAssumption DEF Inv, HealthOK
<1> QED
  BY <1>1, TightenNat DEF Budget

LEMMA AskKeeps ==
  ASSUME Inv, NEW c \in Caller, NEW k \in Key, Ask(c, k)
  PROVE  Inv'
<1>1. CountersOK'
  BY RollTyped DEF Inv, Ask
<1>2. HealthOK'
  BY DEF Inv, HealthOK, Ask, health
<1>3. RequestsOK'
  <2>1. PICK m \in BOOLEAN : m = (Stream(req[c].plan) /\ Head(req[c].route).prov \notin mute)
    OBVIOUS
  <2>2. PICK r : r = [req[c] EXCEPT !.at = "asked", !.key = k, !.target = Head(req[c].route),
                                    !.route = Tail(req[c].route), !.meter = m, !.budget = Budget(c, k)]
    OBVIOUS
  <2>3. ReqOK(req[c]) /\ m = TRUE => Stream(req[c].plan)
    BY <2>1 DEF Inv, RequestsOK
  <2>4. ProvOf[k] = Head(req[c].route).prov
    BY DEF Ask, FreeOf
  <2>5. ReqOK(r)
    <3>1. Budget(c, k) \in Nat /\ ReqOK(req[c])
      BY BudgetNat DEF Inv, RequestsOK
    <3> QED
      BY <2>2, <2>3, <2>4, <3>1 DEF ReqOK
  <2>6. Local(c, r)
    BY <2>1, <2>2 DEF Ask
  <2> QED
    BY <2>5, <2>6, LocalKeeps DEF Inv
<1> QED
  BY <1>1, <1>2, <1>3 DEF Inv

LEMMA SkipKeeps ==
  ASSUME Inv, NEW c \in Caller, Skip(c)
  PROVE  Inv'
<1>1. CountersOK'
  BY RollTyped DEF Inv, Skip
<1>2. HealthOK'
  BY DEF Inv, HealthOK, Skip, health
<1>3. RequestsOK'
  <2>1. PICK r : r = [req[c] EXCEPT !.route = Tail(@)]
    OBVIOUS
  <2>2. ReqOK(req[c]) /\ req[c].at = "walking"
    BY DEF Inv, RequestsOK, Skip
  <2>3. ReqOK(r)
    BY <2>1, <2>2 DEF ReqOK
  <2> QED
    BY <2>1, <2>3, LocalKeeps DEF Inv, Skip
<1> QED
  BY <1>1, <1>2, <1>3 DEF Inv

LEMMA OverKeeps ==
  ASSUME Inv, NEW c \in Caller, GiveUp(c) \/ Abandon(c)
  PROVE  Inv'
<1>1. CountersOK' /\ HealthOK'
  BY RollTyped DEF Inv, CountersOK, HealthOK, GiveUp, Abandon, counts, health
<1>2. RequestsOK'
  BY IdlerOK, LocalKeeps DEF Inv, GiveUp, Abandon
<1> QED
  BY <1>1, <1>2 DEF Inv

LEMMA UnmeterKeeps ==
  ASSUME Inv, NEW c \in Caller, Unmeter(c)
  PROVE  Inv'
<1>1. CountersOK' /\ HealthOK'
  BY DEF Inv, CountersOK, HealthOK, Unmeter, counts, health
<1>2. RequestsOK'
  <2>1. PICK r : r = [req[c] EXCEPT !.at = "again", !.meter = FALSE, !.budget = Budget(c, req[c].key)]
    OBVIOUS
  <2>2. ReqOK(req[c]) /\ req[c].key \in Key /\ req[c].at = "asked"
    BY DEF Inv, RequestsOK, ReqOK, Unmeter
  <2>3. Budget(c, req[c].key) \in Nat
    BY <2>2, BudgetNat
  <2>4. Stream(req[c].plan)
    <3>1. req[c].meter = TRUE
      BY <2>2 DEF Unmeter, ReqOK
    <3> QED
      BY <2>2, <3>1 DEF ReqOK
  <2>5. ReqOK(r)
    BY <2>1, <2>2, <2>3, <2>4 DEF ReqOK
  <2> QED
    BY <2>1, <2>5, LocalKeeps DEF Inv, Unmeter
<1> QED
  BY <1>1, <1>2 DEF Inv

LEMMA AnswerKeeps ==
  ASSUME Inv, NEW c \in Caller, NEW d \in Sample, NEW u \in {{}} \cup {{o} : o \in Object},
         Answer(c, d, u)
  PROVE  Inv'
<1>1. ReqOK(req[c]) /\ req[c].key \in Key
  BY DEF Inv, RequestsOK, ReqOK
<1>2. CountersOK'
  BY <1>1, CountTyped, Zeros DEF Inv, Answer, CountersOK
<1>3. HealthOK'
  <2>1. Measure(ttft[req[c].key], d) \in Nat
    BY <1>1, MeasureNat, LedgerAssumption DEF Inv, HealthOK
  <2>2. ttft' \in [Key -> Nat]
    BY <1>1, <2>1 DEF Inv, HealthOK, Answer
  <2>3. resting' \subseteq Key
    BY DEF Inv, HealthOK, Answer
  <2>4. mute' \subseteq Prov
    <3>1. CASE req[c].at = "again"
      <4>1. ProvOf[req[c].key] = req[c].target.prov
        BY <1>1, <3>1 DEF ReqOK
      <4>2. ProvOf[req[c].key] \in Prov
        BY <1>1, LedgerAssumption
      <4> QED
        BY <3>1, <4>1, <4>2 DEF Inv, HealthOK, Answer
    <3>2. CASE req[c].at # "again"
      BY <3>2 DEF Inv, HealthOK, Answer
    <3> QED
      BY <3>1, <3>2
  <2> QED
    BY <2>2, <2>3, <2>4 DEF HealthOK
<1>4. RequestsOK'
  <2>1. PICK w : w = {Fill(o) : o \in u}
    OBVIOUS
  <2>2. w \subseteq Spend /\ (\A s, t \in w : s = t)
    BY <2>1, FillSpend
  <2>3. Stream(req[c].plan) => w = {}
    BY <2>1 DEF Answer
  <2>4. PICK r : r = [req[c] EXCEPT !.at = "relaying", !.used = w]
    OBVIOUS
  <2>5. ReqOK(r)
    BY <1>1, <2>2, <2>3, <2>4 DEF ReqOK
  <2> QED
    BY <2>1, <2>4, <2>5, LocalKeeps DEF Inv, Answer
<1> QED
  BY <1>2, <1>3, <1>4 DEF Inv

LEMMA FailKeeps ==
  ASSUME Inv, NEW c \in Caller, NEW mine \in BOOLEAN, NEW benched \in BOOLEAN, Fail(c, mine, benched)
  PROVE  Inv'
<1>1. ReqOK(req[c]) /\ req[c].key \in Key
  BY DEF Inv, RequestsOK, ReqOK
<1>2. CountersOK'
  BY <1>1, CountTyped, Zeros DEF Inv, Fail, CountersOK
<1>3. HealthOK'
  BY <1>1 DEF Inv, HealthOK, Fail
<1>4. RequestsOK'
  <2>1. PICK r : r = [req[c] EXCEPT !.at = "walking"]
    OBVIOUS
  <2>2. ReqOK(r)
    BY <1>1, <2>1 DEF ReqOK
  <2>3. Local(c, r) \/ Local(c, Over)
    BY <2>1 DEF Fail
  <2> QED
    BY <2>2, <2>3, IdlerOK, LocalKeeps DEF Inv
<1> QED
  BY <1>2, <1>3, <1>4 DEF Inv

LEMMA PumpKeeps ==
  ASSUME Inv, NEW c \in Caller, NEW p \in Chunk, Pump(c, p)
  PROVE  Inv'
<1>1. CountersOK' /\ HealthOK'
  BY DEF Inv, CountersOK, HealthOK, Pump, counts, health
<1>2. RequestsOK'
  <2>1. ReqOK(req[c]) /\ Stream(req[c].plan) /\ req[c].at = "relaying" /\ p \in Seq(Unit)
    BY LedgerAssumption DEF Inv, RequestsOK, Pump
  <2>2. PICK h : h = req[c].heard \o p
    OBVIOUS
  <2>3. h \in Seq(Unit) /\ Feed(req[c].tail, p) = Ending(h, Room)
    BY <2>1, <2>2, FeedKeepsEnding, ConcatProperties DEF ReqOK
  <2>4. PICK r : r = [req[c] EXCEPT !.tail = Ending(h, Room), !.heard = h]
    OBVIOUS
  <2>5. ReqOK(r)
    BY <2>1, <2>3, <2>4 DEF ReqOK
  <2>6. Local(c, r)
    BY <2>2, <2>3, <2>4 DEF Pump
  <2> QED
    BY <2>5, <2>6, LocalKeeps DEF Inv
<1> QED
  BY <1>1, <1>2 DEF Inv

LEMMA CostSpend ==
  ASSUME Inv, NEW c \in Caller
  PROVE  Cost(c) \subseteq Spend
  BY SniffedSpend DEF Inv, RequestsOK, ReqOK, Cost

LEMMA ChargeTyped ==
  ASSUME CountersOK, NEW k \in Key, NEW cost, cost \subseteq Spend, Charge(k, cost)
  PROVE  CountersOK'
<1>1. CASE /\ Count(Zero, Zero, NoTokens, One(k)) /\ UNCHANGED life
  BY <1>1, CountTyped, Zeros DEF CountersOK
<1>2. ASSUME NEW s \in cost, Count(Zero, Zero, [NoTokens EXCEPT ![k] = s], Zero),
             life' = [life EXCEPT ![k] = Plus(@, s)]
      PROVE  CountersOK'
  <2>1. Plus(life[k], s) \in Spend
    BY DEF CountersOK, Plus, Spend
  <2>2. life' \in [Key -> Spend]
    BY <1>2, <2>1 DEF CountersOK
  <2>3. [NoTokens EXCEPT ![k] = s] \in [Key -> Spend]
    BY Zeros
  <2> QED
    BY <1>2, <2>2, <2>3, CountTyped, Zeros
<1> QED
  BY <1>1, <1>2 DEF Charge

LEMMA RelayedKeeps ==
  ASSUME Inv, NEW c \in Caller, NEW cut \in BOOLEAN, Relayed(c, cut)
  PROVE  Inv'
<1>1. ReqOK(req[c]) /\ req[c].key \in Key
  BY DEF Inv, RequestsOK, ReqOK
<1>2. CountersOK'
  BY <1>1, ChargeTyped, CostSpend DEF Inv, Relayed
<1>3. HealthOK'
  BY DEF Inv, HealthOK, Relayed, health
<1>4. RequestsOK'
  <2>1. PICK r : r = [req[c] EXCEPT !.at = "souring"]
    OBVIOUS
  <2>2. ReqOK(r)
    BY <1>1, <2>1 DEF ReqOK
  <2>3. Local(c, r) \/ Local(c, Over)
    BY <2>1 DEF Relayed
  <2> QED
    BY <2>2, <2>3, IdlerOK, LocalKeeps DEF Inv
<1> QED
  BY <1>2, <1>3, <1>4 DEF Inv

LEMMA SourKeeps ==
  ASSUME Inv, NEW c \in Caller, Sour(c)
  PROVE  Inv'
<1>1. req[c].key \in Key
  BY DEF Inv, RequestsOK, ReqOK
<1>2. CountersOK'
  BY <1>1, CountTyped, Zeros DEF Inv, Sour, CountersOK
<1>3. HealthOK'
  BY <1>1 DEF Inv, HealthOK, Sour
<1>4. RequestsOK'
  BY IdlerOK, LocalKeeps DEF Inv, Sour
<1> QED
  BY <1>2, <1>3, <1>4 DEF Inv

LEMMA WorldKeeps ==
  ASSUME Inv, (\E k \in Key : Turn(k)) \/ Midnight \/ Look
  PROVE  Inv'
<1>1. RequestsOK'
  BY DEF Inv, RequestsOK, Turn, Midnight, Look
<1>2. HealthOK'
  BY DEF Inv, HealthOK, Turn, Midnight, Look, health
<1>3. CountersOK'
  <2>1. CASE Look
    BY <2>1, RollTyped DEF Inv, Look
  <2>2. CASE Midnight
    BY <2>2 DEF Inv, CountersOK, Midnight
  <2>3. CASE \E k \in Key : Turn(k)
    BY <2>3 DEF Inv, CountersOK, Turn, counts
  <2> QED
    BY <2>1, <2>2, <2>3
<1> QED
  BY <1>1, <1>2, <1>3 DEF Inv

LEMMA NextKeeps ==
  Inv /\ [Next]_vars => Inv'
<1> SUFFICES ASSUME Inv, [Next]_vars PROVE Inv'
  OBVIOUS
<1>1. ASSUME NEW c \in Caller, Request(c)
      PROVE  Inv'
  BY <1>1, StartKeeps, AskKeeps, SkipKeeps, OverKeeps, UnmeterKeeps, SourKeeps, AnswerKeeps, FailKeeps,
     PumpKeeps, RelayedKeeps DEF Request
<1>2. CASE (\E k \in Key : Turn(k)) \/ Midnight \/ Look
  BY <1>2, WorldKeeps
<1>3. CASE UNCHANGED vars
  BY <1>3 DEF vars, counts, health, Inv, CountersOK, HealthOK, RequestsOK
<1> QED
  BY <1>1, <1>2, <1>3 DEF Next

\* The invariant holds in every reachable state of the ledger (proxy.go:76-207).
THEOREM Invariant ==
  Spec => []Inv
<1> QED
  BY LedgerInit, NextKeeps, PTL DEF Spec

\* A request that is under way has a body that a caller sent.
Planned == \A c \in Caller : req[c].at \in {"idle", "done"} \/ req[c].plan \in Asked

LEMMA PlannedKept ==
  Inv /\ Planned /\ [Next]_vars => Planned'
<1> SUFFICES ASSUME Inv, Planned, [Next]_vars PROVE Planned'
  OBVIOUS
<1>1. req = [c \in Caller |-> req[c]] /\ \A c \in Caller : ReqOK(req[c])
  BY DEF Inv, RequestsOK
<1>2. ASSUME NEW c \in Caller, NEW r, Local(c, r), r.at \in {"idle", "done"} \/ r.plan \in Asked
      PROVE  Planned'
  <2>1. \A d \in Caller : req'[d] = IF d = c THEN r ELSE req[d]
    BY <1>1, <1>2 DEF Local
  <2> QED
    BY <1>2, <2>1 DEF Planned
<1>3. Over.at = "done"
  BY DEF Over, Idler
<1>5. ASSUME NEW c \in Caller, NEW b \in Asked, Start(c, b)
      PROVE  Planned'
  <2>1. PICK r : r = [req[c] EXCEPT !.at = "walking", !.plan = b, !.route = Ranked]
    OBVIOUS
  <2>2. r.plan = b
    BY <1>1, <2>1 DEF ReqOK
  <2> QED
    BY <1>2, <1>5, <2>1, <2>2 DEF Start
<1>6. ASSUME NEW c \in Caller, NEW r, Local(c, r), r.plan = req[c].plan, req[c].at \notin {"idle", "done"}
      PROVE  Planned'
  BY <1>2, <1>6 DEF Planned
<1>7. ASSUME NEW c \in Caller, NEW k \in Key, Ask(c, k)
      PROVE  Planned'
  <2>1. PICK r : Local(c, r) /\
          r = [req[c] EXCEPT !.at = "asked", !.key = k, !.target = Head(req[c].route),
                             !.route = Tail(req[c].route),
                             !.meter = (Stream(req[c].plan) /\ Head(req[c].route).prov \notin mute),
                             !.budget = Budget(c, k)]
    BY <1>7, Zenon DEF Ask
  <2>2. r.plan = req[c].plan
    BY <1>1, <2>1 DEF ReqOK
  <2> QED
    BY <1>6, <1>7, <2>1, <2>2 DEF Ask
<1>8. ASSUME NEW c \in Caller, Skip(c) \/ Unmeter(c)
      PROVE  Planned'
  <2>1. PICK r : Local(c, r) /\
          \/ r = [req[c] EXCEPT !.route = Tail(@)]
          \/ r = [req[c] EXCEPT !.at = "again", !.meter = FALSE, !.budget = Budget(c, req[c].key)]
    BY <1>8 DEF Skip, Unmeter
  <2>2. r.plan = req[c].plan
    BY <1>1, <2>1 DEF ReqOK
  <2> QED
    BY <1>6, <1>8, <2>1, <2>2 DEF Skip, Unmeter
<1>9. ASSUME NEW c \in Caller, GiveUp(c) \/ Abandon(c) \/ Sour(c)
      PROVE  Planned'
  BY <1>2, <1>3, <1>9 DEF GiveUp, Abandon, Sour
<1>10. ASSUME NEW c \in Caller, NEW d, NEW u, Answer(c, d, u)
       PROVE  Planned'
  <2>1. PICK r : r = [req[c] EXCEPT !.at = "relaying", !.used = {Fill(o) : o \in u}]
    OBVIOUS
  <2>2. r.plan = req[c].plan
    BY <1>1, <2>1 DEF ReqOK
  <2> QED
    BY <1>6, <1>10, <2>1, <2>2 DEF Answer, Asking
<1>11. ASSUME NEW c \in Caller, NEW mine, NEW benched, Fail(c, mine, benched)
       PROVE  Planned'
  <2>1. PICK r : r = [req[c] EXCEPT !.at = "walking"]
    OBVIOUS
  <2>2. r.plan = req[c].plan
    BY <1>1, <2>1 DEF ReqOK
  <2>3. Local(c, Over) \/ Local(c, r)
    BY <1>11, <2>1 DEF Fail
  <2> QED
    BY <1>2, <1>3, <1>6, <1>11, <2>2, <2>3 DEF Fail, Asking
<1>12. ASSUME NEW c \in Caller, NEW p, Pump(c, p)
       PROVE  Planned'
  <2>1. PICK r : r = [req[c] EXCEPT !.tail = Feed(@, p), !.heard = @ \o p]
    OBVIOUS
  <2>2. r.plan = req[c].plan
    BY <1>1, <2>1 DEF ReqOK
  <2> QED
    BY <1>6, <1>12, <2>1, <2>2 DEF Pump
<1>13. ASSUME NEW c \in Caller, NEW cut, Relayed(c, cut)
       PROVE  Planned'
  <2>1. PICK r : r = [req[c] EXCEPT !.at = "souring"]
    OBVIOUS
  <2>2. r.plan = req[c].plan
    BY <1>1, <2>1 DEF ReqOK
  <2>3. Local(c, Over) \/ Local(c, r)
    BY <1>13, <2>1 DEF Relayed
  <2> QED
    BY <1>2, <1>3, <1>6, <1>13, <2>2, <2>3 DEF Relayed
<1>14. ASSUME UNCHANGED req
       PROVE  Planned'
  BY <1>14 DEF Planned
<1> QED
  BY <1>5, <1>7, <1>8, <1>9, <1>10, <1>11, <1>12, <1>13, <1>14
  DEF Next, Request, Turn, Midnight, Look, vars

-----------------------------------------------------------------------------
(* The counters and the history.                                           *)

\* The row that the counters of a key make.
RowOf(k) ==
  [reqs |-> Rolled(reqs, 0)[k], errs |-> Rolled(errs, 0)[k], blind |-> Rolled(blind, 0)[k],
   today |-> Rolled(toks, None)[k], total |-> life[k]]

RowType == [reqs : Nat, errs : Nat, blind : Nat, today : Spend, total : Spend]

\* The counters of a key are what happened to it.
CountersTell == seen = [k \in Key |-> RowOf(k)]

LEMMA PlusNone == None \in Spend /\ \A s \in Spend : Plus(s, None) = s /\ Plus(None, s) = s
  BY DEF None, Spend, Plus

LEMMA PlusSpend == \A s, t \in Spend : Plus(s, t) \in Spend
  BY DEF Spend, Plus

LEMMA RowOfType ==
  ASSUME CountersOK, NEW k \in Key
  PROVE  RowOf(k) \in RowType
  BY PlusNone DEF CountersOK, RowOf, RowType, Rolled

LEMMA CountRow ==
  ASSUME CountersOK, NEW r, NEW e, NEW t, NEW b, Count(r, e, t, b), NEW k \in Key
  PROVE  RowOf(k)' = [reqs |-> RowOf(k).reqs + r[k], errs |-> RowOf(k).errs + e[k],
                      blind |-> RowOf(k).blind + b[k], today |-> Plus(RowOf(k).today, t[k]),
                      total |-> life'[k]]
<1>1. due' = FALSE /\ /\ reqs'[k] = Rolled(reqs, 0)[k] + r[k] /\ errs'[k] = Rolled(errs, 0)[k] + e[k]
                   /\ blind'[k] = Rolled(blind, 0)[k] + b[k]
                   /\ toks'[k] = Plus(Rolled(toks, None)[k], t[k])
  <2> HIDE DEF Rolled, Plus
  <2> QED
    BY DEF Count
<1>2. /\ Rolled(reqs, 0)' = reqs' /\ Rolled(errs, 0)' = errs' /\ Rolled(blind, 0)' = blind'
      /\ Rolled(toks, None)' = toks'
  BY <1>1 DEF Rolled
<1> QED
  BY <1>1, <1>2, Zenon DEF RowOf

\* A step that leaves the counters as they are, or only rolls.
LEMMA RollTells ==
  ASSUME CountersOK, CountersTell, UNCHANGED counts \/ Roll, UNCHANGED <<life, seen>>
  PROVE  CountersTell'
<1>1. ASSUME UNCHANGED counts, NEW k \in Key
      PROVE  RowOf(k)' = RowOf(k)
  BY <1>1 DEF counts, RowOf, Rolled
<1>2. ASSUME Roll, NEW k \in Key
      PROVE  RowOf(k)' = RowOf(k)
  <2>1. RowOf(k) \in RowType
    BY RowOfType
  <2>2. /\ RowOf(k).reqs + Zero[k] = RowOf(k).reqs /\ RowOf(k).errs + Zero[k] = RowOf(k).errs
        /\ RowOf(k).blind + Zero[k] = RowOf(k).blind
    BY <2>1 DEF RowType, Zero
  <2>3. Plus(RowOf(k).today, NoTokens[k]) = RowOf(k).today
    BY <2>1, PlusNone DEF RowType, NoTokens
  <2>4. life'[k] = RowOf(k).total
    BY DEF RowOf
  <2>5. RowOf(k)' = [reqs |-> RowOf(k).reqs + Zero[k], errs |-> RowOf(k).errs + Zero[k],
                     blind |-> RowOf(k).blind + Zero[k], today |-> Plus(RowOf(k).today, NoTokens[k]),
                     total |-> life'[k]]
    BY <1>2, CountRow DEF Roll
  <2> QED
    BY <2>1, <2>2, <2>3, <2>4, <2>5 DEF RowType
<1>3. ASSUME NEW k \in Key PROVE RowOf(k)' = RowOf(k)
  BY <1>1, <1>2
<1> QED
  BY <1>3 DEF CountersTell

LEMMA SeenRequest ==
  ASSUME CountersOK, CountersTell, NEW k \in Key, See(k, "reqs"),
         Count(One(k), Zero, NoTokens, Zero), UNCHANGED life
  PROVE  CountersTell'
<1>1. seen \in [Key -> RowType] /\ \A x \in Key : seen[x] = RowOf(x)
  BY RowOfType DEF CountersTell
<1>2. \A x \in Key : seen'[x] = IF x = k THEN [seen[k] EXCEPT !.reqs = @ + 1] ELSE seen[x]
  BY <1>1 DEF See
<1>3. seen' = [x \in Key |-> seen'[x]]
  BY <1>1 DEF See
<1>4. ASSUME NEW x \in Key PROVE RowOf(x)' = seen'[x]
  <2>1. seen[x] = RowOf(x) /\ seen[x] \in RowType
    BY <1>1
  <2>2. RowOf(x)' = [reqs |-> RowOf(x).reqs + One(k)[x], errs |-> RowOf(x).errs + Zero[x],
                     blind |-> RowOf(x).blind + Zero[x], today |-> Plus(RowOf(x).today, NoTokens[x]),
                     total |-> life'[x]]
    BY CountRow
  <2>3. Plus(RowOf(x).today, NoTokens[x]) = RowOf(x).today
    BY <2>1, PlusNone DEF RowType, NoTokens
  <2>4. life'[x] = RowOf(x).total
    BY DEF RowOf
  <2>5. Zero[x] = 0 /\ One(k)[x] = IF x = k THEN 1 ELSE 0
    BY DEF Zero, One
  <2> HIDE DEF RowOf
  <2>6. RowOf(x)' = IF x = k THEN [seen[k] EXCEPT !.reqs = @ + 1] ELSE seen[x]
    BY <2>1, <2>2, <2>3, <2>4, <2>5 DEF RowType
  <2> QED
    BY <1>2, <2>6
<1> QED
  BY <1>3, <1>4 DEF CountersTell

LEMMA SeenError ==
  ASSUME CountersOK, CountersTell, NEW k \in Key, See(k, "errs"),
         Count(Zero, One(k), NoTokens, Zero), UNCHANGED life
  PROVE  CountersTell'
<1>1. seen \in [Key -> RowType] /\ \A x \in Key : seen[x] = RowOf(x)
  BY RowOfType DEF CountersTell
<1>2. \A x \in Key : seen'[x] = IF x = k THEN [seen[k] EXCEPT !.errs = @ + 1] ELSE seen[x]
  BY <1>1 DEF See
<1>3. seen' = [x \in Key |-> seen'[x]]
  BY <1>1 DEF See
<1>4. ASSUME NEW x \in Key PROVE RowOf(x)' = seen'[x]
  <2>1. seen[x] = RowOf(x) /\ seen[x] \in RowType
    BY <1>1
  <2>2. RowOf(x)' = [reqs |-> RowOf(x).reqs + Zero[x], errs |-> RowOf(x).errs + One(k)[x],
                     blind |-> RowOf(x).blind + Zero[x], today |-> Plus(RowOf(x).today, NoTokens[x]),
                     total |-> life'[x]]
    BY CountRow
  <2>3. Plus(RowOf(x).today, NoTokens[x]) = RowOf(x).today
    BY <2>1, PlusNone DEF RowType, NoTokens
  <2>4. life'[x] = RowOf(x).total
    BY DEF RowOf
  <2>5. Zero[x] = 0 /\ One(k)[x] = IF x = k THEN 1 ELSE 0
    BY DEF Zero, One
  <2> HIDE DEF RowOf
  <2>6. RowOf(x)' = IF x = k THEN [seen[k] EXCEPT !.errs = @ + 1] ELSE seen[x]
    BY <2>1, <2>2, <2>3, <2>4, <2>5 DEF RowType
  <2> QED
    BY <1>2, <2>6
<1> QED
  BY <1>3, <1>4 DEF CountersTell

LEMMA SeenBlind ==
  ASSUME CountersOK, CountersTell, NEW k \in Key, See(k, "blind"),
         Count(Zero, Zero, NoTokens, One(k)), UNCHANGED life
  PROVE  CountersTell'
<1>1. seen \in [Key -> RowType] /\ \A x \in Key : seen[x] = RowOf(x)
  BY RowOfType DEF CountersTell
<1>2. \A x \in Key : seen'[x] = IF x = k THEN [seen[k] EXCEPT !.blind = @ + 1] ELSE seen[x]
  BY <1>1 DEF See
<1>3. seen' = [x \in Key |-> seen'[x]]
  BY <1>1 DEF See
<1>4. ASSUME NEW x \in Key PROVE RowOf(x)' = seen'[x]
  <2>1. seen[x] = RowOf(x) /\ seen[x] \in RowType
    BY <1>1
  <2>2. RowOf(x)' = [reqs |-> RowOf(x).reqs + Zero[x], errs |-> RowOf(x).errs + Zero[x],
                     blind |-> RowOf(x).blind + One(k)[x], today |-> Plus(RowOf(x).today, NoTokens[x]),
                     total |-> life'[x]]
    BY CountRow
  <2>3. Plus(RowOf(x).today, NoTokens[x]) = RowOf(x).today
    BY <2>1, PlusNone DEF RowType, NoTokens
  <2>4. life'[x] = RowOf(x).total
    BY DEF RowOf
  <2>5. Zero[x] = 0 /\ One(k)[x] = IF x = k THEN 1 ELSE 0
    BY DEF Zero, One
  <2> HIDE DEF RowOf
  <2>6. RowOf(x)' = IF x = k THEN [seen[k] EXCEPT !.blind = @ + 1] ELSE seen[x]
    BY <2>1, <2>2, <2>3, <2>4, <2>5 DEF RowType
  <2> QED
    BY <1>2, <2>6
<1> QED
  BY <1>3, <1>4 DEF CountersTell

LEMMA RowUse ==
  ASSUME NEW q \in RowType, NEW a \in Spend, NEW b \in Spend
  PROVE [q EXCEPT !.today = a, !.total = b] =
            [reqs |-> q.reqs, errs |-> q.errs, blind |-> q.blind, today |-> a, total |-> b]
<1>1. PICK e : e = [q EXCEPT !.today = a, !.total = b]
  OBVIOUS
<1>2. e \in RowType
  BY <1>1 DEF RowType
<1>3. e.reqs = q.reqs /\ e.errs = q.errs /\ e.blind = q.blind /\ e.today = a /\ e.total = b
  BY <1>1 DEF RowType
<1>4. e = [reqs |-> e.reqs, errs |-> e.errs, blind |-> e.blind, today |-> e.today, total |-> e.total]
  BY <1>2 DEF RowType
<1> QED
  BY <1>1, <1>3, <1>4

LEMMA SeenUse ==
  ASSUME CountersOK, CountersTell, NEW k \in Key, NEW s \in Spend, SeeUse(k, s),
         Count(Zero, Zero, [NoTokens EXCEPT ![k] = s], Zero), life' = [life EXCEPT ![k] = Plus(@, s)]
  PROVE  CountersTell'
<1>1. seen \in [Key -> RowType] /\ \A x \in Key : seen[x] = RowOf(x)
  BY RowOfType DEF CountersTell
<1>2. \A x \in Key : seen'[x] = IF x = k THEN [seen[k] EXCEPT !.today = Plus(@, s), !.total = Plus(@, s)]
                                ELSE seen[x]
  BY <1>1 DEF SeeUse
<1>3. seen' = [x \in Key |-> seen'[x]]
  BY <1>1 DEF SeeUse
<1>4. ASSUME NEW x \in Key PROVE RowOf(x)' = seen'[x]
  <2>1. seen[x] = RowOf(x) /\ seen[x] \in RowType
    BY <1>1
  <2>2. PICK t : t = [NoTokens EXCEPT ![k] = s]
    OBVIOUS
  <2>3. Count(Zero, Zero, t, Zero)
    BY <2>2
  <2>4. RowOf(x)' = [reqs |-> RowOf(x).reqs + Zero[x], errs |-> RowOf(x).errs + Zero[x],
                     blind |-> RowOf(x).blind + Zero[x], today |-> Plus(RowOf(x).today, t[x]),
                     total |-> life'[x]]
    BY <2>3, CountRow
  <2>5. t[x] = IF x = k THEN s ELSE None
    BY <2>2 DEF NoTokens
  <2>6. life'[x] = IF x = k THEN Plus(RowOf(x).total, s) ELSE RowOf(x).total
    BY DEF RowOf, CountersOK
  <2>7. Zero[x] = 0
    BY DEF Zero
  <2>8. Plus(RowOf(x).today, None) = RowOf(x).today
    BY <2>1, PlusNone DEF RowType
  <2>9. Plus(RowOf(x).today, t[x]) = IF x = k THEN Plus(RowOf(x).today, s) ELSE RowOf(x).today
    BY <2>5, <2>8
  <2>10. PICK a \in Spend, b \in Spend : a = Plus(seen[k].today, s) /\ b = Plus(seen[k].total, s)
    <3>1. seen[k] \in RowType
      BY <1>1
    <3> QED
      BY <3>1, PlusSpend DEF RowType
  <2> HIDE DEF RowOf, Plus
  <2>11. RowOf(x)' = IF x = k THEN [seen[k] EXCEPT !.today = a, !.total = b] ELSE seen[x]
    <3>1. PICK q \in RowType : q = seen[x] /\ q = RowOf(x)
      BY <2>1
    <3>2. q.reqs + 0 = q.reqs /\ q.errs + 0 = q.errs /\ q.blind + 0 = q.blind
      BY DEF RowType
    <3>3. RowOf(x)' = [reqs |-> q.reqs, errs |-> q.errs, blind |-> q.blind,
                       today |-> IF x = k THEN a ELSE q.today, total |-> IF x = k THEN b ELSE q.total]
      BY <2>4, <2>6, <2>7, <2>9, <2>10, <3>1, <3>2
    <3>4. x = k => [q EXCEPT !.today = a, !.total = b] =
            [reqs |-> q.reqs, errs |-> q.errs, blind |-> q.blind, today |-> a, total |-> b]
      BY RowUse
    <3>5. q = [reqs |-> q.reqs, errs |-> q.errs, blind |-> q.blind, today |-> q.today, total |-> q.total]
      BY DEF RowType
    <3>6. CASE x = k
      <4>1. RowOf(x)' = [q EXCEPT !.today = a, !.total = b]
        BY <3>3, <3>4, <3>6
      <4> QED
        BY <3>1, <3>6, <4>1
    <3>7. CASE x # k
      <4>1. RowOf(x)' = q
        BY <3>3, <3>5, <3>7
      <4> QED
        BY <3>1, <3>7, <4>1
    <3> QED
      BY <3>6, <3>7
  <2>12. RowOf(x)' = IF x = k THEN [seen[k] EXCEPT !.today = Plus(@, s), !.total = Plus(@, s)] ELSE seen[x]
    BY <2>10, <2>11
  <2> QED
    BY <1>2, <2>12
<1> QED
  BY <1>3, <1>4 DEF CountersTell

LEMMA SeenCharge ==
  ASSUME CountersOK, CountersTell, NEW k \in Key, NEW cost \in SUBSET Spend, Charge(k, cost)
  PROVE  CountersTell'
  BY SeenBlind, SeenUse DEF Charge

\* At midnight the history forgets what was today's, as the counters will at the next roll.
LEMMA SeenMidnight ==
  ASSUME CountersOK, CountersTell, Midnight
  PROVE  CountersTell'
<1>1. ASSUME NEW k \in Key PROVE RowOf(k)' = [Row EXCEPT !.total = seen[k].total]
  <2>1. due' = TRUE /\ life' = life /\ seen[k].total = life[k]
    BY DEF Midnight, CountersTell, RowOf
  <2>2. RowOf(k)' = [reqs |-> 0, errs |-> 0, blind |-> 0, today |-> None, total |-> life[k]]
    BY <2>1 DEF RowOf, Rolled
  <2> QED
    BY <2>1, <2>2 DEF Row
<1> QED
  BY <1>1 DEF CountersTell, Midnight

LEMMA TellingKept ==
  Inv /\ CountersTell /\ [Next]_vars => CountersTell'
<1> SUFFICES ASSUME Inv, CountersTell, [Next]_vars PROVE CountersTell'
  OBVIOUS
<1>1. CountersOK /\ \A c \in Caller : req[c].key \in Key
  BY DEF Inv, RequestsOK, ReqOK
<1>2. ASSUME NEW c \in Caller, Request(c)
      PROVE  CountersTell'
  <2>1. CASE (\E b \in Asked : Start(c, b)) \/ (\E k \in Key : Ask(c, k)) \/ Skip(c) \/ GiveUp(c)
    BY <1>1, <2>1, RollTells DEF Start, Ask, Skip, GiveUp
  <2>2. CASE Unmeter(c) \/ Abandon(c) \/ \E p \in Chunk : Pump(c, p)
    BY <1>1, <2>2, RollTells DEF Unmeter, Abandon, Pump, counts
  <2>3. CASE \E d \in Sample, u \in {{}} \cup {{o} : o \in Object} : Answer(c, d, u)
    BY <1>1, <2>3, SeenRequest DEF Answer
  <2>4. CASE Sour(c) \/ \E mine, benched \in BOOLEAN : Fail(c, mine, benched)
    BY <1>1, <2>4, SeenError DEF Sour, Fail
  <2>5. CASE \E cut \in BOOLEAN : Relayed(c, cut)
    BY <1>1, <2>5, CostSpend, SeenCharge DEF Relayed
  <2> QED
    BY <1>2, <2>1, <2>2, <2>3, <2>4, <2>5 DEF Request
<1>3. CASE (\E k \in Key : Turn(k)) \/ Look \/ UNCHANGED vars
  BY <1>1, <1>3, RollTells DEF Turn, Look, vars, counts
<1>4. CASE Midnight
  BY <1>1, <1>4, SeenMidnight
<1> QED
  BY <1>2, <1>3, <1>4 DEF Next

LEMMA TellingFirst ==
  Init => CountersTell
<1> SUFFICES ASSUME Init, NEW k \in Key PROVE RowOf(k) = Row
  BY DEF Init, CountersTell
<1> QED
  BY DEF Init, RowOf, Rolled, Row, Zero, NoTokens

-----------------------------------------------------------------------------
(* The bill.  It is a fold: a function of all sets of places.              *)

LEMMA GreatestOf ==
  ASSUME NEW n \in Nat, NEW S \in SUBSET (1..n), S # {}
  PROVE  Max(S) \in S /\ \A y \in S : Max(S) >= y
<1>1. PICK T : T = {t \in 0..n : n - t \in S}
  OBVIOUS
<1>2. T \in SUBSET Nat /\ T # {}
  <2>1. PICK x : x \in S /\ x \in 1..n
    OBVIOUS
  <2>2. n - x \in 0..n /\ n - (n - x) = x
    BY <2>1
  <2>3. n - x \in T
    BY <1>1, <2>1, <2>2
  <2> QED
    BY <1>1, <2>3
<1>3. PICK m \in T : \A t \in T : m <= t
  BY <1>2, LeastNatural
<1>4. PICK x : x = n - m /\ x \in S /\ x \in 1..n /\ m \in 0..n
  BY <1>1
<1>5. ASSUME NEW y \in S PROVE x >= y
  <2>1. y \in 1..n
    OBVIOUS
  <2>2. n - y \in 0..n /\ n - (n - y) = y
    BY <2>1
  <2>3. n - y \in T
    BY <1>1, <2>2
  <2> QED
    BY <1>3, <1>4, <2>1, <2>2, <2>3
<1> QED
  BY <1>4, <1>5, Zenon DEF Max

LEMMA GreatestOfSegment ==
  ASSUME NEW n \in Nat \ {0}
  PROVE  Max(1..n) = n /\ (1..n) \ {Max(1..n)} = 1..n - 1
<1>1. 1..n # {} /\ n \in 1..n
  OBVIOUS
<1>2. PICK m : m = Max(1..n)
  OBVIOUS
<1>3. m \in 1..n /\ \A y \in 1..n : m >= y
  BY <1>1, <1>2, GreatestOf
<1>4. m = n
  BY <1>1, <1>3
<1> QED
  BY <1>2, <1>4

Unbilled == [keys |-> <<>>, provs |-> <<>>, all |-> Row]

BillStep(f, s) == IF s = {} THEN Unbilled ELSE AddKey(f[s \ {Max(s)}], Slots[Max(s)])
BillTable == CHOOSE f : f = [s \in SUBSET DOMAIN Slots |-> BillStep(f, s)]

LEMMA BillIsTable == Bill = BillTable[DOMAIN Slots]
BY Zenon DEF Bill, FoldLeft, MapThenFoldSet, BillTable, BillStep, Unbilled

LEMMA BillTableExists ==
  BillTable = [s \in SUBSET DOMAIN Slots |-> BillStep(BillTable, s)]
<1>1. PICK D : D = DOMAIN Slots
  OBVIOUS
<1>2. IsFiniteSet(D) /\ \A s \in SUBSET D : s # {} => Max(s) \in s
  <2>1. Len(Slots) \in Nat /\ D = 1..Len(Slots)
    BY <1>1, LedgerAssumption
  <2>2. IsFiniteSet(D)
    BY <2>1, FS_Interval
  <2>3. ASSUME NEW s \in SUBSET D, s # {} PROVE Max(s) \in s
    BY <2>1, <2>3, GreatestOf
  <2> QED
    BY <2>2, <2>3
<1> DEFINE Good(n) == \E f : f = [s \in Small(D, n) |-> BillStep(f, s)]
           Bad == {n \in Nat : ~Good(n)}
<1>3. SUFFICES Bad = {}
  <2>1. Good(Cardinality(D))
    BY <1>2, <1>3, SmallFacts
  <2>2. \E f : f = [s \in SUBSET D |-> BillStep(f, s)]
    BY <1>2, <2>1, SmallFacts
  <2> QED
    BY <1>1, <2>2, Zenon DEF BillTable
<1>4. SUFFICES ASSUME Bad # {} PROVE FALSE
  OBVIOUS
<1>5. PICK m \in Bad : \A n \in Bad : m <= n
  BY <1>4, LeastNatural
<1>6. m \in Nat /\ ~Good(m)
  OBVIOUS
<1>7. CASE m = 0
  <2> DEFINE f == [s \in {{}} |-> Unbilled]
  <2>1. f = [s \in Small(D, 0) |-> BillStep(f, s)]
    BY <1>2, SmallFacts DEF BillStep
  <2> QED
    BY <1>6, <1>7, <2>1
<1>8. CASE m # 0
  <2>1. m - 1 \in Nat /\ Good(m - 1)
    BY <1>5, <1>6, <1>8
  <2>2. PICK f : f = [s \in Small(D, m - 1) |-> BillStep(f, s)]
    BY <2>1
  <2> DEFINE g == [s \in Small(D, m) |-> BillStep(f, s)]
  <2>3. \A s \in Small(D, m - 1) : s \in Small(D, m) /\ g[s] = f[s]
    <3>1. \A s \in Small(D, m - 1) : s \in Small(D, m)
      <4>1. \A s \in SUBSET D : Cardinality(s) \in Nat
        BY <1>2, FS_Subset, FS_CardinalityType
      <4> QED
        BY <1>6, <4>1 DEF Small
    <3> QED
      BY <2>2, <3>1
  <2>4. \A s \in Small(D, m) : BillStep(f, s) = BillStep(g, s)
    <3> SUFFICES ASSUME NEW s \in Small(D, m), s # {}
                 PROVE  f[s \ {Max(s)}] = g[s \ {Max(s)}]
      BY DEF BillStep
    <3>1. Max(s) \in s
      BY <1>2 DEF Small
    <3>2. s \ {Max(s)} \in Small(D, m - 1)
      BY <1>2, <1>6, <1>8, <3>1, SmallFacts
    <3> QED
      BY <2>3, <3>2
  <2>5. g = [s \in Small(D, m) |-> BillStep(g, s)]
    <3> HIDE DEF g
    <3>1. g = [s \in Small(D, m) |-> BillStep(f, s)]
      BY DEF g
    <3> QED
      BY <2>4, <3>1
  <2> QED
    BY <1>6, <2>5
<1> QED
  BY <1>7, <1>8

\* The bill of the first n keys.
BillAt(n) == BillTable[1..n]

LEMMA BillUnfolds ==
  /\ BillAt(0) = Unbilled /\ BillAt(Len(Slots)) = Bill
  /\ \A n \in 1..Len(Slots) : BillAt(n) = AddKey(BillAt(n - 1), Slots[n])
<1>1. DOMAIN Slots = 1..Len(Slots) /\ Len(Slots) \in Nat
  BY LedgerAssumption
<1>2. \A s \in SUBSET DOMAIN Slots : BillTable[s] = BillStep(BillTable, s)
  <2>1. \A f : f = [s \in SUBSET DOMAIN Slots |-> BillStep(BillTable, s)] =>
          \A s \in SUBSET DOMAIN Slots : f[s] = BillStep(BillTable, s)
    OBVIOUS
  <2> QED
    BY <2>1, BillTableExists, Zenon
<1>3. BillAt(0) = Unbilled
  <2>1. {} \in SUBSET DOMAIN Slots /\ 1..0 = {}
    OBVIOUS
  <2> QED
    BY <1>2, <2>1 DEF BillAt, BillStep
<1>4. BillAt(Len(Slots)) = Bill
  BY <1>1, BillIsTable DEF BillAt
<1>5. ASSUME NEW n \in 1..Len(Slots)
      PROVE  BillAt(n) = AddKey(BillAt(n - 1), Slots[n])
  <2>1. 1..n \in SUBSET DOMAIN Slots /\ 1..n # {} /\ n \in Nat \ {0}
    BY <1>1
  <2>2. BillTable[1..n] = BillStep(BillTable, 1..n)
    BY <1>2, <2>1
  <2>3. Max(1..n) = n /\ (1..n) \ {Max(1..n)} = 1..n - 1
    BY <2>1, GreatestOfSegment
  <2> QED
    BY <2>1, <2>2, <2>3, Zenon DEF BillAt, BillStep
<1> QED
  BY <1>3, <1>4, <1>5

-----------------------------------------------------------------------------
(* The rows of the bill.                                                   *)

\* A row to which what happened to one more key is added.
RowPlus(r, q) ==
  [reqs |-> r.reqs + q.reqs, errs |-> r.errs + q.errs, blind |-> r.blind + q.blind,
   today |-> Plus(r.today, q.today), total |-> Plus(r.total, q.total)]

LEMMA RowTyped == Row \in RowType /\ \A q \in RowType : RowPlus(Row, q) = q
<1>1. Row \in RowType
  BY PlusNone DEF Row, RowType
<1>2. ASSUME NEW q \in RowType PROVE RowPlus(Row, q) = q
  <2>1. Plus(None, q.today) = q.today /\ Plus(None, q.total) = q.total
    BY PlusNone DEF RowType
  <2>2. 0 + q.reqs = q.reqs /\ 0 + q.errs = q.errs /\ 0 + q.blind = q.blind
    BY DEF RowType
  <2>3. RowPlus(Row, q) = [reqs |-> 0 + q.reqs, errs |-> 0 + q.errs, blind |-> 0 + q.blind,
                           today |-> Plus(None, q.today), total |-> Plus(None, q.total)]
    BY DEF RowPlus, Row
  <2>4. q = [reqs |-> q.reqs, errs |-> q.errs, blind |-> q.blind, today |-> q.today, total |-> q.total]
    BY DEF RowType
  <2> QED
    BY <2>1, <2>2, <2>3, <2>4
<1> QED
  BY <1>1, <1>2

LEMMA AddToIsRowPlus ==
  ASSUME CountersTell, NEW row, NEW k \in Key
  PROVE  AddTo(row, k) = RowPlus(row, seen[k])
<1>1. PICK q : q = seen[k] /\ q = RowOf(k)
  BY DEF CountersTell
<1>2. /\ q.reqs = Rolled(reqs, 0)[k] /\ q.errs = Rolled(errs, 0)[k] /\ q.blind = Rolled(blind, 0)[k]
      /\ q.today = Rolled(toks, None)[k] /\ q.total = life[k]
  BY <1>1 DEF RowOf
<1> HIDE DEF Rolled, Plus
<1> QED
  BY <1>1, <1>2 DEF AddTo, RowPlus

LEMMA SeenTyped ==
  ASSUME CountersOK, CountersTell
  PROVE  seen \in [Key -> RowType]
  BY RowOfType DEF CountersTell

LEMMA SumOfWith ==
  ASSUME NEW h \in [Key -> Nat], NEW K \in SUBSET Key, NEW k \in Key \ K
  PROVE  Total(h, K) \in Nat /\ Total(h, K \cup {k}) = Total(h, K) + h[k]
<1>1. IsFiniteSet(K)
  BY KeysFinite, FS_Subset
<1>2. \A x \in Key \ K : Total(h, K) \in Nat /\ Total(h, K \cup {x}) = Total(h, K) + h[x]
  BY <1>1, TotalWith, Zenon
<1> QED
  BY <1>2, Zenon

LEMMA NumbersWith ==
  ASSUME seen \in [Key -> RowType], NEW K \in SUBSET Key, NEW k \in Key \ K
  PROVE  /\ SumOf("reqs", K) \in Nat /\ SumOf("reqs", K \cup {k}) = SumOf("reqs", K) + seen[k].reqs
         /\ SumOf("errs", K) \in Nat /\ SumOf("errs", K \cup {k}) = SumOf("errs", K) + seen[k].errs
         /\ SumOf("blind", K) \in Nat /\ SumOf("blind", K \cup {k}) = SumOf("blind", K) + seen[k].blind
<1>1. \A x \in Key : seen[x].reqs \in Nat /\ seen[x].errs \in Nat /\ seen[x].blind \in Nat
  BY DEF RowType
<1>2. PICK a : a = [x \in Key |-> seen[x].reqs]
  OBVIOUS
<1>3. PICK b : b = [x \in Key |-> seen[x].errs]
  OBVIOUS
<1>4. PICK d : d = [x \in Key |-> seen[x].blind]
  OBVIOUS
<1>5. a \in [Key -> Nat] /\ b \in [Key -> Nat] /\ d \in [Key -> Nat]
  BY <1>1, <1>2, <1>3, <1>4
<1>6. \A S : SumOf("reqs", S) = Total(a, S) /\ SumOf("errs", S) = Total(b, S) /\ SumOf("blind", S) = Total(d, S)
  BY <1>2, <1>3, <1>4, Zenon DEF SumOf
<1>7. a[k] = seen[k].reqs /\ b[k] = seen[k].errs /\ d[k] = seen[k].blind
  BY <1>2, <1>3, <1>4
<1>8. /\ Total(a, K) \in Nat /\ Total(a, K \cup {k}) = Total(a, K) + a[k]
      /\ Total(b, K) \in Nat /\ Total(b, K \cup {k}) = Total(b, K) + b[k]
      /\ Total(d, K) \in Nat /\ Total(d, K \cup {k}) = Total(d, K) + d[k]
  BY <1>5, SumOfWith
<1> QED
  BY <1>6, <1>7, <1>8

LEMMA SpendWith ==
  ASSUME seen \in [Key -> RowType], NEW K \in SUBSET Key, NEW k \in Key \ K, NEW what \in {"today", "total"}
  PROVE  /\ SumOfSpend(what, K) \in Spend
         /\ SumOfSpend(what, K \cup {k}) = Plus(SumOfSpend(what, K), seen[k][what])
<1>1. \A x \in Key : seen[x][what] \in Spend
  BY DEF RowType
<1>2. PICK a : a = [x \in Key |-> seen[x][what].in]
  OBVIOUS
<1>3. PICK b : b = [x \in Key |-> seen[x][what].out]
  OBVIOUS
<1>4. PICK d : d = [x \in Key |-> seen[x][what].total]
  OBVIOUS
<1>5. a \in [Key -> Nat] /\ b \in [Key -> Nat] /\ d \in [Key -> Nat]
  BY <1>1, <1>2, <1>3, <1>4 DEF Spend
<1>6. \A S : SumOfSpend(what, S) = [in |-> Total(a, S), out |-> Total(b, S), total |-> Total(d, S)]
  BY <1>2, <1>3, <1>4, Zenon DEF SumOfSpend
<1>7. a[k] = seen[k][what].in /\ b[k] = seen[k][what].out /\ d[k] = seen[k][what].total
  BY <1>2, <1>3, <1>4
<1>8. /\ Total(a, K) \in Nat /\ Total(a, K \cup {k}) = Total(a, K) + a[k]
      /\ Total(b, K) \in Nat /\ Total(b, K \cup {k}) = Total(b, K) + b[k]
      /\ Total(d, K) \in Nat /\ Total(d, K \cup {k}) = Total(d, K) + d[k]
  BY <1>5, SumOfWith
<1> QED
  BY <1>6, <1>7, <1>8 DEF Plus, Spend

\* The sums of more keys are the sums and what happened to the added one.
LEMMA HappenedWith ==
  ASSUME seen \in [Key -> RowType], NEW K \in SUBSET Key, NEW k \in Key \ K
  PROVE  /\ Happened(K) \in RowType
         /\ RowPlus(Happened(K), seen[k]) = Happened(K \cup {k})
<1>1. Happened(K) \in RowType
  BY NumbersWith, SpendWith DEF Happened, RowType
<1>2. PICK q : q = seen[k]
  OBVIOUS
<1>3. q["today"] = q.today /\ q["total"] = q.total
  OBVIOUS
<1>4. PICK M : M = K \cup {k}
  OBVIOUS
<1>5. /\ SumOf("reqs", M) = SumOf("reqs", K) + q.reqs /\ SumOf("errs", M) = SumOf("errs", K) + q.errs
      /\ SumOf("blind", M) = SumOf("blind", K) + q.blind
      /\ SumOfSpend("today", M) = Plus(SumOfSpend("today", K), q.today)
      /\ SumOfSpend("total", M) = Plus(SumOfSpend("total", K), q.total)
  BY <1>2, <1>3, <1>4, NumbersWith, SpendWith
<1> HIDE DEF SumOf, SumOfSpend, Plus
<1>6. RowPlus(Happened(K), q) = Happened(M)
  BY <1>5 DEF RowPlus, Happened
<1> QED
  BY <1>1, <1>2, <1>4, <1>6

LEMMA HappenedNone == Happened({}) = Row
  BY TotalOfNone DEF Happened, SumOf, SumOfSpend, Row, None

LEMMA HappenedTyped ==
  ASSUME seen \in [Key -> RowType], NEW K \in SUBSET Key
  PROVE  Happened(K) \in RowType
<1>1. CASE K = Key
  <2>1. CASE Key = {}
    BY <1>1, <2>1, HappenedNone, RowTyped
  <2>2. CASE Key # {}
    <3>1. PICK k : k \in Key
      BY <2>2
    <3>2. K = (Key \ {k}) \cup {k} /\ Key \ {k} \in SUBSET Key /\ k \in Key \ (Key \ {k})
      BY <1>1, <3>1
    <3>3. Happened(K) = RowPlus(Happened(Key \ {k}), seen[k]) /\ Happened(Key \ {k}) \in RowType
      BY <3>2, HappenedWith
    <3>4. \A r, q \in RowType : RowPlus(r, q) \in RowType
      BY PlusSpend DEF RowPlus, RowType
    <3> QED
      BY <3>1, <3>3, <3>4
  <2> QED
    BY <2>1, <2>2
<1>2. CASE K # Key
  BY <1>2, HappenedWith
<1> QED
  BY <1>1, <1>2

KeyRow == [key : Key, row : RowType]
ProvRow == [prov : Prov, row : RowType]

\* The first n keys, and those of them that are of provider p.
First(n) == {Slots[i] : i \in 1..n}
Of(n, p) == {k \in First(n) : ProvOf[k] = p}

\* The rows of the first n keys, of their providers, and the last row.
KeysOK(ks, n) ==
  /\ ks \in Seq(KeyRow) /\ Len(ks) = n
  /\ \A i \in 1..n : ks[i].key = Slots[i] /\ ks[i].row = seen[Slots[i]]

ProvsOK(ps, n) ==
  /\ ps \in Seq(ProvRow)
  /\ \A i, j \in 1..Len(ps) : ps[i].prov = ps[j].prov => i = j
  /\ \A i \in 1..Len(ps) : ps[i].row = Happened(Of(n, ps[i].prov))

Covers(ps, n) ==
  /\ \A i \in 1..n : \E j \in 1..Len(ps) : ps[j].prov = ProvOf[Slots[i]]
  /\ \A j \in 1..Len(ps) : \E i \in 1..n : ps[j].prov = ProvOf[Slots[i]]
  /\ n # 0 => Len(ps) # 0 /\ ps[Len(ps)].prov = ProvOf[Slots[n]]

BillOK(b, n) ==
  KeysOK(b.keys, n) /\ ProvsOK(b.provs, n) /\ Covers(b.provs, n) /\ b.all = Happened(First(n))

LEMMA FirstNext ==
  ASSUME NEW n \in 1..Len(Slots)
  PROVE  /\ First(n - 1) \in SUBSET Key /\ Slots[n] \in Key \ First(n - 1)
         /\ First(n) = First(n - 1) \cup {Slots[n]}
<1>1. Len(Slots) \in Nat /\ DOMAIN Slots = 1..Len(Slots) /\ \A i \in 1..Len(Slots) : Slots[i] \in Key
  BY LedgerAssumption
<1>2. n - 1 \in Nat /\ \A i \in 1..n : i \in 1..Len(Slots) /\ (i \in 1..n - 1 \/ i = n)
  BY <1>1
<1>3. \A i \in 1..n - 1 : i \in 1..n /\ i # n
  BY <1>2
<1>4. \A i \in 1..n - 1 : Slots[i] # Slots[n]
  BY <1>1, <1>2, <1>3, LedgerAssumption
<1>5. First(n - 1) \in SUBSET Key /\ Slots[n] \in Key \ First(n - 1)
  BY <1>1, <1>2, <1>3, <1>4 DEF First
<1>6. n \in 1..n
  BY <1>1
<1>7. First(n) = First(n - 1) \cup {Slots[n]}
  <2>1. ASSUME NEW x \in First(n) PROVE x \in First(n - 1) \cup {Slots[n]}
    BY <1>2 DEF First
  <2>2. ASSUME NEW x \in First(n - 1) \cup {Slots[n]} PROVE x \in First(n)
    BY <1>3, <1>6 DEF First
  <2> QED
    BY <2>1, <2>2
<1> QED
  BY <1>5, <1>7

LEMMA KeysNext ==
  ASSUME seen \in [Key -> RowType], CountersTell, NEW n \in 1..Len(Slots), NEW ks, KeysOK(ks, n - 1)
  PROVE  KeysOK(Append(ks, [key |-> Slots[n], row |-> AddTo(Row, Slots[n])]), n)
<1>1. PICK k : k = Slots[n] /\ k \in Key
  BY FirstNext
<1>2. AddTo(Row, k) = seen[k] /\ seen[k] \in RowType
  BY <1>1, AddToIsRowPlus, RowTyped
<1>3. PICK e : e = [key |-> k, row |-> seen[k]]
  OBVIOUS
<1>4. e \in KeyRow /\ e.key = k /\ e.row = seen[k]
  BY <1>1, <1>2, <1>3 DEF KeyRow
<1>5. PICK m : m = Append(ks, e)
  OBVIOUS
<1>6. n \in Nat /\ n - 1 \in Nat /\ Len(ks) = n - 1 /\ Len(ks) + 1 = n
      /\ \A i \in 1..n : i \in 1..n - 1 \/ i = n
  BY LedgerAssumption DEF KeysOK
<1>7. /\ m \in Seq(KeyRow) /\ Len(m) = n
      /\ \A i \in 1..n - 1 : m[i] = ks[i]
      /\ m[n] = e
  BY <1>4, <1>5, <1>6, AppendProperties DEF KeysOK
<1>8. KeysOK(m, n)
  BY <1>1, <1>4, <1>6, <1>7 DEF KeysOK
<1> QED
  BY <1>1, <1>2, <1>3, <1>5, <1>8

\* A provider that is opened has had no key: the keys of a provider stand together.
LEMMA ProvOpened ==
  ASSUME NEW n \in 1..Len(Slots), NEW ps, ProvsOK(ps, n - 1), Covers(ps, n - 1), NEW p, p = ProvOf[Slots[n]]
  PROVE  LET qs == OpenRow(ps, p)
         IN ProvsOK(qs, n - 1) /\ Covers(qs, n)
<1>1. n \in Nat /\ n - 1 \in Nat /\ Len(Slots) \in Nat /\ DOMAIN Slots = 1..Len(Slots)
      /\ \A i \in 1..n : i \in 1..Len(Slots) /\ (i \in 1..n - 1 \/ i = n)
  BY LedgerAssumption
<1>2. ps \in Seq(ProvRow) /\ Len(ps) \in Nat /\ (ps = <<>> <=> Len(ps) = 0)
  BY DEF ProvsOK
<1>3. CASE ps # <<>> /\ ps[Len(ps)].prov = p
  <2>1. OpenRow(ps, p) = ps
    BY <1>3 DEF OpenRow
  <2>2. Len(ps) \in 1..Len(ps)
    BY <1>2, <1>3
  <2>3. ASSUME NEW i \in 1..n PROVE \E j \in 1..Len(ps) : ps[j].prov = ProvOf[Slots[i]]
    <3>1. CASE i = n
      BY <1>3, <2>2, <3>1
    <3>2. CASE i \in 1..n - 1
      BY <3>2 DEF Covers
    <3> QED
      BY <1>1, <3>1, <3>2
  <2>4. ASSUME NEW j \in 1..Len(ps) PROVE \E i \in 1..n : ps[j].prov = ProvOf[Slots[i]]
    <3>1. PICK i \in 1..n - 1 : ps[j].prov = ProvOf[Slots[i]]
      BY DEF Covers
    <3>2. i \in 1..n
      BY <1>1
    <3> QED
      BY <3>1, <3>2
  <2>5. Covers(ps, n)
    BY <1>2, <1>3, <2>3, <2>4 DEF Covers
  <2> QED
    BY <2>1, <2>5
<1>4. CASE ~(ps # <<>> /\ ps[Len(ps)].prov = p)
  <2>1. PICK e : e = [prov |-> p, row |-> Row]
    OBVIOUS
  <2>2. e \in ProvRow /\ e.prov = p /\ e.row = Row
    <3>1. p \in Prov
      BY FirstNext, LedgerAssumption
    <3> QED
      BY <2>1, <3>1, RowTyped DEF ProvRow
  <2>3. PICK qs : qs = Append(ps, e)
    OBVIOUS
  <2>4. OpenRow(ps, p) = qs
    BY <1>4, <2>1, <2>3, Zenon DEF OpenRow
  <2>5. PICK m \in Nat : m = Len(ps)
    BY <1>2
  <2>6. /\ qs \in Seq(ProvRow) /\ Len(qs) = m + 1 /\ qs[m + 1] = e
        /\ \A i \in 1..m : qs[i] = ps[i]
    BY <1>2, <2>2, <2>3, <2>5, AppendProperties
  <2>7. \A i \in 1..m + 1 : i \in 1..m \/ i = m + 1
    OBVIOUS
  <2>8. \A i \in 1..n - 1 : ProvOf[Slots[i]] # p
    <3> SUFFICES ASSUME NEW i \in 1..n - 1, ProvOf[Slots[i]] = p PROVE FALSE
      OBVIOUS
    <3>1. i \in DOMAIN Slots /\ n \in DOMAIN Slots /\ n - 1 \in i..n /\ n - 1 # 0
      BY <1>1
    <3>2. ProvOf[Slots[n - 1]] = ProvOf[Slots[i]]
      BY <3>1, LedgerAssumption
    <3>3. Len(ps) # 0 /\ ps[Len(ps)].prov = p
      BY <3>1, <3>2 DEF Covers
    <3> QED
      BY <1>2, <1>4, <3>3
  <2>9. \A i \in 1..m : qs[i].prov # p
    <3> SUFFICES ASSUME NEW i \in 1..m, qs[i].prov = p PROVE FALSE
      OBVIOUS
    <3>1. ps[i].prov = p
      BY <2>6
    <3>2. PICK j \in 1..n - 1 : ps[i].prov = ProvOf[Slots[j]]
      BY <2>5 DEF Covers
    <3> QED
      BY <2>8, <3>1, <3>2
  <2>10. Of(n - 1, p) = {}
    BY <2>8 DEF Of, First
  <2>11. ProvsOK(qs, n - 1)
    <3>1. \A i, j \in 1..m + 1 : qs[i].prov = qs[j].prov => i = j
      BY <2>2, <2>5, <2>6, <2>7, <2>9 DEF ProvsOK
    <3>2. \A i \in 1..m + 1 : qs[i].row = Happened(Of(n - 1, qs[i].prov))
      BY <2>2, <2>5, <2>6, <2>7, <2>10, HappenedNone DEF ProvsOK
    <3> QED
      BY <2>6, <3>1, <3>2 DEF ProvsOK
  <2>12. Covers(qs, n)
    <3>1. ASSUME NEW i \in 1..n PROVE \E j \in 1..m + 1 : qs[j].prov = ProvOf[Slots[i]]
      <4>1. CASE i = n
        BY <2>2, <2>6, <4>1
      <4>2. CASE i \in 1..n - 1
        <5>1. PICK j \in 1..m : ps[j].prov = ProvOf[Slots[i]]
          BY <2>5, <4>2 DEF Covers
        <5> QED
          BY <2>6, <5>1
      <4> QED
        BY <1>1, <4>1, <4>2
    <3>2. ASSUME NEW j \in 1..m + 1 PROVE \E i \in 1..n : qs[j].prov = ProvOf[Slots[i]]
      <4>1. CASE j = m + 1
        BY <1>1, <2>2, <2>6, <4>1
      <4>2. CASE j \in 1..m
        <5>1. PICK i \in 1..n - 1 : ps[j].prov = ProvOf[Slots[i]]
          BY <2>5, <4>2 DEF Covers
        <5> QED
          BY <1>1, <2>6, <4>2, <5>1
      <4> QED
        BY <2>7, <4>1, <4>2
    <3> QED
      BY <2>2, <2>6, <3>1, <3>2 DEF Covers
  <2> QED
    BY <2>4, <2>11, <2>12
<1> QED
  BY <1>3, <1>4

\* Adding a key to the row of its provider, which is the last.
LEMMA ProvsNext ==
  ASSUME seen \in [Key -> RowType], CountersTell, NEW n \in 1..Len(Slots),
         NEW ps, ProvsOK(ps, n - 1), Covers(ps, n)
  PROVE  LET qs == [ps EXCEPT ![Len(ps)].row = AddTo(@, Slots[n])]
         IN ProvsOK(qs, n) /\ Covers(qs, n)
<1>1. PICK k : k = Slots[n] /\ k \in Key /\ k \notin First(n - 1) /\ First(n) = First(n - 1) \cup {k}
      /\ First(n - 1) \in SUBSET Key
  BY FirstNext
<1>2. PICK m \in Nat \ {0} : m = Len(ps)
  BY LedgerAssumption DEF ProvsOK, Covers
<1>3. ps \in Seq(ProvRow) /\ DOMAIN ps = 1..m /\ m \in 1..m /\ ps[m] \in ProvRow
  BY <1>2 DEF ProvsOK
<1>4. PICK p : p = ProvOf[k] /\ p = ps[m].prov
  <2>1. n # 0
    BY LedgerAssumption
  <2>2. ps[Len(ps)].prov = ProvOf[Slots[n]]
    BY <2>1 DEF Covers
  <2> QED
    BY <1>1, <1>2, <2>2
<1>5. AddTo(ps[m].row, k) = Happened(Of(n, p)) /\ Happened(Of(n, p)) \in RowType
  <2>1. Of(n - 1, p) \in SUBSET Key /\ k \in Key \ Of(n - 1, p)
    BY <1>1 DEF Of
  <2>2. Of(n, p) = Of(n - 1, p) \cup {k}
    BY <1>1, <1>4 DEF Of
  <2>3. ps[m].row = Happened(Of(n - 1, p))
    BY <1>2, <1>3, <1>4 DEF ProvsOK
  <2>4. AddTo(ps[m].row, k) = RowPlus(ps[m].row, seen[k])
    BY <1>1, AddToIsRowPlus
  <2>5. RowPlus(Happened(Of(n - 1, p)), seen[k]) = Happened(Of(n, p))
    BY <2>1, <2>2, HappenedWith
  <2>6. Happened(Of(n, p)) \in RowType
    <3>1. \A K \in SUBSET Key : Happened(K) \in RowType
      BY HappenedTyped
    <3>2. Of(n, p) \in SUBSET Key
      BY <1>1, <2>1, <2>2
    <3> QED
      BY <3>1, <3>2
  <2> QED
    BY <2>3, <2>4, <2>5, <2>6
<1>6. PICK w : w = Happened(Of(n, p))
  OBVIOUS
<1>7. PICK qs : qs = [ps EXCEPT ![m].row = w]
  OBVIOUS
<1>8. [ps EXCEPT ![Len(ps)].row = AddTo(@, Slots[n])] = qs
  BY <1>1, <1>2, <1>5, <1>6, <1>7
<1>9. qs \in Seq(ProvRow) /\ Len(qs) = m /\ \A i \in 1..m : qs[i].prov = ps[i].prov
      /\ qs[i].row = IF i = m THEN w ELSE ps[i].row
  <2>1. \A i \in 1..m : ps[i] \in ProvRow
    BY <1>3
  <2>2. ps \in [1..m -> ProvRow]
    BY <1>3, <2>1
  <2>3. qs \in [1..m -> ProvRow]
    BY <1>5, <1>6, <1>7, <2>2 DEF ProvRow
  <2>4. qs \in Seq(ProvRow) /\ Len(qs) = m
    BY <2>3
  <2> QED
    BY <1>7, <2>2, <2>4 DEF ProvRow
<1>10. ProvsOK(qs, n)
  <2>1. \A i, j \in 1..m : qs[i].prov = qs[j].prov => i = j
    BY <1>2, <1>9 DEF ProvsOK
  <2>2. ASSUME NEW i \in 1..m PROVE qs[i].row = Happened(Of(n, qs[i].prov))
    <3>1. CASE i = m
      BY <1>4, <1>6, <1>9, <3>1
    <3>2. CASE i # m
      <4>1. qs[i].prov = ps[i].prov /\ qs[i].row = Happened(Of(n - 1, ps[i].prov))
        BY <1>2, <1>9, <3>2 DEF ProvsOK
      <4>2. ps[i].prov # ProvOf[k]
        BY <1>2, <1>3, <1>4, <3>2 DEF ProvsOK
      <4>3. Of(n, ps[i].prov) = Of(n - 1, ps[i].prov)
        BY <1>1, <4>2 DEF Of
      <4> QED
        BY <4>1, <4>3
    <3> QED
      BY <3>1, <3>2
  <2> QED
    BY <1>9, <2>1, <2>2 DEF ProvsOK
<1>11. Covers(qs, n)
  <2>1. ASSUME NEW i \in 1..n PROVE \E j \in 1..m : qs[j].prov = ProvOf[Slots[i]]
    <3>1. PICK j \in 1..m : ps[j].prov = ProvOf[Slots[i]]
      BY <1>2 DEF Covers
    <3> QED
      BY <1>9, <3>1
  <2>2. ASSUME NEW j \in 1..m PROVE \E i \in 1..n : qs[j].prov = ProvOf[Slots[i]]
    <3>1. PICK i \in 1..n : ps[j].prov = ProvOf[Slots[i]]
      BY <1>2 DEF Covers
    <3> QED
      BY <1>9, <3>1
  <2>3. m # 0 /\ qs[m].prov = ProvOf[Slots[n]]
    BY <1>1, <1>3, <1>4, <1>9
  <2> QED
    BY <1>9, <2>1, <2>2, <2>3 DEF Covers
<1> QED
  BY <1>8, <1>10, <1>11

LEMMA BillNext ==
  ASSUME seen \in [Key -> RowType], CountersTell, NEW n \in 1..Len(Slots), NEW b, BillOK(b, n - 1)
  PROVE  BillOK(AddKey(b, Slots[n]), n)
<1>1. PICK k : k = Slots[n] /\ k \in Key
  BY FirstNext
<1>2. PICK ps : ps = OpenRow(b.provs, ProvOf[k])
  OBVIOUS
<1>3. PICK qs : qs = [ps EXCEPT ![Len(ps)].row = AddTo(@, k)]
  OBVIOUS
<1>4. PICK ks : ks = Append(b.keys, [key |-> k, row |-> AddTo(Row, k)])
  OBVIOUS
<1>5. PICK w : w = AddTo(b.all, k)
  OBVIOUS
<1>6. AddKey(b, k) = [keys |-> ks, provs |-> qs, all |-> w]
  BY <1>2, <1>3, <1>4, <1>5, Zenon DEF AddKey
<1>7. KeysOK(ks, n)
  BY <1>1, <1>4, KeysNext DEF BillOK
<1>8. ProvsOK(ps, n - 1) /\ Covers(ps, n)
  BY <1>1, <1>2, ProvOpened DEF BillOK
<1>9. ProvsOK(qs, n) /\ Covers(qs, n)
  BY <1>1, <1>3, <1>8, ProvsNext
<1>10. w = Happened(First(n))
  <2>1. w = RowPlus(Happened(First(n - 1)), seen[k])
    BY <1>1, <1>5, AddToIsRowPlus DEF BillOK
  <2> QED
    BY <1>1, <2>1, FirstNext, HappenedWith
<1>11. PICK c : c = AddKey(b, k)
  OBVIOUS
<1>12. c.keys = ks /\ c.provs = qs /\ c.all = w
  BY <1>6, <1>11
<1> QED
  BY <1>1, <1>7, <1>9, <1>10, <1>11, <1>12 DEF BillOK

LEMMA BillFirst == BillOK(Unbilled, 0)
<1>1. First(0) = {}
  BY DEF First
<1>2. <<>> \in Seq(KeyRow) /\ <<>> \in Seq(ProvRow) /\ Len(<<>>) = 0
  OBVIOUS
<1>3. Unbilled.keys = <<>> /\ Unbilled.provs = <<>> /\ Unbilled.all = Row
  BY DEF Unbilled
<1>4. KeysOK(<<>>, 0) /\ ProvsOK(<<>>, 0) /\ Covers(<<>>, 0)
  BY <1>2 DEF KeysOK, ProvsOK, Covers
<1> QED
  BY <1>1, <1>3, <1>4, HappenedNone DEF BillOK

LEMMA BillsOK ==
  ASSUME seen \in [Key -> RowType], CountersTell
  PROVE  BillOK(Bill, Len(Slots))
<1> DEFINE Bad == {n \in 0..Len(Slots) : ~BillOK(BillAt(n), n)}
<1>1. Len(Slots) \in Nat
  BY LedgerAssumption
<1>2. SUFFICES ASSUME Bad # {} PROVE FALSE
  BY <1>1, BillUnfolds
<1>3. PICK m \in Bad : \A n \in Bad : m <= n
  <2>1. Bad \in SUBSET Nat
    BY <1>1
  <2> HIDE DEF Bad
  <2> QED
    BY <1>2, <2>1, LeastNatural
<1>4. m \in 0..Len(Slots) /\ ~BillOK(BillAt(m), m)
  OBVIOUS
<1>5. m # 0
  BY <1>4, BillFirst, BillUnfolds
<1>6. m \in 1..Len(Slots) /\ m - 1 \in 0..Len(Slots) /\ ~(m <= m - 1)
  BY <1>1, <1>4, <1>5
<1>7. BillOK(BillAt(m - 1), m - 1)
  BY <1>3, <1>6
<1>8. BillOK(AddKey(BillAt(m - 1), Slots[m]), m)
  BY <1>6, <1>7, BillNext
<1>9. BillAt(m) = AddKey(BillAt(m - 1), Slots[m])
  BY <1>6, BillUnfolds
<1> QED
  BY <1>4, <1>8, <1>9

LEMMA BillTells ==
  ASSUME seen \in [Key -> RowType], CountersTell
  PROVE  BillIsToday
<1>1. BillOK(Bill, Len(Slots))
  BY BillsOK
<1>2. PICK n \in Nat : n = Len(Slots) /\ DOMAIN Slots = 1..n
  BY LedgerAssumption
<1>3. \A k \in Key : \E i \in 1..n : Slots[i] = k
  BY <1>2, LedgerAssumption
<1>4. \A i \in 1..n : Slots[i] \in Key
  BY <1>2, LedgerAssumption
<1>5. First(n) = Key
  BY <1>3, <1>4 DEF First
<1>6. /\ {Bill.keys[i].key : i \in DOMAIN Bill.keys} = Key
      /\ \A i \in DOMAIN Bill.keys : Bill.keys[i].row = seen[Bill.keys[i].key]
  <2>1. KeysOK(Bill.keys, n)
    BY <1>1, <1>2 DEF BillOK
  <2>2. DOMAIN Bill.keys = 1..n /\ \A i \in 1..n : Bill.keys[i].key = Slots[i] /\ Bill.keys[i].row = seen[Slots[i]]
    BY <2>1 DEF KeysOK
  <2> QED
    BY <1>3, <1>4, <2>2
<1>7. PICK ps : ps = Bill.provs
  OBVIOUS
<1>8. PICK m \in Nat : m = Len(ps) /\ DOMAIN ps = 1..m
  BY <1>1, <1>7 DEF BillOK, ProvsOK
<1>9. Len(ps) = Cardinality({ProvOf[k] : k \in Key})
  <2>1. PICK f : f = [i \in 1..m |-> ps[i].prov]
    OBVIOUS
  <2>2. PICK T : T = {ProvOf[k] : k \in Key}
    OBVIOUS
  <2>3. \A i, j \in 1..m : f[i] = f[j] => i = j
    BY <1>1, <1>7, <1>8, <2>1 DEF BillOK, ProvsOK
  <2>4. \A i \in 1..m : f[i] \in T
    BY <1>1, <1>2, <1>4, <1>7, <1>8, <2>1, <2>2 DEF BillOK, Covers
  <2>5. \A t \in T : \E i \in 1..m : f[i] = t
    <3> SUFFICES ASSUME NEW k \in Key PROVE \E i \in 1..m : f[i] = ProvOf[k]
      BY <2>2
    <3>1. PICK j \in 1..n : Slots[j] = k
      BY <1>3
    <3>2. PICK i \in 1..m : ps[i].prov = ProvOf[Slots[j]]
      BY <1>1, <1>2, <1>7, <1>8 DEF BillOK, Covers
    <3> QED
      BY <2>1, <3>1, <3>2
  <2>6. f \in Bijection(1..m, T)
    BY <2>1, <2>3, <2>4, <2>5 DEF Bijection, Injection, Surjection, IsInjective
  <2>7. IsFiniteSet(1..m) /\ Cardinality(1..m) = m
    BY FS_Interval
  <2>8. Cardinality(T) = Cardinality(1..m)
    BY <2>6, <2>7, FS_Bijection DEF ExistsBijection
  <2> QED
    BY <1>8, <2>2, <2>7, <2>8
<1>10. \A i \in DOMAIN ps : ps[i].row = Happened({k \in Key : ProvOf[k] = ps[i].prov})
  BY <1>1, <1>2, <1>5, <1>7, <1>8 DEF BillOK, ProvsOK, Of
<1>11. Bill.all = Happened(Key)
  BY <1>1, <1>2, <1>5 DEF BillOK
<1> QED
  BY <1>6, <1>7, <1>9, <1>10, <1>11, Zenon DEF BillIsToday

-----------------------------------------------------------------------------
(* The theorems.                                                           *)

\* In every reachable state the ledger is well typed, a reply has one usage at most, and the
\* buffer of a stream does not outgrow its size (relay.go:24).
THEOREM LedgerTyped ==
  Spec => []TypeOK
<1>1. Inv => TypeOK
  <2> SUFFICES ASSUME Inv PROVE TypeOK
    OBVIOUS
  <2>1. ASSUME NEW c \in Caller
        PROVE  /\ req[c].plan \in Asked \cup {<<>>}
               /\ req[c].key \in Key /\ req[c].budget \in Nat
               /\ Asking(c) => ProvOf[req[c].key] = req[c].target.prov
               /\ req[c].meter \/ req[c].at = "again" => Stream(req[c].plan)
               /\ req[c].used \subseteq Spend /\ \A s, t \in req[c].used : s = t
               /\ Len(req[c].tail) <= Room
    <3>1. ReqOK(req[c])
      BY DEF Inv, RequestsOK
    <3>2. Room \in Nat /\ Len(req[c].heard) \in Nat
      BY <3>1, LedgerAssumption DEF ReqOK
    <3>3. Len(req[c].tail) <= Room
      <4>1. Len(req[c].tail) = Lesser(Len(req[c].heard), Room)
        <5>1. req[c].heard \in Seq(Unit) /\ req[c].tail = Ending(req[c].heard, Room)
          BY <3>1 DEF ReqOK
        <5>2. Len(Ending(req[c].heard, Room)) = Lesser(Len(req[c].heard), Room)
          BY <3>2, <5>1, EndingElements
        <5> QED
          BY <5>1, <5>2
      <4> QED
        BY <3>2, <4>1 DEF Lesser
    <3> QED
      BY <3>1, <3>3 DEF ReqOK, Asking
  <2> QED
    BY <2>1 DEF TypeOK, Inv, CountersOK, HealthOK
<1> QED
  BY Invariant, <1>1, PTL

\* However a stream was cut into chunks, it is charged for what its end says, and a reply for
\* what it carried, for any size of the buffer and any chunks.
THEOREM ChargedAsSaid ==
  Spec => []BilledAsSaid
<1>1. Inv => BilledAsSaid
  <2> SUFFICES ASSUME Inv, NEW c \in Caller
               PROVE  Cost(c) = IF Stream(req[c].plan) THEN Said(req[c].heard) ELSE req[c].used
    BY DEF BilledAsSaid
  <2>1. ReqOK(req[c])
    BY DEF Inv, RequestsOK
  <2>2. Sniffed(req[c].tail) = Said(req[c].heard)
    BY <2>1, SniffedIsSaid DEF ReqOK
  <2>3. CASE Stream(req[c].plan)
    BY <2>1, <2>2, <2>3 DEF ReqOK, Cost
  <2>4. CASE ~Stream(req[c].plan)
    <3>1. req[c].heard = <<>>
      BY <2>1, <2>4 DEF ReqOK
    <3>2. Sniffed(req[c].tail) = {}
      BY <2>2, <3>1 DEF Said
    <3> QED
      BY <2>4, <3>2 DEF Cost
  <2> QED
    BY <2>3, <2>4
<1> QED
  BY Invariant, <1>1, PTL

\* Every attempt sends its provider what the caller asked, for the provider's model
\* (body.go:170), for any bodies, models and routes.
THEOREM SentAsAsked ==
  Spec => []SentIsAsked
<1>1. Inv /\ Planned => SentIsAsked
  <2> SUFFICES ASSUME Inv, Planned, NEW c \in Caller, Asking(c), Plain(req[c].plan)
               PROVE  Faithful(req[c].plan, req[c].target.model, req[c].meter)
    BY DEF SentIsAsked
  <2>1. req[c].plan \in Asked /\ req[c].meter \in BOOLEAN
    <3>1. ReqOK(req[c])
      BY DEF Inv, RequestsOK
    <3>2. req[c].at \notin {"idle", "done"}
      BY DEF Asking
    <3> QED
      BY <3>1, <3>2 DEF Planned, ReqOK
  <2>2. req[c].plan \in Seq(Field) /\ Named(req[c].plan)
    BY <2>1, LedgerAssumption
  <2> QED
    BY <2>1, <2>2, SendIsFaithful
<1>2. Init => Planned
  BY DEF Init, Idler, Planned
<1> QED
  BY Invariant, PlannedKept, <1>1, <1>2, PTL DEF Spec

\* Every row of the bill is what happened to its keys since the day began, and ever
\* (report.go:66): for any keys, requests, days and usage, whenever the day turned.
THEOREM BillExact ==
  Spec => []BillIsToday
<1>1. Inv /\ CountersTell => BillIsToday
  BY SeenTyped, BillTells DEF Inv
<1> QED
  BY Invariant, TellingFirst, TellingKept, <1>1, PTL DEF Spec

\* The order of a request's targets is by tiers.
LEMMA RankedIsTiered ==
  Inv => Tiered(Ranked)
<1> SUFFICES ASSUME Inv PROVE Tiered(Ranked)
  OBVIOUS
<1>1. PICK n \in Nat : n = Len(Route) /\ DOMAIN Route = 1..n
  BY LedgerAssumption
<1>2. PICK speed : speed = [i \in DOMAIN Route |-> SpeedOf(Route[i].prov)]
  OBVIOUS
<1>3. speed \in [1..n -> Nat]
  <2>1. ttft \in [Key -> Nat]
    BY DEF Inv, HealthOK
  <2>2. \A t \in [Key -> Nat], ks \in SUBSET Key : Speed(t, ks) \in Nat
    BY SpeedNat
  <2>3. ASSUME NEW p PROVE SpeedOf(p) \in Nat
    <3>1. FreeOf(p) \in SUBSET Key
      BY DEF FreeOf
    <3> QED
      BY <2>1, <2>2, <3>1 DEF SpeedOf
  <2> QED
    BY <1>1, <1>2, <2>3
<1> DEFINE Sorts(m, ts, v, s) ==
        /\ Order(ts, v) = [i \in 1..m |-> ts[s[i]]]
        /\ \A i \in 1..m : IF v[i] > 0 THEN v[s[i]] > 0 ELSE s[i] = i
        /\ \A j \in 1..m : \E i \in 1..m : s[i] = j
        /\ \A i, j \in 1..m : i < j /\ v[i] > 0 /\ v[j] > 0 => Before(v, s[i], s[j])
<1>4. \A m \in Nat : \A ts : DOMAIN ts = 1..m =>
        \A v \in [1..m -> Nat] : \E s \in [1..m -> 1..m] : Sorts(m, ts, v, s)
  BY OrderSorts, Zenon
<1>5. \E s \in [1..n -> 1..n] : Sorts(n, Route, speed, s)
  <2> HIDE DEF Sorts
  <2> QED
    BY <1>4, <1>1, <1>3
<1>6. PICK s \in [1..n -> 1..n] :
        /\ Order(Route, speed) = [i \in 1..n |-> Route[s[i]]]
        /\ \A i \in 1..n : IF speed[i] > 0 THEN speed[s[i]] > 0 ELSE s[i] = i
        /\ \A j \in 1..n : \E i \in 1..n : s[i] = j
        /\ \A i, j \in 1..n : i < j /\ speed[i] > 0 /\ speed[j] > 0 => Before(speed, s[i], s[j])
  BY <1>5
<1>7. PICK r : r = Ranked
  OBVIOUS
<1>8. r = [i \in 1..n |-> Route[s[i]]]
  BY <1>2, <1>6, <1>7 DEF Ranked
<1>9. \A i \in 1..n : r[i] = Route[s[i]] /\ SpeedOf(r[i].prov) = speed[s[i]]
                     /\ SpeedOf(Route[i].prov) = speed[i]
  BY <1>1, <1>2, <1>8
<1> DEFINE Fast(t) == Tier(SpeedOf(t.prov))
           Timed(t) == SpeedOf(t.prov) > 0
           PlaceIn(t) == CHOOSE i \in DOMAIN Route : Route[i] = t
<1>10. \A i \in 1..n : PlaceIn(r[i]) = s[i]
  <2> TAKE i \in 1..n
  <2>1. s[i] \in 1..n /\ r[i] = Route[s[i]]
    BY <1>9
  <2>2. \A j \in 1..n : Route[j] = Route[s[i]] => j = s[i]
    BY <1>1, <2>1, LedgerAssumption
  <2> QED
    BY <1>1, <2>1, <2>2
<1>11. {r[i] : i \in DOMAIN r} = {Route[i] : i \in DOMAIN Route}
  <2>1. DOMAIN r = 1..n
    BY <1>8
  <2>2. \A i \in 1..n : s[i] \in 1..n /\ r[i] = Route[s[i]]
    BY <1>9
  <2>3. \A j \in 1..n : \E i \in 1..n : s[i] = j
    BY <1>6
  <2>4. ASSUME NEW j \in 1..n PROVE \E i \in 1..n : r[i] = Route[j]
    <3>1. PICK i \in 1..n : s[i] = j
      BY <2>3
    <3>2. r[i] = Route[s[i]]
      BY <2>2
    <3>3. r[i] = Route[j]
      BY <3>1, <3>2
    <3> QED
      BY <3>3
  <2>5. {r[i] : i \in 1..n} = {Route[i] : i \in 1..n}
    <3>1. ASSUME NEW x \in {r[i] : i \in 1..n} PROVE x \in {Route[i] : i \in 1..n}
      BY <2>2
    <3>2. ASSUME NEW x \in {Route[i] : i \in 1..n} PROVE x \in {r[i] : i \in 1..n}
      BY <2>4
    <3> QED
      BY <3>1, <3>2
  <2> QED
    BY <1>1, <2>1, <2>5
<1>12. \A i \in DOMAIN r : ~Timed(Route[i]) => r[i] = Route[i]
  <2> SUFFICES ASSUME NEW i \in 1..n, ~(speed[i] > 0) PROVE r[i] = Route[i]
    BY <1>8, <1>9
  <2>1. s[i] = i
    BY <1>6, Zenon
  <2> QED
    BY <1>9, <2>1, Zenon
<1>13. \A i, j \in DOMAIN r : i < j /\ Timed(r[i]) /\ Timed(r[j]) =>
         \/ Fast(r[i]) < Fast(r[j])
         \/ Fast(r[i]) = Fast(r[j]) /\ PlaceIn(r[i]) < PlaceIn(r[j])
  <2>1. ASSUME NEW i \in 1..n, NEW j \in 1..n, i < j, speed[s[i]] > 0, speed[s[j]] > 0
        PROVE  \/ Fast(r[i]) < Fast(r[j])
               \/ Fast(r[i]) = Fast(r[j]) /\ PlaceIn(r[i]) < PlaceIn(r[j])
    <3>1. speed[i] > 0 /\ speed[j] > 0
      BY <1>6, <2>1
    <3>2. Before(speed, s[i], s[j])
      BY <1>6, <2>1, <3>1
    <3>3. Fast(r[i]) = Tier(speed[s[i]]) /\ Fast(r[j]) = Tier(speed[s[j]])
      BY <1>9
    <3>4. PlaceIn(r[i]) = s[i] /\ PlaceIn(r[j]) = s[j]
      BY <1>10
    <3> HIDE DEF PlaceIn, Fast
    <3> QED
      BY <3>2, <3>3, <3>4 DEF Before
  <2>2. DOMAIN r = 1..n /\ \A i \in 1..n : Timed(r[i]) <=> speed[s[i]] > 0
    BY <1>8, <1>9
  <2> HIDE DEF PlaceIn, Fast, Timed
  <2> QED
    BY <2>1, <2>2
<1>14. Tiered(r)
  BY <1>11, <1>12, <1>13 DEF Tiered
<1> QED
  BY <1>7, <1>14

\* A request tries the measured providers by tiers, and the others in their places, whatever
\* the averages are by then (speed.go:44).
THEOREM TieredOrder ==
  Spec => OrderIsTiered
<1>1. Inv => Tiered(Ranked)
  BY RankedIsTiered
<1>2. ASSUME Inv, [Next]_vars, NEW c \in Caller, req[c].at = "idle", req'[c].at = "walking"
      PROVE  req'[c].route = Ranked
  <2>1. ReqOK(req[c])
    BY <1>2 DEF Inv, RequestsOK
  <2>2. ASSUME UNCHANGED req PROVE FALSE
    BY <1>2, <2>2
  <2>3. ASSUME NEW d \in Caller, Request(d)
        PROVE  req'[c].route = Ranked
    <3>1. \A r : Local(d, r) => d = c \/ req'[c] = req[c]
      BY DEF Local
    <3>2. d = c
      BY <1>2, <2>3, <3>1 DEF Request, Start, Ask, Skip, GiveUp, Unmeter, Abandon, Sour, Answer, Fail,
                              Pump, Relayed
    <3>3. PICK b \in Asked : Start(c, b)
      BY <1>2, <2>3, <3>2 DEF Request, Ask, Skip, GiveUp, Unmeter, Abandon, Sour, Answer, Fail,
                              Pump, Relayed, Asking
    <3>4. PICK r : r = [req[c] EXCEPT !.at = "walking", !.plan = b, !.route = Ranked]
      OBVIOUS
    <3>5. req'[c] = r
      BY <1>2, <3>3, <3>4 DEF Start, Local, RequestsOK, Inv
    <3>6. r.route = Ranked
      BY <2>1, <3>4 DEF ReqOK
    <3> QED
      BY <3>5, <3>6
  <2>4. ASSUME (\E k \in Key : Turn(k)) \/ Midnight \/ Look \/ UNCHANGED vars
        PROVE  FALSE
    BY <2>2, <2>4 DEF Turn, Midnight, Look, vars
  <2> QED
    BY <1>2, <2>3, <2>4 DEF Next
<1>3. Inv /\ [Next]_vars =>
        [\A c \in Caller : req[c].at = "idle" /\ req'[c].at = "walking" => Tiered(req'[c].route)]_vars
  BY <1>1, <1>2
<1> QED
  BY <1>3, Invariant, PTL DEF Spec, OrderIsTiered
=============================================================================
