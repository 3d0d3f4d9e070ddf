-------------------------- MODULE AdmissionProofs --------------------------
(***************************************************************************)
(* Proofs about body admission, for any number of callers, any cap and any *)
(* declared lengths.  Bytes are counted as the elements of Units(room), so *)
(* that a sum over callers becomes the cardinality of a set.               *)
(***************************************************************************)
EXTENDS Admission, TLAPS, FiniteSetTheorems

\* A caller between the load and the swap has room for its body above what it read.
Promised == \A c \in Caller : at[c] = "swapping" => read[c] + Clamped(declared[c]) <= Hold

\* No body outgrows its limit, and the limit is what was reserved.
Covered ==
  \A c \in Caller : at[c] = "admitted" =>
    room[c] = Clamped(declared[c]) /\ got[c] <= Limit(declared[c])

Inv ==
  /\ TypeOK
  /\ IsFiniteSet(Units(room))
  /\ HeldIsWhatIsReserved
  /\ held <= Hold
  /\ Promised
  /\ Covered

\* What a caller reserves is between 0 and MaxBody, and its limit is within it.
LEMMA ClampedRange ==
  ASSUME NEW n \in Int
  PROVE  Clamped(n) \in 0..MaxBody /\ Limit(n) \in 0..MaxBody /\ Limit(n) <= Clamped(n)
  BY SizeAssumption DEF Clamped, Limit

\* The units of one caller.
Block(c, n) == {c} \X (1..n)

LEMMA BlockSize ==
  ASSUME NEW c, NEW n \in Nat
  PROVE  IsFiniteSet(Block(c, n)) /\ Cardinality(Block(c, n)) = n
<1> DEFINE f == [i \in 1..n |-> <<c, i>>]
<1>1. IsFiniteSet(1..n) /\ Cardinality(1..n) = n
  BY FS_Interval
<1>2. f \in Bijection(1..n, Block(c, n))
  <2>1. f \in [1..n -> Block(c, n)]
    BY DEF Block
  <2>2. \A i, j \in 1..n : f[i] = f[j] => i = j
    OBVIOUS
  <2>3. \A u \in Block(c, n) : \E i \in 1..n : f[i] = u
    BY DEF Block
  <2> QED
    BY <2>1, <2>2, <2>3 DEF Bijection, Injection, IsInjective, Surjection
<1>3. ExistsBijection(1..n, Block(c, n))
  BY <1>2 DEF ExistsBijection
<1> QED
  BY <1>1, <1>3, FS_Bijection

\* Reserving n units where there were none adds n to what is reserved.
LEMMA Reserving ==
  ASSUME NEW c \in Caller, NEW n \in 0..MaxBody, NEW size \in [Caller -> 0..MaxBody],
         size[c] = 0, IsFiniteSet(Units(size))
  PROVE  LET new == [size EXCEPT ![c] = n]
         IN  IsFiniteSet(Units(new)) /\ Cardinality(Units(new)) = Cardinality(Units(size)) + n
<1> DEFINE new == [size EXCEPT ![c] = n]
<1>1. n \in Nat /\ MaxBody \in Nat
  BY SizeAssumption
<1>2. Units(new) = Units(size) \cup Block(c, n)
  BY <1>1 DEF Units, Block
<1>3. Units(size) \cap Block(c, n) = {}
  BY <1>1 DEF Units, Block
<1>4. IsFiniteSet(Block(c, n)) /\ Cardinality(Block(c, n)) = n
  BY <1>1, BlockSize
<1>5. /\ IsFiniteSet(Units(size) \cup Block(c, n))
      /\ Cardinality(Units(size) \cup Block(c, n)) =
           Cardinality(Units(size)) + Cardinality(Block(c, n)) - Cardinality({})
  BY <1>3, <1>4, FS_Union
<1>6. Cardinality(Units(size)) \in Nat
  BY FS_CardinalityType
<1>7. Cardinality({}) = 0
  BY FS_EmptySet
<1>8. IsFiniteSet(Units(new))
  BY <1>2, <1>5
<1>9. Cardinality(Units(new)) = Cardinality(Units(size)) + n
  <2> HIDE DEF new
  <2>1. Cardinality(Units(new)) = Cardinality(Units(size)) + n - 0
    BY <1>2, <1>4, <1>5, <1>7
  <2> QED
    BY <2>1, <1>1, <1>6
<1> QED
  BY <1>8, <1>9

\* Giving a reservation back takes it off what is reserved.
LEMMA Releasing ==
  ASSUME NEW c \in Caller, NEW size \in [Caller -> 0..MaxBody], IsFiniteSet(Units(size))
  PROVE  LET new == [size EXCEPT ![c] = 0]
         IN  /\ IsFiniteSet(Units(new))
             /\ Cardinality(Units(new)) = Cardinality(Units(size)) - size[c]
             /\ Cardinality(Units(new)) \in Nat
<1> DEFINE new == [size EXCEPT ![c] = 0]
<1>1. size[c] \in Nat /\ size[c] <= MaxBody /\ MaxBody \in Nat
  BY SizeAssumption
<1>2. Units(new) = Units(size) \ Block(c, size[c])
  BY <1>1 DEF Units, Block
<1>3. Units(size) \cap Block(c, size[c]) = Block(c, size[c])
  BY <1>1 DEF Units, Block
<1>4. Cardinality(Block(c, size[c])) = size[c]
  BY <1>1, BlockSize
<1>5. /\ IsFiniteSet(Units(size) \ Block(c, size[c]))
      /\ Cardinality(Units(size) \ Block(c, size[c])) =
           Cardinality(Units(size)) - Cardinality(Units(size) \cap Block(c, size[c]))
  BY FS_Difference
<1> QED
  BY <1>2, <1>3, <1>4, <1>5, FS_CardinalityType

LEMMA InitInv == Init => Inv
<1> SUFFICES ASSUME Init PROVE Inv
  OBVIOUS
<1>1. TypeOK
  BY SizeAssumption DEF Init, TypeOK
<1>2. Units(room) = {}
  BY SizeAssumption DEF Init, Units
<1>3. IsFiniteSet(Units(room)) /\ HeldIsWhatIsReserved
  BY <1>2, FS_EmptySet DEF Init, HeldIsWhatIsReserved
<1> QED
  BY <1>1, <1>3, SizeAssumption DEF Init, Inv, Promised, Covered

\* A declared length is a number.
LEMMA DeclaredInt ==
  ASSUME TypeOK, NEW c \in Caller
  PROVE  declared[c] \in Int
<1>1. declared[c] \in Length \cup {0}
  BY DEF TypeOK
<1>2. Length \subseteq Int
  BY SizeAssumption
<1>3. CASE declared[c] \in Length
  BY <1>2, <1>3
<1>4. CASE declared[c] = 0
  BY <1>4
<1> QED
  BY <1>1, <1>3, <1>4

\* The steps that neither reserve nor give back.
LEMMA QuietInv ==
  ASSUME Inv, NEW c \in Caller,
         Arrive(c) \/ Load(c) \/ Refuse(c) \/ Retry(c) \/ Read(c)
  PROVE  Inv'
<1> USE DEF Inv
<1>1. UNCHANGED <<held, room>>
  BY DEF Arrive, Load, Refuse, Retry, Read
<1>2. IsFiniteSet(Units(room)') /\ HeldIsWhatIsReserved' /\ (held <= Hold)'
  BY <1>1 DEF HeldIsWhatIsReserved, Units
<1>3. CASE Arrive(c)
  <2>1. TypeOK'
    <3>1. declared' \in [Caller -> Length \cup {0}]
      BY <1>3 DEF TypeOK, Arrive
    <3>2. left' \in [Caller -> 0..Rounds]
      BY <1>3, SizeAssumption DEF TypeOK, Arrive
    <3>3. at' \in [Caller -> {"idle", "asking", "swapping", "admitted"}]
      BY <1>3 DEF TypeOK, Arrive
    <3> QED
      BY <1>3, <3>1, <3>2, <3>3 DEF TypeOK, Arrive
  <2>2. Promised' /\ Covered'
    BY <1>3 DEF TypeOK, Arrive, Promised, Covered
  <2> QED
    BY <1>2, <2>1, <2>2
<1>4. CASE Load(c)
  <2>1. TypeOK'
    BY <1>4 DEF TypeOK, Load
  <2>2. Promised' /\ Covered'
    BY <1>4 DEF TypeOK, Load, Promised, Covered
  <2> QED
    BY <1>2, <2>1, <2>2
<1>5. CASE Refuse(c)
  <2>1. TypeOK'
    BY <1>5 DEF TypeOK, Refuse
  <2>2. Promised' /\ Covered'
    BY <1>5 DEF TypeOK, Refuse, Promised, Covered
  <2> QED
    BY <1>2, <2>1, <2>2
<1>6. CASE Retry(c)
  <2>1. TypeOK'
    BY <1>6 DEF TypeOK, Retry
  <2>2. Promised' /\ Covered'
    BY <1>6 DEF TypeOK, Retry, Promised, Covered
  <2> QED
    BY <1>2, <2>1, <2>2
<1>7. CASE Read(c)
  <2>1. PICK n \in 1..MaxBody :
          got[c] + n <= Limit(declared[c]) /\ got' = [got EXCEPT ![c] = @ + n]
    BY <1>7 DEF Read
  <2>2. Limit(declared[c]) \in 0..MaxBody
    BY DeclaredInt, ClampedRange
  <2>3. at[c] = "admitted" /\ UNCHANGED <<held, at, declared, read, room, left>>
    BY <1>7 DEF Read
  <2>4. got' \in [Caller -> 0..MaxBody]
    BY <2>1, <2>2, SizeAssumption DEF TypeOK
  <2>5. TypeOK'
    BY <2>1, <2>2, <2>3, <2>4 DEF TypeOK
  <2>6. Promised'
    BY <2>3 DEF Promised
  <2>7. Covered'
    BY <2>1, <2>3 DEF Covered, TypeOK
  <2> QED
    BY <1>2, <2>5, <2>6, <2>7
<1> QED
  BY <1>3, <1>4, <1>5, <1>6, <1>7

\* A successful swap reserves what the load had found room for.
LEMMA SwapInv ==
  ASSUME Inv, NEW c \in Caller, Swap(c)
  PROVE  Inv'
<1> USE DEF Inv
<1> DEFINE n == Clamped(declared[c])
<1>1. declared[c] \in Int /\ n \in 0..MaxBody /\ Limit(declared[c]) \in 0..MaxBody
  BY DeclaredInt, ClampedRange
<1>2. /\ at[c] = "swapping" /\ held = read[c] /\ held' = held + n
      /\ room' = [room EXCEPT ![c] = n]
      /\ UNCHANGED <<declared, got, left>>
  BY DEF Swap
<1>3. room[c] = 0 /\ got[c] = 0 /\ room \in [Caller -> 0..MaxBody] /\ held \in Nat
  BY <1>2 DEF TypeOK
<1>4. IsFiniteSet(Units(room)') /\ Cardinality(Units(room)') = Cardinality(Units(room)) + n
  <2>1. Units(room)' = Units([room EXCEPT ![c] = n])
    BY <1>2 DEF Units
  <2> QED
    BY <2>1, <1>1, <1>3, Reserving
<1>5. HeldIsWhatIsReserved'
  <2>1. Cardinality(Units(room')) = Cardinality(Units(room)) + n
    BY <1>4 DEF Units
  <2> QED
    BY <1>2, <2>1 DEF HeldIsWhatIsReserved
<1>6. (held <= Hold)'
  BY <1>2 DEF Promised
<1>7. TypeOK'
  <2>1. held' \in Nat /\ room' \in [Caller -> 0..MaxBody]
    BY <1>1, <1>2, <1>3
  <2> QED
    BY <2>1 DEF Swap, TypeOK
<1>8. Promised'
  BY DEF Swap, Promised, TypeOK
<1>9. Covered'
  BY <1>1, <1>2, <1>3 DEF Swap, Covered, TypeOK
<1> QED
  BY <1>4, <1>5, <1>6, <1>7, <1>8, <1>9

\* Whichever way dispatch returns, what was reserved comes off held.
LEMMA ReleaseInv ==
  ASSUME Inv, NEW c \in Caller, at[c] = "admitted", Release(c)
  PROVE  Inv'
<1> USE DEF Inv
<1>1. room \in [Caller -> 0..MaxBody] /\ held \in Nat /\ room[c] \in Nat /\ Hold \in Nat
  BY SizeAssumption DEF TypeOK
<1>2. /\ IsFiniteSet(Units(room'))
      /\ Cardinality(Units(room')) = Cardinality(Units(room)) - room[c]
      /\ Cardinality(Units(room')) \in Nat
  BY <1>1, Releasing DEF Release
<1>3. IsFiniteSet(Units(room)')
  BY <1>2 DEF Units
<1>4. HeldIsWhatIsReserved' /\ held' \in Nat /\ (held <= Hold)'
  BY <1>1, <1>2 DEF Release, HeldIsWhatIsReserved
<1>5. TypeOK'
  BY <1>4, SizeAssumption DEF Release, TypeOK
<1>6. Promised' /\ Covered'
  BY DEF Release, Promised, Covered, TypeOK
<1> QED
  BY <1>3, <1>4, <1>5, <1>6

LEMMA StepInv == Inv /\ [Next]_vars => Inv'
<1> SUFFICES ASSUME Inv, [Next]_vars PROVE Inv'
  OBVIOUS
<1>1. CASE UNCHANGED vars
  BY <1>1 DEF vars, Inv, TypeOK, HeldIsWhatIsReserved, Units, Promised, Covered
<1>2. CASE Next
  <2>1. PICK c \in Caller : Arrive(c) \/ Admit(c) \/ Read(c) \/ Unreadable(c) \/ Finish(c)
    BY <1>2 DEF Next
  <2>2. CASE Arrive(c) \/ Load(c) \/ Refuse(c) \/ Retry(c) \/ Read(c)
    BY <2>2, QuietInv
  <2>3. CASE Swap(c)
    BY <2>3, SwapInv
  <2>4. CASE Unreadable(c) \/ Finish(c)
    BY <2>4, ReleaseInv DEF Unreadable, Finish
  <2> QED
    BY <2>1, <2>2, <2>3, <2>4 DEF Admit
<1> QED
  BY <1>1, <1>2

LEMMA Invariant == Spec => []Inv
  BY InitInv, StepInv, PTL DEF Spec

\* The state is well typed: the counter never goes below zero and no caller
\* keeps a reservation after it has left.
THEOREM AdmissionTyped == Spec => []TypeOK
  BY Invariant, PTL DEF Inv

\* No interleaving of loads and swaps loses a reservation or gives it back twice.
THEOREM HeldExact == Spec => []HeldIsWhatIsReserved
  BY Invariant, PTL DEF Inv

\* The bodies in memory fit in the cap, whatever is declared and whatever is sent.
THEOREM BodiesWithinCap == Spec => []BodiesFit
<1>1. Inv => BodiesFit
  <2> SUFFICES ASSUME Inv PROVE BodiesFit
    OBVIOUS
  <2>1. \A c \in Caller : got[c] \in 0..MaxBody /\ room[c] \in 0..MaxBody /\ got[c] <= room[c]
    <3> TAKE c \in Caller
    <3>1. got[c] \in 0..MaxBody /\ room[c] \in 0..MaxBody
      BY DEF Inv, TypeOK
    <3>2. CASE at[c] = "admitted"
      <4>1. declared[c] \in Int
        BY DeclaredInt DEF Inv
      <4>2. Limit(declared[c]) <= Clamped(declared[c]) /\ Limit(declared[c]) \in 0..MaxBody
        BY <4>1, ClampedRange
      <4> QED
        BY <3>1, <3>2, <4>2 DEF Inv, Covered
    <3>3. CASE at[c] # "admitted"
      BY <3>1, <3>3 DEF Inv, TypeOK
    <3> QED
      BY <3>1, <3>2, <3>3
  <2>2. Units(got) \in SUBSET Units(room)
    BY <2>1, SizeAssumption DEF Units
  <2>3. IsFiniteSet(Units(got)) /\ Cardinality(Units(got)) <= Cardinality(Units(room))
    BY <2>2, FS_Subset DEF Inv
  <2>4. Cardinality(Units(got)) \in Nat /\ Cardinality(Units(room)) <= Hold
    BY <2>3, FS_CardinalityType DEF Inv, HeldIsWhatIsReserved
  <2> QED
    BY <2>3, <2>4, SizeAssumption DEF BodiesFit, Inv, TypeOK, HeldIsWhatIsReserved
<1> QED
  BY <1>1, Invariant, PTL

=============================================================================
