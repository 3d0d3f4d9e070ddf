---------------------------- MODULE StateProofs ----------------------------
(***************************************************************************)
(* What TLAPS proves of State, for any keys, callers, configs and faults:  *)
(* the types, and that the file is whole, is complete after the last save, *)
(* invents nothing and forgets nothing.                                    *)
(*                                                                         *)
(* The last two say what the code promises within a year: a snapshot is    *)
(* dated by the day of the year, and one that is a year old passes for     *)
(* today's.  That hypothesis, LastDay < YearLen, stands in the theorems.   *)
(***************************************************************************)
EXTENDS State, FiniteSetTheorems, TLAPS

-----------------------------------------------------------------------------
(* The inductive invariants.                                               *)

InSave == {"encoded", "writing", "written"}

\* What is being saved, and that what is renamed is all of it.
Saving ==
  /\ phase = "down" => keys = {}
  /\ phase # "down" => keys \in Config
  /\ saver \in InSave <=> Whole(snap)
  /\ saver = "written" => temp = snap
  /\ file # Torn

\* The handlers that still have to count a request, or to charge it.
Asking == {c \in Caller : at[c] = "asking"}
Unpaid == {c \in Caller : at[c] \in {"asking", "relaying"}}

\* Each pick is counted once and charged once, so counters and those who have yet
\* to count come to no more than the picks: in memory and in every snapshot.
Owed(f) ==
  \A k \in Key : /\ ValueOf(f.reqs, k) + Cardinality(Asking) <= picks
                 /\ ValueOf(f.life, k) + Cardinality(Unpaid) <= picks

Counted ==
  /\ IsFiniteSet(Unpaid) /\ picks \in 0..MaxPicks
  /\ Cardinality(Asking) <= picks /\ Cardinality(Unpaid) <= picks
  /\ \A k \in Key : reqs[k] + Cardinality(Asking) <= picks /\ life[k] + Cardinality(Unpaid) <= picks
  /\ \A f \in {file, temp, snap} : Whole(f) => Owed(f)

Inv == TypeOK /\ Saving /\ Counted

\* A snapshot has what memory has, for the keys that no reload takes away.
Agrees(f) ==
  /\ f.day = day
  /\ \A k \in AlwaysListed : ValueOf(f.reqs, k) = reqs[k] /\ ValueOf(f.life, k) = life[k]

\* Once the server has stopped nothing counts any more, and the last save is of that.
Last ==
  /\ phase = "stopping" => at = Idle
  /\ final \/ saver \in {"done", "failed"} => phase \in {"stopping", "broken"}
  /\ phase = "stopping" /\ final /\ saver \in InSave => Agrees(snap)
  /\ FinalFlushKeepsAll

\* A snapshot is of no later day, and has no more than what happened.
Honest(f) ==
  /\ f.day <= now
  /\ \A k \in Key : /\ f.day = now => ValueOf(f.reqs, k) <= used[k]
                    /\ ValueOf(f.life, k) <= spent[k]

Told ==
  /\ used \in [Key -> Nat] /\ spent \in [Key -> Nat] /\ day <= now
  /\ \A k \in Key : (day = now => reqs[k] <= used[k]) /\ life[k] <= spent[k]
  /\ \A f \in {file, temp, snap} : Whole(f) => Honest(f)

\* d, r and l go no further than e, s and m, for the keys that every config lists.
Covers(e, s, m, d, r, l) ==
  /\ d <= e
  /\ \A k \in AlwaysListed : /\ ValueOf(l, k) <= ValueOf(m, k)
                             /\ d = e => ValueOf(r, k) <= ValueOf(s, k)

\* The file is behind what is being saved, and that behind memory.
Behind ==
  /\ phase = "booted" /\ Whole(file) => file.day <= day
  /\ Alive /\ Whole(file) => Covers(day, reqs, life, file.day, file.reqs, file.life)
  /\ saver # "idle" \/ at # Idle => Alive
  /\ Whole(snap) => Covers(day, reqs, life, snap.day, snap.reqs, snap.life)
  /\ Whole(snap) /\ Whole(file) => Covers(snap.day, snap.reqs, snap.life, file.day, file.reqs, file.life)

-----------------------------------------------------------------------------
(* Snapshots.                                                              *)

LEMMA SnapshotCounts ==
  ASSUME NEW f \in Snapshots
  PROVE  /\ Whole(f) /\ f.day \in 0..(YearLen - 1)
         /\ \A k \in Key : ValueOf(f.reqs, k) \in 0..MaxPicks /\ ValueOf(f.life, k) \in 0..MaxPicks
<1>1. PICK K \in Config : f \in SnapshotOf(K)
  BY DEF Snapshots
<1>2. f.day \in 0..(YearLen - 1) /\ f.reqs \in [K -> 0..MaxPicks] /\ f.life \in [K -> 0..MaxPicks]
  BY <1>1 DEF SnapshotOf
<1>3. 0 \in 0..MaxPicks
  BY StateAssumption
<1> QED
  BY <1>2, <1>3, FileAssumption DEF Whole, ValueOf

LEMMA ListedByAll ==
  ASSUME NEW K \in Config
  PROVE  AlwaysListed \subseteq K /\ K \subseteq Key /\ AlwaysListed \subseteq Key
  BY StateAssumption DEF AlwaysListed

\* What save encodes, read back.
LEMMA SnapshotHas ==
  ASSUME TypeOK, Saving, phase # "down"
  PROVE  /\ Snapshot \in Snapshots /\ Snapshot.day = day
         /\ \A k \in Key : ValueOf(Snapshot.reqs, k) = reqs[k] /\ ValueOf(Snapshot.life, k) = life[k]
<1>1. keys \in Config /\ keys \subseteq Key
  BY ListedByAll DEF Saving
<1>2. Snapshot.day = day /\ Snapshot.reqs = [k \in keys |-> reqs[k]] /\ Snapshot.life = [k \in keys |-> life[k]]
  BY DEF Snapshot
<1>3. Snapshot \in SnapshotOf(keys)
  BY <1>1 DEF Snapshot, SnapshotOf, TypeOK
<1>4. Snapshot \in Snapshots
  BY <1>1, <1>3 DEF Snapshots
<1> QED
  BY <1>1, <1>2, <1>4 DEF ValueOf, TypeOK

LEMMA RolledType ==
  ASSUME TypeOK
  PROVE  /\ Rolled \in [Key -> 0..MaxPicks] /\ YearDay(now) \in 0..(YearLen - 1)
         /\ \A k \in Key : Rolled[k] <= reqs[k]
         /\ \A k \in Key \ keys : Rolled[k] = 0
<1>1. MaxPicks \in Nat /\ YearLen \in Nat \ {0} /\ now \in Nat
  BY StateAssumption DEF TypeOK
<1>2. YearDay(now) \in 0..(YearLen - 1)
  BY <1>1 DEF YearDay
<1> QED
  BY <1>1, <1>2 DEF Rolled, Nothing, TypeOK

-----------------------------------------------------------------------------
(* The types, and the picks.                                               *)

\* How a step of flush, or of the process, moves the snapshots there are.
LEMMA SourcesMove ==
  ASSUME TypeOK, Saving, [Next]_vars
  PROVE  /\ \A f \in {file', temp', snap'} : Whole(f) =>
               \/ f \in {file, temp, snap}
               \/ f = Snapshot /\ phase # "down" /\ UNCHANGED <<now, pool, at, history>>
         /\ {file', temp', snap'} \subseteq File
<1> USE DEF Saving, InSave
<1>1. {file, temp, snap, Absent, Torn} \subseteq File /\ ~Whole(Absent) /\ ~Whole(Torn)
  BY DEF TypeOK, File, Whole
<1>2. CASE \E last \in BOOLEAN : Encode(last)
  <2>1. phase # "down" /\ snap' = Snapshot /\ UNCHANGED <<now, file, temp, pool, at, history>>
    BY <1>2 DEF Encode, Alive, disk, handler
  <2>2. Snapshot \in File
    BY <2>1, SnapshotHas DEF File
  <2> QED
    BY <1>1, <2>1, <2>2
<1>3. CASE Save
  BY <1>1, <1>3 DEF Save, Open, Write, Rename, WriteFails, RenameFails
<1>4. CASE Crash \/ Exit
  BY <1>1, <1>4 DEF Crash, Exit, Gone
<1>5. CASE (\E K \in Config : Boot(K) \/ Reload(K)) \/ Restore \/ Shutdown \/ Drained \/ ListenerFails \/ Midnight
  BY <1>1, <1>5 DEF Boot, Reload, Restore, Shutdown, Drained, ListenerFails, Midnight, disk, flusher
<1>6. CASE \E c \in Caller : Arrive(c) \/ Pick(c) \/ Serve(c)
  BY <1>1, <1>6 DEF Arrive, Pick, Serve, Ok, Fail, Charge, Leave, disk, flusher
<1>7. CASE UNCHANGED vars
  BY <1>1, <1>7 DEF vars, disk, flusher
<1> QED
  BY <1>2, <1>3, <1>4, <1>5, <1>6, <1>7 DEF Next

LEMMA SavingStep ==
  ASSUME TypeOK, Saving, [Next]_vars
  PROVE  Saving'
<1> USE DEF Saving, InSave
<1>1. CASE \E last \in BOOLEAN : Encode(last)
  <2>1. /\ phase # "down" /\ snap' = Snapshot /\ saver' = "encoded"
        /\ UNCHANGED <<file, temp, phase, keys>>
    BY <1>1 DEF Encode, Alive, disk, pool
  <2>2. Whole(Snapshot)
    BY <2>1, SnapshotHas, SnapshotCounts
  <2> QED
    BY <2>1, <2>2
<1>2. CASE Open \/ Write
  BY <1>2 DEF Open, Write, pool
<1>3. CASE Rename
  BY <1>3, FileAssumption DEF Rename, Returns, Whole, pool
<1>4. CASE WriteFails \/ RenameFails
  BY <1>4 DEF WriteFails, RenameFails, Returns, Whole, pool
<1>5. CASE Crash \/ Exit
  BY <1>5 DEF Crash, Exit, Gone, Whole
<1>6. CASE (\E K \in Config : Boot(K) \/ Reload(K)) \/ Restore \/ Shutdown \/ Drained \/ ListenerFails \/ Midnight
  BY <1>6 DEF Boot, Reload, Restore, Shutdown, Drained, ListenerFails, Midnight, Alive, disk, flusher, pool
<1>7. CASE \E c \in Caller : Arrive(c) \/ Pick(c) \/ Serve(c)
  BY <1>7 DEF Arrive, Pick, Serve, Ok, Fail, Charge, Leave, disk, flusher, pool
<1>8. CASE UNCHANGED vars
  BY <1>8 DEF vars, disk, flusher, pool
<1> QED
  BY <1>1, <1>2, <1>3, <1>4, <1>5, <1>6, <1>7, <1>8 DEF Next, Save

LEMMA Busy ==
  ASSUME TypeOK, IsFiniteSet(Unpaid)
  PROVE  /\ Asking \subseteq Unpaid /\ IsFiniteSet(Asking)
         /\ Cardinality(Asking) \in Nat /\ Cardinality(Unpaid) \in Nat
<1>1. Asking \subseteq Unpaid
  BY DEF Asking, Unpaid
<1>2. IsFiniteSet(Asking)
  BY <1>1, FS_Subset
<1> QED
  BY <1>1, <1>2, FS_CardinalityType

\* A request that is counted is not owed any more, nor is a response that is charged.
LEMMA CountedOnce ==
  ASSUME TypeOK, IsFiniteSet(Unpaid), NEW c \in Caller
  PROVE  /\ Ok(c) => Unpaid' = Unpaid /\ IsFiniteSet(Asking') /\ Cardinality(Asking') = Cardinality(Asking) - 1
         /\ Charge(c) => Asking' = Asking /\ IsFiniteSet(Unpaid') /\ Cardinality(Unpaid') = Cardinality(Unpaid) - 1
         /\ Fail(c) => /\ IsFiniteSet(Unpaid') /\ Cardinality(Asking') = Cardinality(Asking) - 1
                       /\ Cardinality(Unpaid') = Cardinality(Unpaid) - 1
         /\ Pick(c) => /\ IsFiniteSet(Unpaid') /\ Cardinality(Asking') = Cardinality(Asking) + 1
                       /\ Cardinality(Unpaid') = Cardinality(Unpaid) + 1
<1>1. /\ IsFiniteSet(Asking) /\ Cardinality(Asking) \in Nat /\ Cardinality(Unpaid) \in Nat
  BY Busy
<1>2. at \in [Caller -> {"none", "open", "asking", "relaying"}]
  BY DEF TypeOK
<1>3. Ok(c) => Asking' = Asking \ {c} /\ c \in Asking /\ Unpaid' = Unpaid
  BY <1>2 DEF Ok, Asking, Unpaid
<1>4. Charge(c) => Asking' = Asking /\ Unpaid' = Unpaid \ {c} /\ c \in Unpaid
  BY <1>2 DEF Charge, Asking, Unpaid
<1>5. Fail(c) => Asking' = Asking \ {c} /\ Unpaid' = Unpaid \ {c} /\ c \in Asking /\ c \in Unpaid
  BY <1>2 DEF Fail, Asking, Unpaid
<1>6. Pick(c) => Asking' = Asking \cup {c} /\ Unpaid' = Unpaid \cup {c} /\ c \notin Asking /\ c \notin Unpaid
  BY <1>2 DEF Pick, Asking, Unpaid
<1>7. /\ IsFiniteSet(Asking \ {c}) /\ IsFiniteSet(Unpaid \ {c}) /\ IsFiniteSet(Unpaid \cup {c})
      /\ c \in Asking => Cardinality(Asking \ {c}) = Cardinality(Asking) - 1
      /\ c \in Unpaid => Cardinality(Unpaid \ {c}) = Cardinality(Unpaid) - 1
      /\ c \notin Asking => Cardinality(Asking \cup {c}) = Cardinality(Asking) + 1
      /\ c \notin Unpaid => Cardinality(Unpaid \cup {c}) = Cardinality(Unpaid) + 1
  BY <1>1, FS_AddElement, FS_RemoveElement
<1> QED
  BY <1>3, <1>4, <1>5, <1>6, <1>7

LEMMA OthersCountNothing ==
  ASSUME TypeOK, [Next]_vars, ~\E c \in Caller : Ok(c) \/ Charge(c) \/ Fail(c) \/ Pick(c)
  PROVE  picks' = picks /\ <<Asking', Unpaid'>> \in {<<Asking, Unpaid>>, <<{}, {}>>}
<1>1. CASE \E c \in Caller : Arrive(c) \/ Leave(c)
  <2>1. PICK c \in Caller : Arrive(c) \/ Leave(c)
    BY <1>1
  <2> QED
    BY <2>1 DEF Arrive, Leave, Asking, Unpaid, TypeOK, history
<1>2. CASE at' = at /\ picks' = picks
  BY <1>2 DEF Asking, Unpaid
<1>3. CASE Crash \/ Exit
  <2>1. at' = Idle /\ picks' = picks
    BY <1>3 DEF Crash, Exit, Gone, history
  <2> QED
    BY <2>1 DEF Asking, Unpaid, Idle
<1>4. CASE (\E K \in Config : Boot(K) \/ Reload(K)) \/ Restore \/ Shutdown \/ Drained \/ ListenerFails \/ Midnight
  BY <1>2, <1>4 DEF Boot, Reload, Restore, Shutdown, Drained, ListenerFails, Midnight, handler, history
<1>5. CASE Save \/ \E last \in BOOLEAN : Encode(last)
  BY <1>2, <1>5 DEF Save, Open, Write, Rename, WriteFails, RenameFails, Encode, handler, history
<1>6. CASE UNCHANGED vars
  BY <1>2, <1>6 DEF vars, handler, history
<1> QED
  BY <1>1, <1>3, <1>4, <1>5, <1>6 DEF Next, Serve

\* No step lets handlers owe more than it adds picks.
LEMMA HandlersCount ==
  ASSUME TypeOK, IsFiniteSet(Unpaid), picks \in 0..MaxPicks, [Next]_vars
  PROVE  /\ IsFiniteSet(Unpaid') /\ picks' \in 0..MaxPicks
         /\ Cardinality(Asking) \in Nat /\ Cardinality(Unpaid) \in Nat
         /\ Cardinality(Asking') \in Nat /\ Cardinality(Unpaid') \in Nat
         /\ Cardinality(Asking') + picks <= Cardinality(Asking) + picks'
         /\ Cardinality(Unpaid') + picks <= Cardinality(Unpaid) + picks'
<1>1. /\ Cardinality(Asking) \in Nat /\ Cardinality(Unpaid) \in Nat /\ MaxPicks \in Nat
      /\ IsFiniteSet(Asking)
  BY Busy, StateAssumption
<1>2. CASE \E c \in Caller : Ok(c) \/ Charge(c) \/ Fail(c) \/ Pick(c)
  <2>1. PICK c \in Caller : Ok(c) \/ Charge(c) \/ Fail(c) \/ Pick(c)
    BY <1>2
  <2>2. /\ IsFiniteSet(Unpaid')
        /\ Cardinality(Asking') + picks <= Cardinality(Asking) + picks'
        /\ Cardinality(Unpaid') + picks <= Cardinality(Unpaid) + picks'
        /\ picks' \in 0..MaxPicks
    <3>1. CASE Ok(c) \/ Charge(c) \/ Fail(c)
      <4>1. picks' = picks
        BY <3>1 DEF Ok, Charge, Fail, history
      <4> QED
        BY <1>1, <3>1, <4>1, CountedOnce
    <3>2. CASE Pick(c)
      <4>1. picks' = picks + 1 /\ picks < MaxPicks
        BY <3>2 DEF Pick
      <4> QED
        BY <1>1, <3>2, <4>1, CountedOnce
    <3> QED
      BY <2>1, <3>1, <3>2
  <2>3. IsFiniteSet(Asking')
    <3>1. Asking' \subseteq Unpaid'
      BY DEF Asking, Unpaid
    <3> QED
      BY <2>2, <3>1, FS_Subset
  <2> QED
    BY <1>1, <2>2, <2>3, FS_CardinalityType
<1>3. CASE ~\E c \in Caller : Ok(c) \/ Charge(c) \/ Fail(c) \/ Pick(c)
  <2>1. picks' = picks /\ <<Asking', Unpaid'>> \in {<<Asking, Unpaid>>, <<{}, {}>>}
    BY <1>3, OthersCountNothing
  <2> QED
    BY <1>1, <2>1, FS_EmptySet
<1> QED
  BY <1>2, <1>3

LEMMA WholeIsSnapshot ==
  ASSUME TypeOK, NEW f \in {file, temp, snap}, Whole(f)
  PROVE  f \in Snapshots
  BY DEF TypeOK, File, Whole

\* How a step moves the counters in memory: down, to what the file has, or up by one
\* for a request that is counted or charged.
LEMMA MemoryMoves ==
  ASSUME TypeOK, Saving, [Next]_vars
  PROVE  /\ reqs' \in [Key -> Nat] /\ life' \in [Key -> Nat]
         /\ \A k \in Key :
              /\ \/ reqs'[k] <= reqs[k]
                 \/ Whole(file) /\ reqs'[k] <= ValueOf(file.reqs, k)
                 \/ (\E c \in Caller : Ok(c)) /\ reqs'[k] <= reqs[k] + 1
              /\ \/ life'[k] <= life[k]
                 \/ Whole(file) /\ life'[k] <= ValueOf(file.life, k)
                 \/ (\E c \in Caller : Charge(c)) /\ life'[k] <= life[k] + 1
         /\ \A k \in Key \ keys' : reqs'[k] = 0 /\ life'[k] = 0
<1>1. /\ reqs \in [Key -> 0..MaxPicks] /\ life \in [Key -> 0..MaxPicks] /\ MaxPicks \in Nat
      /\ \A k \in Key \ keys : reqs[k] = 0 /\ life[k] = 0
      /\ keys \subseteq Key
  BY StateAssumption, ListedByAll DEF TypeOK
<1>2. /\ Rolled \in [Key -> 0..MaxPicks]
      /\ \A k \in Key : Rolled[k] <= reqs[k]
      /\ \A k \in Key \ keys : Rolled[k] = 0
  BY RolledType
<1>3. CASE UNCHANGED <<keys, reqs, life>>
  BY <1>1, <1>3
<1>4. CASE \E K \in Config : Boot(K)
  <2>1. keys = {} /\ UNCHANGED <<reqs, life>>
    BY <1>4 DEF Boot, Saving
  <2> QED
    BY <1>1, <2>1
<1>5. CASE \E K \in Config : Reload(K)
  <2>1. PICK K \in Config : Reload(K)
    BY <1>5
  <2>2. /\ keys' = K
        /\ reqs' = [k \in Key |-> IF k \in K \cap keys THEN reqs[k] ELSE 0]
        /\ life' = [k \in Key |-> IF k \in K \cap keys THEN life[k] ELSE 0]
    BY <2>1 DEF Reload
  <2> QED
    BY <1>1, <2>2
<1>6. CASE Restore
  <2>1. CASE UNCHANGED <<reqs, life>>
    BY <1>3, <1>6, <2>1 DEF Restore
  <2>2. CASE Whole(file) /\ reqs' = Daily(file) /\ life' = Life(file)
    <3>1. \A k \in Key : ValueOf(file.reqs, k) \in 0..MaxPicks /\ ValueOf(file.life, k) \in 0..MaxPicks
      BY <2>2, WholeIsSnapshot, SnapshotCounts
    <3>2. keys' = keys
      BY <1>6 DEF Restore
    <3> QED
      BY <1>1, <2>2, <3>1, <3>2 DEF Daily, Life
  <2> QED
    BY <1>6, <2>1, <2>2 DEF Restore
<1>7. CASE Crash \/ Exit
  BY <1>1, <1>7 DEF Crash, Exit, Gone, Nothing
<1>8. CASE \E c \in Caller : Ok(c)
  <2>1. PICK c \in Caller : Ok(c)
    BY <1>8
  <2>2. CASE using[c] \in keys
    <3>1. reqs' = [Rolled EXCEPT ![using[c]] = @ + 1] /\ UNCHANGED <<keys, life>>
      BY <2>1, <2>2 DEF Ok
    <3> QED
      BY <1>1, <1>2, <1>8, <2>2, <3>1
  <2>3. CASE using[c] \notin keys
    <3>1. reqs' = Rolled /\ UNCHANGED <<keys, life>>
      BY <2>1, <2>3 DEF Ok
    <3> QED
      BY <1>1, <1>2, <3>1
  <2> QED
    BY <2>2, <2>3
<1>9. CASE \E c \in Caller : Charge(c)
  <2>1. PICK c \in Caller : Charge(c)
    BY <1>9
  <2>2. CASE using[c] \in keys
    <3>1. life' = [life EXCEPT ![using[c]] = @ + 1] /\ reqs' = Rolled /\ UNCHANGED keys
      BY <2>1, <2>2 DEF Charge
    <3> QED
      BY <1>1, <1>2, <1>9, <2>2, <3>1
  <2>3. CASE using[c] \notin keys
    <3>1. reqs' = Rolled /\ UNCHANGED <<keys, life>>
      BY <2>1, <2>3 DEF Charge
    <3> QED
      BY <1>1, <1>2, <3>1
  <2> QED
    BY <2>2, <2>3
<1>10. CASE \E c \in Caller : Pick(c) \/ Fail(c)
  <2>1. (reqs' = Rolled \/ reqs' = reqs) /\ UNCHANGED <<keys, life>>
    BY <1>10 DEF Pick, Fail
  <2> QED
    BY <1>1, <1>2, <2>1
<1>11. CASE Shutdown \/ Drained \/ ListenerFails \/ Midnight \/ Save \/ \E last \in BOOLEAN : Encode(last)
  BY <1>3, <1>11 DEF Shutdown, Drained, ListenerFails, Midnight, Save, Open, Write, Rename, WriteFails,
                     RenameFails, Encode, pool
<1>12. CASE \E c \in Caller : Arrive(c) \/ Leave(c)
  BY <1>3, <1>12 DEF Arrive, Leave, pool
<1>13. CASE UNCHANGED vars
  BY <1>3, <1>13 DEF vars, pool
<1> QED
  BY <1>4, <1>5, <1>6, <1>7, <1>8, <1>9, <1>10, <1>11, <1>12, <1>13 DEF Next, Serve

LEMMA CountedStep ==
  ASSUME Inv, [Next]_vars
  PROVE  Counted'
<1> DEFINE toCount == Cardinality(Asking) toCharge == Cardinality(Unpaid)
<1>1. /\ IsFiniteSet(Unpaid') /\ picks' \in 0..MaxPicks /\ picks \in Nat /\ picks' \in Nat
      /\ toCount \in Nat /\ toCharge \in Nat /\ toCount' \in Nat /\ toCharge' \in Nat
      /\ toCount' + picks <= toCount + picks' /\ toCharge' + picks <= toCharge + picks'
      /\ toCount <= picks /\ toCharge <= picks
  BY HandlersCount, StateAssumption DEF Inv, Counted
<1>2. /\ (\E c \in Caller : Ok(c)) => toCount' = toCount - 1 /\ picks' = picks
      /\ (\E c \in Caller : Charge(c)) => toCharge' = toCharge - 1 /\ picks' = picks
  BY CountedOnce DEF Inv, Counted, Ok, Charge, history
<1>3. /\ \A k \in Key : reqs[k] + toCount <= picks /\ life[k] + toCharge <= picks /\ reqs[k] \in Nat /\ life[k] \in Nat
      /\ \A f \in {file, temp, snap} : Whole(f) => Owed(f)
  BY StateAssumption DEF Inv, Counted, TypeOK
<1>4. \A f \in {file, temp, snap} : Whole(f) =>
        \A k \in Key : ValueOf(f.reqs, k) \in Nat /\ ValueOf(f.life, k) \in Nat
  BY WholeIsSnapshot, SnapshotCounts DEF Inv
<1>5. \A f \in {file, temp, snap} : Whole(f) =>
        \A k \in Key : ValueOf(f.reqs, k) + toCount <= picks /\ ValueOf(f.life, k) + toCharge <= picks
  BY <1>3 DEF Owed
<1> HIDE DEF toCount, toCharge
<1>6. \A k \in Key : reqs'[k] + toCount' <= picks' /\ life'[k] + toCharge' <= picks'
  <2> TAKE k \in Key
  <2>1. reqs'[k] \in Nat /\ life'[k] \in Nat
    BY MemoryMoves DEF Inv
  <2>2. \/ reqs'[k] <= reqs[k]
        \/ Whole(file) /\ reqs'[k] <= ValueOf(file.reqs, k)
        \/ (\E c \in Caller : Ok(c)) /\ reqs'[k] <= reqs[k] + 1
    BY MemoryMoves DEF Inv
  <2>3. \/ life'[k] <= life[k]
        \/ Whole(file) /\ life'[k] <= ValueOf(file.life, k)
        \/ (\E c \in Caller : Charge(c)) /\ life'[k] <= life[k] + 1
    BY MemoryMoves DEF Inv
  <2>4. reqs'[k] + toCount' <= picks'
    BY <1>1, <1>2, <1>3, <1>4, <1>5, <2>1, <2>2
  <2>5. life'[k] + toCharge' <= picks'
    <3>0. ASSUME NEW l \in Nat, l + toCharge <= picks, life'[k] <= l
          PROVE  life'[k] + toCharge' <= picks'
      <4>1. \A m, n, u, v, p, q \in Nat : u + p <= v + q /\ n + v <= p /\ m <= n => m + u <= q
        OBVIOUS
      <4> QED
        BY <1>1, <2>1, <3>0, <4>1
    <3>1. CASE life'[k] <= life[k]
      BY <1>3, <3>0, <3>1
    <3>2. CASE Whole(file) /\ life'[k] <= ValueOf(file.life, k)
      BY <1>4, <1>5, <3>0, <3>2
    <3>3. CASE (\E c \in Caller : Charge(c)) /\ life'[k] <= life[k] + 1
      BY <1>1, <1>2, <1>3, <2>1, <3>3
    <3> QED
      BY <2>3, <3>1, <3>2, <3>3
  <2> QED
    BY <2>4, <2>5
<1>7. \A f \in {file', temp', snap'} : Whole(f) =>
        \A k \in Key : ValueOf(f.reqs, k) + toCount' <= picks' /\ ValueOf(f.life, k) + toCharge' <= picks'
  <2> SUFFICES ASSUME NEW f \in {file', temp', snap'}, Whole(f), NEW k \in Key
               PROVE  ValueOf(f.reqs, k) + toCount' <= picks' /\ ValueOf(f.life, k) + toCharge' <= picks'
    OBVIOUS
  <2>1. CASE f \in {file, temp, snap}
    BY <1>1, <1>4, <1>5, <2>1
  <2>2. CASE f = Snapshot /\ phase # "down"
    <3>1. ValueOf(f.reqs, k) = reqs[k] /\ ValueOf(f.life, k) = life[k]
      BY <2>2, SnapshotHas DEF Inv
    <3> QED
      BY <1>1, <1>3, <3>1
  <2> QED
    BY <2>1, <2>2, SourcesMove DEF Inv
<1>8. \A f \in {file', temp', snap'} : Whole(f) => Owed(f)'
  BY <1>7 DEF Owed, toCount, toCharge
<1> QED
  BY <1>1, <1>6, <1>8 DEF Counted, toCount, toCharge

LEMMA TypeStep ==
  ASSUME Inv, [Next]_vars
  PROVE  TypeOK'
<1>1. {file', temp', snap'} \subseteq File
  BY SourcesMove DEF Inv
<1>2. /\ reqs' \in [Key -> 0..MaxPicks] /\ life' \in [Key -> 0..MaxPicks]
      /\ \A k \in Key \ keys' : reqs'[k] = 0 /\ life'[k] = 0
  <2>1. /\ reqs' \in [Key -> Nat] /\ life' \in [Key -> Nat]
        /\ \A k \in Key \ keys' : reqs'[k] = 0 /\ life'[k] = 0
    BY MemoryMoves DEF Inv
  <2>2. /\ \A k \in Key : reqs'[k] + Cardinality(Asking') <= picks' /\ life'[k] + Cardinality(Unpaid') <= picks'
        /\ picks' \in 0..MaxPicks /\ Cardinality(Asking') \in Nat /\ Cardinality(Unpaid') \in Nat
    BY CountedStep, HandlersCount DEF Counted, Inv
  <2>3. \A k \in Key : reqs'[k] \in 0..MaxPicks /\ life'[k] \in 0..MaxPicks
    BY <2>1, <2>2, StateAssumption
  <2> QED
    BY <2>1, <2>3
<1>3. now' \in 0..LastDay /\ day' \in 0..(YearLen - 1) /\ keys' \in Config \cup {{}}
  <2>1. YearDay(now) \in 0..(YearLen - 1) /\ 0 \in 0..(YearLen - 1)
    BY RolledType, StateAssumption DEF Inv
  <2> QED
    BY <2>1, StateAssumption
       DEF Inv, TypeOK, Next, Boot, Restore, Gone, Crash, Shutdown, Drained, ListenerFails, Exit, Reload, Midnight,
           Arrive, Pick, Serve, Ok, Fail, Charge, Leave, Encode, Save, Open, Write, Rename, WriteFails, RenameFails,
           vars, pool
<1>4. /\ phase' \in {"down", "booted", "serving", "draining", "stopping", "broken"}
      /\ saver' \in {"idle", "encoded", "writing", "written", "done", "failed"}
  BY DEF Inv, TypeOK, Next, Boot, Restore, Gone, Crash, Shutdown, Drained, ListenerFails, Exit, Reload, Midnight,
         Arrive, Pick, Serve, Ok, Fail, Charge, Leave, Encode, Save, Open, Write, Rename, WriteFails, RenameFails,
         Returns, vars, flusher
<1>5. final' \in BOOLEAN
  BY Zenon DEF Inv, TypeOK, Next, Boot, Restore, Gone, Crash, Shutdown, Drained, ListenerFails, Exit, Reload, Midnight,
         Arrive, Pick, Serve, Ok, Fail, Charge, Leave, Encode, Save, Open, Write, Rename, WriteFails, RenameFails,
         Returns, vars, flusher
<1>6. at' \in [Caller -> {"none", "open", "asking", "relaying"}] /\ using' \in [Caller -> Key \cup {NoKey}]
  <2>1. keys \subseteq Key
    BY ListedByAll DEF Inv, TypeOK
  <2>2. at \in [Caller -> {"none", "open", "asking", "relaying"}] /\ using \in [Caller -> Key \cup {NoKey}]
    BY DEF Inv, TypeOK
  <2>3. CASE \E c \in Caller : Arrive(c) \/ Pick(c) \/ Serve(c)
    BY <2>1, <2>2, <2>3 DEF Arrive, Pick, Serve, Ok, Fail, Charge, Leave
  <2>4. CASE \E K \in Config : Reload(K)
    BY <2>2, <2>4 DEF Reload
  <2>5. CASE Crash \/ Exit
    BY <2>5 DEF Crash, Exit, Gone, Idle, Unused
  <2>6. CASE (\E K \in Config : Boot(K)) \/ Restore \/ Shutdown \/ Drained \/ ListenerFails \/ Midnight
    BY <2>2, <2>6 DEF Boot, Restore, Shutdown, Drained, ListenerFails, Midnight, handler
  <2>7. CASE Save \/ (\E last \in BOOLEAN : Encode(last)) \/ UNCHANGED vars
    BY <2>2, <2>7 DEF Save, Open, Write, Rename, WriteFails, RenameFails, Encode, handler, vars
  <2> QED
    BY <2>3, <2>4, <2>5, <2>6, <2>7 DEF Next
<1> QED
  BY <1>1, <1>2, <1>3, <1>4, <1>5, <1>6 DEF TypeOK

LEMMA InitInv == Init => Inv
<1> SUFFICES ASSUME Init PROVE Inv
  OBVIOUS
<1>1. Asking = {} /\ Unpaid = {}
  BY DEF Init, Idle, Asking, Unpaid
<1>2. YearLen \in Nat \ {0} /\ LastDay \in Nat /\ MaxPicks \in Nat
  BY StateAssumption
<1>3. TypeOK
  <2>1. final \in BOOLEAN
    BY Zenon DEF Init
  <2> QED
    BY <1>2, <2>1 DEF Init, TypeOK, File, Nothing, Idle, Unused
<1>4. Saving
  BY FileAssumption DEF Init, Saving, InSave, Whole
<1>5. Counted
  BY <1>1, <1>2, FS_EmptySet DEF Init, Counted, Whole, Nothing
<1> QED
  BY <1>3, <1>4, <1>5 DEF Inv

LEMMA SpecInv == Spec => []Inv
<1>1. Inv /\ [Next]_vars => Inv'
  BY TypeStep, SavingStep, CountedStep DEF Inv
<1> QED
  BY InitInv, <1>1, PTL DEF Spec

\* The types of the state, and that no counter, in memory or on disk, comes to more
\* than the picks there were, for any number of keys and of requests at once.
THEOREM TypeCorrect == Spec => []TypeOK
<1>1. Inv => TypeOK
  BY DEF Inv
<1> QED
  BY SpecInv, <1>1, PTL

\* However the process ends and whatever write fails, the file is the whole of some
\* snapshot (state.go:74).
THEOREM AlwaysWhole == Spec => []FileIsWhole
<1>1. Inv => FileIsWhole
  BY DEF Inv, Saving, FileIsWhole
<1> QED
  BY SpecInv, <1>1, PTL

-----------------------------------------------------------------------------
(* The last save.                                                          *)

\* A reload takes nothing from a key that every config lists, and once no handler
\* is left no step but a reload touches memory.
LEMMA QuietMemory ==
  ASSUME Inv, [Next]_vars, at = Idle, phase' # "down", phase # "down", phase # "booted"
  PROVE  day' = day /\ \A k \in AlwaysListed : reqs'[k] = reqs[k] /\ life'[k] = life[k]
<1>1. \A c \in Caller : ~(Pick(c) \/ Serve(c))
  BY DEF Idle, Pick, Serve, Ok, Fail, Charge, Leave
<1>2. CASE \E K \in Config : Reload(K)
  <2>1. PICK K \in Config : Reload(K)
    BY <1>2
  <2>2. AlwaysListed \subseteq K \cap keys /\ AlwaysListed \subseteq Key
    BY ListedByAll DEF Inv, Saving
  <2> QED
    BY <2>1, <2>2 DEF Reload
<1>3. CASE UNCHANGED <<day, reqs, life>>
  BY <1>3
<1>4. CASE (\E K \in Config : Boot(K)) \/ Restore \/ Crash \/ Exit
  BY <1>4 DEF Boot, Restore, Crash, Exit, Gone
<1>5. CASE Shutdown \/ Drained \/ ListenerFails \/ Midnight \/ Save \/ \E last \in BOOLEAN : Encode(last)
  BY <1>3, <1>5 DEF Shutdown, Drained, ListenerFails, Midnight, Save, Open, Write, Rename, WriteFails,
                    RenameFails, Encode, pool
<1>6. CASE \E c \in Caller : Arrive(c)
  BY <1>3, <1>6 DEF Arrive, pool
<1>7. CASE UNCHANGED vars
  BY <1>3, <1>7 DEF vars, pool
<1> QED
  BY <1>1, <1>2, <1>4, <1>5, <1>6, <1>7 DEF Next

LEMMA LastStep ==
  ASSUME Inv, Last, [Next]_vars
  PROVE  Last'
<1> USE DEF InSave
<1>1. phase' = "stopping" => at' = Idle
  <2>1. CASE \E c \in Caller : Arrive(c) \/ Pick(c) \/ Serve(c)
    <3>1. phase # "stopping" /\ phase' = phase
      BY <2>1 DEF Last, Idle, Arrive, Pick, Serve, Ok, Fail, Charge, Leave
    <3> QED
      BY <3>1
  <2>2. CASE ~\E c \in Caller : Arrive(c) \/ Pick(c) \/ Serve(c)
    BY <2>2 DEF Last, Next, Boot, Restore, Gone, Crash, Shutdown, Drained, ListenerFails, Exit, Reload, Midnight,
                Encode, Save, Open, Write, Rename, WriteFails, RenameFails, vars, handler
  <2> QED
    BY <2>1, <2>2
<1>2. final' \/ saver' \in {"done", "failed"} => phase' \in {"stopping", "broken"}
  <2>1. CASE Encode(TRUE) \/ Encode(FALSE)
    BY <2>1 DEF Last, Encode
  <2>2. CASE Save
    BY <2>2 DEF Last, Save, Open, Write, Rename, WriteFails, RenameFails, Returns
  <2>3. CASE Crash \/ Exit
    BY <2>3 DEF Crash, Exit, Gone
  <2>4. CASE (\E K \in Config : Boot(K) \/ Reload(K)) \/ Restore \/ Shutdown \/ Drained \/ ListenerFails \/ Midnight
    BY <2>4 DEF Last, Boot, Reload, Restore, Shutdown, Drained, ListenerFails, Midnight, flusher
  <2>5. CASE \E c \in Caller : Arrive(c) \/ Pick(c) \/ Serve(c)
    BY <2>5 DEF Last, Arrive, Pick, Serve, Ok, Fail, Charge, Leave, flusher
  <2>6. CASE UNCHANGED vars
    BY <2>6 DEF Last, vars, flusher
  <2> QED
    BY <2>1, <2>2, <2>3, <2>4, <2>5, <2>6 DEF Next
<1>3. CASE phase' # "stopping"
  BY <1>1, <1>2, <1>3 DEF Last, FinalFlushKeepsAll
<1>4. CASE phase' = "stopping" /\ phase # "stopping"
  <2>1. Drained
    BY <1>4 DEF Next, Boot, Restore, Gone, Crash, Shutdown, Drained, ListenerFails, Exit, Reload, Midnight,
                Arrive, Pick, Serve, Ok, Fail, Charge, Leave, Encode, Save, Open, Write, Rename, WriteFails,
                RenameFails, vars
  <2>2. ~final' /\ saver' \notin {"done", "failed"}
    BY <2>1 DEF Last, Drained, flusher
  <2> QED
    BY <1>1, <1>2, <2>2 DEF Last, FinalFlushKeepsAll
<1>5. CASE phase' = "stopping" /\ phase = "stopping"
  <2>1. day' = day /\ \A k \in AlwaysListed : reqs'[k] = reqs[k] /\ life'[k] = life[k]
    BY <1>5, QuietMemory DEF Last
  <2>2. CASE Encode(TRUE) \/ Encode(FALSE)
    <3>1. Agrees(Snapshot)
      BY <1>5, SnapshotHas, ListedByAll, StateAssumption DEF Agrees, Inv
    <3>2. snap' = Snapshot /\ saver' = "encoded" /\ UNCHANGED <<day, reqs, life>>
      BY <2>2 DEF Encode, pool
    <3>3. Agrees(snap)'
      BY <3>1, <3>2 DEF Agrees
    <3> QED
      BY <1>1, <1>2, <3>2, <3>3 DEF Last, FinalFlushKeepsAll
  <2>3. CASE Rename
    <3>1. file' = snap /\ Whole(snap) /\ saver' \notin InSave
      BY <2>3 DEF Inv, Saving, Rename, Returns
    <3>2. saver' = "done" => Agrees(snap)
      BY <1>5, <2>3 DEF Last, Rename, Returns
    <3>3. saver' = "done" => Agrees(file)'
      BY <2>1, <3>1, <3>2 DEF Agrees
    <3> QED
      BY <1>1, <1>2, <3>1, <3>3 DEF Last, FinalFlushKeepsAll, Agrees
  <2>4. CASE saver' = saver /\ UNCHANGED <<file, snap, final>>
    <3>1. Agrees(snap) => Agrees(snap)'
      BY <2>1, <2>4 DEF Agrees
    <3>2. FinalFlushKeepsAll'
      BY <1>5, <2>1, <2>4 DEF Last, FinalFlushKeepsAll
    <3> QED
      BY <1>1, <1>2, <1>5, <2>4, <3>1, <3>2 DEF Last
  <2>5. CASE WriteFails \/ RenameFails
    <3>1. saver' \in {"idle", "failed"}
      BY <2>5 DEF WriteFails, RenameFails, Returns
    <3> QED
      BY <1>1, <1>2, <3>1 DEF Last, FinalFlushKeepsAll
  <2>6. CASE Open \/ Write
    <3>1. saver \in InSave /\ saver' \in InSave /\ UNCHANGED <<snap, final>>
      BY <2>6 DEF Open, Write
    <3>2. Agrees(snap) => Agrees(snap)'
      BY <2>1, <3>1 DEF Agrees
    <3> QED
      BY <1>1, <1>2, <1>5, <3>1, <3>2 DEF Last, FinalFlushKeepsAll
  <2>7. ~(Crash \/ Exit)
    BY <1>5 DEF Crash, Exit, Gone
  <2>8. CASE (\E K \in Config : Boot(K) \/ Reload(K)) \/ Restore \/ Shutdown \/ Drained \/ ListenerFails \/ Midnight
    BY <2>4, <2>8 DEF Boot, Reload, Restore, Shutdown, Drained, ListenerFails, Midnight, disk, flusher
  <2>9. CASE \E c \in Caller : Arrive(c) \/ Pick(c) \/ Serve(c)
    BY <2>4, <2>9 DEF Arrive, Pick, Serve, Ok, Fail, Charge, Leave, disk, flusher
  <2>10. CASE UNCHANGED vars
    BY <2>4, <2>10 DEF vars, disk, flusher
  <2> QED
    BY <2>2, <2>3, <2>5, <2>6, <2>7, <2>8, <2>9, <2>10 DEF Next, Save
<1> QED
  BY <1>3, <1>4, <1>5

\* When a stopped server has saved for the last time the file has all that the
\* requests counted (run.go:75), whatever is reloaded and at whatever hour.
THEOREM NothingAcceptedIsLost == Spec => []FinalFlushKeepsAll
<1>1. Init => Last
  BY DEF Init, Last, InSave, FinalFlushKeepsAll
<1>2. Inv /\ Last /\ [Next]_vars => Last'
  BY LastStep
<1>3. Last => FinalFlushKeepsAll
  BY DEF Last
<1> QED
  BY SpecInv, <1>1, <1>2, <1>3, PTL DEF Spec

-----------------------------------------------------------------------------
(* Within a year: nothing is invented, and nothing is forgotten.           *)

\* What roll leaves is of today.
LEMMA RolledToday ==
  ASSUME LastDay < YearLen, TypeOK
  PROVE  /\ YearDay(now) = now /\ now \in Nat /\ day \in Nat
         /\ day = now => Rolled = reqs
         /\ day # now => Rolled = Nothing
<1>1. now \in 0..LastDay /\ LastDay \in Nat /\ YearLen \in Nat /\ day \in 0..(YearLen - 1)
  BY StateAssumption DEF TypeOK
<1>2. YearDay(now) = now
  BY <1>1 DEF YearDay
<1> QED
  BY <1>1, <1>2 DEF Rolled

\* The counters in memory and what really happened, over one step: today's counter
\* goes up only with `used`, and what is restored is in the file.
LEMMA ToldMemory ==
  ASSUME LastDay < YearLen, Inv, Told, [Next]_vars
  PROVE  /\ used' \in [Key -> Nat] /\ spent' \in [Key -> Nat] /\ day' <= now'
         /\ \A k \in Key : (day' = now' => reqs'[k] <= used'[k]) /\ life'[k] <= spent'[k]
<1>1. /\ used \in [Key -> Nat] /\ spent \in [Key -> Nat] /\ day <= now
      /\ \A k \in Key : (day = now => reqs[k] <= used[k]) /\ life[k] <= spent[k]
  BY DEF Told
<1>2. /\ reqs \in [Key -> Nat] /\ life \in [Key -> Nat] /\ keys \subseteq Key
  BY StateAssumption, ListedByAll DEF Inv, TypeOK
<1>3. /\ YearDay(now) = now /\ now \in Nat /\ day \in Nat
      /\ Rolled \in [Key -> Nat] /\ \A k \in Key : Rolled[k] <= used[k]
  <2>1. /\ YearDay(now) = now /\ now \in Nat /\ day \in Nat
        /\ day = now => Rolled = reqs
        /\ day # now => Rolled = Nothing
    BY RolledToday DEF Inv
  <2> QED
    BY <1>1, <1>2, <2>1 DEF Nothing
<1>4. CASE UNCHANGED <<now, day, reqs, life, used, spent>>
  BY <1>1, <1>4
<1>5. CASE \E K \in Config : Boot(K)
  <2>1. \A k \in Key : reqs[k] = 0 /\ life[k] = 0
    BY <1>5 DEF Boot, Inv, TypeOK, Saving
  <2>2. day' = now /\ UNCHANGED <<now, reqs, life, used, spent>>
    BY <1>3, <1>5 DEF Boot, history
  <2> QED
    BY <1>1, <1>3, <2>1, <2>2
<1>6. CASE \E K \in Config : Reload(K)
  <2>1. PICK K \in Config : Reload(K)
    BY <1>6
  <2>2. /\ reqs' = [k \in Key |-> IF k \in K \cap keys THEN reqs[k] ELSE 0]
        /\ life' = [k \in Key |-> IF k \in K \cap keys THEN life[k] ELSE 0]
        /\ UNCHANGED <<now, day, used, spent>>
    BY <2>1 DEF Reload, history
  <2> QED
    BY <1>1, <1>2, <2>2
<1>7. CASE Restore
  <2>1. UNCHANGED <<now, day, used, spent>>
    BY <1>7 DEF Restore, history
  <2>2. CASE UNCHANGED <<reqs, life>>
    BY <1>4, <2>1, <2>2
  <2>3. CASE Whole(file) /\ reqs' = Daily(file) /\ life' = Life(file)
    <3>1. /\ \A k \in Key : ValueOf(file.reqs, k) \in Nat /\ ValueOf(file.life, k) \in Nat
          /\ \A k \in Key : (file.day = now => ValueOf(file.reqs, k) <= used[k]) /\ ValueOf(file.life, k) <= spent[k]
      BY <2>3, WholeIsSnapshot, SnapshotCounts DEF Told, Honest, Inv
    <3> QED
      BY <1>1, <2>1, <2>3, <3>1 DEF Daily, Life, Today
  <2> QED
    BY <1>7, <2>2, <2>3 DEF Restore
<1>8. CASE Crash \/ Exit
  <2>1. reqs' = Nothing /\ life' = Nothing /\ day' = 0 /\ UNCHANGED <<now, used, spent>>
    BY <1>8 DEF Crash, Exit, Gone, history
  <2> QED
    BY <1>1, <1>3, <2>1 DEF Nothing
<1>9. CASE Midnight
  <2>1. now' = now + 1 /\ used' = Nothing /\ UNCHANGED <<day, reqs, life, spent>>
    BY <1>9 DEF Midnight, pool
  <2> QED
    BY <1>1, <1>3, <2>1 DEF Nothing
<1>10. CASE \E c \in Caller : Ok(c)
  <2>1. PICK c \in Caller : Ok(c)
    BY <1>10
  <2>2. day' = now /\ UNCHANGED <<now, life, spent>>
    BY <1>3, <2>1 DEF Ok
  <2>3. CASE using[c] \in keys
    <3>1. reqs' = [Rolled EXCEPT ![using[c]] = @ + 1] /\ used' = [used EXCEPT ![using[c]] = @ + 1]
      BY <2>1, <2>3 DEF Ok
    <3> QED
      BY <1>1, <1>2, <1>3, <2>2, <2>3, <3>1
  <2>4. CASE using[c] \notin keys
    <3>1. reqs' = Rolled /\ UNCHANGED used
      BY <2>1, <2>4 DEF Ok
    <3> QED
      BY <1>1, <1>3, <2>2, <3>1
  <2> QED
    BY <2>3, <2>4
<1>11. CASE \E c \in Caller : Charge(c)
  <2>1. PICK c \in Caller : Charge(c)
    BY <1>11
  <2>2. day' = now /\ reqs' = Rolled /\ UNCHANGED <<now, used>>
    BY <1>3, <2>1 DEF Charge
  <2>3. CASE using[c] \in keys
    <3>1. life' = [life EXCEPT ![using[c]] = @ + 1] /\ spent' = [spent EXCEPT ![using[c]] = @ + 1]
      BY <2>1, <2>3 DEF Charge
    <3> QED
      BY <1>1, <1>2, <1>3, <2>2, <2>3, <3>1
  <2>4. CASE using[c] \notin keys
    <3>1. UNCHANGED <<life, spent>>
      BY <2>1, <2>4 DEF Charge
    <3> QED
      BY <1>1, <1>3, <2>2, <3>1
  <2> QED
    BY <2>3, <2>4
<1>12. CASE \E c \in Caller : Pick(c) \/ Fail(c)
  <2>1. /\ UNCHANGED <<now, life, used, spent>>
        /\ (reqs' = Rolled /\ day' = now) \/ UNCHANGED <<reqs, day>>
    BY <1>3, <1>12 DEF Pick, Fail, history
  <2> QED
    BY <1>1, <1>3, <2>1
<1>13. CASE Shutdown \/ Drained \/ ListenerFails \/ Save \/ \E last \in BOOLEAN : Encode(last)
  BY <1>4, <1>13 DEF Shutdown, Drained, ListenerFails, Save, Open, Write, Rename, WriteFails, RenameFails, Encode,
                     pool, history
<1>14. CASE \E c \in Caller : Arrive(c) \/ Leave(c)
  BY <1>4, <1>14 DEF Arrive, Leave, pool, history
<1>15. CASE UNCHANGED vars
  BY <1>4, <1>15 DEF vars, pool, history
<1> QED
  BY <1>5, <1>6, <1>7, <1>8, <1>9, <1>10, <1>11, <1>12, <1>13, <1>14, <1>15 DEF Next, Serve

\* What happened is only added to on one day, and forgotten at midnight.
LEMMA HistoryGrows ==
  ASSUME LastDay < YearLen, Inv, Told, [Next]_vars
  PROVE  /\ now' \in Nat /\ now \in Nat /\ now <= now'
         /\ \A k \in Key : (now' = now => used[k] <= used'[k]) /\ spent[k] <= spent'[k]
<1>1. used \in [Key -> Nat] /\ spent \in [Key -> Nat] /\ now \in Nat
  BY StateAssumption DEF Told, Inv, TypeOK
<1>2. CASE UNCHANGED history /\ now' = now
  BY <1>1, <1>2 DEF history
<1>3. CASE Midnight
  BY <1>1, <1>3 DEF Midnight
<1>4. CASE \E c \in Caller : Arrive(c) \/ Pick(c) \/ Serve(c)
  <2>1. PICK c \in Caller : Arrive(c) \/ Pick(c) \/ Serve(c)
    BY <1>4
  <2>2. \/ UNCHANGED used
        \/ used' = [used EXCEPT ![using[c]] = @ + 1]
    BY <2>1 DEF Arrive, Pick, Serve, Ok, Fail, Charge, Leave, history
  <2>3. \/ UNCHANGED spent
        \/ spent' = [spent EXCEPT ![using[c]] = @ + 1]
    BY <2>1 DEF Arrive, Pick, Serve, Ok, Fail, Charge, Leave, history
  <2>4. now' = now
    BY <2>1 DEF Arrive, Pick, Serve, Ok, Fail, Charge, Leave
  <2> QED
    BY <1>1, <2>2, <2>3, <2>4
<1>5. CASE (\E K \in Config : Boot(K) \/ Reload(K)) \/ Restore \/ Crash \/ Shutdown \/ Drained \/ ListenerFails \/ Exit
  BY <1>2, <1>5 DEF Boot, Reload, Restore, Crash, Shutdown, Drained, ListenerFails, Exit, Gone
<1>6. CASE Save \/ (\E last \in BOOLEAN : Encode(last)) \/ UNCHANGED vars
  BY <1>2, <1>6 DEF Save, Open, Write, Rename, WriteFails, RenameFails, Encode, vars
<1> QED
  BY <1>3, <1>4, <1>5, <1>6 DEF Next

LEMMA ToldStep ==
  ASSUME LastDay < YearLen, Inv, Told, [Next]_vars
  PROVE  Told'
<1>1. ASSUME NEW f \in {file', temp', snap'}, Whole(f)
      PROVE  Honest(f)'
  <2>1. \/ f \in {file, temp, snap}
        \/ f = Snapshot /\ phase # "down" /\ UNCHANGED <<now, pool, at, history>>
    BY <1>1, SourcesMove DEF Inv
  <2>2. CASE f \in {file, temp, snap}
    <3>1. f.day \in Nat /\ \A k \in Key : ValueOf(f.reqs, k) \in Nat /\ ValueOf(f.life, k) \in Nat
      BY <1>1, <2>2, WholeIsSnapshot, SnapshotCounts, StateAssumption DEF Inv
    <3>2. f.day <= now /\ \A k \in Key : (f.day = now => ValueOf(f.reqs, k) <= used[k]) /\ ValueOf(f.life, k) <= spent[k]
      BY <1>1, <2>2 DEF Told, Honest
    <3>3. /\ used \in [Key -> Nat] /\ used' \in [Key -> Nat] /\ spent \in [Key -> Nat] /\ spent' \in [Key -> Nat]
      BY ToldMemory DEF Told
    <3>4. /\ now' \in Nat /\ now \in Nat /\ now <= now'
          /\ \A k \in Key : (now' = now => used[k] <= used'[k]) /\ spent[k] <= spent'[k]
      BY HistoryGrows
    <3>5. \A k \in Key : (f.day = now' => ValueOf(f.reqs, k) <= used'[k]) /\ ValueOf(f.life, k) <= spent'[k]
      BY <3>1, <3>2, <3>3, <3>4
    <3> QED
      BY <3>1, <3>2, <3>4, <3>5 DEF Honest
  <2>3. CASE f = Snapshot /\ phase # "down" /\ UNCHANGED <<now, pool, at, history>>
    <3>1. f.day = day /\ \A k \in Key : ValueOf(f.reqs, k) = reqs[k] /\ ValueOf(f.life, k) = life[k]
      BY <2>3, SnapshotHas DEF Inv
    <3> QED
      BY <2>3, <3>1 DEF Told, Honest, history
  <2> QED
    BY <2>1, <2>2, <2>3
<1> QED
  BY <1>1, ToldMemory DEF Told

\* Within a year, the counters of a key are never more than what it did, today and in
\* all (state.go:27-54, pool.go:294-303).
THEOREM NothingIsInvented ==
  ASSUME LastDay < YearLen
  PROVE  Spec => []CountsNeverInvented
<1>1. Init => Told
  BY StateAssumption DEF Init, Told, Nothing, Whole
<1>2. Inv /\ Told /\ [Next]_vars => Told'
  BY ToldStep
<1>3. Inv /\ Told => CountsNeverInvented
  <2> SUFFICES ASSUME Inv, Told, NEW k \in keys PROVE Rolled[k] <= used[k] /\ life[k] <= spent[k]
    BY DEF CountsNeverInvented
  <2>1. k \in Key
    BY ListedByAll DEF Inv, TypeOK
  <2>2. (day = now => Rolled = reqs) /\ (day # now => Rolled = Nothing) /\ used[k] \in Nat
    BY <2>1, RolledToday DEF Inv, Told
  <2> QED
    BY <2>1, <2>2 DEF Told, Nothing
<1> QED
  BY SpecInv, <1>1, <1>2, <1>3, PTL DEF Spec

\* Counters read as a key's count, for the keys that every config lists.
Counts(r) == \A k \in AlwaysListed : ValueOf(r, k) \in Nat

LEMMA CoversOn ==
  ASSUME NEW e \in Nat, NEW s, NEW m, Counts(s), Counts(m),
         NEW d \in Nat, NEW r, NEW l, Counts(r), Counts(l),
         NEW c \in Nat, NEW q, NEW j, Counts(q), Counts(j),
         Covers(e, s, m, d, r, l), Covers(d, r, l, c, q, j)
  PROVE  Covers(e, s, m, c, q, j)
<1>1. c <= d /\ d <= e
  BY DEF Covers
<1>2. ASSUME NEW k \in AlwaysListed
      PROVE  ValueOf(j, k) <= ValueOf(m, k) /\ (c = e => ValueOf(q, k) <= ValueOf(s, k))
  <2>1. /\ ValueOf(j, k) <= ValueOf(l, k) /\ ValueOf(l, k) <= ValueOf(m, k)
        /\ c = d => ValueOf(q, k) <= ValueOf(r, k)
        /\ d = e => ValueOf(r, k) <= ValueOf(s, k)
    BY DEF Covers
  <2>2. /\ ValueOf(j, k) \in Nat /\ ValueOf(l, k) \in Nat /\ ValueOf(m, k) \in Nat
        /\ ValueOf(q, k) \in Nat /\ ValueOf(r, k) \in Nat /\ ValueOf(s, k) \in Nat
    BY DEF Counts
  <2> QED
    BY <1>1, <2>1, <2>2
<1> QED
  BY <1>1, <1>2 DEF Covers

LEMMA MemoryCounts ==
  ASSUME TypeOK
  PROVE  /\ day \in Nat /\ Counts(reqs) /\ Counts(life)
         /\ \A k \in AlwaysListed : k \in Key /\ ValueOf(reqs, k) = reqs[k] /\ ValueOf(life, k) = life[k]
  BY StateAssumption, ListedByAll DEF TypeOK, Counts, ValueOf

LEMMA SourceCounts ==
  ASSUME NEW f \in Snapshots
  PROVE  f.day \in Nat /\ Counts(f.reqs) /\ Counts(f.life)
  BY SnapshotCounts, StateAssumption, ListedByAll DEF Counts

\* While the process serves, memory takes nothing back of one day, or of all time.
LEMMA MemoryGrows ==
  ASSUME LastDay < YearLen, Inv, Told, [Next]_vars, Alive, Alive'
  PROVE  Covers(day', reqs', life', day, reqs, life)
<1>1. /\ reqs \in [Key -> Nat] /\ life \in [Key -> Nat] /\ day \in Nat /\ AlwaysListed \subseteq Key
      /\ keys \in Config /\ AlwaysListed \subseteq keys
  BY StateAssumption, ListedByAll DEF Inv, TypeOK, Saving, Alive
<1>2. /\ YearDay(now) = now /\ now \in Nat /\ day <= now
      /\ day = now => Rolled = reqs
  BY RolledToday DEF Inv, Told
<1>3. ASSUME UNCHANGED <<day, reqs, life>>
      PROVE  Covers(day', reqs', life', day, reqs, life)
  <2>1. \A k \in AlwaysListed : ValueOf(reqs, k) \in Nat /\ ValueOf(life, k) \in Nat
    BY <1>1 DEF ValueOf
  <2> QED
    BY <1>1, <1>3, <2>1 DEF Covers
<1>4. ASSUME day' = now, DOMAIN reqs' = Key, DOMAIN life' = Key,
             \A k \in Key : day = now => reqs'[k] >= reqs[k],
             \A k \in Key : life'[k] >= life[k]
      PROVE  Covers(day', reqs', life', day, reqs, life)
  <2>1. \A k \in AlwaysListed : /\ ValueOf(life, k) <= ValueOf(life', k)
                                /\ day = day' => ValueOf(reqs, k) <= ValueOf(reqs', k)
    BY <1>1, <1>4 DEF ValueOf
  <2> QED
    BY <1>2, <1>4, <2>1 DEF Covers
<1>5. CASE \E K \in Config : Reload(K)
  <2>1. PICK K \in Config : Reload(K)
    BY <1>5
  <2>2. /\ reqs' = [k \in Key |-> IF k \in K \cap keys THEN reqs[k] ELSE 0]
        /\ life' = [k \in Key |-> IF k \in K \cap keys THEN life[k] ELSE 0]
        /\ day' = day /\ AlwaysListed \subseteq K
    BY <2>1, ListedByAll DEF Reload
  <2>3. \A k \in AlwaysListed : /\ ValueOf(reqs', k) = reqs[k] /\ ValueOf(life', k) = life[k]
                                /\ ValueOf(reqs, k) = reqs[k] /\ ValueOf(life, k) = life[k]
    BY <1>1, <2>2 DEF ValueOf
  <2> QED
    BY <1>1, <2>2, <2>3 DEF Covers
<1>6. \A c \in Caller : Pick(c) \/ Ok(c) \/ Charge(c) => DOMAIN reqs' = Key /\ DOMAIN life' = Key
  BY MemoryMoves DEF Inv
<1>7. CASE \E c \in Caller : Ok(c)
  <2>1. PICK c \in Caller : Ok(c)
    BY <1>7
  <2>2. day' = now /\ life' = life /\ (reqs' = [Rolled EXCEPT ![using[c]] = @ + 1] \/ reqs' = Rolled)
    BY <1>2, <2>1 DEF Ok
  <2>3. Rolled \in [Key -> 0..MaxPicks]
    BY RolledType DEF Inv
  <2> QED
    BY <1>1, <1>2, <1>4, <1>6, <2>1, <2>2, <2>3
<1>8. CASE \E c \in Caller : Charge(c)
  <2>1. PICK c \in Caller : Charge(c)
    BY <1>8
  <2>2. day' = now /\ reqs' = Rolled /\ (life' = [life EXCEPT ![using[c]] = @ + 1] \/ life' = life)
    BY <1>2, <2>1 DEF Charge
  <2> QED
    BY <1>1, <1>2, <1>4, <1>6, <2>1, <2>2
<1>9. CASE \E c \in Caller : Pick(c) \/ Fail(c)
  <2>1. life' = life /\ (<<reqs', day'>> = <<Rolled, now>> \/ UNCHANGED <<reqs, day>>)
    BY <1>2, <1>9 DEF Pick, Fail
  <2>2. Rolled \in [Key -> 0..MaxPicks]
    BY RolledType DEF Inv
  <2> QED
    BY <1>1, <1>2, <1>3, <1>4, <2>1, <2>2
<1>10. CASE Shutdown \/ Drained \/ ListenerFails \/ Midnight \/ Save \/ \E last \in BOOLEAN : Encode(last)
  BY <1>3, <1>10 DEF Shutdown, Drained, ListenerFails, Midnight, Save, Open, Write, Rename, WriteFails, RenameFails,
                     Encode, pool
<1>11. CASE \E c \in Caller : Arrive(c) \/ Leave(c)
  BY <1>3, <1>11 DEF Arrive, Leave, pool
<1>12. CASE (\E K \in Config : Boot(K)) \/ Restore \/ Crash \/ Exit
  BY <1>12 DEF Boot, Restore, Crash, Exit, Gone, Alive
<1>13. CASE UNCHANGED vars
  BY <1>3, <1>13 DEF vars, pool
<1> QED
  BY <1>5, <1>7, <1>8, <1>9, <1>10, <1>11, <1>12, <1>13 DEF Next, Serve

\* How a step moves the file and what is being saved, and when there is a process.
LEMMA DiskMoves ==
  ASSUME Inv, Behind, [Next]_vars
  PROVE  /\ saver' # "idle" \/ at' # Idle => Alive'
         /\ \/ file' = file /\ snap' = snap
            \/ file' = file /\ ~Whole(snap')
            \/ file' = file /\ snap' = Snapshot /\ UNCHANGED pool /\ Alive
            \/ file' = snap /\ ~Whole(snap') /\ UNCHANGED pool /\ Alive /\ Whole(snap)
         /\ Alive' => Alive \/ (Restore /\ ~Whole(snap))
         /\ phase' = "booted" => (\E K \in Config : Boot(K)) \/ (phase = "booted" /\ UNCHANGED <<day, file>>)
<1> USE DEF InSave
<1>1. CASE \E last \in BOOLEAN : Encode(last)
  BY <1>1 DEF Encode, Alive, Behind, disk, handler
<1>2. CASE Rename
  <2>1. temp = snap /\ Whole(snap) /\ Alive
    BY <1>2 DEF Rename, Inv, Saving, Behind
  <2> QED
    BY <1>2, <2>1 DEF Rename, Alive, Whole, handler
<1>3. CASE Open \/ Write \/ WriteFails \/ RenameFails
  <2>1. Alive
    BY <1>3 DEF Behind, Open, Write, WriteFails, RenameFails
  <2> QED
    BY <1>3, <2>1 DEF Open, Write, WriteFails, RenameFails, Alive, Whole
<1>4. CASE Crash \/ Exit
  BY <1>4 DEF Crash, Exit, Gone, Alive, Whole
<1>5. CASE \E K \in Config : Boot(K)
  BY <1>5 DEF Boot, Behind, Alive, disk, flusher, handler
<1>6. CASE Restore
  <2>1. ~Whole(snap) /\ saver = "idle"
    BY <1>6 DEF Restore, Behind, Alive, Inv, Saving
  <2> QED
    BY <1>6, <2>1 DEF Restore, Alive, Behind, disk, flusher, handler
<1>7. CASE (\E K \in Config : Reload(K)) \/ Shutdown \/ Drained \/ ListenerFails
  BY <1>7 DEF Reload, Shutdown, Drained, ListenerFails, Alive, Behind, disk, flusher, handler
<1>8. CASE Midnight
  BY <1>8 DEF Midnight, Alive, Behind, disk, flusher, handler, pool
<1>9. CASE \E c \in Caller : Arrive(c) \/ Pick(c) \/ Serve(c)
  <2>1. phase' = phase /\ UNCHANGED disk /\ UNCHANGED flusher
    BY <1>9 DEF Arrive, Pick, Serve, Ok, Fail, Charge, Leave
  <2>2. Alive
    BY <1>9 DEF Arrive, Pick, Serve, Ok, Fail, Charge, Leave, Alive, Idle, Behind
  <2> QED
    BY <2>1, <2>2 DEF Alive, Behind, disk, flusher
<1>10. CASE UNCHANGED vars
  BY <1>10 DEF vars, Alive, Behind, disk, flusher, handler, pool
<1> QED
  BY <1>1, <1>2, <1>3, <1>4, <1>5, <1>6, <1>7, <1>8, <1>9, <1>10 DEF Next, Save

LEMMA BehindStep ==
  ASSUME LastDay < YearLen, "read" \notin Fault, Inv, Told, Behind, [Next]_vars
  PROVE  Behind'
<1>1. /\ saver' # "idle" \/ at' # Idle => Alive'
      /\ \/ file' = file /\ snap' = snap
         \/ file' = file /\ ~Whole(snap')
         \/ file' = file /\ snap' = Snapshot /\ UNCHANGED pool /\ Alive
         \/ file' = snap /\ ~Whole(snap') /\ UNCHANGED pool /\ Alive /\ Whole(snap)
      /\ Alive' => Alive \/ (Restore /\ ~Whole(snap))
      /\ phase' = "booted" => (\E K \in Config : Boot(K)) \/ (phase = "booted" /\ UNCHANGED <<day, file>>)
  BY DiskMoves
<1>2. /\ day \in Nat /\ Counts(reqs) /\ Counts(life)
      /\ day' \in Nat /\ Counts(reqs') /\ Counts(life')
  <2>1. TypeOK'
    BY TypeStep
  <2> QED
    BY <2>1, MemoryCounts, StateAssumption, ListedByAll DEF Inv, TypeOK, Counts, ValueOf
<1>3. \A f \in {file, snap} : Whole(f) => f.day \in Nat /\ Counts(f.reqs) /\ Counts(f.life)
  BY WholeIsSnapshot, SourceCounts DEF Inv
<1>4. ASSUME phase' = "booted", Whole(file')
      PROVE  file'.day <= day'
  <2>1. CASE phase = "booted" /\ UNCHANGED <<day, file>>
    BY <1>4, <2>1 DEF Behind
  <2>2. CASE \E K \in Config : Boot(K)
    <3>1. day' = YearDay(now) /\ file' = file
      BY <2>2 DEF Boot, disk
    <3> QED
      BY <1>4, <3>1, RolledToday DEF Inv, Told, Honest
  <2> QED
    BY <1>1, <1>4, <2>1, <2>2
<1>5. Alive /\ Alive' => Covers(day', reqs', life', day, reqs, life)
  BY MemoryGrows
<1>6. ASSUME Alive', Whole(file')
      PROVE  Covers(day', reqs', life', file'.day, file'.reqs, file'.life)
  <2>1. CASE Alive /\ file' = file
    BY <1>2, <1>3, <1>5, <1>6, <2>1, CoversOn DEF Behind
  <2>2. CASE file' = snap /\ UNCHANGED pool /\ Whole(snap)
    BY <2>2 DEF Behind, pool
  <2>3. CASE Restore
    <3>1. phase = "booted" /\ UNCHANGED <<keys, day, file>> /\ reqs' = Daily(file) /\ life' = Life(file)
      BY <1>6, <2>3 DEF Restore, disk
    <3>2. file.day <= day
      BY <1>6, <3>1 DEF Behind
    <3>3. AlwaysListed \subseteq keys /\ AlwaysListed \subseteq Key
      BY <3>1, ListedByAll DEF Inv, Saving
    <3>4. ASSUME NEW k \in AlwaysListed
          PROVE  /\ ValueOf(life', k) = ValueOf(file.life, k)
                 /\ file.day = day => ValueOf(reqs', k) = ValueOf(file.reqs, k)
      <4>1. DOMAIN reqs' = Key /\ DOMAIN life' = Key /\ k \in Key /\ k \in keys
        BY <3>1, <3>3 DEF Daily, Life
      <4>2. ValueOf(life', k) = life'[k] /\ ValueOf(reqs', k) = reqs'[k]
        BY <4>1 DEF ValueOf
      <4>3. life'[k] = ValueOf(file.life, k) /\ (file.day = day => reqs'[k] = ValueOf(file.reqs, k))
        BY <3>1, <4>1 DEF Daily, Life, Today
      <4> QED
        BY <4>2, <4>3
    <3>5. Counts(file.reqs) /\ Counts(file.life)
      BY <1>3, <1>6, <3>1
    <3> QED
      BY <3>1, <3>2, <3>4, <3>5 DEF Covers, Counts
  <2> QED
    BY <1>1, <1>6, <2>1, <2>2, <2>3 DEF Restore, disk
<1>7. ASSUME Whole(snap')
      PROVE  Covers(day', reqs', life', snap'.day, snap'.reqs, snap'.life)
  <2>1. CASE snap' = snap
    <3>1. saver \in InSave /\ Alive
      BY <1>7, <2>1 DEF Inv, Saving, Behind, InSave
    <3>2. saver' \in InSave
      BY <1>7, SavingStep DEF Inv, Saving
    <3>3. Alive'
      BY <1>1, <3>2 DEF InSave
    <3> QED
      BY <1>2, <1>3, <1>5, <1>7, <2>1, <3>1, <3>3, CoversOn DEF Behind
  <2>2. CASE snap' = Snapshot /\ UNCHANGED pool /\ Alive
    <3>1. /\ Snapshot.day = day
          /\ \A k \in AlwaysListed : ValueOf(Snapshot.reqs, k) = reqs[k] /\ ValueOf(Snapshot.life, k) = life[k]
          /\ \A k \in AlwaysListed : ValueOf(reqs, k) = reqs[k] /\ ValueOf(life, k) = life[k]
      BY <2>2, SnapshotHas, MemoryCounts, ListedByAll, StateAssumption DEF Inv, Alive
    <3> QED
      BY <1>2, <2>2, <3>1 DEF Covers, Counts, pool
  <2> QED
    BY <1>1, <1>7, <2>1, <2>2
<1>8. ASSUME Whole(snap'), Whole(file')
      PROVE  Covers(snap'.day, snap'.reqs, snap'.life, file'.day, file'.reqs, file'.life)
  <2>1. CASE snap' = snap /\ file' = file
    BY <1>8, <2>1 DEF Behind
  <2>2. CASE snap' = Snapshot /\ file' = file /\ Alive
    <3>1. /\ Snapshot.day = day
          /\ \A k \in AlwaysListed : ValueOf(Snapshot.reqs, k) = ValueOf(reqs, k)
                                     /\ ValueOf(Snapshot.life, k) = ValueOf(life, k)
      BY <2>2, SnapshotHas, MemoryCounts DEF Inv, Alive
    <3>2. Covers(day, reqs, life, file.day, file.reqs, file.life)
      BY <1>8, <2>2 DEF Behind
    <3> QED
      BY <2>2, <3>1, <3>2 DEF Covers
  <2> QED
    BY <1>1, <1>8, <2>1, <2>2
<1> QED
  BY <1>1, <1>4, <1>6, <1>7, <1>8 DEF Behind

\* Within a year, and as long as the file can be read, no save takes back what an
\* earlier one recorded of a key that every config lists, with crashes, reloads and
\* failed writes in between (state.go:27-72).
THEOREM NothingIsForgotten ==
  ASSUME LastDay < YearLen, "read" \notin Fault
  PROVE  Spec => FileNeverForgets
<1>1. Init => Told /\ Behind
  BY StateAssumption DEF Init, Told, Behind, Nothing, Whole, Alive
<1>2. Inv /\ Told /\ [Next]_vars => Told'
  BY ToldStep
<1>3. Inv /\ Told /\ Behind /\ [Next]_vars => Behind'
  BY BehindStep
<1>4. Inv /\ Behind /\ [Next]_vars => [~Forgets]_vars
  <2> SUFFICES ASSUME Inv, Behind, [Next]_vars PROVE ~Forgets
    OBVIOUS
  <2>1. file' = file \/ (file' = snap /\ Whole(snap))
    BY DiskMoves
  <2>2. CASE file' = file
    <3>1. Whole(file) => Counts(file.reqs) /\ Counts(file.life)
      BY WholeIsSnapshot, SourceCounts DEF Inv
    <3> QED
      BY <2>2, <3>1 DEF Forgets, Counts
  <2>3. CASE file' = snap /\ Whole(snap)
    <3>1. Whole(file) => Covers(snap.day, snap.reqs, snap.life, file.day, file.reqs, file.life)
      BY <2>3 DEF Behind
    <3>2. Whole(file) => Counts(file.reqs) /\ Counts(file.life) /\ Counts(snap.reqs) /\ Counts(snap.life)
      BY <2>3, WholeIsSnapshot, SourceCounts DEF Inv
    <3> QED
      BY <2>3, <3>1, <3>2 DEF Forgets, Covers, Counts
  <2> QED
    BY <2>1, <2>2, <2>3
<1> QED
  BY SpecInv, <1>1, <1>2, <1>3, <1>4, PTL DEF Spec, FileNeverForgets

=============================================================================
