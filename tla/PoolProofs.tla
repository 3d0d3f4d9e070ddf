----------------------------- MODULE PoolProofs -----------------------------
(***************************************************************************)
(* Proofs about the key pool, for any number of keys, providers, callers   *)
(* and configs.                                                            *)
(***************************************************************************)
EXTENDS Pool, TLAPS, FiniteSetTheorems, WellFoundedInduction

\* A remainder is an index.
LEMMA ModRange ==
  ASSUME NEW a \in Nat, NEW n \in Nat \ {0}
  PROVE  a % n \in 0..(n - 1)
  BY SMT

\* roll never raises a counter.
LEMMA RolledType ==
  ASSUME TypeOK
  PROVE  /\ RolledReqs \in [Cell -> Nat] /\ RolledMins \in [Cell -> Nat]
         /\ \A k \in Cell : RolledReqs[k] <= reqs[k] /\ RolledMins[k] <= mins[k]
  BY DEF TypeOK, RolledReqs, RolledMins

\* Whatever pick looks at is a key in rotation.
LEMMA VisitInRotation ==
  ASSUME TypeOK, NEW p \in Prov, NEW i \in 0..(Len(slots[p]) - 1)
  PROVE  /\ Len(slots[p]) \in Nat \ {0}
         /\ Visit(p, i) \in Rotation
         /\ Visit(p, i) \in Cell
<1> DEFINE n == Len(slots[p])
<1>1. slots[p] \in Seq(Cell) /\ rr[p] \in Nat
  BY DEF TypeOK
<1>2. n \in Nat \ {0}
  BY <1>1
<1>3. ((rr[p] + i) % n) + 1 \in DOMAIN slots[p]
  <2>1. rr[p] + i \in Nat
    BY <1>1
  <2>2. (rr[p] + i) % n \in 0..(n - 1)
    BY <2>1, <1>2, ModRange
  <2> QED
    BY <2>2, <1>1, <1>2
<1>4. Visit(p, i) \in Cell
  BY <1>1, <1>3 DEF Visit
<1> QED
  BY <1>2, <1>3, <1>4 DEF Visit, Rotation

\* A failure leaves the cooldown, the rung and the revocation well typed.
LEMMA BenchType ==
  ASSUME TypeOK, NEW k \in Cell, NEW code \in Nat, NEW retry \in Nat, Bench(k, code, retry)
  PROVE  /\ cool' \in [Cell -> Nat]
         /\ step' \in [Cell -> 0..(Len(Ladder) - 1)]
         /\ dead' \in [Cell -> BOOLEAN]
<1>1. Len(Ladder) \in Nat \ {0} /\ \A i \in 1..Len(Ladder) : Ladder[i] \in Nat
  BY TimeAssumption
<1>2. /\ cool \in [Cell -> Nat] /\ step \in [Cell -> 0..(Len(Ladder) - 1)]
      /\ dead \in [Cell -> BOOLEAN]
  BY DEF TypeOK
<1>3. CASE Revoking(code) /\ dead' = [dead EXCEPT ![k] = TRUE] /\ UNCHANGED <<cool, step>>
  BY <1>2, <1>3
<1>4. CASE UNCHANGED health
  BY <1>2, <1>4 DEF health
<1>5. CASE cool' = [cool EXCEPT ![k] = retry] /\ UNCHANGED <<step, dead>>
  BY <1>2, <1>5
<1>6. CASE /\ cool' = [cool EXCEPT ![k] = Ladder[step[k] + 1]]
           /\ step' = [step EXCEPT ![k] = NextRung(@)]
           /\ UNCHANGED dead
  <2>1. step[k] \in 0..(Len(Ladder) - 1)
    BY <1>2
  <2>2. Ladder[step[k] + 1] \in Nat
    BY <1>1, <2>1
  <2>3. NextRung(step[k]) \in 0..(Len(Ladder) - 1)
    BY <1>1, <2>1 DEF NextRung
  <2> QED
    BY <1>2, <1>6, <2>2, <2>3
<1> QED
  BY <1>3, <1>4, <1>5, <1>6 DEF Bench

-----------------------------------------------------------------------------
(* What a config is turned into.                                           *)

\* A listed fingerprint has a provider.
LEMMA HomeType ==
  ASSUME NEW cfg \in Config, NEW f \in Listed(cfg)
  PROVE  Home(cfg, f) \in Prov
  BY DEF Home, Listed

\* A rotation made of a Key object for each listed fingerprint holds these objects.
LEMMA RebuiltType ==
  ASSUME NEW cfg \in Config, NEW obj,
         \A f \in Listed(cfg) : obj[f] \in Cell
  PROVE  /\ Rebuilt(cfg, obj) \in [Prov -> Seq(Cell)]
         /\ \A p \in Prov : DOMAIN Rebuilt(cfg, obj)[p] = DOMAIN cfg.slots[p]
         /\ \A p \in Prov : \A i \in DOMAIN cfg.slots[p] :
              /\ cfg.slots[p][i] \in Listed(cfg)
              /\ Rebuilt(cfg, obj)[p][i] = obj[cfg.slots[p][i]]
<1>1. cfg.slots \in [Prov -> Seq(Id)]
  BY ConfigAssumption
<1>2. ASSUME NEW p \in Prov, NEW i \in DOMAIN cfg.slots[p]
      PROVE  cfg.slots[p][i] \in Listed(cfg)
  <2>1. cfg.slots[p][i] \in Id
    BY <1>1
  <2> QED
    BY <2>1 DEF Listed
<1>3. ASSUME NEW p \in Prov
      PROVE  [i \in DOMAIN cfg.slots[p] |-> obj[cfg.slots[p][i]]] \in Seq(Cell)
  <2> DEFINE n == Len(cfg.slots[p])
             s == [i \in 1..n |-> obj[cfg.slots[p][i]]]
  <2>1. cfg.slots[p] \in Seq(Id) /\ n \in Nat /\ DOMAIN cfg.slots[p] = 1..n
    BY <1>1
  <2>2. \A i \in 1..n : obj[cfg.slots[p][i]] \in Cell
    BY <1>2, <2>1
  <2>3. s \in [1..n -> Cell]
    BY <2>2
  <2>4. s \in Seq(Cell)
    BY <2>1, <2>3
  <2> QED
    BY <2>1, <2>4
<1> QED
  BY <1>2, <1>3 DEF Rebuilt

\* The limits in force are natural numbers.
LEMMA LimitsType ==
  ASSUME NEW cfg \in Config, NEW lim \in [Prov -> Nat], NEW old \in [Cell -> Nat],
         NEW S \in SUBSET Cell, \A k \in S : IdOf[k] \in Listed(cfg)
  PROVE  Limits(cfg, lim, S, old) \in [Cell -> Nat]
<1>1. \A k \in S : Home(cfg, IdOf[k]) \in Prov
  BY HomeType
<1> QED
  BY <1>1 DEF Limits

\* A fingerprint of a set of Key objects picks one of them.
LEMMA CellInSet ==
  ASSUME NEW S \in SUBSET Cell, NEW f, \E k \in S : IdOf[k] = f
  PROVE  CellIn(S, f) \in S /\ IdOf[CellIn(S, f)] = f
  BY DEF CellIn

\* The Key objects that adopt puts in rotation: one for each listed fingerprint,
\* the one in rotation if there is one, or else one that no request has.
LEMMA ObjectFacts ==
  ASSUME NEW cfg, NEW f \in Listed(cfg),
         \A g \in Listed(cfg) \ Kept : \E k \in Spare : IdOf[k] = g
  PROVE  /\ Object(cfg, f) \in Cell /\ IdOf[Object(cfg, f)] = f
         /\ Object(cfg, f) \in Rotation \/ Unused(Object(cfg, f))
         /\ f \in Kept => Object(cfg, f) \in Rotation
<1>1. Rotation \in SUBSET Cell /\ Spare \in SUBSET Cell
  BY DEF Rotation, Spare
<1>2. CASE f \in Kept
  <2>1. \E k \in Rotation : IdOf[k] = f
    BY <1>2 DEF Kept
  <2>2. CellIn(Rotation, f) \in Rotation /\ IdOf[CellIn(Rotation, f)] = f
    BY <1>1, <2>1, CellInSet
  <2> QED
    BY <1>1, <1>2, <2>2 DEF Object
<1>3. CASE f \notin Kept
  <2>1. CellIn(Spare, f) \in Spare /\ IdOf[CellIn(Spare, f)] = f
    BY <1>1, <1>3, CellInSet
  <2> QED
    BY <1>1, <1>3, <2>1 DEF Object, Spare
<1> QED
  BY <1>2, <1>3

-----------------------------------------------------------------------------
(* The inductive invariant: types, and live counting the holders.  live is *)
(* only known to stay a natural number because of what it counts.          *)

Inv == TypeOK /\ LiveCounted

\* Every caller set is finite, so holders can be counted.
LEMMA HoldersFinite ==
  ASSUME NEW k
  PROVE  IsFiniteSet(Holders(k)) /\ IsFiniteSet(Holders(k)')
  BY CallerAssumption, FS_Subset DEF Holders

\* A pool starts well typed with nothing reserved.
LEMMA StartInv ==
  ASSUME NEW cfg \in Config, Start(cfg)
  PROVE  Inv
<1> DEFINE obj == [f \in Id |-> CellIn(Cell, f)]
           S == {obj[f] : f \in Listed(cfg)}
           none == [k \in Cell |-> 0]
<1>1. \A f \in Listed(cfg) : f \in Id /\ obj[f] \in Cell /\ IdOf[obj[f]] = f
  BY CellAssumption, CellInSet DEF Listed
<1>2. S \in SUBSET Cell /\ \A k \in S : IdOf[k] \in Listed(cfg)
  BY <1>1
<1>3. none \in [Cell -> Nat] /\ cfg.rpd \in [Prov -> Nat] /\ cfg.rpm \in [Prov -> Nat]
  BY ConfigAssumption
<1>4. slots = Rebuilt(cfg, obj) /\ rpd = Limits(cfg, cfg.rpd, S, none)
      /\ rpm = Limits(cfg, cfg.rpm, S, none)
  BY DEF Start
<1>5. slots \in [Prov -> Seq(Cell)]
  BY <1>1, <1>4, RebuiltType
<1>6. rpd \in [Cell -> Nat] /\ rpm \in [Cell -> Nat]
  <2> HIDE DEF S, none
  <2> QED BY <1>2, <1>3, <1>4, LimitsType
<1>7. Len(Ladder) \in Nat \ {0} /\ DayLen \in Nat \ {0}
  BY TimeAssumption
<1>8. TypeOK
  <2>1. /\ clock = 0 /\ dayDue = FALSE /\ minDue = FALSE /\ rr = [p \in Prov |-> 0]
        /\ seen \subseteq Id
        /\ cool = none /\ step = none /\ dead = [k \in Cell |-> FALSE]
        /\ reqs = none /\ mins = none /\ live = none
        /\ holds = [c \in Caller |-> NoKey] /\ relays = [c \in Caller |-> NoKey]
    BY DEF Start, Listed
  <2>2. none \in [Cell -> 0..(Len(Ladder) - 1)] /\ clock \in 0..(DayLen - 1)
    BY <2>1, <1>7
  <2> QED
    BY <2>1, <2>2, <1>3, <1>5, <1>6 DEF TypeOK
<1>9. LiveCounted
  <2> SUFFICES ASSUME NEW k \in Cell PROVE live[k] = Cardinality(Holders(k))
    BY DEF LiveCounted
  <2>1. Holders(k) = {} /\ live[k] = 0
    BY CellAssumption DEF Start, Holders
  <2> QED
    BY <2>1, FS_EmptySet
<1> QED
  BY <1>8, <1>9 DEF Inv

\* roll keeps the types of what it changes.
LEMMA RollType ==
  ASSUME TypeOK, RollOnly
  PROVE  /\ clock' \in 0..(DayLen - 1) /\ dayDue' \in BOOLEAN /\ minDue' \in BOOLEAN
         /\ reqs' \in [Cell -> Nat] /\ mins' \in [Cell -> Nat]
  BY RolledType DEF TypeOK, RollOnly, Roll

\* A reservation adds its caller to the holders of the key.
LEMMA Reserve ==
  ASSUME Inv, NEW c \in Caller, NEW k \in Cell, holds[c] = NoKey,
         live' = [live EXCEPT ![k] = @ + 1], holds' = [holds EXCEPT ![c] = k]
  PROVE  /\ live' \in [Cell -> Nat] /\ holds' \in [Caller -> Cell \cup {NoKey}]
         /\ LiveCounted'
<1>1. /\ live \in [Cell -> Nat] /\ holds \in [Caller -> Cell \cup {NoKey}] /\ k # NoKey
      /\ \A j \in Cell : live[j] = Cardinality(Holders(j))
  BY CellAssumption DEF Inv, TypeOK, LiveCounted
<1>2. Holders(k)' = Holders(k) \cup {c} /\ c \notin Holders(k)
  BY <1>1 DEF Holders
<1>3. Cardinality(Holders(k)') = Cardinality(Holders(k)) + 1
  BY <1>2, HoldersFinite, FS_AddElement
<1>4. \A j \in Cell \ {k} : Holders(j)' = Holders(j)
  BY <1>1, CellAssumption DEF Holders
<1>5. \A j \in Cell : live'[j] = Cardinality(Holders(j)')
  BY <1>1, <1>3, <1>4
<1> QED
  BY <1>1, <1>5 DEF LiveCounted

\* Giving a reservation back removes its caller, who was counted.
LEMMA Release ==
  ASSUME Inv, NEW c \in Caller, holds[c] # NoKey,
         live' = [live EXCEPT ![holds[c]] = @ - 1], holds' = [holds EXCEPT ![c] = NoKey]
  PROVE  /\ live' \in [Cell -> Nat] /\ holds' \in [Caller -> Cell \cup {NoKey}]
         /\ LiveCounted'
<1>1. PICK k \in Cell : k = holds[c]
  BY DEF Inv, TypeOK
<1>. /\ live \in [Cell -> Nat] /\ holds \in [Caller -> Cell \cup {NoKey}]
     /\ \A j \in Cell : live[j] = Cardinality(Holders(j))
  BY DEF Inv, TypeOK, LiveCounted
<1>2. Holders(k)' = Holders(k) \ {c} /\ c \in Holders(k)
  BY <1>1, CellAssumption DEF Holders
<1>3. Cardinality(Holders(k)') = Cardinality(Holders(k)) - 1
  BY <1>2, HoldersFinite, FS_RemoveElement
<1>4. Cardinality(Holders(k)') \in Nat
  BY HoldersFinite, FS_CardinalityType
<1>5. \A j \in Cell \ {k} : Holders(j)' = Holders(j)
  BY <1>1, CellAssumption DEF Holders
<1>6. \A j \in Cell : live'[j] = Cardinality(Holders(j)')
  BY <1>1, <1>3, <1>5
<1>7. live' \in [Cell -> Nat]
  BY <1>1, <1>3, <1>4
<1> QED
  BY <1>1, <1>6, <1>7 DEF LiveCounted

\* Without a reservation or a release, the count stays right.
LEMMA SameHolders ==
  ASSUME Inv, live' = live, holds' = holds
  PROVE  LiveCounted'
  BY DEF Inv, LiveCounted, Holders

LEMMA TickInv == ASSUME Inv, Tick PROVE Inv'
<1>1. (clock + 1) % DayLen \in 0..(DayLen - 1)
  BY TimeAssumption, ModRange DEF Inv, TypeOK
<1>2. TypeOK'
  BY <1>1 DEF Inv, TypeOK, Tick, rotation, callers
<1>3. LiveCounted'
  BY SameHolders DEF Tick, callers
<1> QED
  BY <1>2, <1>3 DEF Inv

LEMMA LookInv == ASSUME Inv, Look PROVE Inv'
<1>1. TypeOK'
  BY RollType DEF Inv, TypeOK, Look, rotation, health, callers
<1>2. LiveCounted'
  BY SameHolders DEF Look, callers
<1> QED
  BY <1>1, <1>2 DEF Inv

LEMMA PickInv == ASSUME Inv, NEW c \in Caller, NEW p \in Prov, Pick(c, p) PROVE Inv'
<1>1. PICK i \in 0..(Len(slots[p]) - 1) :
        /\ rr' = [rr EXCEPT ![p] = (@ + i + 1) % Len(slots[p])]
        /\ live' = [live EXCEPT ![Visit(p, i)] = @ + 1]
        /\ holds' = [holds EXCEPT ![c] = Visit(p, i)]
  BY DEF Pick
<1>2. Len(slots[p]) \in Nat \ {0} /\ Visit(p, i) \in Cell
  BY VisitInRotation DEF Inv
<1>3. (rr[p] + i + 1) % Len(slots[p]) \in Nat
  <2>1. rr[p] \in Nat
    BY DEF Inv, TypeOK
  <2>2. rr[p] + i + 1 \in Nat
    BY <2>1, <1>2
  <2>3. (rr[p] + i + 1) % Len(slots[p]) \in 0..(Len(slots[p]) - 1)
    BY <2>2, <1>2, ModRange
  <2> QED
    BY <2>3, <1>2
<1>4. /\ live' \in [Cell -> Nat] /\ holds' \in [Caller -> Cell \cup {NoKey}] /\ LiveCounted'
  BY <1>1, <1>2, Reserve DEF Pick
<1>5. rr' \in [Prov -> Nat]
  BY <1>1, <1>3 DEF Inv, TypeOK
<1>6. TypeOK'
  BY <1>4, <1>5, RollType DEF Inv, TypeOK, Pick, health
<1> QED
  BY <1>4, <1>6 DEF Inv

LEMMA FailInv ==
  ASSUME Inv, NEW c \in Caller, NEW code \in Code, NEW retry \in Hint, Fail(c, code, retry)
  PROVE  Inv'
<1>1. holds[c] \in Cell /\ code \in Nat /\ retry \in Nat
  BY TimeAssumption DEF Inv, TypeOK, Fail
<1>2. /\ live' \in [Cell -> Nat] /\ holds' \in [Caller -> Cell \cup {NoKey}] /\ LiveCounted'
  BY Release DEF Fail
<1>3. /\ cool' \in [Cell -> Nat] /\ step' \in [Cell -> 0..(Len(Ladder) - 1)]
      /\ dead' \in [Cell -> BOOLEAN]
  BY <1>1, BenchType DEF Inv, Fail
<1>4. TypeOK'
  BY <1>2, <1>3, RollType DEF Inv, TypeOK, Fail, rotation
<1> QED
  BY <1>2, <1>4 DEF Inv

LEMMA DoneInv == ASSUME Inv, NEW c \in Caller, Done(c) PROVE Inv'
<1>1. /\ live' \in [Cell -> Nat] /\ holds' \in [Caller -> Cell \cup {NoKey}] /\ LiveCounted'
  BY Release DEF Done
<1>2. TypeOK'
  BY <1>1 DEF Inv, TypeOK, Done, time, rotation, health
<1> QED
  BY <1>1, <1>2 DEF Inv

LEMMA OkInv == ASSUME Inv, NEW c \in Caller, Ok(c) PROVE Inv'
<1>1. holds[c] \in Cell
  BY DEF Inv, TypeOK, Ok
<1>2. /\ live' \in [Cell -> Nat] /\ holds' \in [Caller -> Cell \cup {NoKey}] /\ LiveCounted'
  BY Release DEF Ok
<1>3. reqs' \in [Cell -> Nat] /\ mins' \in [Cell -> Nat]
  <2>1. /\ reqs' = [RolledReqs EXCEPT ![holds[c]] = @ + 1]
        /\ mins' = [RolledMins EXCEPT ![holds[c]] = @ + 1]
    BY DEF Ok
  <2>2. RolledReqs \in [Cell -> Nat] /\ RolledMins \in [Cell -> Nat]
    BY RolledType DEF Inv
  <2> QED
    BY <1>1, <2>1, <2>2
<1>4. 0 \in 0..(Len(Ladder) - 1)
  BY TimeAssumption
<1>5. cool' \in [Cell -> Nat] /\ step' \in [Cell -> 0..(Len(Ladder) - 1)]
  BY <1>4 DEF Inv, TypeOK, Ok
<1>6. relays' \in [Caller -> Cell \cup {NoKey}]
  BY <1>1 DEF Inv, TypeOK, Ok
<1>7. TypeOK'
  BY <1>2, <1>3, <1>5, <1>6 DEF Inv, TypeOK, Ok, Roll, rotation
<1> QED
  BY <1>2, <1>7 DEF Inv

LEMMA SourInv == ASSUME Inv, NEW c \in Caller, Sour(c) PROVE Inv'
<1>1. relays[c] \in Cell
  BY DEF Inv, TypeOK, Sour
<1>2. /\ cool' \in [Cell -> Nat] /\ step' \in [Cell -> 0..(Len(Ladder) - 1)]
      /\ dead' \in [Cell -> BOOLEAN]
  BY <1>1, BenchType DEF Inv, Sour
<1>3. TypeOK'
  BY <1>2, RollType DEF Inv, TypeOK, Sour, rotation
<1>4. LiveCounted'
  BY SameHolders DEF Sour
<1> QED
  BY <1>3, <1>4 DEF Inv

LEMMA FinishInv == ASSUME Inv, NEW c \in Caller, Finish(c) PROVE Inv'
<1>1. TypeOK'
  BY DEF Inv, TypeOK, Finish, time, rotation, health
<1>2. LiveCounted'
  BY SameHolders DEF Finish
<1> QED
  BY <1>1, <1>2 DEF Inv

\* The Key objects that adopt zeroes have no holders.
LEMMA AdoptInv == ASSUME Inv, NEW cfg \in Config, Adopt(cfg) PROVE Inv'
<1> DEFINE obj   == [f \in Listed(cfg) |-> Object(cfg, f)]
           S     == {obj[f] : f \in Listed(cfg)}
           blank == (S \ Rotation) \cup {k \in Cell \ S : Unused(k)}
<1>1. \A f \in Listed(cfg) : /\ obj[f] \in Cell /\ IdOf[obj[f]] = f
                             /\ obj[f] \in Rotation \/ Unused(obj[f])
  BY ObjectFacts DEF Adopt
<1>2. S \in SUBSET Cell /\ \A k \in S : IdOf[k] \in Listed(cfg)
  BY <1>1
<1>3. \A k \in blank : k \in Cell /\ Unused(k)
  BY <1>1
<1>4. \A f \in [Cell -> Nat] : Zeroed(f, blank) \in [Cell -> Nat]
  BY DEF Zeroed
<1>5. /\ slots' = Rebuilt(cfg, obj)
      /\ rpd' = Limits(cfg, cfg.rpd, S, Zeroed(rpd, blank))
      /\ rpm' = Limits(cfg, cfg.rpm, S, Zeroed(rpm, blank))
      /\ cool' = Zeroed(cool, blank) /\ step' = Zeroed(step, blank)
      /\ dead' = [k \in Cell |-> IF k \in blank THEN FALSE ELSE dead[k]]
      /\ reqs' = Zeroed(reqs, blank) /\ mins' = Zeroed(mins, blank)
      /\ live' = Zeroed(live, blank)
      /\ rr' = [p \in Prov |-> 0] /\ seen' = seen \cup (Listed(cfg) \ Keyless)
      /\ UNCHANGED <<time, callers>>
  BY DEF Adopt, ResetCursors, Mask
<1>6. slots' \in [Prov -> Seq(Cell)]
  BY <1>1, <1>5, RebuiltType
<1>7. rpd' \in [Cell -> Nat] /\ rpm' \in [Cell -> Nat]
  <2>1. cfg.rpd \in [Prov -> Nat] /\ cfg.rpm \in [Prov -> Nat]
    BY ConfigAssumption
  <2>2. Zeroed(rpd, blank) \in [Cell -> Nat] /\ Zeroed(rpm, blank) \in [Cell -> Nat]
    BY <1>4 DEF Inv, TypeOK
  <2> HIDE DEF S, blank
  <2> QED
    BY <2>1, <2>2, <1>2, <1>5, LimitsType
<1>8. step' \in [Cell -> 0..(Len(Ladder) - 1)]
  <2>1. 0 \in 0..(Len(Ladder) - 1)
    BY TimeAssumption
  <2> QED
    BY <2>1, <1>5 DEF Zeroed, Inv, TypeOK
<1>9. /\ cool' \in [Cell -> Nat] /\ reqs' \in [Cell -> Nat]
      /\ mins' \in [Cell -> Nat] /\ live' \in [Cell -> Nat] /\ dead' \in [Cell -> BOOLEAN]
  <2> HIDE DEF blank
  <2> QED
    BY <1>4, <1>5 DEF Inv, TypeOK
<1>10. rr' \in [Prov -> Nat] /\ seen' \subseteq Id
  BY <1>5 DEF Inv, TypeOK, Listed
<1>11. TypeOK'
  <2> HIDE DEF S, blank, obj
  <2> QED
    BY <1>5, <1>6, <1>7, <1>8, <1>9, <1>10 DEF Inv, TypeOK, time, callers
<1>12. LiveCounted'
  <2> SUFFICES ASSUME NEW k \in Cell PROVE live'[k] = Cardinality(Holders(k)')
    BY DEF LiveCounted
  <2>1. Holders(k)' = Holders(k)
    BY <1>5 DEF Holders, callers
  <2>2. CASE k \in blank
    <3>1. Holders(k) = {}
      BY <1>3, <2>2 DEF Unused, Holders
    <3>2. live'[k] = 0
      BY <1>5, <2>2 DEF Zeroed
    <3> QED
      BY <2>1, <3>1, <3>2, FS_EmptySet
  <2>3. CASE k \notin blank
    <3>1. live'[k] = live[k]
      BY <1>5, <2>3 DEF Zeroed
    <3> QED
      BY <2>1, <3>1 DEF Inv, LiveCounted
  <2> QED
    BY <2>2, <2>3
<1> QED
  BY <1>11, <1>12 DEF Inv

LEMMA NextInv == Inv /\ [Next]_vars => Inv'
<1> SUFFICES ASSUME Inv, [Next]_vars PROVE Inv'
  OBVIOUS
<1>1. CASE Tick
  BY <1>1, TickInv
<1>2. CASE Look \/ \E p \in Prov : Miss(p)
  BY <1>2, LookInv DEF Miss
<1>3. CASE \E c \in Caller, p \in Prov : Pick(c, p)
  BY <1>3, PickInv
<1>4. CASE \E c \in Caller : Resolve(c)
  BY <1>4, DoneInv, OkInv, FailInv DEF Resolve
<1>5. CASE \E c \in Caller : Settle(c)
  BY <1>5, FinishInv, SourInv DEF Settle
<1>6. CASE \E cfg \in Config : Adopt(cfg)
  BY <1>6, AdoptInv
<1>7. CASE UNCHANGED vars
  <2>1. TypeOK'
    BY <1>7 DEF Inv, TypeOK, vars, time, rotation, health, callers
  <2>2. LiveCounted'
    BY <1>7, SameHolders DEF vars, callers
  <2> QED
    BY <2>1, <2>2 DEF Inv
<1> QED
  BY <1>1, <1>2, <1>3, <1>4, <1>5, <1>6, <1>7 DEF Next

-----------------------------------------------------------------------------
(* The theorems.                                                           *)

\* The pool's state is always well typed: in particular no counter of
\* reservations ever goes below zero and no rung leaves the ladder.
THEOREM TypeCorrect == Spec => []TypeOK
<1>1. Init => Inv
  BY StartInv DEF Init
<1>2. Inv => TypeOK
  BY DEF Inv
<1> QED
  BY <1>1, <1>2, NextInv, PTL DEF Spec

\* k.live is always the number of requests that hold k: every reservation that
\* pick makes is given back once, by ok, fail or done, whatever reloads do.
THEOREM ReservationsCounted == Spec => []LiveCounted
<1>1. Init => Inv
  BY StartInv DEF Init
<1>2. Inv => LiveCounted
  BY DEF Inv
<1> QED
  BY <1>1, <1>2, NextInv, PTL DEF Spec

-----------------------------------------------------------------------------
(* What soonest says of the time to wait.                                  *)

\* A nonempty set of numbers has a least one.
LEMMA LeastNatural ==
  ASSUME NEW S \in SUBSET Nat, S # {}
  PROVE  \E m \in S : \A n \in S : m <= n
<1> DEFINE R == {x \in Nat \X Nat : x[1] < x[2]}
<1>1. R = OpToRel(<, Nat)
  BY DEF OpToRel
<1>2. IsWellFoundedOn(R, Nat)
  BY <1>1, NatLessThanWellFounded
<1> HIDE DEF R
<1>3. PICK m \in S : \A n \in S : <<n, m>> \notin R
  BY <1>2, WFMin
<1>4. \A n \in S : n \in Nat /\ m \in Nat /\ ~(n < m)
  BY <1>3 DEF R
<1> QED
  BY <1>4

LEMMA TillMinuteType == TypeOK => TillMinute \in Nat \ {0}
<1> SUFFICES ASSUME TypeOK PROVE TillMinute \in Nat \ {0}
  OBVIOUS
<1>1. clock \in Nat /\ MinuteLen \in Nat \ {0}
  BY TimeAssumption DEF TypeOK
<1>2. clock % MinuteLen \in 0..(MinuteLen - 1)
  BY <1>1, ModRange
<1> QED
  BY <1>1, <1>2 DEF TillMinute

\* The keys of ps that time alone can free, and the waits that soonest compares.
Waiting(ps) == {k \in Cell : /\ ~dead[k] /\ ~Spent(k)
                             /\ \E p \in ps : \E i \in DOMAIN slots[p] : slots[p][i] = k}
Waits(ps) == {Wait(k) : k \in Waiting(ps)} \ {0}

\* soonest is the least of the waits, and 0 when there is none.
LEMMA SoonestLeast ==
  ASSUME TypeOK, NEW ps
  PROVE  /\ Waits(ps) \subseteq Nat \ {0}
         /\ Waits(ps) = {} => Soonest(ps) = 0
         /\ Waits(ps) # {} => Soonest(ps) \in Waits(ps) /\ \A e \in Waits(ps) : Soonest(ps) <= e
<1>1. Waits(ps) \subseteq Nat \ {0}
  BY TillMinuteType DEF Waits, Waiting, Wait, TypeOK
<1>2. Soonest(ps) = IF Waits(ps) = {} THEN 0
                    ELSE CHOOSE d \in Waits(ps) : \A e \in Waits(ps) : d <= e
  BY DEF Soonest, Waits, Waiting
<1>3. ASSUME Waits(ps) # {}
      PROVE  \E d \in Waits(ps) : \A e \in Waits(ps) : d <= e
  BY <1>1, <1>3, LeastNatural
<1> QED
  BY <1>1, <1>2, <1>3

LEMMA SoonestType == ASSUME TypeOK, NEW ps PROVE Soonest(ps) \in Nat
  BY SoonestLeast

\* The wait of a key that time alone can free, when nobody holds it: that much
\* time frees it, and less does not.
LEMMA WaitIsExact ==
  ASSUME TypeOK, NEW k \in Cell, live[k] = 0, NEW t \in Nat, clock + t < DayLen
  PROVE  /\ ~dead[k] /\ ~Spent(k) /\ Wait(k) = t => FreeIn(k, t)
         /\ FreeIn(k, t) => ~dead[k] /\ ~Spent(k) /\ Wait(k) <= t
         /\ ~dead[k] /\ ~Spent(k) /\ Wait(k) = 0 => Free(k)
<1>1. /\ cool[k] \in Nat /\ rpd[k] \in Nat /\ rpm[k] \in Nat
      /\ RolledReqs[k] \in Nat /\ RolledMins[k] \in Nat
      /\ clock \in Nat /\ DayLen \in Nat /\ TillMinute \in Nat \ {0}
  <2>1. RolledReqs \in [Cell -> Nat] /\ RolledMins \in [Cell -> Nat]
    BY RolledType
  <2>2. clock \in Nat /\ DayLen \in Nat
    BY TimeAssumption DEF TypeOK
  <2>3. TillMinute \in Nat \ {0}
    BY TillMinuteType
  <2> QED
    BY <2>1, <2>2, <2>3 DEF TypeOK
<1>2. ~(clock + t >= DayLen)
  BY <1>1
<1>3. /\ Spent(k) <=> rpd[k] > 0 /\ RolledReqs[k] >= rpd[k]
      /\ Capped(k) <=> rpm[k] > 0 /\ RolledMins[k] >= rpm[k]
  BY <1>1 DEF Spent, Capped
<1>4. FreeIn(k, t) <=> /\ ~dead[k] /\ cool[k] <= t /\ ~Spent(k)
                       /\ rpm[k] = 0 \/ t >= TillMinute \/ RolledMins[k] < rpm[k]
  BY <1>1, <1>2, <1>3 DEF FreeIn
<1>5. Wait(k) = IF Capped(k) /\ TillMinute > cool[k] THEN TillMinute ELSE cool[k]
  BY DEF Wait
<1>6. Capped(k) => Wait(k) >= TillMinute /\ Wait(k) >= cool[k]
  BY <1>1, <1>5
<1>7. ~Capped(k) => Wait(k) = cool[k]
  BY <1>5
<1>8. ASSUME ~dead[k], ~Spent(k), Wait(k) = t PROVE FreeIn(k, t)
  BY <1>1, <1>3, <1>4, <1>6, <1>7, <1>8
<1>9. ASSUME FreeIn(k, t) PROVE ~dead[k] /\ ~Spent(k) /\ Wait(k) <= t
  BY <1>1, <1>3, <1>4, <1>5, <1>9
<1>10. ASSUME ~dead[k], ~Spent(k), Wait(k) = 0 PROVE Free(k)
  BY <1>1, <1>5, <1>6, <1>10 DEF Free
<1> QED
  BY <1>8, <1>9, <1>10

LEMMA SoonestExact == TypeOK => SoonestIsExact
<1> SUFFICES ASSUME TypeOK, NEW p \in Prov, Idle(p), ~AnyFree(p)
             PROVE  /\ Soonest({p}) > 0 /\ clock + Soonest({p}) < DayLen => Wakes(p, Soonest({p}))
                    /\ \A t \in 0..(DayLen - 1 - clock) :
                         Wakes(p, t) => Soonest({p}) > 0 /\ Soonest({p}) <= t
  BY DEF SoonestIsExact
<1> DEFINE d == Soonest({p})
<1>1. /\ Waits({p}) \subseteq Nat \ {0}
      /\ Waits({p}) = {} => d = 0
      /\ Waits({p}) # {} => d \in Waits({p}) /\ \A e \in Waits({p}) : d <= e
  BY SoonestLeast
<1> HIDE DEF d
<1>2. \A i \in DOMAIN slots[p] : slots[p][i] \in Cell /\ live[slots[p][i]] = 0 /\ ~Free(slots[p][i])
  BY DEF Idle, AnyFree, TypeOK
<1>3. clock \in Nat /\ DayLen \in Nat
  BY TimeAssumption DEF TypeOK
<1>4. ASSUME d > 0, clock + d < DayLen PROVE Wakes(p, d)
  <2>1. d \in Waits({p}) /\ d \in Nat
    <3>1. d # 0
      BY <1>4
    <3> QED
      BY <1>1, <3>1
  <2>2. PICK k \in Waiting({p}) : Wait(k) = d
    BY <2>1 DEF Waits
  <2>3. PICK i \in DOMAIN slots[p] : slots[p][i] = k
    BY <2>2 DEF Waiting
  <2>4. FreeIn(k, d)
    BY <1>2, <1>4, <2>1, <2>2, <2>3, WaitIsExact DEF Waiting
  <2> QED
    BY <2>3, <2>4 DEF Wakes
<1>5. ASSUME NEW t \in 0..(DayLen - 1 - clock), Wakes(p, t) PROVE d > 0 /\ d <= t
  <2>1. PICK i \in DOMAIN slots[p] : FreeIn(slots[p][i], t)
    BY <1>5 DEF Wakes
  <2>2. PICK k \in Cell : k = slots[p][i] /\ live[k] = 0 /\ ~Free(k)
    BY <1>2
  <2>3. t \in Nat /\ clock + t < DayLen
    BY <1>3
  <2>4. ~dead[k] /\ ~Spent(k) /\ Wait(k) <= t /\ Wait(k) # 0
    BY <2>1, <2>2, <2>3, WaitIsExact
  <2>5. k \in Waiting({p})
    BY <2>2, <2>4 DEF Waiting
  <2>6. Wait(k) \in Waits({p})
    BY <2>4, <2>5 DEF Waits
  <2>7. d \in Nat \ {0} /\ d <= Wait(k) /\ Wait(k) \in Nat
    BY <1>1, <2>6
  <2> QED
    BY <2>3, <2>4, <2>7
<1> QED
  BY <1>4, <1>5 DEF d

\* With no request in flight and no key free, the wait that soonest names is the
\* first moment at which a key is free, short of midnight.
THEOREM WaitsAreExact == Spec => []SoonestIsExact
  BY TypeCorrect, SoonestExact, PTL

=============================================================================
