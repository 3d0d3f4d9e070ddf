--------------------------- MODULE RotationProofs ---------------------------
(***************************************************************************)
(* Proofs that the pool keeps its limits, and that a reload keeps what it  *)
(* must of the rotation it replaces.                                       *)
(***************************************************************************)
EXTENDS PoolProofs

-----------------------------------------------------------------------------
(* The limits: only pick makes what is counted and reserved grow.          *)

\* An action that moves or drops counts, and reserves nothing, keeps the limits.
LEMMA NoGrowth ==
  ASSUME Inv, Inv',
         \A k \in Cell : /\ reqs'[k] + live'[k] <= reqs[k] + live[k]
                         /\ mins'[k] + live'[k] <= mins[k] + live[k]
  PROVE  GrowsWithinCaps
<1>1. \A k \in Cell : /\ reqs[k] \in Nat /\ mins[k] \in Nat /\ live[k] \in Nat
                      /\ reqs'[k] \in Nat /\ mins'[k] \in Nat /\ live'[k] \in Nat
  BY DEF Inv, TypeOK
<1>2. \A k \in Cell : /\ ~(reqs'[k] + live'[k] > reqs[k] + live[k])
                      /\ ~(mins'[k] + live'[k] > mins[k] + live[k])
  BY <1>1
<1> QED
  BY <1>2 DEF GrowsWithinCaps

LEMMA PickWithinCaps ==
  ASSUME Inv, Inv', NEW c \in Caller, NEW p \in Prov, Pick(c, p)
  PROVE  GrowsWithinCaps
<1>1. PICK i \in 0..(Len(slots[p]) - 1) :
        /\ Free(Visit(p, i))
        /\ live' = [live EXCEPT ![Visit(p, i)] = @ + 1]
  BY DEF Pick
<1>2. PICK k \in Cell : k = Visit(p, i)
  BY VisitInRotation DEF Inv
<1>3. reqs' = RolledReqs /\ mins' = RolledMins
  BY DEF Pick, RollOnly
<1>4. /\ RolledReqs \in [Cell -> Nat] /\ RolledMins \in [Cell -> Nat]
      /\ \A j \in Cell : RolledReqs[j] <= reqs[j] /\ RolledMins[j] <= mins[j]
  BY RolledType DEF Inv
<1>5. /\ reqs \in [Cell -> Nat] /\ mins \in [Cell -> Nat] /\ live \in [Cell -> Nat]
      /\ rpd \in [Cell -> Nat] /\ rpm \in [Cell -> Nat]
  BY DEF Inv, TypeOK
<1>6. /\ rpd[k] = 0 \/ RolledReqs[k] + live[k] < rpd[k]
      /\ rpm[k] = 0 \/ RolledMins[k] + live[k] < rpm[k]
  BY <1>1, <1>2, <1>4, <1>5 DEF Free, Spent, Capped
<1>7. live'[k] = live[k] + 1 /\ \A j \in Cell \ {k} : live'[j] = live[j]
  BY <1>1, <1>2, <1>5
<1>8. ASSUME NEW j \in Cell \ {k}
      PROVE  /\ reqs'[j] + live'[j] <= reqs[j] + live[j]
             /\ mins'[j] + live'[j] <= mins[j] + live[j]
  BY <1>3, <1>4, <1>5, <1>7
<1>9. /\ rpd[k] = 0 \/ reqs'[k] + live'[k] <= rpd[k]
      /\ rpm[k] = 0 \/ mins'[k] + live'[k] <= rpm[k]
  BY <1>3, <1>4, <1>5, <1>6, <1>7
<1>10. /\ reqs' \in [Cell -> Nat] /\ mins' \in [Cell -> Nat] /\ live' \in [Cell -> Nat]
  BY DEF Inv, TypeOK
<1> SUFFICES ASSUME NEW j \in Cell
             PROVE  /\ reqs'[j] + live'[j] > reqs[j] + live[j] =>
                         rpd[j] = 0 \/ reqs'[j] + live'[j] <= rpd[j]
                    /\ mins'[j] + live'[j] > mins[j] + live[j] =>
                         rpm[j] = 0 \/ mins'[j] + live'[j] <= rpm[j]
  BY DEF GrowsWithinCaps
<1>11. CASE j = k
  BY <1>9, <1>11
<1>12. CASE j # k
  <2>1. /\ reqs'[j] + live'[j] <= reqs[j] + live[j]
        /\ mins'[j] + live'[j] <= mins[j] + live[j]
    BY <1>8, <1>12
  <2>2. /\ reqs[j] \in Nat /\ mins[j] \in Nat /\ live[j] \in Nat
        /\ reqs'[j] \in Nat /\ mins'[j] \in Nat /\ live'[j] \in Nat
    BY <1>5, <1>10
  <2> QED
    BY <2>1, <2>2
<1> QED
  BY <1>11, <1>12

\* A release, with or without a count, leaves the sum where it was or lower.
LEMMA ReleaseNoGrowth ==
  ASSUME Inv, NEW c \in Caller, Resolve(c)
  PROVE  \A k \in Cell : /\ reqs'[k] + live'[k] <= reqs[k] + live[k]
                         /\ mins'[k] + live'[k] <= mins[k] + live[k]
<1>1. /\ reqs \in [Cell -> Nat] /\ mins \in [Cell -> Nat] /\ live \in [Cell -> Nat]
  BY DEF Inv, TypeOK
<1>2. /\ RolledReqs \in [Cell -> Nat] /\ RolledMins \in [Cell -> Nat]
      /\ \A k \in Cell : RolledReqs[k] <= reqs[k] /\ RolledMins[k] <= mins[k]
  BY RolledType DEF Inv
<1>3. PICK h \in Cell : h = holds[c]
  BY DEF Inv, TypeOK, Resolve, Done, Ok, Fail
<1>4. live' = [live EXCEPT ![h] = @ - 1]
  BY <1>3 DEF Resolve, Done, Ok, Fail
<1>5. CASE Done(c)
  BY <1>1, <1>4, <1>5 DEF Done
<1>6. CASE reqs' = RolledReqs /\ mins' = RolledMins
  BY <1>1, <1>2, <1>4, <1>6
<1>7. CASE /\ reqs' = [RolledReqs EXCEPT ![h] = @ + 1]
           /\ mins' = [RolledMins EXCEPT ![h] = @ + 1]
  BY <1>1, <1>2, <1>4, <1>7
<1> QED
  BY <1>3, <1>5, <1>6, <1>7 DEF Resolve, Ok, Fail, RollOnly

LEMMA AdoptNoGrowth ==
  ASSUME Inv, NEW cfg \in Config, Adopt(cfg)
  PROVE  \A k \in Cell : /\ reqs'[k] + live'[k] <= reqs[k] + live[k]
                         /\ mins'[k] + live'[k] <= mins[k] + live[k]
<1> DEFINE S     == {[g \in Listed(cfg) |-> Object(cfg, g)][f] : f \in Listed(cfg)}
           blank == (S \ Rotation) \cup {k \in Cell \ S : Unused(k)}
<1>1. reqs' = Zeroed(reqs, blank) /\ mins' = Zeroed(mins, blank) /\ live' = Zeroed(live, blank)
  BY DEF Adopt
<1> HIDE DEF blank
<1> QED
  BY <1>1 DEF Zeroed, Inv, TypeOK

LEMMA StepWithinCaps == Inv /\ Inv' /\ [Next]_vars => GrowsWithinCaps
<1> SUFFICES ASSUME Inv, Inv', [Next]_vars PROVE GrowsWithinCaps
  OBVIOUS
<1>1. CASE UNCHANGED <<reqs, mins, live>>
  BY <1>1 DEF GrowsWithinCaps, Inv, TypeOK
<1>2. CASE RollOnly /\ live' = live
  <2>1. \A k \in Cell : RolledReqs[k] <= reqs[k] /\ RolledMins[k] <= mins[k]
    BY RolledType DEF Inv
  <2>2. \A k \in Cell : /\ reqs'[k] + live'[k] <= reqs[k] + live[k]
                         /\ mins'[k] + live'[k] <= mins[k] + live[k]
    BY <1>2, <2>1, RolledType DEF RollOnly, Inv, TypeOK
  <2> QED
    BY <2>2, NoGrowth
<1>3. CASE Tick
  BY <1>1, <1>3 DEF Tick
<1>4. CASE Look \/ \E p \in Prov : Miss(p)
  BY <1>2, <1>4 DEF Look, Miss
<1>5. CASE \E c \in Caller, p \in Prov : Pick(c, p)
  BY <1>5, PickWithinCaps
<1>6. CASE \E c \in Caller : Resolve(c)
  BY <1>6, ReleaseNoGrowth, NoGrowth
<1>7. CASE \E c \in Caller : Settle(c)
  BY <1>1, <1>2, <1>7 DEF Settle, Finish, Sour
<1>8. CASE \E cfg \in Config : Adopt(cfg)
  BY <1>8, AdoptNoGrowth, NoGrowth
<1>9. CASE UNCHANGED vars
  BY <1>1, <1>9 DEF vars
<1> QED
  BY <1>3, <1>4, <1>5, <1>6, <1>7, <1>8, <1>9 DEF Next

\* No interleaving ever commits a key to more requests than its daily and minute
\* limits in force, however many callers pick at once.
THEOREM LimitsKept == Spec => CapsRespected
<1>1. Init => Inv
  BY StartInv DEF Init
<1> QED
  BY <1>1, NextInv, StepWithinCaps, PTL DEF Spec, CapsRespected

-----------------------------------------------------------------------------
(* The rotation: the cursors, the scrubber and the identity of the keys.   *)

\* One Key object of a fingerprint is in rotation, so that adopt can find it.
OneObjectEach == \A j, k \in Rotation : IdOf[j] = IdOf[k] => j = k

\* The scrubber knows the secrets in rotation, from which pick takes its keys.
RotationMasked == \A k \in Rotation : IdOf[k] \in seen \cup Keyless

RotationInv == Inv /\ CursorInRange /\ OneObjectEach /\ RotationMasked /\ UsedKeysMasked

\* What is in rotation once a rotation has been built: the objects it was built of.
LEMMA RebuiltRotation ==
  ASSUME NEW cfg \in Config, NEW obj, \A f \in Listed(cfg) : obj[f] \in Cell,
         NEW s, s = Rebuilt(cfg, obj), NEW p \in Prov, NEW i \in DOMAIN s[p]
  PROVE  \E f \in Listed(cfg) : s[p][i] = obj[f]
<1>1. i \in DOMAIN cfg.slots[p] /\ cfg.slots[p][i] \in Listed(cfg)
  BY RebuiltType
<1>2. s[p][i] = obj[cfg.slots[p][i]]
  BY <1>1, RebuiltType
<1> QED
  BY <1>1, <1>2

LEMMA StartRotation ==
  ASSUME NEW cfg \in Config, Start(cfg)
  PROVE  RotationInv
<1> DEFINE obj == [f \in Id |-> CellIn(Cell, f)]
<1>1. \A f \in Listed(cfg) : obj[f] \in Cell /\ IdOf[obj[f]] = f
  BY CellAssumption, CellInSet DEF Listed
<1>2. slots = Rebuilt(cfg, obj) /\ seen = Listed(cfg) \ Keyless
  BY DEF Start
<1>3. \A k \in Rotation : \E f \in Listed(cfg) : k = obj[f]
  <2> HIDE DEF obj
  <2> QED
    BY <1>1, <1>2, RebuiltRotation DEF Rotation
<1>4. OneObjectEach /\ RotationMasked
  <2> HIDE DEF obj
  <2> QED
    BY <1>1, <1>2, <1>3 DEF OneObjectEach, RotationMasked
<1>5. CursorInRange /\ UsedKeysMasked
  BY DEF Start, CursorInRange, UsedKeysMasked
<1> QED
  BY <1>4, <1>5, StartInv DEF RotationInv

\* A step that leaves the rotation alone, and gives callers only keys they had or
\* keys in rotation, keeps all of it.
LEMMA SameRotation ==
  ASSUME RotationInv, Inv', UNCHANGED <<slots, seen>>, CursorInRange',
         \A c \in Caller : \A k \in {holds'[c], relays'[c]} \ {NoKey} :
           k \in Rotation \/ k \in {holds[c], relays[c]}
  PROVE  RotationInv'
<1>1. Rotation' = Rotation
  BY DEF Rotation
<1> QED
  BY <1>1 DEF RotationInv, OneObjectEach, RotationMasked, UsedKeysMasked

LEMMA PickRotation ==
  ASSUME RotationInv, Inv', NEW c \in Caller, NEW p \in Prov, Pick(c, p)
  PROVE  RotationInv'
<1>1. PICK i \in 0..(Len(slots[p]) - 1) :
        /\ rr' = [rr EXCEPT ![p] = (@ + i + 1) % Len(slots[p])]
        /\ holds' = [holds EXCEPT ![c] = Visit(p, i)]
  BY DEF Pick
<1>2. Len(slots[p]) \in Nat \ {0} /\ Visit(p, i) \in Rotation
  BY VisitInRotation DEF RotationInv, Inv
<1>3. (rr[p] + i + 1) % Len(slots[p]) < Len(slots[p])
  <2>1. rr[p] \in Nat
    BY DEF RotationInv, Inv, TypeOK
  <2>2. rr[p] + i + 1 \in Nat
    BY <2>1, <1>2
  <2>3. (rr[p] + i + 1) % Len(slots[p]) \in 0..(Len(slots[p]) - 1)
    BY <2>2, <1>2, ModRange
  <2> QED
    BY <2>3, <1>2
<1>4. slots' = slots /\ seen' = seen /\ relays' = relays
  BY DEF Pick
<1>5. CursorInRange'
  BY <1>1, <1>3, <1>4 DEF RotationInv, Inv, TypeOK, CursorInRange
<1> QED
  BY <1>1, <1>2, <1>4, <1>5, SameRotation DEF RotationInv, Inv, TypeOK

\* A reload puts back the same object for every fingerprint that stays.
LEMMA AdoptRotation ==
  ASSUME RotationInv, Inv', NEW cfg \in Config, Adopt(cfg)
  PROVE  RotationInv' /\ SameObjects
<1> DEFINE obj == [f \in Listed(cfg) |-> Object(cfg, f)]
<1>1. \A f \in Listed(cfg) : /\ obj[f] \in Cell /\ IdOf[obj[f]] = f
                             /\ f \in Kept => obj[f] \in Rotation
  BY ObjectFacts DEF Adopt
<1>2. /\ slots' = Rebuilt(cfg, obj) /\ rr' = [p \in Prov |-> 0]
      /\ seen' = seen \cup (Listed(cfg) \ Keyless) /\ holds' = holds /\ relays' = relays
  BY DEF Adopt, ResetCursors, Mask, callers
<1> HIDE DEF obj
<1>3. \A k \in Rotation' : \E f \in Listed(cfg) : k = obj[f]
  BY <1>1, <1>2, RebuiltRotation DEF Rotation
<1>4. OneObjectEach' /\ RotationMasked'
  BY <1>1, <1>2, <1>3 DEF OneObjectEach, RotationMasked
<1>5. CursorInRange' /\ UsedKeysMasked'
  BY <1>2 DEF RotationInv, CursorInRange, UsedKeysMasked
<1>6. SameObjects
  <2> SUFFICES ASSUME NEW k \in Rotation, NEW j \in Rotation', IdOf[k] = IdOf[j]
               PROVE  /\ j = k
                      /\ UNCHANGED <<cool[k], step[k], dead[k], reqs[k], mins[k], live[k]>>
    BY DEF SameObjects
  <2>1. PICK f \in Listed(cfg) : j = obj[f]
    BY <1>3
  <2>2. f = IdOf[k] /\ f \in Kept
    BY <1>1, <2>1 DEF Kept
  <2>3. j \in Rotation
    BY <1>1, <2>1, <2>2
  <2>4. j = k
    BY <2>3 DEF RotationInv, OneObjectEach
  <2> DEFINE S     == {obj[g] : g \in Listed(cfg)}
             blank == (S \ Rotation) \cup {l \in Cell \ S : Unused(l)}
  <2>5. k \in Cell /\ k \notin blank
    BY <1>1, <2>1, <2>4
  <2>6. /\ cool' = Zeroed(cool, blank) /\ step' = Zeroed(step, blank)
        /\ dead' = [l \in Cell |-> IF l \in blank THEN FALSE ELSE dead[l]]
        /\ reqs' = Zeroed(reqs, blank) /\ mins' = Zeroed(mins, blank)
        /\ live' = Zeroed(live, blank)
    BY DEF Adopt, obj
  <2> HIDE DEF blank
  <2> QED
    BY <2>4, <2>5, <2>6 DEF Zeroed
<1> QED
  BY <1>4, <1>5, <1>6 DEF RotationInv

LEMMA NextRotation == RotationInv /\ [Next]_vars => RotationInv' /\ SameObjects
<1> SUFFICES ASSUME RotationInv, [Next]_vars PROVE RotationInv' /\ SameObjects
  OBVIOUS
<1>1. Inv'
  BY NextInv DEF RotationInv
<1>2. slots' = slots => SameObjects
  BY DEF RotationInv, OneObjectEach, SameObjects, Rotation
<1>3. CASE /\ UNCHANGED <<slots, seen, rr>>
           /\ \A c \in Caller : \A k \in {holds'[c], relays'[c]} \ {NoKey} :
                k \in {holds[c], relays[c]}
  <2>1. CursorInRange'
    BY <1>3 DEF RotationInv, CursorInRange
  <2> QED
    BY <1>1, <1>2, <1>3, <2>1, SameRotation
<1>4. CASE Tick \/ Look \/ \E p \in Prov : Miss(p)
  BY <1>3, <1>4 DEF Tick, Look, Miss, rotation, callers
<1>5. CASE \E c \in Caller, p \in Prov : Pick(c, p)
  BY <1>1, <1>2, <1>5, PickRotation DEF Pick
<1>6. CASE \E c \in Caller : Resolve(c)
  <2>1. PICK c \in Caller : Resolve(c)
    BY <1>6
  <2>2. UNCHANGED rotation
    BY <2>1 DEF Resolve, Done, Ok, Fail
  <2>3. /\ holds' = [holds EXCEPT ![c] = NoKey]
        /\ relays' = relays \/ relays' = [relays EXCEPT ![c] = holds[c]]
    BY <2>1 DEF Resolve, Done, Ok, Fail
  <2>4. \A d \in Caller : \A k \in {holds'[d], relays'[d]} \ {NoKey} :
          k \in {holds[d], relays[d]}
    BY <2>3 DEF RotationInv, Inv, TypeOK
  <2> QED
    BY <1>3, <2>2, <2>4 DEF rotation
<1>7. CASE \E c \in Caller : Settle(c)
  BY <1>3, <1>7 DEF Settle, Finish, Sour, rotation, RotationInv, Inv, TypeOK
<1>8. CASE \E cfg \in Config : Adopt(cfg)
  BY <1>1, <1>8, AdoptRotation
<1>9. CASE UNCHANGED vars
  BY <1>3, <1>9 DEF vars, rotation, callers
<1> QED
  BY <1>4, <1>5, <1>6, <1>7, <1>8, <1>9 DEF Next

\* pick never indexes past the end of a slice that a reload has shortened.
THEOREM CursorsInRange == Spec => []CursorInRange
<1>1. Init => RotationInv
  BY StartRotation DEF Init
<1>2. RotationInv => CursorInRange
  BY DEF RotationInv
<1> QED
  BY <1>1, <1>2, NextRotation, PTL DEF Spec

\* The secret of a key that a request uses is masked in the log, also after a
\* reload has removed the key.
THEOREM SecretsMasked == Spec => []UsedKeysMasked
<1>1. Init => RotationInv
  BY StartRotation DEF Init
<1>2. RotationInv => UsedKeysMasked
  BY DEF RotationInv
<1> QED
  BY <1>1, <1>2, NextRotation, PTL DEF Spec

\* A key that stays configured keeps its counts, its cooldown and its holders
\* through any reload.
THEOREM KeptKeysSurvive == Spec => KeptKeysKeepState
<1>1. Init => RotationInv
  BY StartRotation DEF Init
<1> QED
  BY <1>1, NextRotation, PTL DEF Spec, KeptKeysKeepState

=============================================================================
