-------------------------------- MODULE Pool --------------------------------
(***************************************************************************)
(* The key pool (internal/omny/pool.go): which provider key a request may  *)
(* use, who has it reserved, how long a failing key stays benched, and how *)
(* a reload rebuilds the rotation while requests still hold keys.          *)
(*                                                                         *)
(* A Key struct is a Cell: the pool keeps pointers, so a key that is       *)
(* removed by one reload and added back by a later one is a new object     *)
(* with the fingerprint of the old one, while a request in flight may      *)
(* still hold the old object.  IdOf gives a cell's fingerprint.            *)
(*                                                                         *)
(* Time is kept as countdowns: cool[k] is what is left of k.until, clock   *)
(* is the time of day, and dayDue and minDue say that a midnight or a      *)
(* minute boundary has passed since p.day and p.min were last brought up   *)
(* to date by roll.  Every lock-protected method is one action.  Errors    *)
(* seen, tokens spent and measured latency do not decide who may use a key *)
(* and are left out.                                                       *)
(***************************************************************************)
EXTENDS Integers, Sequences, FiniteSets

CONSTANTS
  Id,            \* key fingerprints (slot.id)
  Keyless,       \* the fingerprints that stand for no secret
  Cell,          \* Key objects
  IdOf,          \* the fingerprint of each Key object
  Prov,          \* provider names
  Caller,        \* request goroutines
  NoKey,         \* the nil *Key
  Config,        \* the configs a reload may load, each one valid
  Code,          \* the failure codes an attempt may end with
  Hint,          \* the waits a provider may ask for, 0 for none
  Ladder,        \* the cooldown ladder
  MinuteLen,     \* ticks in a minute
  DayLen,        \* ticks in a day
  MaxReqs        \* bound: no key is picked beyond this many requests a day

Listed(cfg) == {f \in Id : \E p \in Prov : \E i \in DOMAIN cfg.slots[p] : cfg.slots[p][i] = f}

ASSUME CellAssumption ==
  /\ IdOf \in [Cell -> Id]
  /\ \A f \in Id : \E k \in Cell : IdOf[k] = f
  /\ NoKey \notin Cell
  /\ Keyless \subseteq Id
ASSUME CallerAssumption == IsFiniteSet(Caller)
ASSUME TimeAssumption ==
  /\ Ladder \in Seq(Nat \ {0}) /\ Len(Ladder) > 0
  /\ MinuteLen \in Nat \ {0} /\ DayLen \in Nat \ {0}
  /\ DayLen % MinuteLen = 0
  /\ Hint \subseteq Nat /\ Code \subseteq Nat /\ MaxReqs \in Nat
\* Config.check refuses a key that is listed twice and a negative limit, and a
\* keyless provider has one slot of its own.
ASSUME ConfigAssumption ==
  \A cfg \in Config :
    /\ cfg.slots \in [Prov -> Seq(Id)]
    /\ cfg.rpd \in [Prov -> Nat] /\ cfg.rpm \in [Prov -> Nat]
    /\ \A p, q \in Prov : \A i \in DOMAIN cfg.slots[p], j \in DOMAIN cfg.slots[q] :
         cfg.slots[p][i] = cfg.slots[q][j] => p = q /\ i = j
    /\ \A p \in Prov : \A i \in DOMAIN cfg.slots[p] :
         cfg.slots[p][i] \in Keyless => Len(cfg.slots[p]) = 1

VARIABLES
  clock, dayDue, minDue,          \* p.now, and p.day and p.min against it
  slots, rr, seen,                \* p.keys, p.rr, p.seen
  rpd, rpm,                       \* k.prov.RPD and k.prov.RPM of each cell
  cool, step, dead,               \* k.until, k.step, k.dead
  reqs, mins, live,               \* k.reqs, k.mins, k.live
  holds, relays                   \* the key each caller has reserved, is relaying from

time     == <<clock, dayDue, minDue>>
rotation == <<slots, rr, seen, rpd, rpm>>
health   == <<cool, step, dead>>
callers  == <<holds, relays>>
vars     == <<time, rotation, health, reqs, mins, live, callers>>

-----------------------------------------------------------------------------
(* Reading the pool.                                                       *)

Rotation == {k \in Cell : \E p \in Prov : \E i \in DOMAIN slots[p] : slots[p][i] = k}

Holders(k) == {c \in Caller : holds[c] = k}

NeverRolled == reqs

\* roll: the counters as the next method that takes the lock will see them.
RolledReqs == [k \in Cell |-> IF dayDue /\ k \in Rotation THEN 0 ELSE reqs[k]]
RolledMins == [k \in Cell |-> IF minDue /\ k \in Rotation THEN 0 ELSE mins[k]]

Roll == dayDue' = FALSE /\ minDue' = FALSE /\ clock' = clock

SpentByCountAlone(k) == rpd[k] > 0 /\ RolledReqs[k] >= rpd[k]
Spent(k)  == rpd[k] > 0 /\ RolledReqs[k] + live[k] >= rpd[k]
Capped(k) == rpm[k] > 0 /\ RolledMins[k] + live[k] >= rpm[k]
Free(k)   == ~dead[k] /\ ~Spent(k) /\ ~Capped(k) /\ cool[k] = 0

\* The key pick looks at after skipping i of them.
Visit(p, i) == slots[p][((rr[p] + i) % Len(slots[p])) + 1]

AnyFree(p) == \E i \in DOMAIN slots[p] : Free(slots[p][i])

TillMinute == MinuteLen - (clock % MinuteLen)

WaitOfCooldown(k) == cool[k]
Wait(k) == IF Capped(k) /\ TillMinute > cool[k] THEN TillMinute ELSE cool[k]

\* soonest: the least wait of a key that time alone can free, 0 when none.
Soonest(ps) ==
  LET waits == {Wait(k) : k \in {k \in Cell :
                  /\ ~dead[k] /\ ~Spent(k)
                  /\ \E p \in ps : \E i \in DOMAIN slots[p] : slots[p][i] = k}} \ {0}
  IN  IF waits = {} THEN 0 ELSE CHOOSE d \in waits : \A e \in waits : d <= e

-----------------------------------------------------------------------------
(* The effect of a failure on a key.                                       *)

Revoking(code)  == code \in {401, 403}
Blameless(code) == code >= 400 /\ code < 500 /\ code \notin {429, 402}

NextRungUnclamped(s) == s + 1
NextRung(s) == IF s + 1 < Len(Ladder) THEN s + 1 ELSE Len(Ladder) - 1

Bench(k, code, retry) ==
  \/ /\ Revoking(code)
     /\ dead' = [dead EXCEPT ![k] = TRUE]
     /\ UNCHANGED <<cool, step>>
  \/ /\ Blameless(code) /\ ~Revoking(code)
     /\ UNCHANGED health
  \/ /\ ~Blameless(code) /\ ~Revoking(code) /\ retry > 0
     /\ cool' = [cool EXCEPT ![k] = retry]
     /\ UNCHANGED <<step, dead>>
  \/ /\ ~Blameless(code) /\ ~Revoking(code) /\ retry = 0
     /\ cool' = [cool EXCEPT ![k] = Ladder[step[k] + 1]]
     /\ step' = [step EXCEPT ![k] = NextRung(@)]
     /\ UNCHANGED dead

-----------------------------------------------------------------------------
(* Init and the actions.                                                   *)

CellIn(S, f) == CHOOSE k \in S : IdOf[k] = f

Home(cfg, f) == CHOOSE p \in Prov : \E i \in DOMAIN cfg.slots[p] : cfg.slots[p][i] = f

\* The pool rebuilt from cfg, with Key object obj[f] for fingerprint f.
Rebuilt(cfg, obj) == [p \in Prov |-> [i \in DOMAIN cfg.slots[p] |-> obj[cfg.slots[p][i]]]]

Limits(cfg, lim, S, old) == [k \in Cell |-> IF k \in S THEN lim[Home(cfg, IdOf[k])] ELSE old[k]]

Zeroed(f, S) == [k \in Cell |-> IF k \in S THEN 0 ELSE f[k]]

\* pool(c): a pool that starts from nothing but its config.
Start(cfg) ==
  LET obj  == [f \in Id |-> CellIn(Cell, f)]
      S    == {obj[f] : f \in Listed(cfg)}
      none == [k \in Cell |-> 0]
  IN  /\ clock = 0 /\ dayDue = FALSE /\ minDue = FALSE
      /\ slots = Rebuilt(cfg, obj)
      /\ rr = [p \in Prov |-> 0]
      /\ seen = Listed(cfg) \ Keyless
      /\ rpd = Limits(cfg, cfg.rpd, S, none)
      /\ rpm = Limits(cfg, cfg.rpm, S, none)
      /\ cool = none /\ step = none /\ dead = [k \in Cell |-> FALSE]
      /\ reqs = none /\ mins = none /\ live = none
      /\ holds = [c \in Caller |-> NoKey]
      /\ relays = [c \in Caller |-> NoKey]

Init == \E cfg \in Config : Start(cfg)

Tick ==
  /\ clock' = (clock + 1) % DayLen
  /\ dayDue' = (dayDue \/ clock' = 0)
  /\ minDue' = (minDue \/ clock' % MinuteLen = 0)
  /\ cool' = [k \in Cell |-> IF cool[k] = 0 THEN 0 ELSE cool[k] - 1]
  /\ UNCHANGED <<rotation, step, dead, reqs, mins, live, callers>>

\* The part of a method that rolls the counters and then counts nothing.
RollOnly == Roll /\ reqs' = RolledReqs /\ mins' = RolledMins

\* ready, soonest, order, report, bill and charge: they roll and route nothing.
Look ==
  /\ RollOnly
  /\ UNCHANGED <<rotation, health, live, callers>>

\* Round-robin to the first free key after the cursor, and reserve it.
Pick(c, p) ==
  /\ holds[c] = NoKey /\ relays[c] = NoKey
  /\ \E i \in 0..(Len(slots[p]) - 1) :
       LET k == Visit(p, i)
       IN  /\ Free(k)
           /\ \A j \in 0..(i - 1) : ~Free(Visit(p, j))
           /\ RolledReqs[k] + live[k] < MaxReqs
           /\ rr' = [rr EXCEPT ![p] = (@ + i + 1) % Len(slots[p])]
           /\ live' = [live EXCEPT ![k] = @ + 1]
           /\ holds' = [holds EXCEPT ![c] = k]
  /\ RollOnly
  /\ UNCHANGED <<slots, seen, rpd, rpm, health, relays>>

\* pick finds no free key: the cursor has gone all the way round.
Miss(p) == ~AnyFree(p) /\ Look

Fail(c, code, retry) ==
  /\ holds[c] # NoKey
  /\ live' = [live EXCEPT ![holds[c]] = @ - 1]
  /\ Bench(holds[c], code, retry)
  /\ holds' = [holds EXCEPT ![c] = NoKey]
  /\ RollOnly
  /\ UNCHANGED <<rotation, relays>>

\* The client left before the attempt was decided.  done does not roll.
Done(c) ==
  /\ holds[c] # NoKey
  /\ live' = [live EXCEPT ![holds[c]] = @ - 1]
  /\ holds' = [holds EXCEPT ![c] = NoKey]
  /\ UNCHANGED <<time, rotation, health, reqs, mins, relays>>

\* The attempt won its first token: the request counts and the key is well.
Ok(c) ==
  LET k == holds[c] IN
  /\ k # NoKey
  /\ cool' = [cool EXCEPT ![k] = 0]
  /\ step' = [step EXCEPT ![k] = 0]
  /\ live' = [live EXCEPT ![k] = @ - 1]
  /\ reqs' = [RolledReqs EXCEPT ![k] = @ + 1]
  /\ mins' = [RolledMins EXCEPT ![k] = @ + 1]
  /\ Roll
  /\ holds' = [holds EXCEPT ![c] = NoKey]
  /\ relays' = [relays EXCEPT ![c] = k]
  /\ UNCHANGED <<rotation, dead>>

SourReleasing(c) ==
  /\ relays[c] # NoKey
  /\ Bench(relays[c], 0, 0)
  /\ live' = [live EXCEPT ![relays[c]] = IF @ > 0 THEN @ - 1 ELSE 0]
  /\ relays' = [relays EXCEPT ![c] = NoKey]
  /\ RollOnly
  /\ UNCHANGED <<rotation, holds>>

\* The relay broke after commit: bench the key that ok has already released.
Sour(c) ==
  /\ relays[c] # NoKey
  /\ Bench(relays[c], 0, 0)
  /\ relays' = [relays EXCEPT ![c] = NoKey]
  /\ RollOnly
  /\ UNCHANGED <<rotation, live, holds>>

\* The relay ended well, or the client left it: the caller drops its key.
Finish(c) ==
  /\ relays[c] # NoKey
  /\ relays' = [relays EXCEPT ![c] = NoKey]
  /\ UNCHANGED <<time, rotation, health, reqs, mins, live, holds>>

Unused(k) == \A c \in Caller : holds[c] # k /\ relays[c] # k

Spare == {k \in Cell : Unused(k)} \ Rotation

Kept == {IdOf[k] : k \in Rotation}

ObjectOfProvider(cfg, f) ==
  LET p == Home(cfg, f)
      S == {k \in Rotation : \E i \in DOMAIN slots[p] : slots[p][i] = k}
  IN  IF \E k \in S : IdOf[k] = f THEN CellIn(S, f) ELSE CellIn(Spare, f)

\* The Key object of fingerprint f after a reload: the one in rotation, whatever
\* provider it was under, or else a new one.
Object(cfg, f) == IF f \in Kept THEN CellIn(Rotation, f) ELSE CellIn(Spare, f)

KeepCursors == rr' = rr
ResetCursors == rr' = [p \in Prov |-> 0]

MaskListed(cfg) == seen' = Listed(cfg) \ Keyless
Mask(cfg) == seen' = seen \cup (Listed(cfg) \ Keyless)

\* A reload rebuilds the rotation and keeps the state of every key that stays.
\* An object nobody refers to any more is free memory: it is zeroed here.
Adopt(cfg) ==
  LET obj   == [f \in Listed(cfg) |-> Object(cfg, f)]
      S     == {obj[f] : f \in Listed(cfg)}
      blank == (S \ Rotation) \cup {k \in Cell \ S : Unused(k)}
  IN  /\ \A f \in Listed(cfg) \ Kept : \E k \in Spare : IdOf[k] = f
      /\ slots' = Rebuilt(cfg, obj)
      /\ rpd' = Limits(cfg, cfg.rpd, S, Zeroed(rpd, blank))
      /\ rpm' = Limits(cfg, cfg.rpm, S, Zeroed(rpm, blank))
      /\ ResetCursors
      /\ Mask(cfg)
      /\ cool' = Zeroed(cool, blank)
      /\ step' = Zeroed(step, blank)
      /\ dead' = [k \in Cell |-> IF k \in blank THEN FALSE ELSE dead[k]]
      /\ reqs' = Zeroed(reqs, blank)
      /\ mins' = Zeroed(mins, blank)
      /\ live' = Zeroed(live, blank)
      /\ UNCHANGED <<time, callers>>

\* What a caller must do with a key it has reserved, and with a relay.
\* A provider that was never reached (code 0) cannot have asked for a wait.
Resolve(c) ==
  \/ Done(c)
  \/ Ok(c)
  \/ \E code \in Code, retry \in Hint : (code = 0 => retry = 0) /\ Fail(c, code, retry)

Settle(c) == Finish(c) \/ Sour(c)

Next ==
  \/ Tick
  \/ Look
  \/ \E p \in Prov : Miss(p)
  \/ \E c \in Caller, p \in Prov : Pick(c, p)
  \/ \E c \in Caller : Resolve(c)
  \/ \E c \in Caller : Settle(c)
  \/ \E cfg \in Config : Adopt(cfg)

Spec == Init /\ [][Next]_vars

\* Time passes, and the first-token and idle timers end every attempt and relay.
Fairness == WF_vars(Tick) /\ \A c \in Caller : WF_vars(Resolve(c)) /\ WF_vars(Settle(c))

FairSpec == Spec /\ Fairness

-----------------------------------------------------------------------------
(* Properties.                                                             *)

\* The types of the pool's state.
TypeOK ==
  /\ clock \in 0..(DayLen - 1) /\ dayDue \in BOOLEAN /\ minDue \in BOOLEAN
  /\ slots \in [Prov -> Seq(Cell)] /\ rr \in [Prov -> Nat] /\ seen \subseteq Id
  /\ rpd \in [Cell -> Nat] /\ rpm \in [Cell -> Nat]
  /\ cool \in [Cell -> Nat] /\ step \in [Cell -> 0..(Len(Ladder) - 1)]
  /\ dead \in [Cell -> BOOLEAN]
  /\ reqs \in [Cell -> Nat] /\ mins \in [Cell -> Nat] /\ live \in [Cell -> Nat]
  /\ holds \in [Caller -> Cell \cup {NoKey}] /\ relays \in [Caller -> Cell \cup {NoKey}]

\* Every reservation is given back exactly once: k.live is the number of
\* requests that hold k, also across a reload that drops k (fail, ok, done and
\* sour together release what pick reserved).
LiveCounted == \A k \in Cell : live[k] = Cardinality(Holders(k))

\* The cursor is always an index of the provider's slice, so pick cannot index
\* past the end of a slice that a reload has shortened.
CursorInRange == \A p \in Prov : rr[p] = 0 \/ rr[p] < Len(slots[p])

\* The scrubber still masks the secret of a key that a request is using, even
\* after a reload has removed that key from the config.
UsedKeysMasked ==
  \A c \in Caller : \A k \in {holds[c], relays[c]} \ {NoKey} : IdOf[k] \in seen \cup Keyless

SameObjects ==
  \A k \in Rotation, j \in Rotation' : IdOf[k] = IdOf[j] =>
    /\ j = k
    /\ slots' # slots => UNCHANGED <<cool[k], step[k], dead[k], reqs[k], mins[k], live[k]>>

\* A key that stays configured keeps its Key object across any reload, and a reload
\* that changes the rotation leaves what is reserved, counted and benched under it
\* as it is, also when it moves the key to another provider (pool.go:95-109).
KeptKeysKeepState == [][SameObjects]_vars

GrowsWithinCaps ==
  \A k \in Cell :
    /\ reqs'[k] + live'[k] > reqs[k] + live[k] =>
         rpd[k] = 0 \/ reqs'[k] + live'[k] <= rpd[k]
    /\ mins'[k] + live'[k] > mins[k] + live[k] =>
         rpm[k] = 0 \/ mins'[k] + live'[k] <= rpm[k]

\* No interleaving of picks, results, clock turns and reloads commits a key to
\* more requests than its daily and minute limits: what is counted and reserved
\* only ever grows while it stays within the limit in force.
CapsRespected == [][GrowsWithinCaps]_vars

-----------------------------------------------------------------------------
(* What soonest promises.                                                  *)

\* Whether k would be free d ticks from now if nothing but time happened.
FreeIn(k, d) ==
  LET r == IF clock + d >= DayLen THEN 0 ELSE RolledReqs[k]
      m == IF d >= TillMinute THEN 0 ELSE RolledMins[k]
  IN  /\ ~dead[k] /\ cool[k] <= d
      /\ rpd[k] = 0 \/ r + live[k] < rpd[k]
      /\ rpm[k] = 0 \/ m + live[k] < rpm[k]

\* Whether waiting d ticks, with nothing else happening, frees a key of p.
Wakes(p, d) == \E i \in DOMAIN slots[p] : FreeIn(slots[p][i], d)

Idle(p) == \A i \in DOMAIN slots[p] : live[slots[p][i]] = 0

\* soonest is exact when no request is in flight and no midnight intervenes: with
\* no key free, the wait it names is the first moment at which one is, and it
\* names none only if waiting up to the next midnight would not free a key.
SoonestIsExact ==
  \A p \in Prov :
    LET d == Soonest({p})
    IN  Idle(p) /\ ~AnyFree(p) =>
          /\ d > 0 /\ clock + d < DayLen => Wakes(p, d)
          /\ \A t \in 0..(DayLen - 1 - clock) : Wakes(p, t) => d > 0 /\ d <= t

\* A key that stays configured and is not revoked is usable again and again: no
\* failure, cap or reservation takes it out of rotation for good.
KeysComeBack == \A k \in Cell : []<>(dead[k] \/ k \notin Rotation \/ Free(k))

-----------------------------------------------------------------------------
(* What the comments and documents say, and the code does not do.          *)

Reserved(f) == Cardinality({c \in Caller : holds[c] # NoKey /\ IdOf[holds[c]] = f})

\* Concurrent requests cannot overshoot the cap of a secret: a new reservation
\* leaves the secret within the daily limit of its provider.  A secret that is
\* removed and added back is a new Key object that counts from nothing, while
\* requests still hold the old one.
SecretWithinCap ==
  [][\A k \in Rotation : LET f == IdOf[k] IN
       Reserved(f)' > Reserved(f) => rpd[k] = 0 \/ Reserved(f)' <= rpd[k]]_vars

=============================================================================
