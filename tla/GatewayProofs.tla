--------------------------- MODULE GatewayProofs ---------------------------
(***************************************************************************)
(* What TLAPS proves of Gateway, for any callers, names, configs and keys: *)
(* that its pool behaves as module Pool says, which carries over what is   *)
(* proved there, and the gateway's own invariants.                         *)
(*                                                                         *)
(* A request is a record that only its own goroutine changes, so what is   *)
(* said of it is a predicate of that record: a step is shown to take a     *)
(* record that satisfies it to one that does.                              *)
(***************************************************************************)
EXTENDS Gateway, SequenceTheorems, TLAPS

PP == INSTANCE RotationProofs WITH Config <- {cfg.pool : cfg \in Config}

-----------------------------------------------------------------------------
(* The inductive invariant.                                                *)

Doing == {"new", "route", "walk", "attempt", "again", "nap", "relay", "charged", "end"}

\* What `how` and `out` are until they are set; a name, as the solvers do not
\* read an empty string.
Unset == ""

Request ==
  [pc : Doing, snap : Config, name : Name \cup {{}}, stream : BOOLEAN, left : BOOLEAN,
   i : Nat, ts : Seq(Prov), j : Nat, walked : SUBSET Prov, prov : Prov \cup {Nobody}, meter : BOOLEAN,
   rested : BOOLEAN, nap : 0..Pause, how : {Unset, "whole", "client", "upstream"}, out : Outcome,
   heads : Nat, asked : SUBSET (Name \X Prov), tries : [Name \X Prov -> Nat],
   resent : [Name \X Prov -> Nat], round : 0..Rounds]

NamesOf(r) == <<r.name>> \o r.snap.fallback
NameOf(r)  == NamesOf(r)[r.i]
TriedOf(r) == {NamesOf(r)[n] : n \in 1..r.i}

\* A request that is on the targets of a name.
Walks(r) == r.pc \in {"walk", "attempt", "again", "relay", "charged"}
OnName(r) == Walks(r) \/ r.pc = "nap"

\* Which name the request is at, and that its targets are those of that name.
Shape(r) ==
  /\ r.i \in 0..Len(NamesOf(r)) /\ r.j \in 1..(Len(r.ts) + 1)
  /\ r.pc # "new" => r.name \in Name
  /\ r.pc \in {"new", "end"} => r.i = 0
  /\ r.pc # "end" => r.out = Unset
  /\ OnName(r) => r.i > 0 /\ Range(r.ts) = Range(Targets(r.snap, NameOf(r)))

\* The heads that are written, by where the request is.
Answered(r) ==
  /\ r.pc \in {"relay", "charged"} => r.heads = 1
  /\ r.pc \notin {"relay", "charged", "end"} => r.heads = 0
  /\ r.heads <= 1
  /\ r.pc = "end" /\ r.heads = 0 => r.out = "gone" /\ r.left

CoveredBy(r, n) == \A p \in Range(Targets(r.snap, n)) : <<n, p>> \in r.asked

\* Every target that the walk has passed was asked, so a name that is left is covered.
Ordered(r) ==
  /\ \A n \in 1..(r.i - 1) : CoveredBy(r, NamesOf(r)[n])
  /\ Walks(r) => /\ \A m \in 1..(r.j - 1) : <<NameOf(r), r.ts[m]>> \in r.asked
                 /\ \A p \in r.walked : <<NameOf(r), p>> \in r.asked
  /\ ~Walks(r) /\ r.i > 0 => CoveredBy(r, NameOf(r))
  /\ r.out = "exhausted" => \A n \in DOMAIN NamesOf(r) : CoveredBy(r, NamesOf(r)[n])

\* How often a provider may be attempted for a name.
Allowed(r, n) == IF r.rested /\ n = r.name THEN 2 ELSE 1

\* Only for names it has come to is anything attempted, and a provider that the walk
\* has not attempted can be attempted once more.
Bounded(r) ==
  /\ \A x \in Name \X Prov :
       /\ r.tries[x] <= MaxTries /\ r.tries[x] <= Allowed(r, x[1])
       /\ r.tries[x] > 0 => x[1] \in TriedOf(r)
       /\ r.resent[x] <= IF r.stream THEN r.tries[x] ELSE 0
  /\ r.rested => r.i > 0
  /\ r.pc = "nap" => r.i = 1 /\ ~r.rested
  /\ Walks(r) => \A p \in Prov \ r.walked : r.tries[<<NameOf(r), p>>] < Allowed(r, NameOf(r))

\* An attempt that may still be sent again is of a stream, and was not so far.
Metered(r) ==
  r.pc = "attempt" =>
    /\ r.meter => r.stream
    /\ LET x == <<NameOf(r), r.prov>> IN r.resent[x] < r.tries[x] \/ r.tries[x] = MaxTries

Sound(r) == Shape(r) /\ Answered(r) /\ Ordered(r) /\ Bounded(r) /\ Metered(r)

Typed ==
  /\ mute \subseteq Prov /\ config \in Config /\ loading \subseteq Config
  /\ req \in [Caller -> Request]

Inv ==
  /\ PP!Inv /\ Typed /\ NothingLeaks
  /\ \A c \in Caller : Sound(req[c]) /\ (Attempting(c) => req[c].prov \in Prov)

-----------------------------------------------------------------------------
(* The pool of the gateway is the pool of the proofs.                      *)

LEMMA PoolGiven == PP!CellAssumption /\ PP!CallerAssumption /\ PP!TimeAssumption /\ PP!ConfigAssumption
<1>1. PP!CellAssumption
  BY PoolAssumption DEF P!CellAssumption, PP!CellAssumption
<1>2. PP!CallerAssumption
  BY PoolAssumption DEF P!CallerAssumption, PP!CallerAssumption, P!IsFiniteSet, PP!IsFiniteSet
<1>3. PP!TimeAssumption
  BY PoolAssumption DEF P!TimeAssumption, PP!TimeAssumption
<1>4. PP!ConfigAssumption
  BY PoolAssumption DEF P!ConfigAssumption, PP!ConfigAssumption
<1> QED
  BY <1>1, <1>2, <1>3, <1>4

LEMMA SameStart == \A cfg : P!Start(cfg) <=> PP!Start(cfg)
  BY Zenon DEF P!CellIn, PP!CellIn, P!Home, PP!Home, P!Rebuilt, PP!Rebuilt, P!Limits,
                 PP!Limits, P!Listed, PP!Listed, P!Start, PP!Start

LEMMA SameInit == P!Init <=> PP!Init
  BY SameStart DEF P!Init, PP!Init

LEMMA SameVars == UNCHANGED P!vars <=> UNCHANGED PP!vars
  BY DEF P!time, PP!time, P!rotation, PP!rotation, P!health, PP!health, P!callers, PP!callers,
         P!vars, PP!vars

LEMMA SameNext == P!Next <=> PP!Next
  BY Zenon DEF
         P!time, PP!time, P!rotation, PP!rotation, P!health, PP!health, P!callers, PP!callers,
         P!vars, PP!vars, P!Rotation, PP!Rotation, P!RolledReqs, PP!RolledReqs, P!RolledMins,
         PP!RolledMins, P!Roll, PP!Roll, P!Spent, PP!Spent, P!Capped, PP!Capped, P!Free,
         PP!Free, P!Visit, PP!Visit, P!AnyFree, PP!AnyFree, P!Revoking, PP!Revoking,
         P!Blameless, PP!Blameless, P!NextRung, PP!NextRung, P!Bench, PP!Bench, P!CellIn,
         PP!CellIn, P!Home, PP!Home, P!Rebuilt, PP!Rebuilt, P!Limits, PP!Limits, P!Zeroed,
         PP!Zeroed, P!Tick, PP!Tick, P!RollOnly, PP!RollOnly, P!Look, PP!Look, P!Pick, PP!Pick,
         P!Miss, PP!Miss, P!Fail, PP!Fail, P!Done, PP!Done, P!Ok, PP!Ok, P!Sour, PP!Sour,
         P!Finish, PP!Finish, P!Unused, PP!Unused, P!Spare, PP!Spare, P!Kept, PP!Kept,
         P!Object, PP!Object, P!ResetCursors, PP!ResetCursors, P!Mask, PP!Mask, P!Adopt,
         PP!Adopt, P!Listed, PP!Listed, P!Resolve, PP!Resolve, P!Settle, PP!Settle, P!Next,
         PP!Next

LEMMA SameSoonest == \A ps : P!Soonest(ps) = PP!Soonest(ps)
  BY DEF P!Soonest, PP!Soonest, P!Wait, PP!Wait, P!TillMinute, PP!TillMinute, P!Spent, PP!Spent,
         P!Capped, PP!Capped, P!RolledReqs, PP!RolledReqs, P!RolledMins, PP!RolledMins,
         P!Rotation, PP!Rotation

LEMMA SameTypeOK == P!TypeOK <=> PP!TypeOK
  BY DEF P!TypeOK, PP!TypeOK

-----------------------------------------------------------------------------
(* Routing.                                                                *)

\* A name resolves to providers of the config.
LEMMA TargetsType ==
  ASSUME NEW cfg \in Config, NEW n \in Name
  PROVE  Targets(cfg, n) \in Seq(Prov)
<1>1. cfg.providers \subseteq Prov /\ cfg.default \in Prov
  BY RoutingAssumption
<1>2. CASE n \in DOMAIN cfg.aliases
  <2>1. cfg.aliases[n] \in Seq(cfg.providers)
    BY <1>2, RoutingAssumption
  <2> QED
    BY <1>1, <1>2, <2>1, SeqMonotonic DEF Targets
<1>3. CASE n \notin DOMAIN cfg.aliases
  BY <1>1, <1>3 DEF Targets
<1> QED
  BY <1>2, <1>3

\* Sorting targets neither adds one nor drops one.
LEMMA OrdersType ==
  ASSUME NEW s \in Seq(Prov), NEW ts \in Orders(s)
  PROVE  ts \in Seq(Prov) /\ Range(ts) = Range(s)
<1>1. PICK f \in Bijection(DOMAIN s, DOMAIN s) : ts = [i \in DOMAIN s |-> s[f[i]]]
  BY DEF Orders
<1>2. /\ f \in [DOMAIN s -> DOMAIN s]
      /\ \A t \in DOMAIN s : \E i \in DOMAIN s : f[i] = t
  BY DEF Bijection, Injection, Surjection
<1>3. DOMAIN s = 1..Len(s) /\ Len(s) \in Nat
  OBVIOUS
<1>4. \A i \in 1..Len(s) : s[f[i]] \in Prov
  BY <1>2, <1>3
<1>5. ts \in Seq(Prov)
  BY <1>1, <1>3, <1>4
<1>6. Range(ts) = Range(s)
  BY <1>1, <1>2 DEF Range
<1> QED
  BY <1>5, <1>6

LEMMA NamesType ==
  ASSUME NEW r \in Request, r.name \in Name
  PROVE  NamesOf(r) \in Seq(Name) /\ Len(NamesOf(r)) \in Nat \ {0} /\ NamesOf(r)[1] = r.name
<1>1. r.snap \in Config
  BY DEF Request
<1>2. r.snap.fallback \in Seq(DOMAIN r.snap.aliases) /\ DOMAIN r.snap.aliases \subseteq Name
  BY <1>1, RoutingAssumption
<1>3. r.snap.fallback \in Seq(Name)
  BY <1>2, SeqMonotonic
<1>4. <<r.name>> \in Seq(Name) /\ Len(<<r.name>>) = 1 /\ <<r.name>>[1] = r.name
  OBVIOUS
<1> QED
  BY <1>3, <1>4, ConcatProperties DEF NamesOf

\* What is in a sequence of providers.
LEMMA RangeFacts ==
  ASSUME NEW s \in Seq(Prov)
  PROVE  /\ Range(s) \subseteq Prov
         /\ \A j \in 1..Len(s) : s[j] \in Range(s)
         /\ \A p \in Range(s) : \E j \in 1..Len(s) : s[j] = p
<1>1. DOMAIN s = 1..Len(s) /\ Len(s) \in Nat
  OBVIOUS
<1>2. /\ Range(s) \subseteq Prov
      /\ \A j \in 1..Len(s) : s[j] \in Range(s)
      /\ \A p \in Range(s) : \E j \in 1..Len(s) : s[j] = p
  BY <1>1 DEF Range
<1> QED
  BY <1>2

-----------------------------------------------------------------------------
(* The steps of a request, as changes of its record.                       *)

\* A step that stays on the same targets, and asks nothing.
LEMMA Stays ==
  ASSUME NEW r \in Request, NEW q \in Request, Sound(r),
         q.pc = r.pc \/ (Walks(r) /\ Walks(q)),
         q.snap = r.snap, q.name = r.name, q.i = r.i, q.ts = r.ts, q.j = r.j, q.out = r.out,
         q.walked = r.walked, q.rested = r.rested, q.asked = r.asked,
         q.tries = r.tries, q.resent = r.resent, q.stream = r.stream,
         q.pc = "attempt" => r.pc = "attempt" /\ q.meter = r.meter /\ q.prov = r.prov
  PROVE  Shape(q) /\ Ordered(q) /\ Bounded(q) /\ Metered(q)
<1>1. NamesOf(q) = NamesOf(r) /\ NameOf(q) = NameOf(r) /\ TriedOf(q) = TriedOf(r)
  BY DEF NamesOf, NameOf, TriedOf
<1>2. Walks(q) <=> Walks(r)
  BY DEF Walks
<1>3. \A n : CoveredBy(q, n) <=> CoveredBy(r, n)
  BY DEF CoveredBy
<1>4. \A n : Allowed(q, n) = Allowed(r, n)
  BY DEF Allowed
<1>5. /\ Walks(q) => q.pc \notin {"new", "end", "nap"}
      /\ Walks(r) => r.pc \notin {"new", "end", "nap"}
  BY DEF Walks
<1>6. Shape(q)
  BY <1>1, <1>2, <1>5 DEF Sound, Shape, OnName
<1>7. Ordered(q)
  BY <1>1, <1>2, <1>3 DEF Sound, Ordered
<1>8. Bounded(q)
  BY <1>1, <1>2, <1>4, <1>5 DEF Sound, Bounded
<1>9. Metered(q)
  BY <1>1 DEF Sound, Metered
<1> QED
  BY <1>6, <1>7, <1>8, <1>9

LEMMA FreshType == config \in Config => Fresh \in Request
<1>1. 0 \in 0..Pause /\ 0 \in 0..Rounds /\ <<>> \in Seq(Prov) /\ Untried \in [Name \X Prov -> Nat]
  BY GatewayAssumption DEF Untried
<1> QED
  BY <1>1 DEF Fresh, Request, Doing, Outcome, Unset

\* A request for which nothing was attempted, or that is over.
LEMMA NothingTried ==
  ASSUME NEW q, q.tries = Untried, q.resent = Untried, q.rested = FALSE, q.pc # "nap", ~Walks(q)
  PROVE  Bounded(q)
<1>1. \A x \in Name \X Prov : q.tries[x] = 0 /\ q.resent[x] = 0
  BY DEF Untried
<1>2. 0 <= MaxTries /\ \A n : 0 <= Allowed(q, n)
  BY GatewayAssumption DEF Allowed
<1> QED
  BY <1>1, <1>2 DEF Bounded

\* The request ends: nothing is left to be said of it but how.
LEMMA Ends ==
  ASSUME config \in Config, NEW r \in Request, Sound(r), r.name \in Name,
         NEW out \in Outcome, NEW heads \in {0, 1}, r.heads + heads <= 1,
         r.heads + heads = 0 => out = "gone" /\ r.left,
         out = "exhausted" => \A n \in DOMAIN NamesOf(r) : CoveredBy(r, NamesOf(r)[n])
  PROVE  Over(r, out, heads) \in Request /\ Sound(Over(r, out, heads))
<1> DEFINE q == Over(r, out, heads)
<1>1. /\ q.pc = "end" /\ q.snap = r.snap /\ q.name = r.name /\ q.left = r.left /\ q.out = out
      /\ q.heads = r.heads + heads /\ q.asked = r.asked /\ q.round = r.round
      /\ q.i = 0 /\ q.ts = <<>> /\ q.j = 1 /\ q.walked = {} /\ q.rested = FALSE
      /\ q.tries = Untried /\ q.resent = Untried
  BY DEF Over, Fresh
<1>2. q \in Request
  <2>1. /\ r.snap \in Config /\ r.left \in BOOLEAN /\ r.heads \in Nat
        /\ r.asked \in SUBSET (Name \X Prov) /\ r.round \in 0..Rounds
    BY Zenon DEF Request
  <2>2. r.heads + heads \in Nat
    BY <2>1
  <2>3. Fresh \in Request
    BY FreshType
  <2> QED
    BY <2>1, <2>2, <2>3, Zenon DEF Over, Request, Doing
<1> HIDE DEF q
<1>3. NamesOf(q) = NamesOf(r) /\ \A n : CoveredBy(q, n) <=> CoveredBy(r, n)
  BY <1>1 DEF NamesOf, CoveredBy
<1>4. Len(NamesOf(q)) \in Nat \ {0}
  BY <1>1, <1>2, NamesType
<1>5. Shape(q)
  BY <1>1, <1>4 DEF Shape, OnName, Walks
<1>6. Answered(q)
  BY <1>1, <1>2 DEF Answered, Request
<1>7. Ordered(q)
  BY <1>1, <1>3 DEF Ordered, Walks
<1>8. Bounded(q) /\ Metered(q)
  BY <1>1, NothingTried DEF Walks, Metered
<1> QED
  BY <1>2, <1>5, <1>6, <1>7, <1>8 DEF Sound, q

\* Every name up to the present one is covered while no walk is under way.
LEMMA BehindCovered ==
  ASSUME NEW r \in Request, Sound(r), ~Walks(r)
  PROVE  \A n \in 1..r.i : CoveredBy(r, NamesOf(r)[n])
<1> SUFFICES ASSUME NEW n \in 1..r.i PROVE CoveredBy(r, NamesOf(r)[n])
  OBVIOUS
<1>1. r.i \in Nat
  BY DEF Request
<1>2. CASE n = r.i
  BY <1>1, <1>2 DEF Sound, Ordered, NameOf
<1>3. CASE n # r.i
  <2>1. n \in 1..(r.i - 1)
    BY <1>1, <1>3
  <2> QED
    BY <2>1 DEF Sound, Ordered
<1> QED
  BY <1>2, <1>3

LEMMA RouteStep ==
  ASSUME NEW r \in Request, Sound(r), r.pc = "route", NEW i \in DOMAIN NamesOf(r),
         NextNew(NamesOf(r), r.i + 1, TriedOf(r), i),
         NEW ts \in Orders(Targets(r.snap, NamesOf(r)[i])),
         NEW q, q = [r EXCEPT !.pc = "walk", !.i = i, !.ts = ts, !.j = 1, !.walked = {}]
  PROVE  q \in Request /\ Sound(q)
<1> DEFINE N == NamesOf(r)
<1>1. /\ q.pc = "walk" /\ q.snap = r.snap /\ q.name = r.name /\ q.i = i /\ q.ts = ts /\ q.j = 1
      /\ q.walked = {} /\ q.rested = r.rested /\ q.asked = r.asked /\ q.tries = r.tries
      /\ q.resent = r.resent /\ q.stream = r.stream /\ q.out = r.out /\ q.heads = r.heads
  BY DEF Request
<1>2. r.name \in Name /\ r.i \in Nat /\ r.out = Unset /\ ~Walks(r) /\ ~OnName(r)
  BY Zenon DEF Request, Sound, Shape, Walks, OnName
<1>3. N \in Seq(Name) /\ Len(N) \in Nat \ {0} /\ NamesOf(q) = N
  BY <1>1, <1>2, NamesType DEF NamesOf
<1>4. /\ i \in 1..Len(N) /\ i >= r.i + 1 /\ N[i] \notin TriedOf(r) /\ N[i] \in Name
      /\ \A n \in (r.i + 1)..(i - 1) : N[n] \in TriedOf(r)
  BY <1>3 DEF NextNew
<1>5. ts \in Seq(Prov) /\ Range(ts) = Range(Targets(r.snap, N[i]))
  <2>1. r.snap \in Config
    BY DEF Request
  <2> QED
    BY <1>4, <2>1, TargetsType, OrdersType
<1>6. q \in Request
  <2>1. i \in Nat /\ 1 \in Nat
    BY <1>4
  <2> QED
    BY <1>5, <2>1, Zenon DEF Request, Doing
<1>7. NameOf(q) = N[i] /\ Walks(q) /\ OnName(q)
  BY <1>1, <1>3 DEF NameOf, Walks, OnName
<1>8. Shape(q)
  <2>1. Len(ts) \in Nat
    BY <1>5
  <2> QED
    BY <1>1, <1>2, <1>3, <1>4, <1>5, <1>7, <2>1 DEF Shape
<1>9. Answered(q)
  BY <1>1 DEF Sound, Answered
<1>10. Ordered(q)
  <2>1. \A n : CoveredBy(q, n) <=> CoveredBy(r, n)
    BY <1>1 DEF CoveredBy
  <2>2. \A n \in 1..(i - 1) : N[n] \in TriedOf(r)
    BY <1>2, <1>4 DEF TriedOf
  <2>3. \A n \in 1..(i - 1) : CoveredBy(r, N[n])
    BY <1>2, <2>2, BehindCovered DEF TriedOf
  <2>4. \A m \in 1..(q.j - 1) : FALSE
    BY <1>1
  <2>5. q.out # "exhausted"
    BY <1>1, <1>2, Zenon DEF Unset
  <2> QED
    BY <1>1, <1>3, <1>7, <2>1, <2>3, <2>4, <2>5 DEF Ordered
<1>11. Bounded(q)
  <2>1. r.tries \in [Name \X Prov -> Nat]
    BY DEF Request
  <2>2. \A n : Allowed(q, n) = Allowed(r, n) /\ Allowed(r, n) > 0
    BY <1>1 DEF Allowed
  <2>3. \A n \in TriedOf(r) : n \in TriedOf(q)
    BY <1>1, <1>2, <1>3, <1>4 DEF TriedOf
  <2>4. \A p \in Prov : r.tries[<<N[i], p>>] = 0
    <3> SUFFICES ASSUME NEW p \in Prov PROVE r.tries[<<N[i], p>>] = 0
      OBVIOUS
    <3>1. <<N[i], p>> \in Name \X Prov
      BY <1>4
    <3>2. ~(r.tries[<<N[i], p>>] > 0)
      BY <1>4, <3>1 DEF Sound, Bounded
    <3> QED
      BY <2>1, <3>1, <3>2
  <2>5. \A p \in Prov \ q.walked : q.tries[<<NameOf(q), p>>] < Allowed(q, NameOf(q))
    BY <1>1, <1>7, <2>2, <2>4
  <2>6. q.rested => q.i > 0
    BY <1>1, <1>2, <1>4
  <2>7. \A x \in Name \X Prov :
          /\ q.tries[x] <= MaxTries /\ q.tries[x] <= Allowed(q, x[1])
          /\ q.tries[x] > 0 => x[1] \in TriedOf(q)
          /\ q.resent[x] <= IF q.stream THEN q.tries[x] ELSE 0
    BY <1>1, <2>2, <2>3 DEF Sound, Bounded
  <2> QED
    BY <1>1, <2>5, <2>6, <2>7 DEF Bounded
<1>12. Metered(q)
  BY <1>1 DEF Metered
<1> QED
  BY <1>6, <1>8, <1>9, <1>10, <1>11, <1>12 DEF Sound

\* When no name is left, every name was covered.
LEMMA ExhaustStep ==
  ASSUME NEW r \in Request, Sound(r), r.pc = "route",
         \A i \in DOMAIN NamesOf(r) : i > r.i => NamesOf(r)[i] \in TriedOf(r)
  PROVE  \A n \in DOMAIN NamesOf(r) : CoveredBy(r, NamesOf(r)[n])
<1> SUFFICES ASSUME NEW n \in DOMAIN NamesOf(r) PROVE CoveredBy(r, NamesOf(r)[n])
  OBVIOUS
<1>1. r.i \in Nat /\ r.name \in Name /\ ~Walks(r)
  BY Zenon DEF Request, Sound, Shape, Walks
<1>2. n \in Nat \ {0}
  BY <1>1, NamesType
<1>3. CASE n > r.i
  BY <1>1, <1>3, BehindCovered DEF TriedOf
<1>4. CASE ~(n > r.i)
  <2>1. n \in 1..r.i
    BY <1>1, <1>2, <1>4
  <2> QED
    BY <1>1, <2>1, BehindCovered
<1> QED
  BY <1>3, <1>4

\* What the positions of a walk are.
LEMMA WalkFacts ==
  ASSUME NEW r \in Request, Sound(r), Walks(r)
  PROVE  /\ r.ts \in Seq(Prov) /\ DOMAIN r.ts = 1..Len(r.ts) /\ Len(r.ts) \in Nat
         /\ r.i \in Nat \ {0} /\ r.j \in Nat \ {0} /\ r.name \in Name /\ r.out = Unset
         /\ NamesOf(r) \in Seq(Name) /\ r.i \in 1..Len(NamesOf(r)) /\ NameOf(r) \in Name
         /\ r.tries \in [Name \X Prov -> Nat]
<1>1. r.ts \in Seq(Prov) /\ r.snap \in Config /\ r.i \in Nat /\ r.tries \in [Name \X Prov -> Nat]
  BY DEF Request
<1>2. DOMAIN r.ts = 1..Len(r.ts) /\ Len(r.ts) \in Nat
  BY <1>1
<1>3. r.pc \notin {"new", "end"} /\ OnName(r)
  BY DEF Walks, OnName
<1>4. r.name \in Name /\ r.out = Unset /\ r.i > 0 /\ r.j \in 1..(Len(r.ts) + 1)
  BY <1>3 DEF Sound, Shape
<1>5. NamesOf(r) \in Seq(Name) /\ r.i \in 1..Len(NamesOf(r)) /\ NameOf(r) \in Name
  BY <1>1, <1>4, NamesType DEF Sound, Shape, NameOf
<1> QED
  BY <1>1, <1>2, <1>4, <1>5

\* Every target up to the one that is asked next was asked.
LEMMA PassedAsked ==
  ASSUME NEW r \in Request, Sound(r), Walks(r), NEW j \in DOMAIN r.ts,
         NextNew(r.ts, r.j, r.walked, j)
  PROVE  \A m \in 1..(j - 1) : <<NameOf(r), r.ts[m]>> \in r.asked
<1> SUFFICES ASSUME NEW m \in 1..(j - 1) PROVE <<NameOf(r), r.ts[m]>> \in r.asked
  OBVIOUS
<1>1. j \in Nat /\ j >= r.j /\ r.j \in Nat /\ \A n \in r.j..(j - 1) : r.ts[n] \in r.walked
  BY WalkFacts DEF NextNew
<1>2. CASE m < r.j
  <2>1. m \in 1..(r.j - 1)
    BY <1>1, <1>2
  <2> QED
    BY <2>1 DEF Sound, Ordered
<1>3. CASE ~(m < r.j)
  <2>1. m \in r.j..(j - 1)
    BY <1>1, <1>3
  <2> QED
    BY <1>1, <2>1 DEF Sound, Ordered
<1> QED
  BY <1>2, <1>3

\* A step that asks the next target of the walk for a key, whatever it answers.
LEMMA Asks ==
  ASSUME NEW r \in Request, Sound(r), Walks(r), NEW j \in DOMAIN r.ts,
         NextNew(r.ts, r.j, r.walked, j),
         NEW q \in Request, Walks(q), q.snap = r.snap, q.name = r.name, q.i = r.i, q.ts = r.ts,
         q.j = j + 1, q.out = r.out, q.rested = r.rested,
         q.walked \subseteq r.walked \cup {r.ts[j]},
         q.asked = r.asked \cup {<<NameOf(r), r.ts[j]>>}
  PROVE  /\ Shape(q) /\ Ordered(q)
         /\ NameOf(q) = NameOf(r) /\ NameOf(r) \in TriedOf(q) /\ TriedOf(q) = TriedOf(r)
         /\ q.rested => q.i > 0
         /\ \A n : Allowed(q, n) = Allowed(r, n)
<1>1. NamesOf(q) = NamesOf(r) /\ NameOf(q) = NameOf(r) /\ TriedOf(q) = TriedOf(r)
  BY DEF NamesOf, NameOf, TriedOf
<1>2. /\ DOMAIN r.ts = 1..Len(r.ts) /\ Len(r.ts) \in Nat /\ r.i \in Nat \ {0}
      /\ r.out = Unset /\ r.name \in Name /\ r.i \in 1..Len(NamesOf(r))
  BY WalkFacts
<1>3. j \in 1..Len(r.ts)
  BY <1>2
<1>4. r.pc # "end" /\ OnName(r) /\ OnName(q) /\ q.pc \notin {"new", "end", "nap"}
  BY DEF Walks, OnName
<1>5. Shape(q)
  <2>1. Range(r.ts) = Range(Targets(r.snap, NameOf(r)))
    BY <1>4 DEF Sound, Shape
  <2>2. q.j \in 1..(Len(q.ts) + 1) /\ q.i \in 0..Len(NamesOf(q))
    BY <1>1, <1>2, <1>3
  <2> QED
    BY <1>1, <1>2, <1>4, <2>1, <2>2 DEF Shape
<1>6. Ordered(q)
  <2>1. \A n : CoveredBy(r, n) => CoveredBy(q, n)
    BY DEF CoveredBy
  <2>2. \A n \in 1..(q.i - 1) : CoveredBy(q, NamesOf(q)[n])
    BY <1>1, <2>1 DEF Sound, Ordered
  <2>3. \A m \in 1..(q.j - 1) : <<NameOf(q), q.ts[m]>> \in q.asked
    <3> SUFFICES ASSUME NEW m \in 1..(q.j - 1) PROVE <<NameOf(q), q.ts[m]>> \in q.asked
      OBVIOUS
    <3>1. m = j \/ m \in 1..(j - 1)
      BY <1>3
    <3> QED
      BY <1>1, <3>1, PassedAsked
  <2>4. \A x \in q.walked : <<NameOf(q), x>> \in q.asked
    BY <1>1 DEF Sound, Ordered
  <2>5. q.out # "exhausted"
    BY <1>2, Zenon DEF Unset
  <2> QED
    BY <2>2, <2>3, <2>4, <2>5 DEF Ordered
<1>7. NameOf(r) \in TriedOf(r)
  BY <1>2 DEF NameOf, TriedOf
<1>8. \A n : Allowed(q, n) = Allowed(r, n)
  BY DEF Allowed
<1> QED
  BY <1>1, <1>2, <1>5, <1>6, <1>7, <1>8

\* No free key: the walk goes on behind the target that was asked.
LEMMA MissStep ==
  ASSUME NEW r \in Request, Sound(r), r.pc = "walk", NEW j \in DOMAIN r.ts,
         NextNew(r.ts, r.j, r.walked, j),
         NEW q, q = [r EXCEPT !.j = j + 1, !.asked = r.asked \cup {<<NameOf(r), r.ts[j]>>}]
  PROVE  q \in Request /\ Sound(q)
<1>1. /\ q.pc = "walk" /\ q.snap = r.snap /\ q.name = r.name /\ q.i = r.i /\ q.ts = r.ts
      /\ q.j = j + 1 /\ q.walked = r.walked /\ q.rested = r.rested
      /\ q.tries = r.tries /\ q.resent = r.resent /\ q.stream = r.stream
      /\ q.asked = r.asked \cup {<<NameOf(r), r.ts[j]>>} /\ q.out = r.out /\ q.heads = r.heads
  BY DEF Request
<1>2. Walks(r) /\ Walks(q)
  BY <1>1 DEF Walks
<1>3. j + 1 \in Nat /\ r.ts[j] \in Prov /\ NameOf(r) \in Name
  BY <1>2, WalkFacts
<1>4. q \in Request
  <2>1. r.asked \cup {<<NameOf(r), r.ts[j]>>} \in SUBSET (Name \X Prov)
    BY <1>3 DEF Request
  <2> QED
    BY <1>3, <2>1, Zenon DEF Request, Doing
<1>5. /\ Shape(q) /\ Ordered(q)
      /\ NameOf(q) = NameOf(r) /\ NameOf(r) \in TriedOf(q) /\ TriedOf(q) = TriedOf(r)
      /\ q.rested => q.i > 0
      /\ \A n : Allowed(q, n) = Allowed(r, n)
  BY <1>1, <1>2, <1>4, Asks
<1>6. Answered(q)
  BY <1>1 DEF Sound, Answered
<1>7. Bounded(q) /\ Metered(q)
  BY <1>1, <1>2, <1>5 DEF Sound, Bounded, Metered
<1> QED
  BY <1>4, <1>5, <1>6, <1>7 DEF Sound

LEMMA OneMoreCounts ==
  ASSUME NEW D, NEW count \in [D -> Nat], NEW x \in D
  PROVE  /\ OneMore(count, x) \in [D -> Nat]
         /\ OneMore(count, x)[x] = IF count[x] < MaxTries THEN count[x] + 1 ELSE count[x]
         /\ \A y \in D : y # x => OneMore(count, x)[y] = count[y]
  BY DEF OneMore

\* A key: its provider is attempted, and the walk will not come back to it.
LEMMA PickSound ==
  ASSUME NEW r \in Request, Sound(r), Walks(r), NEW j \in DOMAIN r.ts,
         NextNew(r.ts, r.j, r.walked, j),
         NEW x, x = <<NameOf(r), r.ts[j]>>,
         NEW q \in Request, q.pc = "attempt", q.snap = r.snap, q.name = r.name, q.i = r.i,
         q.ts = r.ts, q.j = j + 1, q.out = r.out, q.heads = r.heads, q.rested = r.rested,
         q.stream = r.stream, q.resent = r.resent, q.prov = r.ts[j], q.meter => r.stream,
         q.walked = r.walked \cup {r.ts[j]}, q.asked = r.asked \cup {x},
         q.tries = OneMore(r.tries, x), r.heads = 0
  PROVE  Sound(q)
<1>1. Walks(q)
  BY DEF Walks
<1>2. r.ts[j] \in Prov /\ NameOf(r) \in Name
  BY WalkFacts
<1>3. /\ Shape(q) /\ Ordered(q)
      /\ NameOf(q) = NameOf(r) /\ NameOf(r) \in TriedOf(q) /\ TriedOf(q) = TriedOf(r)
      /\ q.rested => q.i > 0
      /\ \A n : Allowed(q, n) = Allowed(r, n)
  <2>1. q.walked \subseteq r.walked \cup {r.ts[j]}
    OBVIOUS
  <2> QED
    BY <1>1, <2>1, Asks
<1>4. Answered(q)
  BY DEF Answered
<1>5. x \in Name \X Prov /\ x[1] = NameOf(r)
  BY <1>2
<1>6. r.tries \in [Name \X Prov -> Nat] /\ r.resent \in [Name \X Prov -> Nat]
  BY DEF Request
<1>7. /\ q.tries[x] = IF r.tries[x] < MaxTries THEN r.tries[x] + 1 ELSE r.tries[x]
      /\ \A y \in Name \X Prov : y # x => q.tries[y] = r.tries[y]
  <2>1. q.tries[x] = IF r.tries[x] < MaxTries THEN r.tries[x] + 1 ELSE r.tries[x]
    BY <1>5, <1>6 DEF OneMore
  <2>2. \A y \in Name \X Prov : y # x => q.tries[y] = r.tries[y]
    BY <1>5, <1>6, OneMoreCounts
  <2> QED
    BY <2>1, <2>2
<1>8. r.tries[x] < Allowed(r, NameOf(r)) /\ r.ts[j] \notin r.walked
  BY <1>2 DEF NextNew, Sound, Bounded
<1>9. r.tries[x] <= MaxTries /\ r.resent[x] <= IF r.stream THEN r.tries[x] ELSE 0
  BY <1>5 DEF Sound, Bounded
<1>10. r.tries[x] \in Nat /\ r.resent[x] \in Nat
  BY <1>5, <1>6
<1>11. Bounded(q)
  <2>1. ASSUME NEW y \in Name \X Prov
        PROVE  /\ q.tries[y] <= MaxTries /\ q.tries[y] <= Allowed(q, y[1])
               /\ q.tries[y] > 0 => y[1] \in TriedOf(q)
               /\ q.resent[y] <= IF q.stream THEN q.tries[y] ELSE 0
    <3>1. CASE y = x
      <4>1. Allowed(r, x[1]) \in Nat
        BY DEF Allowed
      <4> QED
        BY <1>3, <1>5, <1>7, <1>8, <1>9, <1>10, <3>1, <4>1, GatewayAssumption
    <3>2. CASE y # x
      BY <1>3, <1>7, <3>2 DEF Sound, Bounded
    <3> QED
      BY <3>1, <3>2
  <2>2. \A p \in Prov \ q.walked : q.tries[<<NameOf(q), p>>] < Allowed(q, NameOf(q))
    BY <1>2, <1>3, <1>7 DEF Sound, Bounded
  <2> QED
    BY <1>3, <2>1, <2>2 DEF Bounded
<1>12. Metered(q)
  <2>1. q.resent[x] < q.tries[x] \/ q.tries[x] = MaxTries
    BY <1>7, <1>9, <1>10, GatewayAssumption
  <2> QED
    BY <1>3, <2>1 DEF Metered
<1> QED
  BY <1>3, <1>4, <1>11, <1>12 DEF Sound

LEMMA PickStep ==
  ASSUME NEW r \in Request, Sound(r), r.pc = "walk", NEW j \in DOMAIN r.ts,
         NextNew(r.ts, r.j, r.walked, j), NEW meter \in BOOLEAN, meter => r.stream
  PROVE  LET q == [r EXCEPT !.pc = "attempt", !.j = j + 1, !.walked = @ \cup {r.ts[j]},
                            !.prov = r.ts[j], !.meter = meter,
                            !.tries = OneMore(@, <<NameOf(r), r.ts[j]>>),
                            !.asked = r.asked \cup {<<NameOf(r), r.ts[j]>>}]
         IN  q \in Request /\ Sound(q)
<1> DEFINE x == <<NameOf(r), r.ts[j]>>
           q == [r EXCEPT !.pc = "attempt", !.j = j + 1, !.walked = @ \cup {r.ts[j]},
                          !.prov = r.ts[j], !.meter = meter, !.tries = OneMore(@, x),
                          !.asked = r.asked \cup {x}]
<1>1. Walks(r)
  BY DEF Walks
<1>2. j + 1 \in Nat /\ r.ts[j] \in Prov /\ x \in Name \X Prov /\ r.tries \in [Name \X Prov -> Nat]
  <2>1. j + 1 \in Nat /\ r.ts[j] \in Prov /\ NameOf(r) \in Name
    BY <1>1, WalkFacts
  <2>2. x \in Name \X Prov
    BY <2>1
  <2>3. r.tries \in [Name \X Prov -> Nat]
    BY <1>1, WalkFacts
  <2> QED
    BY <2>1, <2>2, <2>3
<1>3. q \in Request
  <2>1. r.asked \cup {x} \in SUBSET (Name \X Prov)
    BY <1>2 DEF Request
  <2>2. r.walked \cup {r.ts[j]} \in SUBSET Prov
    BY <1>2 DEF Request
  <2>3. OneMore(r.tries, x) \in [Name \X Prov -> Nat]
    BY <1>2, OneMoreCounts
  <2> QED
    BY <1>2, <2>1, <2>2, <2>3, Zenon DEF Request, Doing
<1>4. /\ q.pc = "attempt" /\ q.snap = r.snap /\ q.name = r.name /\ q.i = r.i /\ q.ts = r.ts
      /\ q.j = j + 1 /\ q.out = r.out /\ q.heads = r.heads /\ q.rested = r.rested
      /\ q.stream = r.stream /\ q.resent = r.resent /\ q.prov = r.ts[j] /\ q.meter = meter
      /\ q.walked = r.walked \cup {r.ts[j]} /\ q.asked = r.asked \cup {x}
      /\ q.tries = OneMore(r.tries, x)
  BY DEF Request
<1>5. r.heads = 0
  BY DEF Sound, Answered
<1>6. Sound(q)
  <2>1. x = <<NameOf(r), r.ts[j]>>
    OBVIOUS
  <2> HIDE DEF q, x
  <2> QED
    BY <1>1, <1>3, <1>4, <1>5, <2>1, PickSound
<1> QED
  BY <1>3, <1>6

\* A metered attempt is sent again without the usage option.
LEMMA UnmeterSound ==
  ASSUME NEW r \in Request, Sound(r), r.pc = "attempt", r.meter, r.prov \in Prov,
         NEW x, x = <<NameOf(r), r.prov>>,
         NEW q \in Request, q.pc = "again", q.snap = r.snap, q.name = r.name, q.i = r.i,
         q.ts = r.ts, q.j = r.j, q.out = r.out, q.heads = r.heads, q.rested = r.rested,
         q.stream = r.stream, q.tries = r.tries, q.walked = r.walked, q.asked = r.asked,
         q.left = r.left, q.resent = OneMore(r.resent, x)
  PROVE  Sound(q)
<1>1. Walks(r) /\ Walks(q) /\ OnName(r) /\ OnName(q)
  BY DEF Walks, OnName
<1>2. x \in Name \X Prov /\ r.tries \in [Name \X Prov -> Nat] /\ r.resent \in [Name \X Prov -> Nat]
  BY <1>1, WalkFacts DEF Request
<1>3. /\ q.resent[x] = IF r.resent[x] < MaxTries THEN r.resent[x] + 1 ELSE r.resent[x]
      /\ \A y \in Name \X Prov : y # x => q.resent[y] = r.resent[y]
  <2>1. q.resent[x] = IF r.resent[x] < MaxTries THEN r.resent[x] + 1 ELSE r.resent[x]
    BY <1>2, OneMoreCounts
  <2>2. \A y \in Name \X Prov : y # x => q.resent[y] = r.resent[y]
    BY <1>2, OneMoreCounts
  <2> QED
    BY <2>1, <2>2
<1>4. r.stream /\ (r.resent[x] < r.tries[x] \/ r.tries[x] = MaxTries)
  BY DEF Sound, Metered
<1>5. r.tries[x] <= MaxTries /\ r.resent[x] <= r.tries[x]
  BY <1>2, <1>4 DEF Sound, Bounded
<1>6. q.resent[x] <= r.tries[x]
  <2>1. r.tries[x] \in Nat /\ r.resent[x] \in Nat
    BY <1>2
  <2> QED
    BY <1>3, <1>4, <1>5, <2>1, GatewayAssumption
<1>7. NamesOf(q) = NamesOf(r) /\ NameOf(q) = NameOf(r) /\ TriedOf(q) = TriedOf(r)
  BY DEF NamesOf, NameOf, TriedOf
<1>8. Shape(q)
  BY <1>1, <1>7 DEF Sound, Shape
<1>9. Answered(q)
  BY DEF Sound, Answered
<1>10. Ordered(q)
  <2>1. \A n : CoveredBy(q, n) <=> CoveredBy(r, n)
    BY DEF CoveredBy
  <2> QED
    BY <1>1, <1>7, <2>1 DEF Sound, Ordered
<1>11. Bounded(q)
  <2>1. \A n : Allowed(q, n) = Allowed(r, n)
    BY DEF Allowed
  <2>2. \A y \in Name \X Prov : q.resent[y] <= IF q.stream THEN q.tries[y] ELSE 0
    <3> SUFFICES ASSUME NEW y \in Name \X Prov PROVE q.resent[y] <= q.tries[y]
      BY <1>4
    <3>1. CASE y = x
      BY <1>6, <3>1
    <3>2. CASE y # x
      BY <1>3, <1>4, <3>2 DEF Sound, Bounded
    <3> QED
      BY <3>1, <3>2
  <2> QED
    BY <1>1, <1>7, <2>1, <2>2 DEF Sound, Bounded
<1>12. Metered(q)
  BY DEF Metered
<1> QED
  BY <1>8, <1>9, <1>10, <1>11, <1>12 DEF Sound

LEMMA UnmeterStep ==
  ASSUME NEW r \in Request, Sound(r), r.pc = "attempt", r.meter, r.prov \in Prov
  PROVE  LET q == [r EXCEPT !.pc = "again", !.resent = OneMore(@, <<NameOf(r), r.prov>>)]
         IN  q \in Request /\ Sound(q)
<1> DEFINE x == <<NameOf(r), r.prov>>
           q == [r EXCEPT !.pc = "again", !.resent = OneMore(@, x)]
<1>1. x \in Name \X Prov /\ r.resent \in [Name \X Prov -> Nat]
  <2>1. Walks(r)
    BY DEF Walks
  <2> QED
    BY <2>1, WalkFacts DEF Request
<1>2. q \in Request
  <2>1. OneMore(r.resent, x) \in [Name \X Prov -> Nat]
    BY <1>1, OneMoreCounts
  <2> QED
    BY <2>1, Zenon DEF Request, Doing
<1>3. /\ q.pc = "again" /\ q.snap = r.snap /\ q.name = r.name /\ q.i = r.i /\ q.ts = r.ts
      /\ q.j = r.j /\ q.out = r.out /\ q.heads = r.heads /\ q.rested = r.rested
      /\ q.stream = r.stream /\ q.tries = r.tries /\ q.walked = r.walked /\ q.asked = r.asked
      /\ q.left = r.left /\ q.resent = OneMore(r.resent, x)
  BY DEF Request
<1>4. Sound(q)
  <2>1. x = <<NameOf(r), r.prov>>
    OBVIOUS
  <2> HIDE DEF q, x
  <2> QED
    BY <1>2, <1>3, <2>1, UnmeterSound
<1> QED
  BY <1>2, <1>4

\* No target is left: the walk has asked all of them.
LEMMA WalkCovers ==
  ASSUME NEW r \in Request, Sound(r), Walks(r),
         \A j \in DOMAIN r.ts : j >= r.j => r.ts[j] \in r.walked
  PROVE  CoveredBy(r, NameOf(r))
<1>1. DOMAIN r.ts = 1..Len(r.ts) /\ Len(r.ts) \in Nat /\ r.j \in Nat /\ r.ts \in Seq(Prov)
  BY WalkFacts
<1>2. \A p \in Range(r.ts) : <<NameOf(r), p>> \in r.asked
  <2> SUFFICES ASSUME NEW p \in Range(r.ts) PROVE <<NameOf(r), p>> \in r.asked
    OBVIOUS
  <2>1. PICK j \in 1..Len(r.ts) : r.ts[j] = p
    BY <1>1, RangeFacts
  <2>2. CASE j >= r.j
    BY <1>1, <2>1, <2>2 DEF Sound, Ordered
  <2>3. CASE ~(j >= r.j)
    <3>1. j \in 1..(r.j - 1)
      BY <1>1, <2>3
    <3> QED
      BY <2>1, <3>1 DEF Sound, Ordered
  <2> QED
    BY <2>2, <2>3
<1>3. Range(r.ts) = Range(Targets(r.snap, NameOf(r)))
  BY DEF Sound, Shape, OnName
<1> QED
  BY <1>2, <1>3 DEF CoveredBy

\* The walk is over, and the request goes on to the next name or naps.
LEMMA LeaveStep ==
  ASSUME NEW r \in Request, Sound(r), r.pc = "walk",
         \A j \in DOMAIN r.ts : j >= r.j => r.ts[j] \in r.walked,
         NEW q \in Request, q.pc \in {"route", "nap"}, q.pc = "nap" => r.i = 1 /\ ~r.rested,
         q.snap = r.snap, q.name = r.name, q.i = r.i, q.ts = r.ts, q.j = r.j, q.out = r.out,
         q.rested = r.rested, q.asked = r.asked, q.heads = r.heads,
         q.tries = r.tries, q.resent = r.resent, q.stream = r.stream
  PROVE  Sound(q)
<1>1. Walks(r) /\ OnName(r) /\ ~Walks(q)
  BY DEF Walks, OnName
<1>2. NamesOf(q) = NamesOf(r) /\ NameOf(q) = NameOf(r) /\ TriedOf(q) = TriedOf(r)
  BY DEF NamesOf, NameOf, TriedOf
<1>3. \A n : CoveredBy(q, n) <=> CoveredBy(r, n)
  BY DEF CoveredBy
<1>4. Shape(q)
  BY <1>1, <1>2 DEF Sound, Shape
<1>5. Answered(q)
  BY DEF Sound, Answered
<1>6. CoveredBy(r, NameOf(r))
  BY <1>1, WalkCovers
<1>7. Ordered(q)
  <2>1. q.out # "exhausted"
    <3>1. q.out = Unset
      BY <1>1, WalkFacts
    <3> QED
      BY <3>1, Zenon DEF Unset
  <2>2. \A n \in 1..(q.i - 1) : CoveredBy(q, NamesOf(q)[n])
    BY <1>2, <1>3 DEF Sound, Ordered
  <2> QED
    BY <1>1, <1>2, <1>3, <1>6, <2>1, <2>2 DEF Ordered
<1>8. Bounded(q) /\ Metered(q)
  <2>1. \A n : Allowed(q, n) = Allowed(r, n)
    BY DEF Allowed
  <2> QED
    BY <1>1, <1>2, <2>1 DEF Sound, Bounded, Metered
<1> QED
  BY <1>4, <1>5, <1>7, <1>8 DEF Sound

\* The nap is over: the targets of the requested name are walked a second time.
LEMMA WakeStep ==
  ASSUME NEW r \in Request, Sound(r), r.pc = "nap",
         NEW q, q = [r EXCEPT !.pc = "walk", !.rested = TRUE, !.j = 1, !.walked = {}]
  PROVE  q \in Request /\ Sound(q)
<1>1. /\ q.pc = "walk" /\ q.snap = r.snap /\ q.name = r.name /\ q.i = r.i /\ q.ts = r.ts
      /\ q.j = 1 /\ q.walked = {} /\ q.tries = r.tries /\ q.resent = r.resent
      /\ q.stream = r.stream /\ q.asked = r.asked /\ q.out = r.out /\ q.heads = r.heads
  BY DEF Request
<1>2. q.rested = TRUE
  BY Zenon DEF Request
<1>3. q \in Request
  <2>1. 1 \in Nat
    OBVIOUS
  <2> QED
    BY <2>1, Zenon DEF Request, Doing
<1>4. Walks(q) /\ OnName(r) /\ ~Walks(r)
  BY <1>1 DEF Walks, OnName
<1>5. NamesOf(q) = NamesOf(r) /\ NameOf(q) = NameOf(r) /\ TriedOf(q) = TriedOf(r)
  BY <1>1 DEF NamesOf, NameOf, TriedOf
<1>6. \A n : CoveredBy(q, n) <=> CoveredBy(r, n)
  BY <1>1 DEF CoveredBy
<1>7. /\ r.ts \in Seq(Prov) /\ Len(r.ts) \in Nat /\ r.out = Unset
      /\ r.tries \in [Name \X Prov -> Nat] /\ r.name \in Name
  BY DEF Sound, Shape, Request
<1>8. Shape(q)
  BY <1>1, <1>4, <1>5, <1>7 DEF Sound, Shape
<1>9. Answered(q)
  BY <1>1 DEF Sound, Answered
<1>10. Ordered(q)
  <2>1. q.out # "exhausted"
    BY <1>1, <1>7, Zenon DEF Unset
  <2>2. \A n \in 1..(q.i - 1) : CoveredBy(q, NamesOf(q)[n])
    BY <1>1, <1>5, <1>6 DEF Sound, Ordered
  <2> QED
    BY <1>1, <1>4, <2>1, <2>2 DEF Ordered
<1>11. Bounded(q) /\ Metered(q)
  <2>1. r.i = 1 /\ ~r.rested
    BY DEF Sound, Bounded
  <2>2. NameOf(q) = q.name
    BY <1>1, <1>5, <1>7, <2>1, NamesType DEF NameOf, Request
  <2>3. \A n : Allowed(r, n) = 1 /\ Allowed(q, n) >= 1
    BY <1>1, <1>2, <2>1 DEF Allowed
  <2>4. Allowed(q, NameOf(q)) = 2
    BY <1>2, <2>2 DEF Allowed
  <2>5. \A x \in Name \X Prov : r.tries[x] \in Nat /\ r.tries[x] <= 1
    BY <1>7, <2>3 DEF Sound, Bounded
  <2>6. \A p \in Prov : q.tries[<<NameOf(q), p>>] < Allowed(q, NameOf(q))
    BY <1>1, <1>7, <2>2, <2>4, <2>5
  <2>7. \A x \in Name \X Prov : q.tries[x] <= Allowed(q, x[1])
    <3> SUFFICES ASSUME NEW x \in Name \X Prov PROVE q.tries[x] <= Allowed(q, x[1])
      OBVIOUS
    <3>1. Allowed(q, x[1]) \in Nat /\ Allowed(q, x[1]) >= 1
      BY <2>3 DEF Allowed
    <3> QED
      BY <1>1, <2>5, <3>1
  <2>8. \A x \in Name \X Prov :
          /\ q.tries[x] <= MaxTries /\ (q.tries[x] > 0 => x[1] \in TriedOf(q))
          /\ q.resent[x] <= IF q.stream THEN q.tries[x] ELSE 0
    BY <1>1, <1>5 DEF Sound, Bounded
  <2> QED
    BY <1>1, <2>1, <2>6, <2>7, <2>8 DEF Bounded, Metered
<1> QED
  BY <1>3, <1>8, <1>9, <1>10, <1>11 DEF Sound

\* A request begins with no name tried and nothing asked.
LEMMA FreshSound == config \in Config => Sound(Fresh)
<1> SUFFICES ASSUME config \in Config PROVE Sound(Fresh)
  OBVIOUS
<1> DEFINE q == Fresh
<1>1. /\ q.pc = "new" /\ q.i = 0 /\ q.ts = <<>> /\ q.j = 1 /\ q.walked = {} /\ q.out = Unset
      /\ q.rested = FALSE /\ q.heads = 0 /\ q.asked = {} /\ q.snap \in Config
      /\ q.tries = Untried /\ q.resent = Untried
      /\ q.name = {}
  BY Zenon DEF Fresh, Unset
<1> HIDE DEF q
<1>2. ~Walks(q) /\ ~OnName(q)
  BY <1>1 DEF Walks, OnName
<1>3. Len(NamesOf(q)) \in Nat
  <2>1. q.snap.fallback \in Seq(DOMAIN q.snap.aliases)
    BY <1>1, RoutingAssumption
  <2>2. q.snap.fallback \in Seq(DOMAIN q.snap.aliases \cup {{}}) /\ <<{}>> \in Seq(DOMAIN q.snap.aliases \cup {{}})
    BY <2>1, SeqMonotonic
  <2> QED
    BY <1>1, <2>2, ConcatProperties, LenProperties DEF NamesOf
<1>4. Shape(q)
  BY <1>1, <1>2, <1>3 DEF Shape
<1>5. Answered(q)
  BY <1>1 DEF Answered
<1>6. Ordered(q)
  <2>1. q.out # "exhausted"
    BY <1>1, Zenon DEF Unset
  <2> QED
    BY <1>1, <1>2, <2>1 DEF Ordered
<1>7. Bounded(q) /\ Metered(q)
  BY <1>1, <1>2, NothingTried DEF Metered
<1> QED
  BY <1>4, <1>5, <1>6, <1>7 DEF Sound, q

LEMMA ArriveStep ==
  ASSUME config \in Config, NEW name \in Name, NEW stream \in BOOLEAN, NEW round \in 0..Rounds,
         NEW q, q = [Fresh EXCEPT !.pc = "route", !.name = name, !.stream = stream, !.round = round]
  PROVE  q \in Request /\ Sound(q)
<1>1. /\ q.pc = "route" /\ q.i = 0 /\ q.ts = <<>> /\ q.j = 1 /\ q.walked = {} /\ q.out = Unset
      /\ q.rested = FALSE /\ q.heads = 0 /\ q.asked = {} /\ q.snap \in Config
      /\ q.tries = Untried /\ q.resent = Untried
      /\ q.name = name
  BY Zenon DEF Fresh, Unset
<1>2. q \in Request
  <2>1. Fresh \in Request
    BY FreshType
  <2> QED
    BY <2>1, Zenon DEF Request, Doing
<1>3. ~Walks(q) /\ ~OnName(q)
  BY <1>1 DEF Walks, OnName
<1>4. Len(NamesOf(q)) \in Nat
  BY <1>1, <1>2, NamesType
<1>5. Shape(q)
  BY <1>1, <1>3, <1>4 DEF Shape
<1>6. Answered(q)
  BY <1>1 DEF Answered
<1>7. Ordered(q)
  <2>1. q.out # "exhausted"
    BY <1>1, Zenon DEF Unset
  <2> QED
    BY <1>1, <1>3, <2>1 DEF Ordered
<1>8. Bounded(q) /\ Metered(q)
  BY <1>1, <1>3, NothingTried DEF Metered
<1> QED
  BY <1>2, <1>5, <1>6, <1>7, <1>8 DEF Sound

-----------------------------------------------------------------------------
(* Each step of the gateway is a step of the pool, or leaves it alone.     *)

LEMMA RequestType == Inv => \A c \in Caller : req[c] \in Request /\ Sound(req[c])
  BY DEF Inv, Typed

LEMMA NamesAre ==
  \A c : Names(c) = NamesOf(req[c]) /\ NameNow(c) = NameOf(req[c]) /\ Tried(c) = TriedOf(req[c])
  BY DEF Names, NameNow, Tried, NamesOf, NameOf, TriedOf

LEMMA PoolStays == UNCHANGED pool => UNCHANGED P!vars
  BY DEF pool, P!vars, P!time, P!rotation, P!health, P!callers

LEMMA PoolStep == Inv /\ [Next]_vars => [P!Next]_(P!vars)
<1> SUFFICES ASSUME Inv, [Next]_vars, ~UNCHANGED P!vars PROVE P!Next
  OBVIOUS
<1>1. ~UNCHANGED pool
  BY PoolStays
<1>2. CASE Tick
  BY <1>2 DEF Tick, P!Next
<1>3. CASE \E c \in Caller : Arrive(c) \/ Leave(c) \/ Wake(c) \/ WakeGone(c) \/ Unmeter(c)
  BY <1>1, <1>3 DEF Arrive, Leave, Wake, WakeGone, Unmeter
<1>4. CASE \E c \in Caller : Route(c) \/ Exhaust(c) \/ WalkEnds(c) \/ RelayEnds(c)
  BY <1>1, <1>4 DEF Route, Exhaust, WalkEnds, RelayEnds, P!Next
<1>5. ASSUME NEW c \in Caller, Try(c) PROVE P!Next
  <2>1. PICK j \in DOMAIN req[c].ts : P!Pick(c, req[c].ts[j]) \/ P!Miss(req[c].ts[j])
    BY <1>5 DEF Try
  <2>2. req[c].ts \in Seq(Prov)
    BY RequestType DEF Request
  <2>3. req[c].ts[j] \in Prov
    BY <2>2
  <2> QED
    BY <2>1, <2>3 DEF P!Next
<1>6. ASSUME NEW c \in Caller, Commit(c) \/ Abandon(c) \/ Settle(c) PROVE P!Next
  BY <1>6 DEF Commit, Abandon, Settle, P!Next, P!Resolve, P!Settle
<1>7. ASSUME NEW c \in Caller, NEW code \in Code, NEW retry \in Hint, Lose(c, code, retry) PROVE P!Next
  BY <1>7 DEF Lose, P!Next, P!Resolve
<1>8. ASSUME NEW cfg \in Config, Adopt(cfg) PROVE P!Next
  BY <1>8 DEF Adopt, P!Next
<1>9. CASE Store \/ UNCHANGED vars
  BY <1>1, <1>9 DEF Store, vars
<1> QED
  BY <1>2, <1>3, <1>4, <1>5, <1>6, <1>7, <1>8, <1>9 DEF Next, Proceed

LEMMA PoolInv == Inv /\ [Next]_vars => PP!Inv'
<1>1. PP!Inv /\ [PP!Next]_(PP!vars) => PP!Inv'
  BY PoolGiven, PP!NextInv
<1>2. [P!Next]_(P!vars) => [PP!Next]_(PP!vars)
  BY SameNext, SameVars
<1> QED
  BY <1>1, <1>2, PoolStep DEF Inv

-----------------------------------------------------------------------------
(* Each step of the gateway keeps its invariant.                           *)

\* What is to be shown of a step, besides that the pool keeps its own.
OwnInv == Typed /\ NothingLeaks
          /\ \A c \in Caller : Sound(req[c]) /\ (Attempting(c) => req[c].prov \in Prov)

\* A step of one request, which takes keys and gives them back for itself alone.
LEMMA Moved ==
  ASSUME Inv, NEW c \in Caller, NEW q \in Request, Sound(q), Moves(c, q),
         q.pc \in {"attempt", "again"} => q.prov \in Prov,
         mute' \subseteq Prov, UNCHANGED <<config, loading>>,
         \A d \in Caller \ {c} : holds'[d] = holds[d] /\ relays'[d] = relays[d],
         holds'[c] # NoKey <=> q.pc \in {"attempt", "again"},
         relays'[c] # NoKey <=> q.pc \in {"relay", "charged"}
  PROVE  OwnInv'
<1>1. /\ req \in [Caller -> Request] /\ req' = [req EXCEPT ![c] = q]
      /\ config \in Config /\ loading \subseteq Config
  BY DEF Inv, Typed, Moves
<1>2. req'[c] = q /\ \A d \in Caller \ {c} : req'[d] = req[d]
  BY <1>1
<1>3. Typed'
  BY <1>1 DEF Typed
<1>4. ASSUME NEW d \in Caller
      PROVE  /\ Sound(req'[d]) /\ (req'[d].pc \in {"attempt", "again"} => req'[d].prov \in Prov)
             /\ holds'[d] # NoKey <=> req'[d].pc \in {"attempt", "again"}
             /\ relays'[d] # NoKey <=> req'[d].pc \in {"relay", "charged"}
  <2>1. CASE d = c
    BY <1>2, <2>1
  <2>2. CASE d # c
    <3>1. /\ req'[d] = req[d] /\ holds'[d] = holds[d] /\ relays'[d] = relays[d]
      BY <1>2, <2>2
    <3> QED
      BY <3>1 DEF Inv, NothingLeaks, Attempting
  <2> QED
    BY <2>1, <2>2
<1> QED
  BY <1>3, <1>4 DEF OwnInv, NothingLeaks, Attempting

\* The same when the step leaves every key where it is.
LEMMA MovedAlone ==
  ASSUME Inv, NEW c \in Caller, NEW q \in Request, Sound(q), Moves(c, q),
         UNCHANGED <<holds, relays, server>>,
         q.prov = req[c].prov \/ ~Attempting(c),
         \/ q.pc = req[c].pc
         \/ q.pc \in {"attempt", "again"} /\ req[c].pc \in {"attempt", "again"}
         \/ q.pc \in {"relay", "charged"} /\ req[c].pc \in {"relay", "charged"}
         \/ /\ q.pc \notin {"attempt", "again", "relay", "charged"}
            /\ req[c].pc \notin {"attempt", "again", "relay", "charged"}
  PROVE  OwnInv'
<1>1. /\ holds[c] # NoKey <=> req[c].pc \in {"attempt", "again"}
      /\ relays[c] # NoKey <=> req[c].pc \in {"relay", "charged"}
      /\ req[c].pc \in {"attempt", "again"} => req[c].prov \in Prov
  BY DEF Inv, NothingLeaks, Attempting
<1>2. /\ holds'[c] # NoKey <=> q.pc \in {"attempt", "again"}
      /\ relays'[c] # NoKey <=> q.pc \in {"relay", "charged"}
      /\ q.pc \in {"attempt", "again"} => q.prov \in Prov
  BY <1>1 DEF Attempting
<1>3. mute' \subseteq Prov /\ UNCHANGED <<config, loading>>
  BY DEF server, Inv, Typed
<1> QED
  BY <1>2, <1>3, Moved

LEMMA CallersType == Inv => /\ holds \in [Caller -> Cell \cup {NoKey}]
                            /\ relays \in [Caller -> Cell \cup {NoKey}]
                            /\ NoKey \notin Cell
  BY PoolGiven DEF Inv, PP!Inv, PP!TypeOK, PP!CellAssumption

LEMMA LookKeeps == P!Look => UNCHANGED <<holds, relays>>
  BY DEF P!Look, P!callers

LEMMA ArriveInv == ASSUME Inv, NEW c \in Caller, Arrive(c) PROVE OwnInv'
<1>1. PICK n \in Name, s \in Stream :
        Moves(c, [Fresh EXCEPT !.pc = "route", !.name = n, !.stream = s, !.round = req[c].round + 1])
  BY DEF Arrive
<1>2. req[c].round + 1 \in 0..Rounds /\ s \in BOOLEAN
  <2>1. req[c].round \in 0..Rounds
    BY RequestType DEF Request
  <2> QED
    BY <2>1, GatewayAssumption DEF Arrive
<1>3. PICK q : q = [Fresh EXCEPT !.pc = "route", !.name = n, !.stream = s, !.round = req[c].round + 1]
  OBVIOUS
<1>4. q \in Request /\ Sound(q)
  BY <1>2, <1>3, ArriveStep DEF Inv, Typed
<1>5. q.pc = "route"
  BY <1>3 DEF Fresh
<1> QED
  BY <1>1, <1>3, <1>4, <1>5, MovedAlone DEF Arrive, pool, Attempting

LEMMA TickInv == ASSUME Inv, Tick PROVE OwnInv'
<1>1. UNCHANGED <<holds, relays, server>>
  BY DEF Tick, P!Tick, P!callers
<1>2. req' = [c \in Caller |-> [req[c] EXCEPT !.nap = IF @ = 0 THEN 0 ELSE @ - 1]]
  BY DEF Tick
<1>3. ASSUME NEW c \in Caller
      PROVE  req'[c] \in Request /\ Sound(req'[c]) /\ req'[c].pc = req[c].pc /\ req'[c].prov = req[c].prov
  <2> DEFINE r == req[c]
             nap == IF r.nap = 0 THEN 0 ELSE r.nap - 1
  <2>1. r \in Request /\ Sound(r)
    BY RequestType
  <2>2. nap \in 0..Pause
    BY <2>1, GatewayAssumption DEF Request
  <2>3. PICK q : q = [r EXCEPT !.nap = nap]
    OBVIOUS
  <2>4. q = req'[c]
    BY <1>2, <2>3
  <2> HIDE DEF r, nap
  <2>5. q \in Request
    BY <2>1, <2>2, <2>3, Zenon DEF Request
  <2>6. /\ q.pc = r.pc /\ q.snap = r.snap /\ q.name = r.name /\ q.i = r.i /\ q.ts = r.ts
        /\ q.j = r.j /\ q.out = r.out /\ q.walked = r.walked /\ q.rested = r.rested
        /\ q.tries = r.tries /\ q.resent = r.resent /\ q.asked = r.asked /\ q.heads = r.heads
        /\ q.left = r.left /\ q.prov = r.prov /\ q.stream = r.stream /\ q.meter = r.meter
    BY <2>1, <2>3 DEF Request
  <2>7. Shape(q) /\ Ordered(q) /\ Bounded(q) /\ Metered(q)
    BY <2>1, <2>5, <2>6, Stays
  <2>8. Answered(q)
    BY <2>1, <2>6, Zenon DEF Sound, Answered
  <2> QED
    BY <2>4, <2>5, <2>6, <2>7, <2>8 DEF Sound, r
<1>4. Typed'
  BY <1>1, <1>2, <1>3 DEF Inv, Typed, server
<1> QED
  BY <1>1, <1>3, <1>4 DEF OwnInv, Inv, NothingLeaks, Attempting

\* A step that changes where the request is, on the same targets, or who has left.
LEMMA Onward ==
  ASSUME NEW r \in Request, Sound(r),
         NEW q \in Request, q.pc = r.pc \/ (Walks(r) /\ Walks(q)),
         q.snap = r.snap, q.name = r.name, q.i = r.i, q.ts = r.ts, q.j = r.j, q.out = r.out,
         q.walked = r.walked, q.rested = r.rested, q.asked = r.asked,
         q.tries = r.tries, q.resent = r.resent, q.stream = r.stream,
         q.pc = "attempt" => r.pc = "attempt" /\ q.meter = r.meter /\ q.prov = r.prov,
         \/ q.heads = r.heads /\ (r.pc \in {"relay", "charged"} <=> q.pc \in {"relay", "charged"})
         \/ q.heads = 1 /\ q.pc \in {"relay", "charged"},
         q.left = r.left \/ q.pc # "end"
  PROVE  Sound(q)
<1>1. Shape(q) /\ Ordered(q) /\ Bounded(q) /\ Metered(q)
  BY Stays
<1>2. Answered(q)
  BY DEF Sound, Answered, Walks
<1> QED
  BY <1>1, <1>2 DEF Sound

LEMMA LeaveInv == ASSUME Inv, NEW c \in Caller, Leave(c) PROVE OwnInv'
<1> DEFINE r == req[c]
<1>1. r \in Request /\ Sound(r)
  BY RequestType
<1>2. PICK q : q = [r EXCEPT !.left = TRUE]
  OBVIOUS
<1>3. Moves(c, q) /\ UNCHANGED <<pool, server>> /\ r.pc \in {"nap", "attempt", "again", "relay", "charged"}
  BY <1>2 DEF Leave
<1>4. q \in Request
  BY <1>1, <1>2, Zenon DEF Request
<1>5. /\ q.pc = r.pc /\ q.snap = r.snap /\ q.name = r.name /\ q.i = r.i /\ q.ts = r.ts
      /\ q.j = r.j /\ q.out = r.out /\ q.walked = r.walked /\ q.rested = r.rested
      /\ q.tries = r.tries /\ q.asked = r.asked /\ q.heads = r.heads /\ q.prov = r.prov
      /\ q.resent = r.resent /\ q.stream = r.stream /\ q.meter = r.meter
  BY <1>1, <1>2 DEF Request
<1> HIDE DEF r
<1>6. Sound(q)
  BY <1>1, <1>3, <1>4, <1>5, Onward
<1> QED
  BY <1>3, <1>4, <1>5, <1>6, MovedAlone DEF pool, r

LEMMA RouteInv == ASSUME Inv, NEW c \in Caller, Route(c) PROVE OwnInv'
<1> DEFINE r == req[c]
<1>1. r \in Request /\ Sound(r) /\ r.pc = "route"
  BY RequestType DEF Route
<1>2. PICK i \in DOMAIN NamesOf(r) :
        /\ NextNew(NamesOf(r), r.i + 1, TriedOf(r), i)
        /\ \E ts \in Orders(Targets(r.snap, NamesOf(r)[i])) :
             Moves(c, [r EXCEPT !.pc = "walk", !.i = i, !.ts = ts, !.j = 1, !.walked = {}])
        /\ UNCHANGED pool \/ P!Look
  BY NamesAre, Zenon DEF Route
<1>3. PICK ts \in Orders(Targets(r.snap, NamesOf(r)[i])) :
        Moves(c, [r EXCEPT !.pc = "walk", !.i = i, !.ts = ts, !.j = 1, !.walked = {}])
  BY <1>2
<1>4. PICK q : q = [r EXCEPT !.pc = "walk", !.i = i, !.ts = ts, !.j = 1, !.walked = {}]
  OBVIOUS
<1> HIDE DEF r
<1>5. q \in Request /\ Sound(q)
  BY <1>1, <1>2, <1>3, <1>4, RouteStep
<1>6. q.pc = "walk" /\ q.prov = r.prov
  BY <1>1, <1>4 DEF Request
<1>7. UNCHANGED <<holds, relays, server>>
  BY <1>2, LookKeeps DEF pool, Route
<1>8. Moves(c, q)
  BY <1>3, <1>4
<1> QED
  BY <1>1, <1>5, <1>6, <1>7, <1>8, MovedAlone DEF r

LEMMA ExhaustInv == ASSUME Inv, NEW c \in Caller, Exhaust(c) PROVE OwnInv'
<1> DEFINE r == req[c]
<1>1. r \in Request /\ Sound(r) /\ r.pc = "route" /\ config \in Config
  BY RequestType DEF Exhaust, Inv, Typed
<1>2. \A i \in DOMAIN NamesOf(r) : i > r.i => NamesOf(r)[i] \in TriedOf(r)
  BY NamesAre DEF Exhaust
<1>3. \A n \in DOMAIN NamesOf(r) : CoveredBy(r, NamesOf(r)[n])
  BY <1>1, <1>2, ExhaustStep
<1>4. PICK q : q = Over(r, "exhausted", 1)
  OBVIOUS
<1>5. Moves(c, q) /\ UNCHANGED <<holds, relays, server>>
  BY <1>4, LookKeeps DEF Exhaust
<1> HIDE DEF r
<1>6. r.name \in Name /\ r.heads = 0
  BY <1>1 DEF Sound, Shape, Answered
<1>7. q \in Request /\ Sound(q)
  <2>1. "exhausted" \in Outcome /\ 1 \in {0, 1} /\ r.heads + 1 <= 1 /\ ~(r.heads + 1 = 0)
    BY <1>6 DEF Outcome
  <2> QED
    BY <1>1, <1>3, <1>4, <1>6, <2>1, Ends
<1>8. q.pc = "end" /\ q.prov = Nobody
  BY <1>4 DEF Over, Fresh
<1> QED
  BY <1>1, <1>5, <1>7, <1>8, MovedAlone DEF r, Attempting

\* What pick reserves is a key.
LEMMA KeyPicked ==
  ASSUME Inv, NEW c \in Caller, NEW p \in Prov, P!Pick(c, p)
  PROVE  /\ \E k \in Cell : holds' = [holds EXCEPT ![c] = k]
         /\ relays' = relays
<1>1. PICK i \in 0..(Len(slots[p]) - 1) : holds' = [holds EXCEPT ![c] = P!Visit(p, i)]
  BY DEF P!Pick
<1>2. P!Visit(p, i) = PP!Visit(p, i)
  BY DEF P!Visit, PP!Visit
<1>3. PP!Visit(p, i) \in Cell
  BY PoolGiven, PP!VisitInRotation DEF Inv, PP!Inv
<1> QED
  BY <1>1, <1>2, <1>3 DEF P!Pick

LEMMA TryInv == ASSUME Inv, NEW c \in Caller, Try(c) PROVE OwnInv'
<1> DEFINE r == req[c]
<1>1. r \in Request /\ Sound(r) /\ r.pc = "walk"
  BY RequestType DEF Try
<1>2. PICK j \in DOMAIN r.ts :
        /\ NextNew(r.ts, r.j, r.walked, j)
        /\ \/ /\ P!Pick(c, r.ts[j])
              /\ Moves(c, [r EXCEPT !.pc = "attempt", !.j = j + 1, !.walked = @ \cup {r.ts[j]},
                                    !.prov = r.ts[j], !.meter = r.stream /\ r.ts[j] \notin mute,
                                    !.tries = OneMore(@, <<NameOf(r), r.ts[j]>>),
                                    !.asked = r.asked \cup {<<NameOf(r), r.ts[j]>>}])
           \/ /\ P!Miss(r.ts[j])
              /\ Moves(c, [r EXCEPT !.j = j + 1, !.asked = r.asked \cup {<<NameOf(r), r.ts[j]>>}])
  BY NamesAre, Zenon DEF Try, Asked, Target
<1>3. UNCHANGED server
  BY DEF Try
<1>4. r.ts[j] \in Prov
  BY <1>1, WalkFacts DEF Walks
<1>5. mute' \subseteq Prov /\ UNCHANGED <<config, loading>>
  BY <1>3 DEF server, Inv, Typed
<1>6. CASE /\ P!Pick(c, r.ts[j])
           /\ Moves(c, [r EXCEPT !.pc = "attempt", !.j = j + 1, !.walked = @ \cup {r.ts[j]},
                                 !.prov = r.ts[j], !.meter = r.stream /\ r.ts[j] \notin mute,
                                 !.tries = OneMore(@, <<NameOf(r), r.ts[j]>>),
                                 !.asked = r.asked \cup {<<NameOf(r), r.ts[j]>>}])
  <2>1. PICK meter \in BOOLEAN : meter = (r.stream /\ r.ts[j] \notin mute)
    BY Zenon
  <2>2. PICK q : q = [r EXCEPT !.pc = "attempt", !.j = j + 1, !.walked = @ \cup {r.ts[j]},
                               !.prov = r.ts[j], !.meter = meter,
                               !.tries = OneMore(@, <<NameOf(r), r.ts[j]>>),
                               !.asked = r.asked \cup {<<NameOf(r), r.ts[j]>>}]
    OBVIOUS
  <2>3. Moves(c, q)
    BY <1>6, <2>1, <2>2, Zenon
  <2>4. PICK k \in Cell : holds' = [holds EXCEPT ![c] = k] /\ relays' = relays
    BY <1>4, <1>6, KeyPicked
  <2>5. /\ k # NoKey /\ relays[c] = NoKey
        /\ holds \in [Caller -> Cell \cup {NoKey}]
    BY <1>6, CallersType DEF P!Pick
  <2> HIDE DEF r
  <2>6. q \in Request /\ Sound(q)
    BY <1>1, <1>2, <2>1, <2>2, PickStep
  <2>7. q.pc = "attempt" /\ q.prov = r.ts[j]
    BY <1>1, <2>2 DEF Request
  <2> QED
    BY <1>4, <1>5, <2>3, <2>4, <2>5, <2>6, <2>7, Moved
<1>7. CASE /\ P!Miss(r.ts[j])
           /\ Moves(c, [r EXCEPT !.j = j + 1, !.asked = r.asked \cup {<<NameOf(r), r.ts[j]>>}])
  <2>1. PICK q : q = [r EXCEPT !.j = j + 1, !.asked = r.asked \cup {<<NameOf(r), r.ts[j]>>}]
    OBVIOUS
  <2>2. Moves(c, q) /\ UNCHANGED <<holds, relays, server>>
    BY <1>3, <1>7, <2>1, LookKeeps DEF P!Miss
  <2> HIDE DEF r
  <2>3. q \in Request /\ Sound(q)
    BY <1>1, <1>2, <2>1, MissStep
  <2>4. q.pc = r.pc /\ q.prov = r.prov
    BY <1>1, <2>1 DEF Request
  <2> QED
    BY <2>2, <2>3, <2>4, MovedAlone DEF r
<1> QED
  BY <1>2, <1>6, <1>7

LEMMA WalkEndsInv == ASSUME Inv, NEW c \in Caller, WalkEnds(c) PROVE OwnInv'
<1> DEFINE r == req[c]
           d == P!Soonest(Range(r.ts))
<1>1. /\ r \in Request /\ Sound(r) /\ r.pc = "walk"
      /\ \A j \in DOMAIN r.ts : j >= r.j => r.ts[j] \in r.walked
  BY RequestType DEF WalkEnds, NoTargetLeft
<1>2. UNCHANGED <<holds, relays, server>>
  BY LookKeeps DEF WalkEnds, pool
<1>3. PICK pc \in {"route", "nap"}, nap \in 0..Pause :
        /\ pc = "nap" => r.i = 1 /\ ~r.rested
        /\ Moves(c, [r EXCEPT !.pc = pc, !.nap = nap])
  <2>1. CASE /\ r.i > 1 \/ r.rested
             /\ Moves(c, [r EXCEPT !.pc = "route"])
    <3>1. r.nap \in 0..Pause
      BY <1>1 DEF Request
    <3>2. [r EXCEPT !.pc = "route"] = [r EXCEPT !.pc = "route", !.nap = r.nap]
      BY <1>1, Zenon DEF Request
    <3> QED
      BY <2>1, <3>1, <3>2
  <2>2. CASE /\ r.i = 1 /\ ~r.rested
             /\ Moves(c, [r EXCEPT !.pc = IF ShortNap(d) THEN "nap" ELSE "route",
                                   !.nap = IF ShortNap(d) THEN d ELSE 0])
    <3>1. d \in Nat
      <4>1. PP!Soonest(Range(r.ts)) \in Nat
        BY PoolGiven, PP!SoonestType DEF Inv, PP!Inv
      <4> QED
        BY <4>1, SameSoonest
    <3>2. CASE ShortNap(d)
      <4>1. d \in 0..Pause
        BY <3>1, <3>2, GatewayAssumption DEF ShortNap
      <4> QED
        BY <2>2, <3>2, <4>1
    <3>3. CASE ~ShortNap(d)
      <4>1. 0 \in 0..Pause
        BY GatewayAssumption
      <4> QED
        BY <2>2, <3>3, <4>1
    <3> QED
      BY <3>2, <3>3
  <2> QED
    BY <2>1, <2>2 DEF WalkEnds
<1>4. PICK q : q = [r EXCEPT !.pc = pc, !.nap = nap]
  OBVIOUS
<1>5. Moves(c, q)
  BY <1>3, <1>4
<1> HIDE DEF r
<1>6. q \in Request
  BY <1>1, <1>3, <1>4, Zenon DEF Request, Doing
<1>7. /\ q.pc = pc /\ q.snap = r.snap /\ q.name = r.name /\ q.i = r.i /\ q.ts = r.ts
      /\ q.j = r.j /\ q.out = r.out /\ q.rested = r.rested /\ q.prov = r.prov
      /\ q.tries = r.tries /\ q.asked = r.asked /\ q.heads = r.heads
      /\ q.resent = r.resent /\ q.stream = r.stream
  BY <1>1, <1>4 DEF Request
<1>8. Sound(q)
  BY <1>1, <1>3, <1>6, <1>7, LeaveStep
<1> QED
  BY <1>1, <1>2, <1>3, <1>5, <1>6, <1>7, <1>8, MovedAlone DEF r

LEMMA WakeInv == ASSUME Inv, NEW c \in Caller, Wake(c) PROVE OwnInv'
<1> DEFINE r == req[c]
<1>1. r \in Request /\ Sound(r) /\ r.pc = "nap"
  BY RequestType DEF Wake
<1>2. PICK q : q = [r EXCEPT !.pc = "walk", !.rested = TRUE, !.j = 1, !.walked = {}]
  OBVIOUS
<1>3. Moves(c, q) /\ UNCHANGED <<pool, server>>
  BY <1>2 DEF Wake
<1> HIDE DEF r
<1>4. q \in Request /\ Sound(q)
  BY <1>1, <1>2, WakeStep
<1>5. q.pc = "walk" /\ q.prov = r.prov
  BY <1>1, <1>2 DEF Request
<1> QED
  BY <1>1, <1>3, <1>4, <1>5, MovedAlone DEF pool, r

\* A request that has written no head, or all it will, ends without another.
LEMMA Over0 ==
  ASSUME Inv, NEW c \in Caller, OnName(req[c]), NEW out \in Outcome, out # "exhausted",
         NEW heads \in {0, 1}, heads = 1 => ~(req[c].pc \in {"relay", "charged"}),
         \/ heads = 1
         \/ req[c].pc \in {"relay", "charged"}
         \/ out = "gone" /\ req[c].left
  PROVE  /\ Over(req[c], out, heads) \in Request /\ Sound(Over(req[c], out, heads))
         /\ Over(req[c], out, heads).pc = "end"
<1> DEFINE r == req[c]
<1>1. r \in Request /\ Sound(r) /\ config \in Config
  BY RequestType DEF Inv, Typed
<1>2. r.pc \in {"walk", "attempt", "again", "relay", "charged", "nap"}
  BY DEF OnName, Walks
<1> HIDE DEF r
<1>3. r.name \in Name
  BY <1>1, <1>2 DEF Sound, Shape
<1>4. r.heads = IF r.pc \in {"relay", "charged"} THEN 1 ELSE 0
  BY <1>1, <1>2 DEF Sound, Answered
<1>5. r.heads + heads <= 1 /\ (r.heads + heads = 0 => out = "gone" /\ r.left)
  BY <1>4 DEF r
<1>6. Over(r, out, heads) \in Request /\ Sound(Over(r, out, heads))
  BY <1>1, <1>3, <1>5, Ends
<1>7. Over(r, out, heads).pc = "end"
  BY DEF Over, Fresh
<1> QED
  BY <1>6, <1>7 DEF r

LEMMA Outcomes == {"ok", "gone", "truncated", "rejected"} \subseteq Outcome \ {"exhausted"}
  BY Zenon DEF Outcome

LEMMA WakeGoneInv == ASSUME Inv, NEW c \in Caller, WakeGone(c) PROVE OwnInv'
<1>1. req[c].pc = "nap" /\ req[c].left /\ OnName(req[c])
  BY DEF WakeGone, OnName
<1>2. PICK q : q = Over(req[c], "gone", 0)
  OBVIOUS
<1>3. q \in Request /\ Sound(q) /\ q.pc = "end"
  <2>1. "gone" \in Outcome /\ "gone" # "exhausted"
    BY Outcomes
  <2> QED
    BY <1>1, <1>2, <2>1, Over0
<1>4. Moves(c, q) /\ UNCHANGED <<pool, server>>
  BY <1>2 DEF WakeGone
<1> QED
  BY <1>1, <1>3, <1>4, MovedAlone DEF pool, Attempting

LEMMA UnmeterInv == ASSUME Inv, NEW c \in Caller, Unmeter(c) PROVE OwnInv'
<1> DEFINE r == req[c]
<1>1. r \in Request /\ Sound(r) /\ r.pc = "attempt"
  BY RequestType DEF Unmeter
<1>2. r.prov \in Prov /\ NameNow(c) = NameOf(r) /\ r.meter
  BY NamesAre DEF Unmeter, Inv, Attempting
<1>3. PICK q : q = [r EXCEPT !.pc = "again", !.resent = OneMore(@, <<NameOf(r), r.prov>>)]
  OBVIOUS
<1>4. Moves(c, q) /\ UNCHANGED <<pool, server>>
  BY <1>2, <1>3 DEF Unmeter, Target
<1> HIDE DEF r
<1>5. q \in Request /\ Sound(q)
  BY <1>1, <1>2, <1>3, UnmeterStep
<1>6. q.pc = "again" /\ q.prov = r.prov
  BY <1>1, <1>3 DEF Request
<1> QED
  BY <1>1, <1>4, <1>5, <1>6, MovedAlone DEF pool, r

LEMMA CommitInv == ASSUME Inv, NEW c \in Caller, Commit(c) PROVE OwnInv'
<1> DEFINE r == req[c]
<1>1. r \in Request /\ Sound(r) /\ r.pc \in {"attempt", "again"} /\ r.prov \in Prov
  BY RequestType DEF Commit, Attempting, Inv
<1>2. PICK q : q = [r EXCEPT !.pc = "relay", !.heads = @ + 1]
  OBVIOUS
<1>3. Moves(c, q) /\ P!Ok(c) /\ UNCHANGED <<config, loading>> /\ mute' \subseteq Prov
  BY <1>1, <1>2 DEF Commit, Inv, Typed
<1> HIDE DEF r
<1>4. r.heads = 0
  BY <1>1 DEF Sound, Answered
<1>5. q \in Request
  <2>1. r.heads + 1 \in Nat
    BY <1>4
  <2> QED
    BY <1>1, <1>2, <2>1, Zenon DEF Request, Doing
<1>6. /\ q.pc = "relay" /\ q.snap = r.snap /\ q.name = r.name /\ q.i = r.i /\ q.ts = r.ts
      /\ q.j = r.j /\ q.out = r.out /\ q.walked = r.walked /\ q.rested = r.rested
      /\ q.tries = r.tries /\ q.asked = r.asked /\ q.heads = 1 /\ q.left = r.left
      /\ q.resent = r.resent /\ q.stream = r.stream
  BY <1>1, <1>2, <1>4 DEF Request
<1>7. Walks(r) /\ Walks(q)
  BY <1>1, <1>6 DEF Walks
<1>8. Sound(q)
  BY <1>1, <1>5, <1>6, <1>7, Onward
<1>9. /\ \A d \in Caller \ {c} : holds'[d] = holds[d] /\ relays'[d] = relays[d]
      /\ holds'[c] = NoKey /\ relays'[c] # NoKey
  BY <1>3, CallersType DEF P!Ok
<1> QED
  BY <1>3, <1>5, <1>6, <1>8, <1>9, Moved

\* fail, done, sour and finish take the key from the caller, and from no other.
LEMMA KeyDropped ==
  ASSUME Inv, NEW c \in Caller,
         \/ /\ Attempting(c)
            /\ holds' = [holds EXCEPT ![c] = NoKey] /\ relays' = relays
         \/ /\ req[c].pc \in {"relay", "charged"}
            /\ holds' = holds /\ relays' = [relays EXCEPT ![c] = NoKey]
  PROVE  /\ \A d \in Caller \ {c} : holds'[d] = holds[d] /\ relays'[d] = relays[d]
         /\ holds'[c] = NoKey /\ relays'[c] = NoKey
<1>1. /\ holds[c] # NoKey <=> Attempting(c)
      /\ relays[c] # NoKey <=> req[c].pc \in {"relay", "charged"}
      /\ Attempting(c) => req[c].pc \notin {"relay", "charged"}
  BY DEF Inv, NothingLeaks, Attempting
<1>2. CASE Attempting(c) /\ holds' = [holds EXCEPT ![c] = NoKey] /\ relays' = relays
  BY <1>1, <1>2, CallersType
<1>3. CASE /\ req[c].pc \in {"relay", "charged"}
           /\ holds' = holds /\ relays' = [relays EXCEPT ![c] = NoKey]
  BY <1>1, <1>3, CallersType
<1> QED
  BY <1>2, <1>3

LEMMA LoseInv ==
  ASSUME Inv, NEW c \in Caller, NEW code \in Code, NEW retry \in Hint, Lose(c, code, retry)
  PROVE  OwnInv'
<1> DEFINE r == req[c]
<1>1. r \in Request /\ Sound(r) /\ r.pc \in {"attempt", "again"}
  BY RequestType DEF Lose, Attempting
<1>2. PICK q : q = IF Mine(code) THEN Over(r, "rejected", 1) ELSE [r EXCEPT !.pc = "walk"]
  OBVIOUS
<1>3. Moves(c, q) /\ P!Fail(c, code, retry) /\ UNCHANGED server
  BY <1>2 DEF Lose
<1>4. Walks(r) /\ OnName(r)
  BY <1>1 DEF Walks, OnName
<1>5. q \in Request /\ Sound(q) /\ q.pc \in {"end", "walk"}
  <2>1. CASE Mine(code)
    <3>1. "rejected" \in Outcome /\ "rejected" # "exhausted"
      BY Outcomes
    <3> QED
      BY <1>1, <1>2, <1>4, <2>1, <3>1, Over0
  <2>2. CASE ~Mine(code)
    <3> HIDE DEF r
    <3>1. q = [r EXCEPT !.pc = "walk"]
      BY <1>2, <2>2
    <3>2. q \in Request
      BY <1>1, <3>1, Zenon DEF Request, Doing
    <3>3. /\ q.pc = "walk" /\ q.snap = r.snap /\ q.name = r.name /\ q.i = r.i /\ q.ts = r.ts
          /\ q.j = r.j /\ q.out = r.out /\ q.walked = r.walked /\ q.rested = r.rested
          /\ q.tries = r.tries /\ q.asked = r.asked /\ q.heads = r.heads /\ q.left = r.left
          /\ q.resent = r.resent /\ q.stream = r.stream
      BY <1>1, <3>1 DEF Request
    <3>4. Walks(q)
      BY <3>3 DEF Walks
    <3>5. Sound(q)
      BY <1>1, <1>4, <3>2, <3>3, <3>4, Onward
    <3> QED
      BY <3>2, <3>3, <3>5
  <2> QED
    BY <2>1, <2>2
<1>6. /\ \A d \in Caller \ {c} : holds'[d] = holds[d] /\ relays'[d] = relays[d]
      /\ holds'[c] = NoKey /\ relays'[c] = NoKey
  <2>1. holds' = [holds EXCEPT ![c] = NoKey] /\ relays' = relays
    BY <1>3 DEF P!Fail
  <2> QED
    BY <1>1, <2>1, KeyDropped DEF Attempting
<1>7. mute' \subseteq Prov /\ UNCHANGED <<config, loading>>
  BY <1>3 DEF server, Inv, Typed
<1> QED
  BY <1>3, <1>5, <1>6, <1>7, Moved

LEMMA AbandonInv == ASSUME Inv, NEW c \in Caller, Abandon(c) PROVE OwnInv'
<1>1. Attempting(c) /\ req[c].left /\ OnName(req[c])
  BY DEF Abandon, Attempting, OnName, Walks
<1>2. PICK q : q = Over(req[c], "gone", 0)
  OBVIOUS
<1>3. Moves(c, q) /\ P!Done(c) /\ UNCHANGED server
  BY <1>2 DEF Abandon
<1>4. q \in Request /\ Sound(q) /\ q.pc = "end"
  <2>1. "gone" \in Outcome /\ "gone" # "exhausted"
    BY Outcomes
  <2> QED
    BY <1>1, <1>2, <2>1, Over0
<1>5. /\ \A d \in Caller \ {c} : holds'[d] = holds[d] /\ relays'[d] = relays[d]
      /\ holds'[c] = NoKey /\ relays'[c] = NoKey
  BY <1>1, <1>3, KeyDropped DEF P!Done
<1>6. mute' \subseteq Prov /\ UNCHANGED <<config, loading>>
  BY <1>3 DEF server, Inv, Typed
<1> QED
  BY <1>3, <1>4, <1>5, <1>6, Moved

LEMMA RelayEndsInv == ASSUME Inv, NEW c \in Caller, RelayEnds(c) PROVE OwnInv'
<1> DEFINE r == req[c]
<1>1. r \in Request /\ Sound(r) /\ r.pc = "relay"
  BY RequestType DEF RelayEnds
<1>2. PICK how \in {"whole", "client", "upstream"} : Moves(c, [r EXCEPT !.pc = "charged", !.how = how])
  BY DEF RelayEnds
<1>3. PICK q : q = [r EXCEPT !.pc = "charged", !.how = how]
  OBVIOUS
<1>4. Moves(c, q) /\ UNCHANGED <<holds, relays, server>>
  BY <1>2, <1>3, LookKeeps DEF RelayEnds
<1> HIDE DEF r
<1>5. q \in Request
  BY <1>1, <1>3, Zenon DEF Request, Doing
<1>6. /\ q.pc = "charged" /\ q.snap = r.snap /\ q.name = r.name /\ q.i = r.i /\ q.ts = r.ts
      /\ q.j = r.j /\ q.out = r.out /\ q.walked = r.walked /\ q.rested = r.rested
      /\ q.tries = r.tries /\ q.asked = r.asked /\ q.heads = r.heads /\ q.prov = r.prov
      /\ q.left = r.left /\ q.resent = r.resent /\ q.stream = r.stream
  BY <1>1, <1>3 DEF Request
<1>7. Walks(r) /\ Walks(q)
  BY <1>1, <1>6 DEF Walks
<1>8. Sound(q)
  BY <1>1, <1>5, <1>6, <1>7, Onward
<1> QED
  BY <1>1, <1>4, <1>5, <1>6, <1>8, MovedAlone DEF r

LEMMA SettleInv == ASSUME Inv, NEW c \in Caller, Settle(c) PROVE OwnInv'
<1>1. req[c].pc = "charged" /\ OnName(req[c])
  BY DEF Settle, OnName, Walks
<1>2. PICK out \in {"ok", "gone", "truncated"} : Moves(c, Over(req[c], out, 0))
  BY DEF Settle
<1>3. holds' = holds /\ relays' = [relays EXCEPT ![c] = NoKey] /\ UNCHANGED server
  BY DEF Settle, P!Finish, P!Sour
<1>4. PICK q : q = Over(req[c], out, 0)
  OBVIOUS
<1>5. q \in Request /\ Sound(q) /\ q.pc = "end"
  <2>1. out \in Outcome /\ out # "exhausted"
    BY Outcomes
  <2> QED
    BY <1>1, <1>4, <2>1, Over0
<1>6. /\ \A d \in Caller \ {c} : holds'[d] = holds[d] /\ relays'[d] = relays[d]
      /\ holds'[c] = NoKey /\ relays'[c] = NoKey
  BY <1>1, <1>3, KeyDropped
<1>7. mute' \subseteq Prov /\ UNCHANGED <<config, loading>>
  BY <1>3 DEF server, Inv, Typed
<1> QED
  BY <1>2, <1>4, <1>5, <1>6, <1>7, Moved

\* A step of nobody's request: time aside, a reload.
LEMMA NobodyMoves ==
  ASSUME Inv, UNCHANGED <<holds, relays, req>>, mute' = mute,
         config' \in Config, loading' \subseteq Config
  PROVE  OwnInv'
<1>1. Typed'
  BY DEF Inv, Typed
<1> QED
  BY <1>1 DEF OwnInv, Inv, NothingLeaks, Attempting

LEMMA NextInv == Inv /\ [Next]_vars => Inv'
<1> SUFFICES ASSUME Inv, [Next]_vars PROVE OwnInv'
  BY PoolInv DEF Inv, OwnInv
<1>1. CASE Tick
  BY <1>1, TickInv
<1>2. ASSUME NEW c \in Caller, Arrive(c) \/ Leave(c) \/ Proceed(c) PROVE OwnInv'
  BY <1>2, ArriveInv, LeaveInv, RouteInv, ExhaustInv, TryInv, WalkEndsInv, WakeInv, WakeGoneInv,
     UnmeterInv, CommitInv, AbandonInv, RelayEndsInv, SettleInv, LoseInv DEF Proceed
<1>3. config \in Config /\ loading \subseteq Config
  BY DEF Inv, Typed
<1>4. ASSUME NEW cfg \in Config, Adopt(cfg) PROVE OwnInv'
  <2>1. /\ UNCHANGED <<holds, relays, req>> /\ mute' = mute
        /\ config' \in Config /\ loading' \subseteq Config
    BY <1>3, <1>4 DEF Adopt, P!Adopt, P!callers
  <2> QED
    BY <2>1, NobodyMoves
<1>5. CASE Store \/ UNCHANGED vars
  <2>1. /\ UNCHANGED <<holds, relays, req>> /\ mute' = mute
        /\ config' \in Config /\ loading' \subseteq Config
    BY <1>3, <1>5 DEF Store, pool, vars, server
  <2> QED
    BY <2>1, NobodyMoves
<1> QED
  BY <1>1, <1>2, <1>4, <1>5 DEF Next

LEMMA InitInv == Init => Inv
<1> SUFFICES ASSUME Init PROVE Inv
  OBVIOUS
<1>1. config \in Config /\ P!Start(config.pool) /\ PP!Start(config.pool)
  BY SameStart DEF Init
<1>2. PP!Inv
  <2>1. config.pool \in {cfg.pool : cfg \in Config}
    BY <1>1
  <2> QED
    BY <1>1, <2>1, PoolGiven, PP!StartInv
<1>3. \A c \in Caller : req[c] = Fresh /\ holds[c] = NoKey /\ relays[c] = NoKey
  BY <1>1 DEF Init, P!Start
<1>4. Fresh \in Request /\ Sound(Fresh) /\ Fresh.pc = "new"
  BY <1>1, FreshType, FreshSound DEF Fresh
<1>5. Typed
  BY <1>1, <1>4 DEF Init, Typed
<1>6. NothingLeaks
  BY <1>3, <1>4 DEF NothingLeaks, Attempting
<1>7. \A c \in Caller : Sound(req[c]) /\ (Attempting(c) => req[c].prov \in Prov)
  BY <1>3, <1>4 DEF Attempting
<1> QED
  BY <1>2, <1>5, <1>6, <1>7 DEF Inv

LEMMA Invariance == Spec => []Inv
  BY InitInv, NextInv, PTL DEF Spec

-----------------------------------------------------------------------------
(* The theorems.                                                           *)

\* What the gateway does to its keys, with retries, failover, naps, clients that
\* leave and reloads, is what module Pool allows.
THEOREM PoolRefined == Spec => P!Spec
<1>1. Init => P!Init
  <2>1. ASSUME Init PROVE P!Init
    <3>1. config.pool \in {cfg.pool : cfg \in Config} /\ P!Start(config.pool)
      BY <2>1 DEF Init
    <3> QED
      BY <3>1 DEF P!Init
  <2> QED
    BY <2>1
<1> QED
  BY <1>1, Invariance, PoolStep, PTL DEF Spec, P!Spec

\* So what is proved of the pool holds of the gateway's: reservations are counted
\* and given back once, no cap is passed, cursors stay in range, secrets in use
\* stay masked, and a key that stays configured keeps its state.
THEOREM PoolKept ==
  Spec => /\ []P!LiveCounted /\ P!CapsRespected
          /\ []P!CursorInRange /\ []P!UsedKeysMasked /\ P!KeptKeysKeepState
<1>1. P!Spec => PP!Spec
  <2>1. [P!Next]_(P!vars) => [PP!Next]_(PP!vars)
    BY SameNext, SameVars
  <2> QED
    BY <2>1, SameInit, PTL DEF P!Spec, PP!Spec
<1>2. PP!Spec => /\ []PP!LiveCounted /\ PP!CapsRespected
                 /\ []PP!CursorInRange /\ []PP!UsedKeysMasked /\ PP!KeptKeysKeepState
  BY PoolGiven, PP!ReservationsCounted, PP!LimitsKept, PP!CursorsInRange, PP!SecretsMasked,
     PP!KeptKeysSurvive, PTL
<1>3. PP!LiveCounted <=> P!LiveCounted
  BY DEF P!LiveCounted, PP!LiveCounted, P!Holders, PP!Holders, P!Cardinality, PP!Cardinality
<1>4. PP!CursorInRange <=> P!CursorInRange
  BY DEF P!CursorInRange, PP!CursorInRange
<1>5. PP!UsedKeysMasked <=> P!UsedKeysMasked
  BY DEF P!UsedKeysMasked, PP!UsedKeysMasked
<1>6. [PP!GrowsWithinCaps]_(PP!vars) <=> [P!GrowsWithinCaps]_(P!vars)
  BY SameVars DEF P!GrowsWithinCaps, PP!GrowsWithinCaps
<1>7. [PP!SameObjects]_(PP!vars) <=> [P!SameObjects]_(P!vars)
  BY SameVars DEF P!SameObjects, PP!SameObjects, P!Rotation, PP!Rotation
<1> QED
  BY <1>1, <1>2, <1>3, <1>4, <1>5, <1>6, <1>7, PoolRefined, PTL
     DEF P!CapsRespected, PP!CapsRespected, P!KeptKeysKeepState, PP!KeptKeysKeepState

\* The gateway's own state is well typed.
THEOREM TypeCorrect == Spec => []TypeOK
<1>1. Inv => TypeOK
  <2> SUFFICES ASSUME Inv, NEW c \in Caller
               PROVE  LET r == req[c] IN
                 /\ r.pc \in {"new", "route", "walk", "attempt", "again", "nap", "relay", "charged", "end"}
                 /\ r.snap \in Config /\ r.name \in Name \cup {{}}
                 /\ r.i \in 0..Len(Names(c)) /\ r.ts \in Seq(Prov) /\ r.j \in 1..(Len(r.ts) + 1)
                 /\ r.walked \subseteq Prov /\ r.prov \in Prov \cup {Nobody}
                 /\ {r.stream, r.left, r.meter, r.rested} \subseteq BOOLEAN
                 /\ r.nap \in 0..Pause /\ r.round \in 0..Rounds /\ r.out \in Outcome
                 /\ r.heads \in Nat /\ {r.tries, r.resent} \subseteq [Name \X Prov -> Nat]
    BY DEF Inv, Typed, TypeOK
  <2> DEFINE r == req[c]
  <2>1. r \in Request /\ Shape(r) /\ Names(c) = NamesOf(r)
    BY RequestType, NamesAre DEF Sound
  <2> HIDE DEF r
  <2>2. r.i \in 0..Len(Names(c)) /\ r.j \in 1..(Len(r.ts) + 1)
    BY <2>1 DEF Shape
  <2>3. /\ r.snap \in Config /\ r.name \in Name \cup {{}} /\ r.ts \in Seq(Prov)
        /\ r.walked \subseteq Prov /\ r.prov \in Prov \cup {Nobody}
        /\ r.nap \in 0..Pause /\ r.round \in 0..Rounds /\ r.out \in Outcome
        /\ r.heads \in Nat /\ r.pc \in Doing
    BY <2>1 DEF Request
  <2>4. r.stream \in BOOLEAN /\ r.left \in BOOLEAN /\ r.meter \in BOOLEAN /\ r.rested \in BOOLEAN
    BY <2>1, Zenon DEF Request
  <2>5. {r.stream, r.left, r.meter, r.rested} \subseteq BOOLEAN
    BY <2>4, Zenon
  <2>6. {r.tries, r.resent} \subseteq [Name \X Prov -> Nat]
    BY <2>1 DEF Request
  <2> QED
    BY <2>2, <2>3, <2>5, <2>6, Zenon DEF r, Doing
<1> QED
  BY <1>1, Invariance, PTL

\* No path through dispatch leaks a reservation, or gives one back twice: a
\* request holds a key exactly while it attempts, and relays from one until it
\* has settled.
THEOREM NoKeyLeaks == Spec => []NothingLeaks
<1>1. Inv => NothingLeaks
  BY DEF Inv
<1> QED
  BY <1>1, Invariance, PTL

\* No request writes two response heads, and one that ends without any is one
\* whose client has left.
THEOREM OneAnswer == Spec => []AnsweredOnce
<1>1. Inv => AnsweredOnce
  BY RequestType DEF AnsweredOnce, Sound, Answered
<1> QED
  BY <1>1, Invariance, PTL

\* A name is left for the next one only when every provider of its route was
\* attempted or had no free key, and so is the last one before a 503.
THEOREM NoneSkipped == Spec => []RoutesInOrder
<1>1. Inv => RoutesInOrder
  <2> SUFFICES ASSUME Inv, NEW c \in Caller
               PROVE  /\ \A n \in 1..(req[c].i - 1) : Covered(c, Names(c)[n])
                      /\ req[c].out = "exhausted" =>
                           \A n \in DOMAIN Names(c) : Covered(c, Names(c)[n])
    BY DEF RoutesInOrder
  <2>1. Names(c) = NamesOf(req[c]) /\ \A n : Covered(c, n) <=> CoveredBy(req[c], n)
    BY NamesAre DEF Covered, CoveredBy
  <2>2. Ordered(req[c])
    BY RequestType DEF Sound
  <2> QED
    BY <2>1, <2>2 DEF Ordered
<1> QED
  BY <1>1, Invariance, PTL

\* A request attempts a provider at most once for each name, twice for the requested
\* name after a nap, and sends each attempt again at most once, and only if it is of a
\* stream: whatever other providers had no key, and however often an alias lists it.
THEOREM AttemptsAreBounded == Spec => []AttemptsBounded
<1>1. Inv => AttemptsBounded
  <2> SUFFICES ASSUME Inv, NEW c \in Caller, NEW n \in Name, NEW p \in Prov
               PROVE  LET r == req[c] IN
                        /\ r.tries[n, p] <= IF r.rested /\ n = r.name THEN 2 ELSE 1
                        /\ r.resent[n, p] <= IF r.stream THEN r.tries[n, p] ELSE 0
    BY DEF AttemptsBounded
  <2>1. Bounded(req[c]) /\ <<n, p>> \in Name \X Prov /\ <<n, p>>[1] = n
    BY RequestType DEF Sound
  <2> QED
    BY <2>1 DEF Bounded, Allowed
<1> QED
  BY <1>1, Invariance, PTL

=============================================================================
