------------------------------- MODULE Ledger -------------------------------
(***************************************************************************)
(* What the gateway counts and measures of the requests it serves: the     *)
(* body each provider is sent (Body), the usage read off the answer        *)
(* (relay.go, gate.go) and charged to the key (pool.go), the latency that  *)
(* orders and bounds later attempts (Speed), and the bill (report.go).     *)
(*                                                                         *)
(* Who may pick which key is Pool's matter: here a key is free or rests,   *)
(* for any reason that Pool has, and naps and fallback are Gateway's.      *)
(* A stream is a sequence of units, of which the gateway keeps the last    *)
(* Room: the mark "usage":, what stands after it, and anything else.       *)
(***************************************************************************)
EXTENDS Body, Speed

CONSTANTS
  Key, Prov, Caller,
  Slots,         \* the keys as Pool.each visits them, those of a provider together
  ProvOf,        \* the provider of each key
  Route,         \* the targets of the requested model, of different providers
  Asked,         \* the bodies callers send
  Object,        \* the usage objects providers send
  Unit, Mark,    \* the units of a stream, and the unit "usage":
  Chunk,         \* what one Read of the upstream may return
  Room,          \* how many units sniff keeps
  MaxHeard,      \* bound: units of one stream
  Turning,       \* bound: the keys that stop being free without an error
  Sample, Want, Floor, Idle,   \* latencies; the budget for a first token, its floor, the idle timeout
  Averages       \* the averages a start may restore

Spend == [in : Nat, out : Nat, total : Nat]

ASSUME LedgerAssumption ==
  /\ Slots \in Seq(Key) /\ Slots # <<>> /\ \A k \in Key : \E i \in DOMAIN Slots : Slots[i] = k
  /\ \A i, j \in DOMAIN Slots : Slots[i] = Slots[j] => i = j
  /\ \A i, n \in DOMAIN Slots : ProvOf[Slots[i]] = ProvOf[Slots[n]] =>
       \A j \in i..n : ProvOf[Slots[j]] = ProvOf[Slots[i]]
  /\ ProvOf \in [Key -> Prov]
  /\ Route \in Seq([prov : Prov, model : Value]) /\ Len(Route) > 1
  /\ \A i, j \in DOMAIN Route : Route[i].prov = Route[j].prov => i = j
  /\ Asked \subseteq Seq(Field) /\ \A b \in Asked : Named(b)
  /\ Object \subseteq Spend \cap Unit /\ Chunk \subseteq Seq(Unit)
  /\ Room \in Nat \ {0} /\ Sample \subseteq Nat
  /\ Want \in Nat /\ Floor \in Nat /\ Idle \in Nat
  /\ Averages \subseteq [Key -> Nat]

VARIABLES
  due,                       \* whether the next roll finds a new day
  reqs, errs, toks, blind,   \* of each key: the counters of the day
  life, ttft,                \* of each key: usage ever, and its average latency
  resting,                   \* the keys that are not free
  mute,                      \* p.mute: the providers that rejected the option
  req,                       \* each caller: the locals of its request
  seen                       \* history: the row that each key should have

counts == <<due, reqs, errs, toks, blind, life>>
health == <<ttft, resting, mute>>
vars   == <<counts, health, req, seen>>

-----------------------------------------------------------------------------
(* Counters.                                                               *)

None == [in |-> 0, out |-> 0, total |-> 0]
Zero == [k \in Key |-> 0]

Plus(s, o) == [in |-> s.in + o.in, out |-> s.out + o.out, total |-> s.total + o.total]

Fill(s) == IF s.total = 0 THEN [s EXCEPT !.total = s.in + s.out] ELSE s

\* A daily counter as every method that takes the lock and rolls sees it.
Rolled(f, zero) == IF due THEN [k \in Key |-> zero] ELSE f

\* roll, then these changes of the counters.
Count(r, e, t, b) ==
  /\ due' = FALSE
  /\ reqs' = [k \in Key |-> Rolled(reqs, 0)[k] + r[k]]
  /\ errs' = [k \in Key |-> Rolled(errs, 0)[k] + e[k]]
  /\ toks' = [k \in Key |-> Plus(Rolled(toks, None)[k], t[k])]
  /\ blind' = [k \in Key |-> Rolled(blind, 0)[k] + b[k]]

One(k) == [Zero EXCEPT ![k] = 1]
NoTokens == [k \in Key |-> None]

Roll == Count(Zero, Zero, NoTokens, Zero)

\* A row of a report, and the history: the row each key should have.
Row == [reqs |-> 0, errs |-> 0, blind |-> 0, today |-> None, total |-> None]

See(k, what) == seen' = [seen EXCEPT ![k][what] = @ + 1]
SeeUse(k, s) == seen' = [seen EXCEPT ![k].today = Plus(@, s), ![k].total = Plus(@, s)]

-----------------------------------------------------------------------------
(* Usage.                                                                  *)

\* The last n units of a sequence.
Ending(s, n) == IF Len(s) <= n THEN s ELSE SubSeq(s, Len(s) - n + 1, Len(s))

FeedKeeping(b, p) == IF Len(p) >= Room THEN Ending(p, Room) ELSE b \o p

FeedByOne(b, p) ==
  IF Len(p) >= Room THEN Ending(p, Room)
  ELSE Ending(b, Room - Len(p) - 1) \o p

\* sniff.feed: a chunk that fills the buffer replaces it, another pushes out what it needs.
Feed(b, p) ==
  LET drop == Len(b) + Len(p) - Room
  IN IF Len(p) >= Room THEN SubSeq(p, Len(p) - Room + 1, Len(p))
     ELSE (IF drop > 0 THEN SubSeq(b, drop + 1, Len(b)) ELSE b) \o p

\* sniff.count: the object after the last mark; nothing when something else stands there.
LastUsage(b, i) == b[i] = Mark /\ (\A j \in i + 1..Len(b) : b[j] # Mark) /\ i < Len(b) /\ b[i + 1] \in Object
Sniffed(b) == {Fill(b[i + 1]) : i \in {j \in DOMAIN b : LastUsage(b, j)}}

-----------------------------------------------------------------------------
(* A request.                                                              *)

FreeOf(p) == {k \in Key \ resting : ProvOf[k] = p}

SpeedOf(p) == Speed(ttft, FreeOf(p))

Ranked == Order(Route, [i \in DOMAIN Route |-> SpeedOf(Route[i].prov)])

\* heard is history: what was read of the stream after the gated frame.
Idler ==
  [at |-> "idle", plan |-> <<>>, route |-> <<>>, key |-> Slots[1], target |-> Route[1], meter |-> FALSE,
   budget |-> 0, used |-> {}, tail |-> <<>>, heard |-> <<>>]

Init ==
  /\ due = FALSE /\ reqs = Zero /\ errs = Zero /\ blind = Zero
  /\ toks = NoTokens /\ life = NoTokens
  /\ ttft \in Averages /\ resting = {} /\ mute = {}
  /\ req = [c \in Caller |-> Idler] /\ seen = [k \in Key |-> Row]

\* The locals of c become r.
Local(c, r) == req' = [req EXCEPT ![c] = r]

Over == [Idler EXCEPT !.at = "done"]

\* dispatch: read the body, route it, order the targets.
Start(c, b) ==
  /\ req[c].at = "idle"
  /\ Local(c, [req[c] EXCEPT !.at = "walking", !.plan = b, !.route = Ranked])
  /\ Roll
  /\ UNCHANGED <<life, health, seen>>

\* once: the time this attempt is given, by the average at this point.
Budget(c, k) == IF Stream(req[c].plan) THEN Tighten(ttft[k], Want, Floor) ELSE Idle

\* walk: pick, and the first request of attempt.
Ask(c, k) ==
  LET r == req[c]
  IN /\ r.at = "walking" /\ r.route # <<>> /\ k \in FreeOf(Head(r.route).prov)
     /\ Local(c, [r EXCEPT !.at = "asked", !.key = k, !.target = Head(r.route), !.route = Tail(r.route),
                           !.meter = Stream(r.plan) /\ Head(r.route).prov \notin mute,
                           !.budget = Budget(c, k)])
     /\ Roll
     /\ UNCHANGED <<life, health, seen>>

Skip(c) ==
  /\ req[c].at = "walking" /\ req[c].route # <<>> /\ FreeOf(Head(req[c].route).prov) = {}
  /\ Local(c, [req[c] EXCEPT !.route = Tail(@)])
  /\ Roll
  /\ UNCHANGED <<life, health, seen>>

\* The route is exhausted; soonest rolls.
GiveUp(c) ==
  /\ req[c].at = "walking" /\ req[c].route = <<>> /\ Local(c, Over)
  /\ Roll
  /\ UNCHANGED <<life, health, seen>>

\* attempt: the metered request was refused with a 400 and goes out again without.
Unmeter(c) ==
  /\ req[c].at = "asked" /\ req[c].meter
  /\ Local(c, [req[c] EXCEPT !.at = "again", !.meter = FALSE, !.budget = Budget(c, req[c].key)])
  /\ UNCHANGED <<counts, health, seen>>

Asking(c) == req[c].at \in {"asked", "again"}

\* A first token or a reply within the budget: hush if it took the second request, then ok,
\* which ends a cooldown; a key that is revoked or at its cap rests on.
Answer(c, d, u) ==
  LET k == req[c].key
  IN /\ Asking(c) /\ d <= req[c].budget /\ (Stream(req[c].plan) => u = {})
     /\ Local(c, [req[c] EXCEPT !.at = "relaying", !.used = {Fill(o) : o \in u}])
     /\ mute' = IF req[c].at = "again" THEN mute \cup {req[c].target.prov} ELSE mute
     /\ Count(One(k), Zero, NoTokens, Zero) /\ See(k, "reqs")
     /\ resting' \in {resting \ {k}, resting} /\ ttft' = [ttft EXCEPT ![k] = Measure(@, d)]
     /\ UNCHANGED life

\* walk: the attempt failed.  mine is a 400 or a 422, which no other provider is asked about
\* and no key is benched for.
Fail(c, mine, benched) ==
  LET k == req[c].key
  IN /\ Asking(c) /\ ~(mine /\ benched)
     /\ Local(c, IF mine THEN Over ELSE [req[c] EXCEPT !.at = "walking"])
     /\ Count(Zero, One(k), NoTokens, Zero) /\ See(k, "errs")
     /\ resting' = IF benched THEN resting \cup {k} ELSE resting
     /\ UNCHANGED <<life, ttft, mute>>

Abandon(c) ==
  /\ Asking(c) /\ Local(c, Over)
  /\ UNCHANGED <<counts, health, seen>>

\* pump: a chunk goes through sniff to the client.
Pump(c, p) ==
  LET r == req[c]
  IN /\ r.at = "relaying" /\ Stream(r.plan) /\ Len(r.heard) + Len(p) <= MaxHeard
     /\ Local(c, [r EXCEPT !.tail = Feed(@, p), !.heard = @ \o p])
     /\ UNCHANGED <<counts, health, seen>>

\* cost: the usage of the reply, or what sniff finds; no usage or one.
Cost(c) == IF req[c].used # {} THEN req[c].used ELSE Sniffed(req[c].tail)

ChargeUnrolled(k, cost) ==
  /\ UNCHANGED <<due, reqs, errs>>
  /\ IF cost = {} THEN blind' = [blind EXCEPT ![k] = @ + 1] /\ See(k, "blind") /\ UNCHANGED <<toks, life>>
     ELSE \E s \in cost : /\ toks' = [toks EXCEPT ![k] = Plus(@, s)]
                          /\ life' = [life EXCEPT ![k] = Plus(@, s)] /\ SeeUse(k, s) /\ UNCHANGED blind

Charge(k, cost) ==
  \/ /\ cost = {} /\ See(k, "blind")
     /\ Count(Zero, Zero, NoTokens, One(k)) /\ UNCHANGED life
  \/ \E s \in cost :
       /\ Count(Zero, Zero, [NoTokens EXCEPT ![k] = s], Zero) /\ SeeUse(k, s)
       /\ life' = [life EXCEPT ![k] = Plus(@, s)]

\* relay returns and charge follows; cut is a stream the provider broke off.
Relayed(c, cut) ==
  /\ req[c].at = "relaying" /\ (cut => Stream(req[c].plan))
  /\ Local(c, IF cut THEN [req[c] EXCEPT !.at = "souring"] ELSE Over)
  /\ Charge(req[c].key, Cost(c))
  /\ UNCHANGED health

Sour(c) ==
  LET k == req[c].key
  IN /\ req[c].at = "souring" /\ Local(c, Over)
     /\ Count(Zero, One(k), NoTokens, Zero) /\ See(k, "errs")
     /\ resting' = resting \cup {k}
     /\ UNCHANGED <<life, ttft, mute>>

-----------------------------------------------------------------------------
(* The rest of the world.                                                  *)

Midnight ==
  /\ due' = TRUE /\ seen' = [k \in Key |-> [Row EXCEPT !.total = seen[k].total]]
  /\ UNCHANGED <<reqs, errs, toks, blind, life, health, req>>

\* A cooldown ends, a cap is reached or reset, a key is revoked.
Turn(k) ==
  /\ \/ resting' = resting \ {k}
     \/ k \in Turning /\ resting' = resting \cup {k}
  /\ UNCHANGED <<counts, ttft, mute, req, seen>>

\* A report, or another method that only rolls.
Look == due /\ Roll /\ UNCHANGED <<life, health, req, seen>>

Request(c) ==
  \/ \E b \in Asked : Start(c, b)
  \/ \E k \in Key : Ask(c, k)
  \/ Skip(c) \/ GiveUp(c) \/ Unmeter(c) \/ Abandon(c) \/ Sour(c)
  \/ \E d \in Sample, u \in {{}} \cup {{o} : o \in Object} : Answer(c, d, u)
  \/ \E mine, benched \in BOOLEAN : Fail(c, mine, benched)
  \/ \E p \in Chunk : Pump(c, p)
  \/ \E cut \in BOOLEAN : Relayed(c, cut)

Next ==
  \/ \E c \in Caller : Request(c)
  \/ \E k \in Key : Turn(k)
  \/ Midnight \/ Look

Spec == Init /\ [][Next]_vars

-----------------------------------------------------------------------------
(* The bill.                                                               *)

\* row.add, of counters that have been rolled.
AddTo(row, k) ==
  [reqs  |-> row.reqs + Rolled(reqs, 0)[k], errs |-> row.errs + Rolled(errs, 0)[k],
   blind |-> row.blind + Rolled(blind, 0)[k],
   today |-> Plus(row.today, Rolled(toks, None)[k]), total |-> Plus(row.total, life[k])]

\* bill: a row for each key, for each run of keys of one provider, and for all.
OpenRow(provs, p) ==
  IF provs = <<>> \/ provs[Len(provs)].prov # p THEN Append(provs, [prov |-> p, row |-> Row]) ELSE provs

AddKey(bill, k) ==
  LET provs == OpenRow(bill.provs, ProvOf[k])
  IN [keys  |-> Append(bill.keys, [key |-> k, row |-> AddTo(Row, k)]),
      provs |-> [provs EXCEPT ![Len(provs)].row = AddTo(@, k)],
      all   |-> AddTo(bill.all, k)]

Bill == FoldLeft(AddKey, [keys |-> <<>>, provs |-> <<>>, all |-> Row], Slots)

-----------------------------------------------------------------------------
(* Properties.                                                             *)

\* The state is well typed; only a stream is metered, and none keeps more than Room.
TypeOK ==
  /\ due \in BOOLEAN
  /\ {reqs, errs, blind, ttft} \subseteq [Key -> Nat]
  /\ {toks, life} \subseteq [Key -> Spend]
  /\ resting \subseteq Key /\ mute \subseteq Prov
  /\ \A c \in Caller :
       /\ req[c].plan \in Asked \cup {<<>>}
       /\ req[c].key \in Key /\ req[c].budget \in Nat
       /\ Asking(c) => ProvOf[req[c].key] = req[c].target.prov
       /\ req[c].meter \/ req[c].at = "again" => Stream(req[c].plan)
       /\ req[c].used \subseteq Spend /\ \A s, t \in req[c].used : s = t
       /\ Len(req[c].tail) <= Room

\* What a provider is sent is what the caller asked, for its model: nothing is lost or
\* added but the usage option, and that never over one of the caller's (body.go:170).
SentIsAsked == \A c \in Caller :
  Asking(c) /\ Plain(req[c].plan) => Faithful(req[c].plan, req[c].target.model, req[c].meter)

\* However the stream was cut into chunks, what is charged for it is the usage object that
\* ends it, if one stands after the last mark in its last bytes; what is charged for a reply
\* is what it carried (relay.go:23, pool.go:214).
Said(h) == {Fill(h[i + 1]) : i \in {j \in DOMAIN h : j > Len(h) - Room /\ LastUsage(h, j)}}

BilledAsSaid == \A c \in Caller :
  req[c].at = "relaying" =>
    Cost(c) = IF Stream(req[c].plan) THEN Said(req[c].heard) ELSE req[c].used

\* Every row of the bill is what happened to its keys: the requests, errors and usage of
\* today, whenever the day turned, and all usage ever; a provider has one row, and the total
\* leaves none out (report.go:66, pool.go:294).
SumOf(what, K) == Total([k \in Key |-> seen[k][what]], K)
SumOfSpend(what, K) ==
  [in |-> Total([k \in Key |-> seen[k][what].in], K), out |-> Total([k \in Key |-> seen[k][what].out], K),
   total |-> Total([k \in Key |-> seen[k][what].total], K)]

Happened(K) ==
  [reqs |-> SumOf("reqs", K), errs |-> SumOf("errs", K), blind |-> SumOf("blind", K),
   today |-> SumOfSpend("today", K), total |-> SumOfSpend("total", K)]

BillIsToday ==
  LET b == Bill
  IN /\ {b.keys[i].key : i \in DOMAIN b.keys} = Key
     /\ \A i \in DOMAIN b.keys : b.keys[i].row = seen[b.keys[i].key]
     /\ Len(b.provs) = Cardinality({ProvOf[k] : k \in Key})
     /\ \A i \in DOMAIN b.provs : b.provs[i].row = Happened({k \in Key : ProvOf[k] = b.provs[i].prov})
     /\ b.all = Happened(Key)

\* A request tries measured providers by tiers and, within a tier, in the order of the
\* config; one that was never measured, or has no free key, keeps its place (speed.go:67).
Tiered(r) ==
  LET Fast(t) == Tier(SpeedOf(t.prov))
      Seen(t) == SpeedOf(t.prov) > 0
      PlaceIn(t) == CHOOSE i \in DOMAIN Route : Route[i] = t
  IN /\ {r[i] : i \in DOMAIN r} = {Route[i] : i \in DOMAIN Route}
     /\ \A i \in DOMAIN r : ~Seen(Route[i]) => r[i] = Route[i]
     /\ \A i, j \in DOMAIN r : i < j /\ Seen(r[i]) /\ Seen(r[j]) =>
          \/ Fast(r[i]) < Fast(r[j])
          \/ Fast(r[i]) = Fast(r[j]) /\ PlaceIn(r[i]) < PlaceIn(r[j])

OrderIsTiered ==
  [][\A c \in Caller : req[c].at = "idle" /\ req'[c].at = "walking" => Tiered(req'[c].route)]_vars
=============================================================================
