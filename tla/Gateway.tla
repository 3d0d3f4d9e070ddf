------------------------------ MODULE Gateway ------------------------------
(***************************************************************************)
(* Chat requests through the gateway (dispatch, try, walk and attempt in   *)
(* proxy.go, relay in relay.go), many at once, against the shared key pool *)
(* and a config that a reload replaces (serve.go).                         *)
(*                                                                         *)
(* The pool's actions are those of module Pool, under P.  A provider is    *)
(* modelled by what an attempt against it ends with: a first token, or a   *)
(* failure with a status code and a wait.  A target is its provider: the   *)
(* model id that is sent there decides nothing here.                       *)
(***************************************************************************)
EXTENDS Integers, Sequences, FiniteSets, Functions

CONSTANTS
  Id, Keyless, Cell, IdOf, Prov, Caller, NoKey, Code, Hint, Ladder,
  MinuteLen, DayLen, MaxReqs,   \* as in Pool
  Config,        \* configs: what the pool takes, providers, aliases, fallback, default
  Name,          \* the model names that clients and configs use
  ProvOf,        \* what a name has before its first slash, Nobody when no slash
  Nobody,        \* no provider
  Stream,        \* whether clients ask for streams: a subset of BOOLEAN
  Pause,         \* s.pause: the longest wait a request naps through
  Rounds,        \* bound: the requests that each caller makes, one by one
  MaxTries       \* bound: attempts are counted up to here

ASSUME GatewayAssumption ==
  /\ ProvOf \in [Name -> Prov \cup {Nobody}] /\ Nobody \notin Prov
  /\ Stream \subseteq BOOLEAN /\ Pause \in Nat
  /\ Rounds \in Nat /\ MaxTries \in Nat
\* What Config.check lets through.
ASSUME RoutingAssumption ==
  \A cfg \in Config :
    /\ cfg.providers \subseteq Prov /\ cfg.default \in cfg.providers
    /\ \A p \in Prov \ cfg.providers : cfg.pool.slots[p] = <<>>
    /\ DOMAIN cfg.aliases \subseteq Name
    /\ \A n \in DOMAIN cfg.aliases :
         cfg.aliases[n] \in Seq(cfg.providers) /\ cfg.aliases[n] # <<>>
    /\ cfg.fallback \in Seq(DOMAIN cfg.aliases)

VARIABLES
  clock, dayDue, minDue, slots, rr, seen, rpd, rpm, cool, step, dead,
  reqs, mins, live, holds, relays,  \* as in Pool
  mute,          \* p.mute: the providers that reject an injected usage option
  config,        \* s.cfg
  loading,       \* the config that adopt has taken and s.cfg has not, as a set
  req            \* each caller's request

P == INSTANCE Pool WITH Config <- {cfg.pool : cfg \in Config}

\* The pool is given what it asks for.
ASSUME PoolAssumption ==
  P!CellAssumption /\ P!CallerAssumption /\ P!TimeAssumption /\ P!ConfigAssumption

server == <<mute, config, loading>>
pool   == <<clock, dayDue, minDue, slots, rr, seen, rpd, rpm, cool, step, dead,
            reqs, mins, live, holds, relays>>
vars   == <<pool, server, req>>

-----------------------------------------------------------------------------
(* Routing.                                                                *)

\* Config.route: an alias, else provider/model, else the default provider.
Targets(cfg, n) ==
  IF n \in DOMAIN cfg.aliases THEN cfg.aliases[n]
  ELSE IF ProvOf[n] \in cfg.providers THEN <<ProvOf[n]>>
  ELSE <<cfg.default>>

\* Pool.order sorts targets by the speed it has measured, so in any order.
Orders(ts) == {[i \in DOMAIN ts |-> ts[f[i]]] : f \in Bijection(DOMAIN ts, DOMAIN ts)}

\* s[i] is the first element of s at or after position n that is not in old.
NextNew(s, n, old, i) == i >= n /\ s[i] \notin old /\ \A j \in n..(i - 1) : s[j] \in old

\* failure.mine: the request itself is at fault, so no other provider will do.
Mine(code) == code \in {400, 422}

-----------------------------------------------------------------------------
(* The state of a request.                                                 *)

\* i is the position in Names of the name being tried, j the position in ts of
\* the next target.  heads, asked, tries and resent only record what happened: the
\* last two, how often a provider was attempted for a name, and asked again.
Untried == [x \in Name \X Prov |-> 0]

Fresh == [pc |-> "new", snap |-> config, name |-> {}, stream |-> FALSE, left |-> FALSE,
          i |-> 0, ts |-> <<>>, j |-> 1, walked |-> {}, prov |-> Nobody, meter |-> FALSE,
          rested |-> FALSE, nap |-> 0, how |-> "", out |-> "",
          heads |-> 0, asked |-> {}, tries |-> Untried, resent |-> Untried, round |-> 0]

Names(c) == <<req[c].name>> \o req[c].snap.fallback

NameNow(c) == Names(c)[req[c].i]

Tried(c) == {Names(c)[n] : n \in 1..req[c].i}

\* The request is over: what tr.out says, and whether a response was written.
Over(r, out, heads) ==
  [Fresh EXCEPT !.pc = "end", !.snap = r.snap, !.name = r.name, !.left = r.left,
                !.out = out, !.heads = r.heads + heads, !.asked = r.asked, !.round = r.round]

Moves(c, r) == req' = [req EXCEPT ![c] = r]

Init ==
  /\ config \in Config
  /\ P!Start(config.pool)
  /\ loading = {} /\ mute = {}
  /\ req = [c \in Caller |-> Fresh]

\* Time, and the timer of every nap.
Tick ==
  /\ P!Tick
  /\ req' = [c \in Caller |-> [req[c] EXCEPT !.nap = IF @ = 0 THEN 0 ELSE @ - 1]]
  /\ UNCHANGED server

\* The body has been read; take a snapshot of the config.
Arrive(c) ==
  /\ req[c].pc \in {"new", "end"} /\ req[c].round < Rounds
  /\ \E n \in Name, s \in Stream :
       Moves(c, [Fresh EXCEPT !.pc = "route", !.name = n, !.stream = s, !.round = req[c].round + 1])
  /\ UNCHANGED <<pool, server>>

\* r.Context() is cancelled.  A client that leaves earlier is noticed only here.
Leave(c) ==
  /\ req[c].pc \in {"nap", "attempt", "again", "relay", "charged"}
  /\ Moves(c, [req[c] EXCEPT !.left = TRUE])
  /\ UNCHANGED <<pool, server>>

\* The next name that has not been tried, and its targets in order.
Route(c) ==
  LET r == req[c] IN
  /\ r.pc = "route"
  /\ \E i \in DOMAIN Names(c) :
       /\ NextNew(Names(c), r.i + 1, Tried(c), i)
       /\ LET targets == Targets(r.snap, Names(c)[i]) IN
          /\ \E ts \in Orders(targets) :
               Moves(c, [r EXCEPT !.pc = "walk", !.i = i, !.ts = ts, !.j = 1, !.walked = {}])
          /\ IF Len(targets) < 2 THEN UNCHANGED pool ELSE P!Look
  /\ UNCHANGED server

\* No name is left: 503, with the wait of soonest as Retry-After.
Exhaust(c) ==
  LET r == req[c] IN
  /\ r.pc = "route"
  /\ \A i \in DOMAIN Names(c) : i > r.i => Names(c)[i] \in Tried(c)
  /\ Moves(c, Over(r, "exhausted", 1))
  /\ P!Look
  /\ UNCHANGED server

OneMore(count, x) == [count EXCEPT ![x] = IF @ < MaxTries THEN @ + 1 ELSE @]

\* What an attempt is counted under.
Target(c, p) == <<NameNow(c), p>>

Asked(c, p) == req[c].asked \cup {Target(c, p)}

TryRepeating(c) ==
  LET r == req[c] IN
  /\ r.pc = "walk"
  /\ \E j \in DOMAIN r.ts :
       LET p == r.ts[j] IN
       /\ NextNew(r.ts, r.j, r.walked, j)
       /\ \/ /\ P!Pick(c, p)
             /\ Moves(c, [r EXCEPT !.pc = "attempt", !.j = j + 1, !.prov = p,
                                   !.tries = OneMore(@, Target(c, p)), !.asked = Asked(c, p)])
          \/ /\ P!Miss(p)
             /\ Moves(c, [r EXCEPT !.j = j + 1, !.asked = Asked(c, p)])
  /\ UNCHANGED server

TryGivingUp(c) ==
  LET r == req[c] IN
  /\ r.pc = "walk"
  /\ \E j \in DOMAIN r.ts :
       LET p == r.ts[j] IN
       /\ NextNew(r.ts, r.j, r.walked, j)
       /\ \/ /\ P!Pick(c, p)
             /\ Moves(c, [r EXCEPT !.pc = "attempt", !.j = j + 1, !.walked = @ \cup {p},
                                   !.prov = p, !.tries = OneMore(@, Target(c, p)), !.asked = Asked(c, p)])
          \/ /\ P!Miss(p)
             /\ Moves(c, [r EXCEPT !.pc = "route", !.asked = Asked(c, p)])
  /\ UNCHANGED server

\* Pick a key of the next target whose provider this walk has not attempted, and
\* ask whether the provider takes usage options.
Try(c) ==
  LET r == req[c] IN
  /\ r.pc = "walk"
  /\ \E j \in DOMAIN r.ts :
       LET p == r.ts[j] IN
       /\ NextNew(r.ts, r.j, r.walked, j)
       /\ \/ /\ P!Pick(c, p)
             /\ Moves(c, [r EXCEPT !.pc = "attempt", !.j = j + 1, !.walked = @ \cup {p},
                                   !.prov = p, !.meter = r.stream /\ p \notin mute,
                                   !.tries = OneMore(@, Target(c, p)), !.asked = Asked(c, p)])
          \/ /\ P!Miss(p)
             /\ Moves(c, [r EXCEPT !.j = j + 1, !.asked = Asked(c, p)])
  /\ UNCHANGED server

NoTargetLeft(c) ==
  \A j \in DOMAIN req[c].ts : j >= req[c].j => req[c].ts[j] \in req[c].walked

AnyNap(d) == d > 0
ShortNap(d) == d > 0 /\ d <= Pause

NapEveryTime(c) ==
  LET r == req[c]
      d == P!Soonest(Range(r.ts))
  IN
  /\ r.pc = "walk" /\ NoTargetLeft(c)
  /\ Moves(c, [r EXCEPT !.pc = IF r.i = 1 /\ ShortNap(d) THEN "nap" ELSE "route",
                        !.nap = IF r.i = 1 /\ ShortNap(d) THEN d ELSE 0])
  /\ P!Look
  /\ UNCHANGED server

\* The walk is over without a response.  The first one for the requested name may
\* nap until a key is back.
WalkEnds(c) ==
  LET r == req[c]
      d == P!Soonest(Range(r.ts))
  IN
  /\ r.pc = "walk" /\ NoTargetLeft(c)
  /\ \/ /\ r.i > 1 \/ r.rested
        /\ Moves(c, [r EXCEPT !.pc = "route"])
        /\ UNCHANGED pool
     \/ /\ r.i = 1 /\ ~r.rested
        /\ Moves(c, [r EXCEPT !.pc = IF ShortNap(d) THEN "nap" ELSE "route",
                              !.nap = IF ShortNap(d) THEN d ELSE 0])
        /\ P!Look
  /\ UNCHANGED server

\* The nap is over, and the same targets are walked again.
Wake(c) ==
  /\ req[c].pc = "nap" /\ req[c].nap = 0
  /\ Moves(c, [req[c] EXCEPT !.pc = "walk", !.rested = TRUE, !.j = 1, !.walked = {}])
  /\ UNCHANGED <<pool, server>>

\* The client left during the nap.
WakeGone(c) ==
  /\ req[c].pc = "nap" /\ req[c].left
  /\ Moves(c, Over(req[c], "gone", 0))
  /\ UNCHANGED <<pool, server>>

Attempting(c) == req[c].pc \in {"attempt", "again"}

\* The provider rejects the metered request: ask again without the usage option.
Unmeter(c) ==
  /\ req[c].pc = "attempt" /\ req[c].meter
  /\ Moves(c, [req[c] EXCEPT !.pc = "again", !.resent = OneMore(@, Target(c, req[c].prov))])
  /\ UNCHANGED <<pool, server>>

\* A first token: the key is well, and the response head goes out.  A success
\* without the usage option mutes the provider.
Commit(c) ==
  /\ Attempting(c)
  /\ P!Ok(c)
  /\ mute' = mute \cup (IF req[c].pc = "again" THEN {req[c].prov} ELSE {})
  /\ Moves(c, [req[c] EXCEPT !.pc = "relay", !.heads = @ + 1])
  /\ UNCHANGED <<config, loading>>

\* The attempt failed: bench the key, and stop if the request is at fault.
Lose(c, code, retry) ==
  /\ Attempting(c) /\ ~req[c].left
  /\ code = 400 => ~(req[c].pc = "attempt" /\ req[c].meter)
  /\ code = 0 => retry = 0
  /\ P!Fail(c, code, retry)
  /\ Moves(c, IF Mine(code) THEN Over(req[c], "rejected", 1) ELSE [req[c] EXCEPT !.pc = "walk"])
  /\ UNCHANGED server

AbandonHolding(c) ==
  /\ Attempting(c) /\ req[c].left
  /\ Moves(c, Over(req[c], "gone", 0))
  /\ UNCHANGED <<pool, server>>

\* The attempt failed and the client has left: the key is not to blame.
Abandon(c) ==
  /\ Attempting(c) /\ req[c].left
  /\ P!Done(c)
  /\ Moves(c, Over(req[c], "gone", 0))
  /\ UNCHANGED server

\* relay returns, and the key is charged.  Only a stream reads upstream here.
RelayEnds(c) ==
  /\ req[c].pc = "relay"
  /\ \E how \in {"whole"} \cup (IF req[c].left THEN {"client"} ELSE {})
                         \cup (IF req[c].stream THEN {"upstream"} ELSE {}) :
       Moves(c, [req[c] EXCEPT !.pc = "charged", !.how = how])
  /\ P!Look
  /\ UNCHANGED server

SettleByFailover(c) ==
  LET r == req[c] IN
  /\ r.pc = "charged"
  /\ \/ /\ r.how = "whole"
        /\ P!Finish(c) /\ Moves(c, Over(r, "ok", 0))
     \/ /\ r.how # "whole" /\ (r.how = "client" \/ r.left)
        /\ P!Finish(c) /\ Moves(c, Over(r, "gone", 0))
     \/ /\ r.how = "upstream" /\ ~r.left
        /\ P!Sour(c) /\ Moves(c, [r EXCEPT !.pc = "walk"])
  /\ UNCHANGED server

\* The outcome.  A key is benched for a relay that broke on the provider's side.
Settle(c) ==
  LET r == req[c] IN
  /\ r.pc = "charged"
  /\ \/ /\ r.how = "whole"
        /\ P!Finish(c) /\ Moves(c, Over(r, "ok", 0))
     \/ /\ r.how # "whole" /\ (r.how = "client" \/ r.left)
        /\ P!Finish(c) /\ Moves(c, Over(r, "gone", 0))
     \/ /\ r.how = "upstream" /\ ~r.left
        /\ P!Sour(c) /\ Moves(c, Over(r, "truncated", 0))
  /\ UNCHANGED server

\* reload: the pool takes the new config first, then s.cfg does.
Adopt(cfg) ==
  /\ loading = {}
  /\ P!Adopt(cfg.pool)
  /\ loading' = {cfg}
  /\ UNCHANGED <<mute, config, req>>

Store ==
  /\ config' \in loading
  /\ loading' = {}
  /\ UNCHANGED <<pool, mute, req>>

\* What a request's goroutine does next.
Proceed(c) ==
  \/ Route(c) \/ Exhaust(c) \/ Try(c) \/ WalkEnds(c) \/ Wake(c) \/ WakeGone(c)
  \/ Unmeter(c) \/ Commit(c) \/ Abandon(c) \/ RelayEnds(c) \/ Settle(c)
  \/ \E code \in Code, retry \in Hint : Lose(c, code, retry)

Next ==
  \/ Tick
  \/ \E c \in Caller : Arrive(c) \/ Leave(c) \/ Proceed(c)
  \/ \E cfg \in Config : Adopt(cfg)
  \/ Store

Spec == Init /\ [][Next]_vars

\* Timers fire, each goroutine keeps running, and every attempt and relay ends:
\* the first-token and idle timers see to the provider's side, and a client is
\* assumed to read its response or to leave.
Fairness == WF_vars(Tick) /\ WF_vars(Store) /\ \A c \in Caller : WF_vars(Proceed(c))

FairSpec == Spec /\ Fairness

-----------------------------------------------------------------------------
(* Properties.                                                             *)

Outcome == {"", "ok", "gone", "truncated", "rejected", "exhausted"}

\* The types of the gateway's own state.
TypeOK ==
  /\ mute \subseteq Prov /\ config \in Config /\ loading \subseteq Config
  /\ \A c \in Caller : LET r == req[c] IN
       /\ r.pc \in {"new", "route", "walk", "attempt", "again", "nap", "relay", "charged", "end"}
       /\ r.snap \in Config /\ r.name \in Name \cup {{}}
       /\ r.i \in 0..Len(Names(c)) /\ r.ts \in Seq(Prov) /\ r.j \in 1..(Len(r.ts) + 1)
       /\ r.walked \subseteq Prov /\ r.prov \in Prov \cup {Nobody}
       /\ {r.stream, r.left, r.meter, r.rested} \subseteq BOOLEAN
       /\ r.nap \in 0..Pause /\ r.round \in 0..Rounds /\ r.out \in Outcome /\ r.heads \in Nat
       /\ {r.tries, r.resent} \subseteq [Name \X Prov -> Nat]

\* A request holds a key of the pool exactly while an attempt is under way, and
\* relays from one exactly until it is settled, so no path through dispatch
\* leaks a reservation or gives it back twice.
NothingLeaks ==
  \A c \in Caller :
    /\ holds[c] # NoKey <=> Attempting(c)
    /\ relays[c] # NoKey <=> req[c].pc \in {"relay", "charged"}

\* No request writes two response heads, and one that has not committed or been
\* refused when it ends is one whose client left.  A relay that breaks after
\* commit is never failed over.
AnsweredOnce ==
  \A c \in Caller :
    /\ req[c].heads <= 1
    /\ req[c].pc = "end" /\ req[c].heads = 0 => req[c].out = "gone" /\ req[c].left

\* Whether every provider of name n was attempted, or had no free key when asked.
Covered(c, n) == \A p \in Range(Targets(req[c].snap, n)) : <<n, p>> \in req[c].asked

\* A name is only left for the next one when its whole route was tried, and a
\* request is only called exhausted when that holds of every name.
RoutesInOrder ==
  \A c \in Caller : LET r == req[c] IN
    /\ r.pc # "new" => \A n \in 1..(r.i - 1) : Covered(c, Names(c)[n])
    /\ r.out = "exhausted" => \A n \in DOMAIN Names(c) : Covered(c, Names(c)[n])

\* A request attempts a provider at most once for each name, however often an alias
\* lists it and whichever others had no free key, and twice for the requested name
\* if it napped.  Each attempt is sent once more at most, and only that of a stream
\* (proxy.go:97-127, 150-160, 226).
AttemptsBounded ==
  \A c \in Caller, n \in Name, p \in Prov : LET r == req[c] IN
    /\ r.tries[n, p] <= IF r.rested /\ n = r.name THEN 2 ELSE 1
    /\ r.resent[n, p] <= IF r.stream THEN r.tries[n, p] ELSE 0

\* Every request that arrives ends, through naps, failures and reloads.
EveryRequestEnds == \A c \in Caller : req[c].pc = "route" ~> req[c].pc = "end"

=============================================================================
