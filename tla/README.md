# omny in TLA+

omny is an HTTP gateway for chat completions. It holds the API keys of several
providers, sends each request to a key with quota left, fails over when a
provider refuses, relays the answer as it comes, and keeps counting through
reloads and restarts. This directory holds a model of it, what TLC checks of the
model on small instances, and what TLAPS proves of it for all of them. Line
numbers below are those of `src/`.

## The system

One Go process. `cmd/omny` either edits the config file and signals the running
gateway, or is the gateway. Each request has a goroutine; beside them run the
flusher of the state file, the goroutine that reloads on SIGHUP and the one that
waits for the signal to stop. They share one `Pool` behind a mutex, the config
behind an atomic pointer, and an atomic counter of body bytes.

| Component | State | Operations | Talks to | What is hard | What makes it correct |
|---|---|---|---|---|---|
| Key pool (`pool.go`) | per key: `until`, `step`, `dead`, `live`, `reqs`, `mins`; per pool: the slices and cursors, day, minute, secrets seen | `pick`, `ok`, `fail`, `sour`, `done`, `charge`, `adopt`, `ready`, `soonest`, `roll` | called by dispatch, reports, reload | requests race for the last of a quota; keys are removed under them; counters roll on access | no key is committed beyond its limits; every reservation is given back once; a key that can serve again is found |
| Dispatch (`proxy.go`) | per request: config snapshot, names and providers tried, key held | route, walk, attempt, unmeter, nap, settle | pool, gate, relay | failover, naps, clients that leave, reloads in mid-request | one answer, bounded attempts, every target tried in order, no key kept |
| Routing (`route.go`) | none | `route` | config | aliases that repeat a provider | the targets of a name |
| Server (`serve.go`) | config pointer, `held`, request numbers | `reload`, `admit`, `release`, handlers | all | reload is two steps | one config version per request |
| Body (`body.go`) | none | `slurp`, `peek`, `locate`, `send`, `swap` | dispatch | sizes; two readers of the same names, of which one folds case; which bytes to replace | bodies fit in the cap; the model is the target's, a usage option is added where none is, all else stays |
| Gate and relay (`gate.go`, `relay.go`) | buffers, timers, what usage was seen | wait for content, relay, sniff | upstream, client | timers that race with data, either side leaving | nothing is sent before content is there; an attempt is lost or relayed, not both |
| Latency (`speed.go`) | an average per key | `order`, `measure`, `tighten` | pool, dispatch | averages and free keys that move under the sort; feedback of budgets on what is measured | order by tiers, stable within one; a budget between its floor and its configured size |
| State file (`state.go`) | `path`, `path.tmp` | `restore`, `save`, `Replace`, `flush` | pool, file system | crashes between any two steps, day turns | the file is whole, never ahead of what happened, never forgets |
| Lifecycle (`run.go`, `main.go`) | phase, pidfile, signals | start, reload, drain, last flush | all | order of shutdown, signals at odd times | accepted usage reaches disk; the process ends |
| Usage and reports (`report.go`, `relay.go`, `gate.go`) | per key: usage of the day and of all time, errors, answers without usage; per relay: the end of the stream | `feed`, `count`, `charge`, `report`, `bill` | relay, pool | usage split over chunks; days that turn between an answer and its charge | what is charged is what the answer ends with; the bill is of one day and its sums agree |
| Config (`config.go`) | none | `Load`, `check` | start, reload, editing | what a valid config is; blocks with nothing in them | what the others assume of it |
| Config editing (`edit/`) | the config file, its temporary file | add, rm, list, nudge | file, pidfile, process | two editors at once, killed editors, a gateway that comes and goes | the file is vetted before it replaces the old one; an edit that is acknowledged is read |
| Probe (`probe.go`) | none | shallow and deep probes | providers | bounded fan-out | one result per key |

`PROJECT.json` lists the same parts with their status, the hazards at their
lines and the properties that watch each of them.

## Modules

### Pool (with MCPool)

A `Key` struct is an element of `Cell`, because what matters about it is its
identity: a key that is removed by one reload and added back by another is a new
object with the old fingerprint, and a request may still hold the old one.
`holds[c]` is the key caller `c` has reserved and `relays[c]` the one it is
relaying from. Every method that takes the lock is one action:

| Action | Code |
|---|---|
| `Pick`, `Miss` | `pick` (139): roll, go round the slice from the cursor, reserve the first free key, or move the cursor and give up |
| `Ok`, `Fail`, `Done` | the three ways an attempt resolves; each gives the reservation back |
| `Sour`, `Finish` | a relay that broke on the provider's side, and any other end of it |
| `Adopt` | `adopt` (80): reuse objects by fingerprint, update the limits, reset the cursors, extend the scrubber |
| `Look` | `ready`, `soonest`, `each`, which only roll |
| `Tick` | time; `dayDue` and `minDue` say that the next `roll` will find a new day or minute |

Time is kept as countdowns, so the state space is finite without a clock that
grows. A counter that a pending roll will reset reads as zero through
`RolledReqs` and `RolledMins`, as it does to every method of the code. `MaxReqs`
bounds the picks of a key in a day.

### Gateway (with MCGateway)

Composes the pool (`P == INSTANCE Pool`) with the requests that use it, the
config pointer and the reload. `req[c]` is the local state of one dispatch:
the snapshot it took, the name it is at, the ordered targets, those walked, and
a program counter. `Route`, `Try`, `Commit`, `Lose`, `Unmeter`, `Abandon`,
`WalkEnds`, `Wake`, `RelayEnds`, `Settle` follow `dispatch`, `walk` and
`attempt` from one lock or wait to the next; `Adopt` and `Store` are the two
steps of `reload` (serve.go 97 and 98). `Leave` is the client going away, noticed
where the code looks at the context. An attempt is its outcomes: a first token,
a failure with a code, a rejection of the usage option, or the client's absence.
`order` may return any order here; `Ledger` has the order that it returns.
`heads`, `asked`, `tries` and `resent` are history: the last two count, for each
name and provider, the attempts and those of them that were sent again without the
usage option.

### Admission (with MCAdmission)

`admit` is a load (`Load` or `Refuse`) and a compare-and-swap (`Swap` or `Retry`)
with other requests in between; `Read` is one read of `slurp`, bounded by the
declared length or by `maxBody`; `Unreadable`
and `Finish` are the two ways to the deferred `release`. Bytes are counted, the
capacity of the buffers they lie in is not.

### State (with MCState)

The process from `Boot` through `Restore`, serving, `Shutdown`, `Drained` and the
last save to `Exit`, or to `Crash` anywhere. `Encode`, `Open`, `Write` and
`Rename` are the steps of `save` and `Replace`; each may fail where the code
handles a failure. Handlers count (`Ok`) and charge (`Charge`) in between, config
reloads put keys out of rotation, days turn. `reqs` stands for every counter of
the day and `life` for those that outlive it; `used` and `spent` are what really
happened. A crash ends the process and keeps the files: what a file system makes
of an unsynced rename when the power goes is not modelled. `Fault` names the
operations that may fail. The runs let writes and renames fail. With `"read"` in
it a snapshot that cannot be read at the start is ignored, as the code does, and
the next save replaces it: `FileNeverForgets` then fails, as it must.

### Attempt, Exchange (with MCAttempt)

`Attempt` is one attempt in full: `once` from the request to the commit (`Answer`,
`Again`, `Refused`, `Commit`, `TooLate`), `gate` (`Gate` for a stream, `Collect`
and `Verdict` for a reply that is none, `GateFails`), `relay` and `pump` (`Write`,
`ReadRest`, `ReadEnd`, `ReadFails`, `WriteFails`). Beside the goroutine run the
first-token timer `late` and the idle timer `quiet`, which both cancel the
context (`Tick`), the client (`Leave`) and the provider (`Send`, `Hang`). What is
sent is a sequence of frames of three kinds, because those are the kinds `gate`
tells apart: fillers (blanks, comments, `[DONE]`), content, errors.

`Exchange` is what dispatch is promised of it: lost with nothing shown, or
committed and relayed; sent a second time at most once; and ended. These are the
outcomes `Gateway` gives an attempt, and `KeepsPromise` says that `Attempt`
implements `Exchange`, its liveness included: this is where the assumption of
`Gateway` that an attempt ends is earned from the timers.

### Config, Operate (with MCOperate)

`Config` has no state. `Loads` and `Panics` say of the content of a file what
`Load` makes of it: accepted, refused, or a panic in `check`. `Slots` and
`Targets` are what the pool and dispatch take from it. `Edited` is what `omny add`
and `omny rm` make of a content (`amend` and its tweaks: `Birth`, `Bare`,
`AddKey`, `DropKey`, `Pin`), or that they refuse it. Content is a record, not
text: what is kept of the text is whether a block is on one line, which the
splicer refuses.

`Operate` is the config file with the processes around it. An editor goes through
`Begin` (read and tweak), `Open`, `Write`, `Vet` and `Rename` (`Replace` with its
vetting), `ReadPid` and `Signal` (`nudge`), and may be killed anywhere. Files are
inodes: an editor that has opened the temporary file goes on writing to it after
another has renamed it over the config file (`Moved`) or removed it (`Unlinked`).
A gateway goes through `Load`, `WritePid`, `Listen`, `Stop`, `Unhook` and `Return`,
the order of `Run` and of its deferred calls, or dies. SIGHUP (`Deliver`) waits in
a channel of one once the handler is installed, and ends the process before and
after. `Read` and `Apply` are the two steps of a reload; the pool's part of it is
`Adopt` of `Gateway`. The operator edits by hand and signals. `rev` numbers the
contents of the file, so that what a gateway has read can be compared with what
an editor has installed.

### Body, Speed, Ledger (with MCLedger)

`Body` and `Speed` are functions without state. A body is a sequence of fields,
because `peek` and `locate` differ in which of several they take: `Peek` folds
case and takes the last, `Locate` wants the exact name and takes the first. `Send`
is the three ways of `send`: the body as it is, the splice, and `Swap`, which
decodes the body to a map. `Speed` has the average of a key (`Measure`), the
budget (`Tighten`), the average of a provider, the tiers and the stable sort
among the places of what was measured (`Order`).

`Ledger` uses both for the requests it follows through routing (`Start`),
attempts (`Ask`, `Unmeter`, `Answer`, `Fail`, `Abandon`), the relay (`Pump`, which
feeds `sniff`) and the charge (`Relayed`, `Sour`). A stream is a sequence of units
of which `sniff` keeps the last `Room`: the mark `"usage":`, what stands behind it,
and anything else. The body that an attempt sends is a function of its plan,
target and meter, so a request keeps those. Which keys are free is `Pool`'s
matter and any set here (`Turn`). `Midnight` makes a roll due, and each method
that rolls does. `Bill` is the fold of `bill` over the keys in the order of `each`.
`seen` is history: the row that each key should have.

## Checks

| Run | Question | Bounds |
|---|---|---|
| `pool_steady` | do racing requests respect both limits, is `soonest` exact, does every key that can come back come back | 2 keys, 2 callers, daily limit 2, minute limit 1, days of three minutes |
| `pool_reload` | do reloads keep objects, limits, cursors and secrets right under requests in flight | 3 configs, 4 objects for 3 fingerprints, 2 callers |
| `gateway_race` | two requests on two keys: nothing leaks, one answer, order | alias that repeats a provider, fallback that shares one, streams only, no naps; attempts are not counted |
| `gateway_live` | does every request end, whatever is reloaded, and how often may it attempt a provider | 1 caller, two configs that swap keys, naps of one tick, attempts counted to 3 |
| `admission_room` | no update of `held` is lost, the bodies fit, all the room comes back | 3 callers, 2 requests each, a cap of two bodies |
| `state_restarts` | is the file whole, are counts never invented, does no save take back another, does the last flush have everything, do counts reach the disk and does a stopping server end, through crashes, faults, reloads and days | 2 keys, 1 caller, 2 configs, 2 days, 2 picks |
| `attempt_stream` | is an attempt lost or relayed and never both, content first, in order, and does it end | 3 frames, budgets of 1 and 2 ticks, 2 frames before content |
| `operate_edits` | does an acknowledged edit get read and take effect, is what an editor installs vetted, can a gateway run what it cannot use, with editors killed and edits by hand | 2 editors, 1 gateway, 3 providers, 2 keys, 4 commands, 1 edit by hand, 1 signal |
| `usage` | is what is sent what was asked, what is charged what was said, the bill that of today, the order tiered | 2 callers, 3 keys, 3 providers of which one has no key, 4 bodies, 2 units kept of 3 |

`pool_reload` leaves the types to `pool_steady` and to the proof, and
`pool_steady` leaves the caps and the count of reservations to `pool_reload` and
to the proofs. Runs under `FairSpec` check safety and liveness at once, the others
need no fairness.

The bounds are the smallest at which the hazards occur: two callers for a race,
and a third in admission, where one can meet the race of two others; two keys, so that a cursor moves and a
walk has somewhere to go; two lives of a key, the least with which an object and
its fingerprint differ; limits of one and two, so that a counter reaches its
limit by counting, by reserving and by both; a minute shorter than a day, so that
each turns without the other; two configs, so that a snapshot can be old; two
picks and two days for a snapshot of yesterday that meets counters of today; two
editors, so that one can rename or remove what the other has open; two units kept
of a stream of three, so that a mark and its object come in two chunks and what
came before them is pushed out (that usage itself is pushed out takes a longer
stream, and is left to the theorems); a nap of one tick, so that the requested name
is walked twice, and counts up to three, one above what is allowed; three providers in a route, so that one can keep its place
between two that are sorted. `operate_edits` has one gateway at a time: a second
would be one more process for an editor to signal, and the proofs are for any
number. Larger values repeat these cases.

Each property has a mutant in `PROJECT.json`: a change to one mapped definition,
of the kind a plausible bug would make, under which the same run finds the
property violated. The mutated forms stand beside the definitions they change
(`SpentByCountAlone`, `SwapAnyway`, `DrainedAtOnce`, ...) and are used nowhere else.

### Where code and comment part

Three runs check what a comment says, and find it violated.

- `pool_readd`: "Count live reservations so concurrent requests cannot overshoot
  the cap" (pool.go:36). A key removed and added back while a request holds it is
  a new object, and its secret goes over the cap.
- `attempt_slow`: "Reset this timer after every chunk because it measures idle
  gaps" (relay.go:109) and "Separate client write failures so upstream keys are
  not benched" (relay.go:20). The timer is reset before the chunk is written and
  runs on while a slow client takes it; when it fires the provider is cut off, the
  next read fails, and the key is benched. In the trace the provider sends a frame
  while the write is held up. A read for which there is a frame returns at once, so
  `Tick` lets no time pass in it, and the idle timer is not to blame for that.
- `operate_blank`: "Swap only after validation so a bad reload leaves the active
  config unchanged" (serve.go:87). A provider with nothing in its block is a nil
  pointer, which `check` reads through (config.go:135). `Load` panics in the
  goroutine that reloads, where nothing recovers, and the gateway ends with its
  pidfile left behind.

Others were seen while modelling and have no run:

- `bench` overwrites `k.until`, so a failure without a hint shortens the wait a
  concurrent one was given (pool.go:208; README.md:105, "`Retry-After` takes
  precedence over the cooldown ladder", may mean one failure only).
- In the last minute of the day `soonest` reports nothing soon, although the
  rollover is (pool.go:278; pool_test.go:326, "a rollover is hours away, not
  seconds"). `SoonestIsExact` says up to midnight, and holds.
- The buffer of an admitted body may double (body.go:21, `bytes.Buffer.ReadFrom`):
  the bodies fit in the cap, their buffers may not (serve.go:36).
- A request routes by its snapshot and picks from the live pool, so after a reload
  it may send a key of the new config to an address of the old ("so reloads cannot
  split a request across versions", serve.go:23).
- A state file that is a year old passes for today's: the day is one of the year
  (state.go:42).
- A key whose provider has become more than three times slower is locked out: the
  tightened budget ends every attempt, and an attempt that fails is not measured
  (speed.go:83).
- `count` looks at the last mark only, so `"usage":null` after an object hides it
  ("Use the last object-valued usage field", relay.go:40); usage in the frame that
  was gated is not fed to `sniff` at all (relay.go:115).
- A body that names its model twice, or in two spellings, has the first exact one
  replaced while the last was routed by; one that spells `Stream_Options` otherwise
  may get a second. `SentIsAsked` is about bodies without either (`Plain`).
- Two editors at once share `path.tmp`: one may install what the other is writing,
  cut short or not vetted, and `amend` may then look for a provider that the file it
  has vetted does not have (splice.go:48). `LoneEditsAreVetted` says when that
  cannot be; no gateway runs such a file, by `RunningIsServable`.
- An edit that lands between `Load` (run.go:17) and the pidfile (run.go:33) is not
  read, though its editor says that it "applies at next start" (cli.go:187).
- A gateway started on an address that is taken overwrites the pidfile of the one
  that runs and removes it as it returns (run.go:33, 36).
- SIGHUP before `Notify` (run.go:48) or after `Stop` ends the process.
- An editor that renames over an edit made by hand since it read the file undoes it.

## Fairness

- Time passes (`Tick`).
- A goroutine that can take its next step does. In `Gateway` that includes the
  end of an attempt and of a relay, which `Attempt` derives: there only time, the
  goroutine and the return of `Do` under a cancelled context are fair, the
  provider is not. The client's side has no timer: no write timeout is set, so a
  relay to a client that neither reads nor leaves stays. The fairness assumes that
  a client does one of them.
- `Store` follows `Adopt`: nothing blocks between them.
- The flusher's ticker fires and its writes return; a `select` with two ready
  cases takes each of them in the end (`SF` on the last save), since Go chooses
  among them at random.
- In `Operate` the goroutine that reloads runs (`WF` on `Read` or `Apply`); editors
  and the gateway's life are not fair.
- Nothing is assumed of arrivals, departures, failures, reloads, signals and
  crashes.

## Proofs

| Module | About | Theorems |
|---|---|---|
| `PoolProofs`, `RotationProofs` | `Pool` | `TypeCorrect`, `ReservationsCounted`, `WaitsAreExact`; `LimitsKept`, `CursorsInRange`, `SecretsMasked`, `KeptKeysSurvive` |
| `GatewayProofs` | `Gateway` | `PoolRefined`, `PoolKept`, `TypeCorrect`, `NoKeyLeaks`, `OneAnswer`, `NoneSkipped`, `AttemptsAreBounded` |
| `AdmissionProofs` | `Admission` | `AdmissionTyped`, `HeldExact`, `BodiesWithinCap` |
| `StateProofs` | `State` | `TypeCorrect`, `AlwaysWhole`, `NothingAcceptedIsLost`, `NothingIsInvented`, `NothingIsForgotten` |
| `AttemptProofs` | `Attempt`, `Exchange` | `TypeCorrect`, `CommitIsSafe`, `ContentComesFirst`, `RelayedInOrder`, `KeepsItsOrder` |
| `OperateProofs` | `Config`, `Operate` | `TypeCorrect`, `RunningServable`, `AckedRead`, `LoneVetted` |
| `LedgerProofs` | `Body`, `Speed`, `Ledger` | `LedgerTyped`, `SendIsFaithful`, `SentAsAsked`, `FeedKeepsEnding`, `ChargedAsSaid`, `BillExact`, `MeasureBetween`, `TightenBounded`, `TieredOrder` |

They hold for any number of keys, providers, callers, editors and gateways, any
ladder, limits, lengths, commands and streams, under the named assumptions of each
module, which TLC evaluates on the instances. Those of note:

- `Pool` and `Gateway`: callers and objects are as declared, and a config is one
  that `Config.check` lets through (no key listed twice, no negative limit;
  aliases of providers that exist). For the first part of that,
  `RunningServable` is the proof. `PoolAssumption` says for `Gateway` that the pools of its configs are such.
- `FileAssumption` of `State`: what is no file and what is half a file are no snapshots.
- `LedgerAssumption`: a key has one slot, and the keys of a provider stand
  together, as `each` visits them. A route has a provider once. `Config.check` lets
  an alias repeat one, and a request then passes over the repetition: `Gateway`
  has that, in its runs and its theorems, `Ledger` leaves it out.

### The pool

- `TypeCorrect`, `ReservationsCounted`. `Inv` is `TypeOK` with `LiveCounted`:
  `live[k]` is the number of callers that hold `k`. Neither part is inductive
  alone, for a release keeps `live` a natural number only because the caller that
  releases is one of those counted. Steps that pick add one holder and steps that
  resolve take one away; the cardinalities follow from the library's facts on
  adding and removing an element. A reload changes no `live`: an object that is
  new to the rotation is one nobody holds.
- `LimitsKept`: from `Inv`, each action lets `reqs + live` and `mins + live` grow
  only by a pick, which has just seen them below the limits in force.
- `CursorsInRange`, `SecretsMasked`, `KeptKeysSurvive`. `RotationInv` adds that no
  two objects in rotation have one fingerprint, and that everything in rotation
  is masked: the first makes "the object of this fingerprint" well defined for
  `adopt`, the second carries the mask from the rotation to a request that still
  uses a key after it has left. What a reload clears is never an object that was in
  rotation and stays, so a kept key has its counts, its wait and its reservations.
- `WaitsAreExact`: with no request in flight and no key free, what `soonest`
  reports is, up to midnight, the first moment at which a key is free. That moment exists because a set of natural numbers that
  is not empty has a least element.

### The gateway

Only its own goroutine changes a request's record. So the invariant is that of the
pool and, for each record, five predicates: `Shape` (which fields go together at
which point), `Answered` (as many answers as the point allows), `Ordered` (what is
behind in the walk was asked), `Bounded` (what was tried under each name, and that
a provider the walk has not attempted may still be tried once more) and `Metered`
(an attempt that may still be sent again was not so far). One lemma for each action takes a record that satisfies
them to one that does, and another shows what the action does with the keys.

- `PoolRefined`: every behaviour of `Gateway` is one of `Pool`, step by step, so
  `PoolKept` has the pool's theorems for the gateway without a second proof.
- `NoKeyLeaks`: a request has a key reserved exactly while it attempts, and one in
  use exactly while it relays.
- `OneAnswer`, `NoneSkipped`, `AttemptsAreBounded`: one answer at most, and none only
  if the client has left; no name is left before all of its targets were asked; a
  provider is attempted at most once for a name, twice for the requested name after
  a nap, and each of these is sent again at most once, if it is of a stream. The
  names that were tried are distinct, so a walk starts with none of its providers
  attempted for its name, or after a nap with one attempt of each; that is what
  `Bounded` keeps. It holds for any alias and for any `MaxTries`.

### Admission

`AdmissionTyped`, `HeldExact`, `BodiesWithinCap`. Bytes are counted as elements:
`Units(room)` has one pair for each byte a caller has reserved, so that the sum
over callers is a cardinality and a reservation is a disjoint union. The
invariant adds what a caller between load and swap knows (`Promised`: what it
read leaves room) and that no body outgrows its room (`Covered`).

### The state file

- `TypeCorrect` bounds every counter, in memory, in a snapshot and on disk, by the
  picks there were. `Counted` is why: a counter and the requests that have picked
  and still owe it a count come to no more than the picks.
- `AlwaysWhole` needs `Saving`: the temporary file is the snapshot when it is
  renamed, so neither a failed write nor a crash puts half of one at `path`.
- `NothingAcceptedIsLost` needs `Last`: once the server has drained nobody counts,
  and the last save, wherever it is, writes what memory has.
- `NothingIsInvented` and `NothingIsForgotten` relate five places of a count: what
  happened, memory, the snapshot being saved, the temporary file, the file (`Told`
  and `Behind`). Both suppose `LastDay < YearLen`: the file has the day of the year
  (state.go:42), and a year later the counters of an old snapshot pass for today's.
  Without it they are false. `NothingIsForgotten` supposes also that the file can
  be read, `"read" \notin Fault`: `restore` ignores a file it cannot read, and the
  next save replaces it.

### One attempt

`Flow` says where the frames are: what was sent is what the client has, what is
being written, and what nobody has read, in that order; up to the commit it is what
the gate has and what nobody has read. `Gated` says what the gate has seen when it
lets an answer through, `Timed` which timers can run where. The four invariants
follow, and `KeepsItsOrder`: every step is a step of `Exchange` or none, that is
`Spec => Promise!Safety`.

### Editors and gateways

The invariant adds to the types that what runs was loaded (`Loaded`) and, for
`AckedIsRead`, what holds while the signal waits: a gateway that an editor has
signalled had its handler installed, and as long as it has, the signal waits or
the file has been read since (`AckedWaits`). `RunningServable` is then a lemma on
`Config` alone: what `Loads` accepts is `Servable`. For `LoneVetted` it adds that
an editor that has met no other has the temporary file to itself (`LoneWork`), so
what it vetted is what it renames.

### What is sent, charged and reported

- `SendIsFaithful`, on the operators of `Body`: whichever of the three ways `send`
  takes, a plain body has the model of its target, has a usage option if it is
  metered and had none, and is otherwise as it was. `SentAsAsked` adds that a
  request's plan is a body that was asked (`Planned`).
- `LedgerTyped`, `FeedKeepsEnding`, `ChargedAsSaid`. The tail of a relay is the
  ending of what was heard of its stream, which every `Pump` keeps: to feed a chunk
  to the ending of a stream is to take the ending of the longer stream. That the
  last mark in the ending is the last mark near the end of the stream is then
  arithmetic on positions.
- `BillExact`. `CountersTell`: the counters of each key, rolled if a roll is due,
  are the row of what happened (`seen`). Then the fold of `bill` is followed slot by
  slot: after `n` slots (`BillOK`) there is a row for each key so far, one for each
  provider so far, which is the sum of its keys' rows, and one for all. That a
  provider is opened once is where the keys of a provider must stand together.
- `MeasureBetween` and `TightenBounded` are facts on the operators of `Speed`.
  `TieredOrder`: a rank is a number of targets that come before, so ranks are
  distinct and have no gap, the order is a permutation, by tiers, stable within
  one, and what was not measured keeps its place.

A sum or a fold over a set is treated as a function on all subsets, whose
equations are proved by the least counterexample: the library's induction theorems
take an operator as parameter, which the provers used cannot instantiate.

### What stays with TLC

Every invariant of the runs and every property of a step is a theorem. Liveness is
not, for the provers do not handle `ENABLED`: `KeysComeBack`, `EveryRequestEnds`,
`RoomComesBack`, `CountsReachDisk`, `ShutdownEnds`, `EditsTakeEffect` and that an
`Exchange` ends (`KeepsPromise`) are checked on the instances above only. The three
counterexamples of "Where code and comment part" are runs too.

## Not modelled

- HTTP handlers other than chat, bearer tokens and the panic shield: no state.
- The bytes of bodies, streams and YAML; logging; report formatting.
- The probe: it asks every key's provider once, a bounded number at a time, for a
  report. It changes no state of the gateway, and its bound is a channel used as a
  semaphore.
- The formats of retry hints (`after`): a failure has any hint.
- Naps, fallback and reloads in `Ledger`, which `Gateway` and `Pool` have; the
  usage restored at a start, which `State` has as `life`.
- Power loss, clocks that go backwards, a changing `state` path.

## Plan

The first eight exist.

1. `Pool`, with proofs of its safety.
2. `Gateway`: dispatch over the pool, with reloads.
3. `Admission`, with proofs.
4. `State`: files, crashes and the end of the process.
5. `Attempt` and `Exchange`: timers, gate and relay, and what dispatch makes of
   them.
6. `Config` and `Operate`: the config file, its editors and the gateway's life,
   with proofs.
7. `Body`, `Speed` and `Ledger`: what is sent, measured and charged, with proofs.
8. Proofs of the safety of `Gateway`, `State`, `Attempt` and `Ledger`, and that
   `Gateway` implements `Pool` and `Attempt` the safety of `Exchange`.
9. `Quota`: the abstract promise of a key's limits, a semaphore whose window
   turns; `Pool` shown to implement it by proof.
