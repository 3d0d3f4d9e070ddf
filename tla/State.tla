------------------------------- MODULE State -------------------------------
(***************************************************************************)
(* The counters on disk (internal/omny/state.go) over the life of the      *)
(* process (run.go): restored at the start, saved by flush every so often  *)
(* and once more when the server stops, with the requests that count in    *)
(* between.  The process may be killed between any two steps and started   *)
(* again with another config; the files stay.                              *)
(*                                                                         *)
(* reqs stands for the daily counters of a key (reqs, errs, toks, blind)   *)
(* and life for those that outlive the day (life, ttft).  A day is known   *)
(* to the code by its number in the year.  used and spent are what really  *)
(* happened, on this day and in all.                                       *)
(***************************************************************************)
EXTENDS Integers

CONSTANTS
  Key,           \* key fingerprints
  Caller,        \* request goroutines
  NoKey,         \* a Key object that a reload has put out of rotation
  Config,        \* the sets of keys a config may list
  Fault,         \* what may fail: a subset of {"read", "write", "rename"}
  Absent, Torn,  \* no file; a file cut short
  YearLen,       \* days in a year
  LastDay,       \* bound: days that pass
  MaxPicks       \* bound: picks in all

ASSUME StateAssumption ==
  /\ Config \subseteq SUBSET Key /\ Config # {}
  /\ NoKey \notin Key
  /\ Fault \subseteq {"read", "write", "rename"}
  /\ YearLen \in Nat \ {0} /\ LastDay \in Nat /\ MaxPicks \in Nat

VARIABLES
  now,           \* the day, counted from the first
  file, temp,    \* the file at p.path, and at p.path.tmp
  phase,         \* how far Run has come, "down" when there is no process
  keys,          \* the keys in p.keys
  day,           \* p.day
  reqs, life,    \* k.reqs and k.life
  saver, snap,   \* where flush is in save, and the bytes it has encoded
  final,         \* whether that save is the last
  at, using,     \* each handler: where it is, and the key it uses
  used, spent, picks   \* what really happened

disk    == <<file, temp>>
pool    == <<keys, day, reqs, life>>
flusher == <<saver, snap, final>>
handler == <<at, using>>
history == <<used, spent, picks>>
vars    == <<now, disk, phase, pool, flusher, handler, history>>

-----------------------------------------------------------------------------
(* Days and snapshots.                                                     *)

YearDay(n) == n % YearLen

Nothing == [k \in Key |-> 0]

Whole(f) == f \notin {Absent, Torn}

\* roll: the daily counters as the next method that takes the lock sees them.
Rolled == IF day = YearDay(now) THEN reqs ELSE Nothing

\* save reads what is there and does not roll.
Snapshot == [day |-> day, reqs |-> [k \in keys |-> reqs[k]], life |-> [k \in keys |-> life[k]]]

AnyDay(f) == TRUE
Today(f) == f.day = day

ValueOf(g, k) == IF k \in DOMAIN g THEN g[k] ELSE 0

\* What restore gives a key: the counters of the file that it lists.
DailyOfFile(f) == [k \in Key |-> IF Today(f) THEN ValueOf(f.reqs, k) ELSE 0]
Daily(f) == [k \in Key |-> IF k \in keys /\ Today(f) THEN ValueOf(f.reqs, k) ELSE 0]
LifeOfToday(f) == [k \in Key |-> IF k \in keys /\ Today(f) THEN ValueOf(f.life, k) ELSE 0]
Life(f) == [k \in Key |-> IF k \in keys THEN ValueOf(f.life, k) ELSE 0]

-----------------------------------------------------------------------------
(* The process starts and ends.                                            *)

Alive == phase \in {"serving", "draining", "stopping", "broken"}

Idle == [c \in Caller |-> "none"]
Unused == [c \in Caller |-> NoKey]

Init ==
  /\ now = 0 /\ file = Absent /\ temp = Absent /\ phase = "down"
  /\ keys = {} /\ day = 0 /\ reqs = Nothing /\ life = Nothing
  /\ saver = "idle" /\ snap = Absent /\ final = FALSE
  /\ at = Idle /\ using = Unused
  /\ used = Nothing /\ spent = Nothing /\ picks = 0

\* serve: a pool of new keys.
Boot(K) ==
  /\ phase = "down"
  /\ phase' = "booted" /\ keys' = K /\ day' = YearDay(now)
  /\ UNCHANGED <<now, disk, reqs, life, flusher, handler, history>>

\* restore, and the goroutines and the listener that Run starts after it.  A file
\* that cannot be read or parsed is ignored.
Restore ==
  /\ phase = "booted" /\ phase' = "serving"
  /\ \/ /\ ~Whole(file) \/ "read" \in Fault
        /\ UNCHANGED <<reqs, life>>
     \/ /\ Whole(file)
        /\ reqs' = Daily(file) /\ life' = Life(file)
  /\ UNCHANGED <<now, disk, keys, day, flusher, handler, history>>

\* Memory is gone, the files are not.  No process reads what another has left in the
\* temporary file: it is as good as gone.
Gone ==
  /\ temp' = Absent
  /\ phase' = "down" /\ keys' = {} /\ day' = 0 /\ reqs' = Nothing /\ life' = Nothing
  /\ saver' = "idle" /\ snap' = Absent /\ final' = FALSE
  /\ at' = Idle /\ using' = Unused
  /\ UNCHANGED <<now, file, history>>

\* Killed, at any point.
Crash == phase # "down" /\ Gone

\* The context is done: Shutdown closes the listener.
Shutdown ==
  /\ phase = "serving" /\ phase' = "draining"
  /\ UNCHANGED <<now, disk, pool, flusher, handler, history>>

DrainedAtOnce ==
  /\ phase = "draining" /\ phase' = "stopping"
  /\ UNCHANGED <<now, disk, pool, flusher, handler, history>>

\* Shutdown returns when no handler is left, and Run closes stop.
Drained ==
  /\ phase = "draining" /\ at = Idle /\ phase' = "stopping"
  /\ UNCHANGED <<now, disk, pool, flusher, handler, history>>

\* ListenAndServe fails for another reason: stop is closed with handlers running.
ListenerFails ==
  /\ phase = "serving" /\ phase' = "broken"
  /\ UNCHANGED <<now, disk, pool, flusher, handler, history>>

\* flush has returned, and so does Run.
Exit == phase \in {"stopping", "broken"} /\ saver \in {"done", "failed"} /\ Gone

\* adopt, on SIGHUP: the keys that stay keep their objects.
Reload(K) ==
  /\ Alive
  /\ keys' = K
  /\ reqs' = [k \in Key |-> IF k \in K \cap keys THEN reqs[k] ELSE 0]
  /\ life' = [k \in Key |-> IF k \in K \cap keys THEN life[k] ELSE 0]
  /\ using' = [c \in Caller |-> IF using[c] \in K THEN using[c] ELSE NoKey]
  /\ UNCHANGED <<now, disk, phase, day, flusher, at, history>>

Midnight ==
  /\ now < LastDay /\ now' = now + 1 /\ used' = Nothing
  /\ UNCHANGED <<disk, phase, pool, flusher, handler, spent, picks>>

-----------------------------------------------------------------------------
(* Requests.                                                               *)

\* New requests come in until Shutdown; a failed listener keeps its connections.
Arrive(c) ==
  /\ phase \in {"serving", "broken"} /\ at[c] = "none"
  /\ at' = [at EXCEPT ![c] = "open"]
  /\ UNCHANGED <<now, disk, phase, pool, flusher, using, history>>

\* pick; a handler picks again when an attempt has failed.
Pick(c) ==
  /\ Alive /\ at[c] = "open" /\ picks < MaxPicks
  /\ \E k \in keys : using' = [using EXCEPT ![c] = k]
  /\ at' = [at EXCEPT ![c] = "asking"]
  /\ picks' = picks + 1
  /\ reqs' = Rolled /\ day' = YearDay(now)
  /\ UNCHANGED <<now, disk, phase, keys, life, flusher, used, spent>>

\* ok: the request is counted, on an object that may be out of rotation by now.
Ok(c) ==
  /\ at[c] = "asking"
  /\ at' = [at EXCEPT ![c] = "relaying"]
  /\ IF using[c] \in keys
       THEN /\ reqs' = [Rolled EXCEPT ![using[c]] = @ + 1]
            /\ used' = [used EXCEPT ![using[c]] = @ + 1]
       ELSE reqs' = Rolled /\ UNCHANGED used
  /\ day' = YearDay(now)
  /\ UNCHANGED <<now, disk, phase, keys, life, flusher, using, spent, picks>>

\* fail, or done when the client has left, which does not roll.
Fail(c) ==
  /\ at[c] = "asking"
  /\ at' = [at EXCEPT ![c] = "open"] /\ using' = [using EXCEPT ![c] = NoKey]
  /\ \/ reqs' = Rolled /\ day' = YearDay(now)
     \/ UNCHANGED <<reqs, day>>
  /\ UNCHANGED <<now, disk, phase, keys, life, flusher, history>>

\* charge: what the response cost.  The request is over.
Charge(c) ==
  /\ at[c] = "relaying"
  /\ at' = [at EXCEPT ![c] = "none"] /\ using' = [using EXCEPT ![c] = NoKey]
  /\ IF using[c] \in keys
       THEN /\ life' = [life EXCEPT ![using[c]] = @ + 1]
            /\ spent' = [spent EXCEPT ![using[c]] = @ + 1]
       ELSE UNCHANGED <<life, spent>>
  /\ reqs' = Rolled /\ day' = YearDay(now)
  /\ UNCHANGED <<now, disk, phase, keys, flusher, used, picks>>

\* No key has answered, or the client has left.
Leave(c) ==
  /\ at[c] = "open"
  /\ at' = [at EXCEPT ![c] = "none"]
  /\ UNCHANGED <<now, disk, phase, pool, flusher, using, history>>

-----------------------------------------------------------------------------
(* flush.                                                                  *)

\* save takes the lock and encodes.  The select takes the ticker or, once stop is
\* closed, the last turn; when both are ready either.
Encode(last) ==
  /\ Alive /\ saver = "idle"
  /\ last => phase \in {"stopping", "broken"}
  /\ saver' = "encoded" /\ snap' = Snapshot /\ final' = last
  /\ UNCHANGED <<now, disk, phase, pool, handler, history>>

WriteInPlace ==
  /\ saver = "encoded" /\ saver' = "writing"
  /\ file' = Torn
  /\ UNCHANGED <<now, temp, phase, pool, snap, final, handler, history>>

\* Replace opens the temporary file, which truncates it, ...
Open ==
  /\ saver = "encoded" /\ saver' = "writing"
  /\ temp' = Torn
  /\ UNCHANGED <<now, file, phase, pool, snap, final, handler, history>>

\* ... writes it, ...
Write ==
  /\ saver = "writing" /\ saver' = "written"
  /\ temp' = snap
  /\ UNCHANGED <<now, file, phase, pool, snap, final, handler, history>>

ReturnsAlways(how) == how
ReturnsNever(how) == "idle"

\* After the last save flush returns, otherwise it waits for the next turn.
Returns(how) == IF final THEN how ELSE "idle"

\* ... and renames it.
Rename ==
  /\ saver = "written" /\ saver' = Returns("done")
  /\ file' = temp /\ temp' = Absent
  /\ snap' = Absent /\ final' = FALSE
  /\ UNCHANGED <<now, phase, pool, handler, history>>

\* The file cannot be opened or written; the next save truncates what it leaves.
WriteFails ==
  /\ "write" \in Fault /\ saver \in {"encoded", "writing"}
  /\ saver' = Returns("failed")
  /\ temp' = Absent
  /\ snap' = Absent /\ final' = FALSE
  /\ UNCHANGED <<now, file, phase, pool, handler, history>>

\* The rename fails: the temporary file is removed.
RenameFails ==
  /\ "rename" \in Fault /\ saver = "written"
  /\ saver' = Returns("failed")
  /\ temp' = Absent
  /\ snap' = Absent /\ final' = FALSE
  /\ UNCHANGED <<now, file, phase, pool, handler, history>>

Save == Open \/ Write \/ Rename \/ WriteFails \/ RenameFails

Serve(c) == Ok(c) \/ Fail(c) \/ Charge(c) \/ Leave(c)

Next ==
  \/ \E K \in Config : Boot(K) \/ Reload(K)
  \/ Restore \/ Crash \/ Shutdown \/ Drained \/ ListenerFails \/ Exit \/ Midnight
  \/ \E c \in Caller : Arrive(c) \/ Pick(c) \/ Serve(c)
  \/ \E last \in BOOLEAN : Encode(last)
  \/ Save

Spec == Init /\ [][Next]_vars

\* The ticker fires and save goes on; a handler ends (its client reads or leaves,
\* its timers end the rest); a select with two ready cases takes each in time; a
\* disk that fails does not fail for ever.
FairSpec ==
  /\ Spec
  /\ WF_vars(Restore \/ Drained \/ Exit)
  /\ WF_vars(Encode(FALSE)) /\ SF_vars(Encode(TRUE))
  /\ SF_vars(Open) /\ SF_vars(Write) /\ SF_vars(Rename)
  /\ \A c \in Caller : WF_vars(Serve(c))

-----------------------------------------------------------------------------
(* Properties.                                                             *)

SnapshotOf(K) ==
  [day : 0..(YearLen - 1), reqs : [K -> 0..MaxPicks], life : [K -> 0..MaxPicks]]

Snapshots == UNION {SnapshotOf(K) : K \in Config}

File == {Absent, Torn} \cup Snapshots

\* No snapshot reads as no file, or as one cut short.
ASSUME FileAssumption == Absent # Torn /\ Absent \notin Snapshots /\ Torn \notin Snapshots

\* The state has its types, and only keys in rotation have counters.
TypeOK ==
  /\ now \in 0..LastDay
  /\ {file, temp, snap} \subseteq File
  /\ phase \in {"down", "booted", "serving", "draining", "stopping", "broken"}
  /\ keys \in Config \cup {{}} /\ day \in 0..(YearLen - 1)
  /\ reqs \in [Key -> 0..MaxPicks] /\ life \in [Key -> 0..MaxPicks]
  /\ \A k \in Key \ keys : reqs[k] = 0 /\ life[k] = 0
  /\ saver \in {"idle", "encoded", "writing", "written", "done", "failed"} /\ final \in BOOLEAN
  /\ at \in [Caller -> {"none", "open", "asking", "relaying"}]
  /\ using \in [Caller -> Key \cup {NoKey}]

\* However the process ends and whatever write fails, the file is the whole of
\* some snapshot ("Write to a private temporary file and rename it so a crash
\* cannot leave partial state", state.go:74).
FileIsWhole == file # Torn

\* The counters of a key are never more than what it did, today and in all,
\* through restarts, reloads, stale files and turns of the day (state.go:27-54,
\* pool.go:294-303).
CountsNeverInvented ==
  \A k \in keys : Rolled[k] <= used[k] /\ life[k] <= spent[k]

AlwaysListed == {k \in Key : \A K \in Config : k \in K}

Forgets ==
  \E k \in AlwaysListed : Whole(file) /\ Whole(file') /\
    \/ ValueOf(file'.life, k) < ValueOf(file.life, k)
    \/ file'.day = file.day /\ ValueOf(file'.reqs, k) < ValueOf(file.reqs, k)

\* Of a key that every config lists no save takes back what an earlier one recorded
\* of the same day, or of all time, with crashes, reloads and failed writes in
\* between: the process goes on from what it finds on disk (state.go:27-72).
FileNeverForgets == [][~Forgets]_vars

\* When a stopped server has saved for the last time the file has all that the
\* requests counted ("Wait for the final flush before returning so accepted usage
\* is not lost", run.go:75): none of them counts after the flush.
FinalFlushKeepsAll ==
  phase = "stopping" /\ saver = "done" =>
    /\ Whole(file) /\ file.day = day
    /\ \A k \in AlwaysListed :
         ValueOf(file.reqs, k) = reqs[k] /\ ValueOf(file.life, k) = life[k]

UpToDate(k) == Whole(file) /\ file.day = day /\ ValueOf(file.reqs, k) = reqs[k]

\* The disk catches up with the counts of a key that every config lists, again and
\* again, whatever saves fail, once the counting pauses (it is bounded here), unless
\* the process ends again and again (state.go:93-110).
CountsReachDisk == []<>(~Alive \/ \A k \in AlwaysListed : UpToDate(k))

\* A server that is told to stop, or whose listener fails, does (run.go:63-77).
ShutdownEnds == []<>(phase \notin {"draining", "stopping", "broken"})

=============================================================================
