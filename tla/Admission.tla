----------------------------- MODULE Admission -----------------------------
(***************************************************************************)
(* Body admission (admit and release in internal/omny/serve.go, the head   *)
(* of dispatch in proxy.go, slurp in body.go): a request reserves room for *)
(* its body before it reads it, so that the bodies of all requests         *)
(* together stay within s.hold.                                            *)
(*                                                                         *)
(* The counter is a lock-free atomic: admit loads it and swaps it in two   *)
(* steps, with other requests in between.  Sizes are in small units; a     *)
(* body grows by any number of units at a time.  Who is served what is     *)
(* Gateway's business: here an admitted request reads and some time later  *)
(* leaves.                                                                 *)
(***************************************************************************)
EXTENDS Integers, FiniteSets

CONSTANTS
  Caller,        \* request goroutines
  MaxBody,       \* maxBody
  Hold,          \* server.hold
  Length,        \* the values of Content-Length, negative when there is none
  Rounds         \* bound: requests a caller makes one after the other

ASSUME SizeAssumption ==
  /\ MaxBody \in Nat \ {0} /\ Hold \in Nat
  /\ Length \subseteq Int
  /\ Rounds \in Nat

VARIABLES
  held,          \* server.held
  at,            \* where in dispatch each caller is
  declared,      \* r.ContentLength
  read,          \* held as admit has loaded it
  room,          \* what the caller has reserved, 0 for nothing
  got,           \* the bytes of the body it has read
  left           \* the requests it has yet to make

vars == <<held, at, declared, read, room, got, left>>

-----------------------------------------------------------------------------
(* Sizes.                                                                  *)

Unclamped(n) == IF n < 0 THEN 0 ELSE n
Clamped(n) == IF n < 0 \/ n > MaxBody THEN MaxBody ELSE n

LimitOfLength(n) == IF 0 <= n THEN n ELSE MaxBody

\* The server ends a body at its declared length, MaxBytesReader at MaxBody.
Limit(n) == IF 0 <= n /\ n <= MaxBody THEN n ELSE MaxBody

\* Sizes by caller, unit by unit: Cardinality(Units(size)) is their sum.
Units(size) == {u \in Caller \X (1..MaxBody) : u[2] <= size[u[1]]}

-----------------------------------------------------------------------------
(* Init and the actions.                                                   *)

Init ==
  /\ held = 0
  /\ at = [c \in Caller |-> "idle"]
  /\ declared = [c \in Caller |-> 0]
  /\ read = [c \in Caller |-> 0]
  /\ room = [c \in Caller |-> 0]
  /\ got = [c \in Caller |-> 0]
  /\ left = [c \in Caller |-> Rounds]

Arrive(c) ==
  /\ at[c] = "idle" /\ left[c] > 0
  /\ \E n \in Length : declared' = [declared EXCEPT ![c] = n]
  /\ at' = [at EXCEPT ![c] = "asking"]
  /\ left' = [left EXCEPT ![c] = @ - 1]
  /\ UNCHANGED <<held, read, room, got>>

\* s.held.Load(), with room to spare.
Load(c) ==
  /\ at[c] = "asking"
  /\ held + Clamped(declared[c]) <= Hold
  /\ read' = [read EXCEPT ![c] = held]
  /\ at' = [at EXCEPT ![c] = "swapping"]
  /\ UNCHANGED <<held, declared, room, got, left>>

\* s.held.Load(), and no room: 503.
Refuse(c) ==
  /\ at[c] = "asking"
  /\ held + Clamped(declared[c]) > Hold
  /\ at' = [at EXCEPT ![c] = "idle"]
  /\ declared' = [declared EXCEPT ![c] = 0]
  /\ UNCHANGED <<held, read, room, got, left>>

SwapAnyway(c) ==
  /\ at[c] = "swapping"
  /\ held' = read[c] + Clamped(declared[c])
  /\ room' = [room EXCEPT ![c] = Clamped(declared[c])]
  /\ at' = [at EXCEPT ![c] = "admitted"]
  /\ read' = [read EXCEPT ![c] = 0]
  /\ UNCHANGED <<declared, got, left>>

\* The compare-and-swap succeeds.
Swap(c) ==
  /\ at[c] = "swapping" /\ held = read[c]
  /\ held' = read[c] + Clamped(declared[c])
  /\ room' = [room EXCEPT ![c] = Clamped(declared[c])]
  /\ at' = [at EXCEPT ![c] = "admitted"]
  /\ read' = [read EXCEPT ![c] = 0]
  /\ UNCHANGED <<declared, got, left>>

\* It fails, and admit loads again.
Retry(c) ==
  /\ at[c] = "swapping" /\ held # read[c]
  /\ at' = [at EXCEPT ![c] = "asking"]
  /\ read' = [read EXCEPT ![c] = 0]
  /\ UNCHANGED <<held, declared, room, got, left>>

\* One Read of slurp.
Read(c) ==
  /\ at[c] = "admitted" /\ got[c] < Limit(declared[c])
  /\ \E n \in 1..MaxBody :
       got[c] + n <= Limit(declared[c]) /\ got' = [got EXCEPT ![c] = @ + n]
  /\ UNCHANGED <<held, at, declared, read, room, left>>

\* The deferred release, as dispatch returns.
Release(c) ==
  /\ held' = held - room[c]
  /\ room' = [room EXCEPT ![c] = 0]
  /\ got' = [got EXCEPT ![c] = 0]
  /\ declared' = [declared EXCEPT ![c] = 0]
  /\ at' = [at EXCEPT ![c] = "idle"]
  /\ UNCHANGED <<read, left>>

UnreadableKeeping(c) ==
  /\ at[c] = "admitted"
  /\ at' = [at EXCEPT ![c] = "idle"]
  /\ UNCHANGED <<held, declared, read, room, got, left>>

\* The body fails in mid-read or is longer than MaxBody: 413.
Unreadable(c) ==
  /\ at[c] = "admitted"
  /\ Release(c)

\* The whole body is there, and the request has been answered.
Finish(c) ==
  /\ at[c] = "admitted"
  /\ declared[c] <= MaxBody /\ (declared[c] > 0 => got[c] = declared[c])
  /\ Release(c)

Admit(c) == Load(c) \/ Refuse(c) \/ Swap(c) \/ Retry(c)

Next ==
  \E c \in Caller : Arrive(c) \/ Admit(c) \/ Read(c) \/ Unreadable(c) \/ Finish(c)

Spec == Init /\ [][Next]_vars

\* A goroutine in admit runs; a client sends its body and reads its answer, or
\* leaves.
FairSpec ==
  /\ Spec
  /\ \A c \in Caller : WF_vars(Admit(c)) /\ WF_vars(Read(c) \/ Unreadable(c) \/ Finish(c))

-----------------------------------------------------------------------------
(* Properties.                                                             *)

\* The state has its types, and a caller that is not admitted has reserved
\* nothing and has no body.
TypeOK ==
  /\ held \in Nat
  /\ at \in [Caller -> {"idle", "asking", "swapping", "admitted"}]
  /\ declared \in [Caller -> Length \cup {0}]
  /\ read \in [Caller -> Nat]
  /\ room \in [Caller -> 0..MaxBody] /\ got \in [Caller -> 0..MaxBody]
  /\ left \in [Caller -> 0..Rounds]
  /\ \A c \in Caller : at[c] # "admitted" => room[c] = 0 /\ got[c] = 0

\* held is what the admitted requests have reserved between them: no update of
\* the counter is lost and none is given back twice (serve.go:45-57).
HeldIsWhatIsReserved == held = Cardinality(Units(room))

\* All bodies together fit in s.hold, whatever lengths were declared and
\* whatever the clients send ("Reserve body memory before reading so concurrent
\* requests cannot exceed the cap", serve.go:36).
BodiesFit == Cardinality(Units(got)) <= Hold

\* When the requests are over all the room is back: no way out of dispatch
\* keeps any, and admit's loop does not go round for ever (serve.go:45-57,
\* proxy.go:58-69).
RoomComesBack == <>[](held = 0)

=============================================================================
