------------------------------ MODULE Attempt ------------------------------
(***************************************************************************)
(* One attempt at a provider, from the request that is sent to the last    *)
(* byte relayed: attempt, once and the outcome in walk (internal/omny/     *)
(* proxy.go), gate (gate.go), relay and pump (relay.go).                   *)
(*                                                                         *)
(* The goroutine reads from the provider and writes to the client.  Beside *)
(* it run the first-token timer `late`, the idle timer `quiet`, which both *)
(* cancel the attempt's context, and the client, whose going away cancels  *)
(* it too.  What a provider sends is a sequence of frames: fillers (blank  *)
(* lines, comments, [DONE]), content, errors.  Time is kept as countdowns: *)
(* 0 for a timer that has fired, Off for one that does not run.            *)
(***************************************************************************)
EXTENDS Integers, Sequences, SequencesExt

CONSTANTS
  Ttft, Quiet,   \* s.ttft and s.idle, in ticks
  MaxFirst,      \* maxFrame, or maxReply for a reply that is no stream, in frames
  MaxFrames      \* bound: frames that a provider sends

ASSUME AttemptAssumption ==
  /\ Ttft \in Nat \ {0} /\ Quiet \in Nat \ {0}
  /\ MaxFirst \in Nat /\ MaxFrames \in Nat

VARIABLES
  stream,        \* pl.Stream: whether the client asked for a stream
  pc,            \* where the goroutine is
  metered,       \* whether the usage option has been injected
  tries,         \* how often the request was sent
  late, quiet,   \* the two timers
  cancelled,     \* who cancelled the context first, "no" for nobody
  left,          \* whether the client has left
  up,            \* the provider's side
  wire,          \* frames the provider has sent and nobody has read
  first,         \* what gate has read
  pending, out,  \* what is being written, what the client has received
  sent, silence  \* history: all frames of this try, and ticks since the last

timers   == <<late, quiet>>
provider == <<up, wire, sent, silence>>
client   == <<left, out>>
vars     == <<stream, pc, metered, tries, timers, cancelled, provider, client, first, pending>>

Off == -1

Frame == {"filler", "content", "error"}

Over == {"lost", "whole", "client", "upstream"}

-----------------------------------------------------------------------------
(* The start, and the world around the goroutine.                          *)

Budget == IF stream THEN Ttft ELSE Quiet

Init ==
  /\ stream \in BOOLEAN /\ metered \in {FALSE, stream}
  /\ pc = "asking" /\ tries = 1
  /\ late = Budget /\ quiet = Off /\ cancelled = "no" /\ left = FALSE
  /\ up = "asked" /\ wire = <<>> /\ sent = <<>> /\ silence = 0
  /\ first = <<>> /\ pending = <<>> /\ out = <<>>

Ends(how) == pc' = how /\ late' = Off /\ quiet' = Off

Send ==
  /\ pc \notin Over /\ up = "open" /\ cancelled = "no" /\ Len(sent) < MaxFrames
  /\ \E f \in Frame : wire' = Append(wire, f) /\ sent' = Append(sent, f)
  /\ silence' = 0
  /\ UNCHANGED <<stream, pc, metered, tries, timers, cancelled, up, client, first, pending>>

\* The response body ends, or the connection breaks.
Hang(how) ==
  /\ pc \notin Over /\ up = "open" /\ up' = how
  /\ UNCHANGED <<stream, pc, metered, tries, timers, cancelled, wire, sent, silence, client, first, pending>>

Cancelled(who) == IF cancelled = "no" THEN who ELSE cancelled

Leave ==
  /\ pc \notin Over /\ ~left /\ left' = TRUE /\ cancelled' = Cancelled("client")
  /\ UNCHANGED <<stream, pc, metered, tries, timers, provider, out, first, pending>>

Less(n) == IF n > 0 THEN n - 1 ELSE n

\* time.AfterFunc: a timer that comes to 0 cancels the context.  A Read that finds a
\* frame returns at once, so relay lets no time pass in Read while one is there: it
\* passes while it waits for the provider, and while the client takes a write.
Tick ==
  /\ pc \notin Over /\ (pc = "reading" => wire = <<>>)
  /\ late' = Less(late) /\ quiet' = Less(quiet)
  /\ cancelled' = IF late = 1 THEN Cancelled("late")
                  ELSE IF quiet = 1 THEN Cancelled("quiet") ELSE cancelled
  /\ silence' = IF silence < Quiet THEN silence + 1 ELSE silence
  /\ UNCHANGED <<stream, pc, metered, tries, up, wire, sent, client, first, pending>>

-----------------------------------------------------------------------------
(* once: up to the first token.                                            *)

\* 200: go on to gate.
Answer ==
  /\ pc = "asking" /\ cancelled = "no" /\ pc' = "gating"
  /\ up' = "open" /\ silence' = 0
  /\ UNCHANGED <<stream, metered, tries, timers, cancelled, wire, sent, client, first, pending>>

AgainUntimed ==
  /\ pc = "asking" /\ cancelled = "no" /\ metered
  /\ metered' = FALSE /\ tries' = tries + 1 /\ late' = Off
  /\ UNCHANGED <<stream, pc, quiet, cancelled, provider, client, first, pending>>

AgainMetered ==
  /\ pc = "asking" /\ cancelled = "no" /\ metered
  /\ tries' = tries + 1 /\ late' = Budget
  /\ UNCHANGED <<stream, pc, metered, quiet, cancelled, provider, client, first, pending>>

\* 400 to a metered request: once more without the option, with a new timer.
Again ==
  /\ pc = "asking" /\ cancelled = "no" /\ metered
  /\ metered' = FALSE /\ tries' = tries + 1 /\ late' = Budget
  /\ UNCHANGED <<stream, pc, quiet, cancelled, provider, client, first, pending>>

\* Any other failure to get a response, a cancelled context among them.
Refused ==
  /\ pc = "asking" /\ Ends("lost")
  /\ UNCHANGED <<stream, metered, tries, cancelled, provider, client, first, pending>>

Read1 == first' = Append(first, Head(wire)) /\ wire' = Tail(wire)

GateAnyFrame ==
  /\ pc = "gating" /\ stream /\ wire # <<>>
  /\ Read1
  /\ pc' = "ready" /\ UNCHANGED timers
  /\ UNCHANGED <<stream, metered, tries, cancelled, up, sent, silence, client, pending>>

\* gate reads a line of a stream, and stops at content.
Gate ==
  /\ pc = "gating" /\ stream /\ wire # <<>>
  /\ Read1
  /\ \/ /\ Len(first') > MaxFirst \/ Head(wire) = "error"
        /\ Ends("lost")
     \/ /\ Len(first') <= MaxFirst /\ Head(wire) = "filler"
        /\ UNCHANGED <<pc, timers>>
     \/ /\ Len(first') <= MaxFirst /\ Head(wire) = "content"
        /\ pc' = "ready" /\ UNCHANGED timers
  /\ UNCHANGED <<stream, metered, tries, cancelled, up, sent, silence, client, pending>>

\* gate reads a reply to its end ...
Collect ==
  /\ pc = "gating" /\ ~stream /\ wire # <<>>
  /\ Read1
  /\ IF Len(first') > MaxFirst THEN Ends("lost") ELSE UNCHANGED <<pc, timers>>
  /\ UNCHANGED <<stream, metered, tries, cancelled, up, sent, silence, client, pending>>

\* ... and looks at the whole of it: JSON, and no error.
Verdict ==
  /\ pc = "gating" /\ ~stream /\ wire = <<>> /\ up = "ended"
  /\ IF "content" \in ToSet(first) /\ "error" \notin ToSet(first)
       THEN pc' = "ready" /\ UNCHANGED timers
       ELSE Ends("lost")
  /\ UNCHANGED <<stream, metered, tries, cancelled, provider, client, first, pending>>

\* The stream ends or breaks before any content, or the context is cancelled.
GateFails ==
  /\ pc = "gating"
  /\ \/ cancelled # "no"
     \/ wire = <<>> /\ up = "broken"
     \/ wire = <<>> /\ up = "ended" /\ stream
  /\ Ends("lost")
  /\ UNCHANGED <<stream, metered, tries, cancelled, provider, client, first, pending>>

CommitAnyway ==
  /\ pc = "ready" /\ late' = Off /\ pc' = "writing" /\ pending' = first
  /\ UNCHANGED <<stream, metered, tries, quiet, cancelled, provider, client, first>>

\* late.Stop() was in time: the key is well, and relay starts to write.
Commit ==
  /\ pc = "ready" /\ late > 0
  /\ late' = Off /\ pc' = "writing" /\ pending' = first
  /\ UNCHANGED <<stream, metered, tries, quiet, cancelled, provider, client, first>>

\* It was not: the first token came as the budget expired.
TooLate ==
  /\ pc = "ready" /\ late = 0 /\ Ends("lost")
  /\ UNCHANGED <<stream, metered, tries, cancelled, provider, client, first, pending>>

-----------------------------------------------------------------------------
(* relay and pump.                                                         *)

\* The client takes what is written.  After the first write the idle timer runs.
Write ==
  /\ pc = "writing" /\ out' = out \o pending /\ pending' = <<>>
  /\ \/ ~stream /\ Ends("whole")
     \/ stream /\ pc' = "reading" /\ late' = late
        /\ quiet' = IF quiet = Off THEN Quiet ELSE quiet
  /\ UNCHANGED <<stream, metered, tries, cancelled, provider, left, first>>

\* errGone.
WriteFails ==
  /\ pc = "writing" /\ left /\ Ends("client")
  /\ UNCHANGED <<stream, metered, tries, cancelled, provider, client, first, pending>>

ReadDropping ==
  /\ pc = "reading" /\ wire # <<>>
  /\ pending' = <<Last(wire)>> /\ wire' = <<>>
  /\ quiet' = Quiet /\ pc' = "writing"
  /\ UNCHANGED <<stream, metered, tries, late, cancelled, up, sent, silence, client, first>>

ReadRest ==
  /\ pc = "reading" /\ wire # <<>>
  /\ pending' = <<Head(wire)>> /\ wire' = Tail(wire)
  /\ quiet' = Quiet /\ pc' = "writing"
  /\ UNCHANGED <<stream, metered, tries, late, cancelled, up, sent, silence, client, first>>

ReadEnd ==
  /\ pc = "reading" /\ wire = <<>> /\ up = "ended" /\ Ends("whole")
  /\ UNCHANGED <<stream, metered, tries, cancelled, provider, client, first, pending>>

\* Whose fault walk takes a failed Read for: it asks the request's own context.
Blamed == IF left THEN "client" ELSE "upstream"

ReadFails ==
  /\ pc = "reading" /\ (cancelled # "no" \/ (wire = <<>> /\ up = "broken"))
  /\ Ends(Blamed)
  /\ UNCHANGED <<stream, metered, tries, cancelled, provider, client, first, pending>>

Provider == Answer \/ Again \/ Refused \/ Send \/ Hang("ended") \/ Hang("broken")

Pump ==
  \/ Gate \/ Collect \/ Verdict \/ GateFails \/ Commit \/ TooLate
  \/ ReadRest \/ ReadEnd \/ ReadFails

Next == Provider \/ Leave \/ Tick \/ Pump \/ Write \/ WriteFails

Spec == Init /\ [][Next]_vars

\* Time passes and the goroutine runs; Do returns when its context is cancelled.
\* Nothing is assumed of the provider, and of the client that it reads or leaves.
FairSpec ==
  /\ Spec
  /\ WF_vars(Tick) /\ WF_vars(Pump) /\ WF_vars(cancelled # "no" /\ Refused)
  /\ WF_vars(Write \/ WriteFails)

-----------------------------------------------------------------------------
(* Properties.                                                             *)

\* The types of the attempt's state.
TypeOK ==
  /\ pc \in {"asking", "gating", "ready", "writing", "reading"} \cup Over
  /\ stream \in BOOLEAN /\ metered \in BOOLEAN /\ tries \in 1..2
  /\ late \in Off..Budget /\ quiet \in Off..Quiet
  /\ cancelled \in {"no", "late", "quiet", "client"} /\ left \in BOOLEAN
  /\ up \in {"asked", "open", "ended", "broken"}
  /\ {wire, first, pending, out, sent} \subseteq Seq(Frame)
  /\ Len(first) <= MaxFirst + 1 /\ silence \in 0..Quiet

\* An attempt is lost or relayed, not both: once it has committed the first-token
\* timer does not cut it off ("Stop the timer before returning so it cannot cancel
\* a committed attempt", proxy.go:277).
CommittedIsSafe == pc \in {"writing", "reading", "whole", "upstream"} => cancelled # "late"

\* The client sees nothing of a stream before there is content in it, and never an
\* error in its place: a provider that fails inside a 200 can be failed over
\* ("Wait for content instead of status", gate.go:21).
ContentFirst ==
  out # <<>> /\ stream =>
    \E i \in DOMAIN out : out[i] = "content" /\ \A j \in 1..(i - 1) : out[j] = "filler"

\* The client receives what the provider has sent, in order and without a gap, and
\* all of it when the relay ends whole ("Write the gated bytes before the rest so
\* the first token stays in order", relay.go:98).
InOrder ==
  /\ pc \in {"writing", "reading"} \cup Over => IsPrefix(out \o pending, sent)
  /\ pc = "whole" => out = sent

\* A key is benched for a broken relay only if its provider broke it or had fallen
\* silent ("Separate client write failures so upstream keys are not benched",
\* relay.go:20; "it measures idle gaps", relay.go:109).
BenchedForSilence == pc = "upstream" => up = "broken" \/ silence >= Quiet

\* What dispatch is promised of an attempt, and that it ends: the timers see to it
\* whatever the provider does (proxy.go:222-284, relay.go:88-139).
Promise == INSTANCE Exchange WITH
  stage <- IF pc \in {"asking", "gating", "ready"}
             THEN (IF tries = 1 THEN "attempt" ELSE "again")
           ELSE IF pc \in {"writing", "reading"} THEN "relay" ELSE pc,
  shown <- out # <<>>
KeepsPromise == Promise!Spec

=============================================================================
