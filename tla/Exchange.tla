------------------------------ MODULE Exchange ------------------------------
(***************************************************************************)
(* What dispatch is promised of one attempt (attempt in internal/omny/     *)
(* proxy.go and relay in relay.go): it is lost with nothing shown to the   *)
(* client, or it commits and is relayed, and then it is over for good; the *)
(* request goes out a second time at most once; and it ends.               *)
(*                                                                         *)
(* Gateway uses an attempt as these outcomes.  Attempt shows that the      *)
(* timers, buffers and cancellations of the code come to no more.          *)
(***************************************************************************)

VARIABLES
  stream,           \* whether the client asked for a stream
  stage,            \* where the attempt is
  shown             \* whether the client has received anything

vars == <<stream, stage, shown>>

Over == {"lost", "whole", "client", "upstream"}

Init == stream \in BOOLEAN /\ stage = "attempt" /\ shown = FALSE

\* The provider rejects the usage option, and is asked again without it.
Again == stage = "attempt" /\ stage' = "again" /\ UNCHANGED <<stream, shown>>

\* No first token: dispatch may fail over.
Lose == stage \in {"attempt", "again"} /\ stage' = "lost" /\ UNCHANGED <<stream, shown>>

\* There is content, the timer is stopped, and the key is well.
Commit == stage \in {"attempt", "again"} /\ stage' = "relay" /\ UNCHANGED <<stream, shown>>

\* A reply that is no stream is written at once.
Show ==
  /\ stage = "relay" /\ shown' = TRUE
  /\ stage' = IF stream THEN "relay" ELSE "whole"
  /\ UNCHANGED stream

\* The relay ends; only a stream can still break on the provider's side.
End ==
  /\ stage = "relay"
  /\ stage' \in {"client"} \cup (IF stream THEN {"whole", "upstream"} ELSE {})
  /\ UNCHANGED <<stream, shown>>

Next == Again \/ Lose \/ Commit \/ Show \/ End

Safety == Init /\ [][Next]_vars

Spec == Safety /\ <>(stage \in Over)

=============================================================================
