--------------------------- MODULE AttemptProofs ---------------------------
(***************************************************************************)
(* What TLAPS proves of Attempt: its four invariants, and that each of its *)
(* steps is a step of Exchange or none.  Both rest on one inductive        *)
(* invariant, Inv, whose heart is where the frames are: what the provider  *)
(* has sent is what the gate or the client has, what is being written, and *)
(* what nobody has read yet.                                               *)
(***************************************************************************)
EXTENDS Attempt, SequenceTheorems, TLAPS

-----------------------------------------------------------------------------
(* The inductive invariant.                                                *)

Before    == {"asking", "gating", "ready"}
Relaying  == {"writing", "reading"}

\* Up to the commit the client has nothing and the frames read are in `first`;
\* from then on they are in `out` and `pending`.
Flow ==
  /\ pc \in Before \cup {"lost"} => out = <<>> /\ pending = <<>> /\ sent = first \o wire
  /\ pc \notin Before \cup {"lost"} => sent = (out \o pending) \o wire
  /\ pc = "whole" => pending = <<>> /\ wire = <<>>
  /\ pc = "reading" => pending = <<>>
  /\ pc = "writing" => pending # <<>>

\* A reply that is no stream is gated to its end, and written at once.
Collected ==
  ~stream =>
    /\ pc # "reading"
    /\ pc \in {"ready", "writing"} => wire = <<>> /\ up # "open"
    /\ pc \in Before \cup {"writing"} => out = <<>>

\* Fillers up to the first content frame.
Leads(s) == \E i \in DOMAIN s : s[i] = "content" /\ \A j \in 1..(i - 1) : s[j] = "filler"

\* The gate of a stream lets through fillers and stops at content; what it has
\* read then goes to the client before anything else.
Gated ==
  /\ pc \in Before => Len(first) <= MaxFirst
  /\ pc = "asking" => first = <<>> /\ up = "asked"
  /\ up = "asked" => pc \in {"asking", "lost"}
  /\ stream /\ pc = "gating" => \A i \in DOMAIN first : first[i] = "filler"
  /\ stream /\ pc = "ready" => Leads(first)
  /\ pc = "ready" => first # <<>>
  /\ stream /\ pc \notin Before \cup {"lost"} => Leads(out) \/ (out = <<>> /\ Leads(pending))

\* The first-token timer runs up to the commit, and a context it has cancelled
\* shows in its being at 0.
Timed ==
  /\ pc \in Before => late # Off /\ (cancelled = "late" => late = 0)
  /\ pc \in Relaying => late = Off /\ cancelled # "late"
  /\ pc \in {"whole", "upstream"} => cancelled # "late"
  /\ metered => tries = 1

Inv == TypeOK /\ Flow /\ Collected /\ Gated /\ Timed

-----------------------------------------------------------------------------
(* Sequences.                                                              *)

LEMMA ReadKeepsTheWhole ==
  ASSUME NEW S, NEW s \in Seq(S), NEW w \in Seq(S), w # <<>>
  PROVE  /\ Head(w) \in S /\ Tail(w) \in Seq(S)
         /\ Append(s, Head(w)) \o Tail(w) = s \o w
         /\ (s \o <<Head(w)>>) \o Tail(w) = s \o w
<1>1. Head(w) \in S /\ Tail(w) \in Seq(S)
  BY HeadTailProperties
<1>2. w = <<Head(w)>> \o Tail(w)
  <2>1. <<Head(w)>> \in Seq(S) /\ Len(<<Head(w)>>) = 1 /\ <<Head(w)>>[1] = w[1]
    BY <1>1
  <2>2. Len(<<Head(w)>> \o Tail(w)) = Len(w)
    BY <1>1, <2>1, ConcatProperties, HeadTailProperties, LenProperties
  <2>3. <<Head(w)>> \o Tail(w) \in Seq(S)
    BY <1>1, <2>1, ConcatProperties
  <2>4. ASSUME NEW i \in 1..Len(w)
        PROVE  (<<Head(w)>> \o Tail(w))[i] = w[i]
    BY <1>1, <2>1, ConcatProperties, HeadTailProperties, LenProperties
  <2> QED
    BY <2>2, <2>3, <2>4, SeqEqual
<1>3. Append(s, Head(w)) = s \o <<Head(w)>>
  BY <1>1, AppendIsConcat
<1>4. (s \o <<Head(w)>>) \o Tail(w) = s \o (<<Head(w)>> \o Tail(w))
  BY <1>1, ConcatAssociative
<1> QED
  BY <1>1, <1>2, <1>3, <1>4

LEMMA SendExtends ==
  \A s, w \in Seq(Frame), f \in Frame : Append(s \o w, f) = s \o Append(w, f)
<1> SUFFICES ASSUME NEW s \in Seq(Frame), NEW w \in Seq(Frame), NEW f \in Frame
             PROVE  Append(s \o w, f) = s \o Append(w, f)
  OBVIOUS
<1>1. Append(w, f) = w \o <<f>> /\ Append(s \o w, f) = (s \o w) \o <<f>>
  BY AppendIsConcat, ConcatProperties
<1>2. <<f>> \in Seq(Frame)
  OBVIOUS
<1> QED
  BY <1>1, <1>2, ConcatAssociative

LEMMA ConcatHasPrefix ==
  ASSUME NEW S, NEW s \in Seq(S), NEW t \in Seq(S)
  PROVE  IsPrefix(s, s \o t)
<1>1. s \o t \in Seq(S) /\ Len(s \o t) = Len(s) + Len(t) /\ Len(s) \in Nat /\ Len(t) \in Nat
  BY ConcatProperties, LenProperties
<1>2. SubSeq(s, 1, Len(s)) = SubSeq(s \o t, 1, Len(s))
  <2>1. CASE Len(s) = 0
    BY <2>1, SubSeqEmpty
  <2>2. CASE Len(s) # 0
    <3>1. 1 \in 1..Len(s) /\ Len(s) \in 1..Len(s)
      BY <1>1, <2>2
    <3> QED
      BY <3>1, SubSeqOfConcat1
  <2> QED
    BY <2>1, <2>2
<1> QED
  BY <1>1, <1>2 DEF IsPrefix

\* What leads a stream still leads it when more is appended.
LEMMA LeadsOn ==
  ASSUME NEW s \in Seq(Frame), NEW t \in Seq(Frame), Leads(s)
  PROVE  Leads(s \o t)
<1>1. PICK i \in DOMAIN s : s[i] = "content" /\ \A j \in 1..(i - 1) : s[j] = "filler"
  BY DEF Leads
<1>2. /\ DOMAIN s = 1..Len(s) /\ Len(s) \in Nat /\ Len(t) \in Nat
      /\ s \o t \in Seq(Frame) /\ Len(s \o t) = Len(s) + Len(t)
      /\ \A j \in 1..Len(s) : (s \o t)[j] = s[j]
  BY ConcatProperties, LenProperties
<1>3. i \in DOMAIN (s \o t)
  BY <1>1, <1>2, LenProperties
<1> QED
  BY <1>1, <1>2, <1>3 DEF Leads

-----------------------------------------------------------------------------
(* Inv is inductive.                                                       *)

LEMMA InitInv == Init => Inv
<1> SUFFICES ASSUME Init PROVE Inv
  OBVIOUS
<1>1. <<>> \in Seq(Frame) /\ Len(<<>>) = 0 /\ <<>> \o <<>> = <<>>
  OBVIOUS
<1>2. Budget \in Nat \ {0} /\ Off = -1
  BY AttemptAssumption DEF Budget, Init, Off
<1>3. TypeOK
  <2>1. stream \in BOOLEAN /\ metered \in BOOLEAN
    BY Zenon DEF Init
  <2>2. late \in Off..Budget /\ quiet \in Off..Quiet /\ tries \in 1..2 /\ silence \in 0..Quiet
    BY <1>2, AttemptAssumption DEF Init
  <2>3. {wire, first, pending, out, sent} \subseteq Seq(Frame) /\ Len(first) <= MaxFirst + 1
    BY <1>1, AttemptAssumption DEF Init
  <2> QED
    BY <2>1, <2>2, <2>3 DEF Init, TypeOK
<1>4. Flow /\ Collected
  BY <1>1 DEF Init, Flow, Collected, Before
<1>5. Gated /\ Timed
  BY <1>1, <1>2, AttemptAssumption DEF Init, Gated, Timed, Before, Relaying
<1> QED
  BY <1>3, <1>4, <1>5 DEF Inv

\* The timers, the cancellation and the second try.
LEMMA TimedStep ==
  ASSUME Inv, [Next]_vars
  PROVE  Timed'
<1> USE DEF Inv, TypeOK, Timed, Before, Relaying, Over
<1>1. Budget \in Nat \ {0} /\ Off = -1
  BY AttemptAssumption DEF Budget, Off
<1>2. CASE Provider \/ Leave
  BY <1>1, <1>2 DEF Provider, Answer, Again, Refused, Send, Hang, Leave, Ends, Cancelled, timers, provider, client
<1>3. CASE Tick
  BY <1>1, <1>3 DEF Tick, Less, Cancelled
<1>4. CASE Gate \/ Collect \/ Verdict \/ GateFails
  BY <1>1, <1>4 DEF Gate, Collect, Verdict, GateFails, Ends, timers
<1>5. CASE Commit \/ TooLate
  BY <1>1, <1>5 DEF Commit, TooLate, Ends
<1>6. CASE ReadRest \/ ReadEnd \/ ReadFails
  BY <1>1, <1>6 DEF ReadRest, ReadEnd, ReadFails, Ends, Blamed
<1>7. CASE Write \/ WriteFails
  BY <1>1, <1>7 DEF Write, WriteFails, Ends
<1>8. CASE UNCHANGED vars
  BY <1>8 DEF vars, timers
<1> QED
  BY <1>2, <1>3, <1>4, <1>5, <1>6, <1>7, <1>8 DEF Next, Pump

\* A reply that is no stream.
LEMMA CollectedStep ==
  ASSUME Inv, [Next]_vars
  PROVE  Collected'
<1> USE DEF Inv, Collected, Before, Over
<1>1. CASE Provider \/ Leave \/ Tick
  BY <1>1 DEF Provider, Answer, Again, Refused, Send, Hang, Leave, Tick, Ends, timers, provider, client, Gated
<1>2. CASE Gate \/ Collect \/ Verdict \/ GateFails
  BY <1>2 DEF Gate, Collect, Verdict, GateFails, Ends, timers, provider, client
<1>3. CASE Commit \/ TooLate
  BY <1>3 DEF Commit, TooLate, Ends, provider, client
<1>4. CASE ReadRest \/ ReadEnd \/ ReadFails
  BY <1>4 DEF ReadRest, ReadEnd, ReadFails, Ends, Blamed
<1>5. CASE Write \/ WriteFails
  BY <1>5 DEF Write, WriteFails, Ends, provider, client
<1>6. CASE UNCHANGED vars
  BY <1>6 DEF vars, timers, provider, client
<1> QED
  BY <1>1, <1>2, <1>3, <1>4, <1>5, <1>6 DEF Next, Pump

\* What one step reads keeps the sequences what they are.
LEMMA TypeStep ==
  ASSUME Inv, [Next]_vars
  PROVE  TypeOK'
<1> USE DEF Inv, TypeOK, Over
<1>1. Budget \in Nat \ {0} /\ Off = -1 /\ MaxFirst \in Nat /\ Quiet \in Nat \ {0}
  BY AttemptAssumption DEF Budget, Off
<1>2. stream' = stream /\ Budget' = Budget
  BY DEF Next, Provider, Answer, Again, Refused, Send, Hang, Leave, Tick, Pump, Gate, Collect, Verdict,
         GateFails, Commit, TooLate, ReadRest, ReadEnd, ReadFails, Write, WriteFails, vars, Budget
<1>3. CASE Answer \/ Refused \/ Hang("ended") \/ Hang("broken")
  BY <1>1, <1>2, <1>3 DEF Answer, Refused, Hang, Ends, Cancelled, timers, provider, client
<1>14. CASE Leave
  <2>1. left' \in BOOLEAN
    BY <1>14, Zenon DEF Leave
  <2> QED
    BY <1>1, <1>2, <1>14, <2>1 DEF Leave, Cancelled, timers, provider
<1>13. CASE Again
  <2>1. tries' \in 1..2
    BY <1>13 DEF Again, Timed
  <2>2. metered' \in BOOLEAN
    BY <1>13, Zenon DEF Again
  <2> QED
    BY <1>1, <1>2, <1>13, <2>1, <2>2 DEF Again, provider, client
<1>4. CASE Send
  BY <1>1, <1>2, <1>4 DEF Send, Frame, timers, client
<1>5. CASE Tick
  BY <1>1, <1>2, <1>5 DEF Tick, Less, Cancelled, client
<1>6. CASE Gate \/ Collect
  <2>1. Head(wire) \in Frame /\ Tail(wire) \in Seq(Frame) /\ Append(first, Head(wire)) \in Seq(Frame)
        /\ Len(Append(first, Head(wire))) = Len(first) + 1 /\ Len(first) <= MaxFirst
    BY <1>6, HeadTailProperties, AppendProperties DEF Gate, Collect, Gated, Before
  <2>2. first' = Append(first, Head(wire)) /\ wire' = Tail(wire)
    BY <1>6 DEF Gate, Collect, Read1
  <2>3. wire' \in Seq(Frame) /\ first' \in Seq(Frame) /\ Len(first') <= MaxFirst + 1
    BY <2>1, <2>2, <1>1
  <2>4. /\ pc' \in {"gating", "lost", "ready"} /\ late' \in Off..Budget' /\ quiet' \in Off..Quiet
        /\ UNCHANGED <<stream, metered, tries, cancelled, up, sent, silence, left, out, pending>>
    BY <1>1, <1>2, <1>6 DEF Gate, Collect, Ends, timers, client
  <2> QED
    BY <2>3, <2>4
<1>7. CASE Verdict \/ GateFails \/ TooLate
  BY <1>1, <1>2, <1>7 DEF Verdict, GateFails, TooLate, Ends, timers, provider, client
<1>8. CASE Commit
  BY <1>1, <1>2, <1>8 DEF Commit, provider, client
<1>9. CASE ReadRest
  <2>1. Head(wire) \in Frame /\ Tail(wire) \in Seq(Frame)
    BY <1>9, HeadTailProperties DEF ReadRest
  <2>2. wire' \in Seq(Frame) /\ pending' \in Seq(Frame)
    BY <1>9, <2>1 DEF ReadRest
  <2> QED
    BY <1>1, <1>2, <1>9, <2>2 DEF ReadRest, client
<1>10. CASE ReadEnd \/ ReadFails \/ WriteFails
  BY <1>1, <1>2, <1>10 DEF ReadEnd, ReadFails, WriteFails, Blamed, Ends, provider, client
<1>11. CASE Write
  <2>1. out' \in Seq(Frame) /\ pending' \in Seq(Frame)
    BY <1>11, ConcatProperties DEF Write
  <2> QED
    BY <1>1, <1>2, <1>11, <2>1 DEF Write, Ends, provider
<1>12. CASE UNCHANGED vars
  BY <1>1, <1>2, <1>12 DEF vars, timers, provider, client
<1> QED
  BY <1>3, <1>4, <1>5, <1>6, <1>7, <1>8, <1>9, <1>10, <1>11, <1>12, <1>13, <1>14 DEF Next, Pump, Provider

\* Where the frames are.
LEMMA FlowStep ==
  ASSUME Inv, [Next]_vars
  PROVE  Flow'
<1> USE DEF Inv, Flow, Before, Over
<1>1. /\ wire \in Seq(Frame) /\ first \in Seq(Frame) /\ pending \in Seq(Frame) /\ out \in Seq(Frame)
      /\ out \o pending \in Seq(Frame) /\ out \o <<>> = out /\ <<>> \o pending = pending /\ <<>> \in Seq(Frame)
  BY ConcatProperties, ConcatEmptySeq DEF TypeOK
<1>2. CASE Answer \/ Again \/ Refused \/ Hang("ended") \/ Hang("broken") \/ Leave \/ Tick
  BY <1>2 DEF Answer, Again, Refused, Hang, Leave, Tick, Ends, provider, client
<1>3. CASE Send
  <2>1. PICK f \in Frame : wire' = Append(wire, f) /\ sent' = Append(sent, f)
    BY <1>3 DEF Send
  <2>2. Append(first \o wire, f) = first \o Append(wire, f)
    BY <1>1, SendExtends
  <2>3. Append((out \o pending) \o wire, f) = (out \o pending) \o Append(wire, f)
    <3>1. PICK s \in Seq(Frame) : s = out \o pending
      BY <1>1
    <3>2. Append(s \o wire, f) = s \o Append(wire, f)
      BY <1>1, SendExtends
    <3> QED
      BY <3>1, <3>2
  <2> QED
    BY <1>3, <2>1, <2>2, <2>3 DEF Send, client
<1>4. CASE Gate \/ Collect
  <2>1. Append(first, Head(wire)) \o Tail(wire) = first \o wire
    BY <1>1, <1>4, ReadKeepsTheWhole DEF Gate, Collect
  <2> QED
    BY <1>4, <2>1 DEF Gate, Collect, Read1, Ends, client
<1>5. CASE Verdict \/ GateFails \/ TooLate
  BY <1>5 DEF Verdict, GateFails, TooLate, Ends, provider, client
<1>6. CASE Commit
  <2>1. first # <<>> /\ out \o first = first
    BY <1>1, <1>6, ConcatEmptySeq DEF Commit, Gated
  <2> QED
    BY <1>6, <2>1 DEF Commit, provider, client
<1>7. CASE ReadRest
  <2>1. (out \o <<Head(wire)>>) \o Tail(wire) = out \o wire
    BY <1>1, <1>7, ReadKeepsTheWhole DEF ReadRest
  <2>2. <<Head(wire)>> # <<>>
    OBVIOUS
  <2> QED
    BY <1>1, <1>7, <2>1, <2>2 DEF ReadRest, client
<1>8. CASE ReadEnd \/ ReadFails \/ WriteFails
  BY <1>1, <1>8 DEF ReadEnd, ReadFails, WriteFails, Blamed, Ends, provider, client
<1>9. CASE Write
  <2>1. out' \o pending' = out \o pending
    BY <1>1, <1>9, ConcatEmptySeq DEF Write
  <2>2. ~stream => wire = <<>>
    BY <1>9 DEF Write, Collected
  <2> QED
    BY <1>9, <2>1, <2>2 DEF Write, Ends, provider
<1>10. CASE UNCHANGED vars
  BY <1>10 DEF vars, provider, client
<1> QED
  BY <1>2, <1>3, <1>4, <1>5, <1>6, <1>7, <1>8, <1>9, <1>10 DEF Next, Pump, Provider

\* What the gate has let through.
LEMMA GatedStep ==
  ASSUME Inv, [Next]_vars
  PROVE  Gated'
<1> USE DEF Inv, Gated, Before, Over
<1>1. /\ wire \in Seq(Frame) /\ first \in Seq(Frame) /\ pending \in Seq(Frame) /\ out \in Seq(Frame)
      /\ MaxFirst \in Nat /\ pc \in Before \cup Relaying \cup Over
  BY AttemptAssumption DEF TypeOK, Relaying
<1>2. CASE Answer \/ Again \/ Refused \/ Hang("ended") \/ Hang("broken") \/ Leave \/ Tick \/ Send
  BY <1>2 DEF Answer, Again, Refused, Hang, Leave, Tick, Send, Ends, provider, client
<1>3. CASE Gate \/ Collect
  <2>1. /\ Head(wire) \in Frame /\ first' \in Seq(Frame) /\ first' # <<>> /\ Len(first') = Len(first) + 1
        /\ first'[Len(first) + 1] = Head(wire) /\ \A i \in 1..Len(first) : first'[i] = first[i]
    <3>1. PICK f \in Frame : f = Head(wire)
      BY <1>1, <1>3, HeadTailProperties DEF Gate, Collect
    <3>2. first' = Append(first, f)
      BY <1>3, <3>1 DEF Gate, Collect, Read1
    <3> QED
      BY <1>1, <3>1, <3>2, AppendProperties
  <2>2. /\ Len(first) \in Nat /\ DOMAIN first = 1..Len(first) /\ DOMAIN first' = 1..Len(first) + 1
    BY <1>1, <2>1, LenProperties
  <2>3. pc = "gating" /\ pc' \in {"gating", "ready", "lost"} /\ UNCHANGED <<stream, up>>
    BY <1>3 DEF Gate, Collect, Ends
  <2>4. pc' \in Before => Len(first') <= MaxFirst
    BY <1>1, <1>3, <2>1, <2>2 DEF Gate, Collect, Ends
  <2>5. ASSUME stream, pc' = "gating"
        PROVE  \A i \in DOMAIN first' : first'[i] = "filler"
    <3>1. Head(wire) = "filler"
      BY <1>3, <2>5 DEF Gate, Collect, Ends
    <3> QED
      BY <2>1, <2>2, <2>3, <2>5, <3>1
  <2>6. ASSUME pc' = "ready"
        PROVE  stream /\ Leads(first')
    <3>1. stream /\ Head(wire) = "content"
      BY <1>3, <2>3, <2>6 DEF Gate, Collect, Ends
    <3>2. Len(first) + 1 \in DOMAIN first' /\ (Len(first) + 1) - 1 = Len(first)
      BY <2>2
    <3> QED
      BY <2>1, <2>2, <2>3, <3>1, <3>2 DEF Leads
  <2> QED
    BY <2>1, <2>3, <2>4, <2>5, <2>6
<1>4. CASE Verdict
  <2>1. pc' = "ready" => first # <<>>
    BY <1>4 DEF Verdict, Ends, ToSet
  <2> QED
    BY <1>4, <2>1 DEF Verdict, Ends, provider, client
<1>5. CASE GateFails \/ TooLate \/ ReadEnd \/ ReadFails \/ WriteFails
  BY <1>5 DEF GateFails, TooLate, ReadEnd, ReadFails, WriteFails, Ends, Blamed, provider, client
<1>6. CASE Commit
  BY <1>6 DEF Commit, provider, client, Flow
<1>7. CASE ReadRest
  <2>1. pending = <<>>
    BY <1>7 DEF ReadRest, Flow
  <2>2. ~Leads(<<>>)
    BY DEF Leads
  <2> QED
    BY <1>7, <2>1, <2>2 DEF ReadRest, client
<1>8. CASE Write
  <2>1. stream => Leads(out \o pending)
    <3>1. CASE Leads(out)
      BY <1>1, <3>1, LeadsOn
    <3>2. CASE stream /\ ~Leads(out)
      BY <1>1, <1>8, <3>2, ConcatEmptySeq DEF Write
    <3> QED
      BY <3>1, <3>2
  <2>2. UNCHANGED <<stream, up>> /\ pc = "writing" /\ pc' \in {"whole", "reading"} /\ out' = out \o pending
    BY <1>8 DEF Write, Ends, provider
  <2> QED
    BY <2>1, <2>2
<1>9. CASE UNCHANGED vars
  BY <1>9 DEF vars, provider, client
<1> QED
  BY <1>2, <1>3, <1>4, <1>5, <1>6, <1>7, <1>8, <1>9 DEF Next, Pump, Provider

LEMMA SpecInv == Spec => []Inv
<1>1. Inv /\ [Next]_vars => Inv'
  BY TypeStep, FlowStep, CollectedStep, GatedStep, TimedStep DEF Inv
<1> QED
  BY InitInv, <1>1, PTL DEF Spec

-----------------------------------------------------------------------------
(* The invariants.                                                         *)

\* The types of the attempt's state, and that the gate reads one frame past its
\* limit at most (gate.go:44).
THEOREM TypeCorrect == Spec => []TypeOK
<1>1. Inv => TypeOK
  BY DEF Inv
<1> QED
  BY SpecInv, <1>1, PTL

\* The first-token timer never cuts off an attempt that has committed (proxy.go:277),
\* whatever the budgets are and however late the content comes.
THEOREM CommitIsSafe == Spec => []CommittedIsSafe
<1>1. Inv => CommittedIsSafe
  BY DEF Inv, Timed, Relaying, CommittedIsSafe
<1> QED
  BY SpecInv, <1>1, PTL

\* The client of a stream sees content first, and never an error in its place
\* (gate.go:21), for any limit of the gate.
THEOREM ContentComesFirst == Spec => []ContentFirst
<1>1. Inv => ContentFirst
  <2> SUFFICES ASSUME Inv, out # <<>>, stream PROVE Leads(out)
    BY DEF ContentFirst, Leads
  <2> QED
    BY DEF Inv, Gated, Flow
<1> QED
  BY SpecInv, <1>1, PTL

\* The client receives what the provider sends, in order and without a gap, and all
\* of it when the relay ends whole (relay.go:98), however long the stream.
THEOREM RelayedInOrder == Spec => []InOrder
<1>1. Inv => InOrder
  <2> SUFFICES ASSUME Inv PROVE InOrder
    OBVIOUS
  <2> USE DEF Inv, Flow, Over, Before
  <2>1. /\ wire \in Seq(Frame) /\ out \in Seq(Frame) /\ pending \in Seq(Frame) /\ sent \in Seq(Frame)
        /\ <<>> \in Seq(Frame) /\ <<>> \o <<>> = <<>> /\ <<>> \o sent = sent /\ out \o <<>> = out
        /\ out \o pending \in Seq(Frame)
    BY ConcatProperties, ConcatEmptySeq DEF TypeOK
  <2>2. CASE pc = "lost"
    <3>1. IsPrefix(<<>>, sent)
      BY <2>1, ConcatHasPrefix
    <3> QED
      BY <2>1, <2>2, <3>1 DEF InOrder
  <2>3. CASE pc \notin Before \cup {"lost"}
    <3>1. PICK o \in Seq(Frame) : o = out \o pending
      BY <2>1
    <3>2. IsPrefix(o, o \o wire)
      BY <2>1, ConcatHasPrefix
    <3>3. pc = "whole" => out = sent
      BY <2>1, <2>3
    <3> QED
      BY <2>3, <3>1, <3>2, <3>3 DEF InOrder
  <2> QED
    BY <2>2, <2>3 DEF InOrder
<1> QED
  BY SpecInv, <1>1, PTL

-----------------------------------------------------------------------------
(* The refinement.                                                         *)

\* Every step of an attempt is a step that Exchange allows, or none that it sees.
LEMMA StepIsPromised ==
  ASSUME Inv, [Next]_vars
  PROVE  [Promise!Next]_(Promise!vars)
<1> USE DEF Promise!Next, Promise!vars, Over
<1>1. pc \in {"asking", "gating", "ready", "writing", "reading"} \cup Over /\ tries \in 1..2
  BY DEF Inv, TypeOK
<1>2. CASE Answer \/ Send \/ Hang("ended") \/ Hang("broken") \/ Leave \/ Tick
  BY <1>2 DEF Answer, Send, Hang, Leave, Tick, provider, client
<1>3. CASE Again
  <2>1. tries = 1
    BY <1>3 DEF Again, Inv, Timed
  <2> QED
    BY <1>3, <2>1 DEF Again, provider, client, Promise!Again
<1>4. CASE Refused \/ GateFails \/ TooLate
  BY <1>4 DEF Refused, GateFails, TooLate, Ends, provider, client, Promise!Lose
<1>5. CASE Gate \/ Collect \/ Verdict
  BY <1>5 DEF Gate, Collect, Verdict, Ends, provider, client, Promise!Lose
<1>6. CASE Commit
  BY <1>6 DEF Commit, provider, client, Promise!Commit
<1>7. CASE ReadRest
  BY <1>7 DEF ReadRest, client
<1>8. CASE ReadEnd \/ ReadFails \/ WriteFails
  <2>1. pc = "reading" => stream
    BY DEF Inv, Collected
  <2> QED
    BY <1>8, <2>1 DEF ReadEnd, ReadFails, WriteFails, Ends, Blamed, provider, client, Promise!End
<1>9. CASE Write
  <2>1. out' # <<>>
    <3>1. out \in Seq(Frame) /\ pending \in Seq(Frame) /\ pending # <<>> /\ out' = out \o pending
      BY <1>9 DEF Write, Inv, TypeOK, Flow
    <3> QED
      BY <3>1, ConcatEqualIffEmpty
  <2> QED
    BY <1>9, <2>1 DEF Write, Ends, provider, Promise!Show
<1>10. CASE UNCHANGED vars
  BY <1>10 DEF vars, provider, client
<1> QED
  BY <1>2, <1>3, <1>4, <1>5, <1>6, <1>7, <1>8, <1>9, <1>10 DEF Next, Pump, Provider

\* An attempt, with its timers, buffers and cancellations, comes to no more than what
\* dispatch takes it for (proxy.go:222-284): lost with nothing shown, or committed and
\* relayed, asked twice at most, and then over for good.  That it ends is left to the
\* run: KeepsPromise.
THEOREM KeepsItsOrder == Spec => Promise!Safety
<1>1. Init => Promise!Init
  BY Zenon DEF Init, Promise!Init
<1>2. Inv /\ [Next]_vars => [Promise!Next]_(Promise!vars)
  BY StepIsPromised
<1> QED
  BY SpecInv, <1>1, <1>2, PTL DEF Spec, Promise!Safety

=============================================================================
