------------------------------ MODULE MCLedger ------------------------------
(* A key of one provider, two of another, and one without keys between them in the route;    *)
(* four ways to write a request; streams whose usage comes in two chunks, lacks its mark, or *)
(* is pushed to the end of the buffer by what came before.                                   *)
EXTENDS Ledger, TLC

CONSTANTS k1, k2, k3, p1, p2, p3, m0, m1, m2, hi, pad

MCValue == {m0, m1, m2, hi, Counted, TRUE}

MCSlots == <<k1, k2, k3>>
MCProvOf == k1 :> p1 @@ k2 :> p2 @@ k3 :> p2

MCRoute == <<[prov |-> p1, model |-> m1], [prov |-> p3, model |-> m2], [prov |-> p2, model |-> m0]>>

F(n, v) == [name |-> n, val |-> v]

MCAsked ==
  {<<F("messages", hi), F("Model", m0)>>,
   <<F("stream", TRUE), F("Model", m0)>>,
   <<F("stream", TRUE), F("model", m0), F("messages", hi)>>,
   <<F("stream_options", hi), F("model", m0), F("stream", TRUE)>>}

small == [in |-> 1, out |-> 2, total |-> 0]

MCObject == {small}

MCUnit == {pad, Mark, small}

MCChunk == {<<pad, Mark>>, <<small>>}

MCAverages == {k1 :> 7 @@ k2 :> 1 @@ k3 :> 7}

Symmetry == Permutations(Caller)
=============================================================================
