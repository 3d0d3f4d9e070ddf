------------------------------- MODULE MCPool -------------------------------
(***************************************************************************)
(* Instances of Pool for TLC.  Two Key objects stand for each fingerprint, *)
(* so a key can be removed, added back and held in both lives at once.     *)
(***************************************************************************)
EXTENDS Pool, TLC

CONSTANTS k1, k2, h, p1, p2

\* Key objects: a fingerprint and which of its lives this is.
MCCell == Id \X {1, 2}
MCIdOf == [k \in MCCell |-> k[1]]

\* For the reloads: k1 has two lives, k2 and the keyless h one each.
ReloadCell == {<<k1, 1>>, <<k1, 2>>, <<k2, 1>>, <<h, 1>>}
ReloadIdOf == [k \in ReloadCell |-> k[1]]

MCLadder == <<1, 2>>
MCLadder1 == <<1>>

Slots(a, b) == (p1 :> a) @@ (p2 :> b)
Limit(a, b) == (p1 :> a) @@ (p2 :> b)

\* One config, two keys behind one provider: the interleavings of callers.
Steady == {[slots |-> Slots(<<k1, k2>>, <<>>), rpd |-> Limit(2, 0), rpm |-> Limit(1, 0)]}

\* Reloads that shrink a slice, drop a key and bring it back, move a key to the
\* other provider, add a keyless provider and change the limits.
Reloads == {
  [slots |-> Slots(<<k1, k2>>, <<>>), rpd |-> Limit(2, 0), rpm |-> Limit(0, 0)],
  [slots |-> Slots(<<k1>>, <<h>>),    rpd |-> Limit(1, 1), rpm |-> Limit(0, 0)],
  [slots |-> Slots(<<k2>>, <<k1>>),   rpd |-> Limit(1, 0), rpm |-> Limit(0, 1)] }

\* The operator removes the only key, and adds it back.
Toggle == {
  [slots |-> Slots(<<k1>>, <<>>), rpd |-> Limit(1, 1), rpm |-> Limit(0, 0)],
  [slots |-> Slots(<<>>, <<k2>>), rpd |-> Limit(1, 1), rpm |-> Limit(0, 0)] }

Symmetry == Permutations(Caller)

=============================================================================
