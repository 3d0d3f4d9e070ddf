----------------------------- MODULE MCGateway -----------------------------
(***************************************************************************)
(* Instances of Gateway for TLC: two providers with one key each, an alias *)
(* that lists a provider twice, and a fallback that shares a provider with *)
(* it.                                                                     *)
(***************************************************************************)
EXTENDS Gateway, TLC

CONSTANTS k1, k2, p1, p2, a, b, named, unknown

\* One Key object for each fingerprint.
MCCell == Id
MCIdOf == [k \in Id |-> k]

MCLadder == <<1, 2>>
MCLadder1 == <<1>>

\* named is p1/model, unknown names no provider.
MCProvOf == [n \in Name |-> IF n = named THEN p1 ELSE Nobody]

By(x, y) == (p1 :> x) @@ (p2 :> y)

Routing == [providers |-> {p1, p2}, default |-> p2,
            aliases |-> (a :> <<p1, p2, p1>>) @@ (b :> <<p2>>), fallback |-> <<b>>]

Pooled(slots1, slots2, perday, perminute) ==
  [slots |-> By(slots1, slots2), rpd |-> By(perday, 0), rpm |-> By(perminute, 0)]

With(part) == [pool |-> part, providers |-> Routing.providers, default |-> Routing.default,
               aliases |-> Routing.aliases, fallback |-> Routing.fallback]

Fixed == {With(Pooled(<<k1>>, <<k2>>, 1, 0))}

\* The second config swaps the keys, and drops p1 from the alias.
Swapped ==
  Fixed \cup {[With(Pooled(<<k2>>, <<k1>>, 0, 0)) EXCEPT !.aliases = (a :> <<p2>>) @@ (b :> <<p2>>)]}

Symmetry == Permutations(Caller)

=============================================================================
