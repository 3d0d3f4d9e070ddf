----------------------------- MODULE MCOperate -----------------------------
(***************************************************************************)
(* Instances of Operate for TLC: two providers, two keys and an alias.     *)
(***************************************************************************)
EXTENDS Operate, TLC

CONSTANTS a, b, c, fast, named, unknown, k1, k2, u, m1

MCProvOf == (named :> b) @@ (unknown :> fast)

Block(keyless, keys, flow) == [url |-> u, keyless |-> keyless, keys |-> keys, flow |-> flow]

Entry(p) == [prov |-> p, model |-> m1]

File(provs) ==
  [provs |-> provs, aliases |-> fast :> <<Entry(b), Entry(a)>>, section |-> TRUE, flow |-> FALSE,
   default |-> a, fallback |-> <<fast>>, sound |-> TRUE]

\* Two providers, one of which is written on one line.
Good == File((a :> Block(FALSE, <<k1>>, FALSE)) @@ (b :> Block(TRUE, <<>>, TRUE)))

\* The operator has begun to write the second.
Unfinished == File((a :> Block(FALSE, <<k1>>, FALSE)) @@ (b :> Blank))

MCHand == {Good, Unfinished}

Do(op, p, url, k, model) ==
  [op |-> op, prov |-> p, url |-> url, key |-> k, some |-> {k}, model |-> model]

\* A second key; the only key removed; a keyless provider with a model of its own; a
\* provider with the key of another, which is refused.
MCCommand == {
  Do("add", a, NoUrl, k2, NoModel),
  Do("rm", a, NoUrl, k1, NoModel),
  Do("keyless", c, u, k1, m1),
  Do("add", c, u, k1, NoModel) }

=============================================================================
