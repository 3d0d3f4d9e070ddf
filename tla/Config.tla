------------------------------- MODULE Config -------------------------------
(***************************************************************************)
(* What the config file may hold, what the gateway accepts of it           *)
(* (internal/omny/config.go) and what omny add and omny rm make of it      *)
(* (internal/edit).  There is no state here: Operate has the file and the  *)
(* processes.                                                              *)
(*                                                                         *)
(* The content of a file is a record: provs maps the name of a provider to *)
(* its block, Blank when there is nothing in it; aliases maps an alias to  *)
(* a sequence of targets, each a provider and a model; section says        *)
(* whether there is an aliases section at all, and flow, of a block or of  *)
(* that section, whether it is written on one line.  sound stands for what *)
(* check asks of single values: a token, a listen address that is not for  *)
(* everybody, a state path, no empty key and no negative limit.            *)
(* An edit works on the text by line; what is modelled is what the text    *)
(* says afterwards.                                                        *)
(***************************************************************************)
EXTENDS Integers, Sequences, FiniteSets, Functions

CONSTANTS
  Refused,         \* the error of a tweak
  Empty, Garbled,  \* a file with nothing in it, one that does not parse
  Blank,           \* a provider block with nothing in it, a nil *Provider
  NoUrl,           \* no url
  NoModel,         \* no -model flag
  ProvOf           \* what a model name has before its first slash

Put(f, x, v) == [y \in DOMAIN f \cup {x} |-> IF y = x THEN v ELSE f[y]]

-----------------------------------------------------------------------------
(* Load.                                                                   *)

Armed(at) == at.keyless \/ DOMAIN at.keys # {}

NoKeyTwiceInProvider(c) ==
  \A p \in DOMAIN c.provs : \A i, j \in DOMAIN c.provs[p].keys :
    c.provs[p].keys[i] = c.provs[p].keys[j] => i = j

\* One secret in one pool slot.
NoKeyTwice(c) ==
  \A p, q \in DOMAIN c.provs : \A i \in DOMAIN c.provs[p].keys, j \in DOMAIN c.provs[q].keys :
    c.provs[p].keys[i] = c.provs[q].keys[j] => p = q /\ i = j

Check(c) ==
  /\ c.sound
  /\ \A p \in DOMAIN c.provs :
       /\ c.provs[p].url # NoUrl
       /\ c.provs[p].keyless => DOMAIN c.provs[p].keys = {}
  /\ NoKeyTwice(c)
  /\ \E p \in DOMAIN c.provs : Armed(c.provs[p])
  /\ \A a \in DOMAIN c.aliases :
       /\ DOMAIN c.aliases[a] # {}
       /\ \A i \in DOMAIN c.aliases[a] : c.aliases[a][i].prov \in DOMAIN c.provs
  /\ c.default \in DOMAIN c.provs
  /\ Range(c.fallback) \subseteq DOMAIN c.aliases

\* An empty file parses, and check refuses it.
Unread == {Empty, Garbled}

\* check goes through every provider, and reads through the pointer of each.
Panics(c) == c \notin Unread /\ \E p \in DOMAIN c.provs : c.provs[p] = Blank

Loads(c) == c \notin Unread /\ ~Panics(c) /\ Check(c)

-----------------------------------------------------------------------------
(* What the rest of the gateway takes from a config.                       *)

\* The pool slots of a provider: one of its own when it is keyless, for an empty
\* secret would be that of every keyless provider.
Slots(c, p) ==
  IF c.provs[p].keyless THEN [i \in {1} |-> <<"keyless", p>>]
  ELSE [i \in DOMAIN c.provs[p].keys |-> <<"key", c.provs[p].keys[i]>>]

\* The providers that a model name is sent to.
Targets(c, n) ==
  IF n \in DOMAIN c.aliases THEN {c.aliases[n][i].prov : i \in DOMAIN c.aliases[n]}
  ELSE IF ProvOf[n] \in DOMAIN c.provs THEN {ProvOf[n]}
  ELSE {c.default}

-----------------------------------------------------------------------------
(* The tweaks.                                                             *)

\* splice edits blocks only, and finds no place in an empty one.
Editable(at) == at # Blank /\ ~at.flow

New(url) == [url |-> url, keyless |-> FALSE, keys |-> <<>>, flow |-> FALSE]

Birth(c, p, url) ==
  IF p \notin DOMAIN c.provs THEN [c EXCEPT !.provs = Put(c.provs, p, New(url))]
  ELSE IF c.provs[p] # Blank /\ c.provs[p].url \notin {NoUrl, url} THEN Refused
  ELSE c

Bare(c, p) ==
  IF p \in DOMAIN c.provs /\ Editable(c.provs[p])
    THEN [c EXCEPT !.provs[p].keyless = TRUE]
    ELSE Refused

WithKeys(c, p, ks) ==
  IF Editable(c.provs[p]) THEN [c EXCEPT !.provs[p].keys = ks] ELSE Refused

KeysIn(c, p) == IF c.provs[p] = Blank THEN <<>> ELSE c.provs[p].keys

AddKey(c, p, k) ==
  IF p \in DOMAIN c.provs THEN WithKeys(c, p, Append(KeysIn(c, p), k)) ELSE Refused

\* some are the keys that the argument of rm matches, by value or by prefix.
DropKey(c, p, some) ==
  LET ks == KeysIn(c, p)
  IN  IF p \in DOMAIN c.provs /\ Cardinality({i \in DOMAIN ks : ks[i] \in some}) = 1
        THEN WithKeys(c, p, SelectSeq(ks, LAMBDA k : k \notin some))
        ELSE Refused

Pin(c, p, model) ==
  LET entry == [prov |-> p, model |-> model]
      have  == IF p \in DOMAIN c.aliases THEN c.aliases[p] ELSE <<>>
  IN  IF ~c.section THEN [c EXCEPT !.section = TRUE, !.aliases = Put(c.aliases, p, <<entry>>)]
      ELSE IF entry \in Range(have) THEN c
      ELSE IF c.flow \/ DOMAIN c.aliases = {} THEN Refused
      ELSE [c EXCEPT !.aliases = Put(c.aliases, p, Append(have, entry))]

\* A command: what omny add and omny rm do to a content, tweak by tweak.
Born(c, m) ==
  IF c \in Unread THEN Refused
  ELSE IF m.url = NoUrl THEN c
  ELSE Birth(c, m.prov, m.url)

Keyed(c, m) ==
  IF c = Refused THEN Refused
  ELSE IF m.op = "rm" THEN DropKey(c, m.prov, m.some)
  ELSE IF m.op = "keyless" THEN Bare(c, m.prov)
  ELSE AddKey(c, m.prov, m.key)

Pinned(c, m) == IF c = Refused \/ m.model = NoModel THEN c ELSE Pin(c, m.prov, m.model)

Edited(c, m) == Pinned(Keyed(Born(c, m), m), m)

=============================================================================
