-------------------------------- MODULE Body --------------------------------
(***************************************************************************)
(* The body of a request (internal/omny/body.go): what the gateway reads   *)
(* of it, and what it sends to a provider in its place.  A body is the     *)
(* sequence of the fields of a JSON object; names matter up to case to the *)
(* decoder and exactly to the splicer, and values are opaque.              *)
(***************************************************************************)
EXTENDS Integers, SequencesExt

CONSTANTS
  Value,     \* values of fields; those of "model" are names of models
  Counted    \* the stream options that ask for usage

FieldName == {"model", "Model", "stream", "stream_options", "Stream_Options", "messages"}

Field == [name : FieldName, val : Value]

\* The decoder matches the names of fields without regard to case.
Fold(n) == CASE n = "Model" -> "model" [] n = "Stream_Options" -> "stream_options" [] OTHER -> n

-----------------------------------------------------------------------------
(* What is read.                                                           *)

LastOf(b, S) == {b[i].val : i \in {j \in DOMAIN b : j \in S /\ \A m \in S : m <= j}}

\* peek: the last field that fits a name fills it; no field leaves it empty.
Peek(b, n) == LastOf(b, {i \in DOMAIN b : Fold(b[i].name) = n})

Model(b) == CHOOSE v \in Peek(b, "model") : TRUE

\* dispatch goes on with a body that names a model.
Named(b) == Peek(b, "model") # {}

Stream(b) == Peek(b, "stream") = {TRUE}

\* locate: the first field with exactly this name, 0 if there is none.
Locate(b) ==
  LET at == {i \in DOMAIN b : b[i].name = "model"}
  IN IF at = {} THEN 0 ELSE CHOOSE i \in at : \A j \in at : i <= j

\* A JSON object as a map: of fields with one name the last.
AsMap(b) ==
  [n \in {b[i].name : i \in DOMAIN b} |-> CHOOSE v \in LastOf(b, {i \in DOMAIN b : b[i].name = n}) : TRUE]

-----------------------------------------------------------------------------
(* What is sent.                                                           *)

Inject == [name |-> "stream_options", val |-> Counted]

\* The names that swap sets, and those it leaves as they are.
Swap(b, model, meter) ==
  LET m    == AsMap(b)
      set  == {"model"} \cup IF meter THEN {"stream_options"} \ DOMAIN m ELSE {}
      new  == [n \in set |-> IF n = "model" THEN model ELSE Counted]
      all  == DOMAIN m \cup set
  IN SetToSeq({[name |-> n, val |-> IF n \in set THEN new[n] ELSE m[n]] : n \in all})

AddAlways(b, meter) == meter
Add(b, meter) == meter /\ Peek(b, "stream_options") = {}

Send(b, model, meter) ==
  LET add == Add(b, meter)
      at  == Locate(b)
  IN IF model = Model(b) /\ ~add THEN b
     ELSE IF at = 0 THEN Swap(b, model, meter)
     ELSE [b EXCEPT ![at].val = model] \o (IF add THEN <<Inject>> ELSE <<>>)

-----------------------------------------------------------------------------
(* What it should come to.                                                 *)

\* A body in which no name repeats up to case, and the options are spelled as documented.
Plain(b) ==
  /\ \A i, j \in DOMAIN b : Fold(b[i].name) = Fold(b[j].name) => i = j
  /\ \A i \in DOMAIN b : b[i].name # "Stream_Options"

Others(b) == {b[i] : i \in {j \in DOMAIN b : Fold(b[j].name) \notin {"model", "stream_options"}}}

\* The model a provider finds in a body: that of the exact name, or of another spelling.
Found(b) ==
  LET m == AsMap(b) IN IF "model" \in DOMAIN m THEN m["model"] ELSE m["Model"]

\* Of a plain body the provider gets every other field as it was, the target's model, and
\* the options of the caller or, metered and without any, those that ask for usage.
Faithful(b, model, meter) ==
  LET s == Send(b, model, meter)
  IN /\ Others(s) = Others(b)
     /\ Found(s) = model
     /\ Peek(s, "stream_options") = IF meter /\ Peek(b, "stream_options") = {} THEN {Counted}
                                    ELSE Peek(b, "stream_options")
=============================================================================
