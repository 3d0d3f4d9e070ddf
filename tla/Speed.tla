-------------------------------- MODULE Speed --------------------------------
(***************************************************************************)
(* Measured latency (internal/omny/speed.go): a moving average for each    *)
(* key, the average of a provider, and the order of targets by tiers of    *)
(* it.  Times are whole units; 0 is a key that was never measured.         *)
(***************************************************************************)
EXTENDS Integers, Sequences, FiniteSets, FiniteSetsExt

CONSTANTS
  Grain,     \* the grain of a tier
  Slack      \* how many times the average a first token may take

ASSUME SpeedAssumption == Grain \in Nat \ {0} /\ Slack \in Nat \ {0}

Lesser(x, y) == IF x <= y THEN x ELSE y
Greater(x, y) == IF x >= y THEN x ELSE y

-----------------------------------------------------------------------------
(* One key.                                                                *)

Measure(old, d) == IF d <= 0 THEN old ELSE IF old = 0 THEN d ELSE (3 * d + 7 * old) \div 10

\* tighten: never below the floor by measurement, never above what is configured.
Tighten(ttft, want, floor) == IF ttft = 0 THEN want ELSE Lesser(want, Greater(floor, Slack * ttft))

-----------------------------------------------------------------------------
(* One provider, whose free keys are ks, each with its average.            *)

Total(f, S) == MapThenSumSet(LAMBDA x : f[x], S)

Speed(ttft, ks) ==
  LET seen == {k \in ks : ttft[k] > 0}
  IN IF seen = {} THEN 0 ELSE Total(ttft, seen) \div Cardinality(seen)

\* bits.Len64: as many bits as there are powers of two up to n.
Bits(n) == Cardinality({b \in 0..n - 1 : 2^b <= n})

\* tier: the bits that the number of grains takes; the first grain is whole.
Tier(d) == IF d <= Grain THEN 0 ELSE Bits(d \div Grain)

-----------------------------------------------------------------------------
(* The order of targets ts whose providers take speed[i]: those measured   *)
(* are sorted by tier among the places they have, the others keep theirs.  *)

BeforeByTime(speed, i, j) == speed[i] < speed[j] \/ (speed[i] = speed[j] /\ i < j)

Before(speed, i, j) ==
  \/ Tier(speed[i]) < Tier(speed[j])
  \/ Tier(speed[i]) = Tier(speed[j]) /\ i < j

Order(ts, speed) ==
  LET at       == {i \in DOMAIN ts : speed[i] > 0}
      Place(i) == Cardinality({j \in at : j < i})
      Rank(i)  == Cardinality({j \in at : Before(speed, j, i)})
  IN [i \in DOMAIN ts |->
        IF i \in at THEN ts[CHOOSE j \in at : Rank(j) = Place(i)] ELSE ts[i]]
=============================================================================
