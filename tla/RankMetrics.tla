----------------------------- MODULE RankMetrics -----------------------------
(***************************************************************************)
(* evals.metrics: recall@k, reciprocal rank and nDCG@k of one ranking r (a *)
(* sequence of chunk ids without repetition) against the non-empty set rel *)
(* of relevant ids.  A ratio is left as its numerator, over a denominator  *)
(* that depends on rel and k alone.                                        *)
(***************************************************************************)
EXTENDS Naturals, Sequences, FiniteSetsExt

CONSTANT Gain  \* Gain[i]: 1 / log2(i + 1), scaled to a natural number

ASSUME GainAssumption ==
  /\ Gain \in Seq(Nat \ {0})
  /\ \A i, j \in DOMAIN Gain : i < j => Gain[i] > Gain[j]

\* Mutant: the slice takes one element too many.
UpTo(r, k) == 1..Min({k + 1, Len(r)})

\* The ranks of r[:k]; k may exceed the length.
TopK(r, k) == 1..Min({k, Len(r)})

HitRanks(r, rel, k) == {i \in TopK(r, k) : r[i] \in rel}

\* Over Cardinality(rel).
RecallHits(r, rel, k) == Cardinality({r[i] : i \in TopK(r, k)} \cap rel)

\* The rank of the first hit, whose inverse is the score; 0 for no hit.
FirstHit(r, rel, k) ==
  IF HitRanks(r, rel, k) = {} THEN 0 ELSE Min(HitRanks(r, rel, k))

\* A term for each rank, in order.
GainOf(ranks) ==
  LET upTo[n \in 0..Len(Gain)] ==
        IF n = 0 THEN 0
        ELSE upTo[n - 1] + IF n \in ranks THEN Gain[n] ELSE 0
  IN  upTo[Len(Gain)]

DCG(r, rel, k) == GainOf(HitRanks(r, rel, k))
IDCG(rel, k)   == GainOf(1..Min({k, Cardinality(rel)}))
=============================================================================
