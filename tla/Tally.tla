------------------------------- MODULE Tally -------------------------------
(***************************************************************************)
(* Sums of naturals over a finite set, as the cardinality of the set of    *)
(* the units that are added: element x contributes <<x, 1>> ... <<x, f[x]>>*)
(***************************************************************************)
EXTENDS Integers, FiniteSets

Row(x, n)   == {x} \X (1 .. n)
Units(S, f) == UNION {Row(x, f[x]) : x \in S}
Total(S, f) == Cardinality(Units(S, f))
=============================================================================
