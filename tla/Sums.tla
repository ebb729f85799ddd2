-------------------------------- MODULE Sums --------------------------------
(***************************************************************************)
(* Sums over a set.  FiniteSetsExt has them as folds; here a sum counts    *)
(* units, which lets the facts about cardinalities speak of it.            *)
(***************************************************************************)
EXTENDS Naturals, FiniteSets

\* As many units for each member x of S as the natural number f[x] says.
Units(f, S) == UNION {{x} \X (1..f[x]) : x \in S}

\* The sum of f over S.
SumOver(f, S) == Cardinality(Units(f, S))
=============================================================================
