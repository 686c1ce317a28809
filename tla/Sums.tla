-------------------------------- MODULE Sums --------------------------------
(***************************************************************************)
(* The total a loop over a Go map or slice adds up.                        *)
(***************************************************************************)
EXTENDS Integers, FiniteSetsExt

\* The sum of f[x] over x in S.
SumOver(f, S) == MapThenSumSet(LAMBDA x : f[x], S)
=============================================================================
