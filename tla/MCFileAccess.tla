---------------------------- MODULE MCFileAccess ----------------------------
\* Two writers, two readers and a cleaner, as in ex7_test.
EXTENDS FileAccess, TLC

CONSTANTS w1, w2
AlignedSpan == w1 :> {1, 2, 3, 4} @@ w2 :> {1, 2}
PartialSpan == w1 :> {2, 3} @@ w2 :> {1, 2}
=============================================================================
