------------------------------ MODULE MCBaboons -----------------------------
\* Instances of Baboons for TLC: a few baboons over two ropes.
EXTENDS Baboons, TLC

\* Baboons are alike: nothing names one of them.
Symmetry == Permutations(Baboon)
=============================================================================
