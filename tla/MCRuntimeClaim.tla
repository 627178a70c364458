--------------------------- MODULE MCRuntimeClaim ---------------------------
\* Two clones with a service, a volume and the helper.
EXTENDS RuntimeClaim, TLC

Symmetry == Permutations(Tokens)
=============================================================================
