---------------------------- MODULE MCTokenStore ----------------------------
EXTENDS TokenStore, TLC

\* Calls are interchangeable: what each is asked to do is chosen when it begins.
Symmetry == Permutations(Op)
=============================================================================
