--------------------------- MODULE MCPostFeedback ---------------------------
EXTENDS PostFeedback, TLC

CONSTANTS author, u1, u2

Readers == Permutations({u1, u2})
=============================================================================
