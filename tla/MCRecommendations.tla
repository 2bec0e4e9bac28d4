---------------------------- MODULE MCRecommendations ----------------------------
EXTENDS Recommendations, TLC

MCSymmetry == Permutations(Threads) \cup Permutations(Topics)
=============================================================================
