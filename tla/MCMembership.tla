---------------------------- MODULE MCMembership ----------------------------
EXTENDS Membership, TLC

Symmetry == Permutations(Ids) \cup Permutations(Rooms)
=============================================================================
