---- MODULE MCRaceRoom ----
EXTENDS RaceRoom, TLC
Symmetry == Permutations(Ids)
====
