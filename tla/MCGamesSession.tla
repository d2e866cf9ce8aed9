--------------------------- MODULE MCGamesSession ---------------------------
(* Work threads are interchangeable: the runs without liveness use it.     *)
EXTENDS GamesSession, TLC

Symmetry == Permutations(Threads)
=============================================================================
