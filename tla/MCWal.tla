------------------------------- MODULE MCWal -------------------------------
(* LmdbWal with two flush workers *)
EXTENDS LmdbWal, TLC

CONSTANTS w1, w2

TwoWriters == {w1, w2}

(* The workers are interchangeable *)
Workers == Permutations(TwoWriters)
=============================================================================
