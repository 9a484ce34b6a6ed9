------------------------------ MODULE MCDBImpl ------------------------------
(* Instances of DBImpl for TLC.                                            *)
EXTENDS DBImpl, TLC

CONSTANTS w1, w2, w3, a, b, c, d

\* writers are interchangeable; batches are not when some of them sync
WriterSymmetry == Permutations(Writers)
=============================================================================
