-------------------------- MODULE MCRateLimiter --------------------------
(* TLC instance of RateLimiter.                                            *)
EXTENDS RateLimiter, TLC

Symmetry == Permutations(Key)
===========================================================================
