--------------------------- MODULE MCRedisLimiter ---------------------------
(* A small instance of RedisLimiter, and of RateLimiter within it, for TLC. *)
EXTENDS RedisLimiter, TLC

Symmetry == Permutations(Requests)
=============================================================================
