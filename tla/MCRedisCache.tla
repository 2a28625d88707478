---------------------------- MODULE MCRedisCache ----------------------------
(* TLC instance of RedisCache: two tasks share the client and the breaker.   *)
EXTENDS RedisCache

CONSTANTS t1, t2

MCTasks == {t1, t2}
=============================================================================
