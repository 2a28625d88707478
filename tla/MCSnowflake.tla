---------------------------- MODULE MCSnowflake -----------------------------
(* TLC instances of Snowflake: two contexts that share one generator, or     *)
(* have one each.                                                            *)
EXTENDS Snowflake

CONSTANTS c1, c2, g1, g2

MCContexts   == {c1, c2}
MCGenerators == {g1, g2}
OneGenerator  == [c \in MCContexts |-> g1]
TwoGenerators == [c \in MCContexts |-> IF c = c1 THEN g1 ELSE g2]
=============================================================================
