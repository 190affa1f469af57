---------------------------- MODULE MCRedisAsync ----------------------------
(* Constants for model checking RedisAsync. *)
EXTENDS RedisAsync

AllKeys == {"a", "c"}
Hashes  == [k \in AllKeys |-> 2]
Names   == {<<FALSE, <<"a", "c">>>>, <<TRUE, <<"c">>>>}
Nobody  == [id |-> -1, fn |-> FALSE]

=============================================================================
