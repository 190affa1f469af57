--------------------------- MODULE MCRedisContext ---------------------------
(* Constants for model checking RedisContext: a bulk of CR LF, a nested      *)
(* array, and an array that is too deep for a stack of three tasks.          *)
EXTENDS RedisContext

Part(path, sign, text) == [path |-> path, sign |-> sign, text |-> text, data |-> <<>>]

Bulk     == <<[Part(<<>>, "$", <<"2">>) EXCEPT !.data = <<"CR", "LF">>]>>
InArrays == <<Part(<<>>, "*", <<"2">>), Part(<<0>>, "*", <<"1">>), Part(<<0, 0>>, ":", <<"-", "1">>), Part(<<1>>, "$", <<"-", "1">>)>>
Deep     == <<Part(<<>>, "*", <<"1">>), Part(<<0>>, "*", <<"1">>), Part(<<0, 0>>, "*", <<"1">>)>>

SomeAnswers == {Bulk, InArrays, Deep}
SomeOptions == {{"BLOCK", "TIMEOUT"}, {"BIND", "REUSEADDR"}, {"BLOCK", "UNIX"}}

=============================================================================
