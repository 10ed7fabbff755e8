---------------------------- MODULE MCCommandQueue ----------------------------
(* A small instance of CommandQueue: an administrator that is logged in and may *)
(* pause others, and a client that logs in, pipelines and uses transactions.    *)
EXTENDS CommandQueue

CONSTANTS client, other

MCOrder == <<other, client>>
MCMenu == [u \in Users |->
    IF u = client
    THEN {<<"MULTI", "good">>, <<"MULTIRESET", "good">>, <<"MRUN", "good">>, <<"SET", "good">>}
    ELSE {<<"ILOGIN", "good">>, <<"ILOGIN", "wrong">>, <<"PONG", "good">>, <<"Q", "good">>,
          <<"PAUSE", <<client, TRUE>>>>, <<"RESUME", <<client, FALSE>>>>}]
MCMaxLines == [u \in Users |-> IF u = client THEN 5 ELSE 3]
MCWeight == [u \in Users |-> IF u = client THEN 1 ELSE 2]
MCGroupsOf == [u \in Users |-> {"k", "w"}]
MCFlagsOf == [u \in Users |-> IF u = client THEN {} ELSE {"m"}]
===============================================================================
