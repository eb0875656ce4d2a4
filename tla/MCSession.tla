------------------------------ MODULE MCSession ------------------------------
(***************************************************************************)
(* Endpoints with and without each of their parts, and a server that sends *)
(* a few bytes in each of two sessions.                                    *)
(***************************************************************************)
EXTENDS Session

Users == {<<>>, <<"h", "@">>, <<"h", "@", "h", ":", "8", "@">>}
Hosts == {<<>>, <<"h">>, <<"h", "8">>, <<"8">>, <<":", ":", "8">>, <<"[", ":", ":", "8", "]">>}
PortTexts == {<<>>, <<":", "8">>, <<":", "8", "8">>}
Paths == {<<>>, <<"/">>, <<"/", "8">>, <<"/", "h", "@", "h", ":", "8">>}

MCWrittenEndpoints ==
    [protocol : {"irc", "ircs"}, user : Users, host : Hosts, port : PortTexts, path : Paths]
        \cup [protocol : {"none"}, user : {<<>>}, host : Hosts, port : PortTexts, path : {<<>>}]
        \cup [protocol : {"http"}, user : {<<>>}, host : {<<"h">>}, port : {<<>>}, path : {<<>>}]
MCServerHost == <<"h">>
===============================================================================
