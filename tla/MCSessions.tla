---------------------------- MODULE MCSessions ----------------------------
(* A small instance of Sessions: an administrator, instances of one account *)
(* that she manages, one group beside the default one, one channel.         *)
EXTENDS Sessions

CONSTANTS root, bob, pass, word

MCTries == [u \in Users |-> CASE u = 1 -> {<<root, pass>>}
                              [] u = 2 -> {<<bob, pass>>}
                              [] OTHER -> {<<bob, pass>>, <<bob, word>>}]
MCGroupNames == {"default", "ops"}
MCMenu == [l \in Logins |->
    IF l = root
    THEN {<<"DELUSER", bob>>, <<"ADDUSER", bob, pass>>,
          <<"SETSTATUS", bob, FALSE>>, <<"SETSTATUS", bob, TRUE>>,
          <<"ADDFLAG", bob, "m">>, <<"DELFLAG", bob, "m">>,
          <<"GROUPADD", "ops">>, <<"DELGROUP", "ops">>, <<"DELGROUP", "DEFAULT">>,
          <<"GSET", "ops", bob>>, <<"GDEL", "default", bob>>,
          <<"GUPDATE", "ops", "z">>, <<"GRESET", "ops">>, <<"MRESET">>, <<"NRESET">>,
          <<"RESETCACHE">>, <<"MUTE", "#c">>, <<"UNMUTE", "#c">>, <<"LOGOUT", 2>>}
    ELSE {<<"PASSWD", word>>, <<"JOIN", "#c">>, <<"PART", "#c">>, <<"PARTALL">>, <<"HOP", "#c">>,
          <<"NOTIFY", "DEFAULT">>, <<"MONITOR", "DEFAULT">>, <<"MONITOR", "invalid">>,
          <<"STOPMONITOR">>, <<"STOPNOTIFY">>, <<"QUERY">>, <<"EXIT">>}]
=============================================================================
