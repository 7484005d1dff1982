------------------------------- MODULE MCServer -------------------------------
(***************************************************************************)
(* The machines of a single Redis server, each run on its own: machine     *)
(* says which one moves, and the others have nothing to do.                *)
(***************************************************************************)
EXTENDS Clients

CONSTANT Machines

VARIABLE machine

KA == <<0, "a">>
KB == <<0, "b">>

TransactionGroup ==
    <<{<<"MULTI">>, <<"EXEC">>, <<"DISCARD">>, <<"UNWATCH">>, <<"WATCH", <<KA>>>>,
       <<"unknown">>, <<"SET", KA, <<1>>, "", "">>, <<"LPUSH", KB, <<1>>>>, <<"GET", KA>>},
      {<<"SET", KA, <<2>>, "", "">>, <<"RPOPLPUSH", KB, KA>>, <<"LPUSH", KB, <<1>>>>,
       <<"DEL", <<KA>>>>, <<"FLUSHDB", 0>>},
      {}>>

BlockingGroup ==
    <<{<<"BLPOP", <<KA, KB, KA>>>>, <<"BRPOPLPUSH", KA, KB>>},
      {<<"BRPOP", <<KB>>>>, <<"BRPOPLPUSH", KB, KA>>},
      {<<"RPUSH", KA, <<1, 2>>>>, <<"LPUSH", KB, <<2>>>>, <<"SET", KB, <<1>>, "", "">>,
       <<"DEL", <<KA>>>>, <<"RENAME", KB, KA>>, <<"MULTI">>, <<"EXEC">>}>>

PubSubGroup ==
    <<{<<x, chs>> : x \in {"SUBSCRIBE", "UNSUBSCRIBE"}, chs \in {<<"d", "c">>}}
      \cup {<<"PSUBSCRIBE", <<"*", "c*">>>>, <<"PUNSUBSCRIBE", <<"c*">>>>,
            <<"UNSUBSCRIBE", <<>>>>, <<"PUNSUBSCRIBE", <<>>>>, <<"GET", KA>>},
      {<<"SUBSCRIBE", <<"c">>>>, <<"UNSUBSCRIBE", <<"c">>>>, <<"PSUBSCRIBE", <<"*">>>>,
       <<"MULTI">>, <<"EXEC">>},
      {<<"PUBLISH", "c">>, <<"MULTI">>, <<"EXEC">>, <<"SET", KA, <<1>>, "", "">>}>>

MCClientGroups == <<TransactionGroup, BlockingGroup, PubSubGroup>>

MCModes == <<{"master", "oom", "diskerr", "fewslaves", "slowscript", "stale", "loading", "slave"},
             {"master", "stale"}, {"master", "stale"}>>

MCChannels == {"c", "d"}
MCMatches == [p \in {"c*", "*"} |-> IF p = "*" THEN {"c", "d"} ELSE {"c"}]

MCNames == {"a", "b"}
MCDbs == {0}
MCPatternKey == <<KA>>

-----------------------------------------------------------------------------
serverVars == <<machine, clientsVars>>

NoClients == /\ cgroup = 1 /\ mode = "master" /\ cdb = <<>> /\ crep = <<>> /\ conn = <<>>
             /\ blocking = <<>> /\ channels = <<>> /\ patterns = <<>>

ServerInit ==
    /\ machine \in Machines
    /\ IF machine = "clients" THEN ClientsInit ELSE NoClients

ServerNext ==
    \/ /\ machine = "clients" /\ ClientsNext
       /\ UNCHANGED machine

ServerSpec == ServerInit /\ [][ServerNext]_serverVars
=============================================================================
