-------------------------------- MODULE Clients --------------------------------
(***************************************************************************)
(* The clients of a Redis server: the gate in front of every command       *)
(* (processCommand() in redis-stable/src/server.c), MULTI/EXEC and WATCH   *)
(* (multi.c), clients blocked on lists (t_list.c, blocked.c) and           *)
(* publish/subscribe (PubSub).                                             *)
(*                                                                         *)
(* The server executes one command at a time.  The record w passed through *)
(* the operators is the server with all its clients: s, the server of      *)
(* module Keyspace; conn, the clients; blocking, db->blocking_keys; the    *)
(* tables of PubSub; and given, how many elements went to blocked clients. *)
(***************************************************************************)
EXTENDS Commands, PubSub
LOCAL INSTANCE SequencesExt
LOCAL INSTANCE FiniteSetsExt

CONSTANTS Conns,          \* the clients
          ClientGroups,   \* a sequence of [Conns -> sets of commands]
          Modes,          \* the troubles of each group
          MaxQueue,       \* bound: commands in a transaction
          MaxElements     \* bound: elements in a list

VARIABLES cgroup,     \* the group issued in this behaviour
          mode,       \* what keeps the server from executing everything
          cdb,        \* the dataset
          conn,       \* the clients
          blocking,   \* [Slots -> Seq(Conns)]
          channels, patterns,
          crep        \* the dataset of a replica

clientsVars == <<cgroup, mode, cdb, conn, blocking, channels, patterns, crep>>

(* Of the fields, multi, cas, bad and pubsub are the flags CLIENT_MULTI,   *)
(* _DIRTY_CAS, _DIRTY_EXEC and _PUBSUB; bcmd is the command the client is  *)
(* blocked in.  Three are history: seen, the watched keys with their       *)
(* values at the time of WATCH; refused, was a command refused since       *)
(* MULTI, with flagTransaction() called ("flagged") or not ("unflagged");  *)
(* asmaster, was the server a master when some of it was queued?           *)
NewConn == [multi |-> FALSE, cas |-> FALSE, bad |-> FALSE, queue |-> <<>>,
            watched |-> {}, bcmd |-> <<>>, channels |-> {}, patterns |-> <<>>,
            pubsub |-> FALSE, seen |-> {}, refused |-> {}, asmaster |-> FALSE]

IsMaster == mode \notin {"slave", "stale", "loading"}

World ==
    [s |-> Server(cdb, {}, {}, IsMaster, FALSE, "client"), conn |-> conn,
     blocking |-> blocking, channels |-> channels, patterns |-> patterns, sent |-> <<>>,
     given |-> 0]

-------------------------------------------------------------------------------
(* WATCH and MULTI.                                                        *)

watchForKey(w, c, k) ==
    IF k \in w.conn[c].watched THEN w
    ELSE [w EXCEPT !.conn[c].watched = @ \cup {k},
                   !.conn[c].seen = @ \cup {<<k, w.s.db[k]>>}]

unwatchAllKeys(w, c) == [w EXCEPT !.conn[c].watched = {}, !.conn[c].seen = {}]

(* Mutant: a client that has already sent MULTI is not told.               *)
TouchOutsideMulti(w) ==
    [w EXCEPT !.conn = [c \in Conns |->
        IF w.conn[c].watched \cap w.s.touched # {} /\ ~w.conn[c].multi
        THEN [@[c] EXCEPT !.cas = TRUE] ELSE @[c]]]

(* Everybody who watches a key the command touched.                        *)
touchWatchedKey(w) ==
    [w EXCEPT !.conn = [c \in Conns |->
        IF w.conn[c].watched \cap w.s.touched # {} THEN [@[c] EXCEPT !.cas = TRUE] ELSE @[c]]]

watchCommand(w, c, ks) ==
    IF w.conn[c].multi THEN [w EXCEPT !.s = Error(@, "WATCH inside MULTI")]
    ELSE FoldLeft(LAMBDA v, k : watchForKey(v, c, k), w, ks)

unwatchCommand(w, c) == [unwatchAllKeys(w, c) EXCEPT !.conn[c].cas = FALSE]

discardTransaction(w, c) ==
    [unwatchAllKeys(w, c) EXCEPT !.conn[c].queue = <<>>, !.conn[c].multi = FALSE,
        !.conn[c].cas = FALSE, !.conn[c].bad = FALSE, !.conn[c].refused = {},
        !.conn[c].asmaster = FALSE]


flagTransaction(w, c) ==
    IF w.conn[c].multi THEN [w EXCEPT !.conn[c].bad = TRUE] ELSE w

multiCommand(w, c) ==
    IF w.conn[c].multi THEN [w EXCEPT !.s = Error(@, "MULTI calls can not be nested")]
    ELSE [w EXCEPT !.conn[c].multi = TRUE]

discardCommand(w, c) ==
    IF ~w.conn[c].multi THEN [w EXCEPT !.s = Error(@, "DISCARD without MULTI")]
    ELSE discardTransaction(w, c)

queueMultiCommand(w, c, cmd) ==
    [w EXCEPT !.conn[c].queue = Append(@, cmd), !.conn[c].asmaster = @ \/ IsMaster]

-------------------------------------------------------------------------------
(* Clients blocked on lists.                                               *)

BlockKeys(cmd) == IF cmd[1] = "BRPOPLPUSH" THEN <<cmd[2]>> ELSE cmd[2]

(* Mutant: a key named twice is recorded twice.                            *)
BlockForEach(w, c, cmd) ==
    LET times(k) == Len(SelectSeq(BlockKeys(cmd), LAMBDA l : l = k))
    IN  [w EXCEPT !.conn[c].bcmd = cmd,
                  !.blocking = [k \in Slots |-> @[k] \o [i \in 1 .. times(k) |-> c]]]

(* A key named twice is recorded once.                                     *)
blockForKeys(w, c, cmd) ==
    [w EXCEPT !.conn[c].bcmd = cmd,
              !.blocking = [k \in Slots |->
                  IF k \in Range(BlockKeys(cmd)) THEN Append(@[k], c) ELSE @[k]]]

unblockClientWaitingData(w, c) ==
    [w EXCEPT !.blocking = [k \in Slots |-> SelectSeq(@[k], LAMBDA d : d # c)]]

unblockClient(w, c) == [unblockClientWaitingData(w, c) EXCEPT !.conn[c].bcmd = <<>>]

replyToBlockedClientTimedOut(w) == [w EXCEPT !.s = Reply(@, <<"nil">>)]

(* Mutant: only the pop is propagated.                                     *)
ServePropagatesPop(w, cmd, k, v, pop) ==
    IF cmd[1] # "BRPOPLPUSH"
    THEN [ok |-> TRUE, w |-> [w EXCEPT !.s = propagate(@, <<pop, k>>), !.given = @ + 1]]
    ELSE IF checkType(w.s.db[cmd[3]], "list") THEN [ok |-> FALSE, w |-> w]
    ELSE [ok |-> TRUE,
          w |-> [w EXCEPT !.s = rpoplpushHandlePush(propagate(@, <<pop, k>>), cmd[3], v)]]

(* The element goes to the client or to its destination key.  ok tells     *)
(* whether the client was served.                                          *)
serveClientBlockedOnList(w, cmd, k, v, pop) ==
    IF cmd[1] # "BRPOPLPUSH"
    THEN [ok |-> TRUE, w |-> [w EXCEPT !.s = propagate(@, <<pop, k>>), !.given = @ + 1]]
    ELSE IF checkType(w.s.db[cmd[3]], "list") THEN [ok |-> FALSE, w |-> w]
    ELSE [ok |-> TRUE,
          w |-> [w EXCEPT !.s = propagate(rpoplpushHandlePush(propagate(@, <<pop, k>>), cmd[3], v),
                                          <<"LPUSH", cmd[3], <<v>>>>)]]

(* Mutant: the pop of a client that cannot be served is not undone.        *)
KeepPopped(r, k, v, where) == r.w

UndoUnlessServed(r, k, v, where) ==
    IF r.ok THEN r.w ELSE [r.w EXCEPT !.s.db[k] = listTypePush(@, v, where)]

(* One client blocked on k, if the list still has an element for it.  A    *)
(* client that cannot be served is unblocked with an error, and the pop is *)
(* undone.                                                                 *)
Serve(k, w, c, o, where) ==
    IF listTypeLength(o) = 0 THEN w
    ELSE UndoUnlessServed(
             serveClientBlockedOnList(
                 unblockClient([w EXCEPT !.s.db[k] = listTypePop(o, where)], c), w.conn[c].bcmd, k,
                 Popped(o, where), IF where = "head" THEN "LPOP" ELSE "RPOP"),
             k, Popped(o, where), where)

ServeNext(k, w, c) ==
    Serve(k, w, c, w.s.db[k], IF w.conn[c].bcmd[1] = "BLPOP" THEN "head" ELSE "tail")

DeleteEmpty(w, k) ==
    IF listTypeLength(w.s.db[k]) = 0 THEN [w EXCEPT !.s = dbDelete(@, k)] ELSE w

ServeKey(w, k) ==
    IF Type(w.s.db[k]) # "list" THEN w
    ELSE DeleteEmpty(FoldLeft(LAMBDA v, c : ServeNext(k, v, c), w, w.blocking[k]), k)

(* Mutant: only the keys that were ready at the start are served.          *)
HandleOnce(w) ==
    FoldLeft(ServeKey, [w EXCEPT !.s.ready = <<>>], w.s.ready)

(* Serving a key may make others ready.                                    *)
RECURSIVE handleClientsBlockedOnLists(_)
handleClientsBlockedOnLists(w) ==
    IF w.s.ready = <<>> THEN w
    ELSE handleClientsBlockedOnLists(
             ServeKey([w EXCEPT !.s.ready = Tail(@)], Head(w.s.ready)))

-------------------------------------------------------------------------------
(* Execution.                                                              *)

(* In a transaction a command never blocks, it answers as after a timeout. *)
CallOrBlock(w, c, cmd, s) ==
    IF s.reply # <<"blocks">> THEN [w EXCEPT !.s = s]
    ELSE IF w.conn[c].multi THEN [w EXCEPT !.s = Reply(s, <<"nil">>)]
    ELSE blockForKeys([w EXCEPT !.s = s], c, cmd)

(* A command outside of, or inside, a transaction.                         *)
Call(w, c, cmd) ==
    CASE cmd[1] \in DatasetNames -> CallOrBlock(w, c, cmd, call(w.s, cmd))
      [] cmd[1] = "UNWATCH" -> unwatchCommand(w, c)
      [] cmd[1] = "PUBLISH" -> [PubSubProc(w, c, cmd) EXCEPT !.s = replicationFeedSlaves(@, cmd)]
      [] OTHER -> PubSubProc(w, c, cmd)

(* Mutant: MULTI is not propagated.                                        *)
ExecBare(w, c) ==
    discardTransaction(
        FoldLeft(LAMBDA v, cmd : Call(v, c, cmd), unwatchAllKeys(w, c), w.conn[c].queue), c)

MultiIf(w, first) == IF first THEN [w EXCEPT !.s = propagate(@, <<"MULTI">>)] ELSE w
ExecIf(w, wrote) == IF wrote THEN [w EXCEPT !.s = propagate(@, <<"EXEC">>)] ELSE w

(* MULTI is propagated in front of the first command that is not a read,   *)
(* and then EXEC in the end.  first is the place of that command, or 0.    *)
ExecQueue(w, c, queue, first) ==
    ExecIf(discardTransaction(
               FoldLeft(LAMBDA v, i : Call(MultiIf(v, i = first), c, queue[i]),
                        unwatchAllKeys(w, c), [i \in DOMAIN queue |-> i]), c),
           first # 0)

execCommand(w, c) ==
    IF ~w.conn[c].multi THEN [w EXCEPT !.s = Error(@, "EXEC without MULTI")]
    ELSE IF w.conn[c].bad THEN discardTransaction([w EXCEPT !.s = Error(@, "EXECABORT")], c)
    ELSE IF w.conn[c].cas THEN discardTransaction([w EXCEPT !.s = Reply(@, <<"nil">>)], c)
    ELSE ExecQueue(w, c, w.conn[c].queue,
                   SelectInSeq(w.conn[c].queue, LAMBDA cmd : cmd[1] \notin ReadOnlyNames))

(* Mutant: a slave refuses writes only without its master.                 *)
ReadOnlyWhenStale(cmd) == mode = "stale" /\ cmd[1] \in WriteNames

(* server.masterhost and repl_slave_ro                                     *)
ReadOnlySlave(cmd) == ~IsMaster /\ cmd[1] \in WriteNames

(* Why processCommand() does not execute a command; "" if it does.         *)
Refusal(w, c, cmd) ==
    LET write == cmd[1] \in WriteNames
    IN  CASE cmd[1] = "unknown" -> "unknown"
          [] mode = "oom" /\ cmd[1] \in DenyOomNames -> "oom"
          [] mode = "diskerr" /\ (write \/ cmd[1] = "PING") -> "misconf"
          [] mode = "fewslaves" /\ write -> "noreplicas"
          [] ReadOnlySlave(cmd) -> "readonly"
          [] w.conn[c].pubsub /\ cmd[1] \notin PubSubNames \ {"PUBLISH"} -> "pubsub"
          [] mode = "stale" /\ cmd[1] \notin StaleNames -> "masterdown"
          [] mode = "loading" /\ cmd[1] \notin LoadingNames -> "loading"
          [] mode = "slowscript" -> "busy"
          [] OTHER -> ""

(* The refusals that do not call flagTransaction().                        *)
Unflagged == {"readonly", "pubsub", "loading"}

Refuse(w, c, why) ==
    IF why \in Unflagged THEN w ELSE flagTransaction(w, c)

(* Since MULTI, for the history.                                           *)
NoteRefusal(w, c, why) ==
    [w EXCEPT !.s = Error(@, why),
              !.conn[c].refused = IF ~w.conn[c].multi THEN @
                  ELSE @ \cup {IF why \in Unflagged THEN "unflagged" ELSE "flagged"}]

Dispatch(w, c, cmd) ==
    CASE cmd[1] = "MULTI" -> multiCommand(w, c)
      [] cmd[1] = "EXEC" -> execCommand(w, c)
      [] cmd[1] = "DISCARD" -> discardCommand(w, c)
      [] cmd[1] = "WATCH" -> watchCommand(w, c, cmd[2])
      [] OTHER -> Call(w, c, cmd)

ProcessUnless(w, c, cmd, why) ==
    IF why # "" THEN Refuse(NoteRefusal(w, c, why), c, why)
    ELSE IF w.conn[c].multi /\ cmd[1] \notin {"EXEC", "DISCARD", "MULTI", "WATCH"}
    THEN queueMultiCommand(w, c, cmd)
    ELSE touchWatchedKey(handleClientsBlockedOnLists(Dispatch(w, c, cmd)))

processCommand(w, c, cmd) == ProcessUnless(w, c, cmd, Refusal(w, c, cmd))

(* The client is unblocked, and forgotten by all tables.                   *)
ForgetClient(w, c) ==
    pubsubUnsubscribeAllPatterns(pubsubUnsubscribeAllChannels(w, c), c)

freeClient(w, c) ==
    [ForgetClient(unwatchAllKeys(unblockClient(w, c), c), c) EXCEPT !.conn[c] = NewConn]

disconnectAllBlockedClients(w) ==
    FoldLeft(freeClient, w, SetToSeq({c \in Conns : w.conn[c].bcmd # <<>>}))

-------------------------------------------------------------------------------
(* A replica executes what it is sent; after MULTI it queues.  What it     *)
(* queued is lost with the link.                                           *)
ReplicaRun(db, cmds) ==
    FoldLeft(LAMBDA d, cmd : call(Server(d, {}, {}, FALSE, FALSE, "master"), cmd).db, db, cmds)

ReplicaStep(r, cmd) ==
    CASE cmd[1] = "MULTI" -> [r EXCEPT !.multi = TRUE]
      [] cmd[1] = "PUBLISH" -> r
      [] r.multi /\ cmd[1] \notin {"EXEC", "MULTI", "PUBLISH"} -> [r EXCEPT !.queue = Append(@, cmd)]
      [] OTHER -> [db |-> ReplicaRun(r.db, IF cmd[1] = "EXEC" THEN r.queue ELSE <<cmd>>),
                   multi |-> FALSE, queue |-> <<>>]

ReplicaExecute(db, cmds) ==
    FoldLeft(ReplicaStep, [db |-> db, multi |-> FALSE, queue |-> <<>>], cmds).db

ClientsInit ==
    /\ cgroup \in DOMAIN ClientGroups
    /\ mode = "master"
    /\ cdb = [k \in Slots |-> None] /\ crep = cdb
    /\ conn = [c \in Conns |-> NewConn]
    /\ blocking = [k \in Slots |-> <<>>]
    /\ channels = [ch \in Channels |-> <<>>] /\ patterns = <<>>

BecomesWorld(w) ==
    /\ cdb' = w.s.db /\ conn' = w.conn /\ blocking' = w.blocking
    /\ channels' = w.channels /\ patterns' = w.patterns
    /\ UNCHANGED cgroup

(* A client sends a command, unless it waits for the answer to the last.   *)
Requested(c, w) ==
    /\ Len(w.conn[c].queue) <= MaxQueue
    /\ \A k \in Slots : Type(w.s.db[k]) = "list" => listTypeLength(w.s.db[k]) <= MaxElements
    /\ BecomesWorld(w)
    /\ crep' = ReplicaExecute(crep, w.s.repl)
    /\ UNCHANGED mode

Request(c, cmd) ==
    /\ conn[c].bcmd = <<>>
    /\ Requested(c, processCommand(World, c, cmd))

(* The timeout of a blocking command, found by the cron.                   *)
clientsCronHandleTimeout(c) ==
    /\ conn[c].bcmd # <<>>
    /\ BecomesWorld(unblockClient(replyToBlockedClientTimedOut(World), c))
    /\ UNCHANGED <<mode, crep>>

Disconnect(c) ==
    /\ BecomesWorld(freeClient(World, c))
    /\ UNCHANGED <<mode, crep>>

(* SLAVEOF host port: blocked clients are disconnected.                    *)
replicationSetMaster ==
    /\ IsMaster /\ "stale" \in Modes[cgroup]
    /\ mode' = "stale"
    /\ BecomesWorld(disconnectAllBlockedClients(World))
    /\ UNCHANGED crep

(* Trouble comes and goes.  What a replica loads is the dataset it has.    *)
Troubles ==
    LET masters == {"oom", "diskerr", "fewslaves", "slowscript"}
    IN  ({"master"} \X masters) \cup (masters \X {"master"})
        \cup {<<"stale", "loading">>, <<"loading", "slave">>, <<"slave", "stale">>,
              <<"slave", "master">>, <<"stale", "master">>}

Trouble ==
    /\ \E t \in Troubles : mode = t[1] /\ t[2] \in Modes[cgroup] /\ mode' = t[2]
    /\ UNCHANGED <<cgroup, cdb, conn, blocking, channels, patterns, crep>>

ClientsNext ==
    \/ \E c \in Conns :
         \/ \E cmd \in ClientGroups[cgroup][c] : Request(c, cmd)
         \/ clientsCronHandleTimeout(c)
         \/ Disconnect(c)
    \/ replicationSetMaster
    \/ Trouble

-------------------------------------------------------------------------------
(* Nobody waits for a list that is there: when the server has finished     *)
(* with a command, every client that a push, a rename or another client's  *)
(* BRPOPLPUSH made servable has been served.                               *)
NoneWaitsForData ==
    \A c \in DOMAIN conn : conn[c].bcmd # <<>> =>
        \A k \in Range(BlockKeys(conn[c].bcmd)) : Type(cdb[k]) # "list"

(* db->blocking_keys lists every blocked client under each of its keys,    *)
(* once, and no other client: unblockClientWaitingData() asserts it.       *)
BlockedLinked ==
    \A k \in DOMAIN blocking :
        /\ Cardinality(Range(blocking[k])) = Len(blocking[k])
        /\ Range(blocking[k]) = {c \in Conns : /\ conn[c].bcmd # <<>>
                                               /\ k \in Range(BlockKeys(conn[c].bcmd))}

(* Pushing loses no element and hands none out twice: what is in the lists *)
(* and what blocked clients got is what was there and what was pushed,     *)
(* failing BRPOPLPUSH included.                                            *)
Elements(db) ==
    FoldSet(LAMBDA k, n : n + IF Type(db[k]) = "list" THEN listTypeLength(db[k]) ELSE 0,
            0, Slots)

AllPlaced(w, cmd) ==
    ~IsError(w.s) => Elements(w.s.db) + w.given = Elements(cdb) + Len(cmd[3])

PushedOnce ==
    \A c \in DOMAIN conn : \A cmd \in ClientGroups[cgroup][c] :
        cmd[1] \in {"LPUSH", "RPUSH"} /\ conn[c].bcmd = <<>> /\ ~conn[c].multi
        => AllPlaced(processCommand(World, c, cmd), cmd)

(* If a watched key is not what it was at the time of WATCH, EXEC will     *)
(* fail, whoever changed it and however.                                   *)
WatchSound ==
    \A c \in DOMAIN conn : ~conn[c].cas => \A p \in conn[c].seen : cdb[p[1]] = p[2]

(* A replica that loses the link at any point of a transaction has all of  *)
(* it or nothing.                                                          *)
WholeAnywhere(w) ==
    \A n \in 0 .. Len(w.s.repl) :
        ReplicaExecute(crep, SubSeq(w.s.repl, 1, n)) \in {cdb, w.s.db}

(* The replica has the dataset of its master, through transactions and     *)
(* clients served later.                                                   *)
ReplicaFollows == crep = cdb

(* After a command of a transaction was refused, EXEC executes nothing --  *)
(* unless it was refused for one of three reasons.                         *)
NothingDone(w, c) == w.s.db = cdb /\ w.s.repl = <<>> /\ ~w.conn[c].multi

ExecSound(w, c) ==
    /\ "flagged" \in conn[c].refused => NothingDone(w, c)
    /\ WholeAnywhere(w)

(* EXEC executes nothing after any refusal: flagTransaction() "should be   *)
(* called every time there is an error while queueing a command"           *)
(* (multi.c).                                                              *)
EveryRefusalAborts ==
    \A c \in DOMAIN conn : conn[c].refused # {} => execCommand(World, c).s.reply = <<"error", "EXECABORT">>

(* On a replica no client changes the dataset, except with a transaction   *)
(* that it queued when the server was a master.                            *)
ReplicaWritesOnlyStale ==
    ~IsMaster =>
    \A c \in DOMAIN conn : \A cmd \in ClientGroups[cgroup][c] :
        processCommand(World, c, cmd).s.db # cdb => cmd[1] = "EXEC" /\ conn[c].asmaster

(* The two records of the subscriptions agree, and a published message     *)
(* reaches a client once for its channel and once for each of its          *)
(* patterns that match.                                                    *)
PublishReaches ==
    \A ch \in DOMAIN channels :
        LET sent == pubsubPublishMessage(World, ch).sent
        IN  \A c \in DOMAIN conn :
              /\ Cardinality({i \in DOMAIN sent : sent[i] = <<c, ch>>})
                   = IF ch \in conn[c].channels THEN 1 ELSE 0
              /\ \A p \in Patterns :
                   Cardinality({i \in DOMAIN sent : sent[i] = <<c, p>>})
                   = IF p \in Range(conn[c].patterns) /\ ch \in Matches[p] THEN 1 ELSE 0
              /\ conn[c].pubsub = (conn[c].channels # {} \/ conn[c].patterns # <<>>)

(* A blocked client is served as soon as it can be, from each push once,   *)
(* and is linked from all of its keys until then.                          *)
BlockedServed == NoneWaitsForData /\ BlockedLinked /\ PushedOnce


(* What clients do to the dataset its replica does too, and on a replica   *)
(* they do nothing to it.                                                  *)
ReplicaOfClients == ReplicaFollows /\ ReplicaWritesOnlyStale
================================================================================
