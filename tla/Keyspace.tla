------------------------------- MODULE Keyspace -------------------------------
(***************************************************************************)
(* The C-level API of a Redis database (redis-stable/src/db.c) and the way *)
(* the effect of a command reaches the replicas and the append only file   *)
(* (propagate() and friends in server.c, feedAppendOnlyFile() in aof.c).   *)
(*                                                                         *)
(* Commands run one at a time, to the end, so a command is a function of   *)
(* the server it runs on.  The record s passed through the operators is    *)
(* that server and the client it serves:                                   *)
(*   db      [Slots -> Values]: the dictionaries of all databases; a slot  *)
(*           is <<database id, key name>>                                  *)
(*   exp     the slots in the expires dictionaries                         *)
(*   over    the slots of exp whose time has come on this server's clock   *)
(*   master  server.masterhost == NULL                                     *)
(*   loading server.loading                                                *)
(*   link    "client", or "master" when current_client is the master link  *)
(*   cmd     the argument vector of the command, as it will be propagated  *)
(*   reply   what the client was answered                                  *)
(*   dirty   how much the running command added to server.dirty            *)
(*   touched the slots touchWatchedKey() was called with                   *)
(*   ready   server.ready_keys: the lists that appeared, in order          *)
(*   prevent CLIENT_PREVENT_PROP; also: server.also_propagate              *)
(*   repl    the commands sent to the replicas, aof: to the file           *)
(* A value is <<type, content>>, or <<type, encoding, content>> for the    *)
(* types that have several encodings; LRU data, statistics and keyspace    *)
(* notifications are left out.                                             *)
(***************************************************************************)
EXTENDS Integers, Sequences, FiniteSets
LOCAL INSTANCE SequencesExt
LOCAL INSTANCE FiniteSetsExt

CONSTANTS Dbs,     \* the database ids, 0 .. server.dbnum - 1
          Names    \* the key names in use

Slots == Dbs \X Names

None == <<"none">>

Type(o) == o[1]
Content(o) == o[2]

Server(db, exp, over, master, loading, link) ==
    [db |-> db, exp |-> exp, over |-> over, master |-> master,
     loading |-> loading, link |-> link, cmd |-> <<>>, reply |-> <<>>,
     dirty |-> 0, touched |-> {}, ready |-> <<>>, prevent |-> FALSE,
     also |-> <<>>, repl |-> <<>>, aof |-> <<>>]

-------------------------------------------------------------------------------
(* Replies, and the checks that answer with an error.                      *)

Reply(s, r) == [s EXCEPT !.reply = r]
Error(s, e) == Reply(s, <<"error", e>>)
IsError(s) == s.reply # <<>> /\ s.reply[1] = "error"

checkType(o, type) == o # None /\ Type(o) # type

-------------------------------------------------------------------------------
(* Propagation.                                                            *)

(* What the append only file gets for a command: times become absolute,    *)
(* except the one inside SET.                                              *)
catAppendOnlyExpireAtCommand(k, when) == <<"PEXPIREAT", k, when>>

(* SETEX loses its time.                                                   *)
FeedWithoutExpire(s, cmd) ==
    [s EXCEPT !.aof = Append(@,
        IF cmd[1] \in {"SETEX", "PSETEX"} THEN <<"SET", cmd[2], cmd[4], "", "">> ELSE cmd)]

feedAppendOnlyFile(s, cmd) ==
    [s EXCEPT !.aof = @ \o
        CASE cmd[1] \in {"EXPIRE", "PEXPIRE", "EXPIREAT"} ->
               <<catAppendOnlyExpireAtCommand(cmd[2], cmd[3])>>
          [] cmd[1] \in {"SETEX", "PSETEX"} ->
               <<<<"SET", cmd[2], cmd[4], "", "">>,
                 catAppendOnlyExpireAtCommand(cmd[2], cmd[3])>>
          [] OTHER -> <<cmd>>]

replicationFeedSlaves(s, cmd) == [s EXCEPT !.repl = Append(@, cmd)]

propagate(s, cmd) == replicationFeedSlaves(feedAppendOnlyFile(s, cmd), cmd)

alsoPropagate(s, cmd) ==
    IF s.loading THEN s ELSE [s EXCEPT !.also = Append(@, cmd)]

preventCommandPropagation(s) == [s EXCEPT !.prevent = TRUE]

rewriteClientCommandVector(s, cmd) == [s EXCEPT !.cmd = cmd]

-------------------------------------------------------------------------------
(* Watched keys.                                                           *)

signalModifiedKey(s, k) == [s EXCEPT !.touched = @ \cup {k}]

(* Only the clients that watch an existing key are touched by a flush.     *)
touchWatchedKeysOnFlush(s, dbs) ==
    [s EXCEPT !.touched = @ \cup {k \in Slots : k[1] \in dbs /\ s.db[k] # None}]

signalFlushedDb(s, dbs) == touchWatchedKeysOnFlush(s, dbs)

Dirty(s, n) == [s EXCEPT !.dirty = @ + n]

(* signalModifiedKey(); server.dirty++ and the reply: how almost every     *)
(* write command ends.                                                     *)
Modified(s, k, r) == Reply(Dirty(signalModifiedKey(s, k), 1), r)

-------------------------------------------------------------------------------
(* Expires.                                                                *)

removeExpire(s, k) == [s EXCEPT !.exp = @ \ {k}, !.over = @ \ {k}]

(* A time is "past" or "future", as seen when it is set.                   *)
setExpire(s, k, when) ==
    [s EXCEPT !.exp = @ \cup {k},
              !.over = IF when = "past" THEN @ \cup {k} ELSE @ \ {k}]

getExpire(s, k) == IF k \notin s.exp THEN "never"
                   ELSE IF k \in s.over THEN "past" ELSE "future"

dbDelete(s, k) == [s EXCEPT !.db[k] = None, !.exp = @ \ {k}, !.over = @ \ {k}]

propagateExpire(s, k) ==
    [s EXCEPT !.repl = Append(@, <<"DEL", <<k>>>>), !.aof = Append(@, <<"DEL", <<k>>>>)]

(* Whether expireIfNeeded() finds the key expired.                         *)
Expired(s, k) == k \in s.over /\ ~s.loading

(* Only a master deletes: a replica waits for the DEL of its master.       *)
expireIfNeeded(s, k) ==
    IF s.master /\ Expired(s, k) THEN dbDelete(propagateExpire(s, k), k) ELSE s

-------------------------------------------------------------------------------
(* Lookups.  lookupKeyWrite(s, k) is expireIfNeeded(s, k), and the value   *)
(* is then found in db; lookupKeyRead returns both.                        *)

lookupKeyWrite(s, k) == expireIfNeeded(s, k)

(* Expired keys are shown.                                                 *)
ShowExpired(s, k) == expireIfNeeded(s, k).db[k]

(* A replica hides expired keys from the read-only commands of clients.    *)
lookupKeyRead(s, k) ==
    IF Expired(s, k) /\ ~s.master /\ s.link = "client" THEN None
    ELSE expireIfNeeded(s, k).db[k]

(* The server after reading all the keys of a sequence.                    *)
lookedUp(s, ks) == FoldLeft(expireIfNeeded, s, ks)

dbExists(s, k) == s.db[k] # None

-------------------------------------------------------------------------------
(* Writes.                                                                 *)

(* A key is queued once; keys nobody is blocked on are passed over when    *)
(* the queue is processed.                                                 *)
signalListAsReady(s, k) ==
    IF k \in Range(s.ready) THEN s ELSE [s EXCEPT !.ready = Append(@, k)]

dbAdd(s, k, o) ==
    IF Type(o) = "list" THEN signalListAsReady([s EXCEPT !.db[k] = o], k)
    ELSE [s EXCEPT !.db[k] = o]

dbOverwrite(s, k, o) == [s EXCEPT !.db[k] = o]

dbSet(s, k, o) == IF s.db[k] = None THEN dbAdd(s, k, o) ELSE dbOverwrite(s, k, o)

setKey(s, k, o) ==
    signalModifiedKey(removeExpire(dbSet(lookupKeyWrite(s, k), k, o), k), k)

emptyDb(s, dbs) ==
    LET gone == {k \in Slots : k[1] \in dbs}
    IN  [s EXCEPT !.db = [k \in Slots |-> IF k \in gone THEN None ELSE @[k]],
                  !.exp = @ \ gone, !.over = @ \ gone]

KeysIn(s, dbs) == {k \in Slots : k[1] \in dbs /\ s.db[k] # None}

-------------------------------------------------------------------------------
(* call(): a command is propagated if it made the dataset dirty, and not   *)
(* told otherwise, followed by what it asked to propagate in addition.     *)
beginCall(s, cmd) ==
    [s EXCEPT !.cmd = cmd, !.reply = <<>>, !.dirty = 0, !.also = <<>>,
              !.prevent = FALSE]

endCall(s) ==
    FoldLeft(propagate, IF s.dirty > 0 /\ ~s.prevent THEN propagate(s, s.cmd) ELSE s, s.also)
===============================================================================
