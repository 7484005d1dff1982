------------------------------ MODULE KeyCommands ------------------------------
(***************************************************************************)
(* The commands that work on keys of every type (redis-stable/src/db.c).   *)
(***************************************************************************)
EXTENDS Keyspace
LOCAL INSTANCE SequencesExt
LOCAL INSTANCE FiniteSetsExt

flushdbCommand(s, db) ==
    Reply(emptyDb(signalFlushedDb(Dirty(s, Cardinality(KeysIn(s, {db}))), {db}), {db}),
          <<"ok">>)

(* The RDB file written on the way would reset dirty; the code restores it *)
(* and adds one, so that an empty dataset is flushed on the replicas too.  *)
flushallCommand(s) ==
    Reply(Dirty(emptyDb(signalFlushedDb(s, Dbs), Dbs), Cardinality(KeysIn(s, Dbs)) + 1),
          <<"ok">>)

delCommand(s, ks) ==
    LET DelOne(t, k) ==
            LET t1 == expireIfNeeded(t, k)
            IN  IF t1.db[k] = None THEN t1
                ELSE Dirty(signalModifiedKey(dbDelete(t1, k), k), 1)
        s1 == FoldLeft(DelOne, s, ks)
    IN  Reply(s1, <<"int", s1.dirty>>)

(* Counts what is in the dictionary: an expired key counts on a replica.   *)
existsCommand(s, ks) ==
    LET s1 == lookedUp(s, ks)
    IN  Reply(s1, <<"int", Cardinality({i \in DOMAIN ks : dbExists(s1, ks[i])})>>)

touchCommand(s, ks) ==
    Reply(lookedUp(s, ks),
          <<"int", Cardinality({i \in DOMAIN ks : lookupKeyRead(s, ks[i]) # None})>>)

typeCommand(s, k) ==
    Reply(expireIfNeeded(s, k), <<"status", Type(lookupKeyRead(s, k))>>)

-------------------------------------------------------------------------------
(* Walks through a database.                                               *)

(* dbRandomKey() draws until it finds a key that is not expired.  The keys *)
(* it drew before, found expired and so deleted if this is a master, are   *)
(* the set drawn.                                                          *)
randomkeyCommand(s, db, drawn, pick) ==
    LET dead == {k \in KeysIn(s, {db}) \cap drawn : Expired(s, k)}
        s1 == lookedUp(s, SetToSeq(dead))
        live == SetToSeq({k \in KeysIn(s1, {db}) : ~Expired(s1, k)})
    IN  IF live = <<>> THEN Reply(lookedUp(s, SetToSeq(KeysIn(s, {db}))), <<"nil">>)
        ELSE Reply(s1, <<"bulk", live[(pick % Len(live)) + 1]>>)

(* pattern is the set of the names that match.                             *)
keysCommand(s, db, pattern) ==
    LET ks == {k \in KeysIn(s, {db}) : k[2] \in pattern}
    IN  Reply(lookedUp(s, SetToSeq(ks)), <<"members", {k \in ks : ~Expired(s, k)}>>)

(* One call of SCAN: dictScan() hands over the keys of a few buckets, here *)
(* batch; what does not match or is expired is filtered out.               *)
scanCommand(s, db, batch, pattern) ==
    LET ks == {k \in KeysIn(s, {db}) \cap batch : k[2] \in pattern}
    IN  Reply(lookedUp(s, SetToSeq(ks)), <<"members", {k \in ks : ~Expired(s, k)}>>)

dbsizeCommand(s, db) == Reply(s, <<"int", Cardinality(KeysIn(s, {db}))>>)

-------------------------------------------------------------------------------
(* RENAME and MOVE.                                                        *)

renameGenericCommand(s, src, dst, nx) ==
    LET s1 == lookupKeyWrite(s, src)
        o == s1.db[src]
        when == getExpire(s1, src)
        s2 == lookupKeyWrite(s1, dst)
        s3 == dbAdd(dbDelete(s2, dst), dst, o)
        s4 == dbDelete(IF when = "never" THEN s3 ELSE setExpire(s3, dst, when), src)
        no == IF nx THEN <<"int", 0>> ELSE <<"ok">>
        yes == IF nx THEN <<"int", 1>> ELSE <<"ok">>
    IN  IF o = None THEN Error(s1, "no such key")
        ELSE IF src = dst THEN Reply(s1, no)
        ELSE IF nx /\ s2.db[dst] # None THEN Reply(s2, no)
        ELSE Modified(signalModifiedKey(s4, src), dst, yes)

(* Neither key is signalled as modified.                                   *)
moveCommand(s, k, dbid) ==
    LET dst == <<dbid, k[2]>>
        s1 == lookupKeyWrite(s, k)
        o == s1.db[k]
        when == getExpire(s1, k)
        s2 == lookupKeyWrite(s1, dst)
        s3 == dbAdd(s2, dst, o)
        s4 == dbDelete(IF when = "never" THEN s3 ELSE setExpire(s3, dst, when), k)
    IN  IF dbid \notin Dbs THEN Error(s, "index out of range")
        ELSE IF dbid = k[1] THEN Error(s, "same object")
        ELSE IF o = None THEN Reply(s1, <<"int", 0>>)
        ELSE IF s2.db[dst] # None THEN Reply(s2, <<"int", 0>>)
        ELSE Reply(Dirty(s4, 1), <<"int", 1>>)

-------------------------------------------------------------------------------
(* Expires.                                                                *)

(* The deletion is not what is propagated.                                 *)
ExpireVerbatim(s, k, when) ==
    LET s1 == lookupKeyWrite(s, k)
    IN  IF when = "invalid" THEN Error(s, "not an integer")
        ELSE IF s1.db[k] = None THEN Reply(s1, <<"int", 0>>)
        ELSE IF when = "past" /\ ~s.loading /\ s.master
             THEN Modified(dbDelete(s1, k), k, <<"int", 1>>)
        ELSE Modified(setExpire(s1, k, when), k, <<"int", 1>>)

(* A time in the past deletes, and is propagated as the deletion, but only *)
(* on a master that is not loading.                                        *)
expireGenericCommand(s, k, when) ==
    LET s1 == lookupKeyWrite(s, k)
    IN  IF when = "invalid" THEN Error(s, "not an integer")
        ELSE IF s1.db[k] = None THEN Reply(s1, <<"int", 0>>)
        ELSE IF when = "past" /\ ~s.loading /\ s.master
             THEN rewriteClientCommandVector(Modified(dbDelete(s1, k), k, <<"int", 1>>),
                                             <<"DEL", <<k>>>>)
        ELSE Modified(setExpire(s1, k, when), k, <<"int", 1>>)

ttlGenericCommand(s, k) ==
    Reply(expireIfNeeded(s, k),
          IF lookupKeyRead(s, k) = None THEN <<"int", -2>>
          ELSE CASE getExpire(s, k) = "never" -> <<"int", -1>>
                 [] getExpire(s, k) = "past" -> <<"int", 0>>
                 [] getExpire(s, k) = "future" -> <<"some">>)

(* Looks in the dictionary itself: an expired key may be made persistent,  *)
(* and nobody who watches the key is told.                                 *)
persistCommand(s, k) ==
    IF s.db[k] # None /\ k \in s.exp
    THEN Reply(Dirty(removeExpire(s, k), 1), <<"int", 1>>)
    ELSE Reply(s, <<"int", 0>>)

-------------------------------------------------------------------------------
(* The key commands of redisCommandTable.                                  *)

KeyNames == {"FLUSHDB", "FLUSHALL", "DEL", "EXISTS", "TOUCH", "TYPE", "RANDOMKEY", "KEYS",
             "SCAN", "DBSIZE", "RENAME", "RENAMENX", "MOVE", "EXPIRE", "PEXPIRE",
             "EXPIREAT", "PEXPIREAT", "TTL", "PERSIST"}

KeyProc(s, c) ==
    CASE c[1] = "FLUSHDB" -> flushdbCommand(s, c[2])
      [] c[1] = "FLUSHALL" -> flushallCommand(s)
      [] c[1] = "DEL" -> delCommand(s, c[2])
      [] c[1] = "EXISTS" -> existsCommand(s, c[2])
      [] c[1] = "TOUCH" -> touchCommand(s, c[2])
      [] c[1] = "TYPE" -> typeCommand(s, c[2])
      [] c[1] = "RANDOMKEY" -> randomkeyCommand(s, c[2], c[3], c[4])
      [] c[1] = "KEYS" -> keysCommand(s, c[2], c[3])
      [] c[1] = "SCAN" -> scanCommand(s, c[2], c[3], c[4])
      [] c[1] = "DBSIZE" -> dbsizeCommand(s, c[2])
      [] c[1] = "RENAME" -> renameGenericCommand(s, c[2], c[3], FALSE)
      [] c[1] = "RENAMENX" -> renameGenericCommand(s, c[2], c[3], TRUE)
      [] c[1] = "MOVE" -> moveCommand(s, c[2], c[3])
      [] c[1] \in {"EXPIRE", "PEXPIRE", "EXPIREAT", "PEXPIREAT"} ->
             expireGenericCommand(s, c[2], c[3])
      [] c[1] = "TTL" -> ttlGenericCommand(s, c[2])
      [] c[1] = "PERSIST" -> persistCommand(s, c[2])
===============================================================================
