---------------------------------- MODULE Lists ----------------------------------
(***************************************************************************)
(* The list commands (redis-stable/src/t_list.c).  A list is               *)
(* <<"list", elements>>; how a quicklist stores the elements is the        *)
(* subject of module Quicklist.  where is "head" or "tail".  A command     *)
(* that has to block its client answers <<"blocks">>: what happens to the  *)
(* client then is the subject of module Clients.                           *)
(***************************************************************************)
EXTENDS Keyspace
LOCAL INSTANCE SequencesExt

createQuicklistObject == <<"list", <<>>>>

-------------------------------------------------------------------------------
(* List objects.                                                           *)

listTypePush(o, v, where) ==
    <<"list", IF where = "head" THEN <<v>> \o o[2] ELSE Append(o[2], v)>>

listTypeLength(o) == Len(o[2])

(* The element that listTypePop() returns, and what it leaves.             *)
Popped(o, where) == IF where = "head" THEN o[2][1] ELSE o[2][Len(o[2])]

listTypePop(o, where) ==
    <<"list", IF where = "head" THEN Tail(o[2]) ELSE Front(o[2])>>

(* The position of an index that counts from the end if negative; 0 when   *)
(* there is none.                                                          *)
quicklistIndex(o, index) ==
    LET i == IF index < 0 THEN Len(o[2]) + index + 1 ELSE index + 1
    IN  IF i \in DOMAIN o[2] THEN i ELSE 0

(* The list under k becomes o: an empty list is deleted.                   *)
Shrunk(s, k, o) ==
    IF listTypeLength(o) = 0 THEN dbDelete(s, k) ELSE dbOverwrite(s, k, o)

-------------------------------------------------------------------------------
(* Commands that write.                                                    *)

pushGenericCommand(s, k, vs, where) ==
    LET s1 == lookupKeyWrite(s, k)
        o == IF s1.db[k] = None THEN createQuicklistObject ELSE s1.db[k]
        s2 == IF s1.db[k] = None THEN dbAdd(s1, k, o) ELSE s1
        new == FoldLeft(LAMBDA l, v : listTypePush(l, v, where), o, vs)
    IN  IF checkType(o, "list") THEN Error(s1, "wrong type")
        ELSE Reply(Dirty(signalModifiedKey(dbOverwrite(s2, k, new), k), Len(vs)),
                   <<"int", listTypeLength(new)>>)

(* lookupKeyWriteOrReply() and checkType(), then the change of the list.   *)
WriteList(s, k, missing, Change(_, _)) ==
    LET s1 == lookupKeyWrite(s, k)
        o == s1.db[k]
    IN  IF o = None THEN Reply(s1, missing)
        ELSE IF checkType(o, "list") THEN Error(s1, "wrong type")
        ELSE Change(s1, o)

(* LPUSHX and RPUSHX.                                                      *)
pushxGenericCommand(s, k, v, where) ==
    WriteList(s, k, <<"int", 0>>, LAMBDA s1, o :
        LET new == listTypePush(o, v, where)
        IN  Modified(dbOverwrite(s1, k, new), k, <<"int", listTypeLength(new)>>))

(* Next to the first element that equals ref; side is checked first.       *)
linsertCommand(s, k, side, ref, v) ==
    IF side \notin {"before", "after"} THEN Error(s, "syntax")
    ELSE WriteList(s, k, <<"int", 0>>, LAMBDA s1, o :
        LET i == SelectInSeq(o[2], LAMBDA x : x = ref)
            new == <<"list", InsertAt(o[2], IF side = "before" THEN i ELSE i + 1, v)>>
        IN  IF i = 0 THEN Reply(s1, <<"int", -1>>)
            ELSE Modified(dbOverwrite(s1, k, new), k, <<"int", listTypeLength(new)>>))

lsetCommand(s, k, index, v) ==
    WriteList(s, k, <<"error", "no such key">>, LAMBDA s1, o :
        LET i == quicklistIndex(o, index)
        IN  IF i = 0 THEN Error(s1, "index out of range")
            ELSE Modified(dbOverwrite(s1, k, <<"list", [o[2] EXCEPT ![i] = v]>>), k,
                          <<"ok">>))

(* The emptied list is left in the keyspace.                               *)
PopLeavesEmpty(s, k, where) ==
    WriteList(s, k, <<"nil">>, LAMBDA s1, o :
        IF listTypeLength(o) = 0 THEN Reply(s1, <<"nil">>)
        ELSE Modified(dbOverwrite(s1, k, listTypePop(o, where)), k,
                      <<"bulk", Popped(o, where)>>))

popGenericCommand(s, k, where) ==
    WriteList(s, k, <<"nil">>, LAMBDA s1, o :
        IF listTypeLength(o) = 0 THEN Reply(s1, <<"nil">>)
        ELSE Modified(Shrunk(s1, k, listTypePop(o, where)), k,
                      <<"bulk", Popped(o, where)>>))

(* <<first, last>> of the elements kept, counted from 0; empty when first  *)
(* is greater than last.                                                   *)
Bounds(len, start, end) ==
    LET from == IF start < 0 THEN len + start ELSE start
        lo == IF from < 0 THEN 0 ELSE from
        hi == IF end < 0 THEN len + end ELSE end
    IN  IF lo > hi \/ lo >= len THEN <<1, 0>>
        ELSE <<lo, IF hi >= len THEN len - 1 ELSE hi>>

ListRange(o, start, end) ==
    LET b == Bounds(listTypeLength(o), start, end)
    IN  SubSeq(o[2], b[1] + 1, b[2] + 1)

(* Signals and propagates even when nothing is trimmed.                    *)
ltrimCommand(s, k, start, end) ==
    WriteList(s, k, <<"ok">>, LAMBDA s1, o :
        Modified(Shrunk(s1, k, <<"list", ListRange(o, start, end)>>), k, <<"ok">>))

(* The positions of v that are removed: all, the first count from the head *)
(* or, for a negative count, from the tail.                                *)
Removed(o, count, v) ==
    LET at == {i \in DOMAIN o[2] : o[2][i] = v}
    IN  {i \in at : \/ count = 0
                    \/ count > 0 /\ Cardinality({j \in at : j <= i}) <= count
                    \/ count < 0 /\ Cardinality({j \in at : j >= i}) <= -count}

lremCommand(s, k, count, v) ==
    WriteList(s, k, <<"int", 0>>, LAMBDA s1, o :
        LET gone == Removed(o, count, v)
            new == <<"list", FoldLeft(LAMBDA l, i : IF i \in gone THEN l ELSE Append(l, o[2][i]),
                                      <<>>, [i \in DOMAIN o[2] |-> i])>>
            s2 == IF gone = {} THEN s1 ELSE signalModifiedKey(s1, k)
        IN  Reply(Dirty(Shrunk(s2, k, new), Cardinality(gone)),
                  <<"int", Cardinality(gone)>>))

rpoplpushHandlePush(s, dst, v) ==
    LET s1 == IF s.db[dst] = None THEN dbAdd(s, dst, createQuicklistObject) ELSE s
    IN  Reply(dbOverwrite(signalModifiedKey(s1, dst), dst,
                          listTypePush(s1.db[dst], v, "head")), <<"bulk", v>>)

(* Source and destination may be the same list.                            *)
rpoplpushCommand(s, src, dst) ==
    WriteList(s, src, <<"nil">>, LAMBDA s1, o :
        LET s2 == lookupKeyWrite(s1, dst)
            s3 == dbOverwrite(s2, src, listTypePop(o, "tail"))
            s4 == rpoplpushHandlePush(s3, dst, Popped(o, "tail"))
            s5 == Shrunk(s4, src, s4.db[src])
        IN  IF listTypeLength(o) = 0 THEN Reply(s1, <<"nil">>)
            ELSE IF checkType(s2.db[dst], "list") THEN Error(s2, "wrong type")
            ELSE Dirty(signalModifiedKey(s5, src), 1))

-------------------------------------------------------------------------------
(* Blocking commands, up to the point where the client blocks.             *)

(* The keys are tried in order up to the first one that exists.            *)
blockingPopGenericCommand(s, ks, where) ==
    LET s1 == lookedUp(s, ks)
        i == SelectInSeq(ks, LAMBDA k : s1.db[k] # None)
        k == ks[i]
        s2 == lookedUp(s, SubSeq(ks, 1, i))
        o == s2.db[k]
    IN  IF i = 0 THEN Reply(s1, <<"blocks">>)
        ELSE IF checkType(o, "list") THEN Error(s2, "wrong type")
        ELSE rewriteClientCommandVector(
                 Modified(Shrunk(s2, k, listTypePop(o, where)), k,
                          <<"popped", k, Popped(o, where)>>),
                 <<IF where = "head" THEN "LPOP" ELSE "RPOP", k>>)

brpoplpushCommand(s, src, dst) ==
    LET s1 == lookupKeyWrite(s, src)
    IN  IF s1.db[src] = None THEN Reply(s1, <<"blocks">>)
        ELSE IF checkType(s1.db[src], "list") THEN Error(s1, "wrong type")
        ELSE rpoplpushCommand(s1, src, dst)

-------------------------------------------------------------------------------
(* Commands that read.                                                     *)

ReadList(s, k, missing, Answer(_)) ==
    LET o == lookupKeyRead(s, k)
        s1 == expireIfNeeded(s, k)
    IN  IF o = None THEN Reply(s1, missing)
        ELSE IF checkType(o, "list") THEN Error(s1, "wrong type")
        ELSE Reply(s1, Answer(o))

llenCommand(s, k) ==
    ReadList(s, k, <<"int", 0>>, LAMBDA o : <<"int", listTypeLength(o)>>)

lindexCommand(s, k, index) ==
    ReadList(s, k, <<"nil">>, LAMBDA o :
        IF quicklistIndex(o, index) = 0 THEN <<"nil">>
        ELSE <<"bulk", o[2][quicklistIndex(o, index)]>>)

lrangeCommand(s, k, start, end) ==
    ReadList(s, k, <<"multi", <<>>>>, LAMBDA o : <<"multi", ListRange(o, start, end)>>)

-------------------------------------------------------------------------------
(* The list commands of redisCommandTable.                                 *)

ListNames == {"LPUSH", "RPUSH", "LPUSHX", "RPUSHX", "LINSERT", "LSET", "LPOP", "RPOP",
              "LTRIM", "LREM", "RPOPLPUSH", "BLPOP", "BRPOP", "BRPOPLPUSH", "LLEN",
              "LINDEX", "LRANGE"}

ListProc(s, c) ==
    CASE c[1] = "LPUSH" -> pushGenericCommand(s, c[2], c[3], "head")
      [] c[1] = "RPUSH" -> pushGenericCommand(s, c[2], c[3], "tail")
      [] c[1] = "LPUSHX" -> pushxGenericCommand(s, c[2], c[3], "head")
      [] c[1] = "RPUSHX" -> pushxGenericCommand(s, c[2], c[3], "tail")
      [] c[1] = "LINSERT" -> linsertCommand(s, c[2], c[3], c[4], c[5])
      [] c[1] = "LSET" -> lsetCommand(s, c[2], c[3], c[4])
      [] c[1] = "LPOP" -> popGenericCommand(s, c[2], "head")
      [] c[1] = "RPOP" -> popGenericCommand(s, c[2], "tail")
      [] c[1] = "LTRIM" -> ltrimCommand(s, c[2], c[3], c[4])
      [] c[1] = "LREM" -> lremCommand(s, c[2], c[3], c[4])
      [] c[1] = "RPOPLPUSH" -> rpoplpushCommand(s, c[2], c[3])
      [] c[1] = "BLPOP" -> blockingPopGenericCommand(s, c[2], "head")
      [] c[1] = "BRPOP" -> blockingPopGenericCommand(s, c[2], "tail")
      [] c[1] = "BRPOPLPUSH" -> brpoplpushCommand(s, c[2], c[3])
      [] c[1] = "LLEN" -> llenCommand(s, c[2])
      [] c[1] = "LINDEX" -> lindexCommand(s, c[2], c[3])
      [] c[1] = "LRANGE" -> lrangeCommand(s, c[2], c[3], c[4])
===============================================================================
