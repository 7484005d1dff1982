--------------------------------- MODULE Hashes ---------------------------------
(***************************************************************************)
(* The hash commands (redis-stable/src/t_hash.c).  A hash is               *)
(* <<"hash", "ziplist", entries>> with the <<field, value>> entries in the *)
(* order of the list, or <<"hash", "hashtable", map>> with a function from *)
(* fields to values.  Values are strings of bytes; of a field only matters *)
(* whether it is too long for a ziplist.                                   *)
(***************************************************************************)
EXTENDS Strings
LOCAL INSTANCE SequencesExt

CONSTANTS LongFields,             \* the fields too long for a ziplist
          HashMaxZiplistEntries,  \* server.hash_max_ziplist_entries
          HashMaxZiplistValue     \* server.hash_max_ziplist_value

createHashObject == <<"hash", "ziplist", <<>>>>

-------------------------------------------------------------------------------
(* Hash objects.                                                           *)

HashFields(o) ==
    IF o[2] = "ziplist" THEN {o[3][i][1] : i \in DOMAIN o[3]} ELSE DOMAIN o[3]

hashTypeGetFromZiplist(o, f) ==
    LET i == SelectInSeq(o[3], LAMBDA e : e[1] = f)
    IN  IF i = 0 THEN None ELSE String(o[3][i][2])

hashTypeGetFromHashTable(o, f) ==
    IF f \in DOMAIN o[3] THEN String(o[3][f]) ELSE None

hashTypeGetObject(o, f) ==
    IF o[2] = "ziplist" THEN hashTypeGetFromZiplist(o, f)
    ELSE hashTypeGetFromHashTable(o, f)

hashTypeGetValueLength(o, f) ==
    LET v == hashTypeGetObject(o, f) IN IF v = None THEN 0 ELSE Len(Content(v))

hashTypeExists(o, f) == hashTypeGetObject(o, f) # None

hashTypeLength(o) ==
    IF o[2] = "ziplist" THEN Len(o[3]) ELSE Cardinality(DOMAIN o[3])

(* What the iterator visits.                                               *)
hashTypeNext(o) ==
    {<<f, Content(hashTypeGetObject(o, f))>> : f \in HashFields(o)}

hashTypeConvertZiplist(o) ==
    <<"hash", "hashtable",
      [f \in HashFields(o) |-> Content(hashTypeGetFromZiplist(o, f))]>>

hashTypeConvert(o, enc) ==
    IF o[2] = enc THEN o ELSE hashTypeConvertZiplist(o)

(* Before a write: does an argument exceed what a ziplist may hold?        *)
hashTypeTryConversion(o, entries) ==
    IF \E i \in DOMAIN entries : \/ entries[i][1] \in LongFields
                                 \/ Len(entries[i][2]) > HashMaxZiplistValue
    THEN hashTypeConvert(o, "hashtable") ELSE o

(* A new field goes to the tail of the ziplist; the limit is checked after *)
(* the write.                                                              *)
SetUnlimited(o, f, v) ==
    LET i == SelectInSeq(o[3], LAMBDA e : e[1] = f)
    IN  IF o[2] = "hashtable"
        THEN <<"hash", "hashtable",
               [g \in DOMAIN o[3] \cup {f} |-> IF g = f THEN v ELSE o[3][g]]>>
        ELSE IF i # 0 THEN <<"hash", "ziplist", [o[3] EXCEPT ![i][2] = v]>>
        ELSE <<"hash", "ziplist", Append(o[3], <<f, v>>)>>

WithinLimit(o) ==
    IF hashTypeLength(o) > HashMaxZiplistEntries THEN hashTypeConvert(o, "hashtable") ELSE o

hashTypeSet(o, f, v) == WithinLimit(SetUnlimited(o, f, v))

hashTypeDelete(o, f) ==
    IF o[2] = "ziplist"
    THEN <<"hash", "ziplist", SelectSeq(o[3], LAMBDA e : e[1] # f)>>
    ELSE <<"hash", "hashtable", [g \in DOMAIN o[3] \ {f} |-> o[3][g]]>>

(* An empty hash is added to the keyspace before the command goes on.      *)
HashOrCreate(s, k) ==
    IF s.db[k] = None THEN dbAdd(s, k, createHashObject)
    ELSE IF checkType(s.db[k], "hash") THEN Error(s, "wrong type") ELSE s

hashTypeLookupWriteOrCreate(s, k) == HashOrCreate(lookupKeyWrite(s, k), k)

-------------------------------------------------------------------------------
(* Commands that write.                                                    *)

HsetIn(s, k, o, f, v) ==
    Modified(dbOverwrite(s, k, hashTypeSet(o, f, v)), k,
             <<"int", IF hashTypeExists(o, f) THEN 0 ELSE 1>>)

HsetFound(s, k, f, v) ==
    IF IsError(s) THEN s ELSE HsetIn(s, k, hashTypeTryConversion(s.db[k], <<<<f, v>>>>), f, v)

hsetCommand(s, k, f, v) == HsetFound(hashTypeLookupWriteOrCreate(s, k), k, f, v)

HsetnxIn(s, k, o, f, v) ==
    IF hashTypeExists(o, f) THEN Reply(dbOverwrite(s, k, o), <<"int", 0>>)
    ELSE Modified(dbOverwrite(s, k, hashTypeSet(o, f, v)), k, <<"int", 1>>)

HsetnxFound(s, k, f, v) ==
    IF IsError(s) THEN s ELSE HsetnxIn(s, k, hashTypeTryConversion(s.db[k], <<<<f, v>>>>), f, v)

hsetnxCommand(s, k, f, v) == HsetnxFound(hashTypeLookupWriteOrCreate(s, k), k, f, v)

HmsetFound(s, k, entries) ==
    IF IsError(s) THEN s
    ELSE Modified(dbOverwrite(s, k, FoldLeft(LAMBDA h, e : hashTypeSet(h, e[1], e[2]),
                                             hashTypeTryConversion(s.db[k], entries), entries)),
                  k, <<"ok">>)

hmsetCommand(s, k, entries) == HmsetFound(hashTypeLookupWriteOrCreate(s, k), k, entries)

(* The hash is created before the increment is looked at.                  *)
HincrbyCreatesFirst(s, k, f, by) ==
    LET s1 == hashTypeLookupWriteOrCreate(s, k)
        old == The(getLongLongFromObject(hashTypeGetObject(s1.db[k], f)))
    IN  IF IsError(s1) THEN s1
        ELSE IF string2ll(by) = {} \/ getLongLongFromObject(hashTypeGetObject(s1.db[k], f)) = {}
             THEN Error(s1, "not an integer")
        ELSE IF old + The(string2ll(by)) \notin LLONG_MIN .. LLONG_MAX
             THEN Error(s1, "would overflow")
        ELSE Modified(dbOverwrite(s1, k, hashTypeSet(s1.db[k], f,
                                           ll2string(old + The(string2ll(by))))),
                      k, <<"int", old + The(string2ll(by))>>)

(* No conversion of the ziplist before the write.                          *)
HincrbyIn(s, k, f, old, incr) ==
    IF \/ incr < 0 /\ old < 0 /\ incr < LLONG_MIN - old
       \/ incr > 0 /\ old > 0 /\ incr > LLONG_MAX - old
    THEN Error(s, "would overflow")
    ELSE Modified(dbOverwrite(s, k, hashTypeSet(s.db[k], f, ll2string(old + incr))), k,
                  <<"int", old + incr>>)

HincrbyFrom(s, k, f, current, incr) ==
    IF current = {} THEN Error(s, "hash value is not an integer")
    ELSE HincrbyIn(s, k, f, The(current), incr)

HincrbyFound(s, k, f, incr) ==
    IF IsError(s) THEN s
    ELSE HincrbyFrom(s, k, f, getLongLongFromObject(hashTypeGetObject(s.db[k], f)), incr)

hincrbyCommand(s, k, f, by) ==
    IF string2ll(by) = {} THEN Error(s, "not an integer")
    ELSE HincrbyFound(hashTypeLookupWriteOrCreate(s, k), k, f, The(string2ll(by)))

(* Propagated as an HSET of the result; infinite results are not refused.  *)
HsetText(s, k, f, text) ==
    rewriteClientCommandVector(
        Modified(dbOverwrite(s, k, hashTypeSet(s.db[k], f, text)), k, <<"bulk", text>>),
        <<"HSET", k, f, text>>)

HincrbyfloatFrom(s, k, f, current, by) ==
    IF current = {} THEN Error(s, "hash value is not a valid float")
    ELSE HsetText(s, k, f, ll2string(The(current) + by))

HincrbyfloatFound(s, k, f, by) ==
    IF IsError(s) THEN s
    ELSE HincrbyfloatFrom(s, k, f, getLongDoubleFromObject(hashTypeGetObject(s.db[k], f)), by)

hincrbyfloatCommand(s, k, f, by) ==
    IF string2ld(by) = {} THEN Error(s, "not a float")
    ELSE HincrbyfloatFound(hashTypeLookupWriteOrCreate(s, k), k, f, The(string2ld(by)))

(* HDEL that signals nobody when the hash goes.                            *)
HdelSilent(s, k, fs) ==
    LET s1 == lookupKeyWrite(s, k)
        o == s1.db[k]
        gone == ToSet(fs) \cap HashFields(o)
        new == FoldLeft(hashTypeDelete, o, fs)
    IN  IF o = None THEN Reply(s1, <<"int", 0>>)
        ELSE IF checkType(o, "hash") THEN Error(s1, "wrong type")
        ELSE IF gone = {} THEN Reply(s1, <<"int", 0>>)
        ELSE IF hashTypeLength(new) = 0
             THEN Reply(Dirty(dbDelete(s1, k), 1), <<"int", Cardinality(gone)>>)
        ELSE Modified(dbOverwrite(s1, k, new), k, <<"int", Cardinality(gone)>>)

(* Stops at the field whose removal empties the hash.                      *)
HdelStore(s, k, new, gone) ==
    IF gone = 0 THEN Reply(s, <<"int", 0>>)
    ELSE Reply(Dirty(signalModifiedKey(IF hashTypeLength(new) = 0 THEN dbDelete(s, k)
                                       ELSE dbOverwrite(s, k, new), k), gone), <<"int", gone>>)

HdelFound(s, k, o, fs) ==
    IF o = None THEN Reply(s, <<"int", 0>>)
    ELSE IF checkType(o, "hash") THEN Error(s, "wrong type")
    ELSE HdelStore(s, k, FoldLeft(hashTypeDelete, o, fs),
                   Cardinality(ToSet(fs) \cap HashFields(o)))

HdelFrom(s, k, fs) == HdelFound(s, k, s.db[k], fs)

hdelCommand(s, k, fs) == HdelFrom(lookupKeyWrite(s, k), k, fs)

-------------------------------------------------------------------------------
(* Commands that read.                                                     *)

(* lookupKeyReadOrReply() and checkType(), then the answer from the hash.  *)
ReadHashFound(s, o, missing, Answer(_)) ==
    IF o = None THEN Reply(s, missing)
    ELSE IF checkType(o, "hash") THEN Error(s, "wrong type")
    ELSE Reply(s, Answer(o))

ReadHash(s, k, missing, Answer(_)) ==
    ReadHashFound(expireIfNeeded(s, k), lookupKeyRead(s, k), missing, Answer)

addHashFieldToReply(o, f) ==
    LET v == IF o = None THEN None ELSE hashTypeGetObject(o, f)
    IN  IF v = None THEN <<"nil">> ELSE <<"bulk", Content(v)>>

hgetCommand(s, k, f) ==
    ReadHash(s, k, <<"nil">>, LAMBDA o : addHashFieldToReply(o, f))

hmgetCommand(s, k, fs) ==
    LET answer(o) == <<"multi", [i \in DOMAIN fs |-> addHashFieldToReply(o, fs[i])]>>
    IN  ReadHash(s, k, answer(None), answer)

hlenCommand(s, k) ==
    ReadHash(s, k, <<"int", 0>>, LAMBDA o : <<"int", hashTypeLength(o)>>)

hstrlenCommand(s, k, f) ==
    ReadHash(s, k, <<"int", 0>>, LAMBDA o : <<"int", hashTypeGetValueLength(o, f)>>)

(* HGETALL, HKEYS and HVALS differ in the parts of each pair they send.    *)
genericHgetallCommand(s, k) ==
    ReadHash(s, k, <<"pairs", {}>>, LAMBDA o : <<"pairs", hashTypeNext(o)>>)

hexistsCommand(s, k, f) ==
    ReadHash(s, k, <<"int", 0>>,
             LAMBDA o : <<"int", IF hashTypeExists(o, f) THEN 1 ELSE 0>>)

-------------------------------------------------------------------------------
(* The hash commands of redisCommandTable.                                 *)

HashNames == {"HSET", "HSETNX", "HMSET", "HINCRBY", "HINCRBYFLOAT", "HDEL", "HGET",
              "HMGET", "HLEN", "HSTRLEN", "HGETALL", "HEXISTS"}

HashProc(s, c) ==
    CASE c[1] = "HSET" -> hsetCommand(s, c[2], c[3], c[4])
      [] c[1] = "HSETNX" -> hsetnxCommand(s, c[2], c[3], c[4])
      [] c[1] = "HMSET" -> hmsetCommand(s, c[2], c[3])
      [] c[1] = "HINCRBY" -> hincrbyCommand(s, c[2], c[3], c[4])
      [] c[1] = "HINCRBYFLOAT" -> hincrbyfloatCommand(s, c[2], c[3], c[4])
      [] c[1] = "HDEL" -> hdelCommand(s, c[2], c[3])
      [] c[1] = "HGET" -> hgetCommand(s, c[2], c[3])
      [] c[1] = "HMGET" -> hmgetCommand(s, c[2], c[3])
      [] c[1] = "HLEN" -> hlenCommand(s, c[2])
      [] c[1] = "HSTRLEN" -> hstrlenCommand(s, c[2], c[3])
      [] c[1] = "HGETALL" -> genericHgetallCommand(s, c[2])
      [] c[1] = "HEXISTS" -> hexistsCommand(s, c[2], c[3])
===============================================================================
