--------------------------------- MODULE Dataset ---------------------------------
(***************************************************************************)
(* A Redis server that executes commands on its dataset, a replica that    *)
(* executes what is propagated to it and the dataset that loading the      *)
(* append only file would yield.                                           *)
(*                                                                         *)
(* A behaviour issues the commands of one group, in any order.  The links  *)
(* are in order and reliable here, so the replica and the file are updated *)
(* in the step of the command; when the replica's clock lets a key expire  *)
(* is unrelated to the clock of the master.                                *)
(***************************************************************************)
EXTENDS Commands
LOCAL INSTANCE SequencesExt

CONSTANTS Groups,   \* a sequence of sets of commands
          MaxList     \* bound: no list gets longer

VARIABLES group,    \* the group issued in this behaviour
          db,       \* the master's dictionaries
          exp,      \* the keys with a time to live
          over,     \* the ones whose time has come
          rdb, rexp,\* the same on the replica
          adb, aexp,\* what loading the append only file gives
          floated   \* has INCRBYFLOAT run on a key with a time to live?

datasetVars == <<group, db, exp, over, rdb, rexp, adb, aexp, floated>>

Master == Server(db, exp, over, TRUE, FALSE, "client")
Replica(late) == Server(rdb, rexp, late, FALSE, FALSE, "master")
Loading == Server(adb, aexp, {}, TRUE, TRUE, "client")

Empty == [k \in Slots |-> None]

DatasetInit ==
    /\ group \in DOMAIN Groups
    /\ db = Empty /\ exp = {} /\ over = {}
    /\ rdb = Empty /\ rexp = {}
    /\ adb = Empty /\ aexp = {}
    /\ floated = FALSE

(* The master becomes m, the replica and the file get what m propagates.   *)
ReplicaBecomes(r) == rdb' = r.db /\ rexp' = r.exp
FileBecomes(a) == adb' = a.db /\ aexp' = a.exp

Becomes(m, Exec(_, _)) ==
    /\ db' = m.db /\ exp' = m.exp /\ over' = m.over
    /\ \E late \in SUBSET rexp : ReplicaBecomes(FoldLeft(Exec, Replica(late), m.repl))
    /\ FileBecomes(FoldLeft(Exec, Loading, m.aof))
    /\ UNCHANGED group

Executed(c, m) ==
    /\ \A k \in Slots : Type(m.db[k]) = "list" => listTypeLength(m.db[k]) <= MaxList
    /\ Becomes(m, call)
    /\ floated' = (floated \/ (c[1] = "INCRBYFLOAT" /\ ~IsError(m) /\ c[2] \in m.exp))

Execute(c) == Executed(c, call(Master, c))

TimePasses ==
    /\ \E k \in exp \ over : over' = over \cup {k}
    /\ UNCHANGED <<group, db, exp, rdb, rexp, adb, aexp, floated>>

(* The deletion of one key by the expire cycle.                            *)
(* call() of a DEL.                                                        *)
callDel(s, c) == endCall(delCommand(beginCall(s, c), c[2]))

activeExpireCycleTryExpire(k) ==
    /\ k \in over
    /\ Becomes(dbDelete(propagateExpire(Master, k), k), callDel)
    /\ UNCHANGED floated

(* The deletion of one key to get memory back: any key, as the policy has  *)
(* it.                                                                     *)
Evict(k) ==
    /\ db[k] # None
    /\ Becomes(dbDelete(propagateExpire(Master, k), k), callDel)
    /\ UNCHANGED floated

DatasetNext ==
    \/ \E c \in Groups[group] : Execute(c)
    \/ TimePasses
    \/ \E k \in Slots : activeExpireCycleTryExpire(k) \/ Evict(k)

-------------------------------------------------------------------------------
(* What a value means, whatever its encoding.                              *)
Value(o) ==
    CASE Type(o) \in {"none", "string", "list"} -> o
      [] Type(o) = "set" -> <<"set", o[3]>>
      [] Type(o) = "hash" -> <<"hash", hashTypeNext(o)>>
      [] Type(o) = "zset" -> <<"zset", Entries(o)>>

SameValues(d, e) == \A k \in Slots : Value(d[k]) = Value(e[k])

(* After every command the replica holds the values of its master,         *)
(* whatever the command drew at random or computed in floating point, and  *)
(* whenever the replica's own clock lets keys expire: what call()          *)
(* propagates is enough and is executed with the same effect.              *)
ReplicaHasSameValues == SameValues(rdb, db)

(* The same keys have a time to live on the replica as on its master, with *)
(* one exception: INCRBYFLOAT.                                             *)
ReplicaHasSameExpires == rexp \subseteq exp /\ (floated \/ rexp = exp)

(* INCRBYFLOAT is no exception: the command is replicated as a SET "in     *)
(* order to make sure that differences ... will not create differences in  *)
(* replicas or after an AOF restart" (t_string.c).                         *)
ReplicaKeepsExpires == rexp = exp

(* Loading the append only file gives the values of the server that wrote  *)
(* it and, INCRBYFLOAT aside, the keys with a time to live.                *)
AofRebuildsDataset ==
    /\ SameValues(adb, db)
    /\ aexp \subseteq exp
    /\ floated \/ aexp = exp

(* No command leaves an empty collection in the keyspace, and only keys    *)
(* that exist have a time to live.                                         *)
NothingEmpty ==
    /\ \A k \in Slots : db[k] # None =>
         CASE Type(db[k]) = "string" -> TRUE
           [] Type(db[k]) = "list" -> listTypeLength(db[k]) > 0
           [] Type(db[k]) = "set" -> setTypeSize(db[k]) > 0
           [] Type(db[k]) = "hash" -> hashTypeLength(db[k]) > 0
           [] Type(db[k]) = "zset" -> zsetLength(db[k]) > 0
    /\ over \subseteq exp
    /\ exp \subseteq {k \in Slots : db[k] # None}

(* The dictionary and the ordered list of a sorted set agree, in order,    *)
(* and no compact encoding outgrows its limit.                             *)
EncodingsSound ==
    \A k \in Slots :
        LET o == db[k] IN
        CASE Type(o) = "zset" ->
               /\ o[2] = "skiplist" => o[3][2] = DictOf(o[3][1])
               /\ o[2] = "ziplist" => Len(o[3]) <= ZsetMaxZiplistEntries
               /\ \A i \in 2 .. Len(Entries(o)) :
                    LET e == Entries(o)[i - 1]  f == Entries(o)[i]
                    IN  e[2] < f[2] \/ (e[2] = f[2] /\ e[1] < f[1])
          [] Type(o) = "set" /\ o[2] = "intset" ->
               o[3] \subseteq IntMembers /\ Cardinality(o[3]) <= SetMaxIntsetEntries
          [] Type(o) = "hash" /\ o[2] = "ziplist" -> Len(o[3]) <= HashMaxZiplistEntries
          [] OTHER -> TRUE

(* Whoever watches a key learns of every command that changes its value.   *)
(* MOVE does not tell, and keys that just expire do not either.            *)
TellsWatchers(c, m) ==
    c[1] # "MOVE" => \A k \in Slots \ over :
        Value(m.db[k]) # Value(db[k]) => k \in m.touched

WatchersTold == \A c \in Groups[group] : TellsWatchers(c, call(Master, c))

(* A command that answers with an error has changed no value, and nothing  *)
(* is propagated but the deletion of keys found expired.                   *)
NothingChanged(m) ==
    /\ \A k \in Slots \ over : Value(m.db[k]) = Value(db[k])
    /\ Range(m.repl) \subseteq {<<"DEL", <<k>>>> : k \in over}

ErrorOrElse(m) == IsError(m) => NothingChanged(m)

ErrorsChangeNothing == \A c \in Groups[group] : ErrorOrElse(call(Master, c))

(* A client that reads from the replica never sees a key whose time has    *)
(* come, although the replica has to keep it until its master deletes it:  *)
(* it gets the answer the master itself would give.                        *)
Reads == {"GET", "MGET", "GETRANGE", "STRLEN", "GETBIT", "BITCOUNT", "BITPOS", "SISMEMBER",
          "SCARD", "SINTER", "SUNION", "SDIFF", "HGET", "HMGET", "HLEN", "HSTRLEN",
          "HGETALL", "HEXISTS", "LLEN", "LINDEX", "LRANGE", "ZRANGE", "ZREVRANGE",
          "ZRANGEBYSCORE", "ZREVRANGEBYSCORE", "ZCOUNT", "ZCARD", "ZSCORE",
          "ZRANK", "ZREVRANK", "TYPE", "TOUCH", "KEYS"}

ReplicaHidesExpired ==
    rexp = exp =>
    \A c \in Groups[group] : c[1] \in Reads =>
        call([Replica(over) EXCEPT !.link = "client"], c).reply = call(Master, c).reply

(* A counter command gives the exact sum or an error.                      *)
CountersExact(c, m) ==
    LET old == IF c[2] \in over \/ db[c[2]] = None THEN {0}
               ELSE string2ll(Content(db[c[2]]))
        incr == CASE c[1] = "INCR" -> {1}
                  [] c[1] = "DECR" -> {-1}
                  [] c[1] = "INCRBY" -> string2ll(c[3])
                  [] c[1] = "DECRBY" -> {-n : n \in string2ll(c[3])}
    IN  c[1] \in {"INCR", "DECR", "INCRBY", "DECRBY"} /\ ~IsError(m) =>
          \E a \in old, b \in incr :
            /\ m.reply = <<"int", a + b>>
            /\ m.db[c[2]] = String(ll2string(a + b))

(* The members that a command sees under a key.                            *)
MembersSeen(k) == IF k \in over \/ db[k] = None THEN {} ELSE db[k][3]

(* SINTER, SUNION and SDIFF answer with the intersection, the union and    *)
(* the difference of the sets, and their STORE forms store them, whichever *)
(* algorithm, order and encoding they work with.                           *)
SetAlgebraExact(c, m) ==
    LET stores == c[1] \in {"SINTERSTORE", "SUNIONSTORE", "SDIFFSTORE"}
        ks == IF stores THEN c[3] ELSE c[2]
        sets == [i \in DOMAIN ks |-> MembersSeen(ks[i])]
        exact == CASE c[1] \in {"SINTER", "SINTERSTORE"} ->
                        {x \in sets[1] : \A i \in DOMAIN sets : x \in sets[i]}
                   [] c[1] \in {"SUNION", "SUNIONSTORE"} -> UNION Range(sets)
                   [] c[1] \in {"SDIFF", "SDIFFSTORE"} ->
                        {x \in sets[1] : \A i \in 2 .. Len(sets) : x \notin sets[i]}
    IN  (c[1] \in {"SINTER", "SUNION", "SDIFF"} \/ stores) /\ ~IsError(m) =>
            IF stores THEN Value(m.db[c[2]]) = IF exact = {} THEN None ELSE <<"set", exact>>
            ELSE m.reply = <<"members", exact>>

(* The range commands of sorted sets answer with exactly the entries in    *)
(* the range, from the offset on and not more than the limit, and the      *)
(* counts are their numbers, in both encodings.  Lexicographic ranges are  *)
(* defined for equal scores only.                                          *)
InRange(r, x) == zslValueGteMin(x, r) /\ zslValueLteMax(x, r)

ZRangesExact(c, m) ==
    LET lex == c[1] \in {"ZRANGEBYLEX", "ZREVRANGEBYLEX", "ZLEXCOUNT"}
        all == IF c[2] \in over \/ db[c[2]] = None THEN <<>> ELSE Entries(db[c[2]])
        hits == SelectSeq(all, LAMBDA e : InRange(c[3], IF lex THEN e[1] ELSE e[2]))
        run == IF c[1] \in {"ZREVRANGEBYSCORE", "ZREVRANGEBYLEX"} THEN Reverse(hits) ELSE hits
        part == SubSeq(run, c[4] + 1, IF c[5] < 0 \/ c[4] + c[5] > Len(run) THEN Len(run)
                                      ELSE c[4] + c[5])
    IN  /\ c[1] \in {"ZCOUNT", "ZLEXCOUNT"} => m.reply = <<"int", Len(hits)>>
        /\ c[1] \in {"ZRANGEBYSCORE", "ZREVRANGEBYSCORE", "ZRANGEBYLEX", "ZREVRANGEBYLEX"}
             => m.reply = <<"multi", part>>

(* The integers BITFIELD INCRBY answers with are the exact sum, or what    *)
(* the overflow policy makes of it: wrapped around, saturated at the end   *)
(* that was passed, or nothing.                                            *)
BitfieldExact(c, m) ==
    LET op == c[3][1]
        bits == op[3]
        bytes == IF c[2] \in over \/ db[c[2]] = None THEN <<>> ELSE Content(db[c[2]])
        min == IF op[2] THEN -(2^(bits - 1)) ELSE 0
        max == min + 2^bits - 1
        u == getUnsignedBitfield(bytes, op[4], bits)
        sum == (IF u > max THEN u - 2^bits ELSE u) + op[5]
        exact == IF sum \in min .. max THEN <<"int", sum>>
                 ELSE CASE op[6] = "wrap" -> <<"int", ((sum - min) % 2^bits) + min>>
                        [] op[6] = "sat" -> <<"int", IF sum > max THEN max ELSE min>>
                        [] op[6] = "fail" -> <<"nil">>
    IN  c[1] = "BITFIELD" /\ op[1] = "INCRBY" /\ ~IsError(m) => m.reply = <<"multi", <<exact>>>>

(* BITPOS finds the first bit: none in an empty or explicit range without  *)
(* it, the first one past the end for a clear bit otherwise.               *)
BitposExact(c, m) ==
    LET bytes == IF c[2] \in over \/ db[c[2]] = None THEN <<>> ELSE Content(db[c[2]])
        given == Len(c[4]) = 2
        from(i) == IF i < 0 THEN IF Len(bytes) + i < 0 THEN 0 ELSE Len(bytes) + i ELSE i
        first == IF c[4] = <<>> THEN 0 ELSE from(c[4][1])
        last == IF given /\ from(c[4][2]) < Len(bytes) THEN from(c[4][2]) ELSE Len(bytes) - 1
        found == {i \in first * ByteBits .. (last + 1) * ByteBits - 1 :
                     BitAt(bytes, i) = c[3]}
    IN  c[1] = "BITPOS" /\ ~IsError(m) =>
          m.reply[2] = IF db[c[2]] = None \/ c[2] \in over THEN -c[3]
                       ELSE IF found # {} THEN CHOOSE i \in found : \A j \in found : i <= j
                       ELSE IF first > last \/ given \/ c[3] = 1 THEN -1
                       ELSE (last + 1) * ByteBits

(* A replica has the values and expires of its master and hides what has   *)
(* expired, whatever commands call() propagates and however it rewrites    *)
(* them.                                                                   *)
ReplicaAgrees == ReplicaHasSameValues /\ ReplicaHasSameExpires /\ ReplicaHidesExpired

(* Every value is one the other commands and the RDB can deal with: not    *)
(* empty, in an encoding whose limits it respects; and a command that      *)
(* answers with an error has changed nothing.                              *)
ValuesSound == NothingEmpty /\ EncodingsSound /\ ErrorsChangeNothing

(* Commands answer what their mathematical definitions say.                *)
ReplyExact(c, m) ==
    /\ CountersExact(c, m) /\ SetAlgebraExact(c, m) /\ ZRangesExact(c, m)
    /\ BitfieldExact(c, m) /\ BitposExact(c, m)

================================================================================
