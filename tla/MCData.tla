------------------------------- MODULE MCData -------------------------------
(***************************************************************************)
(* Dataset and the data structures below it, for TLC.  They share no       *)
(* state, so a behaviour exercises one of them: machine names it, the      *)
(* others stay as they start.                                              *)
(*                                                                         *)
(* Dataset runs on keys a and b of database 0, a key w for the weights of  *)
(* SORT and database 1 as the target of MOVE.                              *)
(***************************************************************************)
EXTENDS Dataset, Dict, Intset, Ziplist, HyperLogLog

VARIABLE machine

A == <<0, "a">>
B == <<0, "b">>
W == <<0, "w">>

MCNames == {"a", "b", "w"}
MCDbs == {0, 1}
MCPatternKey == [e \in 1 .. 3 |-> IF e = 3 THEN B ELSE W]

Texts == {<<>>, <<1>>, <<2>>, <<3, 2>>, <<1, 0>>}

StringGroup ==
    {<<"SET", A, v, f, e>> : v \in {<<2>>, <<3, 2>>}, f \in {"", "NX", "XX", "syntax"},
                             e \in {"", "future", "invalid"}}
    \cup {<<"SETNX", A, <<1>>>>, <<"SETEX", A, "future", <<>>>>, <<"SETEX", A, "invalid", <<>>>>,
          <<"GET", A>>, <<"GETSET", A, <<1, 0>>>>, <<"STRLEN", A>>, <<"INCR", A>>, <<"DECR", A>>,
          <<"APPEND", A, <<2>>>>, <<"APPEND", A, <<3>>>>,
          <<"SADD", A, <<1>>>>, <<"EXPIRE", A, "future">>, <<"PERSIST", A>>, <<"DEL", <<A>>>>}
    \cup {<<"SETRANGE", A, o, v>> : o \in {-1, 0, 1}, v \in {<<>>, <<2>>}}
    \cup {<<"GETRANGE", A, i, j>> : i \in -2 .. 1, j \in -2 .. 1}
    \cup {<<x, A, v>> : x \in {"INCRBY", "DECRBY", "INCRBYFLOAT"}, v \in Texts}

BitGroup ==
    {<<"SETBIT", k, o, v>> : k \in {A, B}, o \in {0, 2}, v \in 0 .. 1}
    \cup {<<"SETBIT", A, -1, 0>>, <<"SETBIT", A, 0, 2>>, <<"GETBIT", A, 1>>,
          <<"SETBIT", A, 4, 1>>, <<"SADD", B, <<1>>>>, <<"DEL", <<B>>>>}
    \cup {<<"BITOP", o, A, ks>> : o \in {"AND", "OR", "XOR", "NOT"},
                                  ks \in {<<A, B>>, <<B>>, <<B, W>>}}
    \cup {<<"BITCOUNT", A, r>> : r \in {<<>>, <<1>>, <<0, 0>>, <<-1, 1>>, <<-1, -2>>}}
    \cup {<<"BITPOS", A, b, r>> : b \in 0 .. 1, r \in {<<>>, <<1>>, <<0, 0>>, <<-1, 1>>}}
    \cup {<<"BITFIELD", A, <<<<"INCRBY", sg, 2, 1, n, how>>>>>> :
             sg \in BOOLEAN, n \in {-2, 1}, how \in {"wrap", "sat", "fail"}}
    \cup {<<"BITFIELD", A, <<<<"SET", TRUE, 1, 0, 1, how>>, <<"GET", TRUE, 2, 1, 0, how>>,
                             <<"SET", FALSE, 1, 3, 1, how>>>>>> : how \in {"wrap", "sat"}}
    \cup {<<"BITFIELD", A, <<<<"GET", FALSE, 2, 3, 0, "wrap">>>>>>,
          <<"BITFIELD", A, <<<<"GET", FALSE, 3, 0, 0, "wrap">>>>>>}

KeyGroup ==
    {<<"SET", k, v, "", e>> : k \in {A, B}, v \in {<<1>>}, e \in {"", "future"}}
    \cup {<<"MSET", <<<<A, <<2>>>>, <<B, <<1>>>>>>>>, <<"MSETNX", <<<<A, <<2>>>>, <<B, <<2>>>>>>>>,
          <<"MGET", <<A, B>>>>, <<"SADD", A, <<1>>>>,
          <<"FLUSHDB", 0>>, <<"FLUSHDB", 1>>, <<"FLUSHALL">>, <<"DEL", <<A, B>>>>,
          <<"EXISTS", <<A, B, A>>>>, <<"TOUCH", <<A, B>>>>, <<"TYPE", A>>,
          <<"KEYS", 0, {"a"}>>, <<"SCAN", 0, {A, B}, {"a", "b"}>>, <<"DBSIZE", 0>>,
          <<"MOVE", A, 1>>, <<"MOVE", A, 0>>, <<"MOVE", A, 2>>, <<"MOVE", <<1, "a">>, 0>>,
          <<"TTL", A>>, <<"PERSIST", A>>, <<"PERSIST", B>>}
    \cup {<<"RANDOMKEY", 0, d, p>> : d \in SUBSET {A, B}, p \in 0 .. 1}
    \cup {<<x, A, B>> : x \in {"RENAME", "RENAMENX"}}
    \cup {<<x, B, A>> : x \in {"RENAME", "RENAMENX"}} \cup {<<"RENAME", A, A>>}
    \cup {<<x, A, w>> : x \in {"EXPIRE", "PEXPIREAT"}, w \in {"past", "future", "invalid"}}

SetGroup ==
    {<<x, k, <<v>>>> : x \in {"SADD", "SREM"}, k \in {A, B}, v \in 1 .. 3}
    \cup {<<"SADD", A, <<1, 2, 4>>>>, <<"SREM", A, <<1, 2>>>>, <<"SET", W, <<1>>, "", "">>,
          <<"DEL", <<W>>>>,
          <<"SCARD", A>>, <<"SISMEMBER", A, 2>>, <<"SPOP", W, 0>>, <<"SRANDMEMBER", A>>,
          <<"SMOVE", A, W, 1>>}
    \cup {<<"SMOVE", x, y, v>> : x \in {A}, y \in {A, B}, v \in 2 .. 3}
    \cup {<<"SPOP", A, p>> : p \in 0 .. 3}
    \cup {<<"SPOPCOUNT", A, n, p>> : n \in -1 .. 4, p \in 0 .. 1}
    \cup {<<"SRANDMEMBERCOUNT", A, n>> : n \in {-2, 0, 1, 5}}
    \cup {<<x, ks>> : x \in {"SINTER", "SUNION", "SDIFF"}, ks \in {<<A, B>>, <<B, A>>, <<A, A, B>>, <<A, W>>}}
    \cup {<<x, B, ks>> : x \in {"SINTERSTORE", "SUNIONSTORE", "SDIFFSTORE"},
                         ks \in {<<A, B>>, <<B, A>>, <<A, W, B>>}}

HashGroup ==
    {<<x, A, f, v>> : x \in {"HSET", "HSETNX"}, f \in {"f", "long"}, v \in {<<2>>, <<1, 0>>}}
    \cup {<<x, A, "f", v>> : x \in {"HINCRBY"}, v \in Texts}
    \cup {<<"HINCRBYFLOAT", A, "g", v>> : v \in {<<3>>, <<1>>}}
    \cup {<<"HMSET", A, <<<<"f", <<2>>>>, <<"g", <<1>>>>>>>>, <<"HMSET", A, <<<<"g", <<3, 2>>>>, <<"g", <<2>>>>>>>>,
          <<"HDEL", A, <<"f">>>>, <<"HDEL", A, <<"g", "f", "g">>>>, <<"HDEL", A, <<"long">>>>,
          <<"HGET", A, "f">>, <<"HMGET", A, <<"g", "f">>>>, <<"HLEN", A>>, <<"HSTRLEN", A, "g">>,
          <<"HGETALL", A>>, <<"HEXISTS", A, "long">>, <<"SET", A, <<1>>, "", "">>,
          <<"EXPIRE", A, "future">>}

ListGroup ==
    {<<x, k, <<v>>>> : x \in {"LPUSH", "RPUSH"}, k \in {A}, v \in 1 .. 2}
    \cup {<<"RPUSH", A, <<1, 2, 1>>>>, <<"LPUSH", B, <<1, 2>>>>}
    \cup {<<x, A, 2>> : x \in {"LPUSHX", "RPUSHX"}}
    \cup {<<"LINSERT", A, p, 1, 2>> : p \in {"before", "after", "over"}}
    \cup {<<"LSET", A, i, 2>> : i \in {-2, 0, 3}}
    \cup {<<x, k>> : x \in {"LPOP", "RPOP"}, k \in {A, B}}
    \cup {<<"LTRIM", A, i, j>> : i \in {-1, 0, 1}, j \in {-2, 0, 1}}
    \cup {<<"LREM", A, n, 1>> : n \in -1 .. 1}
    \cup {<<x, k, l>> : x \in {"RPOPLPUSH", "BRPOPLPUSH"}, k \in {A, B}, l \in {A, B}}
    \cup {<<x, ks>> : x \in {"BLPOP", "BRPOP"}, ks \in {<<A>>, <<B, A>>}}
    \cup {<<"LLEN", A>>, <<"LINDEX", A, -1>>, <<"LRANGE", A, 0, -1>>, <<"EXPIRE", A, "future">>,
          <<"SET", B, <<1>>, "", "">>}

ZRanges == {<<x, xx, y, yx>> : x \in {0, 2}, xx \in BOOLEAN, y \in {1, 2}, yx \in BOOLEAN}

ZSetGroup ==
    {<<"ZADD", A, {}, <<<<x, m>>>>>> : x \in {0, 2}, m \in 1 .. 3}
    \cup {<<"ZADD", A, f, <<<<2, 1>>>>>> : f \in (SUBSET {"nx", "xx", "ch", "incr"}) \ {{}}}
    \cup {<<"ZADD", A, {}, <<<<3, 1>>, <<1, 2>>>>>>, <<"ZADD", A, {"incr"}, <<<<-3, 1>>>>>>,
          <<"ZADD", A, {"incr"}, <<<<1, 1>>, <<1, 2>>>>>>, <<"ZADD", A, {}, <<<<4, 1>>>>>>,
          <<"ZREM", A, <<1>>>>, <<"ZREM", A, <<2, 3, 2>>>>, <<"ZCARD", A>>, <<"ZSCORE", A, 1>>,
          <<"ZRANK", A, 2>>, <<"ZREVRANK", A, 2>>, <<"ZRANGE", A, 0, -2>>, <<"ZREVRANGE", A, 0, 0>>,
          <<"ZREMRANGEBYRANK", A, <<0, -2>>>>, <<"ZREMRANGEBYRANK", A, <<1, 5>>>>,
          <<"SADD", B, <<2, 3>>>>, <<"DEL", <<B>>>>}
    \cup {<<"ZREMRANGEBYSCORE", A, r>> : r \in {<<0, TRUE, 2, FALSE>>, <<1, FALSE, 1, TRUE>>}}
    \cup {<<x, A, r>> : x \in {"ZCOUNT"}, r \in ZRanges}
    \cup {<<x, A, r, o, IF o = 0 THEN -1 ELSE 1>> :
             x \in {"ZRANGEBYSCORE", "ZREVRANGEBYSCORE"}, r \in ZRanges, o \in {0, 1}}
    \cup {<<x, A, ks, <<2, 1>>, g>> : x \in {"ZUNIONSTORE", "ZINTERSTORE"}, ks \in {<<A, B>>, <<B, A>>},
                                      g \in {"sum", "min", "max", "avg"}}

SortGroup ==
    {<<"SADD", A, <<v>>>> : v \in 1 .. 3} \cup {<<"SREM", A, <<1>>>>}
    \cup {<<"RPUSH", A, <<2, 1>>>>, <<"ZADD", A, {}, <<<<1, 1>>, <<0, 2>>>>>>, <<"DEL", <<A>>>>,
          <<"SET", B, <<2>>, "", "">>, <<"SET", W, <<3>>, "", "">>, <<"SET", W, <<2>>, "", "">>}
    \cup {<<"SORT", A, by, al, d, i, n, st>> : by \in {"", "nosort", "pattern"}, al \in {FALSE},
             d \in BOOLEAN, i \in {0, 1}, n \in {-1, 1}, st \in {NoDst, <<1, "a">>}}
    \cup {<<"SORT", A, "", TRUE, d, 0, -1, <<1, "a">>>> : d \in BOOLEAN}
    \cup {<<"SORT", A, "pattern", TRUE, d, 0, -1, NoDst>> : d \in BOOLEAN}

LexRanges == {<<x, xx, y, yx>> : x \in {minstring, 1, 2}, xx \in BOOLEAN,
                                 y \in {1, 3, maxstring}, yx \in BOOLEAN}

LexGroup ==
    {<<"ZADD", A, {}, <<<<0, m>>>>>> : m \in {1, 2, 4}} \cup {<<"ZREM", A, <<2>>>>}
    \cup {<<"ZLEXCOUNT", A, r>> : r \in LexRanges}
    \cup {<<x, A, r, o, -1>> : x \in {"ZRANGEBYLEX", "ZREVRANGEBYLEX"}, r \in LexRanges, o \in {0, 1}}
    \cup {<<"ZREMRANGEBYLEX", A, r>> : r \in {<<2, FALSE, maxstring, FALSE>>, <<1, TRUE, 3, FALSE>>}}

MCGroups == <<StringGroup, BitGroup, KeyGroup, SetGroup, HashGroup, ListGroup, ZSetGroup, SortGroup,
              LexGroup, {}>>

-----------------------------------------------------------------------------
MCHashOf == <<0, 2, 4>>
MCDictVals == <<{1, 2}, {1}, {1}>>

MCIntsetValues == {-100, -9, -7, -2, 0, 1, 5, 8, 100}

MCZipElements == {<<"i", 1, 0>>, <<"s", 2, 4>>, <<"s", 3, 8>>}

MCHllKeys == {"x", "y"}
MCHllElements ==
    [x |-> {<<>>, <<<<1, 2>>, <<0, 1>>>>, <<<<1, 5>>>>, <<<<5, 1>>>>}
             \cup {<<<<i, c>>>> : i \in 0 .. 2, c \in {1, 2}},
     y |-> {<<<<1, 1>>, <<7, 9>>>>}]
MCHllMerges == {<<"x", "y">>}

-----------------------------------------------------------------------------
dataVars == <<machine, datasetVars, dictVars, intsetVars, ziplistVars, hllVars>>

DataInit ==
    /\ machine \in {"dataset", "dict", "intset", "ziplist", "hll"}
    /\ DatasetInit /\ DictInit /\ IntsetInit /\ ZiplistInit /\ HllInit
    /\ (machine = "dataset") = (MCGroups[group] # {})

DataNext ==
    \/ /\ machine = "dataset" /\ DatasetNext
       /\ UNCHANGED <<machine, dictVars, intsetVars, ziplistVars, hllVars>>
    \/ /\ machine = "dict" /\ DictNext
       /\ UNCHANGED <<machine, datasetVars, intsetVars, ziplistVars, hllVars>>
    \/ /\ machine = "intset" /\ IntsetNext
       /\ UNCHANGED <<machine, datasetVars, dictVars, ziplistVars, hllVars>>
    \/ /\ machine = "ziplist" /\ ZiplistNext
       /\ UNCHANGED <<machine, datasetVars, dictVars, intsetVars, hllVars>>
    \/ /\ machine = "hll" /\ HllNext
       /\ UNCHANGED <<machine, datasetVars, dictVars, intsetVars, ziplistVars>>

DataSpec == DataInit /\ [][DataNext]_dataVars

=============================================================================
