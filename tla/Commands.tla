-------------------------------- MODULE Commands --------------------------------
(***************************************************************************)
(* The commands of redisCommandTable that work on the dataset, and call(), *)
(* the core of the execution of a command (redis-stable/src/server.c).     *)
(***************************************************************************)
EXTENDS Bitmaps, Hashes, KeyCommands, Sort

(* The procedures of redisCommandTable.                                    *)
Proc(s, c) ==
    CASE c[1] \in StringNames -> StringProc(s, c)
      [] c[1] \in BitNames -> BitProc(s, c)
      [] c[1] \in HashNames -> HashProc(s, c)
      [] c[1] \in ListNames -> ListProc(s, c)
      [] c[1] \in SetNames -> SetProc(s, c)
      [] c[1] \in ZSetNames -> ZSetProc(s, c)
      [] c[1] \in SortNames -> SortProc(s, c)
      [] c[1] \in KeyNames -> KeyProc(s, c)

(* Flags of redisCommandTable: r, w (the rest of the dataset's commands),  *)
(* m (refused when out of memory), t (answered by a replica that lost its  *)
(* master) and l (answered while loading).                                 *)
ReadOnlyNames ==
    {"GET", "MGET", "GETRANGE", "STRLEN", "GETBIT", "BITCOUNT", "BITPOS", "SISMEMBER",
     "SCARD", "SRANDMEMBER", "SRANDMEMBERCOUNT", "SINTER", "SUNION", "SDIFF", "HGET",
     "HMGET", "HLEN", "HSTRLEN", "HGETALL", "HEXISTS", "LLEN", "LINDEX", "LRANGE", "ZRANGE",
     "ZREVRANGE", "ZRANGEBYSCORE", "ZREVRANGEBYSCORE", "ZRANGEBYLEX", "ZREVRANGEBYLEX",
     "ZCOUNT", "ZLEXCOUNT", "ZCARD", "ZSCORE", "ZRANK", "ZREVRANK", "EXISTS", "TOUCH",
     "TYPE", "RANDOMKEY", "KEYS", "SCAN", "DBSIZE", "TTL"}

DatasetNames == StringNames \cup BitNames \cup HashNames \cup ListNames \cup SetNames
                \cup ZSetNames \cup SortNames \cup KeyNames

WriteNames == DatasetNames \ ReadOnlyNames

DenyOomNames == WriteNames \
    {"DEL", "RPOP", "LPOP", "BRPOP", "BLPOP", "LTRIM", "LREM", "SREM", "SMOVE", "SPOP",
     "SPOPCOUNT", "ZREM", "ZREMRANGEBYSCORE", "ZREMRANGEBYRANK", "ZREMRANGEBYLEX", "HDEL",
     "MOVE", "RENAME", "RENAMENX", "EXPIRE", "EXPIREAT", "PEXPIRE", "PEXPIREAT", "FLUSHDB",
     "FLUSHALL", "PERSIST"}

PubSubNames == {"SUBSCRIBE", "UNSUBSCRIBE", "PSUBSCRIBE", "PUNSUBSCRIBE", "PUBLISH"}

StaleNames == PubSubNames \cup {"PING", "SLAVEOF"}

LoadingNames == PubSubNames

call(s, c) == endCall(Proc(beginCall(s, c), c))
=================================================================================
