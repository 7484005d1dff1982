---------------------------------- MODULE ZSets ----------------------------------
(***************************************************************************)
(* The sorted set commands (redis-stable/src/t_zset.c).  A sorted set is   *)
(* <<"zset", "ziplist", entries>> with its <<member, score>> entries in    *)
(* order, or <<"zset", "skiplist", <<entries, dict>>>> with a dictionary   *)
(* from members to scores beside the ordered entries of the skiplist (the  *)
(* levels of a skiplist are the subject of module Skiplist).               *)
(*                                                                         *)
(* Members are integers in their lexicographic order.  Scores are integers *)
(* in -Inf .. Inf whose ends are the infinities.                           *)
(***************************************************************************)
EXTENDS Keyspace
LOCAL INSTANCE SequencesExt
LOCAL INSTANCE FiniteSetsExt

CONSTANTS Inf,                     \* the infinite score
          LongMembers,             \* the members too long for a ziplist
          ZsetMaxZiplistEntries    \* server.zset_max_ziplist_entries

NaN == Inf + 1

(* The arithmetic of doubles.                                              *)
Clamp(x) == IF x > Inf THEN Inf ELSE IF x < -Inf THEN -Inf ELSE x
Plus(x, y) ==
    IF NaN \in {x, y} \/ {x, y} = {Inf, -Inf} THEN NaN
    ELSE IF Inf \in {x, y} THEN Inf
    ELSE IF -Inf \in {x, y} THEN -Inf
    ELSE Clamp(x + y)
Times(x, y) ==
    IF NaN \in {x, y} \/ (0 \in {x, y} /\ {x, y} \cap {Inf, -Inf} # {}) THEN NaN
    ELSE Clamp(x * y)

-------------------------------------------------------------------------------
(* Ranges: <<min, minex, max, maxex>>, over scores or, for the lex         *)
(* commands, over members, with the sentinels for "-" and "+".             *)

minstring == -1000
maxstring == 1000

zslValueGteMin(x, r) == IF r[2] THEN x > r[1] ELSE x >= r[1]
zslValueLteMax(x, r) == IF r[4] THEN x < r[3] ELSE x <= r[3]

zslLexValueGteMin(m, r) == zslValueGteMin(m, r)
zslLexValueLteMax(m, r) == zslValueLteMax(m, r)

EmptyRange(r) == r[1] > r[3] \/ (r[1] = r[3] /\ (r[2] \/ r[4]))

(* A min that exceeds max by one only is let through.                      *)
EmptyLexRange(r) == r[1] - r[3] > 1 \/ (r[1] = r[3] /\ (r[2] \/ r[4]))

-------------------------------------------------------------------------------
(* Ziplists of entries.                                                    *)

createZsetZiplistObject == <<"zset", "ziplist", <<>>>>
createZsetObject == <<"zset", "skiplist", <<<<>>, <<>>>>>>

Position(zl, Test(_)) == SelectInSeq(zl, Test)

LastPosition(zl, Test(_)) == SelectLastInSeq(zl, Test)

zzlFind(zl, m) ==
    LET i == Position(zl, LAMBDA e : e[1] = m)
    IN  IF i = 0 THEN {} ELSE {zl[i][2]}

zzlDelete(zl, m) == SelectSeq(zl, LAMBDA e : e[1] # m)

zzlInsertAt(zl, i, m, score) == InsertAt(zl, i, <<m, score>>)

(* Before the first entry with a greater score, or the same score and a    *)
(* greater member.                                                         *)
zzlInsert(zl, m, score) ==
    LET i == Position(zl, LAMBDA e : e[2] > score \/ (e[2] = score /\ e[1] > m))
    IN  zzlInsertAt(zl, IF i = 0 THEN Len(zl) + 1 ELSE i, m, score)

zzlIsInRange(zl, r) ==
    /\ ~EmptyRange(r)
    /\ zl # <<>>
    /\ zslValueGteMin(zl[Len(zl)][2], r)
    /\ zslValueLteMax(zl[1][2], r)

(* The first and the last entry in range, 0 when there is none.            *)
zzlFirstInRange(zl, r) ==
    LET i == Position(zl, LAMBDA e : zslValueGteMin(e[2], r))
    IN  IF zzlIsInRange(zl, r) /\ zslValueLteMax(zl[i][2], r) THEN i ELSE 0

zzlLastInRange(zl, r) ==
    LET i == LastPosition(zl, LAMBDA e : zslValueLteMax(e[2], r))
    IN  IF zzlIsInRange(zl, r) /\ zslValueGteMin(zl[i][2], r) THEN i ELSE 0

zzlIsInLexRange(zl, r) ==
    /\ ~EmptyLexRange(r)
    /\ zl # <<>>
    /\ zslLexValueGteMin(zl[Len(zl)][1], r)
    /\ zslLexValueLteMax(zl[1][1], r)

zzlFirstInLexRange(zl, r) ==
    LET i == Position(zl, LAMBDA e : zslLexValueGteMin(e[1], r))
    IN  IF zzlIsInLexRange(zl, r) /\ zslLexValueLteMax(zl[i][1], r) THEN i ELSE 0

zzlLastInLexRange(zl, r) ==
    LET i == LastPosition(zl, LAMBDA e : zslLexValueLteMax(e[1], r))
    IN  IF zzlIsInLexRange(zl, r) /\ zslLexValueGteMin(zl[i][1], r) THEN i ELSE 0

(* The entries without the run from position i on that passes the test.    *)
WithoutRun(zl, i, Test(_)) ==
    LET rest == SubSeq(zl, i, Len(zl))
        stop == Position(rest, LAMBDA e : ~Test(e))
    IN  IF i = 0 THEN zl
        ELSE SubSeq(zl, 1, i - 1) \o
             (IF stop = 0 THEN <<>> ELSE SubSeq(rest, stop, Len(rest)))

zzlDeleteRangeByScore(zl, r) ==
    WithoutRun(zl, zzlFirstInRange(zl, r), LAMBDA e : zslValueLteMax(e[2], r))

zzlDeleteRangeByLex(zl, r) ==
    WithoutRun(zl, zzlFirstInLexRange(zl, r), LAMBDA e : zslLexValueLteMax(e[1], r))

(* start and end count from 1.                                             *)
zzlDeleteRangeByRank(zl, start, end) ==
    SubSeq(zl, 1, start - 1) \o SubSeq(zl, end + 1, Len(zl))

-------------------------------------------------------------------------------
(* Sorted sets of either encoding.                                         *)

Entries(o) == IF o[2] = "ziplist" THEN o[3] ELSE o[3][1]

DictOf(zl) ==
    [m \in {zl[i][1] : i \in DOMAIN zl} |-> CHOOSE x \in zzlFind(zl, m) : TRUE]

zsetLength(o) == Len(Entries(o))

zsetConvert(o, enc) ==
    IF o[2] = enc THEN o
    ELSE IF enc = "skiplist" THEN <<"zset", enc, <<o[3], DictOf(o[3])>>>>
    ELSE <<"zset", enc, o[3][1]>>

zsetConvertToZiplistIfNeeded(o, members) ==
    IF /\ zsetLength(o) <= ZsetMaxZiplistEntries
       /\ members \cap LongMembers = {}
    THEN zsetConvert(o, "ziplist") ELSE o

(* The score of a member, as a set; the dictionary answers for a skiplist. *)
zsetScore(o, m) ==
    IF o[2] = "ziplist" THEN zzlFind(o[3], m)
    ELSE IF m \in DOMAIN o[3][2] THEN {o[3][2][m]} ELSE {}

(* A new member, in both parts of a skiplist.                              *)
Inserted(o, m, score) ==
    IF o[2] = "ziplist" THEN <<"zset", "ziplist", zzlInsert(o[3], m, score)>>
    ELSE <<"zset", "skiplist",
           <<zzlInsert(o[3][1], m, score),
             [n \in DOMAIN o[3][2] \cup {m} |-> IF n = m THEN score ELSE o[3][2][n]]>>>>

Deleted(o, m) ==
    IF o[2] = "ziplist" THEN <<"zset", "ziplist", zzlDelete(o[3], m)>>
    ELSE <<"zset", "skiplist",
           <<zzlDelete(o[3][1], m), [n \in DOMAIN o[3][2] \ {m} |-> o[3][2][n]]>>>>

StoreZset(s, k, o) ==
    IF zsetLength(o) = 0 THEN dbDelete(s, k) ELSE dbOverwrite(s, k, o)

(* The range deletions of a skiplist do not test the ends first.           *)
zslDeleteRangeByScore(zl, r) ==
    WithoutRun(zl, Position(zl, LAMBDA e : zslValueGteMin(e[2], r)),
               LAMBDA e : zslValueLteMax(e[2], r))

zslDeleteRangeByLex(zl, r) ==
    WithoutRun(zl, Position(zl, LAMBDA e : zslLexValueGteMin(e[1], r)),
               LAMBDA e : zslLexValueLteMax(e[1], r))

-------------------------------------------------------------------------------
(* ZADD and ZINCRBY.  flags is a subset of {"nx", "xx", "ch", "incr"} and  *)
(* pairs a sequence of <<score, member>>.                                  *)

(* The score is changed in the order only, not in the dictionary.          *)
ZaddKeepsDict(flags, a, pair) ==
    LET m == pair[2]
        cur == zsetScore(a.o, m)
        grown == Inserted(a.o, m, pair[1])
        moved == zzlInsert(zzlDelete(Entries(a.o), m), m, pair[1])
    IN  IF cur = {}
        THEN [a EXCEPT !.o = IF zsetLength(grown) > ZsetMaxZiplistEntries
                             THEN zsetConvert(grown, "skiplist") ELSE grown,
                       !.score = pair[1], !.added = @ + 1, !.processed = @ + 1]
        ELSE [a EXCEPT !.o = IF @[2] = "ziplist" THEN <<"zset", "ziplist", moved>>
                             ELSE <<"zset", "skiplist", <<moved, @[3][2]>>>>,
                       !.score = pair[1], !.updated = @ + 1, !.processed = @ + 1]

(* One pair: the set, the score and how many were added, updated and       *)
(* processed so far; nan ends the command.                                 *)
ZaddNew(flags, a, m, grown, score) ==
    IF "xx" \in flags THEN a
    ELSE [a EXCEPT !.o = IF zsetLength(grown) > ZsetMaxZiplistEntries \/ m \in LongMembers
                         THEN zsetConvert(grown, "skiplist") ELSE grown,
                   !.score = score, !.added = @ + 1, !.processed = @ + 1]

ZaddKnown(flags, a, m, old, score) ==
    IF "nx" \in flags THEN a
    ELSE IF score = NaN THEN [a EXCEPT !.nan = TRUE]
    ELSE IF score = old THEN [a EXCEPT !.score = score, !.processed = @ + 1]
    ELSE [a EXCEPT !.o = Inserted(Deleted(@, m), m, score), !.score = score,
                   !.updated = @ + 1, !.processed = @ + 1]

ZaddOne(flags, a, pair) ==
    LET m == pair[2]
        cur == zsetScore(a.o, m)
        old == CHOOSE x \in cur : TRUE
    IN  IF a.nan THEN a
        ELSE IF cur = {} THEN ZaddNew(flags, a, m, Inserted(a.o, m, pair[1]), pair[1])
        ELSE ZaddKnown(flags, a, m, old,
                       IF "incr" \in flags THEN Plus(pair[1], old) ELSE pair[1])

(* The object the pairs go into.                                           *)
ZsetFor(o, pairs) ==
    IF o # None THEN o
    ELSE IF ZsetMaxZiplistEntries = 0 \/ pairs[1][2] \in LongMembers THEN createZsetObject
    ELSE createZsetZiplistObject

ZaddAll(o, flags, pairs) ==
    FoldLeft(LAMBDA a, p : ZaddOne(flags, a, p),
             [o |-> o, score |-> 0, added |-> 0, updated |-> 0, processed |-> 0,
              nan |-> FALSE], pairs)

ZaddStore(s, k, end) ==
    IF end.added + end.updated > 0
    THEN Dirty(signalModifiedKey(dbSet(s, k, end.o), k), end.added + end.updated)
    ELSE dbSet(s, k, end.o)

ZaddReply(s, flags, end) ==
    IF end.nan THEN Error(s, "resulting score is not a number")
    ELSE IF "incr" \notin flags
         THEN Reply(s, <<"int", end.added + (IF "ch" \in flags THEN end.updated ELSE 0)>>)
    ELSE IF end.processed > 0 THEN Reply(s, <<"double", end.score>>)
    ELSE Reply(s, <<"nil">>)

ZaddEnd(s, k, flags, end) == ZaddReply(ZaddStore(s, k, end), flags, end)

ZaddTo(s, k, flags, pairs) ==
    IF s.db[k] = None /\ "xx" \in flags
    THEN Reply(s, IF "incr" \in flags THEN <<"nil">> ELSE <<"int", 0>>)
    ELSE IF checkType(s.db[k], "zset") THEN Error(s, "wrong type")
    ELSE ZaddEnd(s, k, flags, ZaddAll(ZsetFor(s.db[k], pairs), flags, pairs))

zaddGenericCommand(s, k, flags, pairs) ==
    IF {"nx", "xx"} \subseteq flags THEN Error(s, "XX and NX")
    ELSE IF "incr" \in flags /\ Len(pairs) > 1 THEN Error(s, "single pair")
    ELSE IF \E i \in DOMAIN pairs : pairs[i][1] = NaN THEN Error(s, "not a float")
    ELSE ZaddTo(lookupKeyWrite(s, k), k, flags, pairs)

-------------------------------------------------------------------------------
(* Removals.                                                               *)

ZremFrom(s, k, o, ms, gone) ==
    IF gone = {} THEN Reply(s, <<"int", 0>>)
    ELSE Reply(Dirty(signalModifiedKey(StoreZset(s, k, FoldLeft(Deleted, o, ms)), k),
                     Cardinality(gone)), <<"int", Cardinality(gone)>>)

ZremFound(s, k, o, ms) ==
    IF o = None THEN Reply(s, <<"int", 0>>)
    ELSE IF checkType(o, "zset") THEN Error(s, "wrong type")
    ELSE ZremFrom(s, k, o, ms, {m \in ToSet(ms) : zsetScore(o, m) # {}})

ZremOf(s, k, ms) == ZremFound(s, k, s.db[k], ms)

zremCommand(s, k, ms) == ZremOf(lookupKeyWrite(s, k), k, ms)

(* <<first, last>> counted from 0; first is greater than last when empty.  *)
RankBounds(len, start, end) ==
    LET from == IF start < 0 THEN len + start ELSE start
        lo == IF from < 0 THEN 0 ELSE from
        hi == IF end < 0 THEN len + end ELSE end
    IN  IF lo > hi \/ lo >= len THEN <<1, 0>>
        ELSE <<lo, IF hi >= len THEN len - 1 ELSE hi>>

(* A sorted set with other entries.                                        *)
WithEntries(o, zl) ==
    IF o[2] = "ziplist" THEN <<"zset", "ziplist", zl>>
    ELSE <<"zset", "skiplist", <<zl, DictOf(zl)>>>>

(* type is "rank", "score" or "lex"; range is <<start, end>> for a rank.   *)
(* What is left of the entries.                                            *)
ZremrangeRest(o, zl, type, range, b) ==
    CASE type = "rank" ->
           IF b[1] > b[2] THEN zl ELSE zzlDeleteRangeByRank(zl, b[1] + 1, b[2] + 1)
      [] type = "score" ->
           IF o[2] = "ziplist" THEN zzlDeleteRangeByScore(zl, range)
           ELSE zslDeleteRangeByScore(zl, range)
      [] type = "lex" ->
           IF o[2] = "ziplist" THEN zzlDeleteRangeByLex(zl, range)
           ELSE zslDeleteRangeByLex(zl, range)

KeepEntries(s, k, o, rest, n) ==
    IF n = 0 THEN Reply(s, <<"int", 0>>)
    ELSE Reply(Dirty(signalModifiedKey(StoreZset(s, k, WithEntries(o, rest)), k), n),
               <<"int", n>>)

RemoveAllBut(s, k, o, rest) == KeepEntries(s, k, o, rest, zsetLength(o) - Len(rest))

ZremrangeOf(s, k, o, type, range) ==
    IF o = None THEN Reply(s, <<"int", 0>>)
    ELSE IF checkType(o, "zset") THEN Error(s, "wrong type")
    ELSE RemoveAllBut(s, k, o, ZremrangeRest(o, Entries(o), type, range,
                                             RankBounds(zsetLength(o), range[1], range[2])))

ZremrangeFound(s, k, type, range) == ZremrangeOf(s, k, s.db[k], type, range)

zremrangeGenericCommand(s, k, type, range) ==
    ZremrangeFound(lookupKeyWrite(s, k), k, type, range)

-------------------------------------------------------------------------------
(* ZUNIONSTORE and ZINTERSTORE.  A source is a set, whose members all have *)
(* the score 1, or a sorted set, with the weight given to it.              *)

(* What zuiInitIterator(), zuiNext() and zuiFind() make of an object: its  *)
(* members and scores.                                                     *)
zuiNext(o) ==
    IF o = None THEN <<>>
    ELSE IF Type(o) = "set" THEN [m \in o[3] |-> 1]
    ELSE IF o[2] = "ziplist" THEN DictOf(o[3])
    ELSE o[3][2]

zuiLength(o) == Cardinality(DOMAIN zuiNext(o))

zuiCompareByCardinality(a, b) == zuiLength(a[1]) < zuiLength(b[1])

zunionInterAggregate(target, val, aggregate) ==
    CASE aggregate = "sum" -> IF Plus(target, val) = NaN THEN 0 ELSE Plus(target, val)
      [] aggregate = "min" -> IF val # NaN /\ val < target THEN val ELSE target
      [] aggregate = "max" -> IF val # NaN /\ val > target THEN val ELSE target

Weighted(src, m) == Times(src[2], zuiNext(src[1])[m])
OrZero(x) == IF x = NaN THEN 0 ELSE x

(* src is the sequence of <<object, weight>>, smallest object first.  Only *)
(* the first product is protected from being NaN.                          *)
InterScores(src, aggregate) ==
    [m \in {x \in DOMAIN zuiNext(src[1][1]) :
                 \A i \in DOMAIN src : x \in DOMAIN zuiNext(src[i][1])} |->
        FoldLeft(LAMBDA score, source :
                     zunionInterAggregate(score, Weighted(source, m), aggregate),
                 OrZero(Weighted(src[1], m)), Tail(src))]

UnionScores(src, aggregate) ==
    [m \in UNION {DOMAIN zuiNext(src[i][1]) : i \in DOMAIN src} |->
        LET has == SelectSeq(src, LAMBDA source : m \in DOMAIN zuiNext(source[1]))
        IN  FoldLeft(LAMBDA score, source :
                         zunionInterAggregate(score, OrZero(Weighted(source, m)), aggregate),
                     OrZero(Weighted(has[1], m)), Tail(has))]

FromScores(scores) ==
    FoldSet(LAMBDA m, o : Inserted(o, m, scores[m]), createZsetObject, DOMAIN scores)

(* The sources that are neither sets nor sorted sets.                      *)
BadSources(s, ks) ==
    {i \in DOMAIN ks : s.db[ks[i]] # None /\ Type(s.db[ks[i]]) \notin {"set", "zset"}}

Sources(s, ks, weights) ==
    SortSeq([i \in DOMAIN ks |-> <<s.db[ks[i]], weights[i]>>], zuiCompareByCardinality)

AddZset(s, dst, o) == Modified(dbAdd(s, dst, o), dst, <<"int", zsetLength(o)>>)

StoreScores(s, dst, scores) ==
    IF DOMAIN scores # {}
    THEN AddZset(dbDelete(s, dst), dst,
                 zsetConvertToZiplistIfNeeded(FromScores(scores), DOMAIN scores))
    ELSE IF dbExists(s, dst) THEN Modified(dbDelete(s, dst), dst, <<"int", 0>>)
    ELSE Reply(s, <<"int", 0>>)

ZunionInterFound(s, dst, src, aggregate, op) ==
    IF aggregate \notin {"sum", "min", "max"} THEN Error(s, "syntax")
    ELSE StoreScores(s, dst, IF op = "inter" THEN InterScores(src, aggregate)
                             ELSE UnionScores(src, aggregate))

ZunionInterRead(s, dst, ks, weights, aggregate, op) ==
    ZunionInterFound(s, dst, Sources(s, ks, weights), aggregate, op)

zunionInterGenericCommand(s, dst, ks, weights, aggregate, op) ==
    LET bad == BadSources(lookedUp(s, ks), ks)
    IN  IF ks = <<>> THEN Error(s, "at least 1 input key")
        ELSE IF bad # {} THEN Error(lookedUp(s, SubSeq(ks, 1, Min(bad))), "wrong type")
        ELSE ZunionInterRead(lookedUp(s, ks), dst, ks, weights, aggregate, op)

-------------------------------------------------------------------------------
(* Reads.                                                                  *)

ReadFound(s, o, missing, Answer(_)) ==
    IF o = None THEN Reply(s, missing)
    ELSE IF checkType(o, "zset") THEN Error(s, "wrong type")
    ELSE Reply(s, Answer(o))

ReadZset(s, k, missing, Answer(_)) ==
    ReadFound(expireIfNeeded(s, k), lookupKeyRead(s, k), missing, Answer)

zrangeGenericCommand(s, k, start, end, reverse) ==
    ReadZset(s, k, <<"multi", <<>>>>, LAMBDA o :
        LET zl == IF reverse THEN Reverse(Entries(o)) ELSE Entries(o)
            b == RankBounds(Len(zl), start, end)
        IN  <<"multi", SubSeq(zl, b[1] + 1, b[2] + 1)>>)

(* The entries from position i on, backwards if reverse: offset of them    *)
(* are skipped without a look, then at most limit (if it is not negative)  *)
(* are taken up to the first that fails the test.  A negative offset skips *)
(* them all.                                                               *)
(* At most limit of the entries before the first that fails the test.      *)
TakeRun(rest, limit, Test(_)) ==
    LET stop == Position(rest, LAMBDA e : ~Test(e))
        n == IF stop = 0 THEN Len(rest) ELSE stop - 1
    IN  SubSeq(rest, 1, IF limit < 0 \/ limit > n THEN n ELSE limit)

Walk(zl, i, reverse, offset, limit, Test(_)) ==
    LET path == IF i = 0 THEN <<>>
                ELSE IF reverse THEN Reverse(SubSeq(zl, 1, i)) ELSE SubSeq(zl, i, Len(zl))
    IN  TakeRun(IF offset < 0 THEN <<>> ELSE SubSeq(path, offset + 1, Len(path)), limit, Test)

(* Mutant: a reverse walk stops at the test of a forward one.              *)
ReverseStopsAtMax(s, k, r, offset, limit, reverse) ==
    ReadZset(s, k, <<"multi", <<>>>>, LAMBDA o :
        LET zl == Entries(o)
            first == IF reverse THEN zzlLastInRange(zl, r) ELSE zzlFirstInRange(zl, r)
        IN  <<"multi", Walk(zl, first, reverse, offset, limit,
                            LAMBDA e : zslValueLteMax(e[2], r))>>)

genericZrangebyscoreCommand(s, k, r, offset, limit, reverse) ==
    ReadZset(s, k, <<"multi", <<>>>>, LAMBDA o :
        LET zl == Entries(o)
        IN  <<"multi",
              IF reverse
              THEN Walk(zl, zzlLastInRange(zl, r), TRUE, offset, limit,
                        LAMBDA e : zslValueGteMin(e[2], r))
              ELSE Walk(zl, zzlFirstInRange(zl, r), FALSE, offset, limit,
                        LAMBDA e : zslValueLteMax(e[2], r))>>)

genericZrangebylexCommand(s, k, r, offset, limit, reverse) ==
    ReadZset(s, k, <<"multi", <<>>>>, LAMBDA o :
        LET zl == Entries(o)
        IN  <<"multi",
              IF reverse
              THEN Walk(zl, zzlLastInLexRange(zl, r), TRUE, offset, limit,
                        LAMBDA e : zslLexValueGteMin(e[1], r))
              ELSE Walk(zl, zzlFirstInLexRange(zl, r), FALSE, offset, limit,
                        LAMBDA e : zslLexValueLteMax(e[1], r))>>)

(* A ziplist is walked; a skiplist takes the difference of two ranks.      *)
CountRun(o, first, last, Test(_)) ==
    IF first = 0 THEN 0
    ELSE IF o[2] = "ziplist" THEN Len(Walk(Entries(o), first, FALSE, 0, -1, Test))
    ELSE (zsetLength(o) - (first - 1))
         - (IF last = 0 THEN 0 ELSE zsetLength(o) - last)

zcountCommand(s, k, r) ==
    ReadZset(s, k, <<"int", 0>>, LAMBDA o :
        <<"int", CountRun(o, zzlFirstInRange(Entries(o), r), zzlLastInRange(Entries(o), r),
                          LAMBDA e : zslValueLteMax(e[2], r))>>)

zlexcountCommand(s, k, r) ==
    ReadZset(s, k, <<"int", 0>>, LAMBDA o :
        <<"int", CountRun(o, zzlFirstInLexRange(Entries(o), r),
                          zzlLastInLexRange(Entries(o), r),
                          LAMBDA e : zslLexValueLteMax(e[1], r))>>)

zcardCommand(s, k) ==
    ReadZset(s, k, <<"int", 0>>, LAMBDA o : <<"int", zsetLength(o)>>)

zscoreCommand(s, k, m) ==
    ReadZset(s, k, <<"nil">>, LAMBDA o :
        IF zsetScore(o, m) = {} THEN <<"nil">>
        ELSE <<"double", CHOOSE x \in zsetScore(o, m) : TRUE>>)

zrankGenericCommand(s, k, m, reverse) ==
    ReadZset(s, k, <<"nil">>, LAMBDA o :
        LET rank == Position(Entries(o), LAMBDA e : e[1] = m)
        IN  IF rank = 0 THEN <<"nil">>
            ELSE <<"int", IF reverse THEN zsetLength(o) - rank ELSE rank - 1>>)

-------------------------------------------------------------------------------
(* The sorted set commands of redisCommandTable.                           *)

ZSetNames == {"ZADD", "ZREM", "ZREMRANGEBYRANK", "ZREMRANGEBYSCORE", "ZREMRANGEBYLEX",
              "ZUNIONSTORE", "ZINTERSTORE", "ZRANGE", "ZREVRANGE", "ZRANGEBYSCORE",
              "ZREVRANGEBYSCORE", "ZRANGEBYLEX", "ZREVRANGEBYLEX", "ZCOUNT", "ZLEXCOUNT",
              "ZCARD", "ZSCORE", "ZRANK", "ZREVRANK"}

ZSetProc(s, c) ==
    CASE c[1] = "ZADD" -> zaddGenericCommand(s, c[2], c[3], c[4])
      [] c[1] = "ZREM" -> zremCommand(s, c[2], c[3])
      [] c[1] = "ZREMRANGEBYRANK" -> zremrangeGenericCommand(s, c[2], "rank", c[3])
      [] c[1] = "ZREMRANGEBYSCORE" -> zremrangeGenericCommand(s, c[2], "score", c[3])
      [] c[1] = "ZREMRANGEBYLEX" -> zremrangeGenericCommand(s, c[2], "lex", c[3])
      [] c[1] = "ZUNIONSTORE" -> zunionInterGenericCommand(s, c[2], c[3], c[4], c[5], "union")
      [] c[1] = "ZINTERSTORE" -> zunionInterGenericCommand(s, c[2], c[3], c[4], c[5], "inter")
      [] c[1] = "ZRANGE" -> zrangeGenericCommand(s, c[2], c[3], c[4], FALSE)
      [] c[1] = "ZREVRANGE" -> zrangeGenericCommand(s, c[2], c[3], c[4], TRUE)
      [] c[1] = "ZRANGEBYSCORE" ->
             genericZrangebyscoreCommand(s, c[2], c[3], c[4], c[5], FALSE)
      [] c[1] = "ZREVRANGEBYSCORE" ->
             genericZrangebyscoreCommand(s, c[2], c[3], c[4], c[5], TRUE)
      [] c[1] = "ZRANGEBYLEX" -> genericZrangebylexCommand(s, c[2], c[3], c[4], c[5], FALSE)
      [] c[1] = "ZREVRANGEBYLEX" -> genericZrangebylexCommand(s, c[2], c[3], c[4], c[5], TRUE)
      [] c[1] = "ZCOUNT" -> zcountCommand(s, c[2], c[3])
      [] c[1] = "ZLEXCOUNT" -> zlexcountCommand(s, c[2], c[3])
      [] c[1] = "ZCARD" -> zcardCommand(s, c[2])
      [] c[1] = "ZSCORE" -> zscoreCommand(s, c[2], c[3])
      [] c[1] = "ZRANK" -> zrankGenericCommand(s, c[2], c[3], FALSE)
      [] c[1] = "ZREVRANK" -> zrankGenericCommand(s, c[2], c[3], TRUE)
===============================================================================
