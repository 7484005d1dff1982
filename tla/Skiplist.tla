-------------------------------- MODULE Skiplist --------------------------------
(***************************************************************************)
(* The skiplist of a sorted set (zsl*() in redis-stable/src/t_zset.c),     *)
(* with its forward pointers and spans at every level.                     *)
(*                                                                         *)
(* A skiplist is a record: level, length, tail and node, where node[x] has *)
(* the score, the backward pointer and per level a pair <<forward, span>>. *)
(* A node is named by its member, a number that orders the members as      *)
(* compareStringObjects() does; Header is the header, Nil the null         *)
(* pointer.  A member that is not in the list has no levels.  Nothing is   *)
(* said about freeing nodes.                                               *)
(***************************************************************************)
EXTENDS Integers, Sequences, FiniteSets
LOCAL INSTANCE SequencesExt

CONSTANTS Members, Scores,
          ZSKIPLIST_MAXLEVEL

VARIABLES zsl,       \* the skiplist
          entries    \* the dictionary of the sorted set: pairs <<member, score>>

skiplistVars == <<zsl, entries>>

Header == 0
Nil == -1

Forward(z, x, i) == z.node[x].level[i][1]
Span(z, x, i) == z.node[x].level[i][2]
Score(z, x) == z.node[x].score

zslCreateNode(score, back, level) == [score |-> score, back |-> back, level |-> level]

zslCreate ==
    [level |-> 1, length |-> 0, tail |-> Nil,
     node |-> [x \in Members \cup {Header} |->
                 zslCreateNode(0, Nil, IF x = Header THEN [i \in 1 .. ZSKIPLIST_MAXLEVEL |-> <<Nil, 0>>]
                                       ELSE <<>>)]]

-------------------------------------------------------------------------------
(* Going down from the top level, and on each level forward while the next *)
(* node f, at distance r from the header, is to be passed.  The result     *)
(* maps each level to where it was left: update[] and rank[].              *)
Descend(z, Pass(_, _)) ==
    LET Along(i, from) ==
            LET go[p \in (Members \cup {Header}) \X Int] ==
                    LET f == Forward(z, p[1], i)
                        r == p[2] + Span(z, p[1], i)
                    IN  IF f # Nil /\ Pass(f, r) THEN go[<<f, r>>] ELSE p
            IN  go[from]
        d[i \in 1 .. z.level + 1] ==
            IF i > z.level THEN <<Header, 0>> ELSE Along(i, d[i + 1])
    IN  d

Before(z, f, score, m) == Score(z, f) < score \/ (Score(z, f) = score /\ f < m)

-------------------------------------------------------------------------------
(* The spans of levels new to the list are not set.                        *)
InsertStaleSpan(z, score, m, level) ==
    LET d == Descend(z, LAMBDA f, r : Before(z, f, score, m))
        top == IF level > z.level THEN level ELSE z.level
        update == [i \in 1 .. top |-> IF i <= z.level THEN d[i][1] ELSE Header]
        rank == [i \in 1 .. top |-> IF i <= z.level THEN d[i][2] ELSE 0]
        link(x, i) ==
            IF i > top \/ update[i] # x THEN z.node[x].level[i]
            ELSE IF i <= level THEN <<m, rank[1] - rank[i] + 1>>
            ELSE <<Forward(z, x, i), Span(z, x, i) + 1>>
        next == Forward(z, update[1], 1)
        new == zslCreateNode(score, IF update[1] = Header THEN Nil ELSE update[1],
                   [i \in 1 .. level |-> <<Forward(z, update[i], i),
                                           Span(z, update[i], i) - (rank[1] - rank[i])>>])
        old(x) == zslCreateNode(Score(z, x), IF x = next THEN m ELSE z.node[x].back,
                      [i \in DOMAIN z.node[x].level |-> link(x, i)])
    IN  [level |-> top, length |-> z.length + 1, tail |-> IF next = Nil THEN m ELSE z.tail,
         node |-> [x \in DOMAIN z.node |-> IF x = m THEN new ELSE old(x)]]

(* level is what zslRandomLevel() returns.                                 *)
zslInsert(z, score, m, level) ==
    LET d == Descend(z, LAMBDA f, r : Before(z, f, score, m))
        top == IF level > z.level THEN level ELSE z.level
        update == [i \in 1 .. top |-> IF i <= z.level THEN d[i][1] ELSE Header]
        rank == [i \in 1 .. top |-> IF i <= z.level THEN d[i][2] ELSE 0]
        span(i) == IF i <= z.level THEN Span(z, update[i], i) ELSE z.length
        link(x, i) ==
            IF i > top \/ update[i] # x THEN z.node[x].level[i]
            ELSE IF i <= level THEN <<m, rank[1] - rank[i] + 1>>
            ELSE <<Forward(z, x, i), span(i) + 1>>
        next == Forward(z, update[1], 1)
        new == zslCreateNode(score, IF update[1] = Header THEN Nil ELSE update[1],
                   [i \in 1 .. level |-> <<Forward(z, update[i], i), span(i) - (rank[1] - rank[i])>>])
        old(x) == zslCreateNode(Score(z, x), IF x = next THEN m ELSE z.node[x].back,
                      [i \in DOMAIN z.node[x].level |-> link(x, i)])
    IN  [level |-> top, length |-> z.length + 1, tail |-> IF next = Nil THEN m ELSE z.tail,
         node |-> [x \in DOMAIN z.node |-> IF x = m THEN new ELSE old(x)]]

(* Unlinks x, given the last node before it on each level.                 *)
zslDeleteNode(z, x, update) ==
    LET link(y, i) ==
            IF i > z.level \/ update[i] # y THEN z.node[y].level[i]
            ELSE IF Forward(z, y, i) = x THEN <<Forward(z, x, i), Span(z, y, i) + Span(z, x, i) - 1>>
            ELSE <<Forward(z, y, i), Span(z, y, i) - 1>>
        next == Forward(z, x, 1)
        node == [y \in DOMAIN z.node |->
                   IF y = x THEN zslCreateNode(0, Nil, <<>>)
                   ELSE zslCreateNode(Score(z, y), IF y = next THEN z.node[x].back ELSE z.node[y].back,
                                      [i \in DOMAIN z.node[y].level |-> link(y, i)])]
        used == {i \in 2 .. z.level : node[Header].level[i][1] # Nil}
    IN  [level |-> IF used = {} THEN 1 ELSE CHOOSE i \in used : \A j \in used : j <= i,
         length |-> z.length - 1, tail |-> IF next = Nil THEN z.node[x].back ELSE z.tail,
         node |-> node]

zslDelete(z, score, m) ==
    LET d == Descend(z, LAMBDA f, r : Before(z, f, score, m))
        x == Forward(z, d[1][1], 1)
    IN  IF x # Nil /\ Score(z, x) = score /\ x = m
        THEN zslDeleteNode(z, x, [i \in 1 .. z.level |-> d[i][1]])
        ELSE z

(* Deletes nodes from where the descent ended as long as they are wanted.  *)
(* Wanted is told the node and its rank.                                   *)
DeleteRun(z, d, Wanted(_, _)) ==
    LET update == [i \in 1 .. z.level |-> d[i][1]]
        run[n \in 0 .. z.length] ==
            IF n = 0 THEN z
            ELSE LET y == run[n - 1]
                     x == Forward(y, update[1], 1)
                 IN  IF y.length = z.length - (n - 1) /\ x # Nil /\ Wanted(x, d[1][2] + n)
                     THEN zslDeleteNode(y, x, update)
                     ELSE y
    IN  run[z.length]

-------------------------------------------------------------------------------
(* Ranges <<min, minex, max, maxex>> of scores, and of members.            *)

GteMin(v, range) == IF range[2] THEN v > range[1] ELSE v >= range[1]
LteMax(v, range) == IF range[4] THEN v < range[3] ELSE v <= range[3]

zslDeleteRangeByScore(z, range) ==
    DeleteRun(z, Descend(z, LAMBDA f, r : ~GteMin(Score(z, f), range)),
              LAMBDA x, n : LteMax(Score(z, x), range))

zslDeleteRangeByLex(z, range) ==
    DeleteRun(z, Descend(z, LAMBDA f, r : ~GteMin(f, range)), LAMBDA x, n : LteMax(x, range))

(* start and end are counted from 1.                                       *)
zslDeleteRangeByRank(z, start, end) ==
    DeleteRun(z, Descend(z, LAMBDA f, r : r < start), LAMBDA x, n : n <= end)

(* Is there possibly something in the range?                               *)
zslIsInRange(z, range) ==
    /\ ~(range[1] > range[3] \/ (range[1] = range[3] /\ (range[2] \/ range[4])))
    /\ z.tail # Nil /\ GteMin(Score(z, z.tail), range)
    /\ Forward(z, Header, 1) # Nil /\ LteMax(Score(z, Forward(z, Header, 1)), range)

zslFirstInRange(z, range) ==
    LET x == Forward(z, Descend(z, LAMBDA f, r : ~GteMin(Score(z, f), range))[1][1], 1)
    IN  IF ~zslIsInRange(z, range) \/ ~LteMax(Score(z, x), range) THEN Nil ELSE x

zslLastInRange(z, range) ==
    LET x == Descend(z, LAMBDA f, r : LteMax(Score(z, f), range))[1][1]
    IN  IF ~zslIsInRange(z, range) \/ ~GteMin(Score(z, x), range) THEN Nil ELSE x

(* The same for members, meant for lists whose scores are all equal.       *)
zslIsInLexRange(z, range) ==
    /\ ~(range[1] = range[3] /\ (range[2] \/ range[4]))
    /\ z.tail # Nil /\ GteMin(z.tail, range)
    /\ Forward(z, Header, 1) # Nil /\ LteMax(Forward(z, Header, 1), range)

zslFirstInLexRange(z, range) ==
    LET x == Forward(z, Descend(z, LAMBDA f, r : ~GteMin(f, range))[1][1], 1)
    IN  IF ~zslIsInLexRange(z, range) \/ ~LteMax(x, range) THEN Nil ELSE x

zslLastInLexRange(z, range) ==
    LET x == Descend(z, LAMBDA f, r : LteMax(f, range))[1][1]
    IN  IF ~zslIsInLexRange(z, range) \/ ~GteMin(x, range) THEN Nil ELSE x

-------------------------------------------------------------------------------
(* Ranks, counted from 1; 0 and Nil when there is none.                    *)


zslGetRank(z, score, m) ==
    LET d == Descend(z, LAMBDA f, r : Before(z, f, score, m) \/ (Score(z, f) = score /\ f = m))
        at == {i \in 1 .. z.level : d[i][1] = m}
    IN  IF at = {} THEN 0 ELSE d[CHOOSE i \in at : \A j \in at : j <= i][2]

zslGetElementByRank(z, rank) ==
    LET d == Descend(z, LAMBDA f, r : r <= rank)
        at == {i \in 1 .. z.level : d[i][2] = rank}
    IN  IF at = {} THEN Nil ELSE d[CHOOSE i \in at : \A j \in at : j <= i][1]

-------------------------------------------------------------------------------
(* The sorted set keeps the list and a dictionary: what is inserted is not *)
(* in the list yet.                                                        *)
SkiplistInit == zsl = zslCreate /\ entries = {}

Insert(m, score, level) ==
    /\ \A e \in entries : e[1] # m
    /\ zsl' = zslInsert(zsl, score, m, level)
    /\ entries' = entries \cup {<<m, score>>}

Delete(m, score) ==
    /\ zsl' = zslDelete(zsl, score, m)
    /\ entries' = entries \ {<<m, score>>}

Ranges(V) == {<<a, ax, b, bx>> : a \in V, ax \in BOOLEAN, b \in V, bx \in BOOLEAN}

In(v, range) == GteMin(v, range) /\ LteMax(v, range)

DeleteByScore(range) ==
    /\ zsl' = zslDeleteRangeByScore(zsl, range)
    /\ entries' = {e \in entries : ~In(e[2], range)}

(* The order of the entries, and their ranks.                              *)
Less(e, f) == e[2] < f[2] \/ (e[2] = f[2] /\ e[1] < f[1])
RankOf(e) == Cardinality({f \in entries : Less(f, e)}) + 1

DeleteByRank(start, end) ==
    /\ zsl' = zslDeleteRangeByRank(zsl, start, end)
    /\ entries' = {e \in entries : RankOf(e) \notin start .. end}

OneScore == \A e, f \in entries : e[2] = f[2]

DeleteByLex(range) ==
    /\ OneScore
    /\ zsl' = zslDeleteRangeByLex(zsl, range)
    /\ entries' = {e \in entries : ~In(e[1], range)}

SkiplistNext ==
    \/ \E m \in Members, s \in Scores :
         \/ \E level \in 1 .. ZSKIPLIST_MAXLEVEL : Insert(m, s, level)
         \/ Delete(m, s)
    \/ \E range \in Ranges(Scores) : DeleteByScore(range)
    \/ \E range \in Ranges(Members) : DeleteByLex(range)
    \/ \E i, j \in 1 .. Cardinality(Members) : DeleteByRank(i, j)

-------------------------------------------------------------------------------
(* The list holds the entries of the dictionary in order: on every level   *)
(* the next node is the next one of that height, the span tells how far it *)
(* is (or the end, for the last), and the way back visits all nodes.       *)
Sorted == [i \in 1 .. Cardinality(entries) |-> (CHOOSE e \in entries : RankOf(e) = i)[1]]
RankIn(x) == IF x = Header THEN 0 ELSE CHOOSE i \in DOMAIN Sorted : Sorted[i] = x

SkiplistExact ==
    /\ zsl.length = Cardinality(entries)
    /\ \A m \in Members : (zsl.node[m].level # <<>>) = (\E e \in entries : e[1] = m)
    /\ \A e \in entries : Score(zsl, e[1]) = e[2]
    /\ zsl.tail = IF entries = {} THEN Nil ELSE Sorted[Len(Sorted)]
    /\ \A x \in {Header} \cup {e[1] : e \in entries} :
         /\ x # Header => zsl.node[x].back = IF RankIn(x) = 1 THEN Nil ELSE Sorted[RankIn(x) - 1]
         /\ \A i \in DOMAIN zsl.node[x].level : i <= zsl.level =>
              LET later == {j \in RankIn(x) + 1 .. zsl.length : i \in DOMAIN zsl.node[Sorted[j]].level}
                  next == CHOOSE j \in later : \A k \in later : j <= k
              IN  zsl.node[x].level[i] = IF later = {} THEN <<Nil, zsl.length - RankIn(x)>>
                                         ELSE <<Sorted[next], next - RankIn(x)>>
    /\ \A e \in entries : Len(zsl.node[e[1]].level) <= zsl.level

(* The ends of a range of positions.                                       *)
EndsOf(hits) ==
    IF hits = {} THEN <<Nil, Nil>>
    ELSE <<Sorted[CHOOSE i \in hits : \A j \in hits : i <= j],
           Sorted[CHOOSE i \in hits : \A j \in hits : i >= j]>>

(* Ranks, elements by rank and the ends of ranges are found on any shape   *)
(* of the list: the spans zslInsert() and zslDeleteNode() maintain add up.  *)
SkiplistFinds ==
    /\ \A e \in entries : zslGetRank(zsl, e[2], e[1]) = RankOf(e)
    /\ \A n \in 1 .. Cardinality(Members) :
         zslGetElementByRank(zsl, n) = IF n <= Len(Sorted) THEN Sorted[n] ELSE Nil
    /\ entries # {} => \A range \in Ranges(Scores) :
         EndsOf({i \in DOMAIN Sorted : In(Score(zsl, Sorted[i]), range)})
           = <<zslFirstInRange(zsl, range), zslLastInRange(zsl, range)>>
    /\ entries # {} /\ OneScore => \A range \in Ranges(Members) :
         EndsOf({i \in DOMAIN Sorted : In(Sorted[i], range)})
           = <<zslFirstInLexRange(zsl, range), zslLastInLexRange(zsl, range)>>
================================================================================
