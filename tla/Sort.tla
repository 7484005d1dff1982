---------------------------------- MODULE Sort ----------------------------------
(***************************************************************************)
(* The SORT command (redis-stable/src/sort.c).  The elements of lists,     *)
(* sets and sorted sets are integers here, in their lexicographic order as *)
(* well; the ones in Words are no numbers to SORT.  by is "" (the element  *)
(* itself), "nosort" (a constant pattern) or "pattern", that stands for a  *)
(* key of a string for every element.  GET only repeats elements and is    *)
(* left out.  A hash table is iterated in an order that differs between    *)
(* servers: upwards on a master, downwards elsewhere.                      *)
(***************************************************************************)
EXTENDS Strings, Lists, Sets, ZSets
LOCAL INSTANCE SequencesExt

CONSTANTS Words,        \* elements that are not numbers
          PatternKey    \* [elements -> Slots]: what the pattern yields

-------------------------------------------------------------------------------
Iterated(s, members, ordered) ==
    IF s.master \/ ordered THEN SetToSortSeq(members, <)
    ELSE SetToSortSeq(members, >)

(* The weight of an element: a number, or None without one, or "NaN".      *)
StringOf(o) == IF o = None \/ Type(o) # "string" THEN {} ELSE {Content(o)}

lookupKeyByPattern(s, e) == StringOf(lookupKeyRead(s, PatternKey[e]))

(* Bytes in lexicographic order.                                           *)
Before(a, b) ==
    \E n \in 0 .. Len(a) :
        /\ n <= Len(b)
        /\ SubSeq(a, 1, n) = SubSeq(b, 1, n)
        /\ \/ n = Len(a) /\ n < Len(b)
           \/ n < Len(a) /\ n < Len(b) /\ a[n + 1] < b[n + 1]

(* What an element is sorted by without ALPHA: a missing weight counts 0.  *)
WeightScore(weight) == IF weight = {} THEN {0} ELSE string2ld(The(weight))

Score(s, by, e) ==
    IF by = "" THEN IF e \in Words THEN {} ELSE {e} ELSE WeightScore(lookupKeyByPattern(s, e))

(* -1, 0 or 1.  The alphabetic comparison of weights leaves ties.          *)
CompareNumbers(x, y) == IF x > y THEN 1 ELSE IF x < y THEN -1 ELSE 0

CompareWeights(wx, wy) ==
    IF wx = {} \/ wy = {} THEN IF wx = wy THEN 0 ELSE IF wx = {} THEN -1 ELSE 1
    ELSE IF Before(The(wx), The(wy)) THEN -1
    ELSE IF Before(The(wy), The(wx)) THEN 1 ELSE 0

OrElse(first, second) == IF first # 0 THEN first ELSE second

sortCompare(s, by, alpha, x, y) ==
    IF ~alpha
    THEN OrElse(CompareNumbers(The(Score(s, by, x)), The(Score(s, by, y))), CompareNumbers(x, y))
    ELSE IF by # "pattern" THEN CompareNumbers(x, y)
    ELSE CompareWeights(lookupKeyByPattern(s, x), lookupKeyByPattern(s, y))

(* qsort(), taken to keep the order of what compares as equal.             *)
InsertOrAppend(seq, i, x) == IF i = 0 THEN Append(seq, x) ELSE InsertAt(seq, i, x)

Sorted(s, by, alpha, desc, vector) ==
    FoldLeft(LAMBDA seq, x :
                 InsertOrAppend(seq, SelectInSeq(seq, LAMBDA y :
                     sortCompare(s, by, alpha, x, y) * (IF desc THEN -1 ELSE 1) < 0), x),
             <<>>, vector)

(* LIMIT: <<first, last>>, counted from 0.                                 *)
SortBounds(len, start, count) ==
    LET from == IF start < 0 THEN 0 ELSE start
        to == IF count < 0 THEN len - 1 ELSE from + count - 1
    IN  IF from >= len THEN <<len - 1, len - 2>>
        ELSE <<from, IF to >= len THEN len - 1 ELSE to>>

(* The elements in the order in which they are loaded.  Without sorting, a *)
(* list or a sorted set is walked backwards for DESC.                      *)
SortVector(s, o, dontsort, desc) ==
    LET own == CASE o = None -> <<>>
                 [] Type(o) = "list" -> o[2]
                 [] Type(o) = "set" -> Iterated(s, o[3], o[2] = "intset")
                 [] Type(o) = "zset" ->
                        IF dontsort THEN [i \in DOMAIN Entries(o) |-> Entries(o)[i][1]]
                        ELSE Iterated(s, DOMAIN zuiNext(o), FALSE)
    IN  IF dontsort /\ desc /\ o # None /\ Type(o) # "set" THEN Reverse(own) ELSE own

(* A stored result of a set is sorted even if no order was asked for; the  *)
(* sorted set stays converted.                                             *)
SortReply(s, out, store) ==
    IF store = NoDst THEN Reply(s, <<"multi", out>>)
    ELSE IF out # <<>>
         THEN Reply(Dirty(setKey(s, store, <<"list", out>>), Len(out)), <<"int", Len(out)>>)
    ELSE IF dbExists(s, store) THEN Modified(dbDelete(s, store), store, <<"int", 0>>)
    ELSE Reply(s, <<"int", 0>>)

SortPart(result, b) == SubSeq(result, b[1] + 1, b[2] + 1)

(* The weights of all elements are read.                                   *)
WeightsRead(s, by, vector) ==
    IF by = "pattern" THEN lookedUp(s, [i \in DOMAIN vector |-> PatternKey[vector[i]]]) ELSE s

SortElements(s, vector, dontsort, by, alpha, desc, start, count, store) ==
    IF ~dontsort /\ ~alpha /\ \E i \in DOMAIN vector : Score(s, by, vector[i]) = {}
    THEN Error(WeightsRead(s, by, vector), "scores can't be converted into double")
    ELSE SortReply(WeightsRead(s, by, vector),
                   SortPart(IF dontsort THEN vector ELSE Sorted(s, by, alpha, desc, vector),
                            SortBounds(Len(vector), start, count)), store)

SortLoaded(s, k, o) ==
    IF o # None /\ Type(o) = "zset" THEN dbOverwrite(s, k, zsetConvert(o, "skiplist")) ELSE s

SortFound(s, k, o, by, alpha, desc, start, count, store) ==
    LET forced == by = "nosort" /\ o # None /\ Type(o) = "set" /\ store # NoDst
        dontsort == by = "nosort" /\ ~forced
    IN  IF o # None /\ Type(o) \notin {"set", "list", "zset"} THEN Error(s, "wrong type")
        ELSE SortElements(SortLoaded(s, k, o), SortVector(s, o, dontsort, desc), dontsort,
                          IF forced THEN "" ELSE by, alpha \/ forced, desc, start, count, store)

sortCommand(s, k, by, alpha, desc, start, count, store) ==
    SortFound(expireIfNeeded(s, k), k, lookupKeyRead(s, k), by, alpha, desc, start, count, store)

SortNames == {"SORT"}

SortProc(s, c) == sortCommand(s, c[2], c[3], c[4], c[5], c[6], c[7], c[8])
===============================================================================
