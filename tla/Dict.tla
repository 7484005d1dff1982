---------------------------------- MODULE Dict ----------------------------------
(***************************************************************************)
(* The hash table of redis-stable/src/dict.c: chaining, incremental        *)
(* rehashing over two tables, the safe iterator, and the stateless cursor  *)
(* of dictScan().                                                          *)
(*                                                                         *)
(* A dict is a record: ht, the two tables, each a function from bucket     *)
(* numbers to chains (a chain is a sequence of pairs <<key, value>>, the   *)
(* empty function is a table that is not allocated); used, the two         *)
(* counters; rehashidx; iterators.  The hash of a key is HashOf[key].      *)
(* Unsafe iterators, whose users change nothing, are left out.             *)
(***************************************************************************)
EXTENDS Integers, Sequences, FiniteSets
LOCAL INSTANCE SequencesExt
LOCAL INSTANCE FiniteSetsExt

CONSTANTS DictKeys,
          DictVals,         \* the values each key may get
          HashOf,
          DICT_HT_INITIAL_SIZE, dict_force_resize_ratio,
          HASHTABLE_MIN_FILL,
          RehashBatch,      \* the buckets dictRehashMilliseconds() asks for at a time
          WordBits          \* the width of an unsigned long

VARIABLES dict,
          dict_can_resize,
          stored,     \* what was stored, the map the dict stands for
          walk        \* a SCAN or an iteration in progress

dictVars == <<dict, dict_can_resize, stored, walk>>

Size(d, i) == Cardinality(DOMAIN d.ht[i])
dictIsRehashing(d) == d.rehashidx # -1
Bucket(d, i, k) == HashOf[k] % Size(d, i)
NoTable == <<>>

_dictInit == [ht |-> <<NoTable, NoTable>>, used |-> <<0, 0>>, rehashidx |-> -1, iterators |-> 0]

_dictNextPower(size) ==
    CHOOSE p \in {DICT_HT_INITIAL_SIZE * 2 ^ e : e \in 0 .. WordBits} :
        p >= size /\ (p = DICT_HT_INITIAL_SIZE \/ p \div 2 < size)

-------------------------------------------------------------------------------
(* Both return <<dict, ok>>.                                               *)
dictExpand(d, size) ==
    LET real == _dictNextPower(size)
        new == [b \in 0 .. real - 1 |-> <<>>]
    IN  IF dictIsRehashing(d) \/ d.used[1] > size \/ real = Size(d, 1) THEN <<d, FALSE>>
        ELSE IF d.ht[1] = NoTable THEN <<[d EXCEPT !.ht[1] = new, !.used[1] = 0], TRUE>>
        ELSE <<[d EXCEPT !.ht[2] = new, !.used[2] = 0, !.rehashidx = 0], TRUE>>

dictResize(d, can) ==
    IF ~can \/ dictIsRehashing(d) THEN <<d, FALSE>>
    ELSE dictExpand(d, Max({d.used[1], DICT_HT_INITIAL_SIZE}))

_dictExpandIfNeeded(d, can) ==
    IF dictIsRehashing(d) THEN <<d, TRUE>>
    ELSE IF Size(d, 1) = 0 THEN dictExpand(d, DICT_HT_INITIAL_SIZE)
    ELSE IF /\ d.used[1] >= Size(d, 1)
            /\ can \/ d.used[1] \div Size(d, 1) > dict_force_resize_ratio
         THEN dictExpand(d, d.used[1] * 2)
    ELSE <<d, TRUE>>

htNeedsResize(d) ==
    LET size == Size(d, 1) + Size(d, 2)
        used == d.used[1] + d.used[2]
    IN  size > DICT_HT_INITIAL_SIZE /\ (used * 100) \div size < HASHTABLE_MIN_FILL

-------------------------------------------------------------------------------
(* The bucket at rehashidx moves, head first, to the heads of its new      *)
(* chains.                                                                 *)
MoveBucket(d) ==
    LET from == d.ht[1][d.rehashidx]
        push(t, e) == [t EXCEPT ![HashOf[e[1]] % Size(d, 2)] = <<e>> \o @]
    IN  [d EXCEPT !.ht = <<[d.ht[1] EXCEPT ![d.rehashidx] = <<>>],
                           FoldLeft(push, d.ht[2], from)>>,
                  !.used = <<@[1] - Len(from), @[2] + Len(from)>>,
                  !.rehashidx = @ + 1]

(* dictRehash()'s loop: n buckets to move, at most empty_visits empty ones *)
(* to skip.                                                                *)
RECURSIVE RehashLoop(_, _, _)
RehashLoop(d, n, empty_visits) ==
    IF n = 0 \/ d.used[1] = 0 THEN d
    ELSE IF d.ht[1][d.rehashidx] # <<>> THEN RehashLoop(MoveBucket(d), n - 1, empty_visits)
    ELSE LET e == [d EXCEPT !.rehashidx = @ + 1]
         IN  IF empty_visits = 1 THEN e ELSE RehashLoop(e, n, empty_visits - 1)

dictRehash(d, n) ==
    IF ~dictIsRehashing(d) THEN d
    ELSE LET e == RehashLoop(d, n, n * 10)
         IN  IF e.used[1] # 0 THEN e
             ELSE [e EXCEPT !.ht = <<@[2], NoTable>>, !.used = <<@[2], 0>>, !.rehashidx = -1]

(* A step is taken whatever iterators there are.                           *)
StepUnderIterators(d) == dictRehash(d, 1)

_dictRehashStep(d) == IF d.iterators = 0 THEN dictRehash(d, 1) ELSE d

Step(d) == IF dictIsRehashing(d) THEN _dictRehashStep(d) ELSE d

-------------------------------------------------------------------------------
(* The tables an operation looks at, in order.                             *)
Tables(d) == IF dictIsRehashing(d) THEN <<1, 2>> ELSE <<1>>

Has(chain, k) == \E i \in 1 .. Len(chain) : chain[i][1] = k

HoldingTables(d, k) ==
    {i \in Range(Tables(d)) : Size(d, i) > 0 /\ Has(d.ht[i][Bucket(d, i, k)], k)}

(* <<dict, table>>: table 0 is _dictKeyIndex()'s -1.                       *)
KeyIndex(x, k) ==
    IF ~x[2] \/ HoldingTables(x[1], k) # {} THEN <<x[1], 0>>
    ELSE <<x[1], IF dictIsRehashing(x[1]) THEN 2 ELSE 1>>

_dictKeyIndex(d, can, k) == KeyIndex(_dictExpandIfNeeded(d, can), k)

(* The new entry goes to the old table, which is searched first.           *)
PutInOld(x, k, v) ==
    IF x[2] = 0 THEN <<x[1], FALSE>>
    ELSE <<[x[1] EXCEPT !.ht[1][Bucket(x[1], 1, k)] = <<<<k, v>>>> \o @, !.used[1] = @ + 1], TRUE>>

AddToOld(d, can, k, v) == PutInOld(_dictKeyIndex(Step(d), can, k), k, v)

(* x: the dict and the table to add to.                                    *)
PutFirst(x, k, v) ==
    IF x[2] = 0 THEN <<x[1], FALSE>>
    ELSE <<[x[1] EXCEPT !.ht[x[2]][Bucket(x[1], x[2], k)] = <<<<k, v>>>> \o @,
                        !.used[x[2]] = @ + 1], TRUE>>

dictAddRaw(d, can, k, v) == PutFirst(_dictKeyIndex(Step(d), can, k), k, v)

(* <<dict, entry>>: the entry is <<table, place in its chain>>, <<>> for   *)
(* none.                                                                   *)
PlaceIn(chain, k) == Min({p \in 1 .. Len(chain) : chain[p][1] = k})

FindIn(d, hold, k) ==
    IF hold = {} THEN <<d, <<>>>>
    ELSE <<d, <<Min(hold), PlaceIn(d.ht[Min(hold)][Bucket(d, Min(hold), k)], k)>>>>

FindAfterStep(d, k) == FindIn(d, HoldingTables(d, k), k)

dictFind(d, k) ==
    IF d.used[1] + d.used[2] = 0 THEN <<d, <<>>>> ELSE FindAfterStep(Step(d), k)

ValueOf(d, entry, k) ==
    IF entry = <<>> THEN <<>> ELSE <<d.ht[entry[1]][Bucket(d, entry[1], k)][entry[2]][2]>>

FetchFound(x, k) == ValueOf(x[1], x[2], k)

dictFetchValue(d, k) == FetchFound(dictFind(d, k), k)

SetVal(x, k, v) ==
    [x[1] EXCEPT !.ht[x[2][1]][Bucket(x[1], x[2][1], k)][x[2][2]] = <<k, v>>]

ReplaceUnlessAdded(x, k, v) == IF x[2] THEN x[1] ELSE SetVal(dictFind(x[1], k), k, v)

dictReplace(d, can, k, v) == ReplaceUnlessAdded(dictAddRaw(d, can, k, v), k, v)

DeleteIn(d, hold, k) ==
    IF hold = {} THEN d
    ELSE [d EXCEPT !.ht[Min(hold)][Bucket(d, Min(hold), k)] = SelectSeq(@, LAMBDA x : x[1] # k),
                   !.used[Min(hold)] = @ - 1]

DeleteAfterStep(d, k) == DeleteIn(d, HoldingTables(d, k), k)

dictGenericDelete(d, k) == IF Size(d, 1) = 0 THEN d ELSE DeleteAfterStep(Step(d), k)

-------------------------------------------------------------------------------
(* The words of dictScan()'s cursor.                                       *)
Word == 2 ^ WordBits
rev(v) == FoldLeft(LAMBDA r, i : 2 * r + ((v \div 2 ^ i) % 2), 0, [i \in 1 .. WordBits |-> i - 1])
SetUnmasked(v, n) == (v % n) + Word - n

KeysOf(chain) == {chain[i][1] : i \in 1 .. Len(chain)}

(* The cursor counts upwards.                                              *)
CountUp(d, v) ==
    LET n == Size(d, 1)
    IN  IF d.used[1] + d.used[2] = 0 THEN <<{}, 0>>
        ELSE <<KeysOf(d.ht[1][v % n]) \cup
               (IF dictIsRehashing(d) THEN KeysOf(d.ht[2][v % Size(d, 2)]) ELSE {}),
               (v + 1) % n>>

(* <<emitted keys, next cursor>>                                           *)
dictScan(d, v) ==
    LET small == IF dictIsRehashing(d) /\ Size(d, 1) > Size(d, 2) THEN 2 ELSE 1
        big == 3 - small
        n0 == Size(d, small)
        n1 == Size(d, big)
        \* the larger table is visited at v, v + n0, ... until the bits
        \* between the two masks are zero
        rounds == CHOOSE r \in 1 .. n1 \div n0 :
                     /\ ((v + r * n0) % n1) \div n0 = 0
                     /\ \A q \in 1 .. r - 1 : ((v + q * n0) % n1) \div n0 # 0
        visited == {(v + i * n0) % n1 : i \in 0 .. rounds - 1}
        last == IF dictIsRehashing(d) THEN (v + rounds * n0) % Word ELSE v
    IN  IF d.used[1] + d.used[2] = 0 THEN <<{}, 0>>
        ELSE <<KeysOf(d.ht[small][v % n0]) \cup
               (IF dictIsRehashing(d) THEN UNION {KeysOf(d.ht[big][b]) : b \in visited} ELSE {}),
               rev((rev(SetUnmasked(last, n0)) + 1) % Word)>>

-------------------------------------------------------------------------------
(* The safe iterator: entry and next are <<>> or <<key>>.                  *)
NoWalk == [kind |-> "none", table |-> 1, index |-> -1, entry |-> <<>>, next |-> <<>>,
           cursor |-> 0, must |-> {}, seen |-> {}, again |-> FALSE,
           beyond |-> FALSE]

Head1(chain) == IF chain = <<>> THEN <<>> ELSE <<chain[1][1]>>
(* The next pointer of the entry of key k.                                 *)
After(d, k) ==
    LET i == Min(HoldingTables(d, k))
        chain == d.ht[i][Bucket(d, i, k)]
        p == CHOOSE q \in 1 .. Len(chain) : chain[q][1] = k
    IN  Head1(SubSeq(chain, p + 1, Len(chain)))

dictGetSafeIterator(keys) == [NoWalk EXCEPT !.kind = "iter", !.must = keys]

RECURSIVE NextEntry(_, _)
NextEntry(d, w) ==
    LET over == w.index + 1 >= Size(d, w.table)
        t == IF over THEN 2 ELSE w.table
        i == IF over THEN 0 ELSE w.index + 1
        x == IF w.entry # <<>> THEN [w EXCEPT !.entry = w.next]
             ELSE [w EXCEPT !.table = t, !.index = i, !.entry = Head1(d.ht[t][i])]
    IN  IF w.entry = <<>> /\ over /\ ~(dictIsRehashing(d) /\ w.table = 1)
        THEN [w EXCEPT !.index = @ + 1]
        ELSE IF x.entry # <<>>
             THEN [x EXCEPT !.next = After(d, x.entry[1])]
             ELSE NextEntry(d, x)

(* <<dict, iterator>>; at the end the entry is <<>>.                       *)
dictNext(d, w) ==
    LET first == w.index = -1 /\ w.table = 1
        e == IF first THEN [d EXCEPT !.iterators = @ + 1] ELSE d
    IN  <<e, NextEntry(e, w)>>

dictReleaseIterator(d, w) ==
    IF w.index = -1 /\ w.table = 1 THEN d ELSE [d EXCEPT !.iterators = @ - 1]

-------------------------------------------------------------------------------
DictInit ==
    /\ dict = _dictInit
    /\ dict_can_resize = TRUE
    /\ stored = <<>>
    /\ walk = NoWalk

Put(k, v) == stored' = [x \in DOMAIN stored \cup {k} |-> IF x = k THEN v ELSE stored[x]]
Forget(k) ==
    /\ stored' = [x \in DOMAIN stored \ {k} |-> stored[x]]
    /\ walk' = [walk EXCEPT !.must = @ \ {k}, !.seen = @ \ {k}]

Added(x, k, v) ==
    /\ dict' = x[1]
    /\ IF x[2] THEN Put(k, v) ELSE UNCHANGED stored
    /\ UNCHANGED <<dict_can_resize, walk>>

dictAdd(k, v) == Added(dictAddRaw(dict, dict_can_resize, k, v), k, v)

Replace(k, v) ==
    /\ k \in DOMAIN stored
    /\ dict' = dictReplace(dict, dict_can_resize, k, v)
    /\ Put(k, v)
    /\ UNCHANGED <<dict_can_resize, walk>>

Find(k) ==
    /\ dictIsRehashing(dict)
    /\ dict' = dictFind(dict, k)[1]
    /\ UNCHANGED <<dict_can_resize, stored, walk>>

(* During an iteration only the entry last returned is deleted.  A         *)
(* deletion may be followed by a resize (hashTypeDelete(), setTypeRemove()). *)
DictDeleted(d, k) ==
    /\ walk.kind = "iter" => walk.entry = <<k>>
    /\ dict' \in {d, IF htNeedsResize(d) THEN dictResize(d, dict_can_resize)[1] ELSE d}
    /\ Forget(k)
    /\ UNCHANGED dict_can_resize

dictDelete(k) == DictDeleted(dictGenericDelete(dict, k), k)

dictEmpty ==
    /\ walk.kind # "iter"
    /\ dict' = _dictInit
    /\ stored' = <<>>
    /\ walk' = [walk EXCEPT !.must = {}]
    /\ UNCHANGED dict_can_resize

(* serverCron() runs between commands, never during an iteration.          *)
tryResizeHashTables ==
    /\ walk.kind # "iter" /\ htNeedsResize(dict)
    /\ dict' = dictResize(dict, dict_can_resize)[1]
    /\ UNCHANGED <<dict_can_resize, stored, walk>>

dictRehashMilliseconds ==
    /\ walk.kind # "iter" /\ dictIsRehashing(dict)
    /\ dict' = dictRehash(dict, RehashBatch)
    /\ UNCHANGED <<dict_can_resize, stored, walk>>

updateDictResizePolicy ==
    /\ walk.kind = "none"
    /\ dict_can_resize' = ~dict_can_resize
    /\ UNCHANGED <<dict, stored, walk>>

(* dictGetSomeKeys() begins with up to count rehashing steps.              *)
dictGetSomeKeys(count) ==
    /\ walk.kind # "iter" /\ dictIsRehashing(dict)
    /\ dict' = FoldLeft(LAMBDA d, i : Step(d), dict,
                        [i \in 1 .. Min({count, dict.used[1] + dict.used[2]}) |-> i])
    /\ UNCHANGED <<dict_can_resize, stored, walk>>

StartScan ==
    /\ walk.kind = "none"
    /\ walk' = [NoWalk EXCEPT !.kind = "scan", !.must = DOMAIN stored]
    /\ UNCHANGED <<dict, dict_can_resize, stored>>

Scan ==
    LET x == dictScan(dict, walk.cursor)
    IN  /\ walk.kind = "scan"
        /\ walk' = [walk EXCEPT !.cursor = x[2], !.seen = @ \cup x[1],
                                !.kind = IF x[2] = 0 THEN "scanned" ELSE "scan",
                                !.beyond = \/ @
                                              \/ /\ dictIsRehashing(dict)
                                                 /\ walk.cursor >= Min({Size(dict, 1), Size(dict, 2)})]
        /\ UNCHANGED <<dict, dict_can_resize, stored>>

StartIteration ==
    /\ walk.kind = "none"
    /\ walk' = dictGetSafeIterator(DOMAIN stored)
    /\ UNCHANGED <<dict, dict_can_resize, stored>>

IterationStep(d, w) ==
    IF w.entry = <<>>
    THEN /\ walk' = [walk EXCEPT !.kind = "iterated", !.entry = <<>>]
         /\ dict' = dictReleaseIterator(d, w)
    ELSE /\ walk' = [w EXCEPT !.seen = @ \cup {w.entry[1]}, !.again = @ \/ w.entry[1] \in walk.seen]
         /\ dict' = d

IterateOnce(x) == IterationStep(x[1], x[2])

Iterate ==
    /\ walk.kind = "iter"
    /\ IterateOnce(dictNext(dict, walk))
    /\ UNCHANGED <<dict_can_resize, stored>>

EndWalk ==
    /\ walk.kind \in {"scanned", "iterated"}
    /\ walk' = NoWalk
    /\ UNCHANGED <<dict, dict_can_resize, stored>>

DictNext ==
    \/ \E k \in DictKeys : Find(k) \/ dictDelete(k)
    \/ \E k \in DictKeys : \E v \in DictVals[k] : dictAdd(k, v) \/ Replace(k, v)
    \/ dictEmpty \/ tryResizeHashTables \/ dictRehashMilliseconds \/ updateDictResizePolicy
    \/ dictGetSomeKeys(2)
    \/ StartScan \/ Scan \/ StartIteration \/ Iterate \/ EndWalk

DictSpec == DictInit /\ [][DictNext]_dictVars

-------------------------------------------------------------------------------
(* Whatever is added, replaced, deleted, resized and rehashed, a lookup    *)
(* finds exactly what was stored; every entry is once in one table, in the *)
(* bucket of its hash; the counters count the entries; the buckets that    *)
(* rehashing has passed are empty, which dictGetRandomKey() relies on, and *)
(* rehashidx stays within the old table, as dictRehash() asserts.          *)
DictExact ==
    LET places(i) == {x \in (DOMAIN dict.ht[i]) \X (1 .. Cardinality(DictKeys)) :
                        x[2] <= Len(dict.ht[i][x[1]])}
        at(i, x) == dict.ht[i][x[1]][x[2]]
    IN  /\ \A k \in DictKeys :
              dictFetchValue(dict, k) = IF k \in DOMAIN stored THEN <<stored[k]>> ELSE <<>>
        /\ \A i \in 1 .. 2 :
              /\ dict.used[i] = Cardinality(places(i))
              /\ \A x \in places(i) : x[1] = Bucket(dict, i, at(i, x)[1])
        /\ dict.used[1] + dict.used[2] = Cardinality(DOMAIN stored)
        /\ dictIsRehashing(dict) => /\ dict.rehashidx < Size(dict, 1)
                                    /\ \A b \in 0 .. dict.rehashidx - 1 : dict.ht[1][b] = <<>>
        /\ ~dictIsRehashing(dict) => dict.ht[2] = NoTable

(* "The function guarantees all elements present in the dictionary get     *)
(* returned between the start and end of the iteration" (dictScan()): a    *)
(* key that was there all along is emitted, however the table was resized  *)
(* and rehashed between two calls.                                         *)
ScanComplete == walk.kind = "scanned" => walk.must \subseteq walk.seen

(* That guarantee holds for every scan whose cursor, at each call that     *)
(* finds the dict being rehashed, is an index of the smaller of the two    *)
(* tables; it is not one after a shrink, when the cursor comes from a      *)
(* larger table.                                                           *)
ScanCompleteUnlessBeyond ==
    walk.kind = "scanned" /\ ~walk.beyond => walk.must \subseteq walk.seen

(* A safe iterator returns every key that stays in the dict exactly once,  *)
(* though keys are added, looked up and deleted meanwhile: the iterators   *)
(* counter stops the rehashing.                                            *)
IteratesOnce ==
    /\ ~walk.again
    /\ walk.kind = "iterated" => walk.must \subseteq walk.seen
    /\ (walk.kind # "iter") => dict.iterators = 0
====
