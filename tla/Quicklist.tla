------------------------------- MODULE Quicklist --------------------------------
(***************************************************************************)
(* The quicklist of redis-stable/src/quicklist.c: a doubly linked list of  *)
(* ziplists, the inner ones compressed, with the operations t_list.c uses. *)
(*                                                                         *)
(* The linked nodes are a sequence; a pointer to a node is its index, 0 is *)
(* NULL.  A node has its ziplist zl as a sequence of values, the cached    *)
(* count, lzf (the encoding is LZF) and recompress.  All values have one   *)
(* size, the unit of the limits.  broken is set when a ziplist function is *)
(* called on a compressed node, held when a node still marked recompress   *)
(* has come within the compress depth of an end or was the result of a     *)
(* merge.  A ziplist of at least MinCompress values compresses.            *)
(***************************************************************************)
EXTENDS Integers, Sequences, FiniteSets
LOCAL INSTANCE SequencesExt

CONSTANTS QValues, Fills, Depths, MinCompress,
          SIZE_SAFETY_LIMIT,
          OptimizationLevel,  \* for a negative fill, the size of a node
          MaxLength

VARIABLES ql,         \* [nodes, len, count, fill, compress, broken, held]
          contents    \* the list it stands for

quicklistVars == <<ql, contents>>

quicklistNew(fill, compress) ==
    [nodes |-> <<>>, len |-> 0, count |-> 0, fill |-> fill, compress |-> compress,
     broken |-> FALSE, held |-> FALSE]
quicklistCreateNode(values) ==
    [zl |-> values, count |-> Len(values), lzf |-> FALSE, recompress |-> FALSE]

TailOf(q) == Len(q.nodes)
Exists(q, i) == i \in 1 .. TailOf(q)
Used(q, i) == [q EXCEPT !.broken = @ \/ q.nodes[i].lzf]

-------------------------------------------------------------------------------
CompressNode(q, i) ==
    IF i = 0 \/ q.nodes[i].lzf \/ Len(q.nodes[i].zl) < MinCompress THEN q
    ELSE [q EXCEPT !.nodes[i].lzf = TRUE, !.nodes[i].recompress = FALSE]

quicklistDecompressNode(q, i) == [q EXCEPT !.nodes[i].lzf = FALSE]

(* The nodes within the compress depth of an end of the list.              *)
InDepth(q) == {i \in 1 .. TailOf(q) : i <= q.compress \/ i > TailOf(q) - q.compress}
Holds(q) == [q EXCEPT !.held = @ \/ \E i \in InDepth(q) : q.nodes[i].recompress]

quicklistDecompressNodeForUse(q, i) ==
    IF q.nodes[i].lzf THEN Holds([q EXCEPT !.nodes[i].lzf = FALSE, !.nodes[i].recompress = TRUE]) ELSE q

(* q.len is what the field holds at the time of the call.                  *)
__quicklistCompress(q, i) ==
    LET n == TailOf(q)
        depth == q.compress
        meet == 2 * depth > n            \* forward and reverse meet before depth
        ends == 1 .. (IF meet THEN (n + 1) \div 2 ELSE depth)
        within == ends \cup {n + 1 - d : d \in ends}
        raw == FoldLeft(LAMBDA x, d : quicklistDecompressNode(quicklistDecompressNode(x, d), n + 1 - d),
                        q, [d \in 1 .. Cardinality(ends) |-> d])
        node == IF i \in within THEN raw ELSE CompressNode(raw, i)
    IN  IF depth = 0 \/ q.len < depth * 2 THEN q
        ELSE IF meet THEN raw
        ELSE IF depth + 1 > 2 THEN CompressNode(CompressNode(node, depth + 1), n - depth)
        ELSE node

quicklistCompress(q, i) ==
    IF q.nodes[i].recompress THEN CompressNode(q, i) ELSE __quicklistCompress(q, i)

quicklistRecompressOnly(q, i) == IF q.nodes[i].recompress THEN CompressNode(q, i) ELSE q

-------------------------------------------------------------------------------
(* A new node before or after the node old, 0 in an empty list.            *)
__quicklistInsertNode(q, old, new, after) ==
    LET at == IF old = 0 THEN 1 ELSE IF after THEN old + 1 ELSE old
        o == IF after THEN old ELSE old + 1
        linked == [q EXCEPT !.nodes = InsertAt(@, at, new)]
        y == IF old = 0 THEN linked ELSE quicklistCompress(linked, o)
    IN  [y EXCEPT !.len = @ + 1]

DelNodeKeepsEnds(q, i) ==
    Holds([q EXCEPT !.nodes = RemoveAt(@, i), !.count = @ - q.nodes[i].count, !.len = @ - 1])

__quicklistDelNode(q, i) ==
    LET gone == q.nodes[i].count
        y == __quicklistCompress([q EXCEPT !.nodes = RemoveAt(@, i)], 0)
    IN  Holds([y EXCEPT !.count = @ - gone, !.len = @ - 1])

_quicklistNodeAllowInsert(q, i) ==
    /\ Exists(q, i)
    /\ LET size == Len(q.nodes[i].zl) + 1
       IN  IF q.fill < 0 THEN size <= OptimizationLevel[-q.fill]
           ELSE size <= SIZE_SAFETY_LIMIT /\ q.nodes[i].count < q.fill

_quicklistNodeAllowMerge(q, i, j) ==
    /\ Exists(q, i) /\ Exists(q, j)
    /\ LET size == Len(q.nodes[i].zl) + Len(q.nodes[j].zl)
       IN  IF q.fill < 0 THEN size <= OptimizationLevel[-q.fill]
           ELSE size <= SIZE_SAFETY_LIMIT /\ q.nodes[i].count + q.nodes[j].count <= q.fill

quicklistPushHead(q, v) ==
    LET y == IF _quicklistNodeAllowInsert(q, 1)
             THEN [Used(q, 1) EXCEPT !.nodes[1].zl = <<v>> \o @]
             ELSE __quicklistInsertNode(q, IF q.nodes = <<>> THEN 0 ELSE 1,
                                        [quicklistCreateNode(<<v>>) EXCEPT !.count = 0], FALSE)
    IN  [y EXCEPT !.count = @ + 1, !.nodes[1].count = @ + 1]

quicklistPushTail(q, v) ==
    LET y == IF _quicklistNodeAllowInsert(q, TailOf(q))
             THEN [Used(q, TailOf(q)) EXCEPT !.nodes[TailOf(q)].zl = Append(@, v)]
             ELSE __quicklistInsertNode(q, TailOf(q), [quicklistCreateNode(<<v>>) EXCEPT !.count = 0], TRUE)
    IN  [y EXCEPT !.count = @ + 1, !.nodes[TailOf(y)].count = @ + 1]

quicklistAppendZiplist(q, zl) ==
    LET y == __quicklistInsertNode(q, TailOf(q), quicklistCreateNode(zl), TRUE)
    IN  [y EXCEPT !.count = @ + Len(zl)]

quicklistCreateFromZiplist(fill, compress, zl) ==
    FoldLeft(quicklistPushTail, quicklistNew(fill, compress), zl)

(* The value at place p of node i goes; <<quicklist, the node is gone>>.   *)
quicklistDelIndex(q, i, p) ==
    LET y == [Used(q, i) EXCEPT !.nodes[i].zl = RemoveAt(@, p), !.nodes[i].count = @ - 1]
        gone == y.nodes[i].count = 0
        x == IF gone THEN __quicklistDelNode(y, i) ELSE y
    IN  <<[x EXCEPT !.count = @ - 1], gone>>

quicklistPopCustom(q, head) ==
    IF q.count = 0 THEN q
    ELSE IF head THEN quicklistDelIndex(q, 1, 1)[1]
    ELSE quicklistDelIndex(q, TailOf(q), Len(q.nodes[TailOf(q)].zl))[1]

(* <<quicklist, node, offset>> with the node decompressed for use; node 0  *)
(* when the index is out of range.                                         *)
quicklistIndex(q, idx) ==
    LET forward == idx >= 0
        index == IF forward THEN idx ELSE -idx - 1
        walk[x \in Nat \X Nat] ==
            IF ~Exists(q, x[1]) \/ x[2] + q.nodes[x[1]].count > index THEN x
            ELSE walk[<<IF forward THEN x[1] + 1 ELSE x[1] - 1, x[2] + q.nodes[x[1]].count>>]
        found == walk[<<IF forward THEN 1 ELSE TailOf(q), 0>>]
        offset == IF forward THEN index - found[2] ELSE -index - 1 + found[2]
    IN  IF index >= q.count \/ ~Exists(q, found[1]) THEN <<q, 0, 0>>
        ELSE <<quicklistDecompressNodeForUse(q, found[1]), found[1], offset>>

(* ziplistIndex() on values: the place at an offset, 0 if there is none.   *)
Place(zl, offset) ==
    LET p == IF offset >= 0 THEN offset + 1 ELSE Len(zl) + 1 + offset
    IN  IF p \in 1 .. Len(zl) THEN p ELSE 0

ReplaceFound(x, v) ==
    IF x[2] = 0 THEN x[1]
    ELSE quicklistCompress(
             [Used(x[1], x[2]) EXCEPT !.nodes[x[2]].zl[Place(x[1].nodes[x[2]].zl, x[3])] = v], x[2])

quicklistReplaceAtIndex(q, idx, v) == ReplaceFound(quicklistIndex(q, idx), v)

-------------------------------------------------------------------------------
(* Nodes a and a + 1 become one at place a; the one with more values stays. *)
Kept(node, zl) == [node EXCEPT !.zl = zl, !.count = Len(zl)]
Emptied(node) == [node EXCEPT !.zl = <<>>, !.count = 0]

MergeNodes(q, a, x, y) ==
    IF Len(x.zl) >= Len(y.zl)
    THEN __quicklistDelNode([q EXCEPT !.held = @ \/ x.recompress,
             !.nodes = ReplaceAt(ReplaceAt(@, a, Kept(x, x.zl \o y.zl)), a + 1, Emptied(y))], a + 1)
    ELSE __quicklistDelNode([q EXCEPT !.held = @ \/ y.recompress,
             !.nodes = ReplaceAt(ReplaceAt(@, a, Emptied(x)), a + 1, Kept(y, x.zl \o y.zl))], a)

MergeDecompressed(q, a) == quicklistCompress(MergeNodes(q, a, q.nodes[a], q.nodes[a + 1]), a)

_quicklistZiplistMerge(q, a) ==
    MergeDecompressed(quicklistDecompressNode(quicklistDecompressNode(q, a), a + 1), a)

TryMerge(q, a) == IF _quicklistNodeAllowMerge(q, a, a + 1) THEN _quicklistZiplistMerge(q, a) ELSE q

(* <<quicklist, where the node at place at is after a merge before it>>    *)
Shifted(q, r, at) == <<r, at - (TailOf(q) - TailOf(r))>>
MergeBefore(q, a, at) == Shifted(q, TryMerge(q, a), at)

MergeThird(x) == TryMerge(x[1], x[2])
MergeSecond(x) == MergeThird(MergeBefore(TryMerge(x[1], x[2] + 1), x[2] - 1, x[2]))

_quicklistMergeNodes(q, center) == MergeSecond(MergeBefore(q, center - 2, center))

(* <<what the node keeps, what the new node gets>>                         *)
_quicklistSplitNode(zl, offset, after) ==
    IF after THEN <<SubSeq(zl, 1, offset + 1), SubSeq(zl, offset + 2, Len(zl))>>
    ELSE <<SubSeq(zl, offset + 1, Len(zl)), SubSeq(zl, 1, offset)>>

(* The ziplist of node i becomes zl, with one more value.                  *)
InsertUsed(q, i, zl) ==
    quicklistRecompressOnly([q EXCEPT !.nodes[i].zl = zl, !.nodes[i].count = @ + 1], i)

InsertInto(q, i, zl) == InsertUsed(Used(quicklistDecompressNodeForUse(q, i), i), i, zl)

(* half: what _quicklistSplitNode() made of node i.                        *)
InsertSplit(q, i, v, after, half) ==
    _quicklistMergeNodes(
        __quicklistInsertNode(
            [q EXCEPT !.nodes[i].zl = half[1], !.nodes[i].count = Len(half[1])], i,
            quicklistCreateNode(IF after THEN <<v>> \o half[2] ELSE Append(half[2], v)), after),
        IF after THEN i ELSE i + 1)

(* neighbour: the node on the side of the insertion, if it is at an end.   *)
InsertFull(q, i, offset, v, after, neighbour, at_end) ==
    IF at_end /\ _quicklistNodeAllowInsert(q, neighbour)
    THEN InsertInto(q, neighbour, IF after THEN <<v>> \o q.nodes[neighbour].zl
                                  ELSE Append(q.nodes[neighbour].zl, v))
    ELSE IF at_end /\ neighbour \in 1 .. TailOf(q)
    THEN __quicklistInsertNode(q, i, quicklistCreateNode(<<v>>), after)
    ELSE InsertSplit(Used(quicklistDecompressNodeForUse(q, i), i), i, v, after,
                     _quicklistSplitNode(q.nodes[i].zl, offset, after))

InsertAnywhere(q, i, offset, v, after) ==
    IF _quicklistNodeAllowInsert(q, i)
    THEN InsertInto(q, i, InsertAt(q.nodes[i].zl, IF after THEN offset + 2 ELSE offset + 1, v))
    ELSE InsertFull(q, i, offset, v, after, IF after THEN i + 1 ELSE i - 1,
                    offset = IF after THEN q.nodes[i].count ELSE 0)

_quicklistInsert(q, i, offset, v, after) ==
    [InsertAnywhere(q, i, offset, v, after) EXCEPT !.count = @ + 1]

(* One turn of the loop of quicklistDelRange() on s = [q, node, offset, extent]. *)
DelRangeStep(s) ==
    LET node == s.q.nodes[s.node]
        entire == s.offset = 0 /\ s.extent >= node.count
        del == IF s.offset >= 0 /\ s.extent >= node.count THEN node.count - s.offset
               ELSE IF s.offset < 0 THEN (IF -s.offset > s.extent THEN s.extent ELSE -s.offset)
               ELSE s.extent
        p == Place(node.zl, s.offset)
        x == Used(quicklistDecompressNodeForUse(s.q, s.node), s.node)
        y == [x EXCEPT !.nodes[s.node].zl = SubSeq(@, 1, p - 1) \o SubSeq(@, p + del, Len(@)),
                       !.nodes[s.node].count = @ - del, !.count = @ - del]
        gone == entire \/ node.count = del
    IN  [q |-> IF entire THEN __quicklistDelNode(s.q, s.node)
               ELSE IF gone THEN __quicklistDelNode(y, s.node)
               ELSE quicklistRecompressOnly(y, s.node),
         node |-> IF gone THEN s.node ELSE s.node + 1, offset |-> 0, extent |-> s.extent - del]

quicklistDelRange(q, start, count) ==
    LET extent == IF start >= 0 /\ count > q.count - start THEN q.count - start
                  ELSE IF start < 0 /\ count > -start THEN -start ELSE count
        x == quicklistIndex(q, start)
    IN  IF count <= 0 \/ x[2] = 0 THEN q
        ELSE FoldLeft(LAMBDA s, n : IF s.extent = 0 THEN s ELSE DelRangeStep(s),
                      [q |-> x[1], node |-> x[2], offset |-> x[3], extent |-> extent],
                      [n \in 1 .. TailOf(q) |-> n]).q

-------------------------------------------------------------------------------
(* An iterator with its quicklist: zi is the place in the ziplist of the   *)
(* current node, 0 for none; forward tells the direction.                  *)
quicklistGetIteratorAtIdx(q, forward, idx) ==
    LET x == quicklistIndex(q, idx)
    IN  [q |-> x[1], current |-> x[2], offset |-> x[3], zi |-> 0, forward |-> forward]

NextInNode(it) ==
    LET step == IF it.forward THEN 1 ELSE -1
        q == IF it.zi = 0 THEN quicklistDecompressNodeForUse(it.q, it.current) ELSE it.q
        zl == q.nodes[it.current].zl
    IN  IF it.zi = 0
        THEN [it EXCEPT !.q = Used(q, it.current), !.zi = Place(zl, it.offset)]
        ELSE [it EXCEPT !.q = Used(q, it.current), !.offset = @ + step,
                        !.zi = IF it.zi + step \in 1 .. Len(zl) THEN it.zi + step ELSE 0]

NextNode(it) ==
    [it EXCEPT !.q = quicklistCompress(@, it.current), !.zi = 0,
               !.current = IF it.forward THEN (IF @ = TailOf(it.q) THEN 0 ELSE @ + 1) ELSE @ - 1,
               !.offset = IF it.forward THEN 0 ELSE -1]

NextIfAny(it) == IF it.current = 0 THEN it ELSE NextInNode(it)
NextUnless(it) == IF it.zi # 0 THEN it ELSE NextIfAny(NextNode(it))
quicklistNext(it) == IF it.current = 0 THEN it ELSE NextUnless(NextInNode(it))

Value(it) == it.q.nodes[it.current].zl[it.zi]

DelEntryKeepsPlace(it, x) ==
    [it EXCEPT !.q = x[1], !.current = IF x[2] THEN (IF it.forward THEN 0 ELSE @ - 1) ELSE @,
               !.zi = IF x[2] THEN 0 ELSE @]

AfterDelEntry(it, x) ==
    IF ~x[2] THEN [it EXCEPT !.q = x[1], !.zi = 0]
    ELSE [it EXCEPT !.q = x[1], !.zi = 0, !.offset = IF it.forward THEN 0 ELSE -1,
                    !.current = IF ~it.forward THEN @ - 1
                                ELSE IF @ = TailOf(it.q) THEN 0 ELSE @]

quicklistDelEntry(it) == AfterDelEntry(it, quicklistDelIndex(it.q, it.current, it.zi))

-------------------------------------------------------------------------------
(* The list commands of t_list.c on a quicklist.  listTypeReleaseIterator() *)
(* frees the iterator and leaves the current node as it is.                *)
Iterate(it, n) == FoldLeft(LAMBDA x, k : quicklistNext(x), it, [k \in 1 .. n |-> k])

lrange(q, start, end) == Iterate(quicklistGetIteratorAtIdx(q, TRUE, start), end - start + 1).q

ltrim(q, ltrimmed, rtrimmed) == quicklistDelRange(quicklistDelRange(q, 0, ltrimmed), -rtrimmed, rtrimmed)

(* LREM key toremove v                                                     *)
LremAt(s, it, v, limit) ==
    IF it.current = 0 THEN [s EXCEPT !.it = it, !.done = TRUE]
    ELSE IF Value(it) # v THEN [s EXCEPT !.it = it]
    ELSE [it |-> quicklistDelEntry(it), removed |-> s.removed + 1, done |-> s.removed + 1 = limit]

LremStep(s, v, limit) == IF s.done THEN s ELSE LremAt(s, quicklistNext(s.it), v, limit)

lrem(q, toremove, v) ==
    LET forward == toremove >= 0
        it == quicklistGetIteratorAtIdx(q, forward, IF forward THEN 0 ELSE -1)
        limit == IF forward THEN toremove ELSE -toremove
    IN  FoldLeft(LAMBDA s, k : LremStep(s, v, limit),
                 [it |-> it, removed |-> 0, done |-> FALSE], [k \in 1 .. q.count + 1 |-> k]).it.q

(* LINSERT key BEFORE|AFTER pivot v                                        *)
InsertFound(it, after, v) ==
    IF it.current = 0 THEN it.q
    ELSE _quicklistInsert(it.q, it.current, it.offset, v, after)

linsert(q, after, pivot, v) ==
    InsertFound(FoldLeft(LAMBDA x, k : IF k > 1 /\ (x.current = 0 \/ Value(x) = pivot) THEN x
                                       ELSE quicklistNext(x),
                         quicklistGetIteratorAtIdx(q, TRUE, 0), [k \in 1 .. q.count + 1 |-> k]),
                after, v)

(* A saved list loaded by rdb.c, node by node or from one old ziplist.     *)
Reload(q, fill, compress) ==
    FoldLeft(LAMBDA x, node : quicklistAppendZiplist(x, node.zl), quicklistNew(fill, compress), q.nodes)

-------------------------------------------------------------------------------
(* The same commands on the list as a sequence.                            *)
Without(list, toremove, v) ==
    LET hits == SelectSeq([i \in 1 .. Len(list) |-> i], LAMBDA i : list[i] = v)
        n == Len(hits)
        m == IF toremove < 0 THEN -toremove ELSE toremove
        gone == IF m = 0 \/ m >= n THEN {hits[k] : k \in 1 .. n}
                ELSE IF toremove > 0 THEN {hits[k] : k \in 1 .. m}
                ELSE {hits[k] : k \in (n - m + 1) .. n}
        left == SelectSeq([i \in 1 .. Len(list) |-> i], LAMBDA i : i \notin gone)
    IN  FoldLeft(LAMBDA s, i : Append(s, list[i]), <<>>, left)

Around(list, after, pivot, v) ==
    LET at == SelectInSeq(list, LAMBDA x : x = pivot)
    IN  IF at = 0 THEN list ELSE InsertAt(list, IF after THEN at + 1 ELSE at, v)

-------------------------------------------------------------------------------
ListBecomes(q, list) ==
    /\ ql' = q
    /\ contents' = list

QuicklistInit ==
    /\ \E fill \in Fills, compress \in Depths : ql = quicklistNew(fill, compress)
    /\ contents = <<>>

Push(v, head) ==
    /\ Len(contents) < MaxLength
    /\ IF head THEN ListBecomes(quicklistPushHead(ql, v), <<v>> \o contents)
               ELSE ListBecomes(quicklistPushTail(ql, v), Append(contents, v))

Pop(head) ==
    /\ contents # <<>>
    /\ ListBecomes(quicklistPopCustom(ql, head), IF head THEN Tail(contents) ELSE Front(contents))

Lindex(i) ==
    /\ i < Len(contents) /\ -i <= Len(contents)
    /\ ListBecomes(quicklistIndex(ql, i)[1], contents)

Lset(i, v) ==
    /\ i < Len(contents) /\ -i <= Len(contents)
    /\ ListBecomes(quicklistReplaceAtIndex(ql, i, v),
               ReplaceAt(contents, IF i >= 0 THEN i + 1 ELSE Len(contents) + 1 + i, v))

Lrange(start, end) ==
    /\ start <= end /\ end < Len(contents)
    /\ ListBecomes(lrange(ql, start, end), contents)

Ltrim(l, r) ==
    /\ l + r <= Len(contents)
    /\ ListBecomes(ltrim(ql, l, r), SubSeq(contents, l + 1, Len(contents) - r))

Lrem(toremove, v) ==
    /\ contents # <<>>
    /\ ListBecomes(lrem(ql, toremove, v), Without(contents, toremove, v))

Linsert(after, pivot, v) ==
    /\ Len(contents) \in 1 .. MaxLength - 1
    /\ ListBecomes(linsert(ql, after, pivot, v), Around(contents, after, pivot, v))

(* DEBUG RELOAD, a restart: possibly with other options.                   *)
Load ==
    /\ contents # <<>>
    /\ \E fill \in Fills, compress \in Depths :
          \/ ListBecomes(Reload(ql, fill, compress), contents)
          \/ ListBecomes(quicklistCreateFromZiplist(fill, compress, contents), contents)

Lengths == 0 .. MaxLength

QuicklistNext ==
    /\ ~ql.broken
    /\ \/ \E v \in QValues, head \in BOOLEAN : Push(v, head)
       \/ \E head \in BOOLEAN : Pop(head)
       \/ \E i \in -MaxLength .. MaxLength : Lindex(i)
       \/ \E i \in -MaxLength .. MaxLength, v \in QValues : Lset(i, v)
       \/ \E start \in Lengths, end \in Lengths : Lrange(start, end)
       \/ \E l \in Lengths, r \in Lengths : Ltrim(l, r)
       \/ \E toremove \in -2 .. 2, v \in QValues : Lrem(toremove, v)
       \/ \E after \in BOOLEAN, pivot \in QValues, v \in QValues : Linsert(after, pivot, v)
       \/ Load

-------------------------------------------------------------------------------
(* After any sequence of list commands the nodes hold exactly the list, in *)
(* order, no node is empty, and the cached counts that LLEN, LINDEX and    *)
(* LTRIM rely on are exact.                                                *)
QuicklistExact ==
    ~ql.broken =>
    /\ FoldLeft(LAMBDA s, node : s \o node.zl, <<>>, ql.nodes) = contents
    /\ ql.len = Len(ql.nodes) /\ ql.count = Len(contents)
    /\ \A i \in 1 .. Len(ql.nodes) : ql.nodes[i].count = Len(ql.nodes[i].zl) /\ ql.nodes[i].count > 0

(* The head and the tail are never compressed: pushes and pops read them   *)
(* as they are.                                                            *)
EndsRaw ==
    /\ ~ql.broken
    /\ ql.nodes # <<>> => ~ql.nodes[1].lzf /\ ~ql.nodes[TailOf(ql)].lzf

(* EndsRaw as long as no node that LINDEX, LRANGE, LREM or LINSERT left    *)
(* decompressed for use has come within the compress depth or was merged.  *)
EndsRawUnlessHeld == ~ql.held => EndsRaw
====
