-------------------------------- MODULE Ziplist ---------------------------------
(***************************************************************************)
(* The ziplist of redis-stable/src/ziplist.c: entries one after another in *)
(* one block of memory, each beginning with the length of the previous     *)
(* one, in 1 or in 5 bytes; a change of one entry's size may cascade.      *)
(*                                                                         *)
(* The block without its header is a sequence of memory cells; a position  *)
(* p is an index of it.  An element is <<kind, id, len>>: a string of len  *)
(* cells, or an integer whose value takes len cells (0: the value is in    *)
(* the encoding itself).  ZIP_BIGLEN, the string sizes and UINT16_MAX are  *)
(* scaled down.  What lies outside the block reads as Unwritten.           *)
(***************************************************************************)
EXTENDS Integers, Sequences, FiniteSets
LOCAL INSTANCE SequencesExt

CONSTANTS ZipElements,      \* the elements inserted
          ZIP_BIGLEN,       \* 254 in the code
          Str06, Str14,     \* the longest strings with 1 and with 2 length bytes
          UINT16_MAX,
          MaxEntries        \* bound on the length of the list

VARIABLES zl,         \* [cells, tail, length]
          elements    \* the list it stands for

ziplistVars == <<zl, elements>>

ZIP_END == -1
Big == -2
Unwritten == -9

-------------------------------------------------------------------------------
(* Encodings.  The cell of an encoding names the element, payload cells    *)
(* hold its id.                                                            *)
IsStr(e) == e[1] = "s"
zipEncodeLength(e) == IF ~IsStr(e) \/ e[3] <= Str06 THEN 1 ELSE IF e[3] <= Str14 THEN 2 ELSE 5
Code(e) == 100 + 20 * e[2] + e[3] + (IF IsStr(e) THEN 10000 ELSE 0)
Decoded(c) == LET n == (c % 10000) - 100
              IN  <<IF c >= 10000 THEN "s" ELSE "i", n \div 20, n % 20>>
Same(v, n) == [i \in 1 .. n |-> v]
Body(e) == <<Code(e)>> \o Same(0, zipEncodeLength(e) - 1) \o Same(e[2], e[3])

zipPrevEncodeLength(len) == IF len < ZIP_BIGLEN THEN 1 ELSE 5
PrevField(len) == IF len < ZIP_BIGLEN THEN <<len>> ELSE <<Big, len, 0, 0, 0>>
zipPrevEncodeLengthForceLarge(len) == <<Big, len, 0, 0, 0>>

At(c, p) == IF p \in 1 .. Len(c) THEN c[p] ELSE Unwritten
AtEnd(c, p) == At(c, p) = ZIP_END
PrevLenSize(c, p) == IF At(c, p) = Big THEN 5 ELSE 1
PrevLen(c, p) == IF At(c, p) = Big THEN At(c, p + 1) ELSE At(c, p)
zipEntry(c, p) == Decoded(At(c, p + PrevLenSize(c, p)))
zipRawEntryLength(c, p) ==
    LET e == zipEntry(c, p) IN PrevLenSize(c, p) + zipEncodeLength(e) + e[3]

(* Whether the payload at p is whole.                                      *)
Whole(c, p) ==
    LET e == zipEntry(c, p)
        from == p + PrevLenSize(c, p)
    IN  SubSeq(c, from, from + Len(Body(e)) - 1) = Body(e)

zipPrevLenByteDiff(c, p, len) == zipPrevEncodeLength(len) - PrevLenSize(c, p)

-------------------------------------------------------------------------------
(* Memory.                                                                 *)
Cells(n, Val(_)) == SubSeq([i \in 1 .. n |-> Val(i)], 1, n)
Write(c, p, s) == Cells(Len(c), LAMBDA i : IF i >= p /\ i < p + Len(s) THEN s[i - p + 1] ELSE c[i])
memmove(c, dst, src, n) ==
    Cells(Len(c), LAMBDA i : IF i >= dst /\ i < dst + n THEN At(c, i - dst + src) ELSE c[i])
ziplistResize(c, len) == Cells(len, LAMBDA i : IF i = len THEN ZIP_END ELSE At(c, i))

ziplistNew == [cells |-> <<ZIP_END>>, tail |-> 1, length |-> 0]
ZIPLIST_INCR_LENGTH(z, incr) ==
    IF z.length < UINT16_MAX THEN [z EXCEPT !.length = @ + incr] ELSE z

-------------------------------------------------------------------------------
(* Growing a length field does not move the tail.                          *)
RECURSIVE CascadeForgetsTail(_, _)
CascadeForgetsTail(z, p) ==
    LET c == z.cells
        rawlen == zipRawEntryLength(c, p)
        np == p + rawlen
        extra == zipPrevEncodeLength(rawlen) - PrevLenSize(c, np)
        room == ziplistResize(c, Len(c) + extra)
        moved == memmove(room, np + PrevLenSize(c, np) + extra, np + PrevLenSize(c, np),
                         Len(c) - np - PrevLenSize(c, np))
    IN  IF AtEnd(c, p) \/ AtEnd(c, np) \/ PrevLen(c, np) = rawlen THEN z
        ELSE IF extra > 0
        THEN CascadeForgetsTail([z EXCEPT !.cells = Write(moved, np, PrevField(rawlen))], np)
        ELSE [z EXCEPT !.cells = Write(c, np, IF extra < 0 THEN zipPrevEncodeLengthForceLarge(rawlen)
                                              ELSE PrevField(rawlen))]

RECURSIVE __ziplistCascadeUpdate(_, _)
__ziplistCascadeUpdate(z, p) ==
    LET c == z.cells
        rawlen == zipRawEntryLength(c, p)
        np == p + rawlen
        extra == zipPrevEncodeLength(rawlen) - PrevLenSize(c, np)
        room == ziplistResize(c, Len(c) + extra)
        moved == memmove(room, np + PrevLenSize(c, np) + extra, np + PrevLenSize(c, np),
                         Len(c) - np - PrevLenSize(c, np))
    IN  IF AtEnd(c, p) \/ AtEnd(c, np) \/ PrevLen(c, np) = rawlen THEN z
        ELSE IF extra > 0
        THEN __ziplistCascadeUpdate(
                 [z EXCEPT !.cells = Write(moved, np, PrevField(rawlen)),
                           !.tail = IF z.tail # np THEN @ + extra ELSE @], np)
        ELSE [z EXCEPT !.cells = Write(c, np, IF extra < 0 THEN zipPrevEncodeLengthForceLarge(rawlen)
                                              ELSE PrevField(rawlen))]

(* The position num entries after p, or of the end, and the entries between. *)
Skip(c, p, num) ==
    LET go[x \in Nat \X Nat] ==
            IF AtEnd(c, x[1]) \/ x[2] = num THEN x
            ELSE go[<<x[1] + zipRawEntryLength(c, x[1]), x[2] + 1>>]
    IN  go[<<p, 0>>]

(* A neighbour whose length field changed its size may change others.      *)
Cascade(z, p, nextdiff) == IF nextdiff # 0 THEN __ziplistCascadeUpdate(z, p) ELSE z

(* The tail, moved by the bytes inserted or deleted; by nextdiff as well   *)
(* if the entry at next is not the tail itself.                            *)
TailOffset(z, c, next, len, nextdiff) ==
    z.tail + len + (IF AtEnd(c, next + zipRawEntryLength(c, next)) THEN 0 ELSE nextdiff)

(* What follows q moves to p, c having its length field written.           *)
DeleteMove(z, c, p, q, totlen, nextdiff) ==
    [z EXCEPT !.cells = ziplistResize(memmove(c, p, q, Len(c) - q), Len(c) - totlen + nextdiff),
              !.tail = TailOffset(z, c, q, -totlen, nextdiff)]

DeleteLast(z, p, prev, totlen) ==
    [z EXCEPT !.cells = ziplistResize(@, Len(@) - totlen), !.tail = p - prev]

DeleteBefore(z, p, prev, next, num, nextdiff) ==
    Cascade(ZIPLIST_INCR_LENGTH(
                DeleteMove(z, Write(z.cells, next - nextdiff, PrevField(prev)), p, next - nextdiff,
                           next - p, nextdiff), -num),
            p, nextdiff)

(* s is the position after the entries to delete, and their number.        *)
DeleteUpTo(z, p, prev, s) ==
    IF s[1] = p THEN z
    ELSE IF AtEnd(z.cells, s[1]) THEN ZIPLIST_INCR_LENGTH(DeleteLast(z, p, prev, s[1] - p), -s[2])
    ELSE DeleteBefore(z, p, prev, s[1], s[2], zipPrevLenByteDiff(z.cells, s[1], prev))

__ziplistDelete(z, p, num) ==
    DeleteUpTo(z, p, PrevLen(z.cells, p), Skip(z.cells, p, num))

(* How an insertion of e at p is laid out: <<prevlen, reqlen, nextdiff>>.  *)
LayoutAfter(z, p, e, prevlen, reqlen) ==
    <<prevlen, reqlen, IF AtEnd(z.cells, p) THEN 0 ELSE zipPrevLenByteDiff(z.cells, p, reqlen)>>

LayoutFor(z, p, e, prevlen) ==
    LayoutAfter(z, p, e, prevlen, e[3] + zipPrevEncodeLength(prevlen) + zipEncodeLength(e))

Layout(z, p, e) ==
    LayoutFor(z, p, e, IF ~AtEnd(z.cells, p) THEN PrevLen(z.cells, p)
                       ELSE IF ~AtEnd(z.cells, z.tail) THEN zipRawEntryLength(z.cells, z.tail)
                       ELSE 0)

InsertMove(z, c, next, reqlen, nextdiff) ==
    [z EXCEPT !.cells = c, !.tail = TailOffset(z, c, next, reqlen, nextdiff)]

(* room: the block, resized.  What follows p moves behind the new entry.   *)
MakeRoom(z, p, room, reqlen, nextdiff) ==
    IF AtEnd(room, p) THEN [z EXCEPT !.cells = room, !.tail = p]
    ELSE InsertMove(z, Write(memmove(room, p + reqlen, p - nextdiff, Len(z.cells) - p + nextdiff),
                             p + reqlen, PrevField(reqlen)),
                    p + reqlen, reqlen, nextdiff)

WriteEntry(z, p, e, prevlen) ==
    ZIPLIST_INCR_LENGTH([z EXCEPT !.cells = Write(@, p, PrevField(prevlen) \o Body(e))], 1)

InsertLaidOut(z, p, e, l) ==
    WriteEntry(Cascade(MakeRoom(z, p, ziplistResize(z.cells, Len(z.cells) + l[2] + l[3]), l[2], l[3]),
                       p + l[2], l[3]),
               p, e, l[1])

__ziplistInsert(z, p, e) == InsertLaidOut(z, p, e, Layout(z, p, e))

(* An insertion that frees more room than it takes resizes the block       *)
(* before it has moved the entries.  The model stops short of it.          *)
ResizeGrows(l) == l[2] + l[3] >= 0
RoomFirst(z, p, e) == ResizeGrows(Layout(z, p, e))

(* Whichever of the two is extended in place, the block is the same.       *)
ziplistMerge(a, b) ==
    __ziplistCascadeUpdate(
        [cells |-> SubSeq(a.cells, 1, Len(a.cells) - 1) \o b.cells,
         tail |-> Len(a.cells) - 1 + b.tail,
         length |-> IF a.length + b.length < UINT16_MAX THEN a.length + b.length ELSE UINT16_MAX],
        a.tail)

ziplistPush(z, e, head) == __ziplistInsert(z, IF head THEN 1 ELSE Len(z.cells), e)

(* 0 stands for NULL.                                                      *)
ziplistIndex(z, index) ==
    LET c == z.cells
        back[x \in Nat \X Int] ==
            IF PrevLen(c, x[1]) > 0 /\ x[2] # 0 THEN back[<<x[1] - PrevLen(c, x[1]), x[2] - 1>>] ELSE x
        fwd == Skip(c, 1, index)
        bwd == back[<<z.tail, -index - 1>>]
    IN  IF index >= 0 THEN (IF AtEnd(c, fwd[1]) \/ fwd[2] < index THEN 0 ELSE fwd[1])
        ELSE IF AtEnd(c, z.tail) \/ bwd[2] > 0 THEN 0 ELSE bwd[1]

ziplistPrev(z, p) ==
    IF AtEnd(z.cells, p) THEN (IF AtEnd(z.cells, z.tail) THEN 0 ELSE z.tail)
    ELSE IF p = 1 THEN 0 ELSE p - PrevLen(z.cells, p)

ziplistDeleteRange(z, index, num) ==
    LET p == ziplistIndex(z, index) IN IF p = 0 THEN z ELSE __ziplistDelete(z, p, num)

(* Comparing every (skip + 1)th entry.                                     *)
ziplistFind(z, e, skip) ==
    LET c == z.cells
        go[x \in Nat \X Nat] ==
            IF AtEnd(c, x[1]) THEN 0
            ELSE IF x[2] = 0 /\ zipEntry(c, x[1]) = e THEN x[1]
            ELSE go[<<x[1] + zipRawEntryLength(c, x[1]), IF x[2] = 0 THEN skip ELSE x[2] - 1>>]
    IN  go[<<1, 0>>]


(* <<length, ziplist>>: a length below UINT16_MAX is stored again.         *)
ziplistLen(z) ==
    LET n == Skip(z.cells, 1, Len(z.cells))[2]
    IN  IF z.length < UINT16_MAX THEN <<z.length, z>>
        ELSE <<n, IF n < UINT16_MAX THEN [z EXCEPT !.length = n] ELSE z>>

-------------------------------------------------------------------------------
ZiplistInit ==
    /\ zl = ziplistNew
    /\ elements = <<>>

(* Before the element number i, or at the end.                             *)
InsertOther(p, i, e) ==
    /\ Len(elements) < MaxEntries /\ RoomFirst(zl, p, e)
    /\ zl' = __ziplistInsert(zl, p, e)
    /\ elements' = InsertAt(elements, i, e)

ziplistInsert(i, e) == InsertOther(Skip(zl.cells, 1, i - 1)[1], i, e)

ziplistDelete(i, num) ==
    LET last == IF i + num - 1 > Len(elements) THEN Len(elements) ELSE i + num - 1
    IN  /\ zl' = ziplistDeleteRange(zl, i - 1, num)
        /\ elements' = SubSeq(elements, 1, i - 1) \o SubSeq(elements, last + 1, Len(elements))

(* quicklist.c merges the ziplists of its nodes, none of which is empty.   *)
MergeWith(es, other, after) ==
    /\ elements # <<>> /\ Len(elements) + Len(es) <= MaxEntries
    /\ zl' = IF after THEN ziplistMerge(zl, other) ELSE ziplistMerge(other, zl)
    /\ elements' = IF after THEN elements \o es ELSE es \o elements

Merge(es, after) ==
    MergeWith(es, FoldLeft(LAMBDA z, e : ziplistPush(z, e, FALSE), ziplistNew, es), after)

Length ==
    /\ zl' = ziplistLen(zl)[2]
    /\ UNCHANGED elements

ZiplistNext ==
    \/ \E i \in 1 .. Len(elements) + 1, e \in ZipElements : ziplistInsert(i, e)
    \/ \E i \in 1 .. Len(elements), num \in 1 .. 2 : ziplistDelete(i, num)
    \/ \E e, f \in ZipElements, after \in BOOLEAN : Merge(<<e, f>>, after)
    \/ Length

ZiplistSpec == ZiplistInit /\ [][ZiplistNext]_ziplistVars

-------------------------------------------------------------------------------
(* Whatever was inserted, deleted and merged, through every cascade of     *)
(* length fields, the block holds exactly the elements in order, read      *)
(* forwards by the entries' lengths and backwards from the tail by the     *)
(* lengths of the previous entries.                                        *)
ZiplistExact ==
    LET n == Len(elements)
        at(i) == Skip(zl.cells, 1, i - 1)[1]
    IN  /\ \A i \in 1 .. n : /\ ~AtEnd(zl.cells, at(i))
                             /\ Whole(zl.cells, at(i))
                             /\ zipEntry(zl.cells, at(i)) = elements[i]
                             /\ ziplistIndex(zl, i - 1) = at(i)
                             /\ ziplistIndex(zl, i - 1 - n) = at(i)
                             /\ ziplistPrev(zl, at(i + 1)) = at(i)
        /\ at(n + 1) = Len(zl.cells) /\ AtEnd(zl.cells, at(n + 1))
        /\ ziplistIndex(zl, n) = 0 /\ (n > 0 => ziplistIndex(zl, -n - 1) = 0)

(* The length is exact, though its field stops counting at UINT16_MAX; a   *)
(* find with a skip, as hashes and sorted sets use it on their             *)
(* field/value pairs, returns the first matching field.                    *)
ZiplistFinds ==
    LET fields(e) == {i \in 1 .. Len(elements) : i % 2 = 1 /\ elements[i] = e}
    IN  /\ ziplistLen(zl)[1] = Len(elements)
        /\ \A e \in ZipElements :
              ziplistFind(zl, e, 1) =
                  IF fields(e) = {} THEN 0
                  ELSE Skip(zl.cells, 1, (CHOOSE i \in fields(e) : \A j \in fields(e) : i <= j) - 1)[1]
====
