--------------------------------- MODULE Intset ---------------------------------
(***************************************************************************)
(* The intset of redis-stable/src/intset.c: a sorted array of integers of  *)
(* one width, which is upgraded in place when a wider value arrives.       *)
(*                                                                         *)
(* The array is a sequence of memory cells, so that a write over cells     *)
(* that are still to be read would show.  A cell holds a digit in base     *)
(* Base; the encodings 1, 2 and 4 stand for int16_t, int32_t and int64_t   *)
(* and are the cells an element takes, in two's complement, lowest digit   *)
(* first.  A cell that was allocated and not written is Garbage.           *)
(***************************************************************************)
EXTENDS Integers, Sequences, FiniteSets
LOCAL INSTANCE SequencesExt
LOCAL INSTANCE FiniteSetsExt

CONSTANTS Base,           \* the values of a cell
          IntsetValues    \* the integers added, removed and looked up

VARIABLES intset,     \* [encoding, length, contents]
          members     \* the integers added and not removed

intsetVars == <<intset, members>>

INTSET_ENC_INT16 == 1
INTSET_ENC_INT32 == 2
INTSET_ENC_INT64 == 4
Garbage == -1000000

Fits(v, enc) == v >= -((Base ^ enc) \div 2) /\ v < (Base ^ enc) \div 2

_intsetValueEncoding(v) ==
    IF ~Fits(v, INTSET_ENC_INT32) THEN INTSET_ENC_INT64
    ELSE IF ~Fits(v, INTSET_ENC_INT16) THEN INTSET_ENC_INT32
    ELSE INTSET_ENC_INT16

(* Positions count from 0, as in the code.                                 *)
_intsetGetEncoded(is, pos, enc) ==
    LET raw == FoldLeft(LAMBDA r, i : Base * r + is.contents[pos * enc + i], 0,
                        Reverse([i \in 1 .. enc |-> i]))
    IN  IF raw < (Base ^ enc) \div 2 THEN raw ELSE raw - Base ^ enc

_intsetGet(is, pos) == _intsetGetEncoded(is, pos, is.encoding)

_intsetSet(is, pos, value) ==
    LET enc == is.encoding
        raw == IF value < 0 THEN value + Base ^ enc ELSE value
        cell(i) == LET j == i - pos * enc
                   IN  IF j \in 1 .. enc THEN (raw \div (Base ^ (j - 1))) % Base ELSE is.contents[i]
    IN  [is EXCEPT !.contents = [i \in 1 .. Len(is.contents) |-> cell(i)]]

intsetNew == [encoding |-> INTSET_ENC_INT16, length |-> 0, contents |-> <<>>]

intsetResize(is, len) ==
    LET cells == len * is.encoding
    IN  [is EXCEPT !.contents = [i \in 1 .. cells |-> IF i <= Len(is.contents)
                                                      THEN is.contents[i] ELSE Garbage]]

(* The search goes on above mid, leaving mid itself in.                    *)
SearchKeepsMid(is, value) ==
    LET loop[b \in Int \X Int] ==
            LET mid == (b[1] + b[2]) \div 2
                cur == _intsetGet(is, mid)
            IN  IF b[2] <= b[1] THEN <<FALSE, b[1]>>
                ELSE IF value > cur THEN loop[<<mid + 1, b[2]>>]
                ELSE IF value < cur THEN loop[<<b[1], mid - 1>>]
                ELSE <<TRUE, mid>>
    IN  IF is.length = 0 THEN <<FALSE, 0>>
        ELSE IF value > _intsetGet(is, is.length - 1) THEN <<FALSE, is.length>>
        ELSE IF value < _intsetGet(is, 0) THEN <<FALSE, 0>>
        ELSE loop[<<0, is.length - 1>>]

(* <<found, pos>>                                                          *)
intsetSearch(is, value) ==
    LET loop[b \in Int \X Int] ==
            LET mid == (b[1] + b[2]) \div 2
                cur == _intsetGet(is, mid)
            IN  IF b[2] < b[1] THEN <<FALSE, b[1]>>
                ELSE IF value > cur THEN loop[<<mid + 1, b[2]>>]
                ELSE IF value < cur THEN loop[<<b[1], mid - 1>>]
                ELSE <<TRUE, mid>>
    IN  IF is.length = 0 THEN <<FALSE, 0>>
        ELSE IF value > _intsetGet(is, is.length - 1) THEN <<FALSE, is.length>>
        ELSE IF value < _intsetGet(is, 0) THEN <<FALSE, 0>>
        ELSE loop[<<0, is.length - 1>>]

(* The elements are moved front to back.                                   *)
UpgradeForwards(is, value) ==
    LET prepend == IF value < 0 THEN 1 ELSE 0
        wide == intsetResize([is EXCEPT !.encoding = _intsetValueEncoding(value)], is.length + 1)
        move(x, i) == _intsetSet(x, i - 1 + prepend, _intsetGetEncoded(x, i - 1, is.encoding))
        moved == FoldLeft(move, wide, [i \in 1 .. is.length |-> i])
    IN  [_intsetSet(moved, IF value < 0 THEN 0 ELSE is.length, value) EXCEPT !.length = @ + 1]

intsetUpgradeAndAdd(is, value) ==
    LET prepend == IF value < 0 THEN 1 ELSE 0
        wide == intsetResize([is EXCEPT !.encoding = _intsetValueEncoding(value)], is.length + 1)
        move(x, i) == _intsetSet(x, i - 1 + prepend, _intsetGetEncoded(x, i - 1, is.encoding))
        moved == FoldLeft(move, wide, Reverse([i \in 1 .. is.length |-> i]))
    IN  [_intsetSet(moved, IF value < 0 THEN 0 ELSE is.length, value) EXCEPT !.length = @ + 1]

(* memmove() of the cells from element `from` on to element `to`.          *)
intsetMoveTail(is, from, to) ==
    LET enc == is.encoding
        n == (is.length - from) * enc
        cell(i) == IF i > to * enc /\ i <= to * enc + n
                   THEN is.contents[i + (from - to) * enc] ELSE is.contents[i]
    IN  [is EXCEPT !.contents = [i \in 1 .. Len(is.contents) |-> cell(i)]]

intsetAdd(is, value) ==
    LET s == intsetSearch(is, value)
        room == intsetResize(is, is.length + 1)
        moved == IF s[2] < is.length THEN intsetMoveTail(room, s[2], s[2] + 1) ELSE room
    IN  IF _intsetValueEncoding(value) > is.encoding THEN intsetUpgradeAndAdd(is, value)
        ELSE IF s[1] THEN is
        ELSE [_intsetSet(moved, s[2], value) EXCEPT !.length = @ + 1]

intsetFind(is, value) ==
    _intsetValueEncoding(value) <= is.encoding /\ intsetSearch(is, value)[1]

intsetRemove(is, value) ==
    LET pos == intsetSearch(is, value)[2]
        moved == IF pos < is.length - 1 THEN intsetMoveTail(is, pos + 1, pos) ELSE is
    IN  IF ~intsetFind(is, value) THEN is
        ELSE [intsetResize(moved, is.length - 1) EXCEPT !.length = @ - 1]

-------------------------------------------------------------------------------
IntsetInit ==
    /\ intset = intsetNew
    /\ members = {}

IntsetAdd(v) ==
    /\ intset' = intsetAdd(intset, v)
    /\ members' = members \cup {v}

IntsetRemove(v) ==
    /\ intset' = intsetRemove(intset, v)
    /\ members' = members \ {v}

IntsetNext == \E v \in IntsetValues : IntsetAdd(v) \/ IntsetRemove(v)

IntsetSpec == IntsetInit /\ [][IntsetNext]_intsetVars

-------------------------------------------------------------------------------
(* Whatever was added and removed, through every upgrade of the encoding,  *)
(* the array holds exactly the members in ascending order, and the width   *)
(* holds each of them.                                                     *)
IntsetExact ==
    /\ {_intsetGet(intset, i) : i \in 0 .. intset.length - 1} = members
    /\ \A i \in 1 .. intset.length - 1 : _intsetGet(intset, i - 1) < _intsetGet(intset, i)
    /\ Len(intset.contents) = intset.length * intset.encoding

(* A lookup of any integer, of any width, finds it exactly when it is a    *)
(* member: the binary search agrees with membership.                       *)
IntsetFinds == \A v \in IntsetValues : intsetFind(intset, v) <=> v \in members
====
