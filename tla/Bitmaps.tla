-------------------------------- MODULE Bitmaps --------------------------------
(***************************************************************************)
(* The bit commands on strings (redis-stable/src/bitops.c).                *)
(*                                                                         *)
(* Bytes have ByteBits bits, words of unsigned long WordBytes bytes and    *)
(* the bits are numbered from 0, the most significant one of byte 0.       *)
(* BITFIELD makes room for its last write only; the commands considered    *)
(* are those whose last write reaches farthest.                            *)
(***************************************************************************)
EXTENDS Strings
LOCAL INSTANCE SequencesExt
LOCAL INSTANCE FiniteSetsExt

ByteBits == 2
WordBytes == 2

BitAt(bytes, i) ==
    (bytes[(i \div ByteBits) + 1] \div 2^(ByteBits - 1 - (i % ByteBits))) % 2

BitAtOrZero(bytes, i) ==
    IF i \div ByteBits < Len(bytes) THEN BitAt(bytes, i) ELSE 0

WithBit(bytes, i, on) ==
    LET n == (i \div ByteBits) + 1
        byte == bytes[n] + (on - BitAt(bytes, i)) * 2^(ByteBits - 1 - (i % ByteBits))
    IN  SubSeq(bytes, 1, n - 1) \o <<byte>> \o SubSeq(bytes, n + 1, Len(bytes))

redisPopcount(bytes) ==
    Cardinality({i \in 0 .. Len(bytes) * ByteBits - 1 : BitAt(bytes, i) = 1})


(* Bytes of the skipped value are passed one by one up to an aligned       *)
(* address, then whole words of them; the rest of the string, at most one  *)
(* word of it, is scanned bit by bit, padded with zeros.                   *)
Skipped(bytes, from, to, bit) ==
    \A i \in from + 1 .. to : bytes[i] = IF bit = 1 THEN 0 ELSE 2^ByteBits - 1

BitposPrefix(bytes, address, bit) ==
    Max({n \in 0 .. Len(bytes) : /\ \A m \in 0 .. n - 1 : (address + m) % WordBytes # 0
                                /\ Skipped(bytes, 0, n, bit)})

BitposWords(bytes, prefix, bit) ==
    Max({n \in 0 .. Len(bytes) : /\ n * WordBytes + prefix <= Len(bytes)
                                /\ Skipped(bytes, prefix, prefix + n * WordBytes, bit)})

(* The first bit of its value in the word that starts at start.            *)
BitposInWord(bytes, start, bit) ==
    LET word == {i \in 0 .. WordBytes * ByteBits - 1 : BitAtOrZero(bytes, start + i) = bit}
    IN  IF bit = 1 /\ word = {} THEN -1 ELSE start + Min(word)

BitposFrom(bytes, prefix, bit) ==
    BitposInWord(bytes, (prefix + BitposWords(bytes, prefix, bit) * WordBytes) * ByteBits, bit)

redisBitpos(bytes, address, bit) == BitposFrom(bytes, BitposPrefix(bytes, address, bit), bit)

-------------------------------------------------------------------------------
(* Integers of any width at any place of a bitmap.  uint64_t is modulo     *)
(* UINT64, int64_t is LLONG_MIN .. LLONG_MAX.                              *)

UINT64 == 2 * (LLONG_MAX + 1)

setUnsignedBitfield(bytes, offset, bits, value) ==
    FoldLeft(LAMBDA b, j : WithBit(b, offset + j, (value \div 2^(bits - 1 - j)) % 2),
             bytes, [j \in 1 .. bits |-> j - 1])

setSignedBitfield(bytes, offset, bits, value) ==
    setUnsignedBitfield(bytes, offset, bits, value % UINT64)

getUnsignedBitfield(bytes, offset, bits) ==
    FoldLeft(LAMBDA v, j : 2 * v + BitAtOrZero(bytes, offset + j),
             0, [j \in 1 .. bits |-> j - 1])

(* The top bit is propagated to the higher ones.                           *)
SignExtended(u, bits) == IF (u \div 2^(bits - 1)) % 2 = 1 THEN u - 2^bits ELSE u

getSignedBitfield(bytes, offset, bits) ==
    SignExtended(getUnsignedBitfield(bytes, offset, bits), bits)

(* The overflow checks answer <<overflows, limit>>; how is "wrap", "sat"   *)
(* or "fail".                                                              *)
checkUnsignedBitfieldOverflow(value, incr, bits, how) ==
    LET max == 2^bits - 1
        maxincr == Wrap(max - value)
        minincr == Wrap(-value)
        wrapped == ((value + incr) % UINT64) % 2^bits
    IN  IF value > max \/ (incr > 0 /\ incr > maxincr)
        THEN <<TRUE, IF how = "wrap" THEN wrapped ELSE max>>
        ELSE IF incr < 0 /\ incr < minincr
        THEN <<TRUE, IF how = "wrap" THEN wrapped ELSE 0>>
        ELSE <<FALSE, 0>>

(* SAT that always saturates upwards.                                      *)
SaturatesUp(value, incr, bits, how) ==
    LET max == 2^(bits - 1) - 1
        c == (value + incr) % 2^bits
    IN  IF value + incr > max \/ value + incr < -max - 1
        THEN <<TRUE, IF how = "wrap" THEN (IF c > max THEN c - 2^bits ELSE c)
                     ELSE max>>
        ELSE <<FALSE, 0>>

(* Types as wide as int64_t are not considered with "wrap": the code then  *)
(* shifts by the whole width, which C leaves undefined.                    *)
checkSignedBitfieldOverflow(value, incr, bits, how) ==
    LET full == 2^bits = UINT64
        max == 2^(bits - 1) - 1
        min == -max - 1
        maxincr == Wrap(max - value)
        minincr == Wrap(min - value)
        c == ((value + incr) % UINT64) % 2^bits
        wrapped == IF c > max THEN c - 2^bits ELSE c
    IN  IF \/ value > max
           \/ ~full /\ incr > maxincr
           \/ value >= 0 /\ incr > 0 /\ incr > maxincr
        THEN <<TRUE, IF how = "wrap" THEN wrapped ELSE max>>
        ELSE IF \/ value < min
                \/ ~full /\ incr < minincr
                \/ value < 0 /\ incr < 0 /\ incr < minincr
        THEN <<TRUE, IF how = "wrap" THEN wrapped ELSE min>>
        ELSE <<FALSE, 0>>

-------------------------------------------------------------------------------
(* Offsets are limited to MaxString bytes.                                 *)
getBitOffsetFromArgument(offset) ==
    offset >= 0 /\ offset \div ByteBits < MaxString

getBitfieldTypeFromArgument(sign, bits) ==
    bits >= 1 /\ 2^bits <= (IF sign THEN UINT64 ELSE UINT64 \div 2)

(* The string is created, or grown with zeros, up to the bit.              *)
Grown(o, maxbit) == String(Overlay(StringOrEmpty(o), (maxbit \div ByteBits) + 1, <<>>))

GrowFor(s, k, maxbit) ==
    IF checkType(s.db[k], "string") THEN Error(s, "wrong type")
    ELSE dbSet(s, k, Grown(s.db[k], maxbit))

lookupStringForBitCommand(s, k, maxbit) == GrowFor(lookupKeyWrite(s, k), k, maxbit)

SetBit(s, k, offset, on) ==
    IF IsError(s) THEN s
    ELSE Modified(dbOverwrite(s, k, String(WithBit(Content(s.db[k]), offset, on))), k,
                  <<"int", BitAt(Content(s.db[k]), offset)>>)

setbitCommand(s, k, offset, on) ==
    IF ~getBitOffsetFromArgument(offset) THEN Error(s, "bit offset")
    ELSE IF on \notin {0, 1} THEN Error(s, "bit is not an integer")
    ELSE SetBit(lookupStringForBitCommand(s, k, offset), k, offset, on)

getbitCommand(s, k, offset) ==
    LET o == lookupKeyRead(s, k)
        s1 == expireIfNeeded(s, k)
    IN  IF ~getBitOffsetFromArgument(offset) THEN Error(s, "bit offset")
        ELSE IF o = None THEN Reply(s1, <<"int", 0>>)
        ELSE IF checkType(o, "string") THEN Error(s1, "wrong type")
        ELSE Reply(s1, <<"int", BitAtOrZero(Content(o), offset)>>)

BitOp(op, a, b) == CASE op = "AND" -> a * b
                     [] op = "OR" -> IF a + b > 0 THEN 1 ELSE 0
                     [] op = "XOR" -> (a + b) % 2

(* Missing keys count as empty strings, shorter ones as padded with zeros. *)
BitopResult(op, strings) ==
    LET maxlen == Max({Len(strings[i]) : i \in DOMAIN strings})
        bits == [i \in 1 .. maxlen * ByteBits |->
                    LET first == BitAtOrZero(strings[1], i - 1)
                    IN  FoldLeft(LAMBDA b, str : BitOp(op, b, BitAtOrZero(str, i - 1)),
                                 IF op = "NOT" THEN 1 - first ELSE first,
                                 Tail(strings))]
    IN  [j \in 1 .. maxlen |-> 2 * bits[2 * j - 1] + bits[2 * j]]

StoreBits(s, target, res) ==
    IF res # <<>> THEN Reply(Dirty(setKey(s, target, String(res)), 1), <<"int", Len(res)>>)
    ELSE IF dbExists(s, target) THEN Modified(dbDelete(s, target), target, <<"int", 0>>)
    ELSE Reply(Dirty(s, 1), <<"int", 0>>)

BitopOf(s, op, target, os) ==
    IF \E i \in DOMAIN os : checkType(os[i], "string") THEN Error(s, "wrong type")
    ELSE StoreBits(s, target, BitopResult(op, [i \in DOMAIN os |-> StringOrEmpty(os[i])]))

bitopCommand(s, op, target, ks) ==
    IF op = "NOT" /\ Len(ks) # 1 THEN Error(s, "BITOP NOT")
    ELSE BitopOf(lookedUp(s, ks), op, target, [i \in DOMAIN ks |-> lookupKeyRead(s, ks[i])])

(* range is <<>>, <<start>> or <<start, end>>.                             *)
bitcountCommand(s, k, range) ==
    LET o == lookupKeyRead(s, k)
        s1 == expireIfNeeded(s, k)
        part == IF range = <<>> THEN Content(o)
                ELSE StringRange(Content(o), range[1], range[2])
    IN  IF o = None THEN Reply(s1, <<"int", 0>>)
        ELSE IF checkType(o, "string") THEN Error(s1, "wrong type")
        ELSE IF Len(range) = 1 THEN Error(s1, "syntax")
        ELSE Reply(s1, <<"int", redisPopcount(part)>>)

(* The reply to BITPOS for the bytes from start on.                        *)
BitposReply(pos, len, start, bit, end_given) ==
    IF pos = -1 \/ (end_given /\ bit = 0 /\ pos = len * ByteBits) THEN <<"int", -1>>
    ELSE <<"int", pos + start * ByteBits>>

BitposRange(bytes, start, end, bit, end_given) ==
    IF start > end THEN <<"int", -1>>
    ELSE BitposReply(redisBitpos(SubSeq(bytes, start + 1, end + 1), start, bit),
                     end - start + 1, start, bit, end_given)

(* Negative positions count from the end.                                  *)
FromEnd(i, len) == IF i < 0 THEN len + i ELSE i

BitposIn(bytes, bit, range) ==
    BitposRange(bytes, IF range = <<>> THEN 0 ELSE Max({FromEnd(range[1], Len(bytes)), 0}),
                IF Len(range) < 2 THEN Len(bytes) - 1
                ELSE Min({Max({FromEnd(range[2], Len(bytes)), 0}), Len(bytes) - 1}),
                bit, Len(range) = 2)

bitposCommand(s, k, bit, range) ==
    LET o == lookupKeyRead(s, k)
        s1 == expireIfNeeded(s, k)
    IN  IF bit \notin {0, 1} THEN Error(s, "bit argument")
        ELSE IF o = None THEN Reply(s1, <<"int", IF bit = 1 THEN -1 ELSE 0>>)
        ELSE IF checkType(o, "string") THEN Error(s1, "wrong type")
        ELSE Reply(s1, BitposIn(Content(o), bit, range))

-------------------------------------------------------------------------------
(* BITFIELD: ops is a sequence of <<opcode, sign, bits, offset, number,    *)
(* how>>, how being the OVERFLOW in force.                                 *)

OpValid(op) == /\ getBitfieldTypeFromArgument(op[2], op[3])
               /\ getBitOffsetFromArgument(op[4])

Writes(ops) == SelectSeq(ops, LAMBDA op : op[1] # "GET")

(* What a SET or an INCRBY makes of the bytes, and its reply.              *)
GetBitfield(bytes, op) ==
    IF op[2] THEN getSignedBitfield(bytes, op[4], op[3])
    ELSE getUnsignedBitfield(bytes, op[4], op[3])

SetBitfield(bytes, op, value) ==
    IF op[2] THEN setSignedBitfield(bytes, op[4], op[3], value)
    ELSE setUnsignedBitfield(bytes, op[4], op[3], value)

checkBitfieldOverflow(op, value, incr) ==
    IF op[2] THEN checkSignedBitfieldOverflow(value, incr, op[3], op[6])
    ELSE checkUnsignedBitfieldOverflow(value, incr, op[3], op[6])

(* What is stored, as a set that is empty when the operation fails.        *)
BitfieldNew(op, check, value) ==
    IF ~check[1] THEN {value} ELSE IF op[6] = "fail" THEN {} ELSE {check[2]}

BitfieldResult(bytes, op, new) ==
    IF new = {} THEN <<bytes, <<"nil">>>>
    ELSE <<SetBitfield(bytes, op, The(new)),
           <<"int", IF op[1] = "INCRBY" THEN The(new) ELSE GetBitfield(bytes, op)>>>>

BitfieldWrite(bytes, op) ==
    LET base == IF op[1] = "INCRBY" THEN GetBitfield(bytes, op)
                ELSE IF op[2] THEN op[5] ELSE op[5] % UINT64
        incr == IF op[1] = "INCRBY" THEN op[5] ELSE 0
    IN  BitfieldResult(bytes, op,
            BitfieldNew(op, checkBitfieldOverflow(op, base, incr), base + incr))

Answered(acc, w) == <<w[1], Append(acc[2], w[2])>>

BitfieldStep(acc, op) ==
    Answered(acc, IF op[1] = "GET" THEN <<acc[1], <<"int", GetBitfield(acc[1], op)>>>>
                  ELSE BitfieldWrite(acc[1], op))

BitfieldAll(o, ops) == FoldLeft(BitfieldStep, <<StringOrEmpty(o), <<>>>>, ops)

StoreBitfield(s, k, res, writes) ==
    Reply(Dirty(signalModifiedKey(dbOverwrite(s, k, String(res[1])), k), writes),
          <<"multi", res[2]>>)

ReadBitfield(s, o, ops) ==
    IF checkType(o, "string") THEN Error(s, "wrong type")
    ELSE Reply(s, <<"multi", BitfieldAll(o, ops)[2]>>)

WriteBitfield(s, k, ops) ==
    IF IsError(s) THEN s
    ELSE StoreBitfield(s, k, BitfieldAll(s.db[k], ops), Len(Writes(ops)))

bitfieldCommand(s, k, ops) ==
    LET writes == Writes(ops)
        last == writes[Len(writes)]
    IN  IF \E i \in DOMAIN ops : ~OpValid(ops[i]) THEN Error(s, "bitfield argument")
        ELSE IF writes = <<>> THEN ReadBitfield(expireIfNeeded(s, k), lookupKeyRead(s, k), ops)
        ELSE WriteBitfield(lookupStringForBitCommand(s, k, last[4] + last[3] - 1), k, ops)

-------------------------------------------------------------------------------
(* The bit commands of redisCommandTable.                                  *)

BitNames == {"SETBIT", "GETBIT", "BITOP", "BITCOUNT", "BITPOS", "BITFIELD"}

BitProc(s, c) ==
    CASE c[1] = "SETBIT" -> setbitCommand(s, c[2], c[3], c[4])
      [] c[1] = "GETBIT" -> getbitCommand(s, c[2], c[3])
      [] c[1] = "BITOP" -> bitopCommand(s, c[2], c[3], c[4])
      [] c[1] = "BITCOUNT" -> bitcountCommand(s, c[2], c[3])
      [] c[1] = "BITPOS" -> bitposCommand(s, c[2], c[3], c[4])
      [] c[1] = "BITFIELD" -> bitfieldCommand(s, c[2], c[3])
===============================================================================
