-------------------------------- MODULE Strings --------------------------------
(***************************************************************************)
(* The string commands (redis-stable/src/t_string.c) with the conversions  *)
(* between strings and numbers they rest on (object.c, util.c).            *)
(*                                                                         *)
(* A string is a sequence of bytes; a byte has two bits here: 0 is NUL, 1  *)
(* and 2 are the digits '0' and '1' of a binary notation, 3 is '-'.  So    *)
(* numbers have texts, some texts are no numbers and some are numbers only *)
(* to the more lenient conversion.  long long is LLONG_MIN .. LLONG_MAX    *)
(* and strings have at most MaxString bytes, as small as the instance      *)
(* likes.                                                                  *)
(***************************************************************************)
EXTENDS Keyspace
LOCAL INSTANCE SequencesExt

CONSTANTS LLONG_MAX,   \* the width of long long
          MaxString    \* 512 MB: the longest string allowed

LLONG_MIN == -LLONG_MAX - 1

ASSUME StringsAssumption == LLONG_MAX \in Nat \ {0} /\ MaxString \in Nat

Nul == 0
Minus == 3
String(bytes) == <<"string", bytes>>

(* Two's complement arithmetic: what the compiled code does on overflow.   *)
Wrap(n) == ((n - LLONG_MIN) % (LLONG_MAX - LLONG_MIN + 1)) + LLONG_MIN

-------------------------------------------------------------------------------
(* Texts of numbers.                                                       *)

Digits[n \in Nat] ==
    IF n < 2 THEN <<n + 1>> ELSE Append(Digits[n \div 2], (n % 2) + 1)

ll2string(n) == IF n < 0 THEN <<Minus>> \o Digits[-n] ELSE Digits[n]

(* Only the text ll2string() gives is accepted: no sign, no zeros, no      *)
(* blanks in excess, no overflow.                                          *)
string2ll(bytes) == {n \in LLONG_MIN .. LLONG_MAX : ll2string(n) = bytes}

DigitsValue(bytes) ==
    FoldLeft(LAMBDA n, d : 2 * n + d - 1, 0, bytes)

(* strtold() up to the first NUL, that the caller takes for the end.       *)
CString(bytes) ==
    LET nul == {i \in DOMAIN bytes : bytes[i] = Nul}
    IN  IF nul = {} THEN bytes
        ELSE SubSeq(bytes, 1, (CHOOSE i \in nul : \A j \in nul : i <= j) - 1)

strtoull(text) ==
    IF text = <<>> \/ \E i \in DOMAIN text : text[i] = Minus THEN {} ELSE {DigitsValue(text)}

strtold(text) ==
    IF text = <<>> THEN {0}
    ELSE IF text[1] = Minus THEN {-n : n \in strtoull(Tail(text))} ELSE strtoull(text)

string2ld(bytes) == strtold(CString(bytes))

(* getLongLongFromObject(), getLongDoubleFromObject(): a missing key is 0, *)
(* the empty set stands for C_ERR.                                         *)
getLongLongFromObject(o) == IF o = None THEN {0} ELSE string2ll(Content(o))
getLongDoubleFromObject(o) == IF o = None THEN {0} ELSE string2ld(Content(o))

The(set) == CHOOSE x \in set : TRUE

-------------------------------------------------------------------------------
(* SET and its relatives.  flag is "", "NX", "XX" or "syntax"; ex is "", a *)
(* time to live ("future") or a time that is not positive ("invalid").     *)

SetChecked(s, k, v, flag, ex, ok, abort) ==
    IF \/ flag = "NX" /\ s.db[k] # None
       \/ flag = "XX" /\ s.db[k] = None
    THEN Reply(s, abort)
    ELSE IF ex = "" THEN Reply(Dirty(setKey(s, k, String(v)), 1), ok)
    ELSE Reply(setExpire(Dirty(setKey(s, k, String(v)), 1), k, ex), ok)

setGenericCommand(s, k, v, flag, ex, ok, abort) ==
    IF ex = "invalid" THEN Error(s, "invalid expire time")
    ELSE SetChecked(IF flag \in {"NX", "XX"} THEN lookupKeyWrite(s, k) ELSE s,
                    k, v, flag, ex, ok, abort)

setCommand(s, k, v, flag, ex) ==
    IF flag = "syntax" THEN Error(s, "syntax")
    ELSE setGenericCommand(s, k, v, flag, ex, <<"ok">>, <<"nil">>)

setnxCommand(s, k, v) ==
    setGenericCommand(s, k, v, "NX", "", <<"int", 1>>, <<"int", 0>>)

(* SETEX and PSETEX differ in the unit only.                               *)
setexCommand(s, k, ex, v) ==
    setGenericCommand(s, k, v, "", ex, <<"ok">>, <<"nil">>)

getGenericCommand(s, k) ==
    LET o == lookupKeyRead(s, k)
        s1 == expireIfNeeded(s, k)
    IN  IF o = None THEN Reply(s1, <<"nil">>)
        ELSE IF checkType(o, "string") THEN Error(s1, "wrong type")
        ELSE Reply(s1, <<"bulk", Content(o)>>)

SetUnlessError(s, k, v) == IF IsError(s) THEN s ELSE Dirty(setKey(s, k, String(v)), 1)

getsetCommand(s, k, v) == SetUnlessError(getGenericCommand(s, k), k, v)

mgetCommand(s, ks) ==
    Reply(lookedUp(s, ks),
          <<"multi", [i \in DOMAIN ks |->
               LET o == lookupKeyRead(s, ks[i])
               IN  IF o = None \/ Type(o) # "string" THEN <<"nil">>
                   ELSE <<"bulk", Content(o)>>]>>)

(* kvs is a sequence of <<key, value>> pairs.                              *)
MsetAll(s, kvs, nx) ==
    IF nx /\ \E i \in DOMAIN kvs : s.db[kvs[i][1]] # None THEN Reply(s, <<"int", 0>>)
    ELSE Reply(Dirty(FoldLeft(LAMBDA t, kv : setKey(t, kv[1], String(kv[2])), s, kvs), Len(kvs)),
               IF nx THEN <<"int", 1>> ELSE <<"ok">>)

msetGenericCommand(s, kvs, nx) ==
    MsetAll(IF nx THEN lookedUp(s, [i \in DOMAIN kvs |-> kvs[i][1]]) ELSE s, kvs, nx)

-------------------------------------------------------------------------------
(* Parts of strings.                                                       *)

checkStringLength(n) == n <= MaxString

(* sdsgrowzero() and memcpy().                                             *)
Overlay(bytes, offset, v) ==
    LET end == offset + Len(v)
        len == IF end > Len(bytes) THEN end ELSE Len(bytes)
    IN  [i \in 1 .. len |-> IF i > offset /\ i <= end THEN v[i - offset]
                            ELSE IF i <= Len(bytes) THEN bytes[i] ELSE Nul]

StringOrEmpty(o) == IF o = None THEN <<>> ELSE Content(o)

SetRange(s, k, offset, v) ==
    LET old == StringOrEmpty(s.db[k])
        new == Overlay(old, offset, v)
    IN  IF checkType(s.db[k], "string") THEN Error(s, "wrong type")
        ELSE IF v = <<>> THEN Reply(s, <<"int", Len(old)>>)
        ELSE IF ~checkStringLength(offset + Len(v)) THEN Error(s, "too long")
        ELSE Modified(dbSet(s, k, String(new)), k, <<"int", Len(new)>>)

setrangeCommand(s, k, offset, v) ==
    IF offset < 0 THEN Error(s, "offset is out of range")
    ELSE SetRange(lookupKeyWrite(s, k), k, offset, v)

(* The bytes from start to end, both counted from 0, or from the end when  *)
(* negative.                                                               *)
StringRange(bytes, start, end) ==
    LET len == Len(bytes)
        from == IF start < 0 THEN len + start ELSE start
        to == IF end < 0 THEN len + end ELSE end
        lo == IF from < 0 THEN 0 ELSE from
        hi == IF to < 0 THEN 0 ELSE IF to >= len THEN len - 1 ELSE to
    IN  IF start < 0 /\ end < 0 /\ start > end THEN <<>>
        ELSE IF lo > hi \/ len = 0 THEN <<>>
        ELSE SubSeq(bytes, lo + 1, hi + 1)

getrangeCommand(s, k, start, end) ==
    LET o == lookupKeyRead(s, k)
        s1 == expireIfNeeded(s, k)
    IN  IF o = None THEN Reply(s1, <<"bulk", <<>>>>)
        ELSE IF checkType(o, "string") THEN Error(s1, "wrong type")
        ELSE Reply(s1, <<"bulk", StringRange(Content(o), start, end)>>)

AppendTo(s, k, v) ==
    LET new == StringOrEmpty(s.db[k]) \o v
    IN  IF checkType(s.db[k], "string") THEN Error(s, "wrong type")
        ELSE IF s.db[k] # None /\ ~checkStringLength(Len(new)) THEN Error(s, "too long")
        ELSE Modified(dbSet(s, k, String(new)), k, <<"int", Len(new)>>)

appendCommand(s, k, v) == AppendTo(lookupKeyWrite(s, k), k, v)

strlenCommand(s, k) ==
    LET o == lookupKeyRead(s, k)
        s1 == expireIfNeeded(s, k)
    IN  IF o = None THEN Reply(s1, <<"int", 0>>)
        ELSE IF checkType(o, "string") THEN Error(s1, "wrong type")
        ELSE Reply(s1, <<"int", Len(Content(o))>>)

-------------------------------------------------------------------------------
(* Counters.                                                               *)

(* INCR without the check for overflow.                                    *)
IncrWraps(s, k, incr) ==
    LET s1 == lookupKeyWrite(s, k)
        o == s1.db[k]
    IN  IF checkType(o, "string") THEN Error(s1, "wrong type")
        ELSE IF getLongLongFromObject(o) = {} THEN Error(s1, "not an integer")
        ELSE LET value == Wrap(The(getLongLongFromObject(o)) + incr)
             IN  Modified(dbOverwrite(s1, k, String(ll2string(value))), k,
                          <<"int", value>>)

AddTo(s, k, old, incr) ==
    IF \/ incr < 0 /\ old < 0 /\ incr < LLONG_MIN - old
       \/ incr > 0 /\ old > 0 /\ incr > LLONG_MAX - old
    THEN Error(s, "would overflow")
    ELSE Modified(dbSet(s, k, String(ll2string(old + incr))), k, <<"int", old + incr>>)

IncrFound(s, k, incr) ==
    IF checkType(s.db[k], "string") THEN Error(s, "wrong type")
    ELSE IF getLongLongFromObject(s.db[k]) = {} THEN Error(s, "not an integer")
    ELSE AddTo(s, k, The(getLongLongFromObject(s.db[k])), incr)

incrDecrCommand(s, k, incr) == IncrFound(lookupKeyWrite(s, k), k, incr)

incrbyCommand(s, k, by) ==
    IF string2ll(by) = {} THEN Error(s, "not an integer")
    ELSE incrDecrCommand(s, k, The(string2ll(by)))

decrbyCommand(s, k, by) ==
    IF string2ll(by) = {} THEN Error(s, "not an integer")
    ELSE incrDecrCommand(s, k, Wrap(-The(string2ll(by))))

(* Long doubles beyond the bound are infinite here.                        *)
IsInf(n) == n > 2 * LLONG_MAX \/ n < 2 * LLONG_MIN

(* Propagated as a SET of the result.                                      *)
StoreFloat(s, k, value) ==
    IF IsInf(value) THEN Error(s, "NaN or Infinity")
    ELSE rewriteClientCommandVector(
             Modified(dbSet(s, k, String(ll2string(value))), k, <<"bulk", ll2string(value)>>),
             <<"SET", k, ll2string(value), "", "">>)

IncrFloat(s, k, by) ==
    IF checkType(s.db[k], "string") THEN Error(s, "wrong type")
    ELSE IF getLongDoubleFromObject(s.db[k]) = {} \/ string2ld(by) = {}
         THEN Error(s, "not a float")
    ELSE StoreFloat(s, k, The(getLongDoubleFromObject(s.db[k])) + The(string2ld(by)))

incrbyfloatCommand(s, k, by) == IncrFloat(lookupKeyWrite(s, k), k, by)

-------------------------------------------------------------------------------
(* The string commands of redisCommandTable.                               *)

StringNames == {"SET", "SETNX", "SETEX", "PSETEX", "GET", "GETSET", "MGET", "MSET",
                "MSETNX", "SETRANGE", "GETRANGE", "APPEND", "STRLEN", "INCR", "DECR",
                "INCRBY", "DECRBY", "INCRBYFLOAT"}

StringProc(s, c) ==
    CASE c[1] = "SET" -> setCommand(s, c[2], c[3], c[4], c[5])
      [] c[1] = "SETNX" -> setnxCommand(s, c[2], c[3])
      [] c[1] \in {"SETEX", "PSETEX"} -> setexCommand(s, c[2], c[3], c[4])
      [] c[1] = "GET" -> getGenericCommand(s, c[2])
      [] c[1] = "GETSET" -> getsetCommand(s, c[2], c[3])
      [] c[1] = "MGET" -> mgetCommand(s, c[2])
      [] c[1] = "MSET" -> msetGenericCommand(s, c[2], FALSE)
      [] c[1] = "MSETNX" -> msetGenericCommand(s, c[2], TRUE)
      [] c[1] = "SETRANGE" -> setrangeCommand(s, c[2], c[3], c[4])
      [] c[1] = "GETRANGE" -> getrangeCommand(s, c[2], c[3], c[4])
      [] c[1] = "APPEND" -> appendCommand(s, c[2], c[3])
      [] c[1] = "STRLEN" -> strlenCommand(s, c[2])
      [] c[1] = "INCR" -> incrDecrCommand(s, c[2], 1)
      [] c[1] = "DECR" -> incrDecrCommand(s, c[2], -1)
      [] c[1] = "INCRBY" -> incrbyCommand(s, c[2], c[3])
      [] c[1] = "DECRBY" -> decrbyCommand(s, c[2], c[3])
      [] c[1] = "INCRBYFLOAT" -> incrbyfloatCommand(s, c[2], c[3])
===============================================================================
