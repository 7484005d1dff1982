---------------------------- MODULE HyperLogLog ----------------------------
(***************************************************************************)
(* The HyperLogLog of hyperloglog.c: a string that holds HLL_REGISTERS     *)
(* counters, run-length encoded (sparse) while it is small and packed at   *)
(* HLL_BITS per counter (dense) from then on, with a cached cardinality,   *)
(* on a master and on a replica that executes what the master propagates.  *)
(*                                                                         *)
(* An element is what hllPatLen() makes of it: the register its hash       *)
(* addresses and the length of the run of zeroes.  An estimate is what     *)
(* hllCount() computes it from, the number of registers with each value.   *)
(* The widths of the opcodes' fields are constants, to be met by few       *)
(* registers.                                                              *)
(***************************************************************************)
EXTENDS Integers, Sequences, FiniteSets, SequencesExt, FiniteSetsExt

CONSTANTS HLL_REGISTERS, HLL_BITS, HLL_SPARSE_VAL_MAX_VALUE, HLL_SPARSE_VAL_MAX_LEN,
          HLL_SPARSE_ZERO_MAX_LEN, HLL_SPARSE_XZERO_MAX_LEN,
          hll_sparse_max_bytes,  \* without the header
          HllKeys,
          HllElements, HllMerges \* the arguments of PFADD, by key, and of PFMERGE

VARIABLES hlls, hllReplica, \* the keys of the master and of the replica
          replicaRead,      \* keys whose cardinality a client asked the replica for
          counted           \* the registers the elements added to a key stand for
hllVars == <<hlls, hllReplica, replicaRead, counted>>

NoHll == <<"none">>
Str == <<"str">> \* a string that is no HyperLogLog
NoCount == <<>>

Registers == 0 .. HLL_REGISTERS - 1
HLL_REGISTER_MAX == 2 ^ HLL_BITS - 1
Larger(a, b) == IF a > b THEN a ELSE b

(* What hllCount() computes from registers: how many have each value.      *)
Estimate(regs) ==
    {<<v, Cardinality({r \in Registers : regs[r] = v})>> : v \in {regs[r] : r \in Registers}}

-----------------------------------------------------------------------------
(* Dense: HLL_BITS per register in bytes; the byte after the last is the   *)
(* terminator of the string.                                               *)
DenseBytes == (HLL_REGISTERS * HLL_BITS + 7) \div 8
ZeroBytes == SubSeq([i \in 1 .. DenseBytes + 1 |-> 0], 1, DenseBytes + 1)

HLL_DENSE_GET_REGISTER(p, regnum) ==
    LET byte == (regnum * HLL_BITS) \div 8
        fb == (regnum * HLL_BITS) % 8
    IN  (p[byte + 1] \div 2 ^ fb + p[byte + 2] * 2 ^ (8 - fb)) % (HLL_REGISTER_MAX + 1)

HLL_DENSE_SET_REGISTER(p, regnum, val) ==
    LET byte == (regnum * HLL_BITS) \div 8
        fb == (regnum * HLL_BITS) % 8
        spill == 2 ^ Larger(0, HLL_BITS - (8 - fb))
        b0 == p[byte + 1]
        b1 == p[byte + 2]
        above == 2 ^ (fb + HLL_BITS)
    IN  [p EXCEPT ![byte + 1] = (b0 % 2 ^ fb) + (b0 \div above) * above + ((val * 2 ^ fb) % 256),
                  ![byte + 2] = (b1 \div spill) * spill + val \div 2 ^ (8 - fb)]

Hll(encoding, registers, card) == <<"hll", encoding, registers, card>>
Encoding(o) == o[2]
Data(o) == o[3]
Card(o) == o[4]

hllDenseAdd(o, e) ==
    IF e[2] > HLL_DENSE_GET_REGISTER(Data(o), e[1])
    THEN <<Hll("dense", HLL_DENSE_SET_REGISTER(Data(o), e[1], e[2]), Card(o)), 1>>
    ELSE <<o, 0>>

-----------------------------------------------------------------------------
(* Sparse: opcodes ZERO (z), XZERO (Z, two bytes) and VAL (v, with the     *)
(* value of its registers); the last field is the run length.              *)
Span(op) == op[Len(op)]
IsVal(op) == op[1] = "v"
OpValue(op) == IF IsVal(op) THEN op[2] ELSE 0
OpBytes(op) == IF op[1] = "Z" THEN 2 ELSE 1
Total(ops, Of(_)) == FoldLeft(LAMBDA n, op : n + Of(op), 0, ops)
First(ops, i) == Total(SubSeq(ops, 1, i - 1), Span)

Zeros(len) ==
    IF len = 0 THEN <<>>
    ELSE IF len > HLL_SPARSE_ZERO_MAX_LEN THEN <<<<"Z", len>>>> ELSE <<<<"z", len>>>>
Vals(val, len) == IF len = 0 THEN <<>> ELSE <<<<"v", val, len>>>>

(* Step 1: the opcode that covers a register.                              *)
Covers(ops, index) ==
    CHOOSE i \in 1 .. Len(ops) :
       First(ops, i) <= index /\ index <= First(ops, i) + Span(ops[i]) - 1

(* Step 2: what it is split into.                                          *)
Split(ops, i, e) ==
    LET before == e[1] - First(ops, i)
        after == First(ops, i) + Span(ops[i]) - 1 - e[1]
    IN  IF IsVal(ops[i])
        THEN Vals(OpValue(ops[i]), before) \o Vals(e[2], 1) \o Vals(OpValue(ops[i]), after)
        ELSE Zeros(before) \o Vals(e[2], 1) \o Zeros(after)

(* Step 4: five steps from the previous opcode merge adjacent values.      *)
MergeStep(at, n) ==
    LET ops == at[1]
        p == at[2]
        len == Span(ops[p]) + Span(ops[p + 1])
    IN  IF p > Len(ops) THEN at
        ELSE IF /\ IsVal(ops[p]) /\ p < Len(ops) /\ IsVal(ops[p + 1])
                /\ OpValue(ops[p]) = OpValue(ops[p + 1]) /\ len <= HLL_SPARSE_VAL_MAX_LEN
        THEN <<ReplaceAt(RemoveAt(ops, p), p, <<"v", OpValue(ops[p]), len>>), p>>
        ELSE <<ops, p + 1>>
MergeFrom(ops, p) == FoldLeft(MergeStep, <<ops, p>>, [n \in 1 .. 5 |-> n])[1]

hllSparseToDense(o) ==
    IF Encoding(o) = "dense" THEN o
    ELSE LET ops == Data(o)
             set(p, r) == HLL_DENSE_SET_REGISTER(p, r, OpValue(ops[Covers(ops, r)]))
         IN  Hll("dense", FoldLeft(set, ZeroBytes, [r \in 1 .. HLL_REGISTERS |-> r - 1]), Card(o))

Promote(o, e) == hllDenseAdd(hllSparseToDense(o), e)

Valid(card) == card[1]
Invalid == <<FALSE, {}>> \* the bytes below the bit that says so are left as they were

(* Step 3: the split replaces the opcode if it fits.                       *)
SparseUpdate(o, e, i) ==
    LET ops == Data(o)
        seq == Split(ops, i, e)
        deltalen == Total(seq, OpBytes) - OpBytes(ops[i])
        new == SubSeq(ops, 1, i - 1) \o seq \o SubSeq(ops, i + 1, Len(ops))
    IN  IF deltalen > 0 /\ Total(ops, OpBytes) + deltalen > hll_sparse_max_bytes
        THEN Promote(o, e)
        ELSE <<Hll("sparse", MergeFrom(new, Larger(1, i - 1)), Invalid), 1>>

hllSparseAdd(o, e) ==
    LET i == Covers(Data(o), e[1])
    IN  IF e[2] > HLL_SPARSE_VAL_MAX_VALUE THEN Promote(o, e)
        ELSE IF OpValue(Data(o)[i]) >= e[2] THEN <<o, 0>>
        ELSE SparseUpdate(o, e, i)

hllAdd(o, e) == IF Encoding(o) = "dense" THEN hllDenseAdd(o, e) ELSE hllSparseAdd(o, e)

createHLLObject ==
    LET whole == HLL_REGISTERS \div HLL_SPARSE_XZERO_MAX_LEN
        rest == HLL_REGISTERS % HLL_SPARSE_XZERO_MAX_LEN
    IN  Hll("sparse",
            [i \in 1 .. whole |-> <<"Z", HLL_SPARSE_XZERO_MAX_LEN>>]
              \o (IF rest = 0 THEN <<>> ELSE <<<<"Z", rest>>>>),
            <<TRUE, Estimate([r \in Registers |-> 0])>>)

-----------------------------------------------------------------------------
(* Counting: the sums of the three representations.                        *)
Register(o, r) ==
    IF Encoding(o) = "dense" THEN HLL_DENSE_GET_REGISTER(Data(o), r)
    ELSE OpValue(Data(o)[Covers(Data(o), r)])

hllDenseSum(p) == Estimate([r \in Registers |-> HLL_DENSE_GET_REGISTER(p, r)])
hllSparseSum(ops) ==
    {<<v, Total(ops, LAMBDA op : IF OpValue(op) = v THEN Span(op) ELSE 0)>> :
        v \in {OpValue(ops[i]) : i \in 1 .. Len(ops)}}
hllRawSum(regs) == Estimate(regs)

hllCount(o) == IF Encoding(o) = "dense" THEN hllDenseSum(Data(o)) ELSE hllSparseSum(Data(o))

hllMerge(max, o) == [r \in Registers |-> Larger(max[r], Register(o, r))]

(* The maximum of each register over keys that hold an HLL or nothing.     *)
Merged(db, ks) ==
    FoldLeft(LAMBDA max, k : IF db[k] = NoHll THEN max ELSE hllMerge(max, db[k]),
             [r \in Registers |-> 0], ks)
isHLLOrMissing(db, ks) == \A i \in 1 .. Len(ks) : db[ks[i]] # Str

-----------------------------------------------------------------------------
(* Commands, on a database: <<database, dirty, reply>>.                    *)
pfaddCommand(db, k, es) ==
    LET new == db[k] = NoHll
        add(a, e) == LET r == hllAdd(a[1], e) IN <<r[1], a[2] + r[2]>>
        run == FoldLeft(add, <<IF new THEN createHLLObject ELSE db[k], IF new THEN 1 ELSE 0>>, es)
        o == run[1]
    IN  IF ~isHLLOrMissing(db, <<k>>) THEN <<db, 0, "wrongtype">>
        ELSE IF run[2] = 0 THEN <<[db EXCEPT ![k] = o], 0, 0>>
        ELSE <<[db EXCEPT ![k] = Hll(Encoding(o), Data(o), Invalid)], 1, 1>>

pfcountCommand(db, ks) ==
    LET k == ks[1]
        o == db[k]
        card == hllCount(o)
    IN  IF ~isHLLOrMissing(db, ks) THEN <<db, 0, "wrongtype">>
        ELSE IF Len(ks) > 1 THEN <<db, 0, hllRawSum(Merged(db, ks))>>
        ELSE IF o = NoHll THEN <<db, 0, Estimate([r \in Registers |-> 0])>>
        ELSE IF Valid(Card(o)) THEN <<db, 0, Card(o)[2]>>
        ELSE <<[db EXCEPT ![k] = Hll(Encoding(o), Data(o), <<TRUE, card>>)], 1, card>>

pfmergeCommand(db, dest, srcs) ==
    LET max == Merged(db, <<dest>> \o srcs)
        o == hllSparseToDense(IF db[dest] = NoHll THEN createHLLObject ELSE db[dest])
        set(p, r) == HLL_DENSE_SET_REGISTER(p, r, max[r])
    IN  IF ~isHLLOrMissing(db, <<dest>> \o srcs) THEN <<db, 0, "wrongtype">>
        ELSE <<[db EXCEPT ![dest] =
                  Hll("dense", FoldLeft(set, Data(o), [r \in 1 .. HLL_REGISTERS |-> r - 1]), Invalid)],
               1, "ok">>

(* PFDEBUG GETREG and TODENSE.                                             *)
pfdebugCommand(db, k) ==
    IF db[k] = NoHll \/ ~isHLLOrMissing(db, <<k>>) \/ Encoding(db[k]) = "dense" THEN <<db, 0, 0>>
    ELSE <<[db EXCEPT ![k] = hllSparseToDense(@)], 1, 1>>

(* The key is overwritten or deleted by a command of another type.         *)
ReplaceKey(db, k, v) == <<[db EXCEPT ![k] = v], IF db[k] = v THEN 0 ELSE 1, "ok">>

-----------------------------------------------------------------------------
(* The master executes a command and propagates it if it made changes.     *)
Call(Cmd(_)) ==
    /\ hlls' = Cmd(hlls)[1]
    /\ hllReplica' = IF Cmd(hlls)[2] > 0 THEN Cmd(hllReplica)[1] ELSE hllReplica

HllInit ==
    /\ hlls = [k \in HllKeys |-> NoHll] /\ hllReplica = hlls
    /\ replicaRead = {} /\ counted = [k \in HllKeys |-> NoCount]

CountedOr0(k) == IF counted[k] = NoCount THEN [r \in Registers |-> 0] ELSE counted[k]

PfAdd(k, es) ==
    /\ Call(LAMBDA db : pfaddCommand(db, k, es))
    /\ counted' = IF hlls[k] = Str THEN counted
                  ELSE [counted EXCEPT ![k] = [r \in Registers |->
                          Max({CountedOr0(k)[r]} \cup {e[2] : e \in {f \in Range(es) : f[1] = r}})]]
    /\ UNCHANGED replicaRead

PfCount(ks) ==
    /\ Call(LAMBDA db : pfcountCommand(db, ks))
    /\ UNCHANGED <<replicaRead, counted>>

PfMerge(dest, src) ==
    /\ Call(LAMBDA db : pfmergeCommand(db, dest, <<src>>))
    /\ counted' = IF Str \in {hlls[dest], hlls[src]} THEN counted
                  ELSE [counted EXCEPT ![dest] = [r \in Registers |->
                          Larger(CountedOr0(dest)[r], CountedOr0(src)[r])]]
    /\ UNCHANGED replicaRead

PfDebug(k) ==
    /\ Call(LAMBDA db : pfdebugCommand(db, k))
    /\ UNCHANGED <<replicaRead, counted>>

Overwrite(k, v) ==
    /\ Call(LAMBDA db : ReplaceKey(db, k, v))
    /\ counted' = [counted EXCEPT ![k] = NoCount]
    /\ replicaRead' = replicaRead \ {k}

(* A client of the replica: PFCOUNT is a command a read-only slave runs.   *)
ReplicaCount(k) ==
    /\ hllReplica' = pfcountCommand(hllReplica, <<k>>)[1]
    /\ replicaRead' = replicaRead \cup {k}
    /\ UNCHANGED <<hlls, counted>>

HllNext ==
    \/ \E k \in HllKeys : \/ \E es \in HllElements[k] : PfAdd(k, es)
                          \/ PfCount(<<k>>) \/ PfDebug(k) \/ ReplicaCount(k)
                          \/ Overwrite(k, NoHll) \/ Overwrite(k, Str)
    \/ \E m \in HllMerges : PfMerge(m[1], m[2])

HllSpec == HllInit /\ [][HllNext]_hllVars

-----------------------------------------------------------------------------
(* Whatever was added, merged, converted and counted, on the master and on *)
(* the replica: the opcodes cover every register once, fit their fields    *)
(* and the size limit, the registers are those of the elements, and the    *)
(* cardinality, cached or not, of one key or of several, is theirs.        *)
HllExact ==
    \A db \in {hlls, hllReplica} : \A k \in HllKeys :
       /\ (counted[k] # NoCount) <=> (db[k] \notin {NoHll, Str})
       /\ counted[k] # NoCount =>
             /\ \A r \in Registers : Register(db[k], r) = counted[k][r]
             /\ Encoding(db[k]) = "sparse" =>
                   /\ Total(Data(db[k]), Span) = HLL_REGISTERS
                   /\ Total(Data(db[k]), OpBytes) <= hll_sparse_max_bytes
                   /\ \A i \in 1 .. Len(Data(db[k])) :
                         LET op == Data(db[k])[i]
                         IN  /\ Span(op) \in 1 .. [z |-> HLL_SPARSE_ZERO_MAX_LEN,
                                                  Z |-> HLL_SPARSE_XZERO_MAX_LEN,
                                                  v |-> HLL_SPARSE_VAL_MAX_LEN][op[1]]
                             /\ IsVal(op) => OpValue(op) \in 1 .. HLL_SPARSE_VAL_MAX_VALUE
             /\ \A l \in HllKeys : db[l] # Str =>
                   pfcountCommand(db, <<k, l>>)[3]
                      = Estimate([r \in Registers |-> Larger(counted[k][r], CountedOr0(l)[r])])
             /\ pfcountCommand(db, <<k>>)[3] = Estimate(counted[k])

(* The replica has the encoding of the master, and its bytes unless a      *)
(* client asked the replica for the cardinality.                           *)
HllReplicated ==
    \A k \in HllKeys :
       /\ SubSeq(hlls[k], 1, Len(hlls[k]) - 1) = SubSeq(hllReplica[k], 1, Len(hllReplica[k]) - 1)
       /\ k \notin replicaRead => hlls[k] = hllReplica[k]
=============================================================================
