---------------------------------- MODULE Sets ----------------------------------
(***************************************************************************)
(* The set commands (redis-stable/src/t_set.c).  A set is                  *)
(* <<"set", encoding, members>>; members that are integers may live in an  *)
(* intset, all others need a hash table.  Iterators are abstracted to the  *)
(* members they visit.  A random element is the pick-th one of an          *)
(* arbitrary order, with pick an argument of the command, so every choice  *)
(* is explored.                                                            *)
(***************************************************************************)
EXTENDS Keyspace
LOCAL INSTANCE SequencesExt
LOCAL INSTANCE FiniteSetsExt

CONSTANTS IntMembers,            \* the members that are integers
          SetMaxIntsetEntries    \* server.set_max_intset_entries

SET_MOVE_MUL == 5                \* SPOP_MOVE_STRATEGY_MUL

createIntsetObject == <<"set", "intset", {}>>
createSetObject == <<"set", "hashtable", {}>>

isObjectRepresentableAsLongLong(v) == v \in IntMembers

-------------------------------------------------------------------------------
(* Set objects.                                                            *)

setTypeCreate(v) ==
    IF isObjectRepresentableAsLongLong(v) THEN createIntsetObject
    ELSE createSetObject

setTypeConvert(o, enc) == <<"set", enc, o[3]>>

setTypeAdd(o, v) ==
    LET grown == <<"set", o[2], o[3] \cup {v}>>
    IN  IF v \in o[3] \/ o[2] = "hashtable" THEN grown
        ELSE IF ~isObjectRepresentableAsLongLong(v)
             THEN <<"set", setTypeConvert(o, "hashtable")[2], o[3] \cup {v}>>
        ELSE IF Cardinality(grown[3]) > SetMaxIntsetEntries
             THEN setTypeConvert(grown, "hashtable")
        ELSE grown

(* The intset only holds integers, so a miss there is a miss.              *)
setTypeIsMember(o, v) ==
    \/ o[2] = "hashtable" /\ v \in o[3]
    \/ o[2] = "intset" /\ isObjectRepresentableAsLongLong(v) /\ v \in o[3]

setTypeRemove(o, v) ==
    IF setTypeIsMember(o, v) THEN <<"set", o[2], o[3] \ {v}>> ELSE o

setTypeSize(o) == Cardinality(o[3])

setTypeRandomElement(o, pick) ==
    LET order == SetToSeq(o[3])
    IN  order[(pick % Len(order)) + 1]

AddAll(o, members) == FoldSet(LAMBDA v, t : setTypeAdd(t, v), o, members)

-------------------------------------------------------------------------------
(* SADD, SREM, SMOVE.                                                      *)

SaddStore(s, k, new, added) ==
    IF added > 0 THEN Reply(Dirty(signalModifiedKey(dbSet(s, k, new), k), added), <<"int", added>>)
    ELSE Reply(dbSet(s, k, new), <<"int", 0>>)

SaddTo(s, k, old, vs) ==
    LET new == FoldLeft(setTypeAdd, old, vs)
    IN  SaddStore(s, k, new, setTypeSize(new) - setTypeSize(old))

SaddFound(s, k, vs) ==
    IF checkType(s.db[k], "set") THEN Error(s, "wrong type")
    ELSE SaddTo(s, k, IF s.db[k] = None THEN setTypeCreate(vs[1]) ELSE s.db[k], vs)

saddCommand(s, k, vs) == SaddFound(lookupKeyWrite(s, k), k, vs)

(* A set of one key, or the deletion of the key with its last member.      *)
StoreSet(s, k, o) ==
    IF setTypeSize(o) = 0 THEN dbDelete(s, k) ELSE dbOverwrite(s, k, o)

SremStore(s, k, new, deleted) ==
    IF deleted = 0 THEN Reply(s, <<"int", 0>>)
    ELSE Reply(Dirty(signalModifiedKey(StoreSet(s, k, new), k), deleted), <<"int", deleted>>)

SremFrom(s, k, o, new) == SremStore(s, k, new, setTypeSize(o) - setTypeSize(new))

SremFound(s, k, vs) ==
    IF s.db[k] = None THEN Reply(s, <<"int", 0>>)
    ELSE IF checkType(s.db[k], "set") THEN Error(s, "wrong type")
    ELSE SremFrom(s, k, s.db[k], FoldLeft(setTypeRemove, s.db[k], vs))

sremCommand(s, k, vs) == SremFound(lookupKeyWrite(s, k), k, vs)

SmoveTo(s, src, dst, so, to, v) ==
    Reply(Dirty(signalModifiedKey(signalModifiedKey(
                    dbSet(StoreSet(s, src, setTypeRemove(so, v)), dst, setTypeAdd(to, v)),
                    src), dst),
                IF v \in to[3] THEN 1 ELSE 2), <<"int", 1>>)

SmoveFound(s, src, dst, so, do, v) ==
    IF so = None THEN Reply(s, <<"int", 0>>)
    ELSE IF checkType(so, "set") \/ checkType(do, "set") THEN Error(s, "wrong type")
    ELSE IF src = dst THEN Reply(s, <<"int", IF setTypeIsMember(so, v) THEN 1 ELSE 0>>)
    ELSE IF ~setTypeIsMember(so, v) THEN Reply(s, <<"int", 0>>)
    ELSE SmoveTo(s, src, dst, so, IF do = None THEN setTypeCreate(v) ELSE do, v)

SmoveBetween(s, src, dst, v) == SmoveFound(s, src, dst, s.db[src], s.db[dst], v)

smoveCommand(s, src, dst, v) == SmoveBetween(lookedUp(s, <<src, dst>>), src, dst, v)

-------------------------------------------------------------------------------
(* Reads of one set.                                                       *)

ReadSetFound(s, o, empty, answer(_)) ==
    IF o = None THEN Reply(s, empty)
    ELSE IF checkType(o, "set") THEN Error(s, "wrong type")
    ELSE Reply(s, answer(o))

ReadSet(s, k, empty, answer(_)) ==
    ReadSetFound(expireIfNeeded(s, k), lookupKeyRead(s, k), empty, answer)

sismemberCommand(s, k, v) ==
    ReadSet(s, k, <<"int", 0>>,
            LAMBDA o : <<"int", IF setTypeIsMember(o, v) THEN 1 ELSE 0>>)

scardCommand(s, k) ==
    ReadSet(s, k, <<"int", 0>>, LAMBDA o : <<"int", setTypeSize(o)>>)

(* A sample is answered as what it was drawn from, its size and whether    *)
(* its elements are distinct.                                              *)
srandmemberCommand(s, k) ==
    ReadSet(s, k, <<"nil">>, LAMBDA o : <<"sample", o[3], 1, TRUE>>)

srandmemberWithCountCommand(s, k, count) ==
    ReadSet(s, k, <<"members", {}>>,
            LAMBDA o : IF count = 0 THEN <<"members", {}>>
                       ELSE IF count < 0 THEN <<"sample", o[3], -count, FALSE>>
                       ELSE IF count >= setTypeSize(o) THEN <<"members", o[3]>>
                       ELSE <<"sample", o[3], count, TRUE>>)

-------------------------------------------------------------------------------
(* SPOP: propagated as the removal of what was drawn.                      *)

SpopElement(s, k, o, ele) ==
    rewriteClientCommandVector(
        Modified(StoreSet(s, k, setTypeRemove(o, ele)), k, <<"bulk", ele>>),
        <<"SREM", k, <<ele>>>>)

SpopFound(s, k, o, pick) ==
    IF o = None THEN Reply(s, <<"nil">>)
    ELSE IF checkType(o, "set") THEN Error(s, "wrong type")
    ELSE SpopElement(s, k, o, setTypeRandomElement(o, pick))

SpopFrom(s, k, pick) == SpopFound(s, k, s.db[k], pick)

spopCommand(s, k, pick) == SpopFrom(lookupKeyWrite(s, k), k, pick)

(* n random elements of o, one after the other.                            *)
RandomElements(o, n, pick) ==
    FoldLeft(LAMBDA drawn, i :
                 Append(drawn, setTypeRandomElement(
                            <<"set", o[2], o[3] \ ToSet(drawn)>>, pick)),
             <<>>, [i \in 1 .. n |-> i])

(* Mutant: SPOP with a count is replicated as it is, and the replicas draw *)
(* for themselves.                                                         *)
SpopVerbatim(s, k, count, pick) ==
    LET s1 == expireIfNeeded(s, k)
        o == s1.db[k]
    IN  IF o = None \/ count <= 0 THEN Reply(s1, <<"members", {}>>)
        ELSE IF checkType(o, "set") THEN Error(s1, "wrong type")
        ELSE IF count >= setTypeSize(o)
             THEN Modified(dbDelete(s1, k), k, <<"members", o[3]>>)
        ELSE LET drawn == ToSet(RandomElements(o, count, pick))
             IN  rewriteClientCommandVector(
                     Modified(dbOverwrite(s1, k, <<"set", o[2], o[3] \ drawn>>), k,
                              <<"members", drawn>>),
                     <<"SPOPCOUNT", k, count, 1 - pick>>)

SpopStore(s, k, rest, drawn) ==
    Modified(preventCommandPropagation(
                 FoldLeft(LAMBDA t, v : alsoPropagate(t, <<"SREM", k, <<v>>>>),
                          dbOverwrite(s, k, rest), drawn)),
             k, <<"members", ToSet(drawn)>>)

(* Few elements are drawn one by one; of many, the ones to keep are.       *)
SpopFew(s, k, o, few) == SpopStore(s, k, FoldLeft(setTypeRemove, o, few), few)

SpopMany(s, k, o, kept) ==
    SpopStore(s, k, AddAll(setTypeCreate(CHOOSE v \in kept : TRUE), kept), SetToSeq(o[3] \ kept))

SpopSome(s, k, o, count, left, pick) ==
    IF left <= 0
    THEN rewriteClientCommandVector(Modified(dbDelete(s, k), k, <<"members", o[3]>>),
                                    <<"DEL", <<k>>>>)
    ELSE IF left * SET_MOVE_MUL > count THEN SpopFew(s, k, o, RandomElements(o, count, pick))
    ELSE SpopMany(s, k, o, ToSet(RandomElements(o, left, pick)))

SpopCountFound(s, k, o, count, pick) ==
    IF o = None THEN Reply(s, <<"members", {}>>)
    ELSE IF checkType(o, "set") THEN Error(s, "wrong type")
    ELSE IF count = 0 THEN Reply(s, <<"members", {}>>)
    ELSE SpopSome(Dirty(s, count), k, o, count, setTypeSize(o) - count, pick)

spopWithCountCommand(s, k, count, pick) ==
    IF count < 0 THEN Error(s, "out of range")
    ELSE SpopCountFound(expireIfNeeded(s, k), k, lookupKeyRead(s, k), count, pick)
-------------------------------------------------------------------------------
(* SINTER, SUNION, SDIFF and their STORE forms.  sets is the sequence of   *)
(* the values found; dst is the key of a STORE, NoDst without one.         *)

NoDst == <<>>

SetsFound(s, ks, dst) ==
    [i \in DOMAIN ks |-> IF dst # NoDst THEN lookedUp(s, ks).db[ks[i]]
                         ELSE lookupKeyRead(s, ks[i])]

(* How the three store their result.                                       *)
StoreResult(s, dst, o) ==
    LET s1 == dbDelete(s, dst)
    IN  Modified(IF setTypeSize(o) > 0 THEN dbAdd(s1, dst, o) ELSE s1, dst,
                 <<"int", setTypeSize(o)>>)

bySize(sets) == SortSeq(sets, LAMBDA a, b : setTypeSize(a) < setTypeSize(b))

(* Only one of the other sets is looked at.                                *)
IntersectTwo(sets) == {v \in sets[1][3] : setTypeIsMember(sets[2], v)}

(* The members of the smallest set that every other one has.               *)
Intersection(sets) ==
    LET sorted == bySize(sets)
    IN  {v \in sorted[1][3] : \A i \in 2 .. Len(sorted) : setTypeIsMember(sorted[i], v)}

(* Stops at the first key that is missing, and tries the types up to it.   *)
InterReply(s, sets, dst) ==
    IF dst = NoDst THEN Reply(s, <<"members", Intersection(sets)>>)
    ELSE StoreResult(s, dst, AddAll(createIntsetObject, Intersection(sets)))

InterMissing(s, first, dst) ==
    IF checkType(first, "set") THEN Error(s, "wrong type")
    ELSE IF dst = NoDst THEN Reply(s, <<"members", {}>>)
    ELSE IF dbExists(s, dst) THEN Modified(dbDelete(s, dst), dst, <<"int", 0>>)
    ELSE Reply(s, <<"int", 0>>)

InterOf(s, ks, sets, bad, dst) ==
    IF bad = {} THEN InterReply(lookedUp(s, ks), sets, dst)
    ELSE InterMissing(lookedUp(s, SubSeq(ks, 1, Min(bad))), sets[Min(bad)], dst)

InterFound(s, ks, sets, dst) ==
    InterOf(s, ks, sets, {i \in DOMAIN ks : sets[i] = None \/ checkType(sets[i], "set")}, dst)

sinterGenericCommand(s, ks, dst) == InterFound(s, ks, SetsFound(s, ks, dst), dst)

Present(sets) == SelectSeq(sets, LAMBDA o : o # None)

Union(sets) ==
    FoldLeft(LAMBDA o, x : AddAll(o, x[3]), createIntsetObject, Present(sets))

(* Algorithm 1: keep what no other set has.  The code recognises the same  *)
(* set by its pointer.                                                     *)
DiffAlgorithm1(sets) ==
    LET others == Present(Tail(sets))
    IN  AddAll(createIntsetObject,
               {v \in sets[1][3] : \A i \in DOMAIN others : ~setTypeIsMember(others[i], v)})

(* Algorithm 2: remove the members of one set after the other.             *)
DiffAlgorithm2(sets) ==
    FoldLeft(LAMBDA o, x : FoldSet(LAMBDA v, t : setTypeRemove(t, v), o, x[3]),
             AddAll(createIntsetObject, sets[1][3]), Present(Tail(sets)))

(* Algorithm 1 costs half of the first size for every set present.         *)
DiffWork(sets) ==
    <<(setTypeSize(sets[1]) * Len(Present(sets))) \div 2,
      FoldLeft(LAMBDA n, o : n + setTypeSize(o), 0, Present(sets))>>

Difference(sets) ==
    IF sets[1] = None THEN createIntsetObject
    ELSE IF DiffWork(sets)[1] <= DiffWork(sets)[2] THEN DiffAlgorithm1(sets)
    ELSE DiffAlgorithm2(sets)

UnionDiffReply(s, result, dst) ==
    IF dst = NoDst THEN Reply(s, <<"members", result[3]>>) ELSE StoreResult(s, dst, result)

UnionDiffOf(s, ks, sets, bad, dst, op) ==
    IF bad # {} THEN Error(lookedUp(s, SubSeq(ks, 1, Min(bad))), "wrong type")
    ELSE UnionDiffReply(lookedUp(s, ks),
                        IF op = "union" THEN Union(sets) ELSE Difference(sets), dst)

UnionDiffFound(s, ks, sets, dst, op) ==
    UnionDiffOf(s, ks, sets, {i \in DOMAIN ks : checkType(sets[i], "set")}, dst, op)

sunionDiffGenericCommand(s, ks, dst, op) == UnionDiffFound(s, ks, SetsFound(s, ks, dst), dst, op)

-------------------------------------------------------------------------------
(* The set commands of redisCommandTable.                                  *)

SetNames == {"SADD", "SREM", "SMOVE", "SISMEMBER", "SCARD", "SPOP", "SPOPCOUNT",
             "SRANDMEMBER", "SRANDMEMBERCOUNT", "SINTER", "SINTERSTORE", "SUNION",
             "SUNIONSTORE", "SDIFF", "SDIFFSTORE"}

SetProc(s, c) ==
    CASE c[1] = "SADD" -> saddCommand(s, c[2], c[3])
      [] c[1] = "SREM" -> sremCommand(s, c[2], c[3])
      [] c[1] = "SMOVE" -> smoveCommand(s, c[2], c[3], c[4])
      [] c[1] = "SISMEMBER" -> sismemberCommand(s, c[2], c[3])
      [] c[1] = "SCARD" -> scardCommand(s, c[2])
      [] c[1] = "SPOP" -> spopCommand(s, c[2], c[3])
      [] c[1] = "SPOPCOUNT" -> spopWithCountCommand(s, c[2], c[3], c[4])
      [] c[1] = "SRANDMEMBER" -> srandmemberCommand(s, c[2])
      [] c[1] = "SRANDMEMBERCOUNT" -> srandmemberWithCountCommand(s, c[2], c[3])
      [] c[1] = "SINTER" -> sinterGenericCommand(s, c[2], NoDst)
      [] c[1] = "SINTERSTORE" -> sinterGenericCommand(s, c[3], c[2])
      [] c[1] = "SUNION" -> sunionDiffGenericCommand(s, c[2], NoDst, "union")
      [] c[1] = "SUNIONSTORE" -> sunionDiffGenericCommand(s, c[3], c[2], "union")
      [] c[1] = "SDIFF" -> sunionDiffGenericCommand(s, c[2], NoDst, "diff")
      [] c[1] = "SDIFFSTORE" -> sunionDiffGenericCommand(s, c[3], c[2], "diff")
===============================================================================
