------------------------ MODULE ClusterFailoverProofs -------------------------
(***************************************************************************)
(* The epochs, the votes and the slot tables of a Redis Cluster of any     *)
(* size, under any number of elections, takeovers, restarts and packets    *)
(* that are lost or overtake each other.                                   *)
(***************************************************************************)
EXTENDS ClusterFailover, WellFoundedInduction, FiniteSetTheorems, TLAPS

\* The largest member of a set that has one.
LEMMA HighestIs ==
  ASSUME NEW S, NEW b \in S, S \subseteq Nat, \A y \in S : y <= b
  PROVE  Highest(S) = b
<1>1. Highest(S) \in S /\ \A y \in S : y <= Highest(S)
  BY DEF Highest
<1>2. Highest(S) <= b /\ b <= Highest(S) /\ b \in Nat /\ Highest(S) \in Nat
  BY <1>1
<1>3. QED
  BY <1>2

\* Every set of naturals has a smallest member.
LEMMA LowestIs ==
  ASSUME NEW S, S \subseteq Nat, S # {}
  PROVE  Lowest(S) \in S /\ \A y \in S : Lowest(S) <= y
<1>1. PICK R : R = {ss \in Nat \X Nat : ss[1] < ss[2]}
  OBVIOUS
<1>2. IsWellFoundedOn(R, Nat)
  BY <1>1, NatLessThanWellFounded, Zenon DEF OpToRel
<1>3. PICK x \in S : \A y \in S : ~(<<y, x>> \in R)
  BY <1>2, WFMin
<1>4. ASSUME NEW y \in S PROVE x <= y
  <2>1. x \in Nat /\ y \in Nat
    OBVIOUS
  <2>2. <<y, x>> \notin R
    BY <1>3
  <2>3. QED
    BY <1>1, <2>1, <2>2
<1>5. \E z \in S : \A y \in S : z <= y
  BY <1>3, <1>4
<1>6. QED
  BY <1>5 DEF Lowest

-------------------------------------------------------------------------------
(* Tables.  Every handler leaves a table in which no epoch is above the    *)
(* current one and only masters own slots, and no handler but a vote       *)
(* changes lastVoteEpoch.                                                  *)

\* A header says nothing the table of its sender does not.
LEMMA HeaderRight ==
  ASSUME NEW n \in CNodes, NEW v, TableOK(v)
  PROVE  HdrOK(clusterBuildMessageHdr(n, v))
<1>1. v \in Table /\ EpochsBelow(v)
  BY DEF TableOK
<1>2. PICK master : master = IF v.of[n] = None THEN n ELSE v.of[n]
  OBVIOUS
<1>3. v.of[n] \in CNodes \cup {None} /\ master \in CNodes
  BY <1>1, <1>2 DEF Table
<1>4. v.epoch[master] \in Nat /\ v.cur \in Nat /\ v.epoch[master] <= v.cur
  BY <1>1, <1>3 DEF Table, EpochsBelow
<1>5. SlotsOf(v, master) \in SUBSET CSlots
  BY DEF SlotsOf
<1>6. clusterBuildMessageHdr(n, v)
          = [from |-> n, cur |-> v.cur, cfg |-> v.epoch[master],
             slots |-> SlotsOf(v, master), of |-> v.of[n]]
  BY <1>2 DEF clusterBuildMessageHdr
<1>7. QED
  BY <1>3, <1>4, <1>5, <1>6 DEF HdrOK, Hdr

\* The epochs of a header are taken over.
LEMMA SeenKeeps ==
  ASSUME NEW v, NEW h, TableOK(v), HdrOK(h)
  PROVE  /\ TableOK(SeenEpochs(v, h))
         /\ SeenEpochs(v, h).vote = v.vote
         /\ SeenEpochs(v, h).aepoch = v.aepoch
         /\ SeenEpochs(v, h).count = v.count
         /\ h.cur <= SeenEpochs(v, h).cur
         /\ SeenEpochs(v, h).of = v.of
         /\ SeenEpochs(v, h).owner = v.owner
<1>1. v \in Table /\ EpochsBelow(v) /\ MastersOwn(v)
  BY DEF TableOK
<1>2. h.from \in CNodes /\ h.cur \in Nat /\ h.cfg \in Nat /\ h.cfg <= h.cur
  BY DEF HdrOK, Hdr
<1>3. PICK c : c = Bigger(v.cur, h.cur)
  OBVIOUS
<1>4. c \in Nat /\ v.cur <= c /\ h.cur <= c /\ v.cur \in Nat
  BY <1>1, <1>2, <1>3 DEF Bigger, Table
<1>5. PICK e : e = Bigger(v.epoch[h.from], h.cfg)
  OBVIOUS
<1>6. e \in Nat /\ e <= c
  BY <1>1, <1>2, <1>4, <1>5 DEF Bigger, Table, EpochsBelow
<1>7. PICK w : w = [v EXCEPT !.cur = c, !.epoch[h.from] = e]
  OBVIOUS
<1>8. SeenEpochs(v, h) = w
  BY <1>3, <1>5, <1>7 DEF SeenEpochs
<1>9. w \in Table /\ w.cur = c /\ w.epoch = [v.epoch EXCEPT ![h.from] = e] /\ w.owner = v.owner
        /\ w.of = v.of /\ w.vote = v.vote /\ w.aepoch = v.aepoch /\ w.count = v.count
  BY <1>1, <1>2, <1>4, <1>6, <1>7 DEF Table
<1>10. EpochsBelow(w)
  <2>1. ASSUME NEW m \in CNodes PROVE w.epoch[m] <= w.cur
    <3>1. CASE m = h.from
      BY <3>1, <1>1, <1>2, <1>6, <1>9 DEF Table
    <3>2. CASE m # h.from
      <4>1. w.epoch[m] = v.epoch[m] /\ v.epoch[m] <= v.cur /\ v.epoch[m] \in Nat
        BY <3>2, <1>1, <1>2, <1>9 DEF Table, EpochsBelow
      <4>2. QED
        BY <4>1, <1>4, <1>9
    <3>3. QED
      BY <3>1, <3>2
  <2>2. v.vote <= v.cur /\ v.aepoch <= v.cur /\ v.vote \in Nat /\ v.aepoch \in Nat
    BY <1>1 DEF Table, EpochsBelow
  <2>3. QED
    BY <2>1, <2>2, <1>4, <1>9 DEF EpochsBelow
<1>11. MastersOwn(w)
  BY <1>1, <1>9 DEF MastersOwn
<1>12. QED
  BY <1>4, <1>8, <1>9, <1>10, <1>11 DEF TableOK

\* New roles and owners leave the epochs alone.
LEMMA NewTable ==
  ASSUME NEW v, NEW w, NEW of \in [CNodes -> CNodes \cup {None}],
         NEW owner \in [CSlots -> CNodes \cup {None}],
         TableOK(v), \A s \in CSlots : owner[s] # None => of[owner[s]] = None,
         w \in Table, w.vote = v.vote, w.cur = v.cur, w.epoch = v.epoch, w.aepoch = v.aepoch,
         w.of = of, w.owner = owner
  PROVE  TableOK(w)
BY DEF TableOK, EpochsBelow, MastersOwn

\* The roles and owners of a table.
LEMMA TableHas ==
  ASSUME NEW v, TableOK(v)
  PROVE  /\ v.of \in [CNodes -> CNodes \cup {None}] /\ v.owner \in [CSlots -> CNodes \cup {None}]
         /\ v.epoch \in [CNodes -> Nat] /\ v.cur \in Nat /\ v.vote \in Nat
         /\ \A s \in CSlots : v.owner[s] # None => v.of[v.owner[s]] = None
         /\ \A m \in CNodes : v.epoch[m] <= v.cur
         /\ v.vote <= v.cur /\ v.aepoch <= v.cur /\ v.aepoch \in Nat /\ v.count \in Nat
         /\ v.failed \in SUBSET CNodes
BY DEF TableOK, Table, MastersOwn, EpochsBelow

\* The nodes are not None.
LEMMA NodesNamed == None \notin CNodes /\ CNodes \subseteq Nat /\ CSlots \subseteq Nat
BY FailoverAssumption DEF None

(* Table w is right, and has the epochs of table v.                        *)
Rearranged(v, w) ==
    TableOK(w) /\ w.vote = v.vote /\ w.cur = v.cur /\ w.epoch = v.epoch /\ w.aepoch = v.aepoch

\* Binding slots to a master, or to none.
LEMMA BindKeeps ==
  ASSUME NEW v, NEW n, NEW slots, n \in CNodes \cup {None}, TableOK(v), n # None => v.of[n] = None
  PROVE  /\ Rearranged(v, Bind(v, n, slots))
         /\ Bind(v, n, slots).of = v.of
         /\ Bind(v, n, slots).owner = [s \in CSlots |-> IF s \in slots THEN n ELSE v.owner[s]]
<1>1. v.of \in [CNodes -> CNodes \cup {None}] /\ v.owner \in [CSlots -> CNodes \cup {None}]
        /\ \A s \in CSlots : v.owner[s] # None => v.of[v.owner[s]] = None
  BY TableHas
<1>2. PICK owner : owner = [s \in CSlots |-> IF s \in slots THEN n ELSE v.owner[s]]
  OBVIOUS
<1>3. owner \in [CSlots -> CNodes \cup {None}]
  BY <1>1, <1>2
<1>4. \A s \in CSlots : owner[s] # None => v.of[owner[s]] = None
  BY <1>1, <1>2
<1>5. v \in Table
  BY DEF TableOK
<1>6. PICK w : w = Bind(v, n, slots)
  OBVIOUS
<1>7. w \in Table /\ w.vote = v.vote /\ w.cur = v.cur /\ w.epoch = v.epoch
        /\ w.of = v.of /\ w.owner = owner /\ w.aepoch = v.aepoch /\ w.count = v.count
  BY <1>1, <1>3, <1>2, <1>5, <1>6 DEF Bind, Table
<1>8. TableOK(w)
  BY <1>1, <1>3, <1>4, <1>7, NewTable
<1>9. QED
  BY <1>2, <1>6, <1>7, <1>8 DEF Rearranged

\* A node becomes a master: it may own slots now.
LEMMA MasterKeeps ==
  ASSUME NEW v, NEW n \in CNodes, TableOK(v)
  PROVE  /\ TableOK(clusterSetNodeAsMaster(v, n)) /\ clusterSetNodeAsMaster(v, n).vote = v.vote
         /\ clusterSetNodeAsMaster(v, n).cur = v.cur /\ clusterSetNodeAsMaster(v, n).epoch = v.epoch
         /\ clusterSetNodeAsMaster(v, n).of = [v.of EXCEPT ![n] = None]
         /\ clusterSetNodeAsMaster(v, n).owner = v.owner
         /\ clusterSetNodeAsMaster(v, n).aepoch = v.aepoch
         /\ clusterSetNodeAsMaster(v, n).count = v.count
<1>1. v.of \in [CNodes -> CNodes \cup {None}] /\ v.owner \in [CSlots -> CNodes \cup {None}]
        /\ \A s \in CSlots : v.owner[s] # None => v.of[v.owner[s]] = None
  BY TableHas
<1>2. PICK of : of = [v.of EXCEPT ![n] = None]
  OBVIOUS
<1>3. of \in [CNodes -> CNodes \cup {None}]
  BY <1>1, <1>2
<1>4. \A s \in CSlots : v.owner[s] # None => of[v.owner[s]] = None
  BY <1>1, <1>2
<1>5. v \in Table
  BY DEF TableOK
<1>6. PICK w : w = clusterSetNodeAsMaster(v, n)
  OBVIOUS
<1>7. w \in Table /\ w.vote = v.vote /\ w.cur = v.cur /\ w.epoch = v.epoch
        /\ w.of = of /\ w.owner = v.owner /\ w.aepoch = v.aepoch /\ w.count = v.count
  BY <1>1, <1>3, <1>2, <1>5, <1>6 DEF clusterSetNodeAsMaster, Table
<1>8. TableOK(w)
  BY <1>1, <1>3, <1>4, <1>7, NewTable
<1>9. QED
  BY <1>2, <1>6, <1>7, <1>8

\* A node without slots becomes a slave.
LEMMA SlaveKeeps ==
  ASSUME NEW v, NEW n \in CNodes, NEW m \in CNodes \cup {None}, TableOK(v), SlotsOf(v, n) = {}
  PROVE  /\ TableOK(clusterSetMaster(v, n, m)) /\ clusterSetMaster(v, n, m).vote = v.vote
         /\ clusterSetMaster(v, n, m).cur = v.cur /\ clusterSetMaster(v, n, m).epoch = v.epoch
         /\ clusterSetMaster(v, n, m).aepoch = v.aepoch
<1>. DEFINE w == clusterSetMaster(v, n, m)
<1>0. \A s \in CSlots : v.owner[s] # n
  BY DEF SlotsOf
<1>1. v.of \in [CNodes -> CNodes \cup {None}] /\ v.owner \in [CSlots -> CNodes \cup {None}]
        /\ \A s \in CSlots : v.owner[s] # None => v.of[v.owner[s]] = None
  BY TableHas
<1>2. PICK of : of = [v.of EXCEPT ![n] = m]
  OBVIOUS
<1>3. of \in [CNodes -> CNodes \cup {None}]
  BY <1>1, <1>2
<1>4. \A s \in CSlots : v.owner[s] # None => of[v.owner[s]] = None
  BY <1>0, <1>1, <1>2
<1>5. v \in Table
  BY DEF TableOK
<1>6. w = [v EXCEPT !.of = of]
  BY <1>2 DEF clusterSetMaster
<1>. HIDE DEF w
<1>7. w \in Table /\ w.vote = v.vote /\ w.cur = v.cur /\ w.epoch = v.epoch
        /\ w.of = of /\ w.owner = v.owner /\ w.aepoch = v.aepoch /\ w.count = v.count
  BY <1>3, <1>5, <1>6 DEF Table
<1>8. TableOK(w)
  <2>1. EpochsBelow(w)
    BY <1>7 DEF TableOK, EpochsBelow
  <2>2. MastersOwn(w)
    BY <1>4, <1>7 DEF MastersOwn
  <2>3. QED
    BY <1>7, <2>1, <2>2 DEF TableOK
<1>9. QED
  BY <1>7, <1>8 DEF w

\* The role a header tells.
LEMMA RoleKeeps ==
  ASSUME NEW v, NEW h, TableOK(v), HdrOK(h)
  PROVE  Rearranged(v, RoleSwitch(v, h))
<1>1. h.from \in CNodes /\ h.of \in CNodes \cup {None} /\ h.from # None
  BY NodesNamed DEF HdrOK, Hdr
<1>2. CASE h.of = None
  BY <1>1, <1>2, MasterKeeps DEF RoleSwitch, Rearranged
<1>3. CASE h.of # None /\ IsMaster(v, h.from)
  <2>1. PICK b : b = Bind(v, None, SlotsOf(v, h.from))
    OBVIOUS
  <2>2. /\ TableOK(b) /\ b.vote = v.vote /\ b.cur = v.cur /\ b.epoch = v.epoch
        /\ b.aepoch = v.aepoch
        /\ b.owner = [s \in CSlots |-> IF s \in SlotsOf(v, h.from) THEN None ELSE v.owner[s]]
    BY <2>1, BindKeeps DEF Rearranged
  <2>3. SlotsOf(b, h.from) = {}
    BY <1>1, <2>2 DEF SlotsOf
  <2>4. PICK w : w = clusterSetMaster(b, h.from, h.of)
    OBVIOUS
  <2>5. TableOK(w) /\ w.vote = b.vote /\ w.cur = b.cur /\ w.epoch = b.epoch /\ w.aepoch = b.aepoch
    BY <1>1, <2>2, <2>3, <2>4, SlaveKeeps
  <2>6. RoleSwitch(v, h) = w
    BY <1>3, <2>1, <2>4 DEF RoleSwitch, clusterSetMaster
  <2>7. QED
    BY <2>2, <2>5, <2>6 DEF Rearranged
<1>4. CASE h.of # None /\ ~IsMaster(v, h.from)
  <2>1. SlotsOf(v, h.from) = {}
    BY <1>1, <1>4, TableHas DEF IsMaster, SlotsOf
  <2>2. PICK w : w = clusterSetMaster(v, h.from, h.of)
    OBVIOUS
  <2>3. TableOK(w) /\ w.vote = v.vote /\ w.cur = v.cur /\ w.epoch = v.epoch /\ w.aepoch = v.aepoch
    BY <1>1, <2>1, <2>2, SlaveKeeps
  <2>4. RoleSwitch(v, h) = w
    BY <1>4, <2>2 DEF RoleSwitch, clusterSetMaster
  <2>5. QED
    BY <2>3, <2>4 DEF Rearranged
<1>5. QED
  BY <1>2, <1>3, <1>4

\* The slots of a claim go to the master that claims them, and a node left without slots
\* becomes its slave.
LEMMA ClaimKeeps ==
  ASSUME NEW v, NEW me \in CNodes, NEW n \in CNodes, NEW cfg, NEW slots,
         TableOK(v), IsMaster(v, n)
  PROVE  Rearranged(v, clusterUpdateSlotsConfigWith(v, me, n, cfg, slots))
<1>1. PICK taken, b : taken = Taken(v, n, cfg, slots) /\ b = Bind(v, n, taken)
  OBVIOUS
<1>2. n \in CNodes \cup {None} /\ v.of[n] = None /\ me # None /\ n # None
  BY NodesNamed DEF IsMaster
<1>3. /\ TableOK(b) /\ b.vote = v.vote /\ b.cur = v.cur /\ b.epoch = v.epoch
      /\ b.aepoch = v.aepoch
      /\ b.owner = [s \in CSlots |-> IF s \in taken THEN n ELSE v.owner[s]]
  BY <1>1, <1>2, BindKeeps DEF Rearranged
<1>4. CASE n = me
  BY <1>4 DEF clusterUpdateSlotsConfigWith, Rearranged
<1>5. CASE n # me /\ ~LeftWithout(v, me, n, cfg, slots)
  BY <1>1, <1>3, <1>5 DEF clusterUpdateSlotsConfigWith, Rearranged
<1>6. CASE n # me /\ LeftWithout(v, me, n, cfg, slots)
  <2>1. ASSUME NEW s \in CSlots PROVE b.owner[s] # me
    <3>1. CASE s \in taken
      BY <1>3, <1>6, <3>1
    <3>2. CASE s \notin taken
      <4>1. b.owner[s] = v.owner[s]
        BY <1>3, <3>2
      <4>2. CASE IsMaster(v, me)
        <5>1. SlotsOf(v, me) \subseteq taken
          BY <1>1, <1>6, <4>2 DEF LeftWithout
        <5>2. QED
          BY <3>2, <4>1, <5>1 DEF SlotsOf
      <4>3. CASE ~IsMaster(v, me)
        BY <1>2, <4>1, <4>3, TableHas DEF IsMaster
      <4>4. QED
        BY <4>2, <4>3
    <3>3. QED
      BY <3>1, <3>2
  <2>6. SlotsOf(b, me) = {}
    BY <2>1 DEF SlotsOf
  <2>2. PICK w : w = clusterSetMaster(b, me, n)
    OBVIOUS
  <2>3. TableOK(w) /\ w.vote = b.vote /\ w.cur = b.cur /\ w.epoch = b.epoch /\ w.aepoch = b.aepoch
    BY <1>2, <1>3, <2>6, <2>2, SlaveKeeps
  <2>4. clusterUpdateSlotsConfigWith(v, me, n, cfg, slots) = w
    BY <1>1, <1>6, <2>2 DEF clusterUpdateSlotsConfigWith
  <2>5. QED
    BY <1>3, <2>3, <2>4 DEF Rearranged
<1>7. QED
  BY <1>4, <1>5, <1>6

(* Table w is right, and has the votes, the roles and the owners of v.     *)
Reassigned(v, w) == TableOK(w) /\ w.vote = v.vote /\ w.of = v.of /\ w.owner = v.owner

WithEpoch(v, n, c, e) == [v EXCEPT !.cur = c, !.epoch[n] = e]

\* A new epoch of a node, not above the current one.
LEMMA EpochKeeps ==
  ASSUME NEW v, NEW n, NEW c, NEW e, n \in CNodes, c \in Nat, e \in Nat, TableOK(v),
         v.cur <= c, e <= c
  PROVE  Reassigned(v, WithEpoch(v, n, c, e))
<1>0. PICK w : w = WithEpoch(v, n, c, e)
  OBVIOUS
<1>1. v \in Table /\ EpochsBelow(v) /\ MastersOwn(v)
  BY DEF TableOK
<1>2. w \in Table /\ w.cur = c /\ w.epoch = [v.epoch EXCEPT ![n] = e] /\ w.owner = v.owner
        /\ w.of = v.of /\ w.vote = v.vote /\ w.aepoch = v.aepoch /\ w.count = v.count
  BY <1>0, <1>1 DEF Table, WithEpoch
<1>3. v.epoch \in [CNodes -> Nat] /\ v.cur \in Nat /\ v.vote \in Nat /\ v.aepoch \in Nat
  BY <1>1 DEF Table
<1>4. ASSUME NEW m \in CNodes PROVE w.epoch[m] <= w.cur
  <2>1. CASE m = n
    BY <1>2, <1>3, <2>1
  <2>2. CASE m # n
    <3>1. w.epoch[m] = v.epoch[m] /\ v.epoch[m] <= v.cur /\ v.epoch[m] \in Nat
      BY <1>1, <1>2, <1>3, <2>2 DEF EpochsBelow
    <3>2. QED
      BY <1>2, <1>3, <3>1
  <2>3. QED
    BY <2>1, <2>2
<1>5. v.vote <= v.cur /\ v.aepoch <= v.cur
  BY <1>1 DEF EpochsBelow
<1>6. w.vote <= w.cur /\ w.aepoch <= w.cur
  BY <1>2, <1>3, <1>5
<1>7. EpochsBelow(w)
  BY <1>4, <1>6 DEF EpochsBelow
<1>8. MastersOwn(w)
  BY <1>1, <1>2 DEF MastersOwn
<1>9. QED
  BY <1>0, <1>2, <1>7, <1>8 DEF TableOK, Reassigned

\* The master with the smaller name gets an epoch of its own.
LEMMA CollisionKeeps ==
  ASSUME NEW v, NEW me \in CNodes, NEW h, TableOK(v)
  PROVE  /\ TableOK(clusterHandleConfigEpochCollision(v, me, h))
         /\ clusterHandleConfigEpochCollision(v, me, h).vote = v.vote
<1>1. v.cur \in Nat
  BY TableHas
<1>2. PICK c : c = v.cur + 1
  OBVIOUS
<1>3. c \in Nat /\ v.cur <= c /\ c <= c /\ me \in CNodes
  BY <1>1, <1>2
<1>4. PICK w : w = WithEpoch(v, me, c, c)
  OBVIOUS
<1>5. TableOK(w) /\ w.vote = v.vote
  <2>1. Reassigned(v, w)
    BY <1>3, <1>4, EpochKeeps
  <2>2. QED
    BY <2>1 DEF Reassigned
<1>6. clusterHandleConfigEpochCollision(v, me, h) \in {v, w}
  BY <1>2, <1>4 DEF clusterHandleConfigEpochCollision, WithEpoch
<1>7. QED
  BY <1>5, <1>6

\* An UPDATE says nothing the table of its sender does not.
LEMMA UpdateSent ==
  ASSUME NEW v, NEW n \in CNodes, NEW to \in CNodes, NEW about \in CNodes, TableOK(v)
  PROVE  PacketOK(clusterSendUpdate(n, v, to, about))
<1>1. PICK hdr : hdr = clusterBuildMessageHdr(n, v)
  OBVIOUS
<1>2. HdrOK(hdr) /\ hdr \in Hdr /\ hdr.cur = v.cur
  <2>1. HdrOK(hdr)
    BY <1>1, HeaderRight
  <2>2. hdr.cur = v.cur
    BY <1>1 DEF clusterBuildMessageHdr
  <2>3. QED
    BY <2>1, <2>2 DEF HdrOK
<1>3. PICK e, slots : e = v.epoch[about] /\ slots = SlotsOf(v, about)
  OBVIOUS
<1>4. e \in Nat /\ e <= hdr.cur /\ slots \in SUBSET CSlots
  BY <1>2, <1>3, TableHas DEF SlotsOf
<1>5. clusterSendUpdate(n, v, to, about)
         = [type |-> "update", to |-> to, hdr |-> hdr, about |-> about, epoch |-> e, slots |-> slots]
  <2>1. PICK none, q : none = {} /\ q = [type |-> "update", to |-> to, hdr |-> hdr, about |-> None,
                                        epoch |-> 0, slots |-> none]
    OBVIOUS
  <2>2. clusterSendUpdate(n, v, to, about)
            = [q EXCEPT !.about = about, !.epoch = e, !.slots = slots]
    BY <1>1, <1>3, <2>1 DEF clusterSendUpdate, Packet
  <2>3. QED
    BY <2>1, <2>2
<1>6. PICK p : p = clusterSendUpdate(n, v, to, about)
  OBVIOUS
<1>7. p.type = "update" /\ p.about = about /\ p.epoch = e /\ p.hdr = hdr
  BY <1>5, <1>6
<1>8. p \in [type : {"ping", "update", "request", "ack"}, to : CNodes, hdr : Hdr,
             about : CNodes \cup {None}, epoch : Nat, slots : SUBSET CSlots]
  BY <1>2, <1>4, <1>5, <1>6
<1>9. QED
  BY <1>2, <1>4, <1>6, <1>7, <1>8 DEF PacketOK

\* The other packets.
LEMMA PacketRight ==
  ASSUME NEW type \in {"ping", "request", "ack"}, NEW to \in CNodes, NEW hdr, HdrOK(hdr)
  PROVE  PacketOK(Packet(type, to, hdr))
<1>1. hdr \in Hdr
  BY DEF HdrOK
<1>2. QED
  BY <1>1 DEF PacketOK, Packet, None

\* A node is told about the owner of a slot it claims.
LEMMA TellKeeps ==
  ASSUME NEW v, NEW me \in CNodes, NEW h, TableOK(v), HdrOK(h)
  PROVE  \A p \in TellNewer(v, me, h, Newer(v, h)) : PacketOK(p)
<1>1. PICK newer : newer = Newer(v, h)
  OBVIOUS
<1>2. h.from \in CNodes /\ h.slots \subseteq CSlots
  BY DEF HdrOK, Hdr
<1>3. newer \subseteq CSlots
  BY <1>1, <1>2 DEF Newer
<1>4. CASE newer = {}
  BY <1>1, <1>4 DEF TellNewer
<1>5. CASE newer # {}
  <2>1. PICK s : s = Lowest(newer)
    OBVIOUS
  <2>2. s \in newer
    BY <1>3, <1>5, <2>1, LowestIs, NodesNamed
  <2>3. s \in CSlots /\ v.owner[s] # None
    BY <1>1, <1>3, <2>2 DEF Newer
  <2>4. PICK about : about = v.owner[s]
    OBVIOUS
  <2>5. about \in CNodes
    BY <2>3, <2>4, TableHas
  <2>6. PacketOK(clusterSendUpdate(me, v, h.from, about))
    BY <1>2, <2>5, UpdateSent
  <2>7. TellNewer(v, me, h, newer) = {clusterSendUpdate(me, v, h.from, about)}
    BY <1>5, <2>1, <2>4 DEF TellNewer
  <2>8. QED
    BY <1>1, <2>6, <2>7
<1>6. QED
  BY <1>4, <1>5

\* A PING or PONG.
LEMMA ClaimsKeep ==
  ASSUME NEW v, NEW me \in CNodes, NEW h, TableOK(v), HdrOK(h)
  PROVE  /\ TableOK(Claims(v, me, h).v) /\ Claims(v, me, h).v.vote = v.vote
         /\ \A p \in Claims(v, me, h).out : PacketOK(p)
<1>1. PICK seen : seen = SeenEpochs(v, h)
  OBVIOUS
<1>2. TableOK(seen) /\ seen.vote = v.vote
  BY <1>1, SeenKeeps
<1>3. PICK r : r = RoleSwitch(seen, h)
  OBVIOUS
<1>4. TableOK(r) /\ r.vote = v.vote
  BY <1>2, <1>3, RoleKeeps DEF Rearranged
<1>5. PICK dirty : dirty = (SlotsOf(r, IF IsMaster(r, h.from) THEN h.from ELSE r.of[h.from]) # h.slots)
  OBVIOUS
<1>6. PICK b : b = IF IsMaster(r, h.from) /\ dirty
                   THEN clusterUpdateSlotsConfigWith(r, me, h.from, h.cfg, h.slots) ELSE r
  OBVIOUS
<1>7. TableOK(b) /\ b.vote = v.vote
  <2>1. h.from \in CNodes
    BY DEF HdrOK, Hdr
  <2>2. CASE IsMaster(r, h.from) /\ dirty
    <3>1. Rearranged(r, b)
      BY <1>4, <1>6, <2>1, <2>2, ClaimKeeps
    <3>2. QED
      BY <1>4, <3>1 DEF Rearranged
  <2>3. CASE ~(IsMaster(r, h.from) /\ dirty)
    BY <1>4, <1>6, <2>3
  <2>4. QED
    BY <2>2, <2>3
<1>8. Claims(v, me, h) = Rebound(b, me, h, dirty)
  BY <1>1, <1>3, <1>5, <1>6 DEF Claims, ClaimsSeen, ClaimsIf
<1>9. PICK c : c = clusterHandleConfigEpochCollision(b, me, h)
  OBVIOUS
<1>10. TableOK(c) /\ c.vote = v.vote
  BY <1>7, <1>9, CollisionKeeps
<1>11. Rebound(b, me, h, dirty).v = c
  BY <1>9 DEF Rebound
<1>12. Rebound(b, me, h, dirty).out \subseteq TellNewer(b, me, h, Newer(b, h))
  BY DEF Rebound
<1>13. \A p \in TellNewer(b, me, h, Newer(b, h)) : PacketOK(p)
  BY <1>7, TellKeeps
<1>14. QED
  BY <1>8, <1>10, <1>11, <1>12, <1>13

(* Table w is right, and has the vote of v.                                *)
Kept(v, w) == TableOK(w) /\ w.vote = v.vote

\* An UPDATE: the node it is about becomes a master with a newer epoch.
LEMMA UpdatedKeeps ==
  ASSUME NEW v, NEW me \in CNodes, NEW p, TableOK(v), PacketOK(p), p.type = "update"
  PROVE  Kept(v, Updated(v, me, p)) /\ Updated(v, me, p).epoch[p.about] >= p.epoch
<1>1. PICK h, x, e : h = p.hdr /\ x = p.about /\ e = p.epoch
  OBVIOUS
<1>2. HdrOK(h) /\ x \in CNodes /\ e \in Nat /\ e <= h.cur /\ h.cur \in Nat
  BY <1>1 DEF PacketOK, Hdr
<1>3. PICK seen : seen = SeenEpochs(v, h)
  OBVIOUS
<1>4. TableOK(seen) /\ seen.vote = v.vote /\ h.cur <= seen.cur
  BY <1>2, <1>3, SeenKeeps
<1>5. CASE seen.epoch[x] >= e
  BY <1>1, <1>3, <1>4, <1>5 DEF Updated, Kept
<1>6. CASE ~(seen.epoch[x] >= e)
  <2>1. PICK m : m = clusterSetNodeAsMaster(seen, x)
    OBVIOUS
  <2>2. TableOK(m) /\ m.vote = v.vote /\ m.cur = seen.cur /\ m.of = [seen.of EXCEPT ![x] = None]
    BY <1>2, <1>4, <2>1, MasterKeeps
  <2>3. PICK c : c = m.cur
    OBVIOUS
  <2>4. c \in Nat /\ e <= c /\ m.cur <= c
    BY <1>2, <1>4, <2>2, <2>3, TableHas
  <2>5. PICK w : w = WithEpoch(m, x, c, e)
    OBVIOUS
  <2>6. Reassigned(m, w)
    BY <1>2, <2>2, <2>4, <2>5, EpochKeeps
  <2>7. TableOK(w) /\ w.vote = v.vote /\ IsMaster(w, x)
    <3>1. seen.of \in [CNodes -> CNodes \cup {None}]
      BY <1>4, TableHas
    <3>2. m.of[x] = None
      BY <1>2, <2>2, <3>1
    <3>3. QED
      BY <2>2, <2>6, <3>2 DEF Reassigned, IsMaster
  <2>8. w = [m EXCEPT !.epoch[x] = e]
    <3>1. m \in Table
      BY <2>2 DEF TableOK
    <3>2. [m EXCEPT !.cur = m.cur] = m
      BY <3>1 DEF Table
    <3>3. w = [[m EXCEPT !.cur = m.cur] EXCEPT !.epoch[x] = e]
      BY <2>3, <2>5 DEF WithEpoch
    <3>4. QED
      BY <3>2, <3>3
  <2>9. Updated(v, me, p) = clusterUpdateSlotsConfigWith(w, me, x, e, p.slots)
    BY <1>1, <1>3, <1>6, <2>1, <2>8 DEF Updated
  <2>10. Rearranged(w, clusterUpdateSlotsConfigWith(w, me, x, e, p.slots))
    BY <1>2, <2>7, ClaimKeeps
  <2>11. w.epoch[x] = e
    <3>1. m \in Table /\ m.epoch \in [CNodes -> Nat]
      BY <2>2, TableHas DEF TableOK
    <3>2. w.epoch = [m.epoch EXCEPT ![x] = e]
      BY <2>8, <3>1 DEF Table
    <3>3. QED
      BY <1>2, <3>1, <3>2
  <2>12. Updated(v, me, p).epoch[x] >= e
    BY <1>2, <2>9, <2>10, <2>11 DEF Rearranged
  <2>13. QED
    BY <1>1, <2>7, <2>9, <2>10, <2>12 DEF Rearranged, Kept
<1>7. QED
  BY <1>5, <1>6

\* The slave that takes over becomes the owner of the slots of its master.
LEMMA ReplaceKeeps ==
  ASSUME NEW v, NEW n \in CNodes, TableOK(v)
  PROVE  Kept(v, clusterFailoverReplaceYourMaster(v, n))
<1>1. PICK m, slots : m = clusterSetNodeAsMaster(v, n) /\ slots = SlotsOf(v, v.of[n])
  OBVIOUS
<1>2. TableOK(m) /\ m.vote = v.vote /\ m.of = [v.of EXCEPT ![n] = None]
  BY <1>1, MasterKeeps
<1>3. m.of[n] = None /\ n \in CNodes \cup {None}
  BY <1>2, TableHas
<1>4. PICK w : w = Bind(m, n, slots)
  OBVIOUS
<1>5. Rearranged(m, w)
  BY <1>2, <1>3, <1>4, BindKeeps
<1>6. QED
  BY <1>1, <1>2, <1>4, <1>5 DEF clusterFailoverReplaceYourMaster, Kept, Rearranged

\* The currentEpoch of a table is the highest of its epochs.
LEMMA MaxIsCurrent ==
  ASSUME NEW v, TableOK(v)
  PROVE  clusterGetMaxEpoch(v) = v.cur
<1>1. PICK S : S = {v.epoch[m] : m \in CNodes} \cup {v.cur}
  OBVIOUS
<1>2. v.cur \in S /\ S \subseteq Nat /\ \A y \in S : y <= v.cur
  BY <1>1, TableHas
<1>3. Highest(S) = v.cur
  BY <1>2, HighestIs
<1>4. QED
  BY <1>1, <1>3 DEF clusterGetMaxEpoch

\* A takeover gets an epoch without asking.
LEMMA BumpKeeps ==
  ASSUME NEW v, NEW n \in CNodes, TableOK(v)
  PROVE  Reassigned(v, clusterBumpConfigEpochWithoutConsensus(v, n))
<1>1. PICK c : c = v.cur + 1
  OBVIOUS
<1>2. c \in Nat /\ v.cur <= c /\ c <= c
  BY <1>1, TableHas
<1>3. PICK w : w = WithEpoch(v, n, c, c)
  OBVIOUS
<1>4. Reassigned(v, w)
  BY <1>2, <1>3, EpochKeeps
<1>5. Reassigned(v, v)
  BY DEF Reassigned
<1>6. clusterBumpConfigEpochWithoutConsensus(v, n) \in {v, w}
  BY <1>1, <1>3 DEF clusterBumpConfigEpochWithoutConsensus, WithEpoch
<1>7. QED
  BY <1>4, <1>5, <1>6

\* A vote, a count, a failure, a schedule and a request change nothing but themselves.
LEMMA FieldsKeep ==
  ASSUME NEW v, NEW w, TableOK(v), w \in Table, w.of = v.of, w.owner = v.owner,
         w.epoch = v.epoch, v.cur <= w.cur, w.vote <= w.cur, w.aepoch <= w.cur
  PROVE  TableOK(w)
<1>1. v.epoch \in [CNodes -> Nat] /\ v.cur \in Nat /\ w.cur \in Nat
  BY TableHas DEF Table
<1>2. ASSUME NEW m \in CNodes PROVE w.epoch[m] <= w.cur
  <2>1. v.epoch[m] \in Nat /\ v.epoch[m] <= v.cur /\ w.epoch[m] = v.epoch[m]
    BY <1>1, TableHas
  <2>2. QED
    BY <1>1, <2>1
<1>3. EpochsBelow(w)
  BY <1>2 DEF EpochsBelow
<1>4. MastersOwn(w)
  BY DEF MastersOwn, TableOK
<1>5. QED
  BY <1>3, <1>4 DEF TableOK

\* A restart reads back what was saved.
LEMMA LoadKeeps ==
  ASSUME NEW d, TableOK(d)
  PROVE  Kept(d, clusterLoadConfig(d))
<1>1. PICK w : w = clusterLoadConfig(d)
  OBVIOUS
<1>2. d \in Table /\ d.cur \in Nat /\ d.vote <= d.cur
  BY TableHas DEF TableOK
<1>3. w = [d EXCEPT !.cur = d.cur, !.state = "none", !.aepoch = 0, !.count = 0]
  BY <1>1, MaxIsCurrent DEF clusterLoadConfig
<1>4. w \in Table /\ w.of = d.of /\ w.owner = d.owner /\ w.epoch = d.epoch /\ w.cur = d.cur
        /\ w.vote = d.vote /\ w.aepoch = 0
  BY <1>2, <1>3 DEF Table
<1>5. d.cur <= w.cur /\ w.vote <= w.cur /\ w.aepoch <= w.cur
  BY <1>2, <1>4
<1>6. TableOK(w)
  BY <1>4, <1>5, FieldsKeep
<1>7. QED
  BY <1>1, <1>4, <1>6 DEF Kept

-------------------------------------------------------------------------------
(* Steps.                                                                  *)

\* A node saves a table that is right.
LEMMA SaveKeeps ==
  ASSUME NEW old, NEW v, NEW saved, TableOK(v), TableOK(saved)
  PROVE  TableOK(SaveIfChanged(old, v, saved))
BY DEF SaveIfChanged

\* Only the table and the file of the node that moves change.
LEMMA TablesKeep ==
  ASSUME NEW n \in CNodes, NEW v, NEW d, FailoverInv, TableOK(v), TableOK(d),
         view' = [view EXCEPT ![n] = v], disk' = [disk EXCEPT ![n] = d]
  PROVE  view' \in [CNodes -> Table] /\ disk' \in [CNodes -> Table] /\ TablesOK'
<1>1. view \in [CNodes -> Table] /\ disk \in [CNodes -> Table] /\ v \in Table /\ d \in Table
  BY DEF FailoverInv, TableOK
<1>2. view' \in [CNodes -> Table] /\ disk' \in [CNodes -> Table]
  BY <1>1
<1>3. ASSUME NEW m \in CNodes PROVE TableOK(view'[m]) /\ TableOK(disk'[m])
  <2>1. CASE m = n
    BY <1>1, <2>1
  <2>2. CASE m # n
    BY <1>1, <2>2 DEF FailoverInv, TablesOK
  <2>3. QED
    BY <2>1, <2>2
<1>4. TablesOK'
  BY <1>3 DEF TablesOK, TableOK, EpochsBelow, MastersOwn
<1>5. QED
  BY <1>2, <1>4

\* A step that casts no vote forgets none.
LEMMA VotesKeep ==
  ASSUME NEW n \in CNodes, NEW v, FailoverInv, v.vote = view[n].vote,
         view' = [view EXCEPT ![n] = v], ballots' = ballots, forgot' = forgot
  PROVE  BallotsKnown' /\ MastersVoteOnce'
<1>1. BallotsKnown /\ MastersVoteOnce /\ view \in [CNodes -> Table]
  BY DEF FailoverInv
<1>2. ASSUME NEW m \in CNodes PROVE view'[m].vote = view[m].vote
  BY <1>1
<1>3. ASSUME NEW b \in ballots'
      PROVE  b \in CNodes \X Nat \X CNodes /\ (forgot' \/ b[2] <= view'[b[1]].vote)
  <2>1. b \in CNodes \X Nat \X CNodes /\ (forgot \/ b[2] <= view[b[1]].vote)
    BY <1>1 DEF BallotsKnown
  <2>2. b[1] \in CNodes
    BY <2>1
  <2>3. QED
    BY <1>2, <2>1, <2>2
<1>4. BallotsKnown'
  BY <1>1, <1>3 DEF BallotsKnown
<1>5. MastersVoteOnce'
  BY <1>1 DEF MastersVoteOnce
<1>6. QED
  BY <1>4, <1>5

\* No election is won.
LEMMA WonKeeps ==
  ASSUME FailoverInv, ballots' = ballots, won' = won
  PROVE  WonByQuorum'
BY DEF FailoverInv, WonByQuorum, Ballots

\* A handler that casts no vote and wins no election.
LEMMA HandlerKeeps ==
  ASSUME NEW n \in CNodes, NEW v, NEW d, FailoverInv, Kept(view[n], v), TableOK(d),
         view' = [view EXCEPT ![n] = v], disk' = [disk EXCEPT ![n] = d],
         \A p \in packets' : PacketOK(p),
         ballots' = ballots, won' = won, forgot' = forgot
  PROVE  FailoverInv'
<1>1. TableOK(v) /\ v.vote = view[n].vote
  BY DEF Kept
<1>2. view' \in [CNodes -> Table] /\ disk' \in [CNodes -> Table] /\ TablesOK'
  BY <1>1, TablesKeep
<1>3. BallotsKnown' /\ MastersVoteOnce'
  BY <1>1, VotesKeep
<1>4. WonByQuorum'
  BY WonKeeps
<1>5. forgot' \in BOOLEAN
  BY DEF FailoverInv
<1>6. \A p \in packets' : (PacketOK(p))'
  BY DEF PacketOK, HdrOK
<1>7. QED
  BY <1>2, <1>3, <1>4, <1>5, <1>6 DEF FailoverInv

\* The same, with the file saved when the configuration changes.
LEMMA BecomesKeeps ==
  ASSUME NEW n \in CNodes, NEW v, FailoverInv, Kept(view[n], v), ClusterBecomes(n, v),
         \A p \in packets' : PacketOK(p),
         ballots' = ballots, won' = won, forgot' = forgot
  PROVE  FailoverInv'
<1>1. PICK d : d = SaveIfChanged(view[n], v, disk[n])
  OBVIOUS
<1>2. TableOK(disk[n]) /\ TableOK(v) /\ disk \in [CNodes -> Table]
  BY DEF FailoverInv, TablesOK, Kept
<1>3. TableOK(d)
  BY <1>1, <1>2, SaveKeeps
<1>4. view' = [view EXCEPT ![n] = v] /\ disk' = [disk EXCEPT ![n] = d]
  BY <1>1, <1>2 DEF ClusterBecomes
<1>5. QED
  BY <1>3, <1>4, HandlerKeeps

\* A broadcast.
LEMMA BroadcastKeeps ==
  ASSUME NEW type \in {"ping", "request", "ack"}, NEW n \in CNodes, NEW v, FailoverInv, TableOK(v),
         clusterBroadcastMessage(type, n, v)
  PROVE  \A p \in packets' : PacketOK(p)
<1>1. PICK hdr : hdr = clusterBuildMessageHdr(n, v)
  OBVIOUS
<1>2. HdrOK(hdr)
  BY <1>1, HeaderRight
<1>3. PICK R \in SUBSET (CNodes \ {n}) : packets' = packets \cup {Packet(type, m, hdr) : m \in R}
  BY <1>1 DEF clusterBroadcastMessage
<1>4. ASSUME NEW m \in R PROVE PacketOK(Packet(type, m, hdr))
  <2>1. m \in CNodes
    OBVIOUS
  <2>2. QED
    BY <1>2, <2>1, PacketRight
<1>5. \A p \in packets : PacketOK(p)
  BY DEF FailoverInv
<1>6. QED
  BY <1>3, <1>4, <1>5

\* A PING or PONG is processed.
LEMMA ReceivePingKeeps ==
  ASSUME NEW p \in packets, FailoverInv, ReceivePing(p)
  PROVE  FailoverInv'
<1>1. PICK n, h, r : n = p.to /\ h = p.hdr /\ r = Claims(view[n], n, h)
  OBVIOUS
<1>2. PacketOK(p) /\ \A q \in packets : PacketOK(q)
  BY DEF FailoverInv
<1>3. n \in CNodes /\ HdrOK(h)
  BY <1>1, <1>2 DEF PacketOK
<1>4. TableOK(view[n])
  BY <1>3 DEF FailoverInv, TablesOK
<1>5. TableOK(r.v) /\ r.v.vote = view[n].vote /\ \A q \in r.out : PacketOK(q)
  BY <1>1, <1>3, <1>4, ClaimsKeep
<1>6. /\ packets' = (packets \ {p}) \cup r.out /\ ClusterBecomes(n, r.v)
      /\ ballots' = ballots /\ won' = won /\ forgot' = forgot
  BY <1>1 DEF ReceivePing, PingProcessed
<1>7. PICK v : v = r.v
  OBVIOUS
<1>8. Kept(view[n], v) /\ ClusterBecomes(n, v)
  BY <1>5, <1>6, <1>7 DEF Kept
<1>9. \A q \in packets' : PacketOK(q)
  BY <1>2, <1>5, <1>6
<1>10. QED
  BY <1>3, <1>6, <1>8, <1>9, BecomesKeeps

\* An UPDATE is processed.
LEMMA ReceiveUpdateKeeps ==
  ASSUME NEW p \in packets, FailoverInv, ReceiveUpdate(p)
  PROVE  FailoverInv'
<1>1. PICK n, v : n = p.to /\ v = Updated(view[n], n, p)
  OBVIOUS
<1>2. PacketOK(p) /\ \A q \in packets : PacketOK(q)
  BY DEF FailoverInv
<1>3. n \in CNodes /\ p.type = "update"
  BY <1>1, <1>2 DEF PacketOK, ReceiveUpdate
<1>4. TableOK(view[n])
  BY <1>3 DEF FailoverInv, TablesOK
<1>5. Kept(view[n], v)
  BY <1>1, <1>2, <1>3, <1>4, UpdatedKeeps
<1>6. /\ packets' = packets \ {p} /\ ClusterBecomes(n, v)
      /\ ballots' = ballots /\ won' = won /\ forgot' = forgot
  BY <1>1 DEF ReceiveUpdate
<1>7. \A q \in packets' : PacketOK(q)
  BY <1>2, <1>6
<1>8. QED
  BY <1>3, <1>5, <1>6, <1>7, BecomesKeeps

\* A vote arrives.
LEMMA ReceiveAckKeeps ==
  ASSUME NEW p \in packets, FailoverInv, ReceiveAck(p)
  PROVE  FailoverInv'
<1>1. PICK n, h : n = p.to /\ h = p.hdr
  OBVIOUS
<1>2. PacketOK(p) /\ \A q \in packets : PacketOK(q)
  BY DEF FailoverInv
<1>3. n \in CNodes /\ HdrOK(h)
  BY <1>1, <1>2 DEF PacketOK
<1>4. TableOK(view[n])
  BY <1>3 DEF FailoverInv, TablesOK
<1>5. PICK seen : seen = SeenEpochs(view[n], h)
  OBVIOUS
<1>6. TableOK(seen) /\ seen.vote = view[n].vote
  BY <1>3, <1>4, <1>5, SeenKeeps
<1>7. PICK k, w : k = seen.count + 1 /\ w = [seen EXCEPT !.count = k]
  OBVIOUS
<1>8. Kept(view[n], w)
  <2>1. seen \in Table /\ k \in Nat /\ seen.cur \in Nat /\ seen.vote <= seen.cur /\ seen.aepoch <= seen.cur
    BY <1>6, <1>7, TableHas DEF TableOK
  <2>2. w \in Table /\ w.of = seen.of /\ w.owner = seen.owner /\ w.epoch = seen.epoch
          /\ w.cur = seen.cur /\ w.vote = seen.vote /\ w.aepoch = seen.aepoch
    BY <1>7, <2>1 DEF Table
  <2>3. seen.cur <= w.cur /\ w.vote <= w.cur /\ w.aepoch <= w.cur
    BY <2>1, <2>2
  <2>4. TableOK(w)
    BY <1>6, <2>2, <2>3, FieldsKeep
  <2>5. QED
    BY <1>6, <2>2, <2>4 DEF Kept
<1>9. Kept(view[n], seen)
  BY <1>6 DEF Kept
<1>10. PICK v : v = IF AckCounts(seen, h) THEN w ELSE seen
  OBVIOUS
<1>11. Kept(view[n], v)
  BY <1>8, <1>9, <1>10
<1>12. /\ packets' = packets \ {p} /\ ClusterBecomes(n, v)
       /\ ballots' = ballots /\ won' = won /\ forgot' = forgot
  BY <1>1, <1>5, <1>7, <1>10 DEF ReceiveAck
<1>13. \A q \in packets' : PacketOK(q)
  BY <1>2, <1>12
<1>14. QED
  BY <1>3, <1>11, <1>12, <1>13, BecomesKeeps

\* More ballots do not take an election back.
LEMMA BallotsGrow ==
  ASSUME FailoverInv, ballots \subseteq ballots', IsFiniteSet(ballots'), won' = won
  PROVE  WonByQuorum'
<1>1. ASSUME NEW w \in won
      PROVE  /\ w \in Nat \X CNodes \X BOOLEAN \X Nat
             /\ w[3] \/ w[4] <= Cardinality(Ballots(w[1], w[2])')
  <2>1. /\ w \in Nat \X CNodes \X BOOLEAN \X Nat
        /\ w[3] \/ w[4] <= Cardinality(Ballots(w[1], w[2]))
    BY DEF FailoverInv, WonByQuorum
  <2>2. PICK S, T : S = Ballots(w[1], w[2]) /\ T = Ballots(w[1], w[2])'
    OBVIOUS
  <2>3. S \subseteq T /\ T \subseteq ballots'
    BY <2>2 DEF Ballots
  <2>4. IsFiniteSet(T)
    BY <2>3, FS_Subset
  <2>5. IsFiniteSet(S) /\ Cardinality(S) <= Cardinality(T)
    BY <2>3, <2>4, FS_Subset
  <2>6. Cardinality(S) \in Nat /\ Cardinality(T) \in Nat /\ w[4] \in Nat
    BY <2>1, <2>4, <2>5, FS_CardinalityType
  <2>7. w[4] <= Cardinality(S) => w[4] <= Cardinality(T)
    BY <2>5, <2>6
  <2>8. QED
    BY <2>1, <2>2, <2>7
<1>2. QED
  BY <1>1 DEF WonByQuorum

\* A request is answered with at most one vote in an epoch.
LEMMA VoteCast ==
  ASSUME NEW n \in CNodes, NEW from \in CNodes, NEW seen, NEW v, FailoverInv, TableOK(seen),
         seen.vote = view[n].vote, seen.vote # seen.cur, v.vote = seen.cur,
         view' = [view EXCEPT ![n] = v], ballots' = ballots \cup {<<n, seen.cur, from>>},
         forgot' = forgot
  PROVE  BallotsKnown' /\ MastersVoteOnce'
<1>1. BallotsKnown /\ MastersVoteOnce /\ view \in [CNodes -> Table]
  BY DEF FailoverInv
<1>2. PICK cur, vote, b1 : cur = seen.cur /\ vote = seen.vote /\ b1 = <<n, cur, from>>
  OBVIOUS
<1>3. cur \in Nat /\ vote \in Nat /\ vote < cur
  <2>1. cur \in Nat /\ vote \in Nat /\ vote <= cur
    BY <1>2, TableHas
  <2>2. QED
    BY <1>2, <2>1
<1>4. b1 \in CNodes \X Nat \X CNodes /\ b1[1] = n /\ b1[2] = cur /\ b1[3] = from
  BY <1>2, <1>3
<1>5. ballots' = ballots \cup {b1} /\ view'[n].vote = cur /\ view[n].vote = vote
  BY <1>1, <1>2
<1>6. ASSUME NEW b \in ballots, b[1] = n PROVE forgot \/ b[2] < cur
  <2>1. b \in CNodes \X Nat \X CNodes /\ (forgot \/ b[2] <= vote)
    BY <1>1, <1>5, <1>6 DEF BallotsKnown
  <2>2. b[2] \in Nat
    BY <2>1
  <2>3. QED
    BY <1>3, <2>1, <2>2
<1>7. ASSUME NEW b \in ballots'
      PROVE  b \in CNodes \X Nat \X CNodes /\ (forgot' \/ b[2] <= view'[b[1]].vote)
  <2>1. CASE b = b1
    <3>1. b[2] <= view'[b[1]].vote
      BY <1>3, <1>4, <1>5, <2>1
    <3>2. QED
      BY <1>4, <2>1, <3>1
  <2>2. CASE b \in ballots /\ b[1] = n
    <3>1. b \in CNodes \X Nat \X CNodes /\ b[2] \in Nat
      BY <1>1, <2>2 DEF BallotsKnown
    <3>2. forgot \/ b[2] <= cur
      BY <1>3, <1>6, <2>2, <3>1
    <3>3. QED
      BY <1>5, <2>2, <3>1, <3>2
  <2>3. CASE b \in ballots /\ b[1] # n
    <3>1. b \in CNodes \X Nat \X CNodes /\ (forgot \/ b[2] <= view[b[1]].vote)
      BY <1>1, <2>3 DEF BallotsKnown
    <3>2. b[1] \in CNodes
      BY <3>1
    <3>3. view'[b[1]] = view[b[1]]
      BY <1>1, <2>3, <3>2
    <3>4. QED
      BY <3>1, <3>3
  <2>4. QED
    BY <1>5, <2>1, <2>2, <2>3
<1>8. IsFiniteSet(ballots')
  BY <1>1, <1>5, FS_AddElement DEF BallotsKnown
<1>9. BallotsKnown'
  BY <1>7, <1>8 DEF BallotsKnown
<1>10. ASSUME NEW a \in ballots', NEW b \in ballots', a[1] = b[1], a[2] = b[2], ~forgot
       PROVE  a[3] = b[3]
  <2>1. CASE a = b1 /\ b = b1
    BY <2>1
  <2>2. CASE a \in ballots /\ b \in ballots
    BY <1>1, <1>10, <2>2 DEF MastersVoteOnce
  <2>3. CASE a = b1 /\ b \in ballots
    <3>1. b[1] = n /\ b[2] = cur
      BY <1>4, <1>10, <2>3
    <3>2. b[2] < cur
      BY <1>6, <1>10, <2>3, <3>1
    <3>3. QED
      BY <1>3, <3>1, <3>2
  <2>4. CASE b = b1 /\ a \in ballots
    <3>1. a[1] = n /\ a[2] = cur
      BY <1>4, <1>10, <2>4
    <3>2. a[2] < cur
      BY <1>6, <1>10, <2>4, <3>1
    <3>3. QED
      BY <1>3, <3>1, <3>2
  <2>5. QED
    BY <1>5, <2>1, <2>2, <2>3, <2>4
<1>11. MastersVoteOnce'
  BY <1>10 DEF MastersVoteOnce
<1>12. QED
  BY <1>9, <1>11

\* A request for a vote is processed.
LEMMA ReceiveRequestKeeps ==
  ASSUME NEW p \in packets, FailoverInv, ReceiveRequest(p)
  PROVE  FailoverInv'
<1>1. PICK n, h : n = p.to /\ h = p.hdr
  OBVIOUS
<1>2. PacketOK(p) /\ \A q \in packets : PacketOK(q)
  BY DEF FailoverInv
<1>3. n \in CNodes /\ HdrOK(h) /\ h.from \in CNodes
  BY <1>1, <1>2 DEF PacketOK, HdrOK, Hdr
<1>4. TableOK(view[n]) /\ TableOK(disk[n])
  BY <1>3 DEF FailoverInv, TablesOK
<1>5. PICK seen : seen = SeenEpochs(view[n], h)
  OBVIOUS
<1>6. TableOK(seen) /\ seen.vote = view[n].vote
  BY <1>3, <1>4, <1>5, SeenKeeps
<1>7. CASE ~MayVote(seen, n, h)
  <2>1. Kept(view[n], seen)
    BY <1>6 DEF Kept
  <2>2. /\ packets' = packets \ {p} /\ ClusterBecomes(n, seen)
        /\ ballots' = ballots /\ won' = won /\ forgot' = forgot
    BY <1>1, <1>5, <1>7 DEF ReceiveRequest
  <2>3. \A q \in packets' : PacketOK(q)
    BY <1>2, <2>2
  <2>4. QED
    BY <1>3, <2>1, <2>2, <2>3, BecomesKeeps
<1>8. CASE MayVote(seen, n, h)
  <2>1. PICK v, ack : v = [seen EXCEPT !.vote = seen.cur]
                      /\ ack = Packet("ack", h.from, clusterBuildMessageHdr(n, seen))
    OBVIOUS
  <2>2. seen.vote # seen.cur
    BY <1>8 DEF MayVote
  <2>3. seen \in Table /\ seen.cur \in Nat /\ seen.aepoch <= seen.cur
    BY <1>6, TableHas DEF TableOK
  <2>4. v \in Table /\ v.of = seen.of /\ v.owner = seen.owner /\ v.epoch = seen.epoch
          /\ v.cur = seen.cur /\ v.vote = seen.cur /\ v.aepoch = seen.aepoch
    BY <2>1, <2>3 DEF Table
  <2>5. TableOK(v)
    <3>1. seen.cur <= v.cur /\ v.vote <= v.cur /\ v.aepoch <= v.cur
      BY <2>3, <2>4
    <3>2. QED
      BY <1>6, <2>4, <3>1, FieldsKeep
  <2>6. /\ packets' = (packets \ {p}) \cup {ack} /\ ClusterBecomes(n, v)
        /\ ballots' = ballots \cup {<<n, v.cur, h.from>>} /\ won' = won /\ forgot' = forgot
    BY <1>1, <1>5, <1>8, <2>1 DEF ReceiveRequest, clusterSendFailoverAuthIfNeeded
  <2>7. PICK from : from = h.from
    OBVIOUS
  <2>8. ballots' = ballots \cup {<<n, seen.cur, from>>} /\ from \in CNodes
    BY <1>3, <2>4, <2>6, <2>7
  <2>9. PICK d : d = SaveIfChanged(view[n], v, disk[n])
    OBVIOUS
  <2>10. TableOK(d)
    BY <1>4, <2>5, <2>9, SaveKeeps
  <2>11. view' = [view EXCEPT ![n] = v] /\ disk' = [disk EXCEPT ![n] = d]
    <3>1. disk \in [CNodes -> Table]
      BY DEF FailoverInv
    <3>2. QED
      BY <1>3, <2>6, <2>9, <3>1 DEF ClusterBecomes
  <2>12. view' \in [CNodes -> Table] /\ disk' \in [CNodes -> Table] /\ TablesOK'
    BY <1>3, <2>5, <2>10, <2>11, TablesKeep
  <2>13. BallotsKnown' /\ MastersVoteOnce'
    BY <1>3, <1>6, <2>2, <2>4, <2>6, <2>8, <2>11, VoteCast
  <2>14. WonByQuorum'
    <3>1. IsFiniteSet(ballots') /\ ballots \subseteq ballots'
      BY <2>8, <2>13 DEF BallotsKnown
    <3>2. QED
      BY <2>6, <3>1, BallotsGrow
  <2>15. PacketOK(ack)
    <3>1. PICK hdr : hdr = clusterBuildMessageHdr(n, seen)
      OBVIOUS
    <3>2. HdrOK(hdr)
      BY <1>3, <1>6, <3>1, HeaderRight
    <3>3. QED
      BY <1>3, <2>1, <3>1, <3>2, PacketRight
  <2>16. \A q \in packets' : PacketOK(q)
    BY <1>2, <2>6, <2>15
  <2>17. \A q \in packets' : (PacketOK(q))'
    BY <2>16 DEF PacketOK, HdrOK
  <2>18. forgot' \in BOOLEAN
    BY <2>6 DEF FailoverInv
  <2>19. QED
    BY <2>12, <2>13, <2>14, <2>17, <2>18 DEF FailoverInv
<1>9. QED
  BY <1>7, <1>8

\* A node pings another.
LEMMA PingKeeps ==
  ASSUME NEW n \in CNodes, FailoverInv, Ping(n)
  PROVE  FailoverInv'
<1>1. PICK m \in CNodes \ {n} :
         packets' = packets \cup {Packet("ping", m, clusterBuildMessageHdr(n, view[n]))}
  BY DEF Ping
<1>2. view' = view /\ disk' = disk /\ ballots' = ballots /\ won' = won /\ forgot' = forgot
  BY DEF Ping
<1>3. TableOK(view[n]) /\ view \in [CNodes -> Table] /\ disk \in [CNodes -> Table] /\ TableOK(disk[n])
  BY DEF FailoverInv, TablesOK
<1>4. PICK hdr, v, d : hdr = clusterBuildMessageHdr(n, view[n]) /\ v = view[n] /\ d = disk[n]
  OBVIOUS
<1>5. HdrOK(hdr)
  BY <1>3, <1>4, HeaderRight
<1>6. PacketOK(Packet("ping", m, hdr))
  BY <1>5, PacketRight
<1>7. \A q \in packets' : PacketOK(q)
  BY <1>1, <1>4, <1>6 DEF FailoverInv
<1>8. view' = [view EXCEPT ![n] = v] /\ disk' = [disk EXCEPT ![n] = d] /\ TableOK(d) /\ Kept(view[n], v)
  BY <1>2, <1>3, <1>4 DEF Kept
<1>9. QED
  BY <1>2, <1>7, <1>8, HandlerKeeps

\* A node hears of a failure.
LEMMA FailsKeeps ==
  ASSUME NEW n \in CNodes, FailoverInv, Fails(n)
  PROVE  FailoverInv'
<1>1. PICK m \in Failing \ view[n].failed :
         packets' = packets /\ ClusterBecomes(n, [view[n] EXCEPT !.failed = @ \cup {m}])
  BY DEF Fails
<1>2. ballots' = ballots /\ won' = won /\ forgot' = forgot
  BY DEF Fails
<1>3. TableOK(view[n]) /\ \A q \in packets : PacketOK(q)
  BY DEF FailoverInv, TablesOK
<1>4. PICK u, failed, v : /\ u = view[n] /\ failed = u.failed \cup {m}
                          /\ v = [u EXCEPT !.failed = failed]
  OBVIOUS
<1>5. u \in Table /\ failed \in SUBSET CNodes /\ u.cur \in Nat /\ u.vote <= u.cur /\ u.aepoch <= u.cur
  <2>1. m \in CNodes
    BY FailoverAssumption
  <2>2. QED
    BY <1>3, <1>4, <2>1, TableHas DEF TableOK
<1>6. v \in Table /\ v.of = u.of /\ v.owner = u.owner /\ v.epoch = u.epoch
        /\ v.cur = u.cur /\ v.vote = u.vote /\ v.aepoch = u.aepoch
  BY <1>4, <1>5 DEF Table
<1>7. u.cur <= v.cur /\ v.vote <= v.cur /\ v.aepoch <= v.cur
  BY <1>5, <1>6
<1>8. Kept(view[n], v)
  BY <1>3, <1>4, <1>6, <1>7, FieldsKeep DEF Kept
<1>9. ClusterBecomes(n, v) /\ \A q \in packets' : PacketOK(q)
  BY <1>1, <1>3, <1>4
<1>10. QED
  BY <1>2, <1>8, <1>9, BecomesKeeps

\* A slave schedules an election.
LEMMA ScheduleKeeps ==
  ASSUME NEW n \in CNodes, FailoverInv, Schedule(n)
  PROVE  FailoverInv'
<1>1. /\ view' = [view EXCEPT ![n].state = "delay", ![n].count = 0]
      /\ disk' = disk /\ packets' = packets /\ ballots' = ballots /\ won' = won /\ forgot' = forgot
  BY DEF Schedule
<1>2. /\ TableOK(view[n]) /\ TableOK(disk[n]) /\ \A q \in packets : PacketOK(q)
      /\ view \in [CNodes -> Table] /\ disk \in [CNodes -> Table]
  BY DEF FailoverInv, TablesOK
<1>3. PICK u, d, v : u = view[n] /\ d = disk[n] /\ v = [u EXCEPT !.state = "delay", !.count = 0]
  OBVIOUS
<1>4. u \in Table /\ u.cur \in Nat /\ u.vote <= u.cur /\ u.aepoch <= u.cur
  BY <1>2, <1>3, TableHas DEF TableOK
<1>5. v \in Table /\ v.of = u.of /\ v.owner = u.owner /\ v.epoch = u.epoch
        /\ v.cur = u.cur /\ v.vote = u.vote /\ v.aepoch = u.aepoch
  BY <1>3, <1>4 DEF Table
<1>6. u.cur <= v.cur /\ v.vote <= v.cur /\ v.aepoch <= v.cur
  BY <1>4, <1>5
<1>7. Kept(view[n], v)
  <2>1. TableOK(u)
    BY <1>2, <1>3
  <2>2. TableOK(v)
    BY <1>5, <1>6, <2>1, FieldsKeep
  <2>3. QED
    BY <1>3, <1>5, <2>2 DEF Kept
<1>8. view' = [view EXCEPT ![n] = v] /\ disk' = [disk EXCEPT ![n] = d] /\ TableOK(d)
  BY <1>1, <1>2, <1>3
<1>9. \A q \in packets' : PacketOK(q)
  BY <1>1, <1>2
<1>10. QED
  BY <1>1, <1>7, <1>8, <1>9, HandlerKeeps

\* A slave asks for votes in a new epoch.
LEMMA RequestKeeps ==
  ASSUME NEW n \in CNodes, FailoverInv, Request(n)
  PROVE  FailoverInv'
<1>1. TableOK(view[n])
  BY DEF FailoverInv, TablesOK
<1>2. PICK u, c, v : /\ u = view[n] /\ c = u.cur + 1
                     /\ v = [u EXCEPT !.cur = c, !.aepoch = c, !.state = "sent"]
  OBVIOUS
<1>3. /\ view' = [view EXCEPT ![n] = v] /\ disk' = [disk EXCEPT ![n] = v]
      /\ clusterBroadcastMessage("request", n, v)
      /\ ballots' = ballots /\ won' = won /\ forgot' = forgot
  BY <1>2 DEF Request
<1>4. u \in Table /\ u.cur \in Nat /\ u.vote <= u.cur /\ u.vote \in Nat /\ c \in Nat /\ u.cur <= c /\ u.vote <= c
  <2>1. u \in Table /\ u.cur \in Nat /\ u.vote <= u.cur /\ u.vote \in Nat
    BY <1>1, <1>2, TableHas DEF TableOK
  <2>2. QED
    BY <1>2, <2>1
<1>5. v \in Table /\ v.of = u.of /\ v.owner = u.owner /\ v.epoch = u.epoch
        /\ v.cur = c /\ v.vote = u.vote /\ v.aepoch = c
  BY <1>2, <1>4 DEF Table
<1>6. u.cur <= v.cur /\ v.vote <= v.cur /\ v.aepoch <= v.cur
  BY <1>4, <1>5
<1>7. Kept(view[n], v) /\ TableOK(v)
  BY <1>1, <1>2, <1>5, <1>6, FieldsKeep DEF Kept
<1>8. \A q \in packets' : PacketOK(q)
  BY <1>3, <1>7, BroadcastKeeps
<1>9. QED
  BY <1>3, <1>7, <1>8, HandlerKeeps

\* TAKEOVER.
LEMMA TakeoverKeeps ==
  ASSUME NEW n \in CNodes, FailoverInv, Takeover(n)
  PROVE  FailoverInv'
<1>1. TableOK(view[n])
  BY DEF FailoverInv, TablesOK
<1>2. PICK u, b, v : /\ u = view[n] /\ b = clusterBumpConfigEpochWithoutConsensus(u, n)
                     /\ v = clusterFailoverReplaceYourMaster(b, n)
  OBVIOUS
<1>3. /\ view' = [view EXCEPT ![n] = v] /\ disk' = [disk EXCEPT ![n] = v]
      /\ clusterBroadcastMessage("ping", n, v)
      /\ ballots' = ballots /\ won' = won /\ forgot' = forgot
  BY <1>2 DEF Takeover
<1>4. Reassigned(u, b)
  BY <1>1, <1>2, BumpKeeps
<1>5. TableOK(b) /\ b.vote = u.vote
  BY <1>4 DEF Reassigned
<1>6. Kept(b, v)
  BY <1>2, <1>5, ReplaceKeeps
<1>7. Kept(view[n], v) /\ TableOK(v)
  BY <1>2, <1>5, <1>6 DEF Kept
<1>8. \A q \in packets' : PacketOK(q)
  BY <1>3, <1>7, BroadcastKeeps
<1>9. QED
  BY <1>3, <1>7, <1>8, HandlerKeeps

\* The size of a quorum is a number.
LEMMA QuorumIsNat ==
  ASSUME NEW v
  PROVE  ClusterMajority(v) \in Nat
<1>1. PICK S : S = {n \in CNodes : IsMaster(v, n) /\ SlotsOf(v, n) # {}}
  OBVIOUS
<1>2. IsFiniteSet(S)
  BY <1>1, FailoverAssumption, FS_Subset
<1>3. PICK c : c = Cardinality(S)
  OBVIOUS
<1>4. c \in Nat
  BY <1>2, <1>3, FS_CardinalityType
<1>5. c \div 2 + 1 \in Nat
  BY <1>4
<1>6. QED
  BY <1>1, <1>3, <1>5 DEF ClusterMajority

\* A slave wins an election.
LEMMA WinKeeps ==
  ASSUME NEW n \in CNodes, FailoverInv, Win(n)
  PROVE  FailoverInv'
<1>1. TableOK(view[n]) /\ WonByQuorum /\ BallotsKnown /\ forgot \in BOOLEAN
  BY DEF FailoverInv, TablesOK
<1>2. PICK u, e, q : u = view[n] /\ e = u.aepoch /\ q = ClusterMajority(u)
  OBVIOUS
<1>3. PICK w, v : w = [u EXCEPT !.epoch[n] = Bigger(@, e)] /\ v = clusterFailoverReplaceYourMaster(w, n)
  OBVIOUS
<1>4. PICK stale \in BOOLEAN :
         stale = ((\E x \in won : x[1] = e /\ x[2] = n) \/ Cardinality(Ballots(e, n)) < u.count)
  OBVIOUS
<1>5. /\ view' = [view EXCEPT ![n] = v] /\ disk' = [disk EXCEPT ![n] = v]
      /\ clusterBroadcastMessage("ping", n, v) /\ won' = won \cup {<<e, n, stale, q>>}
      /\ ballots' = ballots /\ forgot' = forgot /\ u.count >= q
  BY <1>2, <1>3, <1>4 DEF Win
<1>6. u.cur \in Nat /\ e \in Nat /\ e <= u.cur /\ u.count \in Nat /\ u.epoch[n] \in Nat /\ u.epoch[n] <= u.cur
        /\ u \in Table
  BY <1>1, <1>2, TableHas DEF TableOK
<1>7. PICK c, x : c = u.cur /\ x = Bigger(u.epoch[n], e)
  OBVIOUS
<1>8. c \in Nat /\ x \in Nat /\ x <= c /\ u.cur <= c
  BY <1>6, <1>7 DEF Bigger
<1>9. w = WithEpoch(u, n, c, x)
  <2>1. [u EXCEPT !.cur = u.cur] = u
    BY <1>6 DEF Table
  <2>2. WithEpoch(u, n, c, x) = [[u EXCEPT !.cur = u.cur] EXCEPT !.epoch[n] = x]
    BY <1>7 DEF WithEpoch
  <2>3. w = [u EXCEPT !.epoch[n] = x]
    BY <1>3, <1>7
  <2>4. QED
    BY <2>1, <2>2, <2>3
<1>10. Reassigned(u, w)
  BY <1>1, <1>2, <1>8, <1>9, EpochKeeps
<1>11. TableOK(w) /\ w.vote = u.vote
  BY <1>10 DEF Reassigned
<1>12. Kept(w, v)
  BY <1>3, <1>11, ReplaceKeeps
<1>13. TableOK(v) /\ v.vote = view[n].vote
  BY <1>2, <1>11, <1>12 DEF Kept
<1>14. view' \in [CNodes -> Table] /\ disk' \in [CNodes -> Table] /\ TablesOK'
  BY <1>5, <1>13, TablesKeep
<1>15. BallotsKnown' /\ MastersVoteOnce'
  BY <1>5, <1>13, VotesKeep
<1>16. \A p \in packets' : PacketOK(p)
  BY <1>5, <1>13, BroadcastKeeps
<1>17. \A p \in packets' : (PacketOK(p))'
  BY <1>16 DEF PacketOK, HdrOK
<1>18. WonByQuorum'
  <2>1. PICK B, t : B = Ballots(e, n) /\ t = <<e, n, stale, q>>
    OBVIOUS
  <2>2. B \subseteq ballots /\ IsFiniteSet(ballots)
    BY <1>1, <2>1 DEF Ballots, BallotsKnown
  <2>3. Cardinality(B) \in Nat
    BY <2>2, FS_Subset, FS_CardinalityType
  <2>4. q \in Nat
    BY <1>2, QuorumIsNat
  <2>5. stale \/ q <= Cardinality(B)
    <3>1. stale \/ ~(Cardinality(B) < u.count)
      BY <1>4, <2>1
    <3>2. QED
      BY <1>5, <1>6, <2>3, <2>4, <3>1
  <2>6. t \in Nat \X CNodes \X BOOLEAN \X Nat /\ t[1] = e /\ t[2] = n /\ t[3] = stale /\ t[4] = q
    BY <1>4, <1>6, <2>1, <2>4
  <2>7. ASSUME NEW y \in won' PROVE /\ y \in Nat \X CNodes \X BOOLEAN \X Nat
                                    /\ y[3] \/ y[4] <= Cardinality(Ballots(y[1], y[2])')
    <3>1. \A i, j : Ballots(i, j)' = Ballots(i, j)
      BY <1>5 DEF Ballots
    <3>2. CASE y = t
      BY <2>1, <2>5, <2>6, <3>1, <3>2
    <3>3. CASE y \in won
      BY <1>1, <3>1, <3>3 DEF WonByQuorum
    <3>4. QED
      BY <1>5, <2>1, <3>2, <3>3
  <2>8. QED
    BY <2>7 DEF WonByQuorum
<1>19. QED
  BY <1>1, <1>5, <1>14, <1>15, <1>17, <1>18 DEF FailoverInv

\* A node restarts from its file.
LEMMA RestartKeeps ==
  ASSUME NEW n \in CNodes, FailoverInv, NodeRestart(n)
  PROVE  FailoverInv'
<1>1. /\ view' = [view EXCEPT ![n] = clusterLoadConfig(disk[n])]
      /\ forgot' = (forgot \/ disk[n].vote # view[n].vote)
      /\ disk' = disk /\ packets' = packets /\ ballots' = ballots /\ won' = won
  BY DEF NodeRestart
<1>2. /\ TableOK(disk[n]) /\ \A q \in packets : PacketOK(q)
      /\ disk \in [CNodes -> Table] /\ forgot \in BOOLEAN /\ BallotsKnown /\ MastersVoteOnce
  BY DEF FailoverInv, TablesOK
<1>3. PICK d, v : d = disk[n] /\ v = clusterLoadConfig(d)
  OBVIOUS
<1>4. Kept(d, v)
  BY <1>2, <1>3, LoadKeeps
<1>5. TableOK(v) /\ v.vote = d.vote
  BY <1>4 DEF Kept
<1>6. view' = [view EXCEPT ![n] = v] /\ disk' = [disk EXCEPT ![n] = d] /\ TableOK(d)
  BY <1>1, <1>2, <1>3
<1>7. view' \in [CNodes -> Table] /\ disk' \in [CNodes -> Table] /\ TablesOK'
  BY <1>5, <1>6, TablesKeep
<1>8. BallotsKnown' /\ MastersVoteOnce'
  <2>1. CASE forgot'
    <3>1. BallotsKnown'
      BY <1>1, <1>2, <2>1 DEF BallotsKnown
    <3>2. MastersVoteOnce'
      BY <2>1 DEF MastersVoteOnce
    <3>3. QED
      BY <3>1, <3>2
  <2>2. CASE ~forgot'
    <3>1. forgot' = forgot /\ v.vote = view[n].vote
      BY <1>1, <1>2, <1>3, <1>5, <2>2
    <3>2. QED
      BY <1>1, <1>6, <3>1, VotesKeep
  <2>3. QED
    BY <2>1, <2>2
<1>9. WonByQuorum'
  BY <1>1, WonKeeps
<1>10. \A q \in packets' : (PacketOK(q))'
  BY <1>1, <1>2 DEF PacketOK, HdrOK
<1>11. forgot' \in BOOLEAN
  BY <1>1
<1>12. QED
  BY <1>7, <1>8, <1>9, <1>10, <1>11 DEF FailoverInv

\* The first table of a node.
LEMMA FirstRight ==
  ASSUME NEW n \in CNodes
  PROVE  TableOK(FirstView(n))
<1>1. PICK c : c = Highest(CNodes)
  OBVIOUS
<1>2. c \in Nat /\ \A m \in CNodes : m <= c
  <2>1. PICK b \in CNodes : \A m \in CNodes : m <= b
    BY FailoverAssumption
  <2>2. Highest(CNodes) = b
    BY <2>1, NodesNamed, HighestIs
  <2>3. QED
    BY <1>1, <2>1, <2>2, NodesNamed
<1>3. PICK epoch : epoch = [m \in CNodes |-> IF FirstMaster[m] = None THEN m
                                             ELSE IF m = n THEN 0 ELSE FirstMaster[m]]
  OBVIOUS
<1>4. ASSUME NEW m \in CNodes PROVE epoch[m] \in Nat /\ epoch[m] <= c
  <2>1. FirstMaster[m] \in CNodes \cup {None}
    BY FailoverAssumption
  <2>2. CASE FirstMaster[m] = None
    BY <1>2, <1>3, <2>2, NodesNamed
  <2>3. CASE FirstMaster[m] # None /\ m = n
    BY <1>2, <1>3, <2>3
  <2>4. CASE FirstMaster[m] # None /\ m # n
    <3>1. epoch[m] = FirstMaster[m] /\ FirstMaster[m] \in CNodes
      BY <1>3, <2>1, <2>4
    <3>2. QED
      BY <1>2, <3>1, NodesNamed
  <2>5. QED
    BY <2>2, <2>3, <2>4
<1>5. PICK v : v = FirstView(n)
  OBVIOUS
<1>6. v = [cur |-> c, vote |-> 0, of |-> FirstMaster, epoch |-> epoch, owner |-> FirstOwner,
           failed |-> FirstFailed \ {n}, state |-> "none", aepoch |-> 0, count |-> 0]
  BY <1>1, <1>3, <1>5 DEF FirstView
<1>7. epoch \in [CNodes -> Nat]
  BY <1>3, <1>4
<1>8. FirstOwner \in [CSlots -> CNodes \cup {None}]
        /\ \A s \in CSlots : FirstOwner[s] # None => FirstMaster[FirstOwner[s]] = None
  BY FailoverAssumption
<1>9. v \in Table
  BY <1>2, <1>6, <1>7, <1>8, FailoverAssumption DEF Table
<1>10. EpochsBelow(v)
  BY <1>2, <1>4, <1>6 DEF EpochsBelow
<1>11. MastersOwn(v)
  BY <1>6, <1>8 DEF MastersOwn
<1>12. QED
  BY <1>5, <1>9, <1>10, <1>11 DEF TableOK

LEMMA FailoverStarts ==
  ASSUME FailoverInit
  PROVE  FailoverInv
<1>1. /\ view = [n \in CNodes |-> FirstView(n)] /\ disk = view
      /\ packets = {} /\ ballots = {} /\ won = {} /\ forgot = FALSE
  BY DEF FailoverInit
<1>2. ASSUME NEW n \in CNodes PROVE FirstView(n) \in Table /\ TableOK(FirstView(n))
  BY FirstRight DEF TableOK
<1>3. view \in [CNodes -> Table] /\ disk \in [CNodes -> Table]
  BY <1>1, <1>2
<1>4. TablesOK
  BY <1>1, <1>2 DEF TablesOK
<1>5. BallotsKnown /\ MastersVoteOnce /\ WonByQuorum
  BY <1>1, FS_EmptySet DEF BallotsKnown, MastersVoteOnce, WonByQuorum
<1>6. QED
  BY <1>1, <1>3, <1>4, <1>5 DEF FailoverInv

LEMMA FailoverStutters ==
  ASSUME FailoverInv, UNCHANGED failoverVars
  PROVE  FailoverInv'
<1>1. UNCHANGED <<view, disk, packets, ballots, won, forgot>>
  BY DEF failoverVars
<1>2. TablesOK' /\ view' \in [CNodes -> Table] /\ disk' \in [CNodes -> Table] /\ forgot' \in BOOLEAN
  BY <1>1 DEF FailoverInv, TablesOK
<1>3. \A p \in packets' : (PacketOK(p))'
  BY <1>1 DEF FailoverInv
<1>4. BallotsKnown' /\ MastersVoteOnce' /\ WonByQuorum'
  BY <1>1, WonKeeps DEF FailoverInv, BallotsKnown, MastersVoteOnce
<1>5. QED
  BY <1>2, <1>3, <1>4 DEF FailoverInv

\* The invariant is inductive.
THEOREM FailoverInvariant == FailoverSpec => []FailoverInv
<1>1. FailoverInit => FailoverInv
  BY FailoverStarts
<1>2. FailoverInv /\ [FailoverNext]_failoverVars => FailoverInv'
  <2>1. SUFFICES ASSUME FailoverInv, [FailoverNext]_failoverVars PROVE FailoverInv'
    OBVIOUS
  <2>2. ASSUME NEW p \in packets,
               ReceivePing(p) \/ ReceiveUpdate(p) \/ ReceiveRequest(p) \/ ReceiveAck(p)
        PROVE  FailoverInv'
    BY <2>1, <2>2, ReceivePingKeeps, ReceiveUpdateKeeps, ReceiveRequestKeeps, ReceiveAckKeeps
  <2>3. ASSUME NEW n \in CNodes,
               Ping(n) \/ Fails(n) \/ Schedule(n) \/ Request(n) \/ Win(n) \/ Takeover(n) \/ NodeRestart(n)
        PROVE  FailoverInv'
    BY <2>1, <2>3, PingKeeps, FailsKeeps, ScheduleKeeps, RequestKeeps, WinKeeps, TakeoverKeeps, RestartKeeps
  <2>4. CASE UNCHANGED failoverVars
    BY <2>1, <2>4, FailoverStutters
  <2>5. QED
    BY <2>1, <2>2, <2>3, <2>4 DEF FailoverNext, Receive
<1>3. QED
  BY <1>1, <1>2, PTL DEF FailoverSpec

-------------------------------------------------------------------------------
(* What the invariant means.                                               *)

\* As many masters voted in an epoch as votes were cast.
LEMMA VotersCount ==
  ASSUME NEW e, FailoverInv, ~forgot
  PROVE  /\ IsFiniteSet({t \in ballots : t[2] = e})
         /\ Cardinality({b[1] : b \in {t \in ballots : t[2] = e}}) = Cardinality({t \in ballots : t[2] = e})
<1>1. PICK B, V, f : /\ B = {t \in ballots : t[2] = e} /\ V = {b[1] : b \in B}
                     /\ f = [b \in B |-> b[1]]
  OBVIOUS
<1>2. BallotsKnown /\ MastersVoteOnce
  BY DEF FailoverInv
<1>3. IsFiniteSet(B)
  <2>1. B \subseteq ballots /\ IsFiniteSet(ballots)
    BY <1>1, <1>2 DEF BallotsKnown
  <2>2. QED
    BY <2>1, FS_Subset
<1>4. ASSUME NEW a \in B, NEW b \in B, a[1] = b[1] PROVE a = b
  <2>1. a \in CNodes \X Nat \X CNodes /\ b \in CNodes \X Nat \X CNodes
    BY <1>1, <1>2 DEF BallotsKnown
  <2>2. a[2] = b[2]
    BY <1>1
  <2>3. a[3] = b[3]
    BY <1>1, <1>2, <1>4, <2>2 DEF MastersVoteOnce
  <2>4. QED
    BY <1>4, <2>1, <2>2, <2>3
<1>5. f \in [B -> V]
  BY <1>1
<1>6. f \in Injection(B, V)
  BY <1>1, <1>4, <1>5 DEF Injection, IsInjective
<1>7. f \in Surjection(B, V)
  BY <1>1, <1>5 DEF Surjection
<1>8. Cardinality(V) = Cardinality(B)
  BY <1>3, <1>6, <1>7, FS_Surjection
<1>9. QED
  BY <1>1, <1>3, <1>8

\* Two winners of one epoch had two quorums.
LEMMA InvImpliesQuorumsApart ==
  ASSUME FailoverInv
  PROVE  QuorumsApart
<1>1. SUFFICES ASSUME NEW w \in won, NEW x \in won,
                      w[1] = x[1], w[2] # x[2], ~w[3], ~x[3], ~forgot
               PROVE  w[4] + x[4] <= Cardinality({b[1] : b \in {t \in ballots : t[2] = w[1]}})
  BY DEF QuorumsApart
<1>2. PICK e, B, S, T : /\ e = w[1] /\ B = {t \in ballots : t[2] = e}
                        /\ S = Ballots(e, w[2]) /\ T = Ballots(e, x[2])
  OBVIOUS
<1>3. IsFiniteSet(B) /\ Cardinality({b[1] : b \in {t \in ballots : t[2] = e}}) = Cardinality(B)
  BY <1>1, <1>2, VotersCount
<1>4. S \subseteq B /\ T \subseteq B /\ S \cap T = {} /\ S \cup T \subseteq B
  BY <1>1, <1>2 DEF Ballots
<1>5. IsFiniteSet(S) /\ IsFiniteSet(T)
  BY <1>3, <1>4, FS_Subset
<1>6. PICK s, t, u, c : s = Cardinality(S) /\ t = Cardinality(T) /\ u = Cardinality(S \cup T)
                        /\ c = Cardinality(B)
  OBVIOUS
<1>7. s \in Nat /\ t \in Nat /\ c \in Nat
  BY <1>3, <1>5, <1>6, FS_CardinalityType
<1>8. u = s + t
  <2>1. Cardinality(S \cup T) = Cardinality(S) + Cardinality(T) - Cardinality(S \cap T)
    BY <1>5, FS_Union
  <2>2. Cardinality(S \cap T) = 0
    BY <1>4, FS_EmptySet
  <2>3. QED
    BY <1>6, <1>7, <2>1, <2>2
<1>9. u <= c
  BY <1>3, <1>4, <1>6, FS_Subset
<1>10. w[4] \in Nat /\ x[4] \in Nat /\ w[4] <= s /\ x[4] <= t
  <2>1. /\ w \in Nat \X CNodes \X BOOLEAN \X Nat /\ x \in Nat \X CNodes \X BOOLEAN \X Nat
        /\ w[3] \/ w[4] <= Cardinality(Ballots(w[1], w[2]))
        /\ x[3] \/ x[4] <= Cardinality(Ballots(x[1], x[2]))
    BY DEF FailoverInv, WonByQuorum
  <2>2. QED
    BY <1>1, <1>2, <1>6, <2>1
<1>11. w[4] + x[4] <= c
  BY <1>7, <1>8, <1>9, <1>10
<1>12. QED
  BY <1>2, <1>3, <1>6, <1>11

LEMMA InvImpliesEpochsSound ==
  ASSUME FailoverInv
  PROVE  EpochsSound
<1>1. DOMAIN view = CNodes
  BY DEF FailoverInv
<1>2. ASSUME NEW n \in CNodes, NEW m \in CNodes
      PROVE  view[n].epoch[m] <= view[n].cur /\ disk[n].epoch[m] <= disk[n].cur
  BY DEF FailoverInv, TablesOK, TableOK, EpochsBelow
<1>3. CurrentEpochHighest
  BY <1>1, <1>2 DEF CurrentEpochHighest
<1>4. MastersVoteOnce
  BY DEF FailoverInv
<1>5. QED
  BY <1>3, <1>4, InvImpliesQuorumsApart DEF EpochsSound

\* Whatever the size of the cluster, the requests and votes lost, late or
\* overtaken, and the restarts: a master votes for one slave in an epoch and
\* two winners of one epoch have two quorums of masters behind them, unless a
\* restart lost a vote or a vote of an earlier election was counted; and the
\* currentEpoch of a node (cluster.c) is never behind an epoch it knows.
THEOREM EpochsOrdered == FailoverSpec => []EpochsSound
BY FailoverInvariant, InvImpliesEpochsSound, PTL

-------------------------------------------------------------------------------
(* Claims.                                                                 *)

\* The slots a claim takes belong to the claimant afterwards.
LEMMA ClaimTakes ==
  ASSUME NEW v, NEW me \in CNodes, NEW n \in CNodes, NEW cfg, NEW slots,
         TableOK(v), IsMaster(v, n), n # me, NEW s \in CSlots, s \in Taken(v, n, cfg, slots)
  PROVE  clusterUpdateSlotsConfigWith(v, me, n, cfg, slots).owner[s] = n
<1>1. PICK b : b = Bind(v, n, Taken(v, n, cfg, slots))
  OBVIOUS
<1>2. n \in CNodes \cup {None} /\ v.of[n] = None
  BY DEF IsMaster
<1>3. TableOK(b) /\ b.owner[s] = n
  <2>1. PICK taken : taken = Taken(v, n, cfg, slots)
    OBVIOUS
  <2>2. /\ TableOK(b)
        /\ b.owner = [t \in CSlots |-> IF t \in taken THEN n ELSE v.owner[t]]
    <3>1. b = Bind(v, n, taken) /\ (n # None => v.of[n] = None)
      BY <1>1, <1>2, <2>1
    <3>2. Rearranged(v, b) /\ b.owner = [t \in CSlots |-> IF t \in taken THEN n ELSE v.owner[t]]
      BY <1>2, <3>1, BindKeeps
    <3>3. QED
      BY <3>2 DEF Rearranged
  <2>3. s \in taken
    BY <2>1
  <2>4. QED
    BY <2>2, <2>3
<1>4. b \in Table
  BY <1>3 DEF TableOK
<1>5. clusterSetMaster(b, me, n).owner = b.owner
  BY <1>4 DEF clusterSetMaster, Table
<1>6. clusterUpdateSlotsConfigWith(v, me, n, cfg, slots) \in {b, clusterSetMaster(b, me, n)}
  BY <1>1 DEF clusterUpdateSlotsConfigWith
<1>7. QED
  BY <1>3, <1>5, <1>6

\* A ping of a master that leaves the table as it is: every slot it names is the sender's, or
\* has an owner that is at least as new, and the sender is told if it is newer.
LEMMA SettledTakes ==
  ASSUME NEW v, NEW me \in CNodes, NEW h, NEW s, TableOK(v), HdrOK(h), h.from # me, h.of = None,
         Claims(v, me, h).v = v, s \in h.slots, v.owner[s] # h.from
  PROVE  /\ v.owner[s] # None /\ v.epoch[v.owner[s]] >= h.cfg
         /\ Claims(v, me, h).out = TellNewer(v, me, h, Newer(v, h))
<1>1. PICK seen : seen = SeenEpochs(v, h)
  OBVIOUS
<1>2. TableOK(seen) /\ seen.of = v.of /\ seen.owner = v.owner /\ v.cur <= seen.cur
  <2>1. v.cur \in Nat /\ h.cur \in Nat /\ v \in Table
    BY TableHas DEF HdrOK, Hdr, TableOK
  <2>2. seen.cur = Bigger(v.cur, h.cur)
    BY <1>1, <2>1 DEF SeenEpochs, Table
  <2>3. v.cur <= seen.cur
    BY <2>1, <2>2 DEF Bigger
  <2>4. QED
    BY <1>1, <2>3, SeenKeeps
<1>3. h.from \in CNodes /\ s \in CSlots /\ h.cfg \in Nat
  BY DEF HdrOK, Hdr
<1>4. PICK r : r = RoleSwitch(seen, h)
  OBVIOUS
<1>5. /\ TableOK(r) /\ r.cur = seen.cur /\ r.owner = v.owner
      /\ r.of = [seen.of EXCEPT ![h.from] = None]
  BY <1>2, <1>3, <1>4, MasterKeeps DEF RoleSwitch
<1>6. IsMaster(r, h.from)
  <2>1. seen.of \in [CNodes -> CNodes \cup {None}]
    BY <1>2, TableHas
  <2>2. QED
    BY <1>3, <1>5, <2>1 DEF IsMaster
<1>7. SlotsOf(r, h.from) # h.slots
  BY <1>5 DEF SlotsOf
<1>8. PICK b : b = clusterUpdateSlotsConfigWith(r, me, h.from, h.cfg, h.slots)
  OBVIOUS
<1>9. Claims(v, me, h) = Rebound(b, me, h, TRUE)
  BY <1>1, <1>4, <1>6, <1>7, <1>8 DEF Claims, ClaimsSeen, ClaimsIf
<1>10. TableOK(b) /\ b.cur = r.cur /\ b.epoch = r.epoch
  <2>1. PICK x, cfg, slots : x = h.from /\ cfg = h.cfg /\ slots = h.slots
    OBVIOUS
  <2>2. x \in CNodes /\ IsMaster(r, x) /\ b = clusterUpdateSlotsConfigWith(r, me, x, cfg, slots)
    BY <1>3, <1>6, <1>8, <2>1
  <2>3. Rearranged(r, b)
    BY <1>5, <2>2, ClaimKeeps
  <2>4. QED
    BY <2>3 DEF Rearranged
<1>11. b = v
  <2>1. clusterHandleConfigEpochCollision(b, me, h) = v
    <3>1. PICK c : c = clusterHandleConfigEpochCollision(b, me, h)
      OBVIOUS
    <3>2. Rebound(b, me, h, TRUE).v = c
      BY <3>1 DEF Rebound
    <3>3. QED
      BY <1>9, <3>1, <3>2
  <2>2. b \in Table /\ b.cur \in Nat /\ v.cur \in Nat /\ v.cur <= b.cur
    BY <1>2, <1>5, <1>10, TableHas DEF TableOK
  <2>3. PICK c : c = b.cur + 1
    OBVIOUS
  <2>4. CASE v = [b EXCEPT !.cur = c, !.epoch[me] = c]
    <3>1. v.cur = c
      BY <2>2, <2>4 DEF Table
    <3>2. QED
      BY <2>2, <2>3, <3>1
  <2>5. QED
    BY <2>1, <2>3, <2>4 DEF clusterHandleConfigEpochCollision
<1>12. s \notin Taken(r, h.from, h.cfg, h.slots)
  <2>1. SUFFICES ASSUME s \in Taken(r, h.from, h.cfg, h.slots) PROVE FALSE
    OBVIOUS
  <2>2. PICK n : n = h.from
    OBVIOUS
  <2>3. n \in CNodes /\ n # me /\ IsMaster(r, n) /\ s \in Taken(r, n, h.cfg, h.slots)
    BY <1>3, <1>6, <2>1, <2>2
  <2>4. clusterUpdateSlotsConfigWith(r, me, n, h.cfg, h.slots).owner[s] = n
    BY <1>3, <1>5, <2>3, ClaimTakes
  <2>5. clusterUpdateSlotsConfigWith(r, me, n, h.cfg, h.slots) = b
    BY <1>8, <2>2
  <2>6. b.owner[s] = n
    BY <2>4, <2>5
  <2>7. QED
    BY <1>11, <2>2, <2>6
<1>13. r.owner[s] # None /\ ~(r.epoch[r.owner[s]] < h.cfg)
  BY <1>5, <1>12 DEF Taken
<1>14. v.owner[s] \in CNodes /\ v.epoch[v.owner[s]] \in Nat
  BY <1>3, <1>5, <1>13, TableHas
<1>15. v.epoch[v.owner[s]] >= h.cfg
  <2>1. r.epoch = v.epoch
    BY <1>10, <1>11
  <2>2. ~(v.epoch[v.owner[s]] < h.cfg)
    BY <1>5, <1>13, <2>1
  <2>3. QED
    BY <1>3, <1>14, <2>2
<1>16. Claims(v, me, h).out = TellNewer(v, me, h, Newer(v, h))
  <2>1. Rebound(b, me, h, TRUE).out = TellNewer(b, me, h, Newer(b, h))
    BY DEF Rebound
  <2>2. QED
    BY <1>9, <1>11, <2>1
<1>17. v.owner[s] # None
  BY <1>5, <1>13
<1>18. QED
  BY <1>15, <1>16, <1>17, Zenon

\* The header of a master names its own slots and epoch.
LEMMA MasterHeader ==
  ASSUME NEW n \in CNodes, NEW v, IsMaster(v, n)
  PROVE  clusterBuildMessageHdr(n, v)
             = [from |-> n, cur |-> v.cur, cfg |-> v.epoch[n], slots |-> SlotsOf(v, n), of |-> None]
BY DEF clusterBuildMessageHdr, IsMaster

\* Two nodes with nothing left to tell each other: a slot that one of them serves and that the
\* other gives to somebody else has an owner with an epoch that is not older.
LEMMA SettledNewer ==
  ASSUME FailoverInv, NEW n \in CNodes, NEW m \in CNodes, NEW s, n # m, IsMaster(view[m], m),
         Settled(m, n), s \in SlotsOf(view[m], m), view[n].owner[s] # m
  PROVE  /\ view[n].owner[s] \in CNodes /\ view[n].epoch[view[n].owner[s]] >= view[m].epoch[m]
         /\ \A p \in TellNewer(view[n], n, clusterBuildMessageHdr(m, view[m]),
                               Newer(view[n], clusterBuildMessageHdr(m, view[m]))) :
               Updated(view[m], m, p) = view[m]
<1>1. PICK v, w, h : v = view[n] /\ w = view[m] /\ h = clusterBuildMessageHdr(m, w)
  OBVIOUS
<1>2. TableOK(v) /\ TableOK(w)
  BY <1>1 DEF FailoverInv, TablesOK
<1>3. HdrOK(h)
  BY <1>1, <1>2, HeaderRight
<1>4. h.from = m /\ h.of = None /\ h.cfg = w.epoch[m] /\ h.slots = SlotsOf(w, m)
  BY <1>1, MasterHeader
<1>5. Claims(v, n, h).v = v /\ \A p \in Claims(v, n, h).out : Updated(w, m, p) = w
  BY <1>1 DEF Settled
<1>6. s \in h.slots /\ v.owner[s] # h.from /\ h.from # n
  BY <1>1, <1>4
<1>7. /\ v.owner[s] # None /\ v.epoch[v.owner[s]] >= h.cfg
      /\ Claims(v, n, h).out = TellNewer(v, n, h, Newer(v, h))
  BY <1>2, <1>3, <1>4, <1>5, <1>6, SettledTakes
<1>8. s \in CSlots
  BY DEF SlotsOf
<1>9. v.owner[s] \in CNodes
  BY <1>2, <1>7, <1>8, TableHas
<1>10. view[n].epoch[view[n].owner[s]] >= view[m].epoch[m]
  BY <1>1, <1>4, <1>7
<1>11. \A p \in TellNewer(v, n, h, Newer(v, h)) : Updated(w, m, p) = w
  BY <1>5, <1>7
<1>12. QED
  BY <1>1, <1>9, <1>10, <1>11, Zenon

\* What node n has newer claims to is what node m claims and should not.
LEMMA NewerAreOutdated ==
  ASSUME FailoverInv, NEW n \in CNodes, NEW m \in CNodes, n # m, IsMaster(view[m], m),
         Settled(m, n)
  PROVE  Newer(view[n], clusterBuildMessageHdr(m, view[m])) = Outdated(n, m)
<1>1. PICK h : h = clusterBuildMessageHdr(m, view[m])
  OBVIOUS
<1>2. h.from = m /\ h.cfg = view[m].epoch[m] /\ h.slots = SlotsOf(view[m], m)
  BY <1>1, MasterHeader
<1>3. view[n].epoch \in [CNodes -> Nat] /\ view[m].epoch[m] \in Nat
  BY TableHas DEF FailoverInv, TablesOK
<1>4. ASSUME NEW s \in SlotsOf(view[m], m)
      PROVE  s \in Newer(view[n], h) <=> s \in Outdated(n, m)
  <2>1. PICK x : x = view[n].owner[s]
    OBVIOUS
  <2>2. CASE x = m
    BY <1>2, <2>1, <2>2 DEF Newer, Outdated
  <2>3. CASE x # m
    <3>1. x \in CNodes /\ view[n].epoch[x] >= view[m].epoch[m]
      BY <2>1, <2>3, SettledNewer
    <3>2. x # None /\ view[n].epoch[x] \in Nat
      BY <1>3, <3>1, NodesNamed
    <3>3. view[n].epoch[x] > view[m].epoch[m] <=> view[n].epoch[x] # view[m].epoch[m]
      BY <1>3, <3>1, <3>2
    <3>4. QED
      BY <1>2, <2>1, <2>3, <3>2, <3>3 DEF Newer, Outdated
  <2>4. QED
    BY <2>2, <2>3
<1>5. Newer(view[n], h) \subseteq SlotsOf(view[m], m) /\ Outdated(n, m) \subseteq SlotsOf(view[m], m)
  BY <1>2 DEF Newer, Outdated
<1>6. Newer(view[n], h) = Outdated(n, m)
  BY <1>4, <1>5
<1>7. QED
  BY <1>1, <1>6

LEMMA InvImpliesSettled ==
  ASSUME FailoverInv
  PROVE  SettledMeansAgreedUnlessKnown
<1>1. DOMAIN view = CNodes
  BY DEF FailoverInv
<1>2. SUFFICES ASSUME NEW m \in CNodes, NEW n \in CNodes, n # m, IsMaster(view[m], m),
                      Outdated(n, m) # {}, Settled(n, m), Settled(m, n)
               PROVE  /\ \A s \in Outdated(n, m) : view[n].owner[s] \notin {None, n}
                      /\ LET x == view[n].owner[Lowest(Outdated(n, m))]
                         IN  view[m].epoch[x] >= view[n].epoch[x]
  BY <1>1 DEF SettledMeansAgreedUnlessKnown
<1>3. /\ view[n].epoch \in [CNodes -> Nat] /\ view[m].epoch \in [CNodes -> Nat]
      /\ TableOK(view[n]) /\ TableOK(view[m])
  BY TableHas DEF FailoverInv, TablesOK
<1>4. ASSUME NEW s \in Outdated(n, m)
      PROVE  /\ s \in SlotsOf(view[m], m) /\ s \in CSlots /\ view[m].owner[s] = m
             /\ view[n].owner[s] # m /\ view[n].owner[s] \in CNodes
             /\ view[n].epoch[view[n].owner[s]] > view[m].epoch[m]
  <2>1. s \in SlotsOf(view[m], m) /\ view[n].owner[s] # m
    BY DEF Outdated
  <2>2. /\ view[n].owner[s] \in CNodes
        /\ view[n].epoch[view[n].owner[s]] >= view[m].epoch[m]
    BY <1>2, <2>1, SettledNewer
  <2>3. view[n].epoch[view[n].owner[s]] # view[m].epoch[m]
    BY <2>2, NodesNamed DEF Outdated
  <2>4. s \in CSlots /\ view[m].owner[s] = m
    BY <2>1 DEF SlotsOf
  <2>5. view[n].epoch[view[n].owner[s]] \in Nat /\ view[m].epoch[m] \in Nat
    BY <1>3, <2>2
  <2>6. PICK a, c : a = view[n].epoch[view[n].owner[s]] /\ c = view[m].epoch[m]
    OBVIOUS
  <2>7. a > c
    <3>1. a >= c /\ a # c /\ a \in Nat /\ c \in Nat
      BY <2>2, <2>3, <2>5, <2>6
    <3>2. QED
      BY <3>1
  <2>8. QED
    BY <2>1, <2>2, <2>4, <2>6, <2>7, Zenon
<1>5. ASSUME NEW s \in Outdated(n, m) PROVE view[n].owner[s] \notin {None, n}
  <2>1. SUFFICES ASSUME view[n].owner[s] = n PROVE FALSE
    BY <1>4, NodesNamed
  <2>2. s \in CSlots /\ view[m].owner[s] = m /\ view[n].epoch[n] > view[m].epoch[m]
    BY <1>4, <2>1
  <2>3. IsMaster(view[n], n) /\ s \in SlotsOf(view[n], n)
    <3>1. PICK u : u = view[n]
      OBVIOUS
    <3>2. TableOK(u) /\ u.owner[s] = n /\ n # None
      BY <1>3, <2>1, <3>1, NodesNamed
    <3>3. u.of[n] = None
      BY <2>2, <3>2, TableHas
    <3>4. QED
      BY <2>2, <3>1, <3>2, <3>3 DEF IsMaster, SlotsOf
  <2>4. view[m].epoch[view[m].owner[s]] >= view[n].epoch[n]
    BY <1>2, <2>2, <2>3, SettledNewer
  <2>5. view[n].epoch[n] \in Nat /\ view[m].epoch[m] \in Nat
    BY <1>3
  <2>6. QED
    BY <2>2, <2>4, <2>5
<1>6. PICK s : s = Lowest(Outdated(n, m))
  OBVIOUS
<1>7. s \in Outdated(n, m)
  <2>1. Outdated(n, m) \subseteq Nat
    BY <1>4, NodesNamed
  <2>2. QED
    BY <1>2, <1>6, <2>1, LowestIs
<1>8. PICK x, h, p : /\ x = view[n].owner[s] /\ h = clusterBuildMessageHdr(m, view[m])
                     /\ p = clusterSendUpdate(n, view[n], m, x)
  OBVIOUS
<1>9. x \in CNodes
  BY <1>4, <1>7, <1>8
<1>10. h.from = m /\ Newer(view[n], h) = Outdated(n, m)
  <2>1. h.from = m
    BY <1>2, <1>8, MasterHeader
  <2>2. Newer(view[n], h) = Outdated(n, m)
    BY <1>2, <1>8, NewerAreOutdated
  <2>3. QED
    BY <2>1, <2>2
<1>11. p \in TellNewer(view[n], n, h, Newer(view[n], h))
  <2>1. PICK newer : newer = Newer(view[n], h)
    OBVIOUS
  <2>2. newer # {} /\ s = Lowest(newer)
    BY <1>2, <1>6, <1>10, <2>1
  <2>3. p = clusterSendUpdate(n, view[n], h.from, view[n].owner[Lowest(newer)])
    BY <1>8, <1>10, <2>2
  <2>4. TellNewer(view[n], n, h, newer)
          = {clusterSendUpdate(n, view[n], h.from, view[n].owner[Lowest(newer)])}
    BY <2>2 DEF TellNewer
  <2>5. QED
    BY <2>1, <2>3, <2>4
<1>12. Updated(view[m], m, p) = view[m]
  BY <1>2, <1>4, <1>7, <1>8, <1>11, SettledNewer
<1>13. PacketOK(p)
  BY <1>3, <1>8, <1>9, UpdateSent
<1>14. p.type = "update" /\ p.about = x /\ p.epoch = view[n].epoch[x]
  BY <1>8 DEF clusterSendUpdate, Packet
<1>15. Updated(view[m], m, p).epoch[p.about] >= p.epoch
  BY <1>3, <1>13, <1>14, UpdatedKeeps
<1>16. view[m].epoch[x] >= view[n].epoch[x]
  BY <1>12, <1>14, <1>15
<1>17. QED
  BY <1>5, <1>6, <1>8, <1>16

\* Whatever elections, takeovers, lost or late packets and restarts came before, two nodes
\* that have nothing left to tell each other (clusterProcessPacket) agree about the slots one
\* of them serves, but for an owner whose epoch reached it in a packet without slots; and
\* only masters own slots in every table, as clusterSetMaster() asserts.
THEOREM TablesConverge == FailoverSpec => []SlotsConverge
<1>1. FailoverInv => SlotsConverge
  <2>1. SUFFICES ASSUME FailoverInv PROVE SlotsConverge
    OBVIOUS
  <2>2. SettledMeansAgreedUnlessKnown
    BY <2>1, InvImpliesSettled
  <2>3. OwnersAreMasters
    BY <2>1, TableHas DEF FailoverInv, TablesOK, OwnersAreMasters, IsMaster
  <2>4. QED
    BY <2>2, <2>3 DEF SlotsConverge
<1>2. QED
  BY <1>1, FailoverInvariant, PTL

=============================================================================
