---------------------------- MODULE ClusterFailover -----------------------------
(***************************************************************************)
(* Failover of a master by its slaves in Redis Cluster, redis-stable/src/  *)
(* cluster.c: elections and votes, the configuration epochs, the slot      *)
(* table every node keeps and how the claims in the headers of the packets *)
(* and in UPDATE packets change it, TAKEOVER and the resolution of         *)
(* colliding epochs, and the part of nodes.conf a restart brings back.     *)
(*                                                                         *)
(* view[n] is the table of node n.  Packets are lost, and overtake each    *)
(* other, because the pings of a node and its pongs use two connections.   *)
(* A slave that sees its master in FAIL state may take as long as it likes *)
(* for every step.  How FAIL states are agreed on, and slots imported and  *)
(* migrated, is not part of this module.                                   *)
(***************************************************************************)
EXTENDS Integers, Sequences, FiniteSets

CONSTANTS CNodes,        \* the nodes, numbered in the order of their names
          CSlots,        \* the slots
          FirstOwner,    \* the owner of each slot at the start
          FirstMaster,   \* the master of each node at the start, 0 for a master
          FirstFailed,   \* the masters in FAIL state at the start
          Failing,       \* the masters that may be marked as failing later
          Budgets        \* how many elections, restarts, takeovers, pings and failures
                         \* may happen, and how many packets be under way, in one run

VARIABLES view,     \* the cluster state of every node
          disk,     \* its nodes.conf
          packets,  \* the packets under way
          ballots,    \* history: <<voter, epoch, slave>>
          won,      \* history: elections won, <<epoch, slave, stale, needed_quorum>>
          forgot,   \* history: a restart lost a vote
          left      \* what is left of the budget of the run

failoverVars == <<view, disk, packets, ballots, won, forgot, left>>

None == 0

ASSUME FailoverAssumption ==
    /\ CNodes \subseteq Nat \ {None} /\ IsFiniteSet(CNodes)
    /\ \E n \in CNodes : \A m \in CNodes : m <= n
    /\ CSlots \subseteq Nat
    /\ FirstMaster \in [CNodes -> CNodes \cup {None}]
    /\ FirstOwner \in [CSlots -> {n \in CNodes : FirstMaster[n] = None} \cup {None}]
    /\ FirstFailed \subseteq CNodes /\ Failing \subseteq CNodes

Highest(S) == CHOOSE x \in S : \A y \in S : y <= x
Lowest(S) == CHOOSE x \in S : \A y \in S : x <= y
Bigger(a, b) == IF a > b THEN a ELSE b
IsMaster(v, n) == v.of[n] = None
SlotsOf(v, n) == {s \in CSlots : v.owner[s] = n}
ClusterMajority(v) == Cardinality({n \in CNodes : IsMaster(v, n) /\ SlotsOf(v, n) # {}}) \div 2 + 1

(* Every master has its own epoch, a slave is known by that of its master. *)
FirstView(n) ==
    [cur |-> Highest(CNodes), vote |-> 0, of |-> FirstMaster,
     epoch |-> [m \in CNodes |-> IF FirstMaster[m] = None THEN m ELSE IF m = n THEN 0 ELSE FirstMaster[m]],
     owner |-> FirstOwner, failed |-> FirstFailed \ {n}, state |-> "none", aepoch |-> 0, count |-> 0]

FailoverInit ==
    /\ view = [n \in CNodes |-> FirstView(n)] /\ disk = view
    /\ packets = {} /\ ballots = {} /\ won = {} /\ forgot = FALSE
    /\ \E b \in Budgets :
          left = [elections |-> b[1], restarts |-> b[2], takeovers |-> b[3], pings |-> b[4], failures |-> b[5],
                  packets |-> b[6]]

-------------------------------------------------------------------------------
(* Packets.  The header names the slots and the epoch of the node, or of   *)
(* its master when it is a slave.                                          *)
clusterBuildMessageHdr(n, v) ==
    LET master == IF v.of[n] = None THEN n ELSE v.of[n]
    IN  [from |-> n, cur |-> v.cur, cfg |-> v.epoch[master], slots |-> SlotsOf(v, master), of |-> v.of[n]]

Packet(type, to, hdr) == [type |-> type, to |-> to, hdr |-> hdr, about |-> None, epoch |-> 0, slots |-> {}]

(* A broadcast reaches any of the other nodes.                             *)
clusterBroadcastMessage(type, n, v) ==
    \E R \in SUBSET (CNodes \ {n}) :
       /\ packets' = packets \cup {Packet(type, m, clusterBuildMessageHdr(n, v)) : m \in R}
       /\ Cardinality(packets') <= left.packets

clusterSendUpdate(n, v, to, about) ==
    [Packet("update", to, clusterBuildMessageHdr(n, v)) EXCEPT
        !.about = about, !.epoch = v.epoch[about], !.slots = SlotsOf(v, about)]

(* The configuration is saved when the nodes or the slots change; a new    *)
(* currentEpoch or lastVoteEpoch alone is not saved.                       *)
SaveIfChanged(old, v, saved) ==
    IF <<old.of, old.epoch, old.owner, old.failed>> # <<v.of, v.epoch, v.owner, v.failed>> THEN v ELSE saved

clusterGetMaxEpoch(v) == Highest({v.epoch[m] : m \in CNodes} \cup {v.cur})

(* Nothing of an election survives a restart.                              *)
clusterLoadConfig(d) ==
    [d EXCEPT !.cur = clusterGetMaxEpoch(d), !.state = "none", !.aepoch = 0, !.count = 0]

-------------------------------------------------------------------------------
(* Tables.                                                                 *)
clusterSetNodeAsMaster(v, n) == [v EXCEPT !.of[n] = None]

clusterSetMaster(v, me, n) == [v EXCEPT !.of[me] = n]

(* The slots of a claim that change hands.                                 *)
Taken(v, n, cfg, slots) ==
    {s \in slots : v.owner[s] # n /\ (v.owner[s] = None \/ v.epoch[v.owner[s]] < cfg)}

Bind(v, n, slots) == [v EXCEPT !.owner = [s \in CSlots |-> IF s \in slots THEN n ELSE @[s]]]

LeftWithout(v, me, n, cfg, slots) ==
    LET curmaster == IF IsMaster(v, me) THEN me ELSE v.of[me]
        taken == Taken(v, n, cfg, slots)
    IN  taken \cap SlotsOf(v, curmaster) # {} /\ SlotsOf(v, curmaster) \subseteq taken

clusterUpdateSlotsConfigWith(v, me, n, cfg, slots) ==
    LET bound == Bind(v, n, Taken(v, n, cfg, slots))
    IN  IF n = me THEN v
        ELSE IF LeftWithout(v, me, n, cfg, slots) THEN clusterSetMaster(bound, me, n)
        ELSE bound

\* Mutant: the currentEpoch of the sender is not taken over.
SeenConfigOnly(v, h) == [v EXCEPT !.epoch[h.from] = Bigger(@, h.cfg)]

(* The part of every packet of a known node.                               *)
SeenEpochs(v, h) ==
    [v EXCEPT !.cur = Bigger(@, h.cur), !.epoch[h.from] = Bigger(@, h.cfg)]

RoleSwitchKeepsSlots(v, h) == [v EXCEPT !.of[h.from] = h.of]

RoleSwitch(v, h) ==
    IF h.of = None THEN clusterSetNodeAsMaster(v, h.from)
    ELSE IF IsMaster(v, h.from)
         THEN [Bind(v, None, SlotsOf(v, h.from)) EXCEPT !.of[h.from] = h.of]
         ELSE [v EXCEPT !.of[h.from] = h.of]

(* Of two masters with one epoch the one with the smaller name moves on.   *)
clusterHandleConfigEpochCollision(v, me, h) ==
    IF /\ IsMaster(v, me) /\ IsMaster(v, h.from)
       /\ h.cfg = v.epoch[me] /\ v.epoch[h.from] = v.epoch[me] /\ h.from > me
    THEN [v EXCEPT !.cur = @ + 1, !.epoch[me] = v.cur + 1]
    ELSE v

(* A PING or PONG, up to the gossip: the slots are rebound, a sender with  *)
(* an outdated claim is told about the new owner of its first such slot.   *)
(* An owner with a newer claim to a slot of h than its sender's.           *)
Newer(v, h) ==
    {s \in h.slots : v.owner[s] \notin {h.from, None} /\ v.epoch[v.owner[s]] > h.cfg}

TellNewer(v, me, h, newer) ==
    IF newer = {} THEN {} ELSE {clusterSendUpdate(me, v, h.from, v.owner[Lowest(newer)])}

Rebound(v, me, h, dirty) ==
    [v |-> clusterHandleConfigEpochCollision(v, me, h),
     out |-> IF dirty THEN TellNewer(v, me, h, Newer(v, h)) ELSE {}]

ClaimsIf(v, me, h, dirty) ==
    Rebound(IF IsMaster(v, h.from) /\ dirty
            THEN clusterUpdateSlotsConfigWith(v, me, h.from, h.cfg, h.slots) ELSE v, me, h, dirty)

ClaimsSeen(v, me, h) ==
    ClaimsIf(v, me, h, SlotsOf(v, IF IsMaster(v, h.from) THEN h.from ELSE v.of[h.from]) # h.slots)

Claims(v, me, h) == ClaimsSeen(RoleSwitch(SeenEpochs(v, h), h), me, h)

(* An UPDATE packet.                                                       *)
UpdatedMastersOnly(v, me, p) ==
    LET seen == SeenEpochs(v, p.hdr)
        x == p.about
    IN  IF seen.epoch[x] >= p.epoch \/ ~IsMaster(seen, x) THEN seen
        ELSE clusterUpdateSlotsConfigWith([seen EXCEPT !.epoch[x] = p.epoch], me, x, p.epoch, p.slots)

Updated(v, me, p) ==
    LET seen == SeenEpochs(v, p.hdr)
        x == p.about
    IN  IF seen.epoch[x] >= p.epoch THEN seen
        ELSE clusterUpdateSlotsConfigWith(
                 [clusterSetNodeAsMaster(seen, x) EXCEPT !.epoch[x] = p.epoch], me, x, p.epoch, p.slots)

-------------------------------------------------------------------------------
(* Elections.                                                              *)
VoteTwice(v, me, h) ==
    /\ IsMaster(v, me) /\ SlotsOf(v, me) # {}
    /\ h.cur >= v.cur
    /\ ~IsMaster(v, h.from) /\ v.of[h.from] \in v.failed
    /\ \A s \in h.slots : v.owner[s] = None \/ v.epoch[v.owner[s]] <= h.cfg

(* A request within two node timeouts of a vote about the same master is   *)
(* refused as if it were lost.                                             *)
MayVote(v, me, h) ==
    /\ IsMaster(v, me) /\ SlotsOf(v, me) # {}
    /\ h.cur >= v.cur /\ v.vote # v.cur
    /\ ~IsMaster(v, h.from) /\ v.of[h.from] \in v.failed
    /\ \A s \in h.slots : v.owner[s] = None \/ v.epoch[v.owner[s]] <= h.cfg

clusterSendFailoverAuthIfNeeded(v, h) == [v EXCEPT !.vote = v.cur]

(* The vote of a master with slots, if its epoch is not older than that of *)
(* the last request: nothing else ties it to an election.                  *)
AckCounts(v, h) == IsMaster(v, h.from) /\ SlotsOf(v, h.from) # {} /\ h.cur >= v.aepoch

clusterFailoverReplaceYourMaster(v, me) ==
    Bind(clusterSetNodeAsMaster(v, me), me, SlotsOf(v, v.of[me]))

(* What every handler leaves at the end of the event loop.                 *)
ClusterBecomes(n, v) ==
    /\ view' = [view EXCEPT ![n] = v]
    /\ disk' = [disk EXCEPT ![n] = SaveIfChanged(view[n], v, @)]

(* clusterProcessPacket().                                                 *)
PingProcessed(p, r) ==
    /\ packets' = (packets \ {p}) \cup r.out
    /\ ClusterBecomes(p.to, r.v)

ReceivePing(p) ==
    /\ p.type = "ping"
    /\ PingProcessed(p, Claims(view[p.to], p.to, p.hdr))
    /\ UNCHANGED <<ballots, won, forgot, left>>

ReceiveUpdate(p) ==
    /\ p.type = "update"
    /\ packets' = packets \ {p}
    /\ ClusterBecomes(p.to, Updated(view[p.to], p.to, p))
    /\ UNCHANGED <<ballots, won, forgot, left>>

ReceiveRequest(p) ==
    /\ p.type = "request"
    /\ LET seen == SeenEpochs(view[p.to], p.hdr)
           yes == MayVote(seen, p.to, p.hdr)
           v == IF yes THEN clusterSendFailoverAuthIfNeeded(seen, p.hdr) ELSE seen
       IN  /\ packets' = (packets \ {p}) \cup
                         (IF yes THEN {Packet("ack", p.hdr.from, clusterBuildMessageHdr(p.to, seen))} ELSE {})
           /\ ClusterBecomes(p.to, v)
           /\ ballots' = IF yes THEN ballots \cup {<<p.to, v.cur, p.hdr.from>>} ELSE ballots
    /\ UNCHANGED <<won, forgot, left>>

ReceiveAck(p) ==
    /\ p.type = "ack"
    /\ packets' = packets \ {p}
    /\ LET seen == SeenEpochs(view[p.to], p.hdr)
       IN  ClusterBecomes(p.to, IF AckCounts(seen, p.hdr) THEN [seen EXCEPT !.count = @ + 1] ELSE seen)
    /\ UNCHANGED <<ballots, won, forgot, left>>

Receive == \E p \in packets : ReceivePing(p) \/ ReceiveUpdate(p) \/ ReceiveRequest(p) \/ ReceiveAck(p)

(* clusterCron() pings a node.                                             *)
Ping(n) ==
    /\ left.pings > 0
    /\ \E m \in CNodes \ {n} : packets' = packets \cup {Packet("ping", m, clusterBuildMessageHdr(n, view[n]))}
    /\ packets' # packets /\ Cardinality(packets') <= left.packets
    /\ left' = [left EXCEPT !.pings = @ - 1]
    /\ UNCHANGED <<view, disk, ballots, won, forgot>>

(* A node learns that a master is in FAIL state.                           *)
Fails(n) ==
    /\ left.failures > 0 /\ left' = [left EXCEPT !.failures = @ - 1]
    /\ \E m \in Failing \ view[n].failed :
          m # n /\ packets' = packets /\ ClusterBecomes(n, [view[n] EXCEPT !.failed = @ \cup {m}])
    /\ UNCHANGED <<ballots, won, forgot>>

(* clusterHandleSlaveFailover().                                           *)
HasToFailOver(n) ==
    LET v == view[n] IN v.of[n] # None /\ v.of[n] \in v.failed /\ SlotsOf(v, v.of[n]) # {}

Schedule(n) ==
    /\ HasToFailOver(n) /\ view[n].state # "delay" /\ left.elections > 0
    /\ view' = [view EXCEPT ![n].state = "delay", ![n].count = 0]
    /\ left' = [left EXCEPT !.elections = @ - 1]
    /\ UNCHANGED <<disk, packets, ballots, won, forgot>>

Request(n) ==
    /\ HasToFailOver(n) /\ view[n].state = "delay"
    /\ LET v == [view[n] EXCEPT !.cur = @ + 1, !.aepoch = view[n].cur + 1, !.state = "sent"]
       IN  /\ view' = [view EXCEPT ![n] = v]
           /\ disk' = [disk EXCEPT ![n] = v]
           /\ clusterBroadcastMessage("request", n, v)
    /\ UNCHANGED <<ballots, won, forgot, left>>

(* The votes cast for slave n in epoch e.                                  *)
Ballots(e, n) == {t \in ballots : t[2] = e /\ t[3] = n}

Win(n) ==
    /\ HasToFailOver(n) /\ view[n].state = "sent" /\ view[n].count >= ClusterMajority(view[n])
    /\ LET e == view[n].aepoch
           v == clusterFailoverReplaceYourMaster([view[n] EXCEPT !.epoch[n] = Bigger(@, e)], n)
           stale == (\E w \in won : w[1] = e /\ w[2] = n)
                    \/ Cardinality(Ballots(e, n)) < view[n].count
       IN  /\ view' = [view EXCEPT ![n] = v]
           /\ disk' = [disk EXCEPT ![n] = v]
           /\ clusterBroadcastMessage("ping", n, v)
           /\ won' = won \cup {<<e, n, stale, ClusterMajority(view[n])>>}
    /\ UNCHANGED <<ballots, forgot, left>>

(* CLUSTER FAILOVER TAKEOVER.                                              *)
clusterBumpConfigEpochWithoutConsensus(v, me) ==
    IF v.epoch[me] = 0 \/ v.epoch[me] # clusterGetMaxEpoch(v)
    THEN [v EXCEPT !.cur = @ + 1, !.epoch[me] = v.cur + 1]
    ELSE v

Takeover(n) ==
    /\ left.takeovers > 0 /\ view[n].of[n] # None
    /\ LET v == clusterFailoverReplaceYourMaster(clusterBumpConfigEpochWithoutConsensus(view[n], n), n)
       IN  /\ view' = [view EXCEPT ![n] = v]
           /\ disk' = [disk EXCEPT ![n] = v]
           /\ clusterBroadcastMessage("ping", n, v)
    /\ left' = [left EXCEPT !.takeovers = @ - 1]
    /\ UNCHANGED <<ballots, won, forgot>>

(* A node restarts from its nodes.conf.                                    *)
NodeRestart(n) ==
    /\ left.restarts > 0
    /\ view' = [view EXCEPT ![n] = clusterLoadConfig(disk[n])]
    /\ forgot' = (forgot \/ disk[n].vote # view[n].vote)
    /\ left' = [left EXCEPT !.restarts = @ - 1]
    /\ UNCHANGED <<disk, packets, ballots, won>>

FailoverNext ==
    \/ Receive
    \/ \E n \in CNodes : \/ Ping(n) \/ Fails(n) \/ Schedule(n) \/ Request(n)
                         \/ Win(n) \/ Takeover(n) \/ NodeRestart(n)

FailoverSpec == FailoverInit /\ [][FailoverNext]_failoverVars

-------------------------------------------------------------------------------
(* Two slaves never win the election of one epoch (the lastVoteEpoch test  *)
(* of clusterSendFailoverAuthIfNeeded() and the quorum), unless a restart  *)
(* made a master forget its vote or a vote of an earlier election was      *)
(* counted.                                                                *)
EpochsUniqueUnlessForgot ==
    \A w, x \in won : w[1] = x[1] /\ w[2] # x[2] => w[3] \/ x[3] \/ forgot

(* What the comment of clusterHandleConfigEpochCollision() says of all     *)
(* elections.                                                              *)
EpochsUnique == \A w, x \in won : w[1] = x[1] => w[2] = x[2]

(* A ping of node n to node m changes nothing, nor does its answer.        *)
Settled(n, m) ==
    LET r == Claims(view[m], m, clusterBuildMessageHdr(n, view[n]))
    IN  r.v = view[m] /\ \A p \in r.out : Updated(view[n], n, p) = view[n]

(* The outdated claims of slots: node n knows an owner with another epoch  *)
(* of a slot that node m serves as a master.                               *)
Outdated(n, m) ==
    {s \in SlotsOf(view[m], m) : LET x == view[n].owner[s]
                                 IN  x # m /\ (x # None => view[n].epoch[x] # view[m].epoch[m])}

(* A master with an outdated claim gives it up as soon as it meets any     *)
(* node that knows better: two nodes that have nothing left to tell each   *)
(* other agree about the slots one of them serves.  This is what the       *)
(* comment on the UPDATE packets in clusterProcessPacket() says.           *)
SettledMeansAgreed ==
    \A m \in DOMAIN view : \A n \in DOMAIN view \ {m} :
        IsMaster(view[m], m) /\ Outdated(n, m) # {} => ~ (Settled(n, m) /\ Settled(m, n))

(* It holds, whatever elections, takeovers, lost or late packets and       *)
(* restarts came before, unless m has already seen the epoch of the owner  *)
(* of its first outdated slot, the one an UPDATE is sent about, in a       *)
(* packet that says nothing about slots: then only the owner itself can    *)
(* correct it, and that owner is not n.                                    *)
SettledMeansAgreedUnlessKnown ==
    \A m \in DOMAIN view : \A n \in DOMAIN view \ {m} :
        IsMaster(view[m], m) /\ Outdated(n, m) # {} /\ Settled(n, m) /\ Settled(m, n) =>
            /\ \A s \in Outdated(n, m) : view[n].owner[s] \notin {None, n}
            /\ LET x == view[n].owner[Lowest(Outdated(n, m))] IN view[m].epoch[x] >= view[n].epoch[x]

(* In the table of every node only masters own slots, also while roles and *)
(* slots change in any order: clusterSetMaster() asserts it of the node    *)
(* itself, and the size of the cluster and the redirections rely on it.    *)
OwnersAreMasters ==
    \A n \in DOMAIN view, s \in CSlots :
        view[n].owner[s] # None => IsMaster(view[n], view[n].owner[s])

(* Elections and claims keep the slot tables of the nodes converging.      *)
SlotsConverge == SettledMeansAgreedUnlessKnown /\ OwnersAreMasters

(* A master votes for one slave in an epoch, whatever requests arrive in   *)
(* whatever order (the lastVoteEpoch of clusterSendFailoverAuthIfNeeded(), *)
(* which is not saved at once), unless a restart lost a vote.              *)
MastersVoteOnce ==
    \A a, b \in ballots : a[1] = b[1] /\ a[2] = b[2] => a[3] = b[3] \/ forgot

(* So two slaves that win one epoch were voted for by different masters: as *)
(* many masters voted as the quorums of the two together ask for.  With one *)
(* view of the size of the cluster there are not that many.                *)
QuorumsApart ==
    \A w, x \in won :
        w[1] = x[1] /\ w[2] # x[2] /\ ~w[3] /\ ~x[3] /\ ~forgot =>
            w[4] + x[4] <= Cardinality({b[1] : b \in {t \in ballots : t[2] = w[1]}})

(* No node knows, or has saved, a configEpoch above its currentEpoch: what *)
(* clusterLoadConfig() calls "something that should never happen".         *)
CurrentEpochHighest ==
    \A n \in DOMAIN view, m \in CNodes :
        view[n].epoch[m] <= view[n].cur /\ disk[n].epoch[m] <= disk[n].cur

(* Votes and epochs order the configurations of the cluster.               *)
EpochsSound == MastersVoteOnce /\ QuorumsApart /\ CurrentEpochHighest

-------------------------------------------------------------------------------
(* What every table, header and packet satisfies: no epoch is above the    *)
(* currentEpoch it came with, and slots are owned by masters.              *)
Table ==
    [cur : Nat, vote : Nat, of : [CNodes -> CNodes \cup {None}], epoch : [CNodes -> Nat],
     owner : [CSlots -> CNodes \cup {None}], failed : SUBSET CNodes,
     state : {"none", "delay", "sent"}, aepoch : Nat, count : Nat]

EpochsBelow(v) == v.vote <= v.cur /\ v.aepoch <= v.cur /\ \A m \in CNodes : v.epoch[m] <= v.cur

MastersOwn(v) == \A s \in CSlots : v.owner[s] # None => v.of[v.owner[s]] = None

TableOK(v) == v \in Table /\ EpochsBelow(v) /\ MastersOwn(v)

Hdr == [from : CNodes, cur : Nat, cfg : Nat, slots : SUBSET CSlots, of : CNodes \cup {None}]
HdrOK(h) == h \in Hdr /\ h.cfg <= h.cur

PacketOK(p) ==
    /\ p \in [type : {"ping", "update", "request", "ack"}, to : CNodes, hdr : Hdr,
               about : CNodes \cup {None}, epoch : Nat, slots : SUBSET CSlots]
    /\ HdrOK(p.hdr)
    /\ p.type = "update" => p.about \in CNodes /\ p.epoch <= p.hdr.cur

TablesOK == \A n \in CNodes : TableOK(view[n]) /\ TableOK(disk[n])

(* The last vote of a master is its newest.                                *)
BallotsKnown ==
    /\ \A b \in ballots : b \in CNodes \X Nat \X CNodes /\ (forgot \/ b[2] <= view[b[1]].vote)
    /\ IsFiniteSet(ballots)

(* An election that counted no stale vote was won with a quorum.           *)
WonByQuorum ==
    \A w \in won : /\ w \in Nat \X CNodes \X BOOLEAN \X Nat
                   /\ w[3] \/ w[4] <= Cardinality(Ballots(w[1], w[2]))

FailoverInv ==
    /\ view \in [CNodes -> Table] /\ disk \in [CNodes -> Table] /\ forgot \in BOOLEAN
    /\ TablesOK
    /\ \A p \in packets : PacketOK(p)
    /\ BallotsKnown /\ MastersVoteOnce /\ WonByQuorum
================================================================================
