-------------------------- MODULE SentinelFailover --------------------------
(***************************************************************************)
(* What the Sentinels of sentinel.c do once one of them may fail a master  *)
(* over: select a slave, promote it, tell the other slaves, take the new   *)
(* address; and how the others follow, by hello messages and by the INFO   *)
(* output of the servers.                                                  *)
(*                                                                         *)
(* Whatever depends on the time that has passed, on a link being up or on  *)
(* a server answering may be so or not at every step.  The election is the *)
(* subject of SentinelElection: here at most one Sentinel wins an epoch    *)
(* with votes of that epoch.                                               *)
(***************************************************************************)
EXTENDS Naturals, FiniteSets

CONSTANTS
    Monitors,       \* the Sentinels
    Servers,        \* the addresses of the master and its slaves
    Nobody,         \* NO ONE, or NULL
    FirstMaster,
    KnownSlaves,    \* the sets of slaves the Sentinels may know at first
    slave_priority, \* of each server
    parallel_syncs,
    MaxEpoch,       \* bound on failovers
    MaxExtras,      \* bound on restarts, resets, forced failovers and corrected slaves
    MaxSlaveOf      \* bound on SLAVEOFs under way

ASSUME FailoverServersAssumption ==
    /\ IsFiniteSet(Servers) /\ FirstMaster \in Servers /\ Nobody \notin Servers
    /\ \A known \in KnownSlaves : known \subseteq Servers \ {FirstMaster}
    /\ parallel_syncs \in Nat /\ MaxEpoch \in Nat /\ MaxExtras \in Nat /\ MaxSlaveOf \in Nat

VARIABLES
    replicaof,     \* of each server: its master, or Nobody
    slaveof,       \* of each server: the SLAVEOF under way to it
    hello,         \* the hello message on its way, first the Sentinel it reaches
    addr,          \* of each Sentinel: master->addr
    slaves,        \* master->slaves
    marks,         \* the failover flags of each slave
    promoted,      \* master->promoted_slave
    stage,         \* master->failover_state
    failEpoch,     \* master->failover_epoch
    confEpoch,     \* master->config_epoch
    curEpoch,      \* sentinel.current_epoch
    conf,          \* the configuration file
    won,           \* of each epoch: the Sentinel elected with its votes
    contested,     \* epochs that were not won so, or that lost their address
    extras

viewVars == <<addr, slaves, marks, promoted, stage, failEpoch>>
worldVars == <<replicaof, slaveof, hello>>
smVars == <<worldVars, viewVars, confEpoch, curEpoch, conf, won, contested, extras>>

\* wait_start with SRI_FORCE_FAILOVER is forced_start.
Stages == {"none", "wait_start", "forced_start", "select_slave", "send_slaveof_noone",
           "wait_promotion", "reconf_slaves"}

SmTypeOK ==
    /\ replicaof \in [Servers -> Servers \cup {Nobody}]
    /\ slaveof \in [Servers -> {<<>>} \cup {<<a>> : a \in Servers \cup {Nobody}}]
    /\ hello \in {<<>>} \cup {<<s, e, a, c>> : s \in Monitors, e \in Nat, a \in Servers, c \in Nat}
    /\ addr \in [Monitors -> Servers]
    /\ slaves \in [Monitors -> SUBSET Servers]
    /\ marks \in [Monitors -> [Servers -> SUBSET {"promoted", "sent", "inprog", "done"}]]
    /\ promoted \in [Monitors -> Servers \cup {Nobody}]
    /\ stage \in [Monitors -> Stages]
    /\ failEpoch \in [Monitors -> Nat] /\ confEpoch \in [Monitors -> Nat]
    /\ curEpoch \in [Monitors -> Nat]
    /\ conf \in [Monitors -> {<<a, c, e, sl>> : a \in Servers, c \in Nat, e \in Nat,
                                                sl \in SUBSET Servers}]
    /\ won \in [1 .. MaxEpoch -> Monitors \cup {Nobody}]
    /\ contested \subseteq Nat /\ extras \in Nat

-----------------------------------------------------------------------------
\* Mutant: the slave is advertised before it is known to be a master.
EarlyCurrent(master, prom, st) ==
    IF prom # Nobody /\ st \in {"wait_promotion", "reconf_slaves"} THEN prom ELSE master

(* The address advertised: of the promoted slave once it is a master.      *)
CurrentOf(master, prom, st) ==
    IF prom # Nobody /\ st = "reconf_slaves" THEN prom ELSE master
sentinelGetCurrentMasterAddress(s) == CurrentOf(addr[s], promoted[s], stage[s])

(* The file: the master's line has the advertised address, and the slave   *)
(* with that address is replaced by the old master.                        *)
rewriteConfigSentinelOption(current, master, sl, ce, cur) ==
    <<current, ce, cur, {IF a = current THEN master ELSE a : a \in sl}>>

sentinelFlushConfig(s) ==
    conf' = [conf EXCEPT ![s] =
                rewriteConfigSentinelOption(CurrentOf(addr'[s], promoted'[s], stage'[s]),
                                            addr'[s], slaves'[s], confEpoch'[s], curEpoch'[s])]

(* Redis instances are created with no flags.                              *)
NoMarks == [a \in Servers |-> {}]

sentinelResetMaster(s, master, sl) ==
    /\ addr' = [addr EXCEPT ![s] = master]
    /\ slaves' = [slaves EXCEPT ![s] = sl]
    /\ marks' = [marks EXCEPT ![s] = NoMarks]
    /\ promoted' = [promoted EXCEPT ![s] = Nobody]
    /\ stage' = [stage EXCEPT ![s] = "none"]
    /\ UNCHANGED failEpoch

\* Mutant: the slave that becomes the master stays in the table of slaves.
KeepsPromoted(s, a) == sentinelResetMaster(s, a, slaves[s] \cup ({addr[s]} \ {a}))

sentinelResetMasterAndChangeAddress(s, a) ==
    sentinelResetMaster(s, a, (slaves[s] \cup {addr[s]}) \ {a})

(* SLAVEOF a, or NO ONE, is sent to a server; at most one is under way to  *)
(* each.                                                                   *)
sentinelSendSlaveOf(to, a) ==
    /\ \A b \in to : slaveof[b] = <<>>
    /\ Cardinality(to \cup {b \in Servers : slaveof[b] # <<>>}) <= MaxSlaveOf
    /\ slaveof' = [b \in Servers |-> IF b \in to THEN <<a>> ELSE slaveof[b]]

-----------------------------------------------------------------------------
(* The failover, one call of the timer at a time.                          *)
sentinelStartFailover(s, how) ==
    /\ stage[s] = "none" /\ curEpoch[s] < MaxEpoch
    /\ curEpoch' = [curEpoch EXCEPT ![s] = @ + 1]
    /\ failEpoch' = [failEpoch EXCEPT ![s] = curEpoch[s] + 1]
    /\ stage' = [stage EXCEPT ![s] = how]
    /\ UNCHANGED <<worldVars, addr, slaves, marks, promoted, confEpoch, won>>

\* The master is objectively down; the vote of the same call saves the epoch.
sentinelStartFailoverIfNeeded(s) ==
    /\ sentinelStartFailover(s, "wait_start")
    /\ sentinelFlushConfig(s)
    /\ UNCHANGED <<contested, extras>>

\* SENTINEL FAILOVER needs no election.
ForceFailover(s) ==
    /\ extras < MaxExtras /\ extras' = extras + 1
    /\ \E a \in slaves[s] : slave_priority[a] # 0
    /\ sentinelStartFailover(s, "forced_start")
    /\ contested' = contested \cup {curEpoch[s] + 1}
    /\ UNCHANGED conf

\* Mutant: the slave keeps its flag.
AbortKeepsFlag(s) ==
    /\ stage' = [stage EXCEPT ![s] = "none"]
    /\ promoted' = [promoted EXCEPT ![s] = Nobody]
    /\ UNCHANGED <<addr, slaves, marks, failEpoch, worldVars>>

sentinelAbortFailover(s) ==
    /\ stage' = [stage EXCEPT ![s] = "none"]
    /\ marks' = [marks EXCEPT ![s] = [a \in Servers |->
                    IF a = promoted[s] THEN @[a] \ {"promoted"} ELSE @[a]]]
    /\ promoted' = [promoted EXCEPT ![s] = Nobody]
    /\ UNCHANGED <<addr, slaves, failEpoch, worldVars>>

GoTo(s, next) ==
    /\ stage' = [stage EXCEPT ![s] = next]
    /\ UNCHANGED <<addr, slaves, marks, promoted, failEpoch>>

Majority == {q \in SUBSET Monitors : 2 * Cardinality(q) > Cardinality(Monitors)}

(* Elected with votes of the epoch of the failover, or with those of a     *)
(* later one; a forced failover votes, and saves the epoch.                *)
ElectedOrNot(s) ==
    \/ /\ stage[s] = "wait_start" /\ curEpoch[s] = failEpoch[s]
       /\ won[failEpoch[s]] = Nobody
       /\ {t \in Monitors : curEpoch[t] >= failEpoch[s]} \in Majority
       /\ won' = [won EXCEPT ![failEpoch[s]] = s]
       /\ GoTo(s, "select_slave")
       /\ UNCHANGED <<worldVars, confEpoch, curEpoch, conf, contested, extras>>
    \/ /\ stage[s] = "wait_start" /\ curEpoch[s] > failEpoch[s]
       /\ contested' = contested \cup {failEpoch[s]}
       /\ GoTo(s, "select_slave")
       /\ UNCHANGED <<worldVars, confEpoch, curEpoch, conf, won, extras>>
    \/ /\ stage[s] = "forced_start"
       /\ GoTo(s, "select_slave")
       /\ UNCHANGED <<worldVars, confEpoch, curEpoch, won, contested, extras>>
       /\ sentinelFlushConfig(s)
    \/ /\ stage[s] = "wait_start"
       /\ sentinelAbortFailover(s)
       /\ UNCHANGED <<confEpoch, curEpoch, conf, won, contested, extras>>

\* Run ids, which break ties, are random.
compareSlavesForPromotion(a, b, offset) ==
    \/ slave_priority[a] < slave_priority[b]
    \/ slave_priority[a] = slave_priority[b] /\ offset[a] > offset[b]

\* Of the slaves that answer, offset being what they reported.
sentinelSelectSlave(answering, offset) ==
    LET suitable == {a \in answering : slave_priority[a] # 0}
    IN  {a \in suitable : \A b \in suitable : ~compareSlavesForPromotion(b, a, offset)}

sentinelFailoverSelectSlave(s) ==
    /\ stage[s] = "select_slave"
    /\ LET best == UNION {sentinelSelectSlave(answering, offset) :
                              answering \in SUBSET slaves[s], offset \in [slaves[s] -> 0 .. 1]}
       IN  \/ sentinelAbortFailover(s)
           \/ \E a \in best :
                 /\ marks' = [marks EXCEPT ![s][a] = @ \cup {"promoted"}]
                 /\ promoted' = [promoted EXCEPT ![s] = a]
                 /\ stage' = [stage EXCEPT ![s] = "send_slaveof_noone"]
                 /\ UNCHANGED <<addr, slaves, failEpoch, worldVars>>
    /\ UNCHANGED <<confEpoch, curEpoch, conf, won, contested, extras>>

sentinelFailoverSendSlaveOfNoOne(s) ==
    /\ stage[s] = "send_slaveof_noone"
    /\ \/ sentinelAbortFailover(s)
       \/ /\ sentinelSendSlaveOf({promoted[s]}, Nobody)
          /\ GoTo(s, "wait_promotion")
          /\ UNCHANGED <<replicaof, hello>>
    /\ UNCHANGED <<confEpoch, curEpoch, conf, won, contested, extras>>

sentinelFailoverWaitPromotion(s) ==
    /\ stage[s] = "wait_promotion"
    /\ sentinelAbortFailover(s)
    /\ UNCHANGED <<confEpoch, curEpoch, conf, won, contested, extras>>

(* The slaves are visited in some order until parallel_syncs of them are   *)
(* being reconfigured: all of them, or those up to the last one told.  One *)
(* that was told too long ago (late) counts as done, and is told again.    *)
InProgress(m, sl) == {a \in sl : m[a] \cap {"sent", "inprog"} # {}}

Expire(m, visited, late) ==
    [a \in Servers |->
        IF /\ a \in visited \cap late /\ "sent" \in m[a]
           /\ m[a] \cap {"promoted", "done"} = {}
        THEN (m[a] \ {"sent"}) \cup {"done"} ELSE m[a]]

Told(m, visited, connected, late) ==
    {a \in visited \cap connected :
        /\ m[a] \cap {"promoted", "done"} = {}
        /\ Expire(m, visited, late)[a] \cap {"sent", "inprog"} = {}}

\* Mutant: those that were told earlier are not counted.
VisitsAnew(m, sl, visited, told) ==
    /\ Cardinality(told) <= parallel_syncs
    /\ Cardinality(told) < parallel_syncs => visited = sl

Visits(m, sl, visited, told) ==
    LET n == Cardinality(InProgress(m, sl))
        after == n + Cardinality(told)
    IN  IF n >= parallel_syncs THEN visited = {}
        ELSE after <= parallel_syncs /\ (after < parallel_syncs => visited = sl)

(* Whether the failover ends, down being the slaves that are S_DOWN.       *)
sentinelFailoverDetectEnd(m, sl, prom, down, timeout) ==
    /\ prom \notin down
    /\ \/ \A a \in sl : m[a] \cap {"promoted", "done"} # {} \/ a \in down
       \/ timeout

sentinelFailoverSwitchToPromotedSlave(s) ==
    /\ sentinelResetMasterAndChangeAddress(s, promoted[s])
    /\ UNCHANGED <<worldVars, confEpoch, curEpoch>>
    /\ sentinelFlushConfig(s)

(* At the end the same call of the timer switches to the promoted slave,   *)
(* which frees the links to the slaves, and with them the SLAVEOFs that    *)
(* this call has queued: those for a timeout never leave the process.      *)
sentinelFailoverReconfNextSlave(s) ==
    /\ stage[s] = "reconf_slaves"
    /\ \E visited \in SUBSET slaves[s] :
       \E connected \in SUBSET visited, late \in SUBSET InProgress(marks[s], visited) :
          LET told == Told(marks[s], visited, connected, late)
              expired == Expire(marks[s], visited, late)
              m == [a \in Servers |-> IF a \in told THEN expired[a] \cup {"sent"} ELSE expired[a]]
          IN  /\ Visits(marks[s], slaves[s], visited, told)
              /\ \E ends \in {sentinelFailoverDetectEnd(m, slaves[s], promoted[s], down, timeout) :
                                   down \in SUBSET slaves[s], timeout \in BOOLEAN} :
                    \/ ends /\ sentinelFailoverSwitchToPromotedSlave(s)
                    \/ /\ ~ends
                       /\ sentinelSendSlaveOf(told, promoted[s])
                       /\ marks' = [marks EXCEPT ![s] = m]
                       /\ UNCHANGED <<replicaof, hello, addr, slaves, promoted, stage, failEpoch,
                                      confEpoch, curEpoch, conf>>
    /\ UNCHANGED <<won, contested, extras>>

-----------------------------------------------------------------------------
(* INFO.  The master's lists slaves, and each one not known is added.      *)
MasterInfo(s) ==
    /\ \E found \in SUBSET ({a \in Servers : replicaof[a] = addr[s]} \ slaves[s]) :
          /\ slaves' = [slaves EXCEPT ![s] = @ \cup found]
          /\ UNCHANGED <<worldVars, addr, marks, promoted, stage, failEpoch, confEpoch, curEpoch>>
          /\ IF found = {} THEN UNCHANGED conf ELSE sentinelFlushConfig(s)
    /\ UNCHANGED <<won, contested, extras>>

\* Mutant: the file is written before the state changes.
SavesFirst(s) ==
    /\ confEpoch' = [confEpoch EXCEPT ![s] = failEpoch[s]]
    /\ GoTo(s, "reconf_slaves")
    /\ UNCHANGED <<worldVars, curEpoch>>
    /\ conf' = [conf EXCEPT ![s] =
                   rewriteConfigSentinelOption(addr[s], addr[s], slaves[s], failEpoch[s], curEpoch[s])]

(* The promoted slave is a master: the new configuration, with the epoch   *)
(* of the failover, is saved.                                              *)
PromotionSeen(s) ==
    /\ confEpoch' = [confEpoch EXCEPT ![s] = failEpoch[s]]
    /\ GoTo(s, "reconf_slaves")
    /\ UNCHANGED <<worldVars, curEpoch>>
    /\ sentinelFlushConfig(s)

(* A slave that should not be a master, or that replicates from another    *)
(* one, is told otherwise after some time and if the master looks sane,    *)
(* which is what it last reported to be: that may be so or not.            *)
Correct(s, a) ==
    \/ UNCHANGED <<slaveof, extras>>
    \/ /\ extras < MaxExtras /\ extras' = extras + 1
       /\ sentinelSendSlaveOf({a}, addr[s])

(* sent -> inprog -> done.                                                 *)
Reconfigured(m, master, prom, up) ==
    LET begun == IF "sent" \in m /\ master = prom THEN (m \ {"sent"}) \cup {"inprog"} ELSE m
    IN  IF "inprog" \in begun /\ up THEN (begun \ {"inprog"}) \cup {"done"} ELSE begun

SlaveInfo(s, a) ==
    /\ \/ /\ replicaof[a] = Nobody /\ "promoted" \in marks[s][a] /\ stage[s] = "wait_promotion"
          /\ PromotionSeen(s) /\ UNCHANGED extras
       \/ /\ replicaof[a] = Nobody /\ "promoted" \notin marks[s][a]
          /\ Correct(s, a)
          /\ UNCHANGED <<replicaof, hello, viewVars, confEpoch, curEpoch, conf>>
       \/ /\ replicaof[a] # Nobody
          /\ IF replicaof[a] = addr[s] THEN UNCHANGED <<slaveof, extras>> ELSE Correct(s, a)
          /\ \E up \in BOOLEAN :
                marks' = [marks EXCEPT ![s][a] = Reconfigured(@, replicaof[a], promoted[s], up)]
          /\ UNCHANGED <<replicaof, hello, addr, slaves, promoted, stage, failEpoch,
                         confEpoch, curEpoch, conf>>
    /\ UNCHANGED <<won, contested>>

-----------------------------------------------------------------------------
(* Hello messages.                                                         *)
sentinelSendHello(s) ==
    /\ \E t \in Monitors :
          /\ confEpoch[t] < confEpoch[s]
          /\ hello' = <<t, curEpoch[s], sentinelGetCurrentMasterAddress(s), confEpoch[s]>>
    /\ UNCHANGED <<replicaof, slaveof, viewVars, confEpoch, curEpoch, conf, won, contested, extras>>

Larger(a, b) == IF a > b THEN a ELSE b

(* The epoch is saved when it is new, before the configuration is looked   *)
(* at; a newer configuration is saved if it changes the master's address.  *)
sentinelProcessHelloMessage(s) ==
    /\ hello # <<>> /\ hello[1] = s
    /\ LET newer == confEpoch[s] < hello[4]
           moves == newer /\ hello[3] # addr[s]
       IN  /\ curEpoch' = [curEpoch EXCEPT ![s] = Larger(@, hello[2])]
           /\ confEpoch' = [confEpoch EXCEPT ![s] = IF newer THEN hello[4] ELSE @]
           /\ IF moves THEN sentinelResetMasterAndChangeAddress(s, hello[3]) ELSE UNCHANGED viewVars
           /\ IF moves THEN sentinelFlushConfig(s)
              ELSE IF hello[2] > curEpoch[s]
              THEN conf' = [conf EXCEPT ![s] =
                       rewriteConfigSentinelOption(sentinelGetCurrentMasterAddress(s), addr[s],
                                                   slaves[s], confEpoch[s], hello[2])]
              ELSE UNCHANGED conf
           /\ contested' = IF newer /\ ~moves /\ stage[s] = "reconf_slaves"
                           THEN contested \cup {hello[4]} ELSE contested
    /\ hello' = <<>>
    /\ UNCHANGED <<replicaof, slaveof, won, extras>>

(* The question of a candidate raises the epoch, which is saved.           *)
AdoptEpoch(s, t) ==
    /\ curEpoch[t] > curEpoch[s] /\ stage[t] \in {"wait_start", "forced_start"}
    /\ curEpoch' = [curEpoch EXCEPT ![s] = curEpoch[t]]
    /\ UNCHANGED <<worldVars, viewVars, confEpoch, won, contested, extras>>
    /\ sentinelFlushConfig(s)

-----------------------------------------------------------------------------
(* Servers obey or never see a SLAVEOF; Sentinels are reset by SENTINEL    *)
(* RESET, which saves nothing, and restarted from their file.              *)
ServerObeys(a) ==
    /\ slaveof[a] # <<>>
    /\ replicaof' = [replicaof EXCEPT ![a] = slaveof[a][1]]
    /\ slaveof' = [slaveof EXCEPT ![a] = <<>>]
    /\ UNCHANGED <<hello, viewVars, confEpoch, curEpoch, conf, won, contested, extras>>

LinkFails(a) ==
    /\ slaveof[a] # <<>>
    /\ slaveof' = [slaveof EXCEPT ![a] = <<>>]
    /\ UNCHANGED <<replicaof, hello, viewVars, confEpoch, curEpoch, conf, won, contested, extras>>

ResetCommand(s) ==
    /\ extras < MaxExtras /\ extras' = extras + 1
    /\ sentinelResetMaster(s, addr[s], {})
    /\ contested' = IF stage[s] = "reconf_slaves" THEN contested \cup {confEpoch[s]} ELSE contested
    /\ UNCHANGED <<worldVars, confEpoch, curEpoch, conf, won>>

sentinelHandleConfiguration(s) ==
    /\ extras < MaxExtras /\ extras' = extras + 1
    /\ addr' = [addr EXCEPT ![s] = conf[s][1]]
    /\ slaves' = [slaves EXCEPT ![s] = conf[s][4]]
    /\ marks' = [marks EXCEPT ![s] = NoMarks]
    /\ promoted' = [promoted EXCEPT ![s] = Nobody]
    /\ stage' = [stage EXCEPT ![s] = "none"]
    /\ failEpoch' = [failEpoch EXCEPT ![s] = 0]
    /\ confEpoch' = [confEpoch EXCEPT ![s] = conf[s][2]]
    /\ curEpoch' = [curEpoch EXCEPT ![s] = Larger(conf[s][2], conf[s][3])]
    /\ UNCHANGED <<worldVars, conf, won, contested>>

-----------------------------------------------------------------------------
SmInit ==
    /\ \E known \in KnownSlaves :
          /\ replicaof = [a \in Servers |-> IF a \in known THEN FirstMaster ELSE Nobody]
          /\ slaves = [s \in Monitors |-> known]
          /\ conf = [s \in Monitors |-> <<FirstMaster, 0, 0, known>>]
    /\ slaveof = [a \in Servers |-> <<>>]
    /\ hello = <<>>
    /\ addr = [s \in Monitors |-> FirstMaster]
    /\ marks = [s \in Monitors |-> NoMarks]
    /\ promoted = [s \in Monitors |-> Nobody]
    /\ stage = [s \in Monitors |-> "none"]
    /\ failEpoch = [s \in Monitors |-> 0]
    /\ confEpoch = [s \in Monitors |-> 0]
    /\ curEpoch = [s \in Monitors |-> 0]
    /\ won = [e \in 1 .. MaxEpoch |-> Nobody]
    /\ contested = {}
    /\ extras = 0

sentinelFailoverStateMachine(s) ==
    \/ ElectedOrNot(s)
    \/ sentinelFailoverSelectSlave(s)
    \/ sentinelFailoverSendSlaveOfNoOne(s)
    \/ sentinelFailoverWaitPromotion(s)
    \/ sentinelFailoverReconfNextSlave(s)

(* The timer.                                                              *)
sentinelHandleDictOfRedisInstances(s) ==
    sentinelStartFailoverIfNeeded(s) \/ sentinelFailoverStateMachine(s)

SmNext ==
    \/ \E s \in Monitors :
          \/ sentinelHandleDictOfRedisInstances(s)
          \/ MasterInfo(s)
          \/ \E a \in slaves[s] : SlaveInfo(s, a)
          \/ sentinelSendHello(s)
          \/ sentinelProcessHelloMessage(s)
          \/ \E t \in Monitors : AdoptEpoch(s, t)
          \/ ForceFailover(s) \/ ResetCommand(s) \/ sentinelHandleConfiguration(s)
    \/ \E a \in Servers : ServerObeys(a) \/ LinkFails(a)

SmSpec == SmInit /\ [][SmNext]_smVars

-----------------------------------------------------------------------------
(* The pointer to the promoted slave is set when it is dereferenced: from  *)
(* its selection to the end of the failover it points to a known slave,    *)
(* the one with the flag.  Slaves are being reconfigured only then, and    *)
(* never more than parallel_syncs of them.  The master is not among its    *)
(* slaves, in memory and in the file, where a slave would be listed twice  *)
(* and the Sentinel refuse to start.                                       *)
PromotionSound ==
    \A s \in Monitors :
       /\ (promoted[s] # Nobody)
             <=> stage[s] \in {"send_slaveof_noone", "wait_promotion", "reconf_slaves"}
       /\ \A a \in Servers :
             /\ "promoted" \in marks[s][a] <=> a = promoted[s]
             /\ marks[s][a] # {} => a \in slaves[s]
             /\ marks[s][a] \cap {"sent", "inprog", "done"} # {} =>
                   stage[s] = "reconf_slaves" /\ a # promoted[s]
       /\ Cardinality(InProgress(marks[s], slaves[s])) <= parallel_syncs
       /\ addr[s] \notin slaves[s]
       /\ conf[s][1] \notin conf[s][4]

(* Sentinels with the same configuration epoch name the same master, in    *)
(* memory, in their files and in messages; except for an epoch of a        *)
(* failover that was forced or won with votes of a later epoch, or that a  *)
(* Sentinel took or dropped half-way through its own failover.             *)
Configs ==
    {<<confEpoch[s], sentinelGetCurrentMasterAddress(s)>> : s \in Monitors}
    \cup {<<conf[s][2], conf[s][1]>> : s \in Monitors}
    \cup (IF hello = <<>> THEN {} ELSE {<<hello[4], hello[3]>>})

ConfigsAgree ==
    \A c, d \in Configs : c[1] = d[1] /\ c[1] \notin contested => c[2] = d[2]
=============================================================================
