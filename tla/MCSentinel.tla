----------------------------- MODULE MCSentinel -----------------------------
(***************************************************************************)
(* SentinelElection and SentinelFailover for TLC, one of them per          *)
(* behaviour: three Sentinels, two elections and a restart; or two         *)
(* Sentinels and two slaves, or three slaves and one Sentinel that acts.   *)
(***************************************************************************)
EXTENDS SentinelElection, SentinelFailover, TLC

CONSTANTS
    Leading,    \* a Sentinel
    Preferred,  \* a slave
    Spare       \* the third slave

VARIABLE machine

\* Sentinels are interchangeable until they start a failover: the first one
\* to do so is 1, and the second is 1 or 2.
ElectionOrdered ==
    starts' > starts => \E s \in 1 .. starts' : failover_epoch'[s] # failover_epoch[s]

MCKnownSlaves == {Servers \ {FirstMaster}, Servers \ {FirstMaster, Spare}}
MCPriority == [a \in Servers |-> 1]

\* So are they and the slaves of SentinelFailover: the first Sentinel to start
\* a failover is Leading, and if that failover selects a slave it selects
\* Preferred.
FailoverOrdered ==
    /\ (\A s \in Monitors : curEpoch[s] = 0) =>
           \A s \in Monitors \ {Leading} : curEpoch'[s] = 0
    /\ stage[Leading] = "select_slave" /\ failEpoch[Leading] = 1 =>
           promoted'[Leading] \in {Nobody, Preferred}

sentinelVars == <<machine, electionVars, smVars>>

SentinelInit ==
    /\ machine \in {"election", "failover", "alone"}
    /\ ElectionInit /\ SmInit
    /\ (machine = "failover") = (replicaof[Spare] = Nobody)

\* What happens once (a restart, a reset, a forced failover, a corrected slave)
\* happens before the second failover starts.
Early == extras' # extras => \A s \in Monitors : curEpoch'[s] < MaxEpoch

\* One Sentinel acts, the others vote, and nothing else happens.
Alone == extras' = 0 /\ \A s \in Monitors \ {Leading} : stage'[s] = "none" /\ confEpoch'[s] = 0

SentinelNext ==
    \/ machine = "election" /\ ElectionNext /\ ElectionOrdered /\ UNCHANGED <<machine, smVars>>
    \/ /\ machine \in {"failover", "alone"}
       /\ SmNext /\ FailoverOrdered /\ Early /\ (machine = "alone" => Alone)
       /\ UNCHANGED <<machine, electionVars>>

SentinelSpec == SentinelInit /\ [][SentinelNext]_sentinelVars
=============================================================================
