------------------------ MODULE SentinelElectionProofs ------------------------
(***************************************************************************)
(* Proofs about SentinelElection, for every set of Sentinels, quorum and   *)
(* bound.                                                                  *)
(***************************************************************************)
EXTENDS SentinelElection, FiniteSetTheorems, TLAPS

\* What one vote of sentinelVoteLeader() changes: the voter s, whose epoch may
\* have become cur, votes for c at an epoch later than that of its last vote.
NewVote(s, cur, c) ==
    /\ cur > leader_epoch[s]
    /\ leader' = [leader EXCEPT ![s] = c]
    /\ leader_epoch' = [leader_epoch EXCEPT ![s] = cur]
    /\ votes' = votes \cup {<<s, cur, c>>}
    /\ saved' = [saved EXCEPT ![s] = <<cur, cur>>]

\* ... or that no vote is cast and the config file holds the epochs all the same.
OldVote(s, cur) ==
    /\ UNCHANGED <<leader, leader_epoch, votes>>
    /\ saved' = [saved EXCEPT ![s] = <<cur, leader_epoch[s]>>]

\* Vote() is one of the two if the epoch asked for is not before the current
\* one unless that has just been adopted.
LEMMA VoteCases ==
  ASSUME ElectionInv, NEW s \in Sentinels, NEW cur \in Nat, NEW req \in Nat,
         NEW c \in Sentinels, Vote(s, cur, req, c),
         \/ cur = Adopt(current_epoch[s], req)
         \/ cur = current_epoch[s] /\ req <= cur
         \/ cur = current_epoch[s] + 1 /\ req = cur
  PROVE  NewVote(s, cur, c) \/ OldVote(s, cur)
<1>1. /\ leader_epoch[s] \in Nat /\ current_epoch[s] \in Nat
      /\ leader_epoch[s] <= current_epoch[s]
      /\ saved[s] = <<current_epoch[s], leader_epoch[s]>>
      /\ saved \in [Sentinels -> Nat \X Nat]
  BY DEF ElectionInv, ElectionTypeOK, EpochsOrdered
<1>2. CASE sentinelVoteLeader(cur, leader_epoch[s], req)
  <2>1. cur > leader_epoch[s]
    BY <1>1, <1>2 DEF sentinelVoteLeader, Adopt
  <2>2. QED
    BY <1>2, <2>1 DEF Vote, NewVote
<1>3. CASE ~sentinelVoteLeader(cur, leader_epoch[s], req)
  <2>1. CASE req > current_epoch[s]
    BY <1>3, <2>1 DEF Vote, OldVote
  <2>2. CASE ~(req > current_epoch[s])
    <3>1. cur = current_epoch[s]
      BY <1>1, <2>2 DEF Adopt
    <3>2. saved = [saved EXCEPT ![s] = <<cur, leader_epoch[s]>>]
      BY <1>1, <3>1
    <3>3. QED
      BY <1>3, <2>2, <3>2 DEF Vote, OldVote
  <2>3. QED
    BY <2>1, <2>2
<1>4. QED
  BY <1>2, <1>3

-------------------------------------------------------------------------------
\* What a vote keeps: the parts of the invariant that are about votes.
LEMMA VoteKeeps ==
  ASSUME ElectionInv, NEW s \in Sentinels, NEW cur \in Nat, NEW c \in Sentinels,
         NewVote(s, cur, c) \/ OldVote(s, cur)
  PROVE  /\ leader' \in [Sentinels -> Sentinels \cup {NoOne}]
         /\ leader_epoch' \in [Sentinels -> Nat]
         /\ saved' \in [Sentinels -> Nat \X Nat]
         /\ votes' \subseteq Sentinels \X Nat \X Sentinels
         /\ votes \subseteq votes'
         /\ VotesPast'
         /\ VotesOncePerEpoch'
         /\ \A t \in Sentinels : leader'[t] # NoOne => <<t, leader_epoch'[t], leader'[t]>> \in votes'
<1> USE DEF ElectionInv, ElectionTypeOK
<1>1. CASE OldVote(s, cur)
  BY <1>1 DEF OldVote, VotesPast, VotesOncePerEpoch, ReportsTrue
<1>2. CASE NewVote(s, cur, c)
  <2> USE <1>2 DEF NewVote
  <2>1. VotesPast'
    <3> SUFFICES ASSUME NEW v \in votes' PROVE v[2] <= leader_epoch'[v[1]]
      BY DEF VotesPast
    <3>1. CASE v = <<s, cur, c>>
      BY <3>1
    <3>2. CASE v \in votes
      <4>1. /\ v[1] \in Sentinels /\ v[2] \in Nat
            /\ v[2] <= leader_epoch[v[1]]
        BY <3>2 DEF VotesPast
      <4>2. QED
        BY <4>1
    <3>3. QED
      BY <3>1, <3>2
  <2>2. VotesOncePerEpoch'
    <3> SUFFICES ASSUME NEW v \in votes', NEW w \in votes', v[1] = w[1], v[2] = w[2]
                 PROVE  v[3] = w[3]
      BY DEF VotesOncePerEpoch
    <3>1. ASSUME NEW x \in votes, x[1] = s PROVE x[2] # cur
      <4>1. x[2] \in Nat /\ x[2] <= leader_epoch[s] /\ leader_epoch[s] \in Nat
        BY <3>1 DEF VotesPast
      <4>2. QED
        BY <4>1
    <3>2. QED
      BY <3>1 DEF VotesOncePerEpoch
  <2>3. QED
    BY <2>1, <2>2 DEF ReportsTrue
<1>3. QED
  BY <1>1, <1>2

\* Votes are never withdrawn, so an election that had a majority keeps it.
LEMMA MajorityGrows ==
  ASSUME ElectionInv, votes \subseteq votes', NEW e, NEW c
  PROVE  /\ Cardinality(VotersOf(e, c)) \in Nat
         /\ Cardinality(VotersOf(e, c)') \in Nat
         /\ Cardinality(VotersOf(e, c)) <= Cardinality(VotersOf(e, c)')
<1>1. /\ VotersOf(e, c) \in SUBSET (VotersOf(e, c)')
      /\ VotersOf(e, c)' \in SUBSET Sentinels
  BY DEF VotersOf
<1>2. IsFiniteSet(VotersOf(e, c)')
  BY <1>1, FS_Subset, ElectionAssumption
<1>3. QED
  BY <1>1, <1>2, FS_Subset, FS_CardinalityType

\* A win of s at an epoch with votes of that epoch has a majority.
LEMMA WinsByMajority ==
  ASSUME ElectionInv, NEW s \in Sentinels, NEW e \in Nat,
         votes \subseteq votes', leader'[s] = s => <<s, leader_epoch'[s], s>> \in votes',
         Wins(s, e, e, leader'[s], leader_epoch'[s])
  PROVE  Cardinality(VotersOf(e, s)') >= (Cardinality(Sentinels) \div 2) + 1
<1> DEFINE H == VotesFor(s, e, s)
           V == VotersOf(e, s)'
<1>1. /\ IsFiniteSet(Sentinels) /\ V \in SUBSET Sentinels
      /\ Cardinality(Sentinels) \in Nat
  BY ElectionAssumption, FS_CardinalityType DEF VotersOf
<1>2. IsFiniteSet(V) /\ Cardinality(V) \in Nat
  BY <1>1, FS_Subset, FS_CardinalityType
<1>3. H \in SUBSET V /\ s \notin H
  <2>1. ASSUME NEW t \in H PROVE t \in V
    <3>1. t \in Sentinels /\ heard[s][t][1] = s /\ heard[s][t][2] = e
      BY <2>1 DEF VotesFor, Others
    <3>2. <<t, e, s>> \in votes
      BY <3>1, ElectionAssumption DEF ElectionInv, ReportsTrue
    <3>3. QED
      BY <3>1, <3>2 DEF VotersOf
  <2>2. QED
    BY <2>1 DEF VotesFor, Others
<1>4. IsFiniteSet(H) /\ Cardinality(H) \in Nat /\ Cardinality(H) <= Cardinality(V)
  BY <1>2, <1>3, FS_Subset, FS_CardinalityType
<1>5. Cardinality(H) + OwnVote(s, leader'[s], leader_epoch'[s], e) >= (Cardinality(Sentinels) \div 2) + 1
  BY DEF Wins
<1>6. (Cardinality(Sentinels) \div 2) \in Nat
  BY <1>1
<1>7. CASE leader'[s] = s /\ leader_epoch'[s] = e
  <2>1. H \cup {s} \in SUBSET V
    BY <1>3, <1>7 DEF VotersOf
  <2>2. IsFiniteSet(H \cup {s}) /\ Cardinality(H \cup {s}) = Cardinality(H) + 1
    BY <1>3, <1>4, FS_AddElement
  <2>3. Cardinality(H) + 1 <= Cardinality(V)
    BY <1>2, <2>1, <2>2, FS_Subset
  <2>4. QED
    BY <1>2, <1>4, <1>5, <1>6, <1>7, <2>3 DEF OwnVote
<1>8. CASE ~(leader'[s] = s /\ leader_epoch'[s] = e)
  BY <1>2, <1>4, <1>5, <1>6, <1>8 DEF OwnVote
<1>9. QED
  BY <1>7, <1>8

-------------------------------------------------------------------------------
\* The epochs and the config file after a vote of s, once its epoch is cur.
LEMMA VoteOrders ==
  ASSUME ElectionInv, NEW s \in Sentinels, NEW cur \in Nat, NEW c \in Sentinels,
         NewVote(s, cur, c) \/ OldVote(s, cur),
         cur >= current_epoch[s],
         current_epoch' = [current_epoch EXCEPT ![s] = cur],
         failover_epoch' \in [Sentinels -> Nat],
         failover_epoch'[s] <= cur,
         \A t \in Others(s) : failover_epoch'[t] = failover_epoch[t]
  PROVE  current_epoch' \in [Sentinels -> Nat] /\ EpochsOrdered'
<1> SUFFICES ASSUME NEW t \in Sentinels
             PROVE  /\ leader_epoch'[t] <= current_epoch'[t]
                    /\ failover_epoch'[t] <= current_epoch'[t]
                    /\ saved'[t] = <<current_epoch'[t], leader_epoch'[t]>>
  BY DEF EpochsOrdered, ElectionInv, ElectionTypeOK
<1>1. /\ leader_epoch[t] \in Nat /\ current_epoch[t] \in Nat /\ failover_epoch[t] \in Nat
      /\ leader_epoch[t] <= current_epoch[t] /\ failover_epoch[t] <= current_epoch[t]
      /\ saved[t] = <<current_epoch[t], leader_epoch[t]>>
      /\ saved \in [Sentinels -> Nat \X Nat]
      /\ leader_epoch \in [Sentinels -> Nat]
      /\ current_epoch \in [Sentinels -> Nat]
  BY DEF ElectionInv, ElectionTypeOK, EpochsOrdered
<1>2. CASE t = s
  BY <1>1, <1>2 DEF NewVote, OldVote
<1>3. CASE t # s
  BY <1>1, <1>3 DEF NewVote, OldVote, Others
<1>4. QED
  BY <1>2, <1>3

\* sentinelFailoverWaitStart() votes as sentinelVoteLeader() lets it, and what it
\* records as an election has a majority.
LEMMA WaitStartKeeps ==
  ASSUME ElectionInv, NEW s \in Sentinels, NEW cur \in Nat, NEW epoch \in Nat,
         sentinelFailoverWaitStart(s, cur, epoch),
         \/ cur = current_epoch[s] /\ epoch = failover_epoch[s]
         \/ cur = current_epoch[s] + 1 /\ epoch = cur
  PROVE  /\ \E c \in Sentinels : NewVote(s, cur, c) \/ OldVote(s, cur)
         /\ failover_state' \in [Sentinels -> {"none", "wait_start", "acting"}]
         /\ elected' \subseteq Sentinels \X Nat \X Nat
         /\ ElectedByMajority'
<1>1. PICK c \in Sentinels : Vote(s, cur, epoch, c)
  BY DEF sentinelFailoverWaitStart, MostVoted
<1>2. NewVote(s, cur, c) \/ OldVote(s, cur)
  <2>1. failover_epoch[s] <= current_epoch[s]
    BY DEF ElectionInv, EpochsOrdered
  <2>2. QED
    BY <1>1, <2>1, VoteCases
<1>3. /\ votes \subseteq votes'
      /\ leader'[s] # NoOne => <<s, leader_epoch'[s], leader'[s]>> \in votes'
  BY <1>2, VoteKeeps
<1>4. /\ failover_state' \in [Sentinels -> {"none", "wait_start", "acting"}]
      /\ elected' \subseteq Sentinels \X Nat \X Nat
  <2>1. /\ failover_state \in [Sentinels -> {"none", "wait_start", "acting"}]
        /\ elected \subseteq Sentinels \X Nat \X Nat
    BY DEF ElectionInv, ElectionTypeOK
  <2>2. PICK next \in {"none", "wait_start", "acting"} :
            failover_state' = [failover_state EXCEPT ![s] = next]
    BY DEF sentinelFailoverWaitStart
  <2>3. elected' = elected \cup {<<s, epoch, cur>>} \/ elected' = elected
    BY DEF sentinelFailoverWaitStart
  <2>4. QED
    BY <2>1, <2>2, <2>3
<1>5. ElectedByMajority'
  <2> SUFFICES ASSUME NEW x \in elected', x[2] = x[3]
               PROVE  Cardinality(VotersOf(x[2], x[1])') >= (Cardinality(Sentinels) \div 2) + 1
    BY DEF ElectedByMajority
  <2>1. CASE x \in elected
    <3>1. Cardinality(VotersOf(x[2], x[1])) >= (Cardinality(Sentinels) \div 2) + 1
      BY <2>1 DEF ElectionInv, ElectedByMajority
    <3>2. (Cardinality(Sentinels) \div 2) \in Nat
      BY FS_CardinalityType, ElectionAssumption
    <3>3. QED
      BY <1>3, <3>1, <3>2, MajorityGrows
  <2>2. CASE x \notin elected
    <3>1. x = <<s, epoch, cur>> /\ Wins(s, cur, epoch, leader'[s], leader_epoch'[s])
      BY <2>2 DEF sentinelFailoverWaitStart
    <3>2. epoch = cur /\ x[2] = cur /\ x[1] = s
      BY <3>1
    <3>3. leader'[s] = s => <<s, leader_epoch'[s], s>> \in votes'
      BY <1>3, ElectionAssumption
    <3>4. Cardinality(VotersOf(cur, s)') >= (Cardinality(Sentinels) \div 2) + 1
      BY <1>3, <3>1, <3>2, <3>3, WinsByMajority
    <3>5. QED
      BY <3>2, <3>4
  <2>3. QED
    BY <2>1, <2>2
<1>6. QED
  BY <1>2, <1>4, <1>5

-------------------------------------------------------------------------------
\* The messages and what was heard, apart from the other state.
MessagesTyped ==
    /\ heard \in [Sentinels -> [Sentinels -> (Sentinels \cup {NoOne}) \X Nat]]
    /\ slink \in [Sentinels -> [Sentinels ->
           {"free", "question", "answer"} \X (Sentinels \cup {NoOne}) \X Nat]]

\* The timer forgets votes and asks, on links that carried nothing.
LEMMA TimerMessages ==
  ASSUME ElectionInv, NEW s \in Sentinels,
         NEW asked \in SUBSET Others(s), NEW stale \in SUBSET Others(s), NEW e \in Nat,
         ForgetStale(s, stale), AskOthers(s, asked, e)
  PROVE  /\ MessagesTyped'
         /\ \A u, t \in Sentinels : heard'[u][t] \in {heard[u][t], NoVote}
         /\ \A u, t \in Sentinels :
               slink'[u][t] = slink[u][t] \/ slink'[u][t] = Question(u, e)
<1>1. MessagesTyped
  BY DEF ElectionInv, ElectionTypeOK, MessagesTyped
<1>2. /\ heard' \in [Sentinels -> [Sentinels -> (Sentinels \cup {NoOne}) \X Nat]]
      /\ \A u, t \in Sentinels : heard'[u][t] \in {heard[u][t], NoVote}
  BY <1>1 DEF ForgetStale, MessagesTyped, NoVote
<1>3. \A t \in Sentinels : slink'[s][t] = slink[s][t] \/ slink'[s][t] = Question(s, e)
  BY <1>1 DEF AskOthers, MessagesTyped
<1>4. \A u, t \in Sentinels :
         slink'[u][t] = slink[u][t] \/ slink'[u][t] = Question(u, e)
  BY <1>1, <1>3 DEF AskOthers, MessagesTyped
<1>5. \A u \in Sentinels : Question(u, e) \in {"free", "question", "answer"} \X (Sentinels \cup {NoOne}) \X Nat
  BY DEF Question
<1>6. slink' \in [Sentinels -> [Sentinels ->
           {"free", "question", "answer"} \X (Sentinels \cup {NoOne}) \X Nat]]
  BY <1>1, <1>5 DEF AskOthers, MessagesTyped
<1>7. QED
  BY <1>2, <1>4, <1>6 DEF MessagesTyped

\* ... so that the reports stay true if votes are only added.
LEMMA TimerReports ==
  ASSUME ElectionInv, votes \subseteq votes', NEW e \in Nat,
         \A t \in Sentinels : leader'[t] # NoOne => <<t, leader_epoch'[t], leader'[t]>> \in votes',
         \A u, t \in Sentinels : heard'[u][t] \in {heard[u][t], NoVote},
         \A u, t \in Sentinels :
               slink'[u][t] = slink[u][t] \/ slink'[u][t] = Question(u, e)
  PROVE  ReportsTrue'
<1> SUFFICES ASSUME NEW u \in Sentinels, NEW t \in Sentinels
             PROVE  /\ heard'[u][t][1] # NoOne => <<t, heard'[u][t][2], heard'[u][t][1]>> \in votes'
                    /\ slink'[u][t][1] = "answer" => <<t, slink'[u][t][3], slink'[u][t][2]>> \in votes'
                    /\ slink'[u][t][1] = "question" => slink'[u][t][2] = u
  BY DEF ReportsTrue
<1>1. /\ heard[u][t][1] # NoOne => <<t, heard[u][t][2], heard[u][t][1]>> \in votes
      /\ slink[u][t][1] = "answer" => <<t, slink[u][t][3], slink[u][t][2]>> \in votes
      /\ slink[u][t][1] = "question" => slink[u][t][2] = u
  BY DEF ElectionInv, ReportsTrue
<1>2. heard'[u][t] = heard[u][t] \/ heard'[u][t] = NoVote
  OBVIOUS
<1>3. slink'[u][t] = slink[u][t] \/ slink'[u][t] = Question(u, e)
  OBVIOUS
<1>4. QED
  BY <1>1, <1>2, <1>3 DEF NoVote, Question

\* One call of sentinelHandleRedisInstance() keeps the invariant.
LEMMA TickKeeps ==
  ASSUME ElectionInv, NEW s \in Sentinels, Tick(s)
  PROVE  ElectionInv'
<1>1. PICK asked \in SUBSET Others(s), stale \in SUBSET Others(s) :
          /\ \/ /\ Start(s)
                /\ starts' = starts + 1
                /\ current_epoch' = [current_epoch EXCEPT ![s] = @ + 1]
                /\ failover_epoch' = [failover_epoch EXCEPT ![s] = current_epoch[s] + 1]
                /\ sentinelFailoverWaitStart(s, current_epoch[s] + 1, current_epoch[s] + 1)
             \/ /\ failover_state[s] = "wait_start"
                /\ sentinelFailoverWaitStart(s, current_epoch[s], failover_epoch[s])
                /\ UNCHANGED <<current_epoch, failover_epoch, starts>>
             \/ /\ \E next \in {"acting", "none"} :
                       failover_state' = [failover_state EXCEPT ![s] = next]
                /\ UNCHANGED <<current_epoch, failover_epoch, leader, leader_epoch,
                               saved, votes, elected, starts>>
             \/ UNCHANGED <<current_epoch, failover_state, failover_epoch, leader,
                            leader_epoch, saved, votes, elected, starts>>
          /\ ForgetStale(s, stale)
          /\ AskOthers(s, asked, current_epoch'[s])
          /\ UNCHANGED restarts
  BY DEF Tick
<1>2. ASSUME NEW cur \in Nat, NEW epoch \in Nat,
             sentinelFailoverWaitStart(s, cur, epoch),
             current_epoch' = [current_epoch EXCEPT ![s] = cur],
             \/ cur = current_epoch[s] /\ epoch = failover_epoch[s] /\ UNCHANGED failover_epoch
             \/ /\ cur = current_epoch[s] + 1 /\ epoch = cur
                /\ failover_epoch' = [failover_epoch EXCEPT ![s] = cur],
             starts' \in Nat
      PROVE  ElectionInv'
  <2>1. /\ current_epoch \in [Sentinels -> Nat] /\ failover_epoch \in [Sentinels -> Nat]
        /\ restarts \in Nat /\ failover_epoch[s] <= current_epoch[s]
    BY DEF ElectionInv, ElectionTypeOK, EpochsOrdered
  <2>2. /\ \E c \in Sentinels : NewVote(s, cur, c) \/ OldVote(s, cur)
        /\ failover_state' \in [Sentinels -> {"none", "wait_start", "acting"}]
        /\ elected' \subseteq Sentinels \X Nat \X Nat
        /\ ElectedByMajority'
    BY <1>2, WaitStartKeeps
  <2>3. PICK c \in Sentinels : NewVote(s, cur, c) \/ OldVote(s, cur)
    BY <2>2
  <2>4. /\ failover_epoch' \in [Sentinels -> Nat]
        /\ failover_epoch'[s] <= cur
        /\ \A t \in Others(s) : failover_epoch'[t] = failover_epoch[t]
        /\ cur >= current_epoch[s]
    BY <1>2, <2>1 DEF Others
  <2>5. current_epoch' \in [Sentinels -> Nat] /\ EpochsOrdered'
    BY <1>2, <2>3, <2>4, VoteOrders
  <2>6. /\ leader' \in [Sentinels -> Sentinels \cup {NoOne}]
        /\ leader_epoch' \in [Sentinels -> Nat]
        /\ saved' \in [Sentinels -> Nat \X Nat]
        /\ votes' \subseteq Sentinels \X Nat \X Sentinels
        /\ votes \subseteq votes'
        /\ VotesPast'
        /\ VotesOncePerEpoch'
        /\ \A t \in Sentinels : leader'[t] # NoOne => <<t, leader_epoch'[t], leader'[t]>> \in votes'
    BY <2>3, VoteKeeps
  <2>7. current_epoch'[s] \in Nat
    BY <2>5
  <2>8. /\ MessagesTyped'
        /\ \A u, t \in Sentinels : heard'[u][t] \in {heard[u][t], NoVote}
        /\ \A u, t \in Sentinels :
               slink'[u][t] = slink[u][t] \/ slink'[u][t] = Question(u, current_epoch'[s])
    BY <1>1, <2>7, TimerMessages, ZenonT(30)
  <2>9. ReportsTrue'
    BY <2>6, <2>7, <2>8, TimerReports
  <2>10. ElectionTypeOK'
    BY <1>1, <1>2, <2>1, <2>2, <2>4, <2>5, <2>6, <2>8 DEF ElectionTypeOK, MessagesTyped
  <2>11. QED
    BY <2>2, <2>5, <2>6, <2>9, <2>10 DEF ElectionInv
<1>3. current_epoch[s] \in Nat /\ failover_epoch[s] \in Nat /\ starts \in Nat
      /\ current_epoch \in [Sentinels -> Nat]
  BY DEF ElectionInv, ElectionTypeOK
<1>4. CASE /\ starts' = starts + 1
           /\ current_epoch' = [current_epoch EXCEPT ![s] = @ + 1]
           /\ failover_epoch' = [failover_epoch EXCEPT ![s] = current_epoch[s] + 1]
           /\ sentinelFailoverWaitStart(s, current_epoch[s] + 1, current_epoch[s] + 1)
  <2>1. current_epoch[s] + 1 \in Nat /\ starts' \in Nat
    BY <1>3, <1>4
  <2>2. QED
    BY <1>2, <1>4, <2>1
<1>5. CASE /\ sentinelFailoverWaitStart(s, current_epoch[s], failover_epoch[s])
           /\ UNCHANGED <<current_epoch, failover_epoch, starts>>
  <2>1. current_epoch' = [current_epoch EXCEPT ![s] = current_epoch[s]]
    BY <1>3, <1>5
  <2>2. QED
    BY <1>2, <1>3, <1>5, <2>1
<1>6. CASE /\ failover_state' \in [Sentinels -> {"none", "wait_start", "acting"}]
           /\ UNCHANGED <<current_epoch, failover_epoch, leader, leader_epoch,
                          saved, votes, elected, starts>>
  <2>1. /\ MessagesTyped'
        /\ \A u, t \in Sentinels : heard'[u][t] \in {heard[u][t], NoVote}
        /\ \A u, t \in Sentinels :
               slink'[u][t] = slink[u][t] \/ slink'[u][t] = Question(u, current_epoch'[s])
    BY <1>1, <1>3, <1>6, TimerMessages
  <2>2. ReportsTrue'
    <3>1. \A t \in Sentinels : leader'[t] # NoOne => <<t, leader_epoch'[t], leader'[t]>> \in votes'
      BY <1>6 DEF ElectionInv, ReportsTrue
    <3>2. QED
      BY <1>3, <1>6, <2>1, <3>1, TimerReports
  <2>3. ElectionTypeOK'
    BY <1>1, <1>6, <2>1 DEF ElectionInv, ElectionTypeOK, MessagesTyped
  <2>4. EpochsOrdered' /\ VotesPast' /\ VotesOncePerEpoch' /\ ElectedByMajority'
    BY <1>6 DEF ElectionInv, EpochsOrdered, VotesPast, VotesOncePerEpoch, ElectedByMajority, VotersOf
  <2>5. QED
    BY <2>2, <2>3, <2>4 DEF ElectionInv
<1>7. failover_state \in [Sentinels -> {"none", "wait_start", "acting"}]
  BY DEF ElectionInv, ElectionTypeOK
<1>8. QED
  BY <1>1, <1>4, <1>5, <1>6, <1>7

-------------------------------------------------------------------------------
\* What one Sentinel believes of another, instantiated.
LEMMA ReportsAt ==
  ASSUME ElectionInv, NEW u \in Sentinels, NEW v \in Sentinels
  PROVE  /\ leader[u] # NoOne => <<u, leader_epoch[u], leader[u]>> \in votes
         /\ heard[u][v][1] # NoOne => <<v, heard[u][v][2], heard[u][v][1]>> \in votes
         /\ slink[u][v][1] = "answer" => <<v, slink[u][v][3], slink[u][v][2]>> \in votes
         /\ slink[u][v][1] = "question" => slink[u][v][2] = u
BY DEF ElectionInv, ReportsTrue

\* A Sentinel asked for its vote keeps the invariant: what it answers it voted.
LEMMA AnswerKeeps ==
  ASSUME ElectionInv, NEW s \in Sentinels, NEW t \in Others(s), AnswerQuestion(s, t)
  PROVE  ElectionInv'
<1> DEFINE req == slink[s][t][3]
           cur == Adopt(current_epoch[t], req)
<1>1. /\ t \in Sentinels /\ req \in Nat /\ cur \in Nat /\ cur >= current_epoch[t]
      /\ slink[s][t][2] = s
      /\ current_epoch \in [Sentinels -> Nat] /\ failover_epoch \in [Sentinels -> Nat]
      /\ failover_epoch[t] <= current_epoch[t]
  <2>1. t \in Sentinels /\ slink[s][t][1] = "question"
    BY DEF Others, AnswerQuestion
  <2>2. /\ current_epoch \in [Sentinels -> Nat] /\ failover_epoch \in [Sentinels -> Nat]
        /\ slink \in [Sentinels -> [Sentinels ->
               {"free", "question", "answer"} \X (Sentinels \cup {NoOne}) \X Nat]]
    BY DEF ElectionInv, ElectionTypeOK
  <2>3. slink[s][t] \in {"free", "question", "answer"} \X (Sentinels \cup {NoOne}) \X Nat
    BY <2>1, <2>2
  <2>4. req \in Nat /\ current_epoch[t] \in Nat
    BY <2>1, <2>2, <2>3
  <2>5. slink[s][t][2] = s /\ failover_epoch[t] <= current_epoch[t]
    BY <2>1 DEF ElectionInv, ReportsTrue, EpochsOrdered
  <2>6. cur \in Nat /\ cur >= current_epoch[t]
    BY <2>4 DEF Adopt
  <2>7. QED
    BY <2>1, <2>2, <2>4, <2>5, <2>6
<1>2. Vote(t, cur, req, s)
  BY <1>1 DEF AnswerQuestion
<1>3. NewVote(t, cur, s) \/ OldVote(t, cur)
  BY <1>1, <1>2, VoteCases
<1>4. /\ leader' \in [Sentinels -> Sentinels \cup {NoOne}]
      /\ leader_epoch' \in [Sentinels -> Nat]
      /\ saved' \in [Sentinels -> Nat \X Nat]
      /\ votes' \subseteq Sentinels \X Nat \X Sentinels
      /\ votes \subseteq votes'
      /\ VotesPast'
      /\ VotesOncePerEpoch'
      /\ \A u \in Sentinels : leader'[u] # NoOne => <<u, leader_epoch'[u], leader'[u]>> \in votes'
  BY <1>1, <1>3, VoteKeeps
<1>5. current_epoch' \in [Sentinels -> Nat] /\ EpochsOrdered'
  <2>1. /\ current_epoch' = [current_epoch EXCEPT ![t] = cur]
        /\ failover_epoch' = failover_epoch
    BY DEF AnswerQuestion
  <2>2. failover_epoch'[t] <= cur
    BY <1>1, <2>1
  <2>3. QED
    BY <1>1, <1>3, <2>1, <2>2, VoteOrders
<1>6. PICK m \in {Free, Answer(<<leader'[t], leader_epoch'[t]>>)} :
          /\ slink' = [slink EXCEPT ![s] = [@ EXCEPT ![t] = m]]
          /\ leader'[t] = NoOne => m = Free
  BY DEF AnswerQuestion
<1>7. /\ m \in {"free", "question", "answer"} \X (Sentinels \cup {NoOne}) \X Nat
      /\ m[1] = "answer" => <<t, m[3], m[2]>> \in votes'
      /\ m[1] # "question"
  BY <1>1, <1>4, <1>6 DEF Free, Answer
<1>8. /\ slink \in [Sentinels -> [Sentinels ->
             {"free", "question", "answer"} \X (Sentinels \cup {NoOne}) \X Nat]]
      /\ slink' \in [Sentinels -> [Sentinels ->
             {"free", "question", "answer"} \X (Sentinels \cup {NoOne}) \X Nat]]
  BY <1>1, <1>6, <1>7 DEF ElectionInv, ElectionTypeOK
<1>9. ElectionTypeOK'
  BY <1>4, <1>5, <1>8 DEF AnswerQuestion, ElectionInv, ElectionTypeOK
<1>10. ReportsTrue'
  <2> SUFFICES ASSUME NEW u \in Sentinels, NEW v \in Sentinels
               PROVE  /\ heard'[u][v][1] # NoOne => <<v, heard'[u][v][2], heard'[u][v][1]>> \in votes'
                      /\ slink'[u][v][1] = "answer" => <<v, slink'[u][v][3], slink'[u][v][2]>> \in votes'
                      /\ slink'[u][v][1] = "question" => slink'[u][v][2] = u
    BY <1>4 DEF ReportsTrue
  <2>1. heard'[u][v] = heard[u][v]
    BY DEF AnswerQuestion
  <2>2. slink'[u][v] = IF u = s /\ v = t THEN m ELSE slink[u][v]
    BY <1>1, <1>6, <1>8
  <2>3. QED
    BY <1>4, <1>7, <2>1, <2>2, ZenonT(30) DEF ElectionInv, ReportsTrue
<1>11. ElectedByMajority'
  <2> SUFFICES ASSUME NEW x \in elected, x[2] = x[3]
               PROVE  Cardinality(VotersOf(x[2], x[1])') >= (Cardinality(Sentinels) \div 2) + 1
    BY DEF ElectedByMajority, AnswerQuestion
  <2>1. Cardinality(VotersOf(x[2], x[1])) >= (Cardinality(Sentinels) \div 2) + 1
    BY DEF ElectionInv, ElectedByMajority
  <2>2. (Cardinality(Sentinels) \div 2) \in Nat
    BY FS_CardinalityType, ElectionAssumption
  <2>3. QED
    BY <1>4, <2>1, <2>2, MajorityGrows
<1>12. QED
  BY <1>4, <1>5, <1>9, <1>10, <1>11 DEF ElectionInv

\* Answers received, links lost and hellos keep the invariant.
LEMMA MessagesKeep ==
  ASSUME ElectionInv, NEW s \in Sentinels, NEW t \in Others(s),
         \/ sentinelReceiveIsMasterDownReply(s, t)
         \/ instanceLinkCloseConnection(s, t)
         \/ HelloEpoch(s, t)
  PROVE  ElectionInv'
<1>1. t \in Sentinels
  BY DEF Others
<1>2. CASE sentinelReceiveIsMasterDownReply(s, t) \/ instanceLinkCloseConnection(s, t)
  <2>1. PICK h \in {heard[s][t], <<slink[s][t][2], slink[s][t][3]>>} :
            /\ heard' = [heard EXCEPT ![s] = [@ EXCEPT ![t] = h]]
            /\ h # heard[s][t] => slink[s][t][1] = "answer"
    <3>1. /\ heard \in [Sentinels -> [Sentinels -> (Sentinels \cup {NoOne}) \X Nat]]
          /\ t \in DOMAIN heard[s] /\ s \in DOMAIN heard
      BY <1>1 DEF ElectionInv, ElectionTypeOK
    <3>2. CASE instanceLinkCloseConnection(s, t)
      <4>1. heard = [heard EXCEPT ![s] = [@ EXCEPT ![t] = heard[s][t]]]
        BY <3>1
      <4>2. QED
        BY <3>2, <4>1 DEF instanceLinkCloseConnection
    <3>3. CASE sentinelReceiveIsMasterDownReply(s, t)
      BY <3>3 DEF sentinelReceiveIsMasterDownReply
    <3>4. QED
      BY <1>2, <3>2, <3>3
  <2>2. /\ slink' = [slink EXCEPT ![s] = [@ EXCEPT ![t] = Free]]
        /\ UNCHANGED <<current_epoch, leader, leader_epoch, failover_state,
                       failover_epoch, saved, votes, elected, starts, restarts>>
    BY <1>2 DEF sentinelReceiveIsMasterDownReply, instanceLinkCloseConnection
  <2>3. MessagesTyped
    BY DEF ElectionInv, ElectionTypeOK, MessagesTyped
  <2>4. MessagesTyped'
    <3>1. heard[s][t] \in (Sentinels \cup {NoOne}) \X Nat
      BY <1>1, <2>3 DEF MessagesTyped
    <3>2. slink[s][t] \in {"free", "question", "answer"} \X (Sentinels \cup {NoOne}) \X Nat
      BY <1>1, <2>3 DEF MessagesTyped
    <3>3. <<slink[s][t][2], slink[s][t][3]>> \in (Sentinels \cup {NoOne}) \X Nat
      BY <3>2
    <3>4. h \in (Sentinels \cup {NoOne}) \X Nat
      BY <3>1, <3>3
    <3>5. heard' \in [Sentinels -> [Sentinels -> (Sentinels \cup {NoOne}) \X Nat]]
      BY <1>1, <2>1, <2>3, <3>4 DEF MessagesTyped
    <3>6. Free \in {"free", "question", "answer"} \X (Sentinels \cup {NoOne}) \X Nat
      BY DEF Free
    <3>7. slink' \in [Sentinels -> [Sentinels ->
                        {"free", "question", "answer"} \X (Sentinels \cup {NoOne}) \X Nat]]
      BY <1>1, <2>2, <2>3, <3>6 DEF MessagesTyped
    <3>8. QED
      BY <3>5, <3>7 DEF MessagesTyped
  <2>5. ElectionTypeOK'
    BY <2>2, <2>4 DEF ElectionInv, ElectionTypeOK, MessagesTyped
  <2>6. ReportsTrue'
    <3> SUFFICES ASSUME NEW u \in Sentinels, NEW v \in Sentinels
                 PROVE  /\ heard'[u][v][1] # NoOne => <<v, heard'[u][v][2], heard'[u][v][1]>> \in votes
                        /\ slink'[u][v][1] = "answer" => <<v, slink'[u][v][3], slink'[u][v][2]>> \in votes
                        /\ slink'[u][v][1] = "question" => slink'[u][v][2] = u
      BY <2>2 DEF ElectionInv, ReportsTrue
    <3>1. heard'[u][v] = IF u = s /\ v = t THEN h ELSE heard[u][v]
      BY <1>1, <2>1, <2>3 DEF MessagesTyped
    <3>2. slink'[u][v] = IF u = s /\ v = t THEN Free ELSE slink[u][v]
      BY <1>1, <2>2, <2>3 DEF MessagesTyped
    <3>3. h[1] # NoOne => <<t, h[2], h[1]>> \in votes
      <4>1. heard[s][t][1] # NoOne => <<t, heard[s][t][2], heard[s][t][1]>> \in votes
        BY <1>1, ReportsAt
      <4>2. slink[s][t][1] = "answer" => <<t, slink[s][t][3], slink[s][t][2]>> \in votes
        BY <1>1, ReportsAt
      <4>3. CASE h = heard[s][t]
        BY <4>1, <4>3
      <4>4. CASE h # heard[s][t]
        <5>1. h = <<slink[s][t][2], slink[s][t][3]>> /\ slink[s][t][1] = "answer"
          BY <2>1, <4>4
        <5>2. h[1] = slink[s][t][2] /\ h[2] = slink[s][t][3]
          BY <5>1
        <5>3. QED
          BY <4>2, <5>1, <5>2
      <4>5. QED
        BY <4>3, <4>4
    <3>4. /\ heard[u][v][1] # NoOne => <<v, heard[u][v][2], heard[u][v][1]>> \in votes
          /\ slink[u][v][1] = "answer" => <<v, slink[u][v][3], slink[u][v][2]>> \in votes
          /\ slink[u][v][1] = "question" => slink[u][v][2] = u
      BY ReportsAt
    <3>5. CASE u = s /\ v = t
      <4>1. heard'[u][v] = h /\ slink'[u][v] = Free
        BY <3>1, <3>2, <3>5
      <4>2. slink'[u][v][1] = "free"
        BY <4>1 DEF Free
      <4>3. QED
        BY <3>3, <3>5, <4>1, <4>2
    <3>6. CASE ~(u = s /\ v = t)
      <4>1. heard'[u][v] = heard[u][v] /\ slink'[u][v] = slink[u][v]
        BY <3>1, <3>2, <3>6
      <4>2. QED
        BY <3>4, <4>1
    <3>7. QED
      BY <3>5, <3>6
  <2>7. EpochsOrdered' /\ VotesPast' /\ VotesOncePerEpoch' /\ ElectedByMajority'
    BY <2>2 DEF ElectionInv, EpochsOrdered, VotesPast, VotesOncePerEpoch, ElectedByMajority, VotersOf
  <2>8. QED
    BY <2>5, <2>6, <2>7 DEF ElectionInv
<1>3. CASE HelloEpoch(s, t)
  <2>1. PICK e \in current_epoch[t] + 1 .. current_epoch[s] :
            /\ current_epoch' = [current_epoch EXCEPT ![t] = e]
            /\ saved' = [saved EXCEPT ![t] = <<e, leader_epoch[t]>>]
    BY <1>3 DEF HelloEpoch
  <2>2. UNCHANGED <<leader, leader_epoch, failover_state, failover_epoch,
                    heard, slink, votes, elected, starts, restarts>>
    BY <1>3 DEF HelloEpoch
  <2>3. e \in Nat /\ e >= current_epoch[t] /\ current_epoch[t] \in Nat
    BY <1>1, <2>1 DEF ElectionInv, ElectionTypeOK
  <2>4. ElectionTypeOK'
    BY <1>1, <2>1, <2>2, <2>3 DEF ElectionInv, ElectionTypeOK
  <2>5. EpochsOrdered'
    <3>1. failover_epoch'[t] <= e /\ OldVote(t, e)
      BY <1>1, <2>1, <2>2, <2>3 DEF OldVote, ElectionInv, ElectionTypeOK, EpochsOrdered
    <3>2. QED
      BY <1>1, <2>1, <2>2, <2>3, <2>4, <3>1, VoteOrders DEF ElectionTypeOK
  <2>6. VotesPast' /\ VotesOncePerEpoch' /\ ElectedByMajority' /\ ReportsTrue'
    BY <2>2 DEF ElectionInv, VotesPast, VotesOncePerEpoch, ElectedByMajority, VotersOf, ReportsTrue
  <2>7. QED
    BY <2>4, <2>5, <2>6 DEF ElectionInv
<1>4. QED
  BY <1>2, <1>3

\* A switch of the master and a restart forget the vote but not its epoch.
LEMMA ForgettingKeeps ==
  ASSUME ElectionInv, NEW s \in Sentinels, SwitchMaster(s) \/ RestartSentinel(s)
  PROVE  ElectionInv'
<1>1. /\ saved[s] = <<current_epoch[s], leader_epoch[s]>>
      /\ current_epoch \in [Sentinels -> Nat] /\ leader_epoch \in [Sentinels -> Nat]
      /\ saved \in [Sentinels -> Nat \X Nat]
  BY DEF ElectionInv, ElectionTypeOK, EpochsOrdered
<1>2. /\ current_epoch' = current_epoch /\ leader_epoch' = leader_epoch /\ saved' = saved
      /\ leader' = [leader EXCEPT ![s] = NoOne]
      /\ failover_state' = [failover_state EXCEPT ![s] = "none"]
      /\ UNCHANGED <<votes, elected, starts>>
  BY <1>1 DEF SwitchMaster, RestartSentinel
<1>3. failover_epoch' = failover_epoch \/ failover_epoch' = [failover_epoch EXCEPT ![s] = 0]
  BY DEF SwitchMaster, RestartSentinel
<1>4. MessagesTyped
  BY DEF ElectionInv, ElectionTypeOK, MessagesTyped
<1>5. /\ MessagesTyped'
      /\ \A u, t \in Sentinels : heard'[u][t] \in {heard[u][t], NoVote}
      /\ \A u, t \in Sentinels : slink'[u][t] \in {slink[u][t], Free}
  <2>1. CASE SwitchMaster(s)
    BY <1>4, <2>1 DEF SwitchMaster, MessagesTyped
  <2>2. CASE RestartSentinel(s)
    BY <1>4, <2>2 DEF RestartSentinel, MessagesTyped, NoVote, Free
  <2>3. QED
    BY <2>1, <2>2
<1>6. restarts' \in Nat
  BY DEF SwitchMaster, RestartSentinel, ElectionInv, ElectionTypeOK
<1>7. ElectionTypeOK'
  <2>1. leader' \in [Sentinels -> Sentinels \cup {NoOne}]
    BY <1>2 DEF ElectionInv, ElectionTypeOK
  <2>2. failover_state' \in [Sentinels -> {"none", "wait_start", "acting"}]
    BY <1>2 DEF ElectionInv, ElectionTypeOK
  <2>3. failover_epoch \in [Sentinels -> Nat]
    BY DEF ElectionInv, ElectionTypeOK
  <2>4. failover_epoch' \in [Sentinels -> Nat]
    BY <1>3, <2>3
  <2>5. votes' \subseteq Sentinels \X Nat \X Sentinels /\ elected' \subseteq Sentinels \X Nat \X Nat
        /\ starts' \in Nat
    BY <1>2 DEF ElectionInv, ElectionTypeOK
  <2>6. QED
    BY <1>1, <1>2, <1>5, <1>6, <2>1, <2>2, <2>4, <2>5 DEF ElectionTypeOK, MessagesTyped
<1>8. EpochsOrdered'
  <2>1. failover_epoch \in [Sentinels -> Nat]
    BY DEF ElectionInv, ElectionTypeOK
  <2>2. SUFFICES ASSUME NEW u \in Sentinels
                 PROVE  /\ leader_epoch[u] <= current_epoch[u]
                        /\ failover_epoch'[u] <= current_epoch[u]
                        /\ saved[u] = <<current_epoch[u], leader_epoch[u]>>
    BY <1>2 DEF EpochsOrdered
  <2>3. /\ leader_epoch[u] <= current_epoch[u] /\ failover_epoch[u] <= current_epoch[u]
        /\ saved[u] = <<current_epoch[u], leader_epoch[u]>>
    BY DEF ElectionInv, EpochsOrdered
  <2>4. failover_epoch'[u] = failover_epoch[u] \/ failover_epoch'[u] = 0
    BY <1>3, <2>1
  <2>5. current_epoch[u] \in Nat
    BY <1>1
  <2>6. QED
    BY <2>3, <2>4, <2>5, SMTT(30)
<1>9. ReportsTrue'
  <2> SUFFICES ASSUME NEW u \in Sentinels, NEW v \in Sentinels
               PROVE  /\ leader'[u] # NoOne => <<u, leader_epoch[u], leader'[u]>> \in votes
                      /\ heard'[u][v][1] # NoOne => <<v, heard'[u][v][2], heard'[u][v][1]>> \in votes
                      /\ slink'[u][v][1] = "answer" => <<v, slink'[u][v][3], slink'[u][v][2]>> \in votes
                      /\ slink'[u][v][1] = "question" => slink'[u][v][2] = u
    BY <1>2 DEF ReportsTrue
  <2>1. leader'[u] = NoOne \/ leader'[u] = leader[u]
    BY <1>2 DEF ElectionInv, ElectionTypeOK
  <2>2. heard'[u][v] = heard[u][v] \/ heard'[u][v] = NoVote
    BY <1>5
  <2>3. slink'[u][v] = slink[u][v] \/ slink'[u][v] = Free
    BY <1>5
  <2>4. /\ leader[u] # NoOne => <<u, leader_epoch[u], leader[u]>> \in votes
        /\ heard[u][v][1] # NoOne => <<v, heard[u][v][2], heard[u][v][1]>> \in votes
        /\ slink[u][v][1] = "answer" => <<v, slink[u][v][3], slink[u][v][2]>> \in votes
        /\ slink[u][v][1] = "question" => slink[u][v][2] = u
    BY ReportsAt
  <2>5. NoVote[1] = NoOne /\ Free[1] = "free"
    BY DEF NoVote, Free
  <2>6. leader'[u] # NoOne => <<u, leader_epoch[u], leader'[u]>> \in votes
    BY <2>1, <2>4
  <2>7. heard'[u][v][1] # NoOne => <<v, heard'[u][v][2], heard'[u][v][1]>> \in votes
    BY <2>2, <2>4, <2>5
  <2>8. /\ slink'[u][v][1] = "answer" => <<v, slink'[u][v][3], slink'[u][v][2]>> \in votes
        /\ slink'[u][v][1] = "question" => slink'[u][v][2] = u
    BY <2>3, <2>4, <2>5
  <2>9. QED
    BY <2>6, <2>7, <2>8
<1>10. VotesPast' /\ VotesOncePerEpoch' /\ ElectedByMajority'
  BY <1>2 DEF ElectionInv, VotesPast, VotesOncePerEpoch, ElectedByMajority, VotersOf
<1>11. QED
  BY <1>7, <1>8, <1>9, <1>10 DEF ElectionInv
-------------------------------------------------------------------------------
\* The invariant holds in every state: votes are cast once per epoch, reported
\* truly and survive restarts, and elections had majorities.
THEOREM ElectionInvariant == ElectionSpec => []ElectionInv
<1>1. ElectionInit => ElectionInv
  BY DEF ElectionInit, ElectionInv, ElectionTypeOK, EpochsOrdered, VotesPast,
         VotesOncePerEpoch, ReportsTrue, ElectedByMajority, NoVote, Free
<1>2. ElectionInv /\ [ElectionNext]_electionVars => ElectionInv'
  <2> SUFFICES ASSUME ElectionInv, [ElectionNext]_electionVars PROVE ElectionInv'
    OBVIOUS
  <2>1. CASE UNCHANGED electionVars
    BY <2>1 DEF electionVars, ElectionInv, ElectionTypeOK, EpochsOrdered, VotesPast,
                VotesOncePerEpoch, ReportsTrue, ElectedByMajority, VotersOf
  <2>2. QED
    BY <2>1, TickKeeps, AnswerKeeps, MessagesKeep, ForgettingKeeps DEF ElectionNext
<1>3. QED
  BY <1>1, <1>2, PTL DEF ElectionSpec

\* No Sentinel votes for two candidates in one epoch: sentinelVoteLeader() goes
\* by the epoch of the last vote, which it saves before it answers.
THEOREM VotesOnce == ElectionSpec => []VotesOncePerEpoch
BY ElectionInvariant, PTL DEF ElectionInv

\* Two Sentinels never win the same epoch, for any number of Sentinels and any
\* quorum: both would have a majority, and some Sentinel would have voted twice.
THEOREM OneLeader == ElectionSpec => []OneLeaderPerEpoch
<1>1. ElectionInv => OneLeaderPerEpoch
  <2> SUFFICES ASSUME ElectionInv, NEW a \in elected, NEW b \in elected,
                      a[2] = a[3], b[2] = b[3], a[2] = b[2]
               PROVE  a[1] = b[1]
    BY DEF OneLeaderPerEpoch
  <2> DEFINE A == VotersOf(a[2], a[1])
             B == VotersOf(b[2], b[1])
  <2>1. /\ IsFiniteSet(Sentinels) /\ A \subseteq Sentinels /\ B \subseteq Sentinels
    BY ElectionAssumption DEF VotersOf
  <2>2. /\ Cardinality(A) >= (Cardinality(Sentinels) \div 2) + 1
        /\ Cardinality(B) >= (Cardinality(Sentinels) \div 2) + 1
    BY DEF ElectionInv, ElectedByMajority
  <2>3. /\ Cardinality(Sentinels) \in Nat /\ Cardinality(A) \in Nat /\ Cardinality(B) \in Nat
    BY <2>1, FS_Subset, FS_CardinalityType
  <2>4. Cardinality(A) + Cardinality(B) > Cardinality(Sentinels)
    BY <2>2, <2>3
  <2>5. PICK t \in Sentinels : t \in A /\ t \in B
    <3>1. A \cap B # {}
      BY <2>1, <2>4, FS_MajoritiesIntersect
    <3>2. QED
      BY <2>1, <3>1
  <2>6. QED
    BY <2>5 DEF VotersOf, ElectionInv, VotesOncePerEpoch
<1>2. QED
  BY <1>1, ElectionInvariant, PTL
===============================================================================
