--------------------------- MODULE SentinelElection ---------------------------
(***************************************************************************)
(* How the Sentinels that watch one Redis master choose which of them      *)
(* fails it over (redis-stable/src/sentinel.c).                            *)
(*                                                                         *)
(* Every Sentinel runs a timer (Tick, one call of                          *)
(* sentinelHandleRedisInstance() on the master) and handles the questions, *)
(* the answers and the hello messages of the others.  Time is abstracted:  *)
(* a Tick may find each of its deadlines passed or not, and the master in  *)
(* O_DOWN or not, so what is checked holds for every timing and every      *)
(* opinion about the master.  A command link carries one question or       *)
(* answer at a time and may lose it.  Questions that seek no vote (the "*" *)
(* of the protocol) and answers that hold none change nothing here and are *)
(* left out.  All Sentinels know each other, as they do once discovery is  *)
(* over; SENTINEL RESET, REMOVE and MONITOR forget Sentinels and are left  *)
(* out.                                                                    *)
(***************************************************************************)
EXTENDS Naturals, FiniteSets

CONSTANTS Sentinels,    \* the Sentinels monitoring the master
          NoOne,        \* the NULL leader
          Quorum,       \* master->quorum
          MaxStarts,    \* bound: failovers started
          MaxRestarts,  \* bound: restarts of Sentinels
          MaxInFlight   \* bound: links with a question or an answer on them

ASSUME ElectionAssumption ==
    /\ IsFiniteSet(Sentinels)
    /\ NoOne \notin Sentinels
    /\ Quorum \in Nat
    /\ MaxStarts \in Nat
    /\ MaxRestarts \in Nat
    /\ MaxInFlight \in Nat

VARIABLES
    current_epoch,   \* sentinel.current_epoch
    leader,          \* master->leader: whom this Sentinel voted for
    leader_epoch,    \* master->leader_epoch: the epoch of that vote
    failover_state,  \* master->failover_state; "acting" is SELECT_SLAVE and later
    failover_epoch,  \* master->failover_epoch
    heard,           \* the vote <<candidate, epoch>> each other Sentinel reported
    slink,           \* the command link to each other Sentinel
    saved,           \* <<current-epoch, leader-epoch>> of the config file
    votes,           \* history: <<voter, epoch, candidate>> ever cast
    elected,         \* history: <<Sentinel, failover epoch, epoch of the votes>>
    starts,
    restarts

electionVars == <<current_epoch, leader, leader_epoch, failover_state,
                  failover_epoch, heard, slink, saved, votes, elected, starts,
                  restarts>>

Others(s) == Sentinels \ {s}

NoVote == <<NoOne, 0>>
Free == <<"free", NoOne, 0>>
Question(s, epoch) == <<"question", s, epoch>>
Answer(vote) == <<"answer", vote[1], vote[2]>>

ElectionTypeOK ==
    /\ current_epoch \in [Sentinels -> Nat]
    /\ leader \in [Sentinels -> Sentinels \cup {NoOne}]
    /\ leader_epoch \in [Sentinels -> Nat]
    /\ failover_state \in [Sentinels -> {"none", "wait_start", "acting"}]
    /\ failover_epoch \in [Sentinels -> Nat]
    /\ heard \in [Sentinels -> [Sentinels -> (Sentinels \cup {NoOne}) \X Nat]]
    /\ slink \in [Sentinels -> [Sentinels ->
           {"free", "question", "answer"} \X (Sentinels \cup {NoOne}) \X Nat]]
    /\ saved \in [Sentinels -> Nat \X Nat]
    /\ votes \subseteq Sentinels \X Nat \X Sentinels
    /\ elected \subseteq Sentinels \X Nat \X Nat
    /\ starts \in Nat
    /\ restarts \in Nat

ElectionInit ==
    /\ current_epoch = [s \in Sentinels |-> 0]
    /\ leader = [s \in Sentinels |-> NoOne]
    /\ leader_epoch = [s \in Sentinels |-> 0]
    /\ failover_state = [s \in Sentinels |-> "none"]
    /\ failover_epoch = [s \in Sentinels |-> 0]
    /\ heard = [s \in Sentinels |-> [t \in Sentinels |-> NoVote]]
    /\ slink = [s \in Sentinels |-> [t \in Sentinels |-> Free]]
    /\ saved = [s \in Sentinels |-> <<0, 0>>]
    /\ votes = {}
    /\ elected = {}
    /\ starts = 0
    /\ restarts = 0
-----------------------------------------------------------------------------
(***************************************************************************)
(* Voting                                                                  *)
(***************************************************************************)

\* Asked for a vote at epoch req: a later epoch is adopted first.
Adopt(cur, req) == IF req > cur THEN req ELSE cur

\* Mutant: the epoch of the last vote may be voted in again.
VoteAgain(cur, le, req) == le <= req /\ cur <= req

\* Whether a Sentinel at epoch cur, whose last vote has epoch le, votes anew.
sentinelVoteLeader(cur, le, req) == le < req /\ cur <= req

\* s votes for id if it may (cur is the epoch it has adopted), and saves the
\* config file when it did or when its epoch changed.
Vote(s, cur, req, id) ==
    IF sentinelVoteLeader(cur, leader_epoch[s], req)
    THEN /\ leader' = [leader EXCEPT ![s] = id]
         /\ leader_epoch' = [leader_epoch EXCEPT ![s] = cur]
         /\ votes' = votes \cup {<<s, cur, id>>}
         /\ saved' = [saved EXCEPT ![s] = <<cur, cur>>]
    ELSE /\ saved' = IF req > current_epoch[s]
                     THEN [saved EXCEPT ![s] = <<cur, leader_epoch[s]>>]
                     ELSE saved
         /\ UNCHANGED <<leader, leader_epoch, votes>>

\* The others that reported a vote for c of epoch cur.
VotesFor(s, cur, c) == {t \in Others(s) : heard[s][t] = <<c, cur>>}

\* Where the first pass of sentinelGetLeader() may stop: at a candidate with the
\* most reported votes; the order of the dictionary breaks ties.
MostVoted(s, cur) ==
    {c \in Sentinels : /\ VotesFor(s, cur, c) # {}
                       /\ \A d \in Sentinels : Cardinality(VotesFor(s, cur, d))
                                            <= Cardinality(VotesFor(s, cur, c))}

\* The votes sentinelGetLeader() counts for s at epoch cur: the reported ones,
\* and its own vote if it is for s and has the epoch of the failover.
OwnVote(s, own, ownEpoch, epoch) == IF own = s /\ ownEpoch = epoch THEN 1 ELSE 0

\* Mutant: half of the voters are enough.
HalfWins(s, cur, epoch, own, ownEpoch) ==
    LET count == Cardinality(VotesFor(s, cur, s)) + OwnVote(s, own, ownEpoch, epoch)
    IN count >= Cardinality(Sentinels) \div 2 /\ count >= Quorum

\* Whether sentinelGetLeader() returns s: no other can have as many votes then.
Wins(s, cur, epoch, own, ownEpoch) ==
    LET count == Cardinality(VotesFor(s, cur, s)) + OwnVote(s, own, ownEpoch, epoch)
    IN /\ count >= (Cardinality(Sentinels) \div 2) + 1
       /\ count >= Quorum
-----------------------------------------------------------------------------
(***************************************************************************)
(* The timer                                                               *)
(***************************************************************************)

\* sentinelStartFailover() for a master in O_DOWN: a new epoch, saved by the
\* vote that follows in the same call of the timer.
Start(s) ==
    /\ failover_state[s] = "none"
    /\ starts < MaxStarts

\* sentinelFailoverWaitStart() for a failover of the given epoch, at current
\* epoch cur: votes, then acts if it won, waits, or gives up when it is late.
sentinelFailoverWaitStart(s, cur, epoch) ==
    /\ \E id \in IF MostVoted(s, cur) = {} THEN {s} ELSE MostVoted(s, cur) :
           Vote(s, cur, epoch, id)
    /\ IF Wins(s, cur, epoch, leader'[s], leader_epoch'[s])
       THEN /\ elected' = elected \cup {<<s, epoch, cur>>}
            /\ failover_state' = [failover_state EXCEPT ![s] = "acting"]
       ELSE /\ UNCHANGED elected
            /\ \E next \in {"none", "wait_start"} :
                   failover_state' = [failover_state EXCEPT ![s] = next]

\* sentinelAskMasterStateToOtherSentinels(): asks on free links, with the
\* current epoch, for a vote while a failover is in progress.
AskOthers(s, asked, cur) ==
    slink' = [slink EXCEPT ![s] = [t \in Sentinels |->
                 IF t \in asked /\ failover_state'[s] # "none"
                 THEN Question(s, cur) ELSE slink[s][t]]]

\* ... after forgetting the votes that are too old.
ForgetStale(s, stale) ==
    heard' = [heard EXCEPT ![s] = [t \in Sentinels |->
                 IF t \in stale THEN NoVote ELSE heard[s][t]]]

InFlight == Cardinality({p \in Sentinels \X Sentinels : slink[p[1]][p[2]] # Free})

\* One call of sentinelHandleRedisInstance() on the master.
Tick(s) ==
    \E asked \in SUBSET {t \in Others(s) : slink[s][t] = Free},
       stale \in SUBSET {t \in Others(s) : heard[s][t] # NoVote} :
        /\ asked # {} => InFlight + Cardinality(asked) <= MaxInFlight
        /\ \/ /\ Start(s)
              /\ starts' = starts + 1
              /\ current_epoch' = [current_epoch EXCEPT ![s] = @ + 1]
              /\ failover_epoch' = [failover_epoch EXCEPT ![s] = current_epoch[s] + 1]
              /\ sentinelFailoverWaitStart(s, current_epoch[s] + 1, current_epoch[s] + 1)
           \/ /\ failover_state[s] = "wait_start"
              /\ sentinelFailoverWaitStart(s, current_epoch[s], failover_epoch[s])
              /\ UNCHANGED <<current_epoch, failover_epoch, starts>>
           \/ /\ failover_state[s] = "acting"
              /\ \E next \in {"acting", "none"} :
                     failover_state' = [failover_state EXCEPT ![s] = next]
              /\ UNCHANGED <<current_epoch, failover_epoch, leader, leader_epoch,
                             saved, votes, elected, starts>>
           \/ /\ failover_state[s] = "none"
              /\ stale # {}
              /\ UNCHANGED <<current_epoch, failover_state, failover_epoch, leader,
                             leader_epoch, saved, votes, elected, starts>>
        /\ ForgetStale(s, stale)
        /\ AskOthers(s, asked, current_epoch'[s])
        /\ UNCHANGED restarts

\* The master's address changes, at the end of this Sentinel's failover or
\* because of a hello, so once some Sentinel was elected:
\* sentinelResetMasterAndChangeAddress() forgets whom the Sentinel voted for, not
\* the epoch of the vote, and saves the configuration.
SwitchMaster(s) ==
    /\ elected # {}
    /\ leader' = [leader EXCEPT ![s] = NoOne]
    /\ failover_state' = [failover_state EXCEPT ![s] = "none"]
    /\ saved' = [saved EXCEPT ![s] = <<current_epoch[s], leader_epoch[s]>>]
    /\ UNCHANGED <<current_epoch, leader_epoch, failover_epoch, heard, slink,
                   votes, elected, starts, restarts>>
-----------------------------------------------------------------------------
(***************************************************************************)
(* Messages and faults                                                     *)
(***************************************************************************)

\* t answers SENTINEL IS-MASTER-DOWN-BY-ADDR of s with its vote, new or old.
AnswerQuestion(s, t) ==
    /\ slink[s][t][1] = "question"
    /\ LET req == slink[s][t][3]
           cur == Adopt(current_epoch[t], req)
       IN /\ current_epoch' = [current_epoch EXCEPT ![t] = cur]
          /\ Vote(t, cur, req, slink[s][t][2])
          /\ slink' = [slink EXCEPT ![s] = [@ EXCEPT ![t] =
                 IF leader'[t] = NoOne THEN Free
                 ELSE Answer(<<leader'[t], leader_epoch'[t]>>)]]
    /\ UNCHANGED <<failover_state, failover_epoch, heard, elected, starts, restarts>>

\* s takes the vote in the answer of t.
sentinelReceiveIsMasterDownReply(s, t) ==
    /\ slink[s][t][1] = "answer"
    /\ heard' = [heard EXCEPT ![s] = [@ EXCEPT ![t] =
                    <<slink[s][t][2], slink[s][t][3]>>]]
    /\ slink' = [slink EXCEPT ![s] = [@ EXCEPT ![t] = Free]]
    /\ UNCHANGED <<current_epoch, leader, leader_epoch, failover_state,
                   failover_epoch, saved, votes, elected, starts, restarts>>

\* The link is closed, or t does not know the master's address and holds no
\* vote: what the link carried is lost.
instanceLinkCloseConnection(s, t) ==
    /\ slink[s][t] # Free
    /\ slink' = [slink EXCEPT ![s] = [@ EXCEPT ![t] = Free]]
    /\ UNCHANGED <<current_epoch, leader, leader_epoch, failover_state,
                   failover_epoch, heard, saved, votes, elected, starts, restarts>>

\* t processes a hello of s, perhaps an old one, that carries a later epoch.
HelloEpoch(s, t) ==
    \E e \in current_epoch[t] + 1 .. current_epoch[s] :
        /\ current_epoch' = [current_epoch EXCEPT ![t] = e]
        /\ saved' = [saved EXCEPT ![t] = <<e, leader_epoch[t]>>]
        /\ UNCHANGED <<leader, leader_epoch, failover_state, failover_epoch,
                       heard, slink, votes, elected, starts, restarts>>

\* s stops and starts again with what its config file holds.
RestartSentinel(s) ==
    /\ restarts < MaxRestarts
    /\ restarts' = restarts + 1
    /\ current_epoch' = [current_epoch EXCEPT ![s] = saved[s][1]]
    /\ leader' = [leader EXCEPT ![s] = NoOne]
    /\ leader_epoch' = [leader_epoch EXCEPT ![s] = saved[s][2]]
    /\ failover_state' = [failover_state EXCEPT ![s] = "none"]
    /\ failover_epoch' = [failover_epoch EXCEPT ![s] = 0]
    /\ heard' = [heard EXCEPT ![s] = [t \in Sentinels |-> NoVote]]
    /\ slink' = [u \in Sentinels |-> [t \in Sentinels |->
                    IF u = s \/ t = s THEN Free ELSE slink[u][t]]]
    /\ UNCHANGED <<saved, votes, elected, starts>>

ElectionNext ==
    \/ \E s \in Sentinels : Tick(s) \/ SwitchMaster(s) \/ RestartSentinel(s)
    \/ \E s \in Sentinels : \E t \in Others(s) :
           \/ AnswerQuestion(s, t)
           \/ sentinelReceiveIsMasterDownReply(s, t)
           \/ instanceLinkCloseConnection(s, t)
           \/ HelloEpoch(s, t)

ElectionSpec == ElectionInit /\ [][ElectionNext]_electionVars
-----------------------------------------------------------------------------
\* A Sentinel votes once per epoch, whatever it forgets: sentinelVoteLeader()
\* goes by the epoch of the last vote, which survives a switch of the master,
\* where the vote itself is cleared, and a restart, where it is read back.
VotesOncePerEpoch ==
    \A v, w \in votes : v[1] = w[1] /\ v[2] = w[2] => v[3] = w[3]

\* No two Sentinels win in sentinelFailoverWaitStart() the failover of the same
\* epoch with votes of that epoch.
OneLeaderPerEpoch ==
    \A a, b \in elected :
        a[2] = a[3] /\ b[2] = b[3] /\ a[2] = b[2] => a[1] = b[1]
-----------------------------------------------------------------------------
\* Why there is one leader: a Sentinel votes only at an epoch later than that of
\* its last vote, which the config file holds too; what it is believed to have
\* voted, by itself, in answers on the way and by those that received one, it did
\* vote; and an election of an epoch had a majority of the votes of that epoch.
EpochsOrdered ==
    \A s \in Sentinels : /\ leader_epoch[s] <= current_epoch[s]
                         /\ failover_epoch[s] <= current_epoch[s]
                         /\ saved[s] = <<current_epoch[s], leader_epoch[s]>>

VotesPast == \A v \in votes : v[2] <= leader_epoch[v[1]]

ReportsTrue ==
    \A s \in Sentinels :
        /\ leader[s] # NoOne => <<s, leader_epoch[s], leader[s]>> \in votes
        /\ \A t \in Sentinels :
              /\ heard[s][t][1] # NoOne => <<t, heard[s][t][2], heard[s][t][1]>> \in votes
              /\ slink[s][t][1] = "answer" => <<t, slink[s][t][3], slink[s][t][2]>> \in votes
              /\ slink[s][t][1] = "question" => slink[s][t][2] = s

VotersOf(epoch, c) == {t \in Sentinels : <<t, epoch, c>> \in votes}

ElectedByMajority ==
    \A x \in elected :
        x[2] = x[3] => Cardinality(VotersOf(x[2], x[1])) >= (Cardinality(Sentinels) \div 2) + 1

ElectionInv ==
    /\ ElectionTypeOK
    /\ EpochsOrdered
    /\ VotesPast
    /\ VotesOncePerEpoch
    /\ ReportsTrue
    /\ ElectedByMajority
=============================================================================
