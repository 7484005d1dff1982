------------------------------ MODULE MCCluster ------------------------------
(***************************************************************************)
(* The machines of several servers, and two data structures, each run on   *)
(* its own: machine says which one moves, and the others stay in their     *)
(* initial states.                                                         *)
(***************************************************************************)
EXTENDS Replication, Migrate, ClusterFailover, Quicklist, Skiplist

CONSTANT Machines

VARIABLE machine

\* Server 2 is a slave of server 1.
MCHosts == <<0, 1>>
MCReplBudgets == {<<TRUE, 2, 0, 1>>, <<FALSE, 2, 0, 1>>, <<FALSE, 1, 1, 1>>}

\* MIGRATE of one key, and of two with KEYS, to a database the target has, to
\* one it has not, and to -1, the last_dbid of a new socket.
MCOrders == {<<1>>, <<1, 2>>}
MCDbids == {-1, 0, 1, 9}
MCMigBudgets == {<<2, 2, 1>>}

\* Three masters with a slot each; 4 and 5 are slaves of 1, which has failed.
MCOwner == <<1, 2, 3>>
MCMaster == <<0, 0, 0, 1, 1>>

\* Elections, restarts, takeovers, pings, failures and packets of a run.
MCBudgets == {<<2, 0, 0, 0, 0, 3>>, <<1, 1, 0, 0, 1, 2>>, <<0, 1, 1, 0, 0, 3>>,
              <<0, 0, 1, 1, 0, 3>>, <<0, 0, 2, 0, 0, 3>>, <<1, 0, 0, 1, 0, 2>>}

MCFills == {2, -1}
MCOptimization == <<2, 3, 4, 5, 6>>

-----------------------------------------------------------------------------
clusterVars == <<machine, replVars, migVars, failoverVars, quicklistVars, skiplistVars>>

\* A machine that does not run has no servers, no nodes and nothing to do.
NoReplication == srv = <<>> /\ link = <<>> /\ waiting = <<>> /\ replied = TRUE /\ todo = <<>>
NoFailover == /\ view = <<>> /\ disk = <<>> /\ packets = {} /\ ballots = {} /\ won = {}
              /\ forgot = FALSE /\ left = <<>>
NoMigration == /\ source = <<>> /\ replica = <<>> /\ target = <<>> /\ sock = NoSocket
               /\ orphans = {} /\ mig = NoMigrate /\ restored = {} /\ removed = {} /\ migTodo = <<>>
NoQuicklist == ql = quicklistNew(1, 0) /\ contents = <<>>

ClusterInit ==
    /\ machine \in Machines
    /\ IF machine = "replication" THEN ReplInit ELSE NoReplication
    /\ IF machine = "migrate" THEN MigrateInit ELSE NoMigration
    /\ IF machine = "failover" THEN FailoverInit ELSE NoFailover
    /\ IF machine = "quicklist" THEN QuicklistInit ELSE NoQuicklist
    /\ SkiplistInit

ClusterNext ==
    \/ /\ machine = "replication" /\ ReplNext
       /\ UNCHANGED <<machine, migVars, failoverVars, quicklistVars, skiplistVars>>
    \/ /\ machine = "migrate" /\ MigrateNext
       /\ UNCHANGED <<machine, replVars, failoverVars, quicklistVars, skiplistVars>>
    \/ /\ machine = "failover" /\ FailoverNext
       /\ UNCHANGED <<machine, replVars, migVars, quicklistVars, skiplistVars>>
    \/ /\ machine = "quicklist" /\ QuicklistNext
       /\ UNCHANGED <<machine, replVars, migVars, failoverVars, skiplistVars>>
    \/ /\ machine = "skiplist" /\ SkiplistNext
       /\ UNCHANGED <<machine, replVars, migVars, failoverVars, quicklistVars>>

ClusterSpec == ClusterInit /\ [][ClusterNext]_clusterVars

=============================================================================
