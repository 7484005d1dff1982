------------------------------ MODULE Replication -------------------------------
(***************************************************************************)
(* Master-slave replication, redis-stable/src/replication.c with the RDB   *)
(* child of rdb.c and the master client of networking.c: full and partial  *)
(* resynchronization, the circular backlog, chained slaves, WAIT, SLAVEOF, *)
(* broken links and restarts.                                              *)
(*                                                                         *)
(* A dataset is the sequence of the writes applied to it, each with its    *)
(* database.  The replication stream is a sequence of bytes: a SELECT, a   *)
(* PING and a REPLCONF GETACK are one byte, a write is two, so that a read *)
(* can end inside a command.  link[s] is the connection of server s to its *)
(* master, with the client structure the master keeps for it.  The steps   *)
(* of the handshake before PSYNC are one step here.                        *)
(***************************************************************************)
EXTENDS Integers, Sequences, FiniteSets
LOCAL INSTANCE SequencesExt

CONSTANTS Servers, Hosts, ReplDbs, BacklogSize,
          ReplBudgets   \* bounds: <<diskless sync, writes, WAITs, other events>>

VARIABLES srv,      \* the servers
          link,     \* their connections to their masters
          waiting,  \* server.clients_waiting_acks of all servers
          replied,  \* the last reply of WAIT was true
          todo      \* what is left of the budget of the run

replVars == <<srv, link, waiting, replied, todo>>
World == [srv |-> srv, link |-> link, waiting |-> waiting, replied |-> replied]

Nobody == 0
Byte0 == <<"none", 0>>
NoWrite == <<-1, 0>>
NoBacklog == [on |-> FALSE, buf |-> <<>>, idx |-> 0, histlen |-> 0, off |-> 0]
NoMaster == [on |-> FALSE, reploff |-> 0, runid |-> 0, db |-> 0, querybuf |-> <<>>, pre |-> FALSE]
NoChild == [type |-> "none", data |-> <<>>]
NoClient == [state |-> "none", buf |-> <<>>, initoff |-> 0, ackoff |-> 0, onack |-> FALSE,
             pre |-> FALSE, file |-> <<>>]
Down == [up |-> FALSE, closing |-> FALSE, cmd |-> <<>>, wire |-> <<>>, client |-> NoClient]

Runid(W, s) == 10 * s + W.srv[s].run
SlavesOf(W, m) == {s \in Servers : W.srv[s].host = m /\ W.link[s].client.state # "none"}
InState(W, m, state) == {s \in SlavesOf(W, m) : W.link[s].client.state = state}

ForEach(Op(_, _), W, S) == FoldSet(Op, W, S)
ToWire(W, s, bytes) == [W EXCEPT !.link[s].wire = @ \o bytes]

-------------------------------------------------------------------------------
(* The master's side.                                                      *)
createReplicationBacklog(W, m) ==
    [W EXCEPT !.srv[m].off = @ + 1,
              !.srv[m].backlog = [on |-> TRUE, buf |-> [i \in 1 .. BacklogSize |-> Byte0], idx |-> 0,
                                  histlen |-> 0, off |-> W.srv[m].off + 2]]

freeReplicationBacklog(W, m) == [W EXCEPT !.srv[m].backlog = NoBacklog]

FeedByte(b, byte) ==
    LET next == b.idx + 1
    IN  [b EXCEPT !.buf = ReplaceAt(@, next, byte),
                  !.idx = IF next = BacklogSize THEN 0 ELSE next, !.histlen = @ + 1]

feedReplicationBacklog(W, m, bytes) ==
    LET off == W.srv[m].off + Len(bytes)
        b == FoldLeft(FeedByte, W.srv[m].backlog, bytes)
        histlen == IF b.histlen > BacklogSize THEN BacklogSize ELSE b.histlen
    IN  [W EXCEPT !.srv[m].off = off,
                  !.srv[m].backlog = [b EXCEPT !.histlen = histlen, !.off = off - histlen + 1]]

(* Output of a slave that is not online accumulates in its buffer.         *)
addReply(W, s, bytes) ==
    IF W.link[s].client.state = "online" /\ ~W.link[s].client.onack THEN ToWire(W, s, bytes)
    ELSE [W EXCEPT !.link[s].client.buf = @ \o bytes]

replicationFeedSlaves(W, m, db, cmd) ==
    LET select == IF W.srv[m].seldb # db THEN << <<"select", db>> >> ELSE <<>>
        bytes == select \o cmd
        V == [W EXCEPT !.srv[m].seldb = db]
        fed == IF W.srv[m].backlog.on THEN feedReplicationBacklog(V, m, bytes) ELSE V
    IN  IF ~W.srv[m].backlog.on /\ SlavesOf(W, m) = {} THEN W
        ELSE ForEach(LAMBDA s, X : addReply(X, s, bytes), fed,
                     SlavesOf(W, m) \ InState(W, m, "wait_bgsave_start"))

(* A write of any origin: call() applies and propagates it.                *)
Execute(W, m, db, n) ==
    replicationFeedSlaves([W EXCEPT !.srv[m].data = Append(@, <<db, n>>)], m, db,
                          << <<"w1", n>>, <<"w2", n>> >>)

addReplyReplicationBacklog(W, m, s, offset) ==
    LET b == W.srv[m].backlog
        skip == offset - b.off
        first == (b.idx + (BacklogSize - b.histlen)) % BacklogSize
        j == (first + skip) % BacklogSize
        len == b.histlen - skip
        bytes == [k \in 1 .. len |-> b.buf[((j + k - 1) % BacklogSize) + 1]]
    IN  IF b.histlen = 0 THEN W ELSE ToWire(W, s, bytes)

getPsyncInitialOffset(W, m) == IF W.srv[m].backlog.on THEN W.srv[m].off ELSE W.srv[m].off + 1

\* Mutant: server.slaveseldb is not set to -1.
SetupKeepsDb(W, m, s, offset) ==
    LET V == [W EXCEPT !.link[s].client.initoff = offset, !.link[s].client.state = "wait_bgsave_end"]
    IN  IF W.link[s].client.pre THEN V
        ELSE ToWire(V, s, << <<"fullresync", Runid(W, m), offset>> >>)

replicationSetupSlaveForFullResync(W, m, s, offset) ==
    LET V == [W EXCEPT !.link[s].client.initoff = offset,
                       !.link[s].client.state = "wait_bgsave_end", !.srv[m].seldb = -1]
    IN  IF W.link[s].client.pre THEN V
        ELSE ToWire(V, s, << <<"fullresync", Runid(W, m), offset>> >>)

CanContinue(W, m, runid, offset) ==
    LET b == W.srv[m].backlog
    IN  runid = Runid(W, m) /\ b.on /\ offset >= b.off /\ offset <= b.off + b.histlen

masterTryPartialResynchronization(W, m, s, offset) ==
    LET V == [W EXCEPT !.link[s].client = [NoClient EXCEPT !.state = "online"]]
    IN  addReplyReplicationBacklog(ToWire(V, s, << <<"continue">> >>), m, s, offset)

(* ok: the fork succeeds.  A failed fork undoes the change of state, not   *)
(* the reply +FULLRESYNC.                                                  *)
rdbSaveToSlavesSockets(W, m, ok) ==
    LET waits == InState(W, m, "wait_bgsave_start")
        V == ForEach(LAMBDA s, X : replicationSetupSlaveForFullResync(X, m, s, getPsyncInitialOffset(W, m)), W, waits)
    IN  IF ok THEN [V EXCEPT !.srv[m].child = [type |-> "socket", data |-> W.srv[m].data]]
        ELSE ForEach(LAMBDA s, X : [X EXCEPT !.link[s].client.state = "wait_bgsave_start"], V, waits)

(* A slave refused is closed after the error.                              *)
startBgsaveForReplication(W, m, ok) ==
    LET waits == InState(W, m, "wait_bgsave_start")
        V == IF W.srv[m].diskless THEN rdbSaveToSlavesSockets(W, m, ok)
             ELSE IF ok THEN [W EXCEPT !.srv[m].child = [type |-> "disk", data |-> W.srv[m].data]] ELSE W
        Setup(s, X) == replicationSetupSlaveForFullResync(X, m, s, getPsyncInitialOffset(W, m))
        Refuse(s, X) == [ToWire(X, s, << <<"err">> >>) EXCEPT !.link[s].client = NoClient,
                                                             !.link[s].closing = TRUE]
    IN  CASE ~ok -> ForEach(Refuse, V, waits)
          [] ok /\ W.srv[m].diskless -> V
          [] OTHER -> ForEach(Setup, V, waits)

(* SYNC and PSYNC of slave s at its master m, once the request is read.    *)
BacklogForFirst(W, m) ==
    IF Cardinality(SlavesOf(W, m)) = 1 /\ ~W.srv[m].backlog.on THEN createReplicationBacklog(W, m)
    ELSE W

(* registering: the slaves waiting for the dump that is under way.         *)
AttachOrSave(W, m, s, registering, ok) ==
    CASE W.srv[m].child.type = "disk" /\ registering # {} ->
             LET other == W.link[CHOOSE x \in registering : TRUE].client
             IN  replicationSetupSlaveForFullResync([W EXCEPT !.link[s].client.buf = other.buf],
                                                    m, s, other.initoff)
      [] W.srv[m].child.type = "none" /\ ~W.srv[m].diskless -> startBgsaveForReplication(W, m, ok)
      [] OTHER -> W

FullResynchronization(W, m, s, pre, ok) ==
    BacklogForFirst(
        AttachOrSave([W EXCEPT !.link[s].client =
                          [NoClient EXCEPT !.state = "wait_bgsave_start", !.pre = pre]],
                     m, s, InState(W, m, "wait_bgsave_end"), ok), m)

syncCommand(W, m, s, cmd, ok) ==
    IF W.link[s].client.state # "none" THEN W
    ELSE IF W.srv[m].host # Nobody /\ W.srv[m].state # "connected" THEN ToWire(W, s, << <<"err">> >>)
    ELSE IF cmd[1] = "psync" /\ CanContinue(W, m, cmd[2], cmd[3])
         THEN masterTryPartialResynchronization(W, m, s, cmd[3])
    ELSE FullResynchronization(W, m, s, cmd[1] = "sync", ok)

-------------------------------------------------------------------------------
(* The slave's side.  A broken connection is noticed at both ends.         *)
replicationCacheMaster(W, s) ==
    [W EXCEPT !.srv[s].cached = W.srv[s].master, !.srv[s].master = NoMaster, !.srv[s].state = "connect"]

cancelReplicationHandshake(W, s) ==
    IF W.srv[s].state \in {"receive_psync", "transfer"}
    THEN [W EXCEPT !.link[s] = Down, !.srv[s].state = "connect"] ELSE W

freeLink(W, s) ==
    IF W.srv[s].master.on THEN replicationCacheMaster([W EXCEPT !.link[s] = Down], s)
    ELSE cancelReplicationHandshake(W, s)

disconnectSlaves(W, m) == ForEach(LAMBDA s, X : freeLink(X, s), W, SlavesOf(W, m))

replicationDiscardCachedMaster(W, s) == [W EXCEPT !.srv[s].cached = NoMaster]

(* The offset of the server changes while its run id stays.                *)
NewOffset(W, s, off) ==
    [W EXCEPT !.srv[s].off = off, !.srv[s].reset = @ \/ off # W.srv[s].off]

replicationSetMaster(W, s, host) ==
    LET V == disconnectSlaves(freeLink([W EXCEPT !.waiting = SelectSeq(@, LAMBDA c : c.host # s)], s), s)
        X == cancelReplicationHandshake(freeReplicationBacklog(replicationDiscardCachedMaster(V, s), s), s)
    IN  NewOffset([X EXCEPT !.srv[s].host = host, !.srv[s].state = "connect"], s, 0)

replicationUnsetMaster(W, s) ==
    LET inherits == W.srv[s].master.on /\ SlavesOf(W, s) = {}
        V == IF inherits THEN freeReplicationBacklog(NewOffset(W, s, W.srv[s].master.reploff), s) ELSE W
        X == replicationDiscardCachedMaster(freeLink(V, s), s)
    IN  [X EXCEPT !.srv[s].host = Nobody, !.srv[s].state = "none"]

(* The writing half of slaveTryPartialResynchronization().                 *)
connectWithMaster(W, s) ==
    LET c == W.srv[s].cached
        cmd == IF c.on THEN <<"psync", c.runid, c.reploff + 1>> ELSE <<"psync", 0, -1>>
    IN  [W EXCEPT !.link[s] = [Down EXCEPT !.up = TRUE, !.cmd = <<cmd>>],
                  !.srv[s].state = "receive_psync", !.srv[s].initoff = -1]

\* Mutant: the cached master is kept when the master asks for a full resynchronization.
FullKeepsCached(W, s, reply) ==
    LET V == [W EXCEPT !.link[s].wire = Tail(@)]
        full == freeReplicationBacklog(disconnectSlaves(V, s), s)
    IN  CASE reply[1] = "continue" ->
                 [V EXCEPT !.srv[s].master = W.srv[s].cached, !.srv[s].cached = NoMaster,
                           !.srv[s].state = "connected"]
          [] reply[1] = "fullresync" ->
                 [full EXCEPT !.srv[s].initrun = reply[2], !.srv[s].initoff = reply[3],
                              !.srv[s].state = "transfer"]
          [] OTHER ->
                 [full EXCEPT !.link[s].cmd = << <<"sync">> >>, !.srv[s].state = "transfer"]

(* The reading half, and the end of syncWithMaster().                      *)
slaveTryPartialResynchronization(W, s, reply) ==
    LET V == [W EXCEPT !.link[s].wire = Tail(@)]
        full == freeReplicationBacklog(disconnectSlaves(replicationDiscardCachedMaster(V, s), s), s)
    IN  CASE reply[1] = "continue" ->
                 [V EXCEPT !.srv[s].master = W.srv[s].cached, !.srv[s].cached = NoMaster,
                           !.srv[s].state = "connected"]
          [] reply[1] = "fullresync" ->
                 [full EXCEPT !.srv[s].initrun = reply[2], !.srv[s].initoff = reply[3],
                              !.srv[s].state = "transfer"]
          [] OTHER ->
                 [full EXCEPT !.link[s].cmd = << <<"sync">> >>, !.srv[s].state = "transfer"]

replicationCreateMasterClient(W, s) ==
    [W EXCEPT !.srv[s].state = "connected",
              !.srv[s].master = [on |-> TRUE, reploff |-> W.srv[s].initoff, runid |-> W.srv[s].initrun,
                                 db |-> 0, querybuf |-> <<>>, pre |-> W.srv[s].initoff = -1]]

readSyncBulkPayload(W, s, reply, ok) ==
    LET loaded == [W EXCEPT !.link[s].wire = Tail(@), !.srv[s].saved = reply[2],
                            !.srv[s].data = IF ok THEN reply[2] ELSE <<>>]
    IN  IF reply[1] # "rdb" THEN cancelReplicationHandshake(W, s)
        ELSE IF ok THEN replicationCreateMasterClient(loaded, s)
        ELSE cancelReplicationHandshake(loaded, s)

replicationSendAck(W, s) ==
    IF W.srv[s].master.on /\ W.link[s].cmd = <<>>
    THEN [W EXCEPT !.link[s].cmd = << <<"ack", W.srv[s].master.reploff>> >>] ELSE W

(* readQueryFromClient() on the master's client: n bytes arrive, the whole *)
(* commands among them are executed, the rest stays in the query buffer.   *)
ProcessByte(W, s, byte) ==
    CASE byte[1] = "select" -> [W EXCEPT !.srv[s].master.db = byte[2]]
      [] byte[1] = "w1" -> [W EXCEPT !.srv[s].master.querybuf = <<byte>>]
      [] byte[1] = "w2" -> Execute([W EXCEPT !.srv[s].master.querybuf = <<>>], s, W.srv[s].master.db, byte[2])
      [] byte[1] = "getack" -> replicationSendAck(W, s)
      [] OTHER -> W

readQueryFromClient(W, s, n) ==
    LET V == [W EXCEPT !.link[s].wire = SubSeq(@, n + 1, Len(@)), !.srv[s].master.reploff = @ + n]
    IN  FoldLeft(LAMBDA X, byte : ProcessByte(X, s, byte), V, SubSeq(W.link[s].wire, 1, n))

-------------------------------------------------------------------------------
(* WAIT.                                                                   *)
\* Mutant: an acknowledgement one byte short counts.
CountAcksShort(W, m, offset) ==
    Cardinality({s \in InState(W, m, "online") : W.link[s].client.ackoff >= offset - 1})

replicationCountAcksByOffset(W, m, offset) ==
    Cardinality({s \in InState(W, m, "online") : W.link[s].client.ackoff >= offset})

(* The reply n to a client whose last write was w is true.                 *)
Reply(W, m, w, n) ==
    LET have == {s \in SlavesOf(W, m) : w = NoWrite \/ w \in {W.srv[s].data[i] : i \in DOMAIN W.srv[s].data}}
    IN  [W EXCEPT !.replied = n <= Cardinality(have)]

waitCommand(W, m, numreplicas) ==
    LET n == replicationCountAcksByOffset(W, m, W.srv[m].woff)
        c == [host |-> m, reploffset |-> W.srv[m].woff, numreplicas |-> numreplicas, write |-> W.srv[m].last]
    IN  IF n >= numreplicas THEN Reply(W, m, c.write, n)
        ELSE replicationFeedSlaves([W EXCEPT !.waiting = Append(@, c)], m, W.srv[m].seldb, << <<"getack", 0>> >>)

(* last is the offset and the number of the last client satisfied.         *)
ServeWaiting(x, c, m) ==
    LET n == replicationCountAcksByOffset(x.W, m, c.reploffset)
    IN  IF c.host # m THEN [x EXCEPT !.left = Append(@, c)]
        ELSE IF x.last[1] > c.reploffset /\ x.last[2] > c.numreplicas
             THEN [x EXCEPT !.W = Reply(x.W, m, c.write, x.last[2])]
        ELSE IF n >= c.numreplicas THEN [x EXCEPT !.W = Reply(x.W, m, c.write, n), !.last = <<c.reploffset, n>>]
        ELSE [x EXCEPT !.left = Append(@, c)]

processClientsWaitingReplicas(W, m) ==
    LET x == FoldLeft(LAMBDA y, c : IF y.W.replied THEN ServeWaiting(y, c, m) ELSE y,
                      [W |-> W, last |-> <<0, 0>>, left |-> <<>>], W.waiting)
    IN  [x.W EXCEPT !.waiting = x.left]

(* REPLCONF ACK; beforeSleep() then serves the clients in WAIT.            *)
putSlaveOnline(W, s) ==
    [ToWire(W, s, W.link[s].client.buf) EXCEPT !.link[s].client.buf = <<>>, !.link[s].client.onack = FALSE,
                                              !.link[s].client.state = "online"]

replconfAck(W, m, s, offset) ==
    LET c == W.link[s].client
        V == [W EXCEPT !.link[s].client.ackoff = IF offset > @ THEN offset ELSE @]
        X == IF c.onack /\ c.state = "online" THEN putSlaveOnline(V, s) ELSE V
    IN  IF c.state = "none" THEN W ELSE processClientsWaitingReplicas(X, m)

-------------------------------------------------------------------------------
(* A child of the given type has ended; forkok: so does the next fork.     *)
updateSlavesWaitingBgsave(W, m, child, ok, forkok) ==
    LET Serve(s, X) ==
            CASE child.type = "socket" ->
                     [ToWire(X, s, << <<"rdb", child.data>> >>) EXCEPT !.link[s].client.state = "online",
                                                                       !.link[s].client.onack = TRUE]
              [] ~ok -> freeLink(X, s)
              [] OTHER -> [X EXCEPT !.link[s].client.state = "send_bulk", !.link[s].client.file = child.data]
        V == ForEach(Serve, W, InState(W, m, "wait_bgsave_end"))
    IN  IF InState(V, m, "wait_bgsave_start") # {} THEN startBgsaveForReplication(V, m, forkok) ELSE V

backgroundSaveDoneHandlerDisk(W, m, ok, forkok) ==
    LET child == W.srv[m].child
    IN  updateSlavesWaitingBgsave([W EXCEPT !.srv[m].child = NoChild,
                                            !.srv[m].saved = IF ok THEN child.data ELSE @], m, child, ok, forkok)

(* good: the slaves the child reports as served.                           *)
backgroundSaveDoneHandlerSocket(W, m, ok, good, forkok) ==
    LET failed == {s \in InState(W, m, "wait_bgsave_end") : ~ok \/ s \notin good}
        V == ForEach(LAMBDA s, X : freeLink(X, s), [W EXCEPT !.srv[m].child = NoChild], failed)
    IN  updateSlavesWaitingBgsave(V, m, W.srv[m].child, ok, forkok)

backgroundSaveDoneHandler(W, m, ok, good, forkok) ==
    IF W.srv[m].child.type = "disk" THEN backgroundSaveDoneHandlerDisk(W, m, ok, forkok)
    ELSE backgroundSaveDoneHandlerSocket(W, m, ok, good, forkok)

sendBulkToSlave(W, s) ==
    putSlaveOnline([ToWire(W, s, << <<"rdb", W.link[s].client.file>> >>) EXCEPT !.link[s].client.file = <<>>], s)

(* replicationCron() of server s.  Timed out are the slaves in late and,   *)
(* with mlate, the master; ping: the ping period is over; idle: the        *)
(* backlog time limit and the diskless delay are.                          *)
CronMaster(W, s, mlate) == IF mlate THEN freeLink(W, s) ELSE W
CronConnect(W, s) == IF W.srv[s].state = "connect" THEN connectWithMaster(W, s) ELSE W
CronAck(W, s) ==
    IF W.srv[s].master.on /\ ~W.srv[s].master.pre THEN replicationSendAck(W, s) ELSE W
CronPing(W, s, ping) ==
    IF ping THEN replicationFeedSlaves(W, s, W.srv[s].seldb, << <<"ping", 0>> >>) ELSE W
CronLate(W, late) == ForEach(LAMBDA x, X : freeLink(X, x), W, late)
CronBacklog(W, s, idle) ==
    IF SlavesOf(W, s) = {} /\ W.srv[s].backlog.on /\ idle THEN freeReplicationBacklog(W, s) ELSE W
CronBgsave(W, s, idle, ok) ==
    IF /\ W.srv[s].child.type = "none" /\ InState(W, s, "wait_bgsave_start") # {}
       /\ ~W.srv[s].diskless \/ idle
    THEN startBgsaveForReplication(W, s, ok) ELSE W

replicationCron(W, s, mlate, late, ping, idle, ok) ==
    CronBgsave(
        CronBacklog(
            CronLate(CronPing(CronAck(CronConnect(CronMaster(W, s, mlate), s), s), s, ping), late),
            s, idle),
        s, idle, ok)

-------------------------------------------------------------------------------
NewServer(host, diskless) ==
    [diskless |-> diskless, run |-> 0, data |-> <<>>, saved |-> <<>>, off |-> 0, backlog |-> NoBacklog, seldb |-> -1,
     child |-> NoChild, host |-> host, state |-> IF host = Nobody THEN "none" ELSE "connect",
     initoff |-> -1, initrun |-> 0, master |-> NoMaster, cached |-> NoMaster,
     reset |-> FALSE, woff |-> 0, last |-> NoWrite]

ReplInit ==
    /\ \E b \in ReplBudgets :
          /\ srv = [s \in Servers |-> NewServer(Hosts[s], b[1])]
          /\ todo = [writes |-> b[2], waits |-> b[3], events |-> b[4]]
    /\ link = [s \in Servers |-> Down]
    /\ waiting = <<>>
    /\ replied = TRUE

ReplBecomes(W) ==
    /\ srv' = W.srv
    /\ link' = W.link
    /\ waiting' = W.waiting
    /\ replied' = W.replied

Unbounded == UNCHANGED todo
Counted(event) == todo[event] > 0 /\ todo' = [todo EXCEPT ![event] = @ - 1]
Chance(ok) == IF ok THEN Unbounded ELSE Counted("events")

ClientWrites(m, db) ==
    /\ srv[m].host = Nobody
    /\ Counted("writes")
    /\ LET n == todo.writes
           V == Execute(World, m, db, n)
       IN  ReplBecomes([V EXCEPT !.srv[m].woff = V.srv[m].off, !.srv[m].last = IF V.srv[m].off = 0 THEN NoWrite ELSE <<db, n>>])

ClientWaits(m, n) ==
    /\ srv[m].host = Nobody
    /\ Counted("waits")
    /\ ReplBecomes(waitCommand(World, m, n))

(* replyToBlockedClientTimedOut()                                          *)
WaitTimesOut ==
    /\ waiting # <<>>
    /\ LET c == Head(waiting)
       IN  ReplBecomes(Reply([World EXCEPT !.waiting = Tail(@)], c.host, c.write,
                         replicationCountAcksByOffset(World, c.host, c.reploffset)))
    /\ Unbounded

MasterReads(s) ==
    /\ link[s].up /\ link[s].cmd # <<>> /\ ~link[s].closing
    /\ LET m == srv[s].host
           cmd == Head(link[s].cmd)
           V == [World EXCEPT !.link[s].cmd = Tail(@)]
       IN  IF cmd[1] = "ack" THEN ReplBecomes(replconfAck(V, m, s, cmd[2])) /\ Unbounded
           ELSE \E ok \in BOOLEAN : ReplBecomes(syncCommand(V, m, s, cmd, ok)) /\ Chance(ok)

SlaveReads(s) ==
    /\ link[s].wire # <<>>
    /\ LET reply == Head(link[s].wire)
       IN  \/ /\ srv[s].state = "receive_psync"
              /\ ReplBecomes(slaveTryPartialResynchronization(World, s, reply)) /\ Unbounded
           \/ /\ srv[s].state = "transfer"
              /\ \E ok \in BOOLEAN : ReplBecomes(readSyncBulkPayload(World, s, reply, ok)) /\ Chance(ok)
           \/ /\ srv[s].state = "connected"
              /\ \E n \in 1 .. Len(link[s].wire) : ReplBecomes(readQueryFromClient(World, s, n)) /\ Unbounded

ChildExits(m) ==
    /\ srv[m].child.type # "none"
    /\ \/ ReplBecomes(backgroundSaveDoneHandler(World, m, TRUE, Servers, TRUE)) /\ Unbounded
       \/ /\ Counted("events")
          /\ \E ok \in BOOLEAN, good \in SUBSET InState(World, m, "wait_bgsave_end"), forkok \in BOOLEAN :
                 ReplBecomes(backgroundSaveDoneHandler(World, m, ok, good, forkok))

BulkSent(s) ==
    /\ link[s].client.state = "send_bulk"
    /\ ReplBecomes(sendBulkToSlave(World, s))
    /\ Unbounded

Cron(s) ==
    \/ \E idle \in BOOLEAN :
          /\ ReplBecomes(replicationCron(World, s, FALSE, {}, FALSE, idle, TRUE))
          /\ Chance(srv'[s].backlog.on = srv[s].backlog.on)
    \/ /\ Counted("events")
       /\ ReplBecomes(replicationCron(World, s, FALSE, {}, TRUE, FALSE, TRUE))
    \/ /\ Counted("events")
       /\ \E late \in SUBSET {x \in InState(World, s, "online") : ~link[x].client.pre} :
             \E mlate \in BOOLEAN, ok \in BOOLEAN :
                 ReplBecomes(replicationCron(World, s, mlate, late, FALSE, FALSE, ok))

(* BGSAVE, or a save point reached.                                        *)
Save(m) ==
    /\ srv[m].child.type = "none"
    /\ Counted("events")
    /\ ReplBecomes([World EXCEPT !.srv[m].child = [type |-> "disk", data |-> srv[m].data]])

LinkBreaks(s) ==
    /\ link[s].up
    /\ ReplBecomes(freeLink(World, s))
    /\ IF link[s].closing THEN Unbounded ELSE Counted("events")

RestartServer(s) ==
    /\ Counted("events")
    /\ LET W == ForEach(LAMBDA x, X : freeLink(X, x), World, {x \in Servers : srv[x].host = s \/ x = s})
       IN  ReplBecomes([W EXCEPT !.srv[s] = [NewServer(W.srv[s].host, W.srv[s].diskless) EXCEPT !.run = W.srv[s].run + 1,
                                             !.data = W.srv[s].saved, !.saved = W.srv[s].saved],
                             !.waiting = SelectSeq(@, LAMBDA c : c.host # s)])

slaveofCommand(s) ==
    /\ Counted("events")
    /\ \/ srv[s].host # Nobody /\ ReplBecomes(replicationUnsetMaster(World, s))
       \/ \E host \in Servers \ {s, srv[s].host} : ReplBecomes(replicationSetMaster(World, s, host))

ReplNext ==
    \/ \E s \in Servers :
          \/ \E db \in ReplDbs : ClientWrites(s, db)
          \/ \E n \in 1 .. 2 : ClientWaits(s, n)
          \/ MasterReads(s) \/ SlaveReads(s) \/ ChildExits(s) \/ BulkSent(s) \/ Cron(s)
          \/ Save(s) \/ LinkBreaks(s) \/ RestartServer(s) \/ slaveofCommand(s)
    \/ WaitTimesOut

-------------------------------------------------------------------------------
(* What a slave will hold: a dataset and the stream bytes it has not yet   *)
(* executed.                                                               *)
Replay(data, db, bytes) ==
    FoldLeft(LAMBDA x, b : CASE b[1] = "select" -> [x EXCEPT !.db = b[2]]
                             [] b[1] = "w2" -> [x EXCEPT !.data = Append(@, <<x.db, b[2]>>)]
                             [] OTHER -> x,
             [data |-> data, db |-> db], bytes).data

Coming(s) ==
    LET c == link[s].client
        wire == SelectSeq(link[s].wire, LAMBDA b : b[1] \notin {"fullresync", "continue", "err"})
        bytes == wire \o c.buf
    IN  CASE c.state = "wait_bgsave_end" -> Replay(srv[srv[s].host].child.data, -1, c.buf)
          [] c.state = "send_bulk" -> Replay(c.file, -1, c.buf)
          [] srv[s].state = "connected" -> Replay(srv[s].data, srv[s].master.db, srv[s].master.querybuf \o bytes)
          [] bytes # <<>> /\ Head(bytes)[1] = "rdb" -> Replay(Head(bytes)[2], 0, Tail(bytes))
          [] OTHER -> Replay(srv[s].data, srv[s].cached.db, srv[s].cached.querybuf \o bytes)

(* Once a slave is registered for the stream, the dataset it starts from   *)
(* and the bytes on their way to it make up the dataset of its master,     *)
(* after full and partial resynchronizations, shared saves, broken links,  *)
(* reads that end inside a command, timeouts and restarts in any order.    *)
StreamComplete ==
    \A s \in DOMAIN srv :
        link[s].client.state \in {"wait_bgsave_end", "send_bulk", "online"}
        => Coming(s) = srv[srv[s].host].data

(* The same, as long as the offset of no server has been set back under    *)
(* the run id its former slaves know.                                      *)
StreamCompleteUnlessReset == (\A s \in DOMAIN srv : ~srv[s].reset) => StreamComplete

(* The assertions of replication.c: no slave without a backlog, and never  *)
(* a master together with a cached one.                                    *)
ReplAssertions ==
    \A s \in DOMAIN srv :
        /\ SlavesOf(World, s) # {} => srv[s].backlog.on
        /\ ~(srv[s].master.on /\ srv[s].cached.on)
        /\ srv[s].master.on <=> srv[s].state = "connected"

(* A reply of WAIT counts only slaves that have executed the write, if the *)
(* write was given an offset (c->woff is 0 before the first backlog).      *)
WaitTrue == (\A s \in DOMAIN srv : ~srv[s].reset) => replied

(* Slaves lose no write of the stream, WAIT counts no slave too many, and  *)
(* the assertions of replication.c hold.                                   *)
ReplicationSound == StreamCompleteUnlessReset /\ ReplAssertions /\ WaitTrue
====
