-------------------------------- MODULE Migrate ---------------------------------
(***************************************************************************)
(* MIGRATE and RESTORE between two standalone servers, redis-stable/src/   *)
(* cluster.c: the keys of one command are pipelined to the target as       *)
(* RESTORE commands over a cached socket, each acknowledged key is deleted *)
(* from the source, and the command reaches the replicas of the source as  *)
(* a DEL.  The source is blocked while the command runs, the target is     *)
(* not.  The connection can break or time out at every point, and the      *)
(* target may still execute what an abandoned connection had sent.         *)
(***************************************************************************)
EXTENDS Integers, Sequences, FiniteSets

CONSTANTS MigKeys,       \* the keys, numbers
          MigOrders,     \* the key lists MIGRATE is called with
          MigDbs,        \* the databases of the target
          MigDbids,      \* the database numbers MIGRATE is called with
          MigBudgets     \* bounds: <<SETs, MIGRATEs, faults>>

ASSUME MigrateAssumption ==
    /\ MigKeys \subseteq Nat \ {0}
    /\ \A order \in MigOrders : order \in Seq(MigKeys)
    /\ MigDbs \subseteq Nat /\ 0 \in MigDbs
    /\ MigDbids \subseteq Int
    /\ \A b \in MigBudgets : b \in Nat \X Nat \X Nat

VARIABLES source,    \* the keyspace of the source
          replica,   \* the keyspace of a replica of the source
          target,    \* the keyspaces of the target
          sock,      \* the entry of server.migrate_cached_sockets
          orphans,   \* connections closed by the source, not yet noticed by the target
          mig,       \* the MIGRATE in progress
          restored,  \* history: what RESTORE stored, as <<key, value, ttl, db, wanted db>>
          removed,   \* history: what MIGRATE deleted, as <<key, value, ttl, wanted db, mixed>>
          migTodo    \* what is left of the budget of the run

migVars == <<source, replica, target, sock, orphans, mig, restored, removed, migTodo>>

Absent == <<0, 0>>          \* otherwise <<value, ttl>>, ttl 0 for no expire
NoSocket == [open |-> FALSE, alive |-> FALSE, last_dbid |-> -1, sel |-> 0,
             reqs |-> <<>>, reps |-> <<>>]
NoMigrate == [phase |-> "idle", kv |-> <<>>, dbid |-> 0, copy |-> FALSE, replace |-> FALSE,
              may_retry |-> FALSE, ttl |-> 0, select |-> FALSE, refused |-> FALSE, j |-> 0,
              error |-> FALSE, del |-> {}, mixed |-> FALSE]

MigrateInit ==
    /\ source = [k \in MigKeys |-> Absent] /\ replica = source
    /\ target = [d \in MigDbs |-> source]
    /\ sock = NoSocket /\ orphans = {} /\ mig = NoMigrate
    /\ restored = {} /\ removed = {}
    /\ \E b \in MigBudgets : migTodo = [sets |-> b[1], migrates |-> b[2], faults |-> b[3]]

Fault == migTodo.faults > 0 /\ migTodo' = [migTodo EXCEPT !.faults = @ - 1]

-------------------------------------------------------------------------------
(* The target.                                                             *)
restoreCommand(keys, k, val, ttl, replace) ==
    IF ~replace /\ keys[k] # Absent THEN <<"-", keys>>
    ELSE <<"+", [keys EXCEPT ![k] = <<val, ttl>>]>>

(* Executes the first request of a connection, as <<sel, keyspaces, reply, *)
(* stored>>.                                                               *)
Execute1(sel, req) ==
    IF req[1] = "select"
    THEN IF req[2] \in MigDbs THEN <<req[2], target, "+", {}>> ELSE <<sel, target, "-", {}>>
    ELSE LET r == restoreCommand(target[sel], req[2], req[3], req[4], req[5])
         IN  <<sel, [target EXCEPT ![sel] = r[2]], r[1],
               IF r[1] = "+" THEN {<<req[2], req[3], req[4], sel, req[6]>>} ELSE {}>>

TargetRuns ==
    /\ sock.alive /\ sock.reqs # <<>>
    /\ \E r \in {Execute1(sock.sel, Head(sock.reqs))} :
          /\ sock' = [sock EXCEPT !.sel = r[1], !.reqs = Tail(@), !.reps = Append(@, r[3])]
          /\ target' = r[2] /\ restored' = restored \cup r[4]
    /\ UNCHANGED <<source, replica, orphans, mig, removed, migTodo>>

(* The requests of a connection the source has given up.                   *)
OrphanRuns ==
    /\ \E o \in orphans : \E r \in {Execute1(o[1], Head(o[2]))} :
          /\ orphans' = (orphans \ {o}) \cup
                        (IF Tail(o[2]) = <<>> THEN {} ELSE {<<r[1], Tail(o[2])>>})
          /\ target' = r[2] /\ restored' = restored \cup r[4]
    /\ UNCHANGED <<source, replica, sock, mig, removed, migTodo>>

OrphanDropped ==
    /\ \E o \in orphans : orphans' = orphans \ {o}
    /\ UNCHANGED <<source, replica, target, sock, mig, restored, removed, migTodo>>

(* Another client of the target creates or deletes a key.                  *)
TargetClient ==
    /\ Fault
    /\ \E d \in MigDbs, k \in MigKeys :
          target' = [target EXCEPT ![d][k] = IF @ = Absent THEN <<-1, 0>> ELSE Absent]
    /\ UNCHANGED <<source, replica, sock, orphans, mig, restored, removed>>

(* The target closes the connection, with or without losing the replies    *)
(* under way.                                                              *)
TargetCloses ==
    /\ sock.alive /\ Fault
    /\ \E n \in 0 .. Len(sock.reps) :
          sock' = [sock EXCEPT !.alive = FALSE, !.reqs = <<>>, !.reps = SubSeq(@, 1, n)]
    /\ UNCHANGED <<source, replica, target, orphans, mig, restored, removed>>

-------------------------------------------------------------------------------
(* The source.                                                             *)
SourceSets ==
    /\ mig.phase = "idle" /\ migTodo.sets > 0
    /\ \E k \in MigKeys, expires \in BOOLEAN :
          /\ source[k] = Absent
          /\ source' = [source EXCEPT ![k] = <<migTodo.sets, IF expires THEN k ELSE 0>>]
    /\ replica' = source'
    /\ migTodo' = [migTodo EXCEPT !.sets = @ - 1]
    /\ UNCHANGED <<target, sock, orphans, mig, restored, removed>>

(* kv is the list of the keys of order that exist, in their order.         *)
Existing(order, kv) ==
    \E at \in [DOMAIN kv -> {i \in DOMAIN order : source[order[i]] # Absent}] :
       /\ \A i \in DOMAIN order : source[order[i]] # Absent => \E n \in DOMAIN kv : at[n] = i
       /\ \A m, n \in DOMAIN kv : m < n => at[m] < at[n]
       /\ \A n \in DOMAIN kv : kv[n] = order[at[n]]

(* The keys that exist are looked up once; without any the reply is NOKEY. *)
migrateCommand ==
    /\ mig.phase = "idle" /\ migTodo.migrates > 0
    /\ \E order \in MigOrders, dbid \in MigDbids, copy, replace \in BOOLEAN :
       \E len \in 1 .. Len(order) : \E kv \in [1 .. len -> MigKeys] :
          /\ Existing(order, kv)
          /\ mig' = [phase |-> "connect", kv |-> kv, dbid |-> dbid, copy |-> copy,
                     replace |-> replace, may_retry |-> TRUE, ttl |-> 0, select |-> FALSE,
                     refused |-> FALSE, j |-> 0, error |-> FALSE, del |-> {},
                     mixed |-> \E m, n \in 1 .. len : source[kv[m]][2] = 0 /\ source[kv[n]][2] # 0]
    /\ migTodo' = [migTodo EXCEPT !.migrates = @ - 1]
    /\ UNCHANGED <<source, replica, target, sock, orphans, restored, removed>>

migrateGetSocket == IF sock.open THEN sock ELSE [sock EXCEPT !.open = TRUE, !.alive = TRUE]

(* close() of the cached socket: what was sent may still be executed.      *)
CloseKeepsDbid ==
    /\ sock' = [NoSocket EXCEPT !.last_dbid = sock.last_dbid]
    /\ orphans' = orphans \cup
                  (IF sock.alive /\ sock.reqs # <<>> THEN {<<sock.sel, sock.reqs>>} ELSE {})

migrateCloseSocket ==
    /\ sock' = NoSocket
    /\ orphans' = orphans \cup
                  (IF sock.alive /\ sock.reqs # <<>> THEN {<<sock.sel, sock.reqs>>} ELSE {})

(* The variable ttl after the first n keys: it goes from key to key, and   *)
(* only a key with an expire sets it.                                      *)
Expiring(n) == {i \in 1 .. n : source[mig.kv[i]][2] # 0}

TtlOnce(n) ==
    IF Expiring(n) = {} THEN mig.ttl
    ELSE source[mig.kv[CHOOSE i \in Expiring(n) : \A j \in Expiring(n) : i <= j]][2]

Ttl(n) ==
    IF Expiring(n) = {} THEN mig.ttl
    ELSE source[mig.kv[CHOOSE i \in Expiring(n) : \A j \in Expiring(n) : j <= i]][2]

(* The pipeline: SELECT, when it is needed, then RESTORE for every key.    *)
Restore(n) ==
    <<"restore", mig.kv[n], source[mig.kv[n]][1], Ttl(n), mig.replace, mig.dbid>>

Selects(select) == IF select THEN 1 ELSE 0

Requests(select) ==
    [i \in 1 .. Selects(select) + Len(mig.kv) |->
        IF i <= Selects(select) THEN <<"select", mig.dbid>> ELSE Restore(i - Selects(select))]

(* The end of the command: the rewritten DEL goes to the replicas.         *)
PropagateUnlessFailed ==
    replica' = IF mig.j < Len(mig.kv) THEN replica
               ELSE [k \in MigKeys |-> IF k \in mig.del THEN Absent ELSE replica[k]]
Propagate == replica' = [k \in MigKeys |-> IF k \in mig.del THEN Absent ELSE replica[k]]

(* socket_err: a broken socket is retried once, a timeout is not.          *)
SocketError(timedout, may_retry, ttl) ==
    /\ migrateCloseSocket
    /\ IF ~timedout /\ may_retry
       THEN /\ mig' = [mig EXCEPT !.phase = "connect", !.may_retry = FALSE, !.ttl = ttl]
            /\ UNCHANGED replica
       ELSE mig' = NoMigrate /\ Propagate

(* try_again: the whole pipeline is written to the socket.                 *)
Transmit ==
    /\ mig.phase = "connect"
    /\ LET cs == migrateGetSocket
           select == cs.last_dbid # mig.dbid
       IN  /\ sock' = [cs EXCEPT !.reqs = IF cs.alive THEN Requests(select) ELSE <<>>]
           /\ mig' = [mig EXCEPT !.phase = IF select THEN "select" ELSE "restore",
                                 !.select = select, !.refused = FALSE,
                                 !.ttl = Ttl(Len(mig.kv)), !.j = 0, !.error = FALSE]
    /\ UNCHANGED <<source, replica, target, orphans, restored, removed, migTodo>>

CannotConnect ==
    /\ mig.phase = "connect" /\ ~sock.open /\ Fault
    /\ mig' = NoMigrate
    /\ UNCHANGED <<source, replica, target, sock, orphans, restored, removed>>

(* The write fails after a part of the pipeline.                           *)
WriteFails ==
    /\ mig.phase = "connect"
    /\ IF sock.open /\ ~sock.alive THEN UNCHANGED migTodo ELSE Fault
    /\ LET cs == migrateGetSocket
           all == Requests(cs.last_dbid # mig.dbid)
       IN  \E n \in 0 .. (IF cs.alive THEN Len(all) - 1 ELSE 0), timedout \in BOOLEAN :
              /\ sock' = NoSocket
              /\ orphans' = orphans \cup (IF n > 0 THEN {<<cs.sel, SubSeq(all, 1, n)>>} ELSE {})
              /\ mig' = IF ~timedout /\ mig.may_retry
                        THEN [mig EXCEPT !.may_retry = FALSE, !.ttl = Ttl(Len(mig.kv))]
                        ELSE NoMigrate
    /\ UNCHANGED <<source, replica, target, restored, removed>>

ReadSelect ==
    /\ mig.phase = "select" /\ sock.reps # <<>>
    /\ sock' = [sock EXCEPT !.reps = Tail(@)]
    /\ mig' = [mig EXCEPT !.phase = "restore", !.refused = Head(sock.reps) = "-"]
    /\ UNCHANGED <<source, replica, target, orphans, restored, removed, migTodo>>

(* On an error of the target last_dbid is no longer valid.                 *)
LastDbid(failed) == IF failed /\ ~mig.error THEN -1 ELSE sock.last_dbid

RefusedByRestore(reply) == reply = "-"
Refused(reply) == (mig.select /\ mig.refused) \/ reply = "-"

(* A reply of RESTORE; the acknowledged key is deleted at once.            *)
ReadRestore ==
    /\ mig.phase = "restore" /\ mig.j < Len(mig.kv) /\ sock.reps # <<>>
    /\ LET failed == Refused(Head(sock.reps))
           k == mig.kv[mig.j + 1]
           delete == ~failed /\ ~mig.copy
       IN  /\ sock' = [sock EXCEPT !.reps = Tail(@), !.last_dbid = LastDbid(failed)]
           /\ mig' = [mig EXCEPT !.j = @ + 1, !.error = @ \/ failed,
                                 !.del = IF delete THEN @ \cup {k} ELSE @]
           /\ source' = IF delete THEN [source EXCEPT ![k] = Absent] ELSE source
           /\ removed' = IF delete /\ source[k] # Absent
                         THEN removed \cup {<<k, source[k][1], source[k][2], mig.dbid, mig.mixed>>}
                         ELSE removed
    /\ UNCHANGED <<replica, target, orphans, restored, migTodo>>

(* All replies are in.                                                     *)
MigrateDone ==
    /\ mig.phase = "restore" /\ mig.j = Len(mig.kv)
    /\ sock' = IF mig.error THEN sock ELSE [sock EXCEPT !.last_dbid = mig.dbid]
    /\ mig' = NoMigrate /\ Propagate
    /\ UNCHANGED <<source, target, orphans, restored, removed, migTodo>>

(* A read fails: the connection is broken, or nothing comes in time.       *)
ReadFails ==
    /\ mig.phase \in {"select", "restore"} /\ sock.reps = <<>>
    /\ mig.phase = "restore" => mig.j < Len(mig.kv)
    /\ \E timedout \in BOOLEAN :
          /\ IF timedout THEN Fault ELSE ~sock.alive /\ UNCHANGED migTodo
          /\ IF mig.error
             THEN migrateCloseSocket /\ mig' = NoMigrate /\ Propagate
             ELSE SocketError(timedout, mig.may_retry /\ mig.j = 0, mig.ttl)
    /\ UNCHANGED <<source, target, restored, removed>>

(* serverCron(): a socket that has not been used for ten seconds.          *)
migrateCloseTimedoutSockets ==
    /\ mig.phase = "idle" /\ sock.open
    /\ migrateCloseSocket
    /\ UNCHANGED <<source, replica, target, mig, restored, removed, migTodo>>

MigrateNext ==
    \/ TargetRuns \/ OrphanRuns \/ OrphanDropped \/ TargetClient \/ TargetCloses
    \/ SourceSets \/ migrateCommand \/ Transmit \/ CannotConnect \/ WriteFails
    \/ ReadSelect \/ ReadRestore \/ MigrateDone \/ ReadFails \/ migrateCloseTimedoutSockets

MigrateSpec == MigrateInit /\ [][MigrateNext]_migVars

-------------------------------------------------------------------------------
(* Whatever breaks and whenever, a key that MIGRATE deleted from the       *)
(* source was stored by the target, with its value and in the database the *)
(* command named (migrateCommand() deletes on the acknowledgment).  The    *)
(* exception is database -1, the last_dbid of a new socket: no SELECT is   *)
(* sent that the target would refuse.                                      *)
RightDb(s, r) == s[4] = r[4] \/ r[4] = -1

DeletedWereRestored ==
    \A r \in removed : \E s \in restored : s[1] = r[1] /\ s[2] = r[2] /\ RightDb(s, r)

(* It was stored with its time to live as well, unless it has none and     *)
(* goes in one command with keys that have one.                            *)
TtlKeptUnlessMixed ==
    \A r \in removed : (r[3] # 0 \/ ~r[5]) =>
        \E s \in restored : s[1] = r[1] /\ s[2] = r[2] /\ s[3] = r[3] /\ RightDb(s, r)

(* What the test "MIGRATE propagates TTL correctly" of tests/unit/dump.tcl *)
(* says, for every key of every command.                                   *)
TtlKept ==
    \A r \in removed : \E s \in restored : s[1] = r[1] /\ s[2] = r[2] /\ s[3] = r[3]

(* The cached socket never stands on another database than its last_dbid   *)
(* says: a RESTORE lands in the database its MIGRATE named, unless the     *)
(* target refused to select it.                                            *)
RestoredIntoDb == \A s \in restored : s[4] = s[5] \/ s[5] \notin MigDbs

(* Once the command is over the replicas of the source have deleted        *)
(* exactly the keys the source has deleted.                                *)
SourceReplicaFollows == mig.phase = "idle" => replica = source

(* MIGRATE deletes only what the target has stored, with its time to live  *)
(* and in the database asked for, and its replica deletes the same.        *)
MigrateSound == DeletedWereRestored /\ TtlKeptUnlessMixed /\ RestoredIntoDb /\ SourceReplicaFollows

-------------------------------------------------------------------------------
(* The inductive invariant behind MigrateSound.                            *)
MigRequest ==
    ({"select"} \X Int) \cup ({"restore"} \X MigKeys \X Int \X Int \X BOOLEAN \X Int)

MigSocket ==
    [open : BOOLEAN, alive : BOOLEAN, last_dbid : Int, sel : MigDbs,
     reqs : Seq(MigRequest), reps : Seq({"+", "-"})]

MigCommand ==
    [phase : {"idle", "connect", "select", "restore"}, kv : Seq(MigKeys),
     dbid : MigDbids \cup {0}, copy : BOOLEAN, replace : BOOLEAN, may_retry : BOOLEAN,
     ttl : Int, select : BOOLEAN, refused : BOOLEAN, j : Nat, error : BOOLEAN,
     del : SUBSET MigKeys, mixed : BOOLEAN]

MigTypeOK ==
    /\ source \in [MigKeys -> Int \X Int] /\ replica \in [MigKeys -> Int \X Int]
    /\ target \in [MigDbs -> [MigKeys -> Int \X Int]]
    /\ sock \in MigSocket
    /\ orphans \subseteq MigDbs \X Seq(MigRequest)
    /\ mig \in MigCommand
    /\ migTodo \in [sets : Nat, migrates : Nat, faults : Nat]

(* Between the pipeline and its last reply.                                *)
Piped == mig.phase \in {"select", "restore"}

(* How many replies have been read, and how many requests executed whose   *)
(* replies are not lost.                                                   *)
RepliesRead == IF mig.phase = "select" THEN 0 ELSE Selects(mig.select) + mig.j
Executed == RepliesRead + Len(sock.reps)

(* Request i of the pipeline; RESTORE is right about a key still there.    *)
AsksFor(k, req) ==
    /\ req[1] = "restore" /\ req[2] = k /\ req[6] = mig.dbid
    /\ source[k] # Absent =>
         /\ req[3] = source[k][1]
         /\ source[k][2] # 0 \/ ~mig.mixed => req[4] = source[k][2]

Asks(i, req) ==
    IF i <= Selects(mig.select) THEN req = <<"select", mig.dbid>>
    ELSE AsksFor(mig.kv[i - Selects(mig.select)], req)

(* What reply i of the pipeline says.                                      *)
Stored(k) ==
    source[k] # Absent =>
      \E s \in restored :
         /\ s[1] = k /\ s[2] = source[k][1]
         /\ s[4] = mig.dbid \/ mig.dbid \notin MigDbs
         /\ source[k][2] # 0 \/ ~mig.mixed => s[3] = source[k][2]

Tells(i, reply) ==
    reply = "+" => IF i <= Selects(mig.select) THEN mig.dbid \in MigDbs
                   ELSE Stored(mig.kv[i - Selects(mig.select)])

PipelineInv ==
    IF Piped
    THEN /\ mig.j <= Len(mig.kv) /\ Executed <= Selects(mig.select) + Len(mig.kv)
         /\ mig.phase = "select" => mig.select /\ mig.j = 0
         /\ Len(sock.reqs) = IF sock.alive THEN Selects(mig.select) + Len(mig.kv) - Executed ELSE 0
         /\ \A i \in 1 .. Len(sock.reqs) : Asks(Executed + i, sock.reqs[i])
         /\ \A i \in 1 .. Len(sock.reps) : Tells(RepliesRead + i, sock.reps[i])
    ELSE sock.reqs = <<>> /\ sock.reps = <<>>

(* The database of the cached socket.                                      *)
SelectedInv ==
    IF Piped
    THEN /\ Executed >= Selects(mig.select) => sock.sel = mig.dbid \/ mig.dbid \notin MigDbs
         /\ mig.select \/ mig.dbid \in MigDbs \cup {-1}
         /\ mig.phase = "restore" /\ mig.select /\ ~mig.refused => mig.dbid \in MigDbs
         /\ mig.j > 0 /\ ~mig.error => ~(mig.select /\ mig.refused)
         /\ mig.error => sock.last_dbid = -1
    ELSE sock.last_dbid \in {-1, sock.sel}

(* An abandoned connection stands on the database of its requests, or its  *)
(* next one is the SELECT.                                                 *)
Abandoned(sel, reqs) ==
    /\ reqs # <<>>
    /\ \E dbid \in MigDbids \cup {0} :
          /\ \A i \in 1 .. Len(reqs) :
                IF reqs[i][1] = "select" THEN i = 1 /\ reqs[i][2] = dbid ELSE reqs[i][6] = dbid
          /\ reqs[1][1] = "select" \/ sel = dbid \/ dbid \notin MigDbs

OrphansInv == \A o \in orphans : Abandoned(o[1], o[2])

(* The keys of the command, before the first of them is deleted.           *)
KeysInv ==
    /\ mig.phase = "idle" => mig = NoMigrate
    /\ mig.phase # "idle" => mig.kv # <<>>
    /\ mig.phase = "connect" => mig.j = 0
    /\ mig.j = 0 => mig.del = {}
    /\ mig.j = 0 /\ (\A n \in 1 .. Len(mig.kv) : source[mig.kv[n]][2] = 0) => mig.ttl = 0
    /\ mig.j = 0 /\ ~mig.mixed =>
         \/ \A n \in 1 .. Len(mig.kv) : source[mig.kv[n]][2] = 0
         \/ \A n \in 1 .. Len(mig.kv) : source[mig.kv[n]][2] # 0
    /\ source = [k \in MigKeys |-> IF k \in mig.del THEN Absent ELSE replica[k]]

MigrateInv ==
    /\ MigTypeOK /\ PipelineInv /\ SelectedInv /\ OrphansInv /\ KeysInv
    /\ DeletedWereRestored /\ TtlKeptUnlessMixed /\ RestoredIntoDb
================================================================================
