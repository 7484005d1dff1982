---------------------------- MODULE MigrateProofs ----------------------------
(***************************************************************************)
(* MIGRATE never loses a key, for any keys, key lists and databases and    *)
(* any number of faults.                                                   *)
(***************************************************************************)
EXTENDS Migrate, WellFoundedInduction, TLAPS

\* A set of positions has a last one.
LEMMA LargestExists ==
  ASSUME NEW n \in Nat, NEW S, S \subseteq 1 .. n, S # {}
  PROVE  \E i \in S : \A j \in S : j <= i
<1>1. PICK R : R = {ss \in Nat \X Nat : ss[1] < ss[2]}
  OBVIOUS
<1>2. IsWellFoundedOn(R, Nat)
  BY <1>1, NatLessThanWellFounded, Zenon DEF OpToRel
<1>3. PICK T : T = {n - i : i \in S}
  OBVIOUS
<1>4. T \subseteq Nat /\ T # {}
  <2>1. ASSUME NEW i \in S PROVE n - i \in Nat
    OBVIOUS
  <2>2. T \subseteq Nat
    BY <1>3, <2>1
  <2>3. PICK i : i \in S
    OBVIOUS
  <2>4. n - i \in T
    BY <1>3, <2>3
  <2>5. QED
    BY <2>2, <2>4
<1>5. PICK x \in T : \A y \in T : ~(<<y, x>> \in R)
  BY <1>2, <1>4, WFMin
<1>6. PICK i \in S : x = n - i
  BY <1>3, <1>5
<1>7. ASSUME NEW j \in S PROVE j <= i
  <2>1. n - j \in T /\ n - j \in Nat /\ x \in Nat
    BY <1>3, <1>4
  <2>2. <<n - j, x>> \notin R
    BY <1>5, <2>1
  <2>3. ~(n - j < x)
    BY <1>1, <2>1, <2>2
  <2>4. QED
    BY <1>6, <2>1, <2>3
<1>8. QED
  BY <1>7

(* KeysInv, of a command m and the keyspaces of the source and its replica. *)
Keyed(m, src, rep) ==
    /\ m.phase = "idle" => m = NoMigrate
    /\ m.phase # "idle" => m.kv # <<>>
    /\ m.phase = "connect" => m.j = 0
    /\ m.j = 0 => m.del = {}
    /\ m.j = 0 /\ (\A n \in 1 .. Len(m.kv) : src[m.kv[n]][2] = 0) => m.ttl = 0
    /\ m.j = 0 /\ ~m.mixed =>
         \/ \A n \in 1 .. Len(m.kv) : src[m.kv[n]][2] = 0
         \/ \A n \in 1 .. Len(m.kv) : src[m.kv[n]][2] # 0
    /\ src = [k \in MigKeys |-> IF k \in m.del THEN Absent ELSE rep[k]]

LEMMA KeysAre ==
  /\ KeysInv <=> Keyed(mig, source, replica)
  /\ KeysInv' <=> Keyed(mig', source', replica')
BY DEF KeysInv, Keyed

\* Between commands.
LEMMA IdleKeys ==
  ASSUME NEW src, NEW T, src \in [MigKeys -> T]
  PROVE  Keyed(NoMigrate, src, src)
<1>1. PICK m : m = NoMigrate
  OBVIOUS
<1>2. /\ m.phase = "idle" /\ m.kv = <<>> /\ m.j = 0 /\ m.del = {} /\ m.ttl = 0
  BY <1>1 DEF NoMigrate
<1>3. Len(m.kv) = 0
  BY <1>2
<1>4. \A n \in 1 .. Len(m.kv) : src[m.kv[n]][2] = 0
  BY <1>3
<1>5. src = [k \in MigKeys |-> IF k \in m.del THEN Absent ELSE src[k]]
  BY <1>2
<1>6. Keyed(m, src, src)
  BY <1>1, <1>2, <1>4, <1>5 DEF Keyed
<1>7. QED
  BY <1>1, <1>6

\* A step of a command that deletes nothing.
LEMMA SameKeys ==
  ASSUME NEW m, NEW w, NEW src, NEW rep, Keyed(m, src, rep), w.kv = m.kv, w.j = m.j,
         w.del = m.del, w.mixed = m.mixed, m.phase # "idle", w.phase # "idle",
         w.phase = "connect" => w.j = 0,
         w.j = 0 /\ (\A n \in 1 .. Len(m.kv) : src[m.kv[n]][2] = 0) => w.ttl = 0
  PROVE  Keyed(w, src, rep)
<1>1. w.kv # <<>> /\ (w.j = 0 => w.del = {})
  BY DEF Keyed
<1>2. src = [k \in MigKeys |-> IF k \in w.del THEN Absent ELSE rep[k]]
  BY DEF Keyed
<1>3. w.j = 0 /\ ~w.mixed =>
         \/ \A n \in 1 .. Len(w.kv) : src[w.kv[n]][2] = 0
         \/ \A n \in 1 .. Len(w.kv) : src[w.kv[n]][2] # 0
  BY DEF Keyed
<1>4. QED
  BY <1>1, <1>2, <1>3 DEF Keyed

\* How far the replies are read and the requests executed.
LEMMA Counted ==
  ASSUME MigrateInv
  PROVE  /\ Selects(mig.select) \in {0, 1} /\ RepliesRead \in Nat /\ Executed \in Nat
         /\ Executed = RepliesRead + Len(sock.reps) /\ Len(mig.kv) \in Nat
<1>1. mig \in MigCommand /\ sock \in MigSocket
  BY DEF MigrateInv, MigTypeOK
<1>2. mig.j \in Nat /\ mig.kv \in Seq(MigKeys) /\ sock.reps \in Seq({"+", "-"})
  BY <1>1 DEF MigCommand, MigSocket
<1>3. Selects(mig.select) \in {0, 1}
  BY DEF Selects
<1>4. RepliesRead \in Nat
  BY <1>2, <1>3 DEF RepliesRead
<1>5. Len(sock.reps) \in Nat /\ Len(mig.kv) \in Nat
  BY <1>2
<1>6. QED
  BY <1>3, <1>4, <1>5 DEF Executed

\* What the target makes of one request.
LEMMA Executing ==
  ASSUME MigTypeOK, NEW sel \in MigDbs, NEW req \in MigRequest, NEW r, r = Execute1(sel, req)
  PROVE  /\ r[1] \in MigDbs
         /\ r[2] \in [MigDbs -> [MigKeys -> Int \X Int]]
         /\ r[3] \in {"+", "-"}
         /\ req[1] = "select" =>
              /\ req[2] \in MigDbs => r[1] = req[2]
              /\ r[3] = "+" => req[2] \in MigDbs
              /\ r[4] = {}
         /\ req[1] # "select" =>
              /\ r[1] = sel
              /\ r[3] = "+" => r[4] = {<<req[2], req[3], req[4], sel, req[6]>>}
              /\ r[3] # "+" => r[4] = {}
<1>1. CASE req[1] = "select"
  <2>1. CASE req[2] \in MigDbs
    <3>1. r = <<req[2], target, "+", {}>>
      BY <1>1, <2>1 DEF Execute1
    <3>2. QED
      BY <1>1, <2>1, <3>1 DEF MigTypeOK
  <2>2. CASE req[2] \notin MigDbs
    <3>1. r = <<sel, target, "-", {}>>
      BY <1>1, <2>2 DEF Execute1
    <3>2. QED
      BY <1>1, <2>2, <3>1 DEF MigTypeOK
  <2>3. QED
    BY <2>1, <2>2
<1>2. CASE req[1] # "select"
  <2>1. req \in {"restore"} \X MigKeys \X Int \X Int \X BOOLEAN \X Int
    BY <1>2 DEF MigRequest
  <2>2. PICK q : q = restoreCommand(target[sel], req[2], req[3], req[4], req[5])
    OBVIOUS
  <2>3. q[1] \in {"+", "-"} /\ q[2] \in [MigKeys -> Int \X Int]
    BY <2>1, <2>2 DEF restoreCommand, MigTypeOK
  <2>4. PICK t : t = [target EXCEPT ![sel] = q[2]]
    OBVIOUS
  <2>5. t \in [MigDbs -> [MigKeys -> Int \X Int]]
    BY <2>3, <2>4 DEF MigTypeOK
  <2>6. r = <<sel, t, q[1], IF q[1] = "+" THEN {<<req[2], req[3], req[4], sel, req[6]>>} ELSE {}>>
    BY <1>2, <2>2, <2>4 DEF Execute1
  <2>7. QED
    BY <1>2, <2>3, <2>5, <2>6
<1>3. QED
  BY <1>1, <1>2

\* The empty pipeline.
LEMMA NoRequests == <<>> \in Seq(MigRequest) /\ <<>> \in Seq({"+", "-"})
  OBVIOUS

\* A fault leaves a budget.
LEMMA FaultType ==
  ASSUME MigTypeOK, Fault
  PROVE  migTodo' \in [sets : Nat, migrates : Nat, faults : Nat]
<1>1. migTodo \in [sets : Nat, migrates : Nat, faults : Nat] /\ migTodo.faults > 0
  BY DEF MigTypeOK, Fault
<1>2. PICK n : n = migTodo.faults - 1
  OBVIOUS
<1>3. n \in Nat
  BY <1>1, <1>2
<1>4. migTodo' = [migTodo EXCEPT !.faults = n]
  BY <1>2 DEF Fault
<1>5. QED
  BY <1>1, <1>3, <1>4

\* What RESTORE has stored stays on record.
LEMMA HistoryKeeps ==
  ASSUME DeletedWereRestored, TtlKeptUnlessMixed, RestoredIntoDb,
         restored \subseteq restored', removed' = removed,
         \A s \in restored' \ restored : s[4] = s[5] \/ s[5] \notin MigDbs
  PROVE  DeletedWereRestored' /\ TtlKeptUnlessMixed' /\ RestoredIntoDb'
<1>1. DeletedWereRestored'
  BY DEF DeletedWereRestored, RightDb
<1>2. TtlKeptUnlessMixed'
  BY DEF TtlKeptUnlessMixed, RightDb
<1>3. RestoredIntoDb'
  BY DEF RestoredIntoDb
<1>4. QED
  BY <1>1, <1>2, <1>3

LEMMA AsksSame ==
  ASSUME UNCHANGED <<mig, source>>, NEW i, NEW req, Asks(i, req)
  PROVE  Asks(i, req)'
  BY DEF Asks, AsksFor, Selects

LEMMA TellsMore ==
  ASSUME UNCHANGED <<mig, source>>, restored \subseteq restored', NEW i, NEW reply, Tells(i, reply)
  PROVE  Tells(i, reply)'
<1>1. ASSUME NEW k, Stored(k) PROVE Stored(k)'
  BY <1>1 DEF Stored
<1>2. PICK k : k = mig.kv[i - Selects(mig.select)]
  OBVIOUS
<1>3. (Selects(mig.select))' = Selects(mig.select)
  BY DEF Selects
<1>4. mig'.kv[i - (Selects(mig.select))'] = k
  BY <1>2, <1>3
<1>5. reply = "+" => IF i <= Selects(mig.select) THEN mig.dbid \in MigDbs ELSE Stored(k)
  BY <1>2 DEF Tells
<1>6. reply = "+" => IF i <= (Selects(mig.select))' THEN mig'.dbid \in MigDbs ELSE Stored(k)'
  BY <1>1, <1>3, <1>5
<1>7. QED
  BY <1>4, <1>6 DEF Tells

\* Steps that leave the source, the command and its socket alone.
LEMMA ApartKeeps ==
  ASSUME MigrateInv, UNCHANGED <<source, replica, sock, mig>>, restored \subseteq restored'
  PROVE  PipelineInv' /\ SelectedInv' /\ KeysInv'
<1>1. PipelineInv'
  <2>1. Piped' <=> Piped
    BY DEF Piped
  <2>2. Executed' = Executed /\ RepliesRead' = RepliesRead
    BY DEF Executed, RepliesRead, Selects
  <2>3. CASE Piped
    <3>1. \A i \in 1 .. Len(sock.reqs) : Asks(Executed + i, sock.reqs[i])
      BY <2>3 DEF MigrateInv, PipelineInv
    <3>2. \A i \in 1 .. Len(sock.reps) : Tells(RepliesRead + i, sock.reps[i])
      BY <2>3 DEF MigrateInv, PipelineInv
    <3>3. PICK e, n : e = Executed /\ n = RepliesRead
      OBVIOUS
    <3>4. ASSUME NEW i \in 1 .. Len(sock.reqs) PROVE (Asks(e + i, sock.reqs[i]))'
      <4>1. PICK req : req = sock.reqs[i]
        OBVIOUS
      <4>2. Asks(e + i, req)
        BY <3>1, <3>3, <4>1
      <4>3. Asks(e + i, req)'
        BY <4>2, AsksSame
      <4>4. QED
        BY <4>1, <4>3
    <3>5. ASSUME NEW i \in 1 .. Len(sock.reps) PROVE (Tells(n + i, sock.reps[i]))'
      <4>1. PICK reply : reply = sock.reps[i]
        OBVIOUS
      <4>2. Tells(n + i, reply)
        BY <3>2, <3>3, <4>1
      <4>3. Tells(n + i, reply)'
        BY <4>2, TellsMore
      <4>4. QED
        BY <4>1, <4>3
    <3>6. \A i \in 1 .. Len(sock'.reqs) : (Asks(Executed + i, sock.reqs[i]))'
      BY <2>2, <3>3, <3>4
    <3>7. \A i \in 1 .. Len(sock'.reps) : (Tells(RepliesRead + i, sock.reps[i]))'
      BY <2>2, <3>3, <3>5
    <3>8. QED
      BY <2>1, <2>2, <2>3, <3>6, <3>7 DEF MigrateInv, PipelineInv, Selects
  <2>4. CASE ~Piped
    BY <2>1, <2>4 DEF MigrateInv, PipelineInv
  <2>5. QED
    BY <2>3, <2>4
<1>2. SelectedInv'
  BY DEF MigrateInv, SelectedInv, Piped, Executed, RepliesRead, Selects
<1>3. KeysInv'
  BY DEF MigrateInv, KeysInv
<1>4. QED
  BY <1>1, <1>2, <1>3

\* The target executes a request of the pipeline.
LEMMA TargetRunsKeeps ==
  ASSUME MigrateInv, TargetRuns
  PROVE  MigrateInv'
<1>1. /\ sock \in MigSocket /\ sock.alive /\ sock.reqs # <<>> /\ sock.sel \in MigDbs
      /\ sock.reqs \in Seq(MigRequest) /\ sock.reps \in Seq({"+", "-"})
      /\ UNCHANGED <<source, replica, orphans, mig, removed, migTodo>>
  BY DEF MigrateInv, MigTypeOK, TargetRuns, MigSocket
<1>2. PICK req, sel, r : /\ req = Head(sock.reqs) /\ sel = sock.sel /\ r = Execute1(sel, req)
                         /\ sock' = [sock EXCEPT !.sel = r[1], !.reqs = Tail(@), !.reps = Append(@, r[3])]
                         /\ target' = r[2] /\ restored' = restored \cup r[4]
  BY DEF TargetRuns
<1>3. req = sock.reqs[1] /\ req \in MigRequest
  BY <1>1, <1>2
<1>4. /\ r[1] \in MigDbs
      /\ r[2] \in [MigDbs -> [MigKeys -> Int \X Int]]
      /\ r[3] \in {"+", "-"}
      /\ req[1] = "select" =>
           /\ req[2] \in MigDbs => r[1] = req[2]
           /\ r[3] = "+" => req[2] \in MigDbs
           /\ r[4] = {}
      /\ req[1] # "select" =>
           /\ r[1] = sel
           /\ r[3] = "+" => r[4] = {<<req[2], req[3], req[4], sel, req[6]>>}
           /\ r[3] # "+" => r[4] = {}
  <2>1. MigTypeOK /\ sel \in MigDbs
    BY <1>1, <1>2 DEF MigrateInv
  <2>2. r = Execute1(sel, req)
    BY <1>2
  <2>3. QED
    BY <1>3, <2>1, <2>2, Executing
<1>5. /\ sock'.open = sock.open /\ sock'.alive = sock.alive /\ sock'.last_dbid = sock.last_dbid
      /\ sock'.sel = r[1] /\ sock'.reqs = Tail(sock.reqs) /\ sock'.reps = Append(sock.reps, r[3])
  BY <1>1, <1>2 DEF MigSocket
<1>6. /\ Tail(sock.reqs) \in Seq(MigRequest) /\ Append(sock.reps, r[3]) \in Seq({"+", "-"})
      /\ Len(Tail(sock.reqs)) = Len(sock.reqs) - 1
      /\ \A i \in 1 .. Len(sock.reqs) - 1 : Tail(sock.reqs)[i] = sock.reqs[i + 1]
      /\ Len(Append(sock.reps, r[3])) = Len(sock.reps) + 1
      /\ \A i \in 1 .. Len(sock.reps) : Append(sock.reps, r[3])[i] = sock.reps[i]
      /\ Append(sock.reps, r[3])[Len(sock.reps) + 1] = r[3]
      /\ Len(sock.reqs) \in Nat \ {0} /\ Len(sock.reps) \in Nat
  BY <1>1, <1>4
<1>7. sock' \in MigSocket
  BY <1>1, <1>2, <1>4, <1>6 DEF MigSocket
<1>8. MigTypeOK'
  BY <1>1, <1>2, <1>4, <1>7 DEF MigrateInv, MigTypeOK
<1>9. Piped /\ Piped'
  BY <1>1 DEF MigrateInv, PipelineInv, Piped
<1>10. PICK e, n, S, K : /\ e = Executed /\ n = RepliesRead /\ S = Selects(mig.select)
                         /\ K = Len(mig.kv)
  OBVIOUS
<1>11. S \in {0, 1} /\ n \in Nat /\ e = n + Len(sock.reps) /\ e \in Nat /\ K \in Nat
  BY <1>10, Counted
<1>12. RepliesRead' = n /\ Executed' = e + 1 /\ (Selects(mig.select))' = S
  <2>1. RepliesRead' = n
    BY <1>1, <1>10 DEF RepliesRead, Selects
  <2>2. (Selects(mig.select))' = S
    BY <1>1, <1>10 DEF Selects
  <2>3. Executed' = n + (Len(sock.reps) + 1)
    BY <1>5, <1>6, <2>1 DEF Executed
  <2>4. QED
    BY <1>6, <1>11, <2>1, <2>2, <2>3
<1>13. /\ mig.j <= K /\ e <= S + K
       /\ mig.phase = "select" => mig.select /\ mig.j = 0
       /\ Len(sock.reqs) = S + K - e
       /\ \A i \in 1 .. Len(sock.reqs) : Asks(e + i, sock.reqs[i])
       /\ \A i \in 1 .. Len(sock.reps) : Tells(n + i, sock.reps[i])
  BY <1>1, <1>9, <1>10 DEF MigrateInv, PipelineInv
<1>14. Asks(e + 1, req)
  BY <1>3, <1>6, <1>13
<1>15. e >= S => sel = mig.dbid \/ mig.dbid \notin MigDbs
  BY <1>2, <1>9, <1>10 DEF MigrateInv, SelectedInv
<1>16. /\ e + 1 <= S <=> req[1] = "select"
       /\ e + 1 <= S => req[2] = mig.dbid
       /\ ~(e + 1 <= S) => req[6] = mig.dbid
  BY <1>10, <1>14 DEF Asks, AsksFor
<1>17. ~(e + 1 <= S) => sel = mig.dbid \/ mig.dbid \notin MigDbs
  BY <1>11, <1>15
<1>18. PICK m, reply : m = e + 1 /\ reply = r[3]
  OBVIOUS
<1>26. Tells(m, reply)'
  <2>1. SUFFICES ASSUME reply = "+" PROVE Tells(m, reply)'
    BY DEF Tells
  <2>2. CASE m <= S
    <3>1. mig.dbid \in MigDbs
      BY <1>4, <1>16, <1>18, <2>1, <2>2
    <3>2. QED
      BY <1>1, <1>12, <2>2, <3>1 DEF Tells
  <2>3. CASE ~(m <= S)
    <3>1. PICK at, k : at = m - S /\ k = mig.kv[at]
      OBVIOUS
    <3>2. AsksFor(k, req)
      BY <1>10, <1>14, <1>18, <2>3, <3>1 DEF Asks
    <3>3. PICK s : s = <<req[2], req[3], req[4], sel, req[6]>>
      OBVIOUS
    <3>4. s \in restored'
      BY <1>2, <1>4, <1>16, <1>18, <2>1, <2>3, <3>3
    <3>5. s[1] = k /\ s[2] = req[3] /\ s[3] = req[4] /\ s[4] = sel
      BY <3>2, <3>3 DEF AsksFor
    <3>6. Stored(k)'
      BY <1>1, <1>17, <1>18, <2>3, <3>2, <3>4, <3>5 DEF AsksFor, Stored
    <3>7. mig'.kv[m - (Selects(mig.select))'] = k
      BY <1>1, <1>12, <3>1
    <3>8. ~(m <= (Selects(mig.select))')
      BY <1>12, <2>3
    <3>9. QED
      BY <3>6, <3>7, <3>8 DEF Tells
  <2>4. QED
    BY <2>2, <2>3
<1>19. PipelineInv'
  <2>1. ASSUME NEW i \in 1 .. Len(sock'.reqs) PROVE (Asks(Executed + i, sock.reqs[i]))'
    <3>1. PICK q, x : q = sock.reqs[i + 1] /\ x = e + (i + 1)
      OBVIOUS
    <3>2. i \in 1 .. Len(sock.reqs) - 1 /\ i + 1 \in 1 .. Len(sock.reqs)
      BY <1>5, <1>6
    <3>3. Asks(x, q)
      BY <1>13, <3>1, <3>2
    <3>4. Asks(x, q)'
      BY <1>1, <3>3, AsksSame
    <3>5. sock'.reqs[i] = q
      BY <1>5, <1>6, <3>1, <3>2
    <3>6. Executed' + i = x
      <4>1. i \in Int /\ e \in Int
        BY <1>11
      <4>2. Executed' = e + 1 /\ x = e + (i + 1)
        BY <1>12, <3>1
      <4>3. (e + 1) + i = e + (i + 1)
        BY <4>1
      <4>4. QED
        BY <4>2, <4>3
    <3>7. QED
      BY <3>4, <3>5, <3>6
  <2>2. ASSUME NEW i \in 1 .. Len(sock'.reps) PROVE (Tells(RepliesRead + i, sock.reps[i]))'
    <3>1. CASE i = Len(sock.reps) + 1
      <4>1. sock'.reps[i] = r[3] /\ RepliesRead' + i = e + 1
        BY <1>5, <1>6, <1>11, <1>12, <3>1
      <4>2. QED
        BY <1>18, <1>26, <4>1
    <3>2. CASE i # Len(sock.reps) + 1
      <4>1. i \in 1 .. Len(sock.reps)
        BY <1>5, <1>6, <3>2
      <4>2. PICK told : told = sock.reps[i]
        OBVIOUS
      <4>3. Tells(n + i, told)
        BY <1>13, <4>1, <4>2
      <4>4. Tells(n + i, told)'
        BY <1>1, <1>2, <4>3, TellsMore
      <4>5. sock'.reps[i] = told /\ RepliesRead' + i = n + i
        BY <1>5, <1>6, <1>12, <4>1, <4>2
      <4>6. QED
        BY <4>4, <4>5
    <3>3. QED
      BY <3>1, <3>2
  <2>3. /\ mig'.j <= Len(mig'.kv) /\ Executed' <= (Selects(mig.select))' + Len(mig'.kv)
        /\ mig'.phase = "select" => mig'.select /\ mig'.j = 0
        /\ Len(sock'.reqs) = IF sock'.alive THEN (Selects(mig.select))' + Len(mig'.kv) - Executed' ELSE 0
    <3>1. Len(mig'.kv) = K /\ mig'.j = mig.j /\ mig'.phase = mig.phase /\ mig'.select = mig.select
      BY <1>1, <1>10
    <3>2. sock'.alive /\ Len(sock'.reqs) = S + K - e - 1
      <4>1. sock'.alive /\ Len(sock'.reqs) = Len(sock.reqs) - 1
        BY <1>1, <1>5, <1>6
      <4>2. Len(sock.reqs) = S + K - e
        BY <1>13
      <4>3. QED
        BY <1>11, <4>1, <4>2
    <3>3. e + 1 <= S + K
      BY <1>6, <1>11, <1>13
    <3>4. S + K - e - 1 = S + K - (e + 1)
      BY <1>11
    <3>5. QED
      BY <1>12, <1>13, <3>1, <3>2, <3>3, <3>4
  <2>4. QED
    BY <1>9, <2>1, <2>2, <2>3 DEF PipelineInv
<1>20. SelectedInv'
  <2>1. r[1] = mig.dbid \/ mig.dbid \notin MigDbs
    BY <1>4, <1>16, <1>17
  <2>2. QED
    BY <1>1, <1>5, <1>9, <2>1 DEF MigrateInv, SelectedInv
<1>21. OrphansInv'
  BY <1>1 DEF MigrateInv, OrphansInv
<1>22. KeysInv'
  BY <1>1 DEF MigrateInv, KeysInv
<1>23. \A s \in restored' \ restored : s[4] = s[5] \/ s[5] \notin MigDbs
  BY <1>2, <1>4, <1>16, <1>17
<1>24. DeletedWereRestored' /\ TtlKeptUnlessMixed' /\ RestoredIntoDb'
  BY <1>1, <1>2, <1>23, HistoryKeeps DEF MigrateInv
<1>25. QED
  BY <1>8, <1>19, <1>20, <1>21, <1>22, <1>24 DEF MigrateInv

\* The target executes a request of an abandoned connection.
LEMMA OrphanRunsKeeps ==
  ASSUME MigrateInv, OrphanRuns
  PROVE  MigrateInv'
<1>1. UNCHANGED <<source, replica, sock, mig, removed, migTodo>>
  BY DEF OrphanRuns
<1>2. PICK o \in orphans :
        \E r \in {Execute1(o[1], Head(o[2]))} :
          /\ orphans' = (orphans \ {o}) \cup (IF Tail(o[2]) = <<>> THEN {} ELSE {<<r[1], Tail(o[2])>>})
          /\ target' = r[2] /\ restored' = restored \cup r[4]
  BY DEF OrphanRuns
<1>3. PICK sel, reqs, req, r :
        /\ sel = o[1] /\ reqs = o[2] /\ req = Head(reqs) /\ r = Execute1(sel, req)
        /\ orphans' = (orphans \ {o}) \cup (IF Tail(reqs) = <<>> THEN {} ELSE {<<r[1], Tail(reqs)>>})
        /\ target' = r[2] /\ restored' = restored \cup r[4]
  BY <1>2
<1>4. sel \in MigDbs /\ reqs \in Seq(MigRequest)
  BY <1>3 DEF MigrateInv, MigTypeOK
<1>5. reqs # <<>> /\ Abandoned(sel, reqs)
  BY <1>3 DEF MigrateInv, OrphansInv, Abandoned
<1>6. PICK dbid \in MigDbids \cup {0} :
            /\ \A i \in 1 .. Len(reqs) :
                  IF reqs[i][1] = "select" THEN i = 1 /\ reqs[i][2] = dbid ELSE reqs[i][6] = dbid
            /\ reqs[1][1] = "select" \/ sel = dbid \/ dbid \notin MigDbs
  BY <1>5 DEF Abandoned
<1>7. /\ req = reqs[1] /\ req \in MigRequest /\ Len(reqs) \in Nat \ {0}
      /\ Tail(reqs) \in Seq(MigRequest) /\ Len(Tail(reqs)) = Len(reqs) - 1
      /\ \A i \in 1 .. Len(reqs) - 1 : Tail(reqs)[i] = reqs[i + 1]
  BY <1>3, <1>4, <1>5
<1>8. /\ r[1] \in MigDbs
      /\ r[2] \in [MigDbs -> [MigKeys -> Int \X Int]]
      /\ req[1] = "select" =>
           /\ req[2] \in MigDbs => r[1] = req[2]
           /\ r[4] = {}
      /\ req[1] # "select" =>
           /\ r[1] = sel
           /\ r[3] = "+" => r[4] = {<<req[2], req[3], req[4], sel, req[6]>>}
           /\ r[3] # "+" => r[4] = {}
  <2>1. MigTypeOK /\ r = Execute1(sel, req)
    BY <1>3 DEF MigrateInv
  <2>2. QED
    BY <1>4, <1>7, <2>1, Executing
<1>9. IF req[1] = "select" THEN req[2] = dbid ELSE req[6] = dbid /\ (sel = dbid \/ dbid \notin MigDbs)
  BY <1>6, <1>7
<1>10. r[1] = dbid \/ dbid \notin MigDbs
  BY <1>8, <1>9
<1>11. \A s \in restored' \ restored : s[4] = s[5] \/ s[5] \notin MigDbs
  <2>1. SUFFICES ASSUME NEW s \in r[4] PROVE s[4] = s[5] \/ s[5] \notin MigDbs
    BY <1>3
  <2>2. req[1] # "select" /\ s = <<req[2], req[3], req[4], sel, req[6]>>
    BY <1>8, <2>1
  <2>3. s[4] = sel /\ s[5] = req[6]
    BY <2>2
  <2>4. QED
    BY <1>9, <2>2, <2>3
<1>12. DeletedWereRestored' /\ TtlKeptUnlessMixed' /\ RestoredIntoDb'
  BY <1>1, <1>3, <1>11, HistoryKeeps DEF MigrateInv
<1>13. OrphansInv'
  <2>1. SUFFICES ASSUME NEW p \in orphans' PROVE Abandoned(p[1], p[2])
    BY DEF OrphansInv
  <2>2. CASE p \in orphans
    BY <2>2 DEF MigrateInv, OrphansInv
  <2>3. CASE p \notin orphans
    <3>1. Tail(reqs) # <<>> /\ p = <<r[1], Tail(reqs)>>
      BY <1>3, <2>1, <2>3
    <3>2. p[1] = r[1] /\ p[2] = Tail(reqs)
      BY <3>1
    <3>3. ASSUME NEW i \in 1 .. Len(p[2])
          PROVE  IF p[2][i][1] = "select" THEN i = 1 /\ p[2][i][2] = dbid ELSE p[2][i][6] = dbid
      <4>1. i \in 1 .. Len(reqs) - 1 /\ i + 1 \in 1 .. Len(reqs) /\ i + 1 # 1
        BY <1>7, <3>2
      <4>2. p[2][i] = reqs[i + 1]
        BY <1>7, <3>2, <4>1
      <4>3. reqs[i + 1][1] # "select" /\ reqs[i + 1][6] = dbid
        BY <1>6, <4>1
      <4>4. QED
        BY <4>2, <4>3
    <3>4. QED
      BY <1>10, <3>1, <3>2, <3>3 DEF Abandoned
  <2>4. QED
    BY <2>2, <2>3
<1>14. MigTypeOK'
  <2>1. orphans' \subseteq MigDbs \X Seq(MigRequest)
    <3>1. PICK rest : rest = Tail(reqs)
      OBVIOUS
    <3>2. <<r[1], rest>> \in MigDbs \X Seq(MigRequest)
      BY <1>7, <1>8, <3>1
    <3>3. orphans' \subseteq orphans \cup {<<r[1], rest>>}
      BY <1>3, <3>1
    <3>4. orphans \subseteq MigDbs \X Seq(MigRequest)
      BY DEF MigrateInv, MigTypeOK
    <3>5. QED
      BY <3>2, <3>3, <3>4
  <2>2. QED
    BY <1>1, <1>3, <1>8, <2>1 DEF MigrateInv, MigTypeOK
<1>15. PipelineInv' /\ SelectedInv' /\ KeysInv'
  BY <1>1, <1>3, ApartKeeps
<1>16. QED
  BY <1>12, <1>13, <1>14, <1>15 DEF MigrateInv

\* The other steps of the target that leave the pipeline alone.
LEMMA OtherTargetKeeps ==
  ASSUME MigrateInv, OrphanDropped \/ TargetClient
  PROVE  MigrateInv'
<1>1. UNCHANGED <<source, replica, sock, mig, removed, restored>> /\ orphans' \subseteq orphans
  BY DEF OrphanDropped, TargetClient
<1>2. migTodo' \in [sets : Nat, migrates : Nat, faults : Nat]
  <2>1. CASE OrphanDropped
    BY <2>1 DEF OrphanDropped, MigrateInv, MigTypeOK
  <2>2. CASE TargetClient
    BY <2>2, FaultType DEF TargetClient, MigrateInv
  <2>3. QED
    BY <2>1, <2>2
<1>3. target' \in [MigDbs -> [MigKeys -> Int \X Int]]
  <2>1. CASE OrphanDropped
    BY <2>1 DEF OrphanDropped, MigrateInv, MigTypeOK
  <2>2. CASE TargetClient
    <3>1. PICK d \in MigDbs, k \in MigKeys :
            target' = [target EXCEPT ![d][k] = IF @ = Absent THEN <<-1, 0>> ELSE Absent]
      BY <2>2 DEF TargetClient
    <3>2. PICK x : x = IF target[d][k] = Absent THEN <<-1, 0>> ELSE Absent
      OBVIOUS
    <3>3. x \in Int \X Int
      BY <3>2 DEF Absent
    <3>4. target' = [target EXCEPT ![d] = [target[d] EXCEPT ![k] = x]]
      BY <3>1, <3>2 DEF MigrateInv, MigTypeOK
    <3>5. [target[d] EXCEPT ![k] = x] \in [MigKeys -> Int \X Int]
      BY <3>3 DEF MigrateInv, MigTypeOK
    <3>6. QED
      BY <3>4, <3>5 DEF MigrateInv, MigTypeOK
  <2>3. QED
    BY <2>1, <2>2
<1>4. MigTypeOK'
  BY <1>1, <1>2, <1>3 DEF MigrateInv, MigTypeOK
<1>5. OrphansInv'
  BY <1>1 DEF MigrateInv, OrphansInv
<1>6. DeletedWereRestored' /\ TtlKeptUnlessMixed' /\ RestoredIntoDb'
  BY <1>1, HistoryKeeps DEF MigrateInv
<1>7. PipelineInv' /\ SelectedInv' /\ KeysInv'
  BY <1>1, ApartKeeps
<1>8. QED
  BY <1>4, <1>5, <1>6, <1>7 DEF MigrateInv

\* The target closes the connection: the requests are gone, and some of the
\* replies.
LEMMA TargetClosesKeeps ==
  ASSUME MigrateInv, TargetCloses
  PROVE  MigrateInv'
<1>1. UNCHANGED <<source, replica, target, orphans, mig, restored, removed>> /\ Fault
  BY DEF TargetCloses
<1>2. PICK c \in 0 .. Len(sock.reps) :
        sock' = [sock EXCEPT !.alive = FALSE, !.reqs = <<>>, !.reps = SubSeq(@, 1, c)]
  BY DEF TargetCloses
<1>3. /\ sock \in MigSocket /\ sock.reps \in Seq({"+", "-"}) /\ Len(sock.reps) \in Nat /\ c \in Nat
      /\ sock.last_dbid \in Int
  BY DEF MigrateInv, MigTypeOK, MigSocket
<1>4. PICK kept : kept = SubSeq(sock.reps, 1, c)
  OBVIOUS
<1>5. /\ kept \in Seq({"+", "-"}) /\ Len(kept) = c
      /\ \A i \in 1 .. c : kept[i] = sock.reps[i]
  BY <1>2, <1>3, <1>4
<1>6. /\ sock' = [sock EXCEPT !.alive = FALSE, !.reqs = <<>>, !.reps = kept]
      /\ ~sock'.alive /\ sock'.last_dbid = sock.last_dbid /\ sock'.sel = sock.sel
      /\ sock'.reqs = <<>> /\ sock'.reps = kept
  BY <1>2, <1>3, <1>4 DEF MigSocket
<1>7. sock' \in MigSocket
  <2>1. PICK none : none \in Seq(MigRequest) /\ none = <<>>
    BY NoRequests
  <2>2. sock' = [sock EXCEPT !.alive = FALSE, !.reqs = none, !.reps = kept]
    BY <1>6, <2>1
  <2>3. QED
    BY <1>3, <1>5, <2>1, <2>2 DEF MigSocket
<1>8. MigTypeOK'
  BY <1>1, <1>7, FaultType DEF MigrateInv, MigTypeOK
<1>9. DeletedWereRestored' /\ TtlKeptUnlessMixed' /\ RestoredIntoDb'
  BY <1>1, HistoryKeeps DEF MigrateInv
<1>10. OrphansInv' /\ KeysInv'
  BY <1>1 DEF MigrateInv, OrphansInv, KeysInv
<1>11. CASE ~Piped
  <2>1. sock.reps = <<>> /\ ~Piped'
    BY <1>1, <1>11 DEF MigrateInv, PipelineInv, Piped
  <2>2. kept = <<>>
    BY <1>3, <1>5, <2>1
  <2>3. PipelineInv'
    BY <1>6, <2>1, <2>2 DEF PipelineInv
  <2>4. SelectedInv'
    BY <1>1, <1>6, <1>11, <2>1 DEF MigrateInv, SelectedInv
  <2>5. QED
    BY <1>8, <1>9, <1>10, <2>3, <2>4 DEF MigrateInv
<1>12. CASE Piped
  <2>1. Piped'
    BY <1>1, <1>12 DEF Piped
  <2>2. PICK e, n, S, K : /\ e = Executed /\ n = RepliesRead /\ S = Selects(mig.select)
                          /\ K = Len(mig.kv)
    OBVIOUS
  <2>3. S \in {0, 1} /\ n \in Nat /\ e = n + Len(sock.reps) /\ e \in Nat /\ K \in Nat
    BY <2>2, Counted
  <2>4. RepliesRead' = n /\ Executed' = n + c /\ (Selects(mig.select))' = S /\ Len(mig'.kv) = K
    BY <1>1, <1>5, <1>6, <2>2 DEF Executed, RepliesRead, Selects
  <2>5. /\ mig.j <= K /\ e <= S + K
        /\ mig.phase = "select" => mig.select /\ mig.j = 0
        /\ \A i \in 1 .. Len(sock.reps) : Tells(n + i, sock.reps[i])
    BY <1>12, <2>2 DEF MigrateInv, PipelineInv
  <2>6. n + c <= e
    BY <1>2, <1>3, <2>3
  <2>7. ASSUME NEW i \in 1 .. Len(sock'.reps) PROVE (Tells(RepliesRead + i, sock.reps[i]))'
    <3>1. PICK reply, m : reply = sock.reps[i] /\ m = n + i
      OBVIOUS
    <3>2. i \in 1 .. Len(sock.reps) /\ i \in 1 .. c
      BY <1>2, <1>3, <1>5, <1>6, <2>7
    <3>3. Tells(m, reply)
      BY <2>5, <3>1, <3>2
    <3>4. Tells(m, reply)'
      BY <1>1, <3>3, TellsMore
    <3>5. sock'.reps[i] = reply /\ RepliesRead' + i = m
      BY <1>5, <1>6, <2>4, <3>1, <3>2
    <3>6. QED
      BY <3>4, <3>5
  <2>8. PipelineInv'
    <3>1. mig'.j <= Len(mig'.kv) /\ Executed' <= (Selects(mig.select))' + Len(mig'.kv)
      BY <1>1, <1>3, <2>3, <2>4, <2>5, <2>6
    <3>2. mig'.phase = "select" => mig'.select /\ mig'.j = 0
      BY <1>1, <2>5
    <3>3. Len(sock'.reqs) = 0 /\ ~sock'.alive
      BY <1>6
    <3>4. \A i \in 1 .. Len(sock'.reqs) : (Asks(Executed + i, sock.reqs[i]))'
      BY <3>3
    <3>5. QED
      BY <2>1, <2>7, <3>1, <3>2, <3>3, <3>4 DEF PipelineInv
  <2>9. SelectedInv'
    <3>1. Executed' >= (Selects(mig.select))' => sock'.sel = mig'.dbid \/ mig'.dbid \notin MigDbs
      <4>1. n + c >= S => e >= S
        BY <1>3, <2>3, <2>6
      <4>2. e >= S => sock.sel = mig.dbid \/ mig.dbid \notin MigDbs
        BY <1>12, <2>2 DEF MigrateInv, SelectedInv
      <4>3. QED
        BY <1>1, <1>6, <2>4, <4>1, <4>2
    <3>2. QED
      BY <1>1, <1>6, <1>12, <2>1, <3>1 DEF MigrateInv, SelectedInv
  <2>10. QED
    BY <1>8, <1>9, <1>10, <2>8, <2>9 DEF MigrateInv
<1>13. QED
  BY <1>11, <1>12

\* Clients of the source write between two commands.
LEMMA SourceSetsKeeps ==
  ASSUME MigrateInv, SourceSets
  PROVE  MigrateInv'
<1>1. /\ UNCHANGED <<target, sock, orphans, mig, restored, removed>> /\ replica' = source'
      /\ mig.phase = "idle" /\ migTodo.sets > 0 /\ migTodo' = [migTodo EXCEPT !.sets = @ - 1]
  BY DEF SourceSets
<1>2. PICK k \in MigKeys, expires \in BOOLEAN :
        source' = [source EXCEPT ![k] = <<migTodo.sets, IF expires THEN k ELSE 0>>]
  BY DEF SourceSets
<1>3. PICK x : x = <<migTodo.sets, IF expires THEN k ELSE 0>>
  OBVIOUS
<1>4. x \in Int \X Int
  BY <1>3, MigrateAssumption DEF MigrateInv, MigTypeOK
<1>5. source' \in [MigKeys -> Int \X Int]
  BY <1>2, <1>3, <1>4 DEF MigrateInv, MigTypeOK
<1>6. migTodo' \in [sets : Nat, migrates : Nat, faults : Nat]
  <2>1. PICK n : n = migTodo.sets - 1
    OBVIOUS
  <2>2. n \in Nat
    BY <1>1, <2>1 DEF MigrateInv, MigTypeOK
  <2>3. migTodo' = [migTodo EXCEPT !.sets = n]
    BY <1>1, <2>1
  <2>4. QED
    BY <2>2, <2>3 DEF MigrateInv, MigTypeOK
<1>7. MigTypeOK'
  BY <1>1, <1>5, <1>6 DEF MigrateInv, MigTypeOK
<1>8. DeletedWereRestored' /\ TtlKeptUnlessMixed' /\ RestoredIntoDb'
  BY <1>1, HistoryKeeps DEF MigrateInv
<1>9. ~Piped /\ ~Piped'
  BY <1>1 DEF Piped
<1>10. PipelineInv' /\ SelectedInv' /\ OrphansInv'
  BY <1>1, <1>9 DEF MigrateInv, PipelineInv, SelectedInv, OrphansInv
<1>11. KeysInv'
  <2>1. mig = NoMigrate /\ mig' = NoMigrate
    BY <1>1 DEF MigrateInv, KeysInv
  <2>2. source' \in [MigKeys -> Int \X Int] /\ replica' = source'
    BY <1>1, <1>5, <1>7 DEF MigTypeOK
  <2>3. QED
    BY <2>1, <2>2, IdleKeys, KeysAre
<1>12. QED
  BY <1>7, <1>8, <1>10, <1>11 DEF MigrateInv

\* MIGRATE begins: the keys are looked up.
LEMMA migrateCommandKeeps ==
  ASSUME MigrateInv, migrateCommand
  PROVE  MigrateInv'
<1>1. /\ UNCHANGED <<source, replica, target, sock, orphans, restored, removed>>
      /\ mig.phase = "idle" /\ migTodo.migrates > 0
      /\ migTodo' = [migTodo EXCEPT !.migrates = @ - 1]
  BY DEF migrateCommand
<1>2. PICK order \in MigOrders, dbid \in MigDbids, copy, replace \in BOOLEAN :
      \E len \in 1 .. Len(order) : \E kv \in [1 .. len -> MigKeys] :
        /\ Existing(order, kv)
        /\ mig' = [phase |-> "connect", kv |-> kv, dbid |-> dbid, copy |-> copy, replace |-> replace,
                    may_retry |-> TRUE, ttl |-> 0, select |-> FALSE, refused |-> FALSE, j |-> 0,
                    error |-> FALSE, del |-> {},
                    mixed |-> \E m, n \in 1 .. len : source[kv[m]][2] = 0 /\ source[kv[n]][2] # 0]
  BY Zenon DEF migrateCommand
<1>15. PICK len \in 1 .. Len(order) : \E kv \in [1 .. len -> MigKeys] :
        /\ Existing(order, kv)
        /\ mig' = [phase |-> "connect", kv |-> kv, dbid |-> dbid, copy |-> copy, replace |-> replace,
                    may_retry |-> TRUE, ttl |-> 0, select |-> FALSE, refused |-> FALSE, j |-> 0,
                    error |-> FALSE, del |-> {},
                    mixed |-> \E m, n \in 1 .. len : source[kv[m]][2] = 0 /\ source[kv[n]][2] # 0]
  BY <1>2, Zenon
<1>16. PICK kv \in [1 .. len -> MigKeys] :
        /\ Existing(order, kv)
        /\ mig' = [phase |-> "connect", kv |-> kv, dbid |-> dbid, copy |-> copy, replace |-> replace,
                    may_retry |-> TRUE, ttl |-> 0, select |-> FALSE, refused |-> FALSE, j |-> 0,
                    error |-> FALSE, del |-> {},
                    mixed |-> \E m, n \in 1 .. len : source[kv[m]][2] = 0 /\ source[kv[n]][2] # 0]
  BY <1>15, Zenon
<1>3. PICK mixed \in BOOLEAN :
         mixed = (\E m, n \in 1 .. len : source[kv[m]][2] = 0 /\ source[kv[n]][2] # 0)
  OBVIOUS
<1>4. len \in Nat \ {0}
  <2>1. order \in Seq(MigKeys)
    BY MigrateAssumption
  <2>2. Len(order) \in Nat
    BY <2>1
  <2>3. QED
    BY <2>2
<1>5. kv \in Seq(MigKeys) /\ Len(kv) = len /\ kv # <<>>
  BY <1>4
<1>6. mig' = [phase |-> "connect", kv |-> kv, dbid |-> dbid, copy |-> copy, replace |-> replace,
              may_retry |-> TRUE, ttl |-> 0, select |-> FALSE, refused |-> FALSE, j |-> 0,
              error |-> FALSE, del |-> {}, mixed |-> mixed]
  BY <1>16, <1>3
<1>7. mig' \in MigCommand
  BY <1>5, <1>6 DEF MigCommand
<1>8. migTodo' \in [sets : Nat, migrates : Nat, faults : Nat]
  <2>1. PICK n : n = migTodo.migrates - 1
    OBVIOUS
  <2>2. n \in Nat
    BY <1>1, <2>1 DEF MigrateInv, MigTypeOK
  <2>3. migTodo' = [migTodo EXCEPT !.migrates = n]
    BY <1>1, <2>1
  <2>4. QED
    BY <2>2, <2>3 DEF MigrateInv, MigTypeOK
<1>9. MigTypeOK'
  BY <1>1, <1>7, <1>8 DEF MigrateInv, MigTypeOK
<1>10. DeletedWereRestored' /\ TtlKeptUnlessMixed' /\ RestoredIntoDb'
  BY <1>1, HistoryKeeps DEF MigrateInv
<1>11. ~Piped /\ ~Piped'
  BY <1>1, <1>6 DEF Piped
<1>12. PipelineInv' /\ SelectedInv' /\ OrphansInv'
  BY <1>1, <1>11 DEF MigrateInv, PipelineInv, SelectedInv, OrphansInv
<1>13. KeysInv'
  <2>1. mig.del = {} /\ source = [k \in MigKeys |-> IF k \in mig.del THEN Absent ELSE replica[k]]
    BY <1>1 DEF MigrateInv, KeysInv, NoMigrate
  <2>2. source' = [k \in MigKeys |-> IF k \in mig'.del THEN Absent ELSE replica'[k]]
    BY <1>1, <1>6, <2>1
  <2>3. ~mixed => \/ \A n \in 1 .. len : source[kv[n]][2] = 0
                  \/ \A n \in 1 .. len : source[kv[n]][2] # 0
    BY <1>3
  <2>4. /\ mig'.phase = "connect" /\ mig'.kv = kv /\ mig'.j = 0 /\ mig'.del = {} /\ mig'.ttl = 0
        /\ mig'.mixed = mixed
    BY <1>6
  <2>5. QED
    BY <1>1, <1>5, <2>2, <2>3, <2>4 DEF KeysInv
<1>14. QED
  BY <1>9, <1>10, <1>12, <1>13 DEF MigrateInv

\* The requests on the socket are those of a connection that may be abandoned.
LEMMA Abandoning ==
  ASSUME MigrateInv, sock.alive, sock.reqs # <<>>
  PROVE  Abandoned(sock.sel, sock.reqs)
<1>1. Piped
  BY DEF MigrateInv, PipelineInv
<1>2. PICK e, n, S, reqs, dbid, sel :
        /\ e = Executed /\ n = RepliesRead /\ S = Selects(mig.select)
        /\ reqs = sock.reqs /\ dbid = mig.dbid /\ sel = sock.sel
  OBVIOUS
<1>3. /\ S \in {0, 1} /\ e \in Nat /\ reqs \in Seq(MigRequest) /\ Len(reqs) \in Nat \ {0}
      /\ dbid \in MigDbids \cup {0}
  <2>1. S \in {0, 1}
    BY <1>2 DEF Selects
  <2>2. RepliesRead \in Nat
    BY <1>2, <2>1 DEF RepliesRead, MigrateInv, MigTypeOK, MigCommand
  <2>3. Len(sock.reps) \in Nat /\ reqs \in Seq(MigRequest) /\ dbid \in MigDbids \cup {0}
    BY <1>2 DEF MigrateInv, MigTypeOK, MigSocket, MigCommand
  <2>4. e \in Nat
    BY <1>2, <2>2, <2>3 DEF Executed
  <2>5. Len(reqs) \in Nat \ {0}
    BY <1>2, <2>3
  <2>6. QED
    BY <2>1, <2>3, <2>4, <2>5
<1>4. ASSUME NEW i \in 1 .. Len(reqs)
      PROVE  IF reqs[i][1] = "select" THEN i = 1 /\ reqs[i][2] = dbid ELSE reqs[i][6] = dbid
  <2>1. PICK m, req : m = e + i /\ req = reqs[i]
    OBVIOUS
  <2>2. Asks(m, req)
    BY <1>1, <1>2, <1>4, <2>1 DEF MigrateInv, PipelineInv
  <2>3. CASE m <= S
    <3>1. i = 1
      BY <1>3, <1>4, <2>1, <2>3
    <3>2. req = <<"select", dbid>>
      BY <1>2, <2>2, <2>3 DEF Asks
    <3>3. QED
      BY <2>1, <3>1, <3>2
  <2>4. CASE ~(m <= S)
    <3>1. req[1] = "restore" /\ req[6] = dbid
      BY <1>2, <2>2, <2>4 DEF Asks, AsksFor
    <3>2. QED
      BY <2>1, <3>1
  <2>5. QED
    BY <2>3, <2>4
<1>5. reqs[1][1] = "select" \/ sel = dbid \/ dbid \notin MigDbs
  <2>1. CASE e >= S
    BY <1>1, <1>2, <2>1 DEF MigrateInv, SelectedInv
  <2>2. CASE ~(e >= S)
    <3>1. PICK m, req : m = e + 1 /\ req = reqs[1]
      OBVIOUS
    <3>2. m <= S
      BY <1>3, <2>2, <3>1
    <3>3. Asks(m, req)
      BY <1>1, <1>2, <1>3, <3>1 DEF MigrateInv, PipelineInv
    <3>4. req = <<"select", dbid>>
      BY <1>2, <3>2, <3>3 DEF Asks
    <3>5. QED
      BY <3>1, <3>4
  <2>3. QED
    BY <2>1, <2>2
<1>6. reqs # <<>>
  BY <1>2
<1>7. Abandoned(sel, reqs)
  BY <1>3, <1>4, <1>5, <1>6, Zenon DEF Abandoned
<1>8. QED
  BY <1>2, <1>7

LEMMA ClosedSocket == NoSocket \in MigSocket
<1>1. PICK none : none = <<>> /\ none \in Seq(MigRequest) /\ none \in Seq({"+", "-"})
  BY NoRequests
<1>2. NoSocket = [open |-> FALSE, alive |-> FALSE, last_dbid |-> -1, sel |-> 0, reqs |-> none,
                  reps |-> none]
  BY <1>1 DEF NoSocket
<1>3. QED
  BY <1>1, <1>2, MigrateAssumption DEF MigSocket

\* Closing the cached socket.
LEMMA ClosingKeeps ==
  ASSUME MigrateInv, migrateCloseSocket
  PROVE  /\ OrphansInv' /\ orphans' \subseteq MigDbs \X Seq(MigRequest)
         /\ sock' = NoSocket /\ sock' \in MigSocket
<1>1. PICK o : o = <<sock.sel, sock.reqs>>
  OBVIOUS
<1>2. /\ sock' = NoSocket
      /\ orphans' \subseteq orphans \cup {o}
      /\ o \in orphans' \ orphans => sock.alive /\ sock.reqs # <<>>
  BY <1>1 DEF migrateCloseSocket
<1>3. sock.sel \in MigDbs /\ sock.reqs \in Seq(MigRequest) /\ o[1] = sock.sel /\ o[2] = sock.reqs
  BY <1>1 DEF MigrateInv, MigTypeOK, MigSocket
<1>4. OrphansInv'
  <2>1. ASSUME NEW p \in orphans' PROVE Abandoned(p[1], p[2])
    <3>1. CASE p \in orphans
      BY <3>1 DEF MigrateInv, OrphansInv
    <3>2. CASE p \notin orphans
      <4>1. p = o /\ sock.alive /\ sock.reqs # <<>>
        BY <1>2, <2>1, <3>2
      <4>2. QED
        BY <1>3, <4>1, Abandoning
    <3>3. QED
      BY <3>1, <3>2
  <2>2. QED
    BY <2>1 DEF OrphansInv
<1>5. orphans' \subseteq MigDbs \X Seq(MigRequest)
  <2>1. orphans \subseteq MigDbs \X Seq(MigRequest)
    BY DEF MigrateInv, MigTypeOK
  <2>2. o \in MigDbs \X Seq(MigRequest)
    BY <1>1, <1>3
  <2>3. QED
    BY <1>2, <2>1, <2>2
<1>6. sock' \in MigSocket
  BY <1>2, ClosedSocket
<1>7. QED
  BY <1>2, <1>4, <1>5, <1>6

\* The time to live of key n of a command, before any key is deleted.
LEMMA TtlRight ==
  ASSUME MigrateInv, mig.phase = "connect", NEW n \in 1 .. Len(mig.kv)
  PROVE  /\ Ttl(n) \in Int
         /\ source[mig.kv[n]][2] # 0 \/ ~mig.mixed => Ttl(n) = source[mig.kv[n]][2]
         /\ (\A i \in 1 .. Len(mig.kv) : source[mig.kv[i]][2] = 0) => Ttl(n) = 0
<1>1. PICK E : E = Expiring(n)
  OBVIOUS
<1>2. /\ mig.kv \in Seq(MigKeys) /\ Len(mig.kv) \in Nat /\ mig.ttl \in Int
      /\ \A i \in 1 .. Len(mig.kv) : mig.kv[i] \in MigKeys
      /\ \A k \in MigKeys : source[k][2] \in Int
  <2>1. mig.kv \in Seq(MigKeys) /\ mig.ttl \in Int
    BY DEF MigrateInv, MigTypeOK, MigCommand
  <2>2. \A k \in MigKeys : source[k] \in Int \X Int
    BY DEF MigrateInv, MigTypeOK
  <2>3. QED
    BY <2>1, <2>2
<1>3. n \in Nat /\ n >= 1 /\ n <= Len(mig.kv)
  BY <1>2
<1>4. E \subseteq 1 .. n /\ \A i \in 1 .. n : i \in E <=> source[mig.kv[i]][2] # 0
  BY <1>1 DEF Expiring
<1>5. CASE E = {}
  <2>1. Ttl(n) = mig.ttl /\ source[mig.kv[n]][2] = 0
    BY <1>1, <1>3, <1>4, <1>5 DEF Ttl
  <2>2. ASSUME ~mig.mixed PROVE mig.ttl = 0
    <3>1. mig.j = 0
      BY DEF MigrateInv, KeysInv
    <3>2. \A i \in 1 .. Len(mig.kv) : source[mig.kv[i]][2] = 0
      BY <2>1, <2>2, <3>1 DEF MigrateInv, KeysInv
    <3>3. QED
      BY <3>1, <3>2 DEF MigrateInv, KeysInv
  <2>3. ASSUME \A i \in 1 .. Len(mig.kv) : source[mig.kv[i]][2] = 0 PROVE mig.ttl = 0
    BY <2>3 DEF MigrateInv, KeysInv
  <2>4. QED
    BY <1>2, <2>1, <2>2, <2>3
<1>6. CASE E # {}
  <2>1. \E i \in E : \A j \in E : j <= i
    BY <1>3, <1>4, <1>6, LargestExists
  <2>2. PICK i : i = CHOOSE k \in E : \A j \in E : j <= k
    OBVIOUS
  <2>3. i \in E /\ \A j \in E : j <= i
    BY <2>1, <2>2
  <2>4. Ttl(n) = source[mig.kv[i]][2]
    BY <1>1, <1>6, <2>2 DEF Ttl
  <2>5. i \in 1 .. Len(mig.kv) /\ i \in 1 .. n
    BY <1>2, <1>3, <1>4, <2>3
  <2>6. Ttl(n) \in Int /\ Ttl(n) # 0
    BY <1>2, <1>4, <2>3, <2>4, <2>5
  <2>7. ASSUME source[mig.kv[n]][2] # 0 PROVE i = n
    <3>1. n \in E
      BY <1>3, <1>4, <2>7
    <3>2. QED
      BY <1>3, <2>3, <2>5, <3>1
  <2>8. ASSUME ~mig.mixed PROVE source[mig.kv[n]][2] # 0
    <3>1. source[mig.kv[i]][2] # 0
      BY <2>4, <2>6
    <3>2. mig.j = 0
      BY DEF MigrateInv, KeysInv
    <3>3. \A x \in 1 .. Len(mig.kv) : source[mig.kv[x]][2] # 0
      BY <2>5, <2>8, <3>1, <3>2 DEF MigrateInv, KeysInv
    <3>4. QED
      BY <3>3
  <2>9. QED
    BY <2>4, <2>5, <2>6, <2>7, <2>8
<1>7. QED
  BY <1>5, <1>6

\* The pipeline asks for what the command is about.
LEMMA PipelineRight ==
  ASSUME NEW select \in BOOLEAN, NEW reqs,
         MigrateInv, mig.phase = "connect", reqs = Requests(select)
  PROVE  /\ reqs \in Seq(MigRequest) /\ Len(reqs) = Selects(select) + Len(mig.kv)
         /\ \A i \in 1 .. Len(reqs) :
               IF i <= Selects(select) THEN reqs[i] = <<"select", mig.dbid>>
               ELSE AsksFor(mig.kv[i - Selects(select)], reqs[i])
<1>1. PICK S, K : S = Selects(select) /\ K = Len(mig.kv)
  OBVIOUS
<1>2. S \in {0, 1} /\ K \in Nat
  BY <1>1 DEF Selects, MigrateInv, MigTypeOK, MigCommand
<1>3. /\ mig.dbid \in Int /\ mig.replace \in BOOLEAN
      /\ \A i \in 1 .. K : mig.kv[i] \in MigKeys
      /\ \A k \in MigKeys : source[k][1] \in Int
  <2>1. mig.dbid \in Int
    <3>1. mig.dbid \in MigDbids \cup {0}
      BY DEF MigrateInv, MigTypeOK, MigCommand
    <3>2. MigDbids \subseteq Int
      BY MigrateAssumption
    <3>3. 0 \in Int
      OBVIOUS
    <3>4. QED
      BY <3>1, <3>2, <3>3, Zenon
  <2>2. mig.kv \in Seq(MigKeys) /\ mig.replace \in BOOLEAN
    BY DEF MigrateInv, MigTypeOK, MigCommand
  <2>3. \A k \in MigKeys : source[k] \in Int \X Int
    BY DEF MigrateInv, MigTypeOK
  <2>4. QED
    BY <1>1, <2>1, <2>2, <2>3
<1>4. reqs = [i \in 1 .. S + K |-> IF i <= S THEN <<"select", mig.dbid>> ELSE Restore(i - S)]
  BY <1>1 DEF Requests
<1>5. ASSUME NEW n \in 1 .. K PROVE Restore(n) \in MigRequest /\ AsksFor(mig.kv[n], Restore(n))
  <2>1. PICK k, v, t, b, d :
          /\ k = mig.kv[n] /\ v = source[mig.kv[n]][1] /\ t = Ttl(n) /\ b = mig.replace /\ d = mig.dbid
    OBVIOUS
  <2>2. PICK req : req = <<"restore", k, v, t, b, d>>
    OBVIOUS
  <2>3. req = Restore(n)
    BY <2>1, <2>2 DEF Restore
  <2>4. t \in Int /\ (source[k][2] # 0 \/ ~mig.mixed => t = source[k][2])
    <3>1. n \in 1 .. Len(mig.kv)
      BY <1>1, <1>5
    <3>2. Ttl(n) \in Int /\ (source[mig.kv[n]][2] # 0 \/ ~mig.mixed => Ttl(n) = source[mig.kv[n]][2])
      BY <3>1, TtlRight
    <3>3. QED
      BY <2>1, <3>2
  <2>5. k \in MigKeys /\ v \in Int /\ b \in BOOLEAN /\ d \in Int /\ v = source[k][1]
    BY <1>3, <2>1
  <2>6. req \in MigRequest
    BY <2>2, <2>4, <2>5 DEF MigRequest
  <2>7. /\ req[1] = "restore" /\ req[2] = k /\ req[3] = v /\ req[4] = t /\ req[6] = d
    BY <2>2
  <2>8. AsksFor(k, req)
    BY <2>1, <2>4, <2>5, <2>7 DEF AsksFor
  <2>9. QED
    BY <2>1, <2>3, <2>6, <2>8
<1>6. ASSUME NEW i \in 1 .. S + K
      PROVE  /\ reqs[i] \in MigRequest
             /\ IF i <= S THEN reqs[i] = <<"select", mig.dbid>> ELSE AsksFor(mig.kv[i - S], reqs[i])
  <2>1. CASE i <= S
    <3>1. reqs[i] = <<"select", mig.dbid>>
      BY <1>4, <2>1
    <3>2. PICK d : d = mig.dbid
      OBVIOUS
    <3>3. <<"select", d>> \in MigRequest
      BY <1>3, <3>2 DEF MigRequest
    <3>4. QED
      BY <2>1, <3>1, <3>2, <3>3
  <2>2. CASE ~(i <= S)
    <3>1. PICK n : n = i - S
      OBVIOUS
    <3>2. n \in 1 .. K
      BY <1>2, <1>6, <2>2, <3>1
    <3>3. reqs[i] = Restore(n)
      BY <1>4, <2>2, <3>1
    <3>4. PICK req, k : req = Restore(n) /\ k = mig.kv[n]
      OBVIOUS
    <3>5. req \in MigRequest /\ AsksFor(k, req)
      BY <1>5, <3>2, <3>4
    <3>6. reqs[i] = req /\ mig.kv[i - S] = k
      BY <3>1, <3>3, <3>4
    <3>7. QED
      BY <2>2, <3>5, <3>6
  <2>3. QED
    BY <2>1, <2>2
<1>7. S + K \in Nat
  BY <1>2
<1>8. reqs \in [1 .. S + K -> MigRequest]
  BY <1>4, <1>6
<1>9. reqs \in Seq(MigRequest) /\ Len(reqs) = S + K
  BY <1>7, <1>8
<1>10. QED
  BY <1>1, <1>6, <1>9

\* The socket a command finds stands on the database it names, or it is
\* told to.
LEMMA SocketFound ==
  ASSUME MigrateInv, mig.phase = "connect"
  PROVE  /\ sock.reqs = <<>> /\ sock.reps = <<>>
         /\ sock.last_dbid = mig.dbid => /\ sock.sel = mig.dbid \/ mig.dbid \notin MigDbs
                                         /\ mig.dbid \in MigDbs \cup {-1}
         /\ mig.j = 0 /\ mig.del = {} /\ mig.kv # <<>> /\ Len(mig.kv) \in Nat \ {0}
<1>1. ~Piped
  BY DEF Piped
<1>2. sock.reqs = <<>> /\ sock.reps = <<>> /\ sock.last_dbid \in {-1, sock.sel}
  BY <1>1 DEF MigrateInv, PipelineInv, SelectedInv
<1>3. sock.sel \in MigDbs /\ -1 \notin MigDbs
  BY MigrateAssumption DEF MigrateInv, MigTypeOK, MigSocket
<1>4. mig.j = 0 /\ mig.del = {} /\ mig.kv # <<>>
  BY DEF MigrateInv, KeysInv
<1>5. Len(mig.kv) \in Nat \ {0}
  <2>1. mig.kv \in Seq(MigKeys)
    BY DEF MigrateInv, MigTypeOK, MigCommand
  <2>2. QED
    BY <1>4, <2>1
<1>6. QED
  BY <1>2, <1>3, <1>4, <1>5

\* Between two commands.
LEMMA NoCommand == NoMigrate \in MigCommand
<1>1. <<>> \in Seq(MigKeys)
  OBVIOUS
<1>2. PICK none : none = <<>> /\ none \in Seq(MigKeys)
  BY <1>1
<1>3. NoMigrate = [phase |-> "idle", kv |-> none, dbid |-> 0, copy |-> FALSE, replace |-> FALSE,
              may_retry |-> FALSE, ttl |-> 0, select |-> FALSE, refused |-> FALSE, j |-> 0,
              error |-> FALSE, del |-> {}, mixed |-> FALSE]
  BY <1>2 DEF NoMigrate
<1>4. QED
  BY <1>2, <1>3 DEF MigCommand

\* The pipeline goes out.
LEMMA TransmitKeeps ==
  ASSUME MigrateInv, Transmit
  PROVE  MigrateInv'
<1>1. /\ mig.phase = "connect"
      /\ UNCHANGED <<source, replica, target, orphans, restored, removed, migTodo>>
  BY DEF Transmit
<1>2. PICK cs : cs = migrateGetSocket
  OBVIOUS
<1>3. sock \in MigSocket /\ mig \in MigCommand
  BY DEF MigrateInv, MigTypeOK
<1>4. /\ cs \in MigSocket /\ cs.last_dbid = sock.last_dbid /\ cs.sel = sock.sel /\ cs.reps = sock.reps
  BY <1>2, <1>3 DEF migrateGetSocket, MigSocket
<1>5. PICK select \in BOOLEAN : select = (cs.last_dbid # mig.dbid)
  OBVIOUS
<1>6. PICK phase, ttl, reqs, none :
        /\ phase = IF select THEN "select" ELSE "restore"
        /\ ttl = Ttl(Len(mig.kv)) /\ reqs = Requests(select) /\ none = <<>>
  OBVIOUS
<1>7. PICK sent : sent = IF cs.alive THEN reqs ELSE none
  OBVIOUS
<1>8. /\ sock' = [cs EXCEPT !.reqs = sent]
      /\ mig' = [mig EXCEPT !.phase = phase, !.select = select, !.refused = FALSE, !.ttl = ttl,
                            !.j = 0, !.error = FALSE]
  BY <1>2, <1>5, <1>6, <1>7 DEF Transmit
<1>9. /\ sock.reqs = <<>> /\ sock.reps = <<>>
      /\ sock.last_dbid = mig.dbid => /\ sock.sel = mig.dbid \/ mig.dbid \notin MigDbs
                                      /\ mig.dbid \in MigDbs \cup {-1}
      /\ mig.j = 0 /\ mig.del = {} /\ mig.kv # <<>> /\ Len(mig.kv) \in Nat \ {0}
  BY <1>1, SocketFound
<1>10. PICK S, K : S = Selects(select) /\ K = Len(mig.kv)
  OBVIOUS
<1>11. S \in {0, 1} /\ K \in Nat \ {0} /\ (select <=> S = 1)
  BY <1>9, <1>10 DEF Selects
<1>12. /\ reqs \in Seq(MigRequest) /\ Len(reqs) = S + K
       /\ \A i \in 1 .. Len(reqs) :
             IF i <= S THEN reqs[i] = <<"select", mig.dbid>> ELSE AsksFor(mig.kv[i - S], reqs[i])
  BY <1>1, <1>6, <1>10, PipelineRight
<1>13. /\ ttl \in Int
       /\ (\A i \in 1 .. Len(mig.kv) : source[mig.kv[i]][2] = 0) => ttl = 0
  <2>1. PICK n : n = Len(mig.kv)
    OBVIOUS
  <2>2. n \in 1 .. Len(mig.kv)
    BY <1>9, <2>1
  <2>3. Ttl(n) \in Int /\ ((\A i \in 1 .. Len(mig.kv) : source[mig.kv[i]][2] = 0) => Ttl(n) = 0)
    BY <1>1, <2>2, TtlRight
  <2>4. QED
    BY <1>6, <2>1, <2>3
<1>14. sent \in Seq(MigRequest) /\ none \in Seq(MigRequest)
  BY <1>6, <1>7, <1>12, NoRequests
<1>15. /\ sock' \in MigSocket /\ sock'.alive = cs.alive /\ sock'.last_dbid = sock.last_dbid
       /\ sock'.sel = sock.sel /\ sock'.reqs = sent /\ sock'.reps = <<>>
  BY <1>4, <1>8, <1>9, <1>14 DEF MigSocket
<1>16. phase \in {"select", "restore"} /\ (phase = "select" <=> select)
  BY <1>6
<1>17. mig' \in MigCommand
  BY <1>3, <1>8, <1>13, <1>16 DEF MigCommand
<1>18. /\ mig'.phase = phase /\ mig'.kv = mig.kv /\ mig'.dbid = mig.dbid /\ mig'.select = select
       /\ mig'.ttl = ttl /\ mig'.j = 0 /\ mig'.error = FALSE /\ mig'.del = mig.del
       /\ mig'.mixed = mig.mixed
  BY <1>3, <1>8 DEF MigCommand
<1>19. MigTypeOK'
  BY <1>1, <1>15, <1>17 DEF MigrateInv, MigTypeOK
<1>20. DeletedWereRestored' /\ TtlKeptUnlessMixed' /\ RestoredIntoDb' /\ OrphansInv'
  BY <1>1, HistoryKeeps DEF MigrateInv, OrphansInv
<1>21. Piped' /\ RepliesRead' = 0 /\ Executed' = 0 /\ (Selects(mig.select))' = S
  <2>1. Piped'
    BY <1>16, <1>18 DEF Piped
  <2>2. (Selects(mig.select))' = S
    BY <1>10, <1>18 DEF Selects
  <2>3. RepliesRead' = 0
    BY <1>11, <1>16, <1>18, <2>2 DEF RepliesRead
  <2>4. Executed' = 0
    BY <1>15, <2>3 DEF Executed
  <2>5. QED
    BY <2>1, <2>2, <2>3, <2>4
<1>22. PipelineInv'
  <2>1. ASSUME NEW i \in 1 .. Len(sock'.reqs) PROVE (Asks(Executed + i, sock.reqs[i]))'
    <3>1. PICK req, k : req = reqs[i] /\ k = mig.kv[i - S]
      OBVIOUS
    <3>2. sent = reqs
      BY <1>6, <1>7, <1>15, <2>1
    <3>3. i \in 1 .. Len(reqs) /\ sock'.reqs[i] = req
      BY <1>15, <2>1, <3>1, <3>2
    <3>4. IF i <= S THEN req = <<"select", mig.dbid>> ELSE AsksFor(k, req)
      BY <1>12, <3>1, <3>3
    <3>5. AsksFor(k, req) => AsksFor(k, req)'
      BY <1>1, <1>18 DEF AsksFor
    <3>6. Executed' + i = i
      BY <1>21, <3>3
    <3>7. mig'.kv[i - (Selects(mig.select))'] = k
      BY <1>18, <1>21, <3>1
    <3>8. Asks(i, req)'
      BY <1>18, <1>21, <3>4, <3>5, <3>7 DEF Asks
    <3>9. QED
      BY <3>3, <3>6, <3>8
  <2>2. Len(sock'.reqs) = IF sock'.alive THEN (Selects(mig.select))' + Len(mig'.kv) - Executed' ELSE 0
    <3>1. Len(sent) = IF cs.alive THEN S + K ELSE 0
      BY <1>6, <1>7, <1>12
    <3>2. S + K - 0 = S + K
      BY <1>11
    <3>3. QED
      BY <1>10, <1>15, <1>18, <1>21, <3>1, <3>2
  <2>3. mig'.j <= Len(mig'.kv) /\ Executed' <= (Selects(mig.select))' + Len(mig'.kv)
    BY <1>10, <1>11, <1>18, <1>21
  <2>4. mig'.phase = "select" => mig'.select /\ mig'.j = 0
    BY <1>16, <1>18
  <2>5. Len(sock'.reps) = 0
    BY <1>15
  <2>6. \A i \in 1 .. Len(sock'.reps) : (Tells(RepliesRead + i, sock.reps[i]))'
    BY <2>5
  <2>7. QED
    BY <1>21, <2>1, <2>2, <2>3, <2>4, <2>6 DEF PipelineInv
<1>23. SelectedInv'
  <2>1. ~select => sock.last_dbid = mig.dbid
    BY <1>4, <1>5
  <2>2. Executed' >= (Selects(mig.select))' => sock'.sel = mig'.dbid \/ mig'.dbid \notin MigDbs
    BY <1>9, <1>11, <1>15, <1>18, <1>21, <2>1
  <2>3. mig'.select \/ mig'.dbid \in MigDbs \cup {-1}
    BY <1>9, <1>18, <2>1
  <2>4. ~(mig'.phase = "restore" /\ mig'.select) /\ ~(mig'.j > 0) /\ ~mig'.error
    BY <1>16, <1>18
  <2>5. QED
    BY <1>21, <2>2, <2>3, <2>4 DEF SelectedInv
<1>24. KeysInv'
  <2>1. mig'.phase # "idle" /\ mig'.phase # "connect"
    BY <1>16, <1>18
  <2>2. mig'.kv # <<>> /\ mig'.del = {}
    BY <1>9, <1>18
  <2>3. (\A n \in 1 .. Len(mig'.kv) : source'[mig'.kv[n]][2] = 0) => mig'.ttl = 0
    BY <1>1, <1>13, <1>18
  <2>4. ~mig'.mixed => \/ \A n \in 1 .. Len(mig'.kv) : source'[mig'.kv[n]][2] = 0
                       \/ \A n \in 1 .. Len(mig'.kv) : source'[mig'.kv[n]][2] # 0
    BY <1>1, <1>9, <1>18 DEF MigrateInv, KeysInv
  <2>5. source' = [k \in MigKeys |-> IF k \in mig'.del THEN Absent ELSE replica'[k]]
    BY <1>1, <1>18 DEF MigrateInv, KeysInv
  <2>6. QED
    BY <2>1, <2>2, <2>3, <2>4, <2>5 DEF KeysInv
<1>25. QED
  BY <1>19, <1>20, <1>22, <1>23, <1>24 DEF MigrateInv

\* The end of a command: the replica is told of the deletions.
LEMMA CommandOver ==
  ASSUME MigrateInv, mig' = NoMigrate, UNCHANGED source, Propagate
  PROVE  KeysInv' /\ ~Piped' /\ mig' \in MigCommand /\ replica' \in [MigKeys -> Int \X Int]
<1>1. source' = replica'
  BY DEF MigrateInv, KeysInv, Propagate
<1>2. source' \in [MigKeys -> Int \X Int]
  BY DEF MigrateInv, MigTypeOK
<1>3. Keyed(mig', source', replica')
  BY <1>1, <1>2, IdleKeys
<1>4. KeysInv'
  BY <1>3, KeysAre
<1>5. QED
  BY <1>1, <1>2, <1>4, NoCommand DEF Piped, NoMigrate

LEMMA NothingToPropagate ==
  ASSUME MigrateInv, mig.del = {}, UNCHANGED replica
  PROVE  Propagate
  BY DEF MigrateInv, MigTypeOK, Propagate

LEMMA ClosedKeeps ==
  ASSUME sock' = NoSocket, ~Piped'
  PROVE  PipelineInv' /\ SelectedInv'
  BY DEF PipelineInv, SelectedInv, NoSocket

\* No connection is made.
LEMMA CannotConnectKeeps ==
  ASSUME MigrateInv, CannotConnect
  PROVE  MigrateInv'
<1>1. /\ mig.phase = "connect" /\ Fault /\ mig' = NoMigrate
      /\ UNCHANGED <<source, replica, target, sock, orphans, restored, removed>>
  BY DEF CannotConnect
<1>2. mig.del = {}
  BY <1>1, SocketFound
<1>3. Propagate
  BY <1>1, <1>2, NothingToPropagate
<1>4. KeysInv' /\ ~Piped' /\ mig' \in MigCommand
  BY <1>1, <1>3, CommandOver
<1>5. MigTypeOK'
  BY <1>1, <1>4, FaultType DEF MigrateInv, MigTypeOK
<1>6. DeletedWereRestored' /\ TtlKeptUnlessMixed' /\ RestoredIntoDb' /\ OrphansInv'
  BY <1>1, HistoryKeeps DEF MigrateInv, OrphansInv
<1>7. ~Piped
  BY <1>1 DEF Piped
<1>8. PipelineInv' /\ SelectedInv'
  BY <1>1, <1>4, <1>7 DEF MigrateInv, PipelineInv, SelectedInv
<1>9. QED
  BY <1>4, <1>5, <1>6, <1>8 DEF MigrateInv

\* A part of the pipeline went out before the write failed.
LEMMA WriteFailsKeeps ==
  ASSUME MigrateInv, WriteFails
  PROVE  MigrateInv'
<1>1. /\ mig.phase = "connect"
      /\ UNCHANGED <<source, replica, target, restored, removed>>
      /\ IF sock.open /\ ~sock.alive THEN UNCHANGED migTodo ELSE Fault
  BY DEF WriteFails
<1>2. PICK cs, select, all :
        /\ cs = migrateGetSocket /\ select = (cs.last_dbid # mig.dbid) /\ all = Requests(select)
  OBVIOUS
<1>3. \E n \in 0 .. (IF cs.alive THEN Len(all) - 1 ELSE 0), timedout \in BOOLEAN :
        /\ sock' = NoSocket
        /\ orphans' = orphans \cup (IF n > 0 THEN {<<cs.sel, SubSeq(all, 1, n)>>} ELSE {})
        /\ mig' = IF ~timedout /\ mig.may_retry
                  THEN [mig EXCEPT !.may_retry = FALSE, !.ttl = Ttl(Len(mig.kv))]
                  ELSE NoMigrate
  BY <1>2 DEF WriteFails
<1>4. PICK n, ttl :
        /\ n \in 0 .. (IF cs.alive THEN Len(all) - 1 ELSE 0)
        /\ ttl = Ttl(Len(mig.kv))
        /\ sock' = NoSocket
        /\ orphans' = orphans \cup (IF n > 0 THEN {<<cs.sel, SubSeq(all, 1, n)>>} ELSE {})
        /\ mig' = NoMigrate \/ mig' = [mig EXCEPT !.may_retry = FALSE, !.ttl = ttl]
  BY <1>3
<1>5. sock \in MigSocket /\ mig \in MigCommand
  BY DEF MigrateInv, MigTypeOK
<1>6. /\ select \in BOOLEAN /\ cs.last_dbid = sock.last_dbid /\ cs.sel = sock.sel
      /\ sock.sel \in MigDbs
  BY <1>2, <1>5 DEF migrateGetSocket, MigSocket
<1>7. /\ sock.last_dbid = mig.dbid => sock.sel = mig.dbid \/ mig.dbid \notin MigDbs
      /\ mig.j = 0 /\ mig.del = {} /\ mig.kv # <<>> /\ Len(mig.kv) \in Nat \ {0}
  BY <1>1, SocketFound
<1>8. PICK S : S = Selects(select)
  OBVIOUS
<1>9. S \in {0, 1} /\ (select <=> S = 1)
  BY <1>6, <1>8 DEF Selects
<1>10. /\ all \in Seq(MigRequest) /\ Len(all) = S + Len(mig.kv)
       /\ \A i \in 1 .. Len(all) :
             IF i <= S THEN all[i] = <<"select", mig.dbid>> ELSE AsksFor(mig.kv[i - S], all[i])
  BY <1>1, <1>2, <1>6, <1>8, PipelineRight
<1>11. ASSUME n > 0
       PROVE  /\ SubSeq(all, 1, n) \in Seq(MigRequest)
              /\ Abandoned(cs.sel, SubSeq(all, 1, n))
  <2>1. PICK reqs : reqs = SubSeq(all, 1, n)
    OBVIOUS
  <2>2. n \in Nat \ {0} /\ n <= Len(all)
    BY <1>4, <1>7, <1>9, <1>10, <1>11
  <2>3. /\ reqs \in Seq(MigRequest) /\ Len(reqs) = n
        /\ \A i \in 1 .. n : reqs[i] = all[i]
    BY <1>10, <2>1, <2>2
  <2>4. ASSUME NEW i \in 1 .. Len(reqs)
        PROVE  IF reqs[i][1] = "select" THEN i = 1 /\ reqs[i][2] = mig.dbid
               ELSE reqs[i][6] = mig.dbid
    <3>1. PICK req, k : req = reqs[i] /\ k = mig.kv[i - S]
      OBVIOUS
    <3>2. i \in 1 .. Len(all) /\ req = all[i]
      <4>1. i \in 1 .. n /\ Len(all) \in Nat
        BY <1>10, <2>3, <2>4
      <4>2. i \in 1 .. Len(all)
        BY <2>2, <4>1
      <4>3. req = all[i]
        BY <2>3, <3>1, <4>1
      <4>4. QED
        BY <4>2, <4>3
    <3>3. IF i <= S THEN req = <<"select", mig.dbid>> ELSE AsksFor(k, req)
      BY <1>10, <3>1, <3>2
    <3>4. i <= S => i = 1
      BY <1>9, <2>4
    <3>5. CASE i <= S
      BY <3>1, <3>3, <3>4, <3>5
    <3>6. CASE ~(i <= S)
      <4>1. req[1] = "restore" /\ req[6] = mig.dbid
        BY <3>3, <3>6 DEF AsksFor
      <4>2. QED
        BY <3>1, <4>1
    <3>7. QED
      BY <3>5, <3>6
  <2>5. reqs[1][1] = "select" \/ cs.sel = mig.dbid \/ mig.dbid \notin MigDbs
    <3>1. CASE select
      BY <1>9, <1>10, <2>2, <2>3, <3>1
    <3>2. CASE ~select
      BY <1>2, <1>6, <1>7, <3>2
    <3>3. QED
      BY <1>6, <3>1, <3>2
  <2>6. mig.dbid \in MigDbids \cup {0}
    BY <1>5 DEF MigCommand
  <2>7. reqs # <<>>
    BY <2>2, <2>3
  <2>8. QED
    BY <2>1, <2>3, <2>4, <2>5, <2>6, <2>7 DEF Abandoned
<1>12. OrphansInv' /\ orphans' \subseteq MigDbs \X Seq(MigRequest)
  <2>1. PICK reqs, o : reqs = SubSeq(all, 1, n) /\ o = <<cs.sel, reqs>>
    OBVIOUS
  <2>2. OrphansInv /\ orphans \subseteq MigDbs \X Seq(MigRequest)
    BY DEF MigrateInv, MigTypeOK
  <2>3. CASE n > 0
    <3>1. orphans' = orphans \cup {o} /\ o[1] = cs.sel /\ o[2] = reqs
      BY <1>4, <2>1, <2>3
    <3>2. o \in MigDbs \X Seq(MigRequest) /\ Abandoned(o[1], o[2])
      BY <1>6, <1>11, <2>1, <2>3, <3>1
    <3>3. QED
      BY <2>2, <3>1, <3>2 DEF OrphansInv
  <2>4. CASE ~(n > 0)
    BY <1>4, <2>2, <2>4 DEF OrphansInv
  <2>5. QED
    BY <2>3, <2>4
<1>13. KeysInv' /\ ~Piped' /\ mig' \in MigCommand
  <2>1. CASE mig' = NoMigrate
    <3>1. Propagate
      BY <1>1, <1>7, NothingToPropagate
    <3>2. QED
      BY <1>1, <2>1, <3>1, CommandOver
  <2>2. CASE mig' = [mig EXCEPT !.may_retry = FALSE, !.ttl = ttl]
    <3>1. /\ ttl \in Int
          /\ (\A i \in 1 .. Len(mig.kv) : source[mig.kv[i]][2] = 0) => ttl = 0
      <4>1. PICK m : m = Len(mig.kv)
        OBVIOUS
      <4>2. m \in 1 .. Len(mig.kv)
        BY <1>7, <4>1
      <4>3. Ttl(m) \in Int /\ ((\A i \in 1 .. Len(mig.kv) : source[mig.kv[i]][2] = 0) => Ttl(m) = 0)
        BY <1>1, <4>2, TtlRight
      <4>4. QED
        BY <1>4, <4>1, <4>3
    <3>2. /\ mig' \in MigCommand /\ mig'.phase = "connect" /\ mig'.kv = mig.kv /\ mig'.j = mig.j
          /\ mig'.del = mig.del /\ mig'.mixed = mig.mixed /\ mig'.ttl = ttl
      BY <1>1, <1>5, <2>2, <3>1 DEF MigCommand
    <3>3. KeysInv'
      <4>1. Keyed(mig, source, replica)
        BY KeysAre DEF MigrateInv
      <4>2. mig.phase = "connect" /\ mig.j = 0
        BY <1>1, <4>1 DEF Keyed
      <4>3. Keyed(mig', source, replica)
        BY <3>1, <3>2, <4>1, <4>2, SameKeys
      <4>4. QED
        BY <1>1, <4>3, KeysAre
    <3>4. QED
      BY <3>2, <3>3 DEF Piped
  <2>3. QED
    BY <1>4, <2>1, <2>2
<1>14. PipelineInv' /\ SelectedInv'
  BY <1>4, <1>13, ClosedKeeps
<1>15. sock' \in MigSocket
  BY <1>4, ClosedSocket
<1>16. migTodo' \in [sets : Nat, migrates : Nat, faults : Nat]
  <2>1. CASE Fault
    BY <2>1, FaultType DEF MigrateInv
  <2>2. CASE UNCHANGED migTodo
    BY <2>2 DEF MigrateInv, MigTypeOK
  <2>3. QED
    BY <1>1, <2>1, <2>2
<1>17. MigTypeOK'
  BY <1>1, <1>12, <1>13, <1>15, <1>16 DEF MigrateInv, MigTypeOK
<1>18. DeletedWereRestored' /\ TtlKeptUnlessMixed' /\ RestoredIntoDb'
  BY <1>1, HistoryKeeps DEF MigrateInv
<1>19. QED
  BY <1>12, <1>13, <1>14, <1>17, <1>18 DEF MigrateInv

\* Reading a reply changes what is asked and told only about a key that is
\* deleted.
LEMMA ReadKeeps ==
  ASSUME NEW i, NEW x, MigrateInv, UNCHANGED restored,
         \A k \in MigKeys : source'[k] = source[k] \/ source'[k] = Absent,
         mig'.kv = mig.kv, mig'.dbid = mig.dbid, mig'.select = mig.select, mig'.mixed = mig.mixed,
         i \in Nat, i <= Selects(mig.select) + Len(mig.kv)
  PROVE  /\ Asks(i, x) => Asks(i, x)'
         /\ Tells(i, x) => Tells(i, x)'
<1>1. PICK S, at, k : S = Selects(mig.select) /\ at = i - S /\ k = mig.kv[at]
  OBVIOUS
<1>2. S \in {0, 1} /\ (Selects(mig.select))' = S
  BY <1>1 DEF Selects
<1>3. CASE i <= S
  <2>1. Asks(i, x) => Asks(i, x)'
    BY <1>1, <1>2, <1>3 DEF Asks
  <2>2. Tells(i, x) => Tells(i, x)'
    BY <1>1, <1>2, <1>3 DEF Tells
  <2>3. QED
    BY <2>1, <2>2
<1>4. CASE ~(i <= S)
  <2>1. mig.kv \in Seq(MigKeys) /\ Len(mig.kv) \in Nat
    BY DEF MigrateInv, MigTypeOK, MigCommand
  <2>2. at \in 1 .. Len(mig.kv)
    BY <1>1, <1>2, <1>4, <2>1
  <2>3. k \in MigKeys
    BY <1>1, <2>1, <2>2
  <2>4. source'[k] = source[k] \/ source'[k] = Absent
    BY <2>3
  <2>5. AsksFor(k, x) => AsksFor(k, x)'
    BY <2>4 DEF AsksFor
  <2>6. Stored(k) => Stored(k)'
    BY <2>4 DEF Stored
  <2>7. mig'.kv[i - (Selects(mig.select))'] = k
    BY <1>1, <1>2
  <2>8. Asks(i, x) => Asks(i, x)'
    BY <1>1, <1>2, <1>4, <2>5, <2>7 DEF Asks
  <2>9. Tells(i, x) => Tells(i, x)'
    BY <1>1, <1>2, <1>4, <2>6, <2>7 DEF Tells
  <2>10. QED
    BY <2>8, <2>9
<1>5. QED
  BY <1>1, <1>3, <1>4

\* The pipeline after one reply has been read.
LEMMA PipelineRead ==
  ASSUME NEW reqs, NEW reps, MigrateInv, Piped, Piped',
         reqs = sock.reqs, reps = sock.reps, reps # <<>>,
         sock'.alive = sock.alive, sock'.reqs = reqs, sock'.reps = Tail(reps),
         RepliesRead' = RepliesRead + 1, mig'.j \in Nat, mig'.j <= Len(mig.kv),
         mig'.phase = "restore", UNCHANGED restored,
         \A k \in MigKeys : source'[k] = source[k] \/ source'[k] = Absent,
         mig'.kv = mig.kv, mig'.dbid = mig.dbid, mig'.select = mig.select, mig'.mixed = mig.mixed
  PROVE  PipelineInv' /\ Executed' = Executed
<1>1. PICK e, n, S, K : /\ e = Executed /\ n = RepliesRead /\ S = Selects(mig.select)
                        /\ K = Len(mig.kv)
  OBVIOUS
<1>2. /\ reqs \in Seq(MigRequest) /\ reps \in Seq({"+", "-"})
      /\ Len(reqs) \in Nat /\ Len(reps) \in Nat \ {0}
  <2>1. reqs \in Seq(MigRequest) /\ reps \in Seq({"+", "-"})
    BY DEF MigrateInv, MigTypeOK, MigSocket
  <2>2. QED
    BY <2>1
<1>3. S \in {0, 1} /\ n \in Nat /\ e = n + Len(reps) /\ e \in Nat /\ K \in Nat
  <2>1. S \in {0, 1}
    BY <1>1 DEF Selects
  <2>2. mig.j \in Nat /\ K \in Nat
    BY <1>1 DEF MigrateInv, MigTypeOK, MigCommand
  <2>3. n \in Nat
    BY <1>1, <2>1, <2>2 DEF RepliesRead
  <2>4. e = n + Len(reps)
    BY <1>1 DEF Executed
  <2>5. QED
    BY <1>2, <2>1, <2>2, <2>3, <2>4
<1>4. PICK rest : rest = Tail(reps)
  OBVIOUS
<1>5. Len(rest) = Len(reps) - 1 /\ \A i \in 1 .. Len(reps) - 1 : rest[i] = reps[i + 1]
  BY <1>2, <1>4
<1>6. RepliesRead' = n + 1 /\ (Selects(mig.select))' = S /\ Len(mig'.kv) = K
  BY <1>1 DEF Selects
<1>7. Executed' = e
  <2>1. Executed' = (n + 1) + (Len(reps) - 1)
    BY <1>4, <1>5, <1>6 DEF Executed
  <2>2. PICK l : l = Len(reps)
    OBVIOUS
  <2>3. l \in Int /\ n \in Int
    BY <1>2, <1>3, <2>2
  <2>4. (n + 1) + (l - 1) = n + l
    BY <2>3
  <2>5. QED
    BY <1>3, <2>1, <2>2, <2>4
<1>8. /\ e <= S + K
      /\ Len(reqs) = IF sock.alive THEN S + K - e ELSE 0
      /\ \A i \in 1 .. Len(reqs) : Asks(e + i, reqs[i])
      /\ \A i \in 1 .. Len(reps) : Tells(n + i, reps[i])
  BY <1>1 DEF MigrateInv, PipelineInv
<1>9. ASSUME NEW i \in 1 .. Len(sock'.reqs) PROVE (Asks(Executed + i, sock.reqs[i]))'
  <2>1. PICK m, req : m = e + i /\ req = reqs[i]
    OBVIOUS
  <2>2. i \in 1 .. Len(reqs) /\ m \in Nat /\ m <= S + K
    <3>1. i \in 1 .. Len(reqs)
      OBVIOUS
    <3>2. PICK l : l = Len(reqs)
      OBVIOUS
    <3>3. l \in Nat /\ l <= S + K - e
      <4>1. e <= S + K
        BY <1>8
      <4>2. CASE sock.alive
        <5>1. l = S + K - e
          BY <1>8, <3>2, <4>2
        <5>2. QED
          BY <1>3, <4>1, <5>1
      <4>3. CASE ~sock.alive
        <5>1. l = 0
          BY <1>8, <3>2, <4>3
        <5>2. QED
          BY <1>3, <4>1, <5>1
      <4>4. QED
        BY <4>2, <4>3
    <3>4. i \in Nat /\ 1 <= i /\ i <= l
      BY <3>1, <3>2, <3>3
    <3>5. QED
      BY <1>3, <2>1, <3>1, <3>3, <3>4
  <2>3. Asks(m, req)
    BY <1>8, <2>1, <2>2
  <2>4. Asks(m, req)'
    BY <1>1, <2>2, <2>3, ReadKeeps
  <2>5. QED
    BY <1>7, <2>1, <2>4
<1>10. ASSUME NEW i \in 1 .. Len(sock'.reps) PROVE (Tells(RepliesRead + i, sock.reps[i]))'
  <2>1. PICK m, reply : m = n + (i + 1) /\ reply = reps[i + 1]
    OBVIOUS
  <2>2. /\ i \in 1 .. Len(reps) - 1 /\ i + 1 \in 1 .. Len(reps)
        /\ m \in Nat /\ m <= S + K
    <3>1. i \in 1 .. Len(reps) - 1
      BY <1>4, <1>5, <1>10
    <3>2. QED
      BY <1>2, <1>3, <1>8, <2>1, <3>1
  <2>3. Tells(m, reply)
    BY <1>8, <2>1, <2>2
  <2>4. Tells(m, reply)'
    BY <1>1, <2>2, <2>3, ReadKeeps
  <2>5. sock'.reps[i] = reply
    BY <1>4, <1>5, <2>1, <2>2
  <2>6. RepliesRead' + i = m
    BY <1>3, <1>6, <2>1, <2>2
  <2>7. QED
    BY <2>4, <2>5, <2>6
<1>11. /\ mig'.j <= Len(mig'.kv) /\ Executed' <= (Selects(mig.select))' + Len(mig'.kv)
       /\ Len(sock'.reqs) = IF sock'.alive THEN (Selects(mig.select))' + Len(mig'.kv) - Executed' ELSE 0
  BY <1>1, <1>6, <1>7, <1>8
<1>12. mig'.phase # "select"
  OBVIOUS
<1>13. QED
  BY <1>1, <1>7, <1>9, <1>10, <1>11, <1>12 DEF PipelineInv

\* The reply of SELECT.
LEMMA ReadSelectKeeps ==
  ASSUME MigrateInv, ReadSelect
  PROVE  MigrateInv'
<1>1. /\ mig.phase = "select" /\ sock.reps # <<>>
      /\ UNCHANGED <<source, replica, target, orphans, restored, removed, migTodo>>
  BY DEF ReadSelect
<1>2. PICK reqs, reps, rest, refused :
        /\ reqs = sock.reqs /\ reps = sock.reps /\ rest = Tail(reps)
        /\ refused = (Head(reps) = "-")
  OBVIOUS
<1>3. /\ sock' = [sock EXCEPT !.reps = rest]
      /\ mig' = [mig EXCEPT !.phase = "restore", !.refused = refused]
  BY <1>2 DEF ReadSelect
<1>4. /\ sock \in MigSocket /\ mig \in MigCommand /\ reps \in Seq({"+", "-"}) /\ refused \in BOOLEAN
  BY <1>2 DEF MigrateInv, MigTypeOK, MigSocket
<1>5. rest \in Seq({"+", "-"}) /\ Head(reps) = reps[1] /\ reps[1] \in {"+", "-"} /\ Len(reps) \in Nat \ {0}
  BY <1>1, <1>2, <1>4
<1>6. /\ sock' \in MigSocket /\ sock'.alive = sock.alive /\ sock'.reqs = reqs /\ sock'.reps = rest
      /\ sock'.sel = sock.sel /\ sock'.last_dbid = sock.last_dbid
  BY <1>2, <1>3, <1>4, <1>5 DEF MigSocket
<1>7. /\ mig' \in MigCommand /\ mig'.phase = "restore" /\ mig'.kv = mig.kv /\ mig'.dbid = mig.dbid
      /\ mig'.select = mig.select /\ mig'.refused = refused /\ mig'.j = mig.j /\ mig'.error = mig.error
      /\ mig'.del = mig.del /\ mig'.mixed = mig.mixed /\ mig'.ttl = mig.ttl
  BY <1>3, <1>4 DEF MigCommand
<1>8. Piped /\ Piped'
  BY <1>1, <1>7 DEF Piped
<1>9. mig.select /\ mig.j = 0 /\ mig.j \in Nat /\ mig.j <= Len(mig.kv)
  BY <1>1, <1>8 DEF MigrateInv, PipelineInv
<1>10. RepliesRead = 0 /\ RepliesRead' = 1 /\ (Selects(mig.select))' = 1 /\ Selects(mig.select) = 1
  BY <1>1, <1>7, <1>9 DEF RepliesRead, Selects
<1>11. \A k \in MigKeys : source'[k] = source[k] \/ source'[k] = Absent
  BY <1>1
<1>12. PipelineInv' /\ Executed' = Executed
  <2>1. RepliesRead' = RepliesRead + 1
    BY <1>10
  <2>2. reps # <<>> /\ sock'.reps = Tail(reps)
    BY <1>1, <1>2, <1>6
  <2>3. mig'.j \in Nat /\ mig'.j <= Len(mig.kv)
    BY <1>7, <1>9
  <2>4. UNCHANGED restored
    BY <1>1
  <2>5. QED
    BY <1>2, <1>6, <1>7, <1>8, <1>11, <2>1, <2>2, <2>3, <2>4, PipelineRead
<1>13. SelectedInv'
  <2>1. ~refused => mig.dbid \in MigDbs
    <3>1. PICK reply, m : reply = reps[1] /\ m = 1
      OBVIOUS
    <3>2. Tells(RepliesRead + 1, reps[1])
      BY <1>2, <1>5, <1>8 DEF MigrateInv, PipelineInv
    <3>3. Tells(m, reply)
      BY <1>10, <3>1, <3>2
    <3>4. reply = "+" => mig.dbid \in MigDbs
      BY <1>10, <3>1, <3>3 DEF Tells
    <3>5. QED
      BY <1>2, <1>5, <3>1, <3>4
  <2>2. Executed' >= (Selects(mig.select))' => sock'.sel = mig'.dbid \/ mig'.dbid \notin MigDbs
    BY <1>6, <1>7, <1>8, <1>10, <1>12 DEF MigrateInv, SelectedInv
  <2>3. mig'.select \/ mig'.dbid \in MigDbs \cup {-1}
    BY <1>7, <1>9
  <2>4. mig'.error => sock'.last_dbid = -1
    BY <1>6, <1>7, <1>8 DEF MigrateInv, SelectedInv
  <2>5. ~(mig'.j > 0)
    BY <1>7, <1>9
  <2>6. mig'.phase = "restore" /\ mig'.select /\ ~mig'.refused => mig'.dbid \in MigDbs
    BY <1>7, <2>1
  <2>7. QED
    BY <1>8, <2>2, <2>3, <2>4, <2>5, <2>6 DEF SelectedInv
<1>14. KeysInv'
  <2>1. Keyed(mig, source, replica)
    BY KeysAre DEF MigrateInv
  <2>2. mig.j = 0 /\ (\A n \in 1 .. Len(mig.kv) : source[mig.kv[n]][2] = 0) => mig.ttl = 0
    BY <2>1 DEF Keyed
  <2>3. Keyed(mig', source, replica)
    BY <1>1, <1>7, <2>1, <2>2, SameKeys
  <2>4. QED
    BY <1>1, <2>3, KeysAre
<1>15. MigTypeOK'
  BY <1>1, <1>6, <1>7 DEF MigrateInv, MigTypeOK
<1>16. DeletedWereRestored' /\ TtlKeptUnlessMixed' /\ RestoredIntoDb' /\ OrphansInv'
  BY <1>1, HistoryKeeps DEF MigrateInv, OrphansInv
<1>17. QED
  BY <1>12, <1>13, <1>14, <1>15, <1>16 DEF MigrateInv

\* A reply of RESTORE: the key an acknowledgment deletes has been stored.
LEMMA ReadRestoreKeeps ==
  ASSUME MigrateInv, ReadRestore
  PROVE  MigrateInv'
<1>1. /\ mig.phase = "restore" /\ mig.j < Len(mig.kv) /\ sock.reps # <<>>
      /\ UNCHANGED <<replica, target, orphans, restored, migTodo>>
  BY DEF ReadRestore
<1>2. PICK reqs, reps, rest, reply :
        reqs = sock.reqs /\ reps = sock.reps /\ rest = Tail(reps) /\ reply = Head(reps)
  OBVIOUS
<1>3. PICK failed \in BOOLEAN : failed = ((mig.select /\ mig.refused) \/ reply = "-")
  OBVIOUS
<1>4. PICK delete \in BOOLEAN : delete = (~failed /\ ~mig.copy)
  OBVIOUS
<1>5. PICK j, k, last, error, del, r :
        /\ j = mig.j + 1 /\ k = mig.kv[mig.j + 1] /\ last = LastDbid(failed)
        /\ error = (mig.error \/ failed) /\ del = (IF delete THEN mig.del \cup {k} ELSE mig.del)
        /\ r = <<k, source[k][1], source[k][2], mig.dbid, mig.mixed>>
  OBVIOUS
<1>6. /\ sock' = [sock EXCEPT !.reps = rest, !.last_dbid = last]
      /\ mig' = [mig EXCEPT !.j = j, !.error = error, !.del = del]
      /\ source' = IF delete THEN [source EXCEPT ![k] = Absent] ELSE source
      /\ removed' = IF delete /\ source[k] # Absent THEN removed \cup {r} ELSE removed
  BY <1>2, <1>3, <1>4, <1>5 DEF ReadRestore, Refused
<1>7. /\ sock \in MigSocket /\ mig \in MigCommand /\ reps \in Seq({"+", "-"})
      /\ source \in [MigKeys -> Int \X Int] /\ mig.j \in Nat /\ mig.kv \in Seq(MigKeys)
      /\ mig.error \in BOOLEAN /\ sock.last_dbid \in Int
  BY <1>2 DEF MigrateInv, MigTypeOK, MigSocket, MigCommand
<1>8. rest \in Seq({"+", "-"}) /\ reply = reps[1] /\ reply \in {"+", "-"} /\ Len(reps) \in Nat \ {0}
  BY <1>1, <1>2, <1>7
<1>9. j \in 1 .. Len(mig.kv) /\ k = mig.kv[j] /\ k \in MigKeys /\ Len(mig.kv) \in Nat /\ j \in Nat
  <2>1. j = mig.j + 1 /\ k = mig.kv[j]
    BY <1>5
  <2>2. Len(mig.kv) \in Nat
    BY <1>7
  <2>3. j \in 1 .. Len(mig.kv) /\ j \in Nat
    BY <1>1, <1>7, <2>1, <2>2
  <2>4. QED
    BY <1>7, <2>1, <2>2, <2>3
<1>10. last \in Int /\ error \in BOOLEAN
  <2>1. last \in {-1, sock.last_dbid}
    BY <1>5 DEF LastDbid
  <2>2. QED
    BY <1>5, <1>7, <2>1
<1>11. /\ sock' \in MigSocket /\ sock'.alive = sock.alive /\ sock'.reqs = reqs /\ sock'.reps = rest
       /\ sock'.sel = sock.sel /\ sock'.last_dbid = last
  BY <1>2, <1>6, <1>7, <1>8, <1>10 DEF MigSocket
<1>12. del \in SUBSET MigKeys
  <2>1. mig.del \in SUBSET MigKeys
    BY <1>7 DEF MigCommand
  <2>2. QED
    BY <1>5, <1>9, <2>1
<1>13. /\ mig' \in MigCommand /\ mig'.phase = "restore" /\ mig'.kv = mig.kv /\ mig'.dbid = mig.dbid
       /\ mig'.select = mig.select /\ mig'.refused = mig.refused /\ mig'.j = j /\ mig'.error = error
       /\ mig'.del = del /\ mig'.mixed = mig.mixed
  BY <1>1, <1>6, <1>7, <1>9, <1>10, <1>12 DEF MigCommand
<1>14. source' \in [MigKeys -> Int \X Int] /\ \A x \in MigKeys : source'[x] = source[x] \/ source'[x] = Absent
  <2>1. Absent \in Int \X Int
    BY DEF Absent
  <2>2. QED
    BY <1>6, <1>7, <2>1
<1>15. Piped /\ Piped'
  BY <1>1, <1>13 DEF Piped
<1>16. PICK S : S = Selects(mig.select)
  OBVIOUS
<1>17. S \in {0, 1} /\ RepliesRead = S + mig.j /\ RepliesRead' = S + j /\ (Selects(mig.select))' = S
  BY <1>1, <1>13, <1>16 DEF RepliesRead, Selects
<1>18. PipelineInv' /\ Executed' = Executed
  <2>1. RepliesRead' = RepliesRead + 1
    BY <1>5, <1>7, <1>17
  <2>2. reps # <<>> /\ sock'.reps = Tail(reps)
    BY <1>1, <1>2, <1>11
  <2>3. mig'.j \in Nat /\ mig'.j <= Len(mig.kv)
    BY <1>9, <1>13
  <2>4. UNCHANGED restored
    BY <1>1
  <2>5. QED
    BY <1>2, <1>11, <1>13, <1>14, <1>15, <2>1, <2>2, <2>3, <2>4, PipelineRead
<1>19. reply = "+" => Stored(k)
  <2>1. PICK m, at : m = S + mig.j + 1 /\ at = m - S
    OBVIOUS
  <2>2. at = j /\ ~(m <= S)
    <3>1. PICK i : i = mig.j
      OBVIOUS
    <3>2. i \in Nat /\ S \in Nat /\ m = S + i + 1 /\ at = m - S /\ j = i + 1
      BY <1>5, <1>7, <1>17, <2>1, <3>1
    <3>3. QED
      BY <3>2
  <2>3. Tells(RepliesRead + 1, reps[1])
    BY <1>2, <1>8, <1>15 DEF MigrateInv, PipelineInv
  <2>4. Tells(m, reply)
    BY <1>8, <1>17, <2>1, <2>3
  <2>5. QED
    BY <1>9, <1>16, <2>1, <2>2, <2>4 DEF Tells
<1>20. ~failed => reply = "+" /\ mig.dbid \in MigDbs \cup {-1}
  <2>1. mig.select \/ mig.dbid \in MigDbs \cup {-1}
    BY <1>15 DEF MigrateInv, SelectedInv
  <2>2. mig.select /\ ~mig.refused => mig.dbid \in MigDbs
    BY <1>1, <1>15 DEF MigrateInv, SelectedInv
  <2>3. QED
    BY <1>3, <1>8, <2>1, <2>2
<1>21. SelectedInv'
  <2>1. Executed' >= (Selects(mig.select))' => sock'.sel = mig'.dbid \/ mig'.dbid \notin MigDbs
    BY <1>11, <1>13, <1>15, <1>16, <1>17, <1>18 DEF MigrateInv, SelectedInv
  <2>2. mig'.select \/ mig'.dbid \in MigDbs \cup {-1}
    BY <1>13, <1>15 DEF MigrateInv, SelectedInv
  <2>3. mig'.phase = "restore" /\ mig'.select /\ ~mig'.refused => mig'.dbid \in MigDbs
    BY <1>1, <1>13, <1>15 DEF MigrateInv, SelectedInv
  <2>4. mig'.j > 0 /\ ~mig'.error => ~(mig'.select /\ mig'.refused)
    BY <1>3, <1>5, <1>13
  <2>5. mig.error => sock.last_dbid = -1
    BY <1>15 DEF MigrateInv, SelectedInv
  <2>6. error => last = -1
    BY <1>5, <2>5 DEF LastDbid
  <2>7. mig'.error => sock'.last_dbid = -1
    BY <1>11, <1>13, <2>6
  <2>8. QED
    BY <1>15, <2>1, <2>2, <2>3, <2>4, <2>7 DEF SelectedInv
<1>22. KeysInv'
  <2>1. mig'.phase # "idle" /\ mig'.phase # "connect" /\ mig'.kv # <<>> /\ mig'.j # 0
    <3>1. mig.kv # <<>>
      BY <1>1 DEF MigrateInv, KeysInv
    <3>2. QED
      BY <1>9, <1>13, <3>1
  <2>2. source = [x \in MigKeys |-> IF x \in mig.del THEN Absent ELSE replica[x]]
    BY DEF MigrateInv, KeysInv
  <2>3. source' = [x \in MigKeys |-> IF x \in del THEN Absent ELSE replica[x]]
    <3>1. CASE delete
      <4>1. source' = [source EXCEPT ![k] = Absent] /\ del = mig.del \cup {k}
        BY <1>5, <1>6, <3>1
      <4>2. QED
        BY <1>9, <2>2, <4>1
    <3>2. CASE ~delete
      BY <1>5, <1>6, <2>2, <3>2
    <3>3. QED
      BY <1>4, <3>1, <3>2
  <2>4. QED
    BY <1>1, <1>13, <2>1, <2>3 DEF KeysInv
<1>23. ASSUME delete, source[k] # Absent
       PROVE  \E s \in restored :
                 /\ s[1] = r[1] /\ s[2] = r[2] /\ RightDb(s, r)
                 /\ (r[3] # 0 \/ ~r[5]) => s[3] = r[3]
  <2>1. r[1] = k /\ r[2] = source[k][1] /\ r[3] = source[k][2] /\ r[4] = mig.dbid /\ r[5] = mig.mixed
    BY <1>5
  <2>2. Stored(k) /\ mig.dbid \in MigDbs \cup {-1}
    BY <1>4, <1>19, <1>20, <1>23
  <2>3. PICK s \in restored :
           /\ s[1] = k /\ s[2] = source[k][1]
           /\ s[4] = mig.dbid \/ mig.dbid \notin MigDbs
           /\ source[k][2] # 0 \/ ~mig.mixed => s[3] = source[k][2]
    BY <1>23, <2>2 DEF Stored
  <2>4. RightDb(s, r)
    BY <2>1, <2>2, <2>3 DEF RightDb
  <2>5. QED
    BY <2>1, <2>3, <2>4
<1>24. DeletedWereRestored' /\ TtlKeptUnlessMixed' /\ RestoredIntoDb'
  <2>1. RestoredIntoDb'
    BY <1>1 DEF MigrateInv, RestoredIntoDb
  <2>2. DeletedWereRestored /\ TtlKeptUnlessMixed
    BY DEF MigrateInv
  <2>3. CASE delete /\ source[k] # Absent
    <3>1. removed' = removed \cup {r}
      BY <1>6, <2>3
    <3>2. DeletedWereRestored'
      BY <1>1, <1>23, <2>2, <2>3, <3>1 DEF DeletedWereRestored
    <3>3. TtlKeptUnlessMixed'
      BY <1>1, <1>23, <2>2, <2>3, <3>1 DEF TtlKeptUnlessMixed
    <3>4. QED
      BY <2>1, <3>2, <3>3
  <2>4. CASE ~(delete /\ source[k] # Absent)
    <3>1. removed' = removed
      BY <1>6, <2>4
    <3>2. QED
      BY <1>1, <2>1, <2>2, <3>1 DEF DeletedWereRestored, TtlKeptUnlessMixed
  <2>5. QED
    BY <2>3, <2>4
<1>25. MigTypeOK' /\ OrphansInv'
  BY <1>1, <1>11, <1>13, <1>14 DEF MigrateInv, MigTypeOK, OrphansInv
<1>26. QED
  BY <1>18, <1>21, <1>22, <1>24, <1>25 DEF MigrateInv

\* All replies are in.
LEMMA MigrateDoneKeeps ==
  ASSUME MigrateInv, MigrateDone
  PROVE  MigrateInv'
<1>1. /\ mig.phase = "restore" /\ mig.j = Len(mig.kv) /\ mig' = NoMigrate /\ Propagate
      /\ sock' = IF mig.error THEN sock ELSE [sock EXCEPT !.last_dbid = mig.dbid]
      /\ UNCHANGED <<source, target, orphans, restored, removed, migTodo>>
  BY DEF MigrateDone
<1>2. KeysInv' /\ ~Piped' /\ mig' \in MigCommand /\ replica' \in [MigKeys -> Int \X Int]
  BY <1>1, CommandOver
<1>3. Piped
  BY <1>1 DEF Piped
<1>4. PICK S, K, reqs, reps : /\ S = Selects(mig.select) /\ K = Len(mig.kv)
                              /\ reqs = sock.reqs /\ reps = sock.reps
  OBVIOUS
<1>5. /\ sock \in MigSocket /\ reqs \in Seq(MigRequest) /\ reps \in Seq({"+", "-"})
      /\ mig.kv \in Seq(MigKeys) /\ mig.dbid \in MigDbids \cup {0}
  BY <1>4 DEF MigrateInv, MigTypeOK, MigSocket, MigCommand
<1>6. S \in {0, 1} /\ K \in Nat \ {0} /\ mig.j = K
  <2>1. mig.kv # <<>>
    BY <1>1 DEF MigrateInv, KeysInv
  <2>2. QED
    BY <1>1, <1>4, <1>5, <2>1 DEF Selects
<1>7. Executed = S + K + Len(reps) /\ Executed <= S + K
  BY <1>1, <1>3, <1>4, <1>6 DEF Executed, RepliesRead, MigrateInv, PipelineInv
<1>8. Len(reps) = 0 /\ Executed = S + K /\ Executed >= S
  <2>1. PICK l, e : l = Len(reps) /\ e = Executed
    OBVIOUS
  <2>2. l \in Nat /\ e = S + K + l /\ e <= S + K
    BY <1>5, <1>7, <2>1
  <2>3. l = 0 /\ e = S + K /\ e >= S
    BY <1>6, <2>2
  <2>4. QED
    BY <2>1, <2>3
<1>9. Len(reqs) = 0
  <2>1. Len(reqs) = IF sock.alive THEN S + K - Executed ELSE 0
    BY <1>3, <1>4 DEF MigrateInv, PipelineInv
  <2>2. PICK e : e = Executed
    OBVIOUS
  <2>3. S + K - e = 0
    BY <1>6, <1>8, <2>2
  <2>4. QED
    BY <2>1, <2>2, <2>3
<1>10. sock.reqs = <<>> /\ sock.reps = <<>>
  BY <1>4, <1>5, <1>8, <1>9
<1>11. mig.dbid \in Int
  <2>1. MigDbids \subseteq Int
    BY MigrateAssumption
  <2>2. 0 \in Int
    OBVIOUS
  <2>3. QED
    BY <1>5, <2>1, <2>2, Zenon
<1>12. /\ sock' \in MigSocket /\ sock'.reqs = <<>> /\ sock'.reps = <<>> /\ sock'.sel = sock.sel
       /\ sock'.last_dbid = IF mig.error THEN sock.last_dbid ELSE mig.dbid
  BY <1>1, <1>5, <1>10, <1>11 DEF MigSocket
<1>13. sock'.last_dbid \in {-1, sock'.sel}
  <2>1. CASE mig.error
    BY <1>3, <1>12, <2>1 DEF MigrateInv, SelectedInv
  <2>2. CASE ~mig.error
    <3>1. sock.sel = mig.dbid \/ mig.dbid \notin MigDbs
      BY <1>3, <1>4, <1>8 DEF MigrateInv, SelectedInv
    <3>2. mig.select \/ mig.dbid \in MigDbs \cup {-1}
      BY <1>3 DEF MigrateInv, SelectedInv
    <3>3. mig.j > 0
      BY <1>6
    <3>4. ~(mig.select /\ mig.refused)
      BY <1>3, <2>2, <3>3 DEF MigrateInv, SelectedInv
    <3>5. mig.select => mig.dbid \in MigDbs
      BY <1>1, <1>3, <3>4 DEF MigrateInv, SelectedInv
    <3>6. QED
      BY <1>12, <2>2, <3>1, <3>2, <3>5
  <2>3. QED
    BY <2>1, <2>2
<1>14. PipelineInv' /\ SelectedInv'
  BY <1>2, <1>12, <1>13 DEF PipelineInv, SelectedInv
<1>15. MigTypeOK'
  BY <1>1, <1>2, <1>12 DEF MigrateInv, MigTypeOK
<1>16. DeletedWereRestored' /\ TtlKeptUnlessMixed' /\ RestoredIntoDb' /\ OrphansInv'
  BY <1>1, HistoryKeeps DEF MigrateInv, OrphansInv
<1>17. QED
  BY <1>2, <1>14, <1>15, <1>16 DEF MigrateInv

\* A read fails.
LEMMA ReadFailsKeeps ==
  ASSUME MigrateInv, ReadFails
  PROVE  MigrateInv'
<1>1. UNCHANGED <<source, target, restored, removed>>
  BY DEF ReadFails
<1>2. PICK timedout \in BOOLEAN :
        /\ IF timedout THEN Fault ELSE ~sock.alive /\ UNCHANGED migTodo
        /\ IF mig.error
           THEN migrateCloseSocket /\ mig' = NoMigrate /\ Propagate
           ELSE SocketError(timedout, mig.may_retry /\ mig.j = 0, mig.ttl)
  BY DEF ReadFails
<1>3. /\ migrateCloseSocket
      /\ \/ mig' = NoMigrate /\ Propagate
         \/ /\ mig.j = 0 /\ UNCHANGED replica
            /\ mig' = [mig EXCEPT !.phase = "connect", !.may_retry = FALSE, !.ttl = mig.ttl]
  BY <1>2 DEF SocketError
<1>4. /\ OrphansInv' /\ orphans' \subseteq MigDbs \X Seq(MigRequest)
      /\ sock' = NoSocket /\ sock' \in MigSocket
  BY <1>3, ClosingKeeps
<1>5. KeysInv' /\ ~Piped' /\ mig' \in MigCommand /\ replica' \in [MigKeys -> Int \X Int]
  <2>1. CASE mig' = NoMigrate /\ Propagate
    BY <1>1, <2>1, CommandOver
  <2>2. CASE /\ mig.j = 0 /\ UNCHANGED replica
             /\ mig' = [mig EXCEPT !.phase = "connect", !.may_retry = FALSE, !.ttl = mig.ttl]
    <3>1. mig \in MigCommand /\ replica \in [MigKeys -> Int \X Int]
      BY DEF MigrateInv, MigTypeOK
    <3>2. /\ mig' \in MigCommand /\ mig'.phase = "connect" /\ mig'.kv = mig.kv /\ mig'.j = 0
          /\ mig'.del = mig.del /\ mig'.mixed = mig.mixed /\ mig'.ttl = mig.ttl
      BY <2>2, <3>1 DEF MigCommand
    <3>3. mig.kv # <<>>
      <4>1. mig.phase # "idle"
        BY DEF ReadFails
      <4>2. QED
        BY <4>1 DEF MigrateInv, KeysInv
    <3>4. KeysInv'
      BY <1>1, <2>2, <3>2, <3>3 DEF MigrateInv, KeysInv
    <3>5. QED
      BY <2>2, <3>1, <3>2, <3>4 DEF Piped
  <2>3. QED
    BY <1>3, <2>1, <2>2
<1>6. PipelineInv' /\ SelectedInv'
  BY <1>4, <1>5, ClosedKeeps
<1>7. migTodo' \in [sets : Nat, migrates : Nat, faults : Nat]
  <2>1. CASE Fault
    BY <2>1, FaultType DEF MigrateInv
  <2>2. CASE UNCHANGED migTodo
    BY <2>2 DEF MigrateInv, MigTypeOK
  <2>3. QED
    BY <1>2, <2>1, <2>2
<1>8. MigTypeOK'
  BY <1>1, <1>4, <1>5, <1>7 DEF MigrateInv, MigTypeOK
<1>9. DeletedWereRestored' /\ TtlKeptUnlessMixed' /\ RestoredIntoDb'
  BY <1>1, HistoryKeeps DEF MigrateInv
<1>10. QED
  BY <1>4, <1>5, <1>6, <1>8, <1>9 DEF MigrateInv

\* The cron closes an unused socket.
LEMMA CloseTimedoutKeeps ==
  ASSUME MigrateInv, migrateCloseTimedoutSockets
  PROVE  MigrateInv'
<1>1. /\ mig.phase = "idle" /\ migrateCloseSocket
      /\ UNCHANGED <<source, replica, target, mig, restored, removed, migTodo>>
  BY DEF migrateCloseTimedoutSockets
<1>2. /\ OrphansInv' /\ orphans' \subseteq MigDbs \X Seq(MigRequest)
      /\ sock' = NoSocket /\ sock' \in MigSocket
  BY <1>1, ClosingKeeps
<1>3. ~Piped' /\ KeysInv'
  BY <1>1 DEF Piped, MigrateInv, KeysInv
<1>4. PipelineInv' /\ SelectedInv'
  BY <1>2, <1>3, ClosedKeeps
<1>5. MigTypeOK'
  BY <1>1, <1>2 DEF MigrateInv, MigTypeOK
<1>6. DeletedWereRestored' /\ TtlKeptUnlessMixed' /\ RestoredIntoDb'
  BY <1>1, HistoryKeeps DEF MigrateInv
<1>7. QED
  BY <1>2, <1>3, <1>4, <1>5, <1>6 DEF MigrateInv

LEMMA MigrateStarts ==
  ASSUME MigrateInit
  PROVE  MigrateInv
<1>1. PICK b \in MigBudgets : migTodo = [sets |-> b[1], migrates |-> b[2], faults |-> b[3]]
  BY DEF MigrateInit
<1>2. b \in Nat \X Nat \X Nat
  BY MigrateAssumption
<1>3. migTodo \in [sets : Nat, migrates : Nat, faults : Nat]
  BY <1>1, <1>2
<1>4. /\ source = [k \in MigKeys |-> Absent] /\ replica = source
      /\ target = [d \in MigDbs |-> source]
      /\ sock = NoSocket /\ orphans = {} /\ mig = NoMigrate
      /\ restored = {} /\ removed = {}
  BY DEF MigrateInit
<1>5. Absent \in Int \X Int
  BY DEF Absent
<1>6. source \in [MigKeys -> Int \X Int]
  BY <1>4, <1>5
<1>7. MigTypeOK
  BY <1>3, <1>4, <1>6, NoCommand, ClosedSocket DEF MigTypeOK
<1>8. PipelineInv /\ SelectedInv
  BY <1>4 DEF PipelineInv, SelectedInv, Piped, NoMigrate, NoSocket
<1>9. OrphansInv /\ DeletedWereRestored /\ TtlKeptUnlessMixed /\ RestoredIntoDb
  BY <1>4 DEF OrphansInv, DeletedWereRestored, TtlKeptUnlessMixed, RestoredIntoDb
<1>10. KeysInv
  BY <1>4, <1>6, IdleKeys, KeysAre
<1>11. QED
  BY <1>7, <1>8, <1>9, <1>10 DEF MigrateInv

\* A stuttering step.
LEMMA MigrateStutters ==
  ASSUME MigrateInv, UNCHANGED migVars
  PROVE  MigrateInv'
<1>1. UNCHANGED <<source, replica, target, sock, orphans, mig, restored, removed, migTodo>>
  BY DEF migVars
<1>2. PipelineInv' /\ SelectedInv' /\ KeysInv'
  BY <1>1, ApartKeeps
<1>3. DeletedWereRestored' /\ TtlKeptUnlessMixed' /\ RestoredIntoDb'
  BY <1>1, HistoryKeeps DEF MigrateInv
<1>4. MigTypeOK' /\ OrphansInv'
  BY <1>1 DEF MigrateInv, MigTypeOK, OrphansInv
<1>5. QED
  BY <1>2, <1>3, <1>4 DEF MigrateInv

LEMMA MigrateInvImplies ==
  ASSUME MigrateInv
  PROVE  MigrateSound
<1>1. ASSUME mig.phase = "idle" PROVE replica = source
  <2>1. mig.del = {} /\ source = [k \in MigKeys |-> IF k \in mig.del THEN Absent ELSE replica[k]]
    <3>1. Keyed(mig, source, replica)
      BY KeysAre DEF MigrateInv
    <3>2. mig = NoMigrate /\ source = [k \in MigKeys |-> IF k \in mig.del THEN Absent ELSE replica[k]]
      BY <1>1, <3>1 DEF Keyed
    <3>3. QED
      BY <3>2 DEF NoMigrate
  <2>2. replica \in [MigKeys -> Int \X Int]
    BY DEF MigrateInv, MigTypeOK
  <2>3. QED
    BY <2>1, <2>2
<1>2. QED
  BY <1>1 DEF MigrateInv, MigrateSound, SourceReplicaFollows

\* Whatever the keys, the key lists, the databases and the number of faults:
\* a key that MIGRATE deletes from the source (migrateCommand()) has been
\* stored by the target, with its value, in the database the command named
\* and, unless it goes in one command with keys that expire and does not
\* expire itself, with its time to live; every RESTORE lands in the database
\* its command named; and after the command the replica of the source holds
\* what the source holds.
THEOREM MigrateLosesNothing == MigrateSpec => []MigrateSound
<1>1. MigrateInit => MigrateInv
  BY MigrateStarts
<1>2. MigrateInv /\ [MigrateNext]_migVars => MigrateInv'
  <2>1. SUFFICES ASSUME MigrateInv, [MigrateNext]_migVars PROVE MigrateInv'
    OBVIOUS
  <2>2. CASE TargetRuns \/ OrphanRuns \/ OrphanDropped \/ TargetClient \/ TargetCloses
    BY <2>1, <2>2, TargetRunsKeeps, OrphanRunsKeeps, OtherTargetKeeps, TargetClosesKeeps
  <2>3. CASE SourceSets \/ migrateCommand \/ Transmit \/ CannotConnect \/ WriteFails
    BY <2>1, <2>3, SourceSetsKeeps, migrateCommandKeeps, TransmitKeeps, CannotConnectKeeps,
       WriteFailsKeeps
  <2>4. CASE ReadSelect \/ ReadRestore \/ MigrateDone \/ ReadFails \/ migrateCloseTimedoutSockets
    BY <2>1, <2>4, ReadSelectKeeps, ReadRestoreKeeps, MigrateDoneKeeps, ReadFailsKeeps,
       CloseTimedoutKeeps
  <2>5. CASE UNCHANGED migVars
    BY <2>1, <2>5, MigrateStutters
  <2>6. QED
    BY <2>1, <2>2, <2>3, <2>4, <2>5 DEF MigrateNext
<1>3. MigrateInv => MigrateSound
  BY MigrateInvImplies
<1>4. QED
  BY <1>1, <1>2, <1>3, PTL DEF MigrateSpec

=============================================================================
