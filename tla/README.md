# A TLA+ model of nanotwitter and the Redis it ships

The repository has two halves. nanotwitter is a Sinatra application: request
handlers (`app.rb`, `api.rb`) over ActiveRecord models (`models/`) in Postgres or
SQLite, with all feeds kept in Redis (`redis_operations.rb`); publishing a tweet
runs in a thread that outlives its request (`tweetprocessor.rb`). `redis-stable/`
is the source of the Redis server those feeds live in.

The application has no unique index, no handler opens a transaction of its own,
and no handler takes a lock. What it promises depends on how the single queries
and Redis commands of several threads interleave, so in its modules **every
database or Redis call is one action**. A Redis server runs one command at a time
to the end, so in its modules **a command is one step**, however long its code,
and what is interesting happens between commands, between data structures and
their encodings, and between servers.

## Parts and modules

### The application

| Part | Source | Module |
|---|---|---|
| Likes | `app.rb` 147-156, `models/tweet.rb`, `redis_operations.rb` 74-80 | `Likes`, `LikeLedger` |
| Follows | `app.rb` 100-128, `models/follow.rb`, `models/user.rb`, `helpers/follow_validator.rb`, `views/follow_button.erb` | `Follows` |
| Tweets and feeds | `app.rb` 131-135, 172-176, `tweetprocessor.rb` 10-56, `redis_operations.rb` 12-68 | `Publish` |
| Accounts and sessions | `app.rb` 31-98, `helpers/authentication.rb` | `Accounts` |

**Likes.** `req[th]` is the request a thread serves and the step it is at;
`likes` is the column, `likers` the Redis set. `FindTweet`, `LikedBefore`,
`IncrementLikes` and `CacheLikes` are the four calls of the handler.
`IncrementLikes` writes the value `FindTweet` read plus one. Not being logged in
is one more value of the users: the handler does not ask, and Redis remembers it
as it remembers a user. `LikeLedger` is what the button promises: each user is
counted once, and the number shown is between one and the number counted.

**Follows.** A client is a browser tab or a script of one user. `ViewProfile`
stores what the button offered, so that a click may act on a page that is out of
date. `follows` is a set of rows with ids, because `destroy_all` selects ids and
deletes them one by one. The counters are saved from the values the records were
read with. A save changes one column only (ActiveRecord writes the changed
attributes), and does nothing for a user whose name another row has, because the
uniqueness validation fails.

**Publish.** A job is one call of `make_tweet` and identifies the feed entries it
pushes. Steps follow the thread: row, counter, front feed (measure, trim, push),
profile feed, home feeds one by one, then mentions or else tags. A text is a
sequence of words (mention, tag, plain) and whether it fits the column. The
followers are a set that the environment changes.

**Accounts.** The session is a cookie: a request works on the copy it was sent
with, and the answer replaces the browser's cookie if the copy has changed. This
last rule is that of Rack 1.6, which is outside this repository, and is marked
external. Names and emails are taken up to case.

In these four modules an abort action ends a request or thread at any step, as a
raised exception (a connection pool timeout, a lost Redis connection) or a
restart does. Nothing is rolled back.

### Redis

| Part | Source (`redis-stable/src/`) | Module |
|---|---|---|
| Databases, lookup, expiry, propagation | `db.c`, `server.c`, `aof.c` | `Keyspace`, `KeyCommands`, `Commands` |
| Values and their commands | `t_string.c`, `t_list.c`, `t_set.c`, `t_zset.c`, `t_hash.c`, `sort.c`, `bitops.c` | `Strings`, `Lists`, `Sets`, `ZSets`, `Hashes`, `Sort`, `Bitmaps` |
| HyperLogLog values and their commands | `hyperloglog.c` | `HyperLogLog` |
| Server with replica and append-only file | the above, composed | `Dataset` |
| Data structures | `dict.c`, `intset.c`, `ziplist.c`, `quicklist.c`, the skiplist of `t_zset.c` | `Dict`, `Intset`, `Ziplist`, `Quicklist`, `Skiplist` |
| Clients | `server.c`, `multi.c`, `blocked.c`, `t_list.c`, `pubsub.c` | `Clients`, `PubSub` |
| Replication | `replication.c`, `rdb.c`, `networking.c` | `Replication` |
| MIGRATE and RESTORE | `cluster.c` | `Migrate` |
| Cluster failover | `cluster.c` | `ClusterFailover` |
| Sentinel elections | `sentinel.c` | `SentinelElection` |
| Sentinel failovers | `sentinel.c` | `SentinelFailover` |

**Commands.** `Keyspace` describes the record `s`, a server together with the
client it serves, that goes through the operators of the command modules: one
operator per C function, from a server to a server. Besides the databases `s` has
what the command leaves for others: `dirty`, the keys touched for WATCH, the lists
made ready for blocked clients, and the commands that go to the replicas and to
the file. `Commands` is the table of commands and `call()`. `Dataset` composes a
master, a replica and the dataset that loading the append-only file would give.
Numbers have a small width (`LLONG_MAX`), strings a small limit, and the
thresholds at which a value changes its encoding are constants, so that the
boundaries are reached.

**Data structures.** `Intset` and `Ziplist` are modelled down to memory cells,
because what can go wrong is a write over cells still to be read; `Dict` has its
two tables, `Quicklist` its nodes and compression flags, `Skiplist` its levels and
spans. Each is run beside the abstract value it stands for. `HyperLogLog` has both
encodings of the registers, the opcodes of the sparse one and the packed bytes of the
dense one, on a master and its replica; an element is the register its hash addresses
and the length of its run of zeroes.

**Clients.** `processCommand()` in front of every command, MULTI, EXEC and WATCH,
clients blocked on lists, and publish/subscribe.

**Replication.** Servers linked by streams of bytes in which a read can end inside
a command; full and partial resynchronisation, the circular backlog, cached
masters, children that save for slaves of two kinds, WAIT, broken links and
restarts.

**Migrate.** One MIGRATE at a time between two servers, its socket cache, its one
retry, and a target that goes on executing what an abandoned connection had sent.
Database -1 is among the databases asked for: `last_dbid` of a new socket is -1
(cluster.c 4603), so no SELECT is sent for it (4737) and the keys arrive in
database 0. What `MigrateSound` says of
databases it says of those the target has.

**ClusterFailover.** Every node's table of nodes, epochs and slots, the packets
under way (which may be lost and may overtake each other) and the part of the
table that is on disk.

**SentinelElection.** Epochs, votes, questions and answers of the Sentinels of one
master. Timers may fire early or late, so what holds does so for every timing.

**SentinelFailover.** What follows an election: each Sentinel's view of the master
(address, slaves and their flags, stage, epochs), its configuration file, the servers
with the SLAVEOFs under way to them, and one hello message. An election is won by one
Sentinel per epoch, which is what `OneLeader` proves, unless votes of a later epoch are
counted. A few things the code does that one may not expect: the SLAVEOFs queued when a
failover ends by timeout (sentinel.c 4095) go with the links that the switch to the new
master frees in the same call of the timer, so they are not sent; a slave told too long
ago counts as done and is told again (4137-4152); SENTINEL RESET saves nothing; a hello
message with a newer epoch that names the master a Sentinel already has, while the
Sentinel is failing that master over, does not end the failover.

Variables marked *history* record what happened, for the properties, and guard
no action. Definitions commented *Mutant* are faulty versions of the definition
that follows them. No specification uses them: they show that the properties can
fail.

## Runs

A module that composes components which share no state runs one of them at a time:
a variable `part` or `machine`, chosen in the initial state, says which, and the
others stay as they start. Such a run explores the sum, not the product, of its
machines.

| Run | Machines | Shows | Bounds |
|---|---|---|---|
| `handlers` | `Likes`, `Follows`, `Publish` twice | The like column never counts more than the likers and never returns to 0; follow requests take effect, rows are unique, both counters are exact for users nothing raced on; a finished tweet is exactly where it belongs; racing trims cost the front feed no recent tweet; `tweet_count` never overcounts | 3 threads and users; 3 follow requests; 2 jobs with texts of all kinds and a change of follows, or 3 plain ones; front feed of 1; 1 death each |
| `live` | `Likes`, `Follows`, `Publish` | Likes implement `LikeLedger`; every like, follow request and tweet comes to its end | 3 threads; 2 requests; 2 jobs; no deaths |
| `accounts_overlap` | `Accounts` | A session is one the browser has earned; names clash only if registrations raced; logins of a browser that sends one request at a time last | 2 browsers, 2 threads, 3 requests, 1 death |
| `data` | `Dataset`, `Dict`, `Intset`, `Ziplist`, `HyperLogLog` | Replica and file agree with the master after every command; values keep the invariants of their encodings; watchers are told of every change; replies are those of a reference; the structures hold what the abstract set, map or list holds; a HyperLogLog has the registers and the count of its elements, and its replica the same bytes | 2 keys per group of commands, lists of 3, structures of 3-4 entries |
| `server` | `Clients` | Nobody stays blocked on a list that has elements and elements are served once; a transaction runs undisturbed or not at all; the replica of a server with transactions agrees; a message reaches each subscription once | 3 clients, queues of 2 |
| `cluster` | `Replication`, `Migrate`, `ClusterFailover`, `Quicklist`, `Skiplist` | A slave has a prefix of its master's writes; MIGRATE loses no key; epochs, votes and slot tables of a cluster; lists and skiplists hold what they should | 2 servers, 2 writes; 2 keys, 2 faults; 5 nodes, 3 slots, up to 2 elections, takeovers and restarts (6 budgets); lists of 4 |
| `sentinel` | `SentinelElection`, `SentinelFailover` | A Sentinel votes once per epoch; an epoch has one leader; the promoted slave is known whenever it is dereferenced and at most `parallel_syncs` slaves synchronise at once; Sentinels with the same configuration epoch name the same master | 3 Sentinels, 2 failovers, 1 restart; 2 Sentinels, 2 slaves, 2 failovers and a restart, reset, forced failover or corrected slave; 3 slaves and one Sentinel that acts |

Runs that find what a comment, a test or a note says to be violated:

| Run | Statement | What happens |
|---|---|---|
| `likes_double` | "A tweet cannot be liked by the same user more than once" | two overlapping requests of one user pass `liked_before?` |
| `follows_rejected` | info "returns the number of ... followings" | one request: a rejected follow is counted |
| `publish_replica` | "prevent a tweet of replicating itself in a persons wall" | an unfollow between the two reads of the follows |
| `publish_empty` | info "returns the number of tweets" | one thread: a rejected tweet is counted |
| `accounts_testurl` | "displays the page for this user" | one request: `login` reads other parameters than the URL gives |

The tests quoted make requests one at a time and pass. `likes_double` and
`publish_replica` are about what else can happen when requests overlap; the
other three need no overlap.

**Why the bounds are enough to be interesting.** Every race of the application is
between two requests about one row or list; a third user or thread lets a
bystander be disturbed. The code's cap of 50 tweets differs from the cap of 1 only
in size. Thresholds of encodings, integer widths and string limits are set so that
two or three elements cross them in both directions. Two keys are enough for
commands with a source and a destination, which may be the same key. Three
Sentinels or three masters are the fewest with a majority that tolerates a fault;
two elections can collide, and one restart can lose a vote. Budgets (`Budgets`,
`ReplBudgets`, `MigBudgets`) say how many faults of each kind a behaviour may have;
each combination listed is explored completely.

**Fairness.** Liveness assumes weak fairness of the steps of each thread of the
application: the server's threads are scheduled, and each call returns or raises.
No fairness is assumed of users, and none is needed for the Redis modules, whose
properties are safety properties.

**Deadlock** is checked in `handlers`, `live` and `accounts_overlap`, where there is
always a step: a request that can be made or a state that stays as it is when all is
done. The other runs end when their budgets are used up, so it is not checked there.

**Symmetry** is used in `accounts_overlap`, which has invariants only, over the
names, emails, passwords, browsers and threads, which the module does not tell apart.
`sentinel` and `cluster` name nodes by numbers, because epochs and ranks compare them;
`sentinel` orders the Sentinels as they start failovers instead (`ElectionOrdered`,
`FailoverOrdered`).

## Proofs

Each component with theorems has a module of proofs. All theorems hold for every
value of the constants that satisfies the named assumption of the module (finite
sets of threads and nodes, values such as `None` outside the sets they are told
apart from, bounds in `Nat`). Unless noted, no bound is used: `Max...` may be any
number.

| Module | Theorems | Inductive invariant, and why the property needs it |
|---|---|---|
| `LikesProofs` | `TypeCorrect`, `LikedHasLikes`, `NeverOvercounted`, `LikesImplementLedger` | `OvercountInv`: requests are of different users, a request past the check is not yet remembered, and the value a request has read is bounded by the users counted now, which is what makes a stale write harmless. `LikedHasLikes` needs the same for a request about to be remembered (`SavedHasLikes`). |
| `FollowsProofs` | `TypeCorrect`, `NoDuplicates`, `RequestsTakeEffect`, `CountersExact` | `EffectInv`: ids are unique, a validated follow is still new at its INSERT, and the ids `destroy_all` holds are those of its own pair. `CountInv` adds, per client, that a button offered is right, and what the counters still owe: a request between its row and its two saves owes one, in the direction of its kind, and has seen the value it will save over. |
| `AccountsProofs` | `UsersSound`, `SessionsEarned`, `LoginSticks` | `AccountsInv`: the user a request has in its copy of the session is one its browser earned, a registration that validated is unique unless raced, and a browser outside `mixed` has one request, sent with the cookie it has now. |
| `PublishProofs` | `FrontFeedSound`, `TweetsCountedOnce` | `PublishInv`: the front feed is a prefix of the pushes, newest first, and a job pushes once; the length and the pushes that trims made room for are at least `Cap` together (`TrimsWhenFull`); what a thread read of `tweet_count` is at most what was counted (`ReadsPast`). |
| `MigrateProofs` | `MigrateLosesNothing` | `MigrateInv`: the requests executed, under way and to be sent are the pipeline of the command, in order; answers match the requests they answer; what an abandoned connection holds was asked of it; the source is the replica without the keys deleted so far. |
| `ClusterFailoverProofs` | `EpochsOrdered`, `TablesConverge` | `FailoverInv`: in every table, on disk and in every packet under way epochs are at most the current epoch and slots belong to masters; the last vote of a master is its newest; an election that counted no stale vote was won with a quorum of ballots. |
| `SentinelElectionProofs` | `VotesOnce`, `OneLeader` | `ElectionInv`: a vote is cast only at an epoch past the last vote's, which the config file holds too; what a Sentinel is believed to have voted, it did vote; a leader had a majority, and two majorities share a voter. |

Assumptions that a theorem adds: `NeverOvercounted` and `LikesImplementLedger`
assume one request per user in flight (the second also that none dies);
`NoDuplicates`, `RequestsTakeEffect` and `CountersExact` assume no two clients of
one user. They are needed: `likes_double` is what happens without the first, and
two tabs of one user that validate a follow before either inserts it give
duplicate rows.

`TablesConverge` is about two nodes that have nothing left to tell each other:
what a node still would answer to the other's header is computed by the same
operators that handle packets, and if no such answer exists the tables agree. It
does not say that such a state is reached.

Only model-checked, and why:

* Every liveness property (`LikeAnswered`, `RequestAnswered`, `TweetDelivered`):
  the prover does not reason about fairness.
* `EpochsUniqueUnlessForgot`. For arbitrary constants it is not inductive: a node
  that wins counts a majority of the masters *it* knows with slots, and two nodes
  may know different ones. What holds in general is in `EpochsSound`: two winners
  of an epoch were elected by disjoint sets of masters, each as large as the
  quorum its winner computed. The instance, where all begin with the same table,
  has no two winners.
* `DeliveredExactly` and the feed clauses of `PublishTypeOK` count entries with
  folds over sequences; `ReplicationSound` compares datasets that are folds of
  streams; the properties of `Dataset`, `Clients` and the data structures are about
  recursive operators. Induction over data is beyond the installed provers.

## What the passing properties leave out

Several properties have a condition because TLC finds them violated without it.
No run is kept for these; each is the same kind of race as one above, or has no
statement in the repository to hold it against.

* *Lost updates.* `likes`, `follower_count` and `tweet_count` are saved from an
  earlier read, so of two overlapping requests one may not be counted. Hence
  "never overcounted", and the condition `contended` of `FollowCountsExact`.
* *Check, then insert.* Follows of two tabs of one user, and registrations of one
  name, can both validate before either inserts. Overlapping registrations of one
  name may both be sent back to the form with both accounts made.
* *Order of the front feed.* Tweets whose threads overlap may be in the other
  order than their rows.
* *The cap.* `cache_tweet` trims only at exactly 50 entries: two threads that
  measure 49 together take the feed past the cap, and from then on it is not
  trimmed. Hence the bound of `FeedsSound` is for tweets that do not overlap.
* *Double mentions.* A user who does not follow and is mentioned twice gets the
  tweet twice; `DeliveredExactly` counts one copy per mention.
* *Sessions.* A late answer that carries an older cookie undoes a login. Hence
  `LoginSticksAlone`. This rests on the external Rack rule above.
* *Mixed times to live.* MIGRATE of several keys sends the time to live of an
  earlier key with a later one that has none (`ttl` is set to 0 once, cluster.c 4670).
  Hence "unless mixed" in `MigrateSound`.
* *Contested epochs.* A forced failover takes an epoch without votes, and a Sentinel
  may win the epoch of its failover with votes of a later one. A Sentinel that is in the
  middle of its own failover may take a configuration epoch from a hello message, or
  lose its new address to SENTINEL RESET. Two Sentinels can then have one configuration
  epoch and two addresses. Hence `contested` in `ConfigsAgree`.
* *Votes and disks.* A master that votes and is restarted before its vote is on
  disk may vote twice. Hence "unless forgot".

## Not modelled

* Application: search and mark-up of texts, the read-only API, the client library,
  the browser scripts, templates and declarations (schema, configuration). The
  absence of unique indexes and the separate Redis connections are assumptions of
  every module. `Follows` and `Publish` are not composed: duplicate follow rows,
  which `Follows` shows to be possible, are not carried over to the fan-out.
* Redis: the encoders and decoders of RDB files, Lua scripting, parsing of the
  protocol and of configuration files, the command-line tools; statistics, LRU
  clocks, keyspace notifications and memory accounting.
* Redis Cluster and Sentinel: gossip, handshakes and slot migration; monitoring of
  instances, SENTINEL MONITOR, REMOVE and SET, and notification scripts.
