------------------------------ MODULE Follows ------------------------------
(***************************************************************************)
(* GET /user/:user_name, POST /user/follow and POST /user/unfollow         *)
(* (app.rb), with the Follow and User models they use.  A client is a      *)
(* browser tab (or a script) of one user: it shows a profile page with a   *)
(* follow button, or waits for the request it has posted.  Every query and *)
(* every save of a handler is an action of its own.                        *)
(***************************************************************************)
EXTENDS Naturals, FiniteSets

CONSTANTS
  FollowUsers,          \* rows of the users table
  Nobody,         \* the owner of a client that is not logged in (session[:user_id] is nil)
  UnknownNames,   \* values of params[:user_name] that name no user
  Clients,
  Owner,          \* Owner[c]: who is logged in at client c
  Scripted,       \* clients that post without having been shown the button
  FollowClashing,       \* users whose name or email another row has: User#save fails
  Blank,          \* a client that shows no button and waits for nothing
  MaxFollowRequests,    \* bound: requests posted
  MaxFollowAborts       \* bound: requests that die half-way

ASSUME FollowsAssumption ==
  /\ IsFiniteSet(FollowUsers)
  /\ Nobody \notin FollowUsers
  /\ FollowUsers \cap UnknownNames = {}
  /\ Owner \in [Clients -> FollowUsers \cup {Nobody}]
  /\ Scripted \subseteq Clients
  /\ FollowClashing \subseteq FollowUsers
  /\ MaxFollowRequests \in Nat
  /\ MaxFollowAborts \in Nat

VARIABLES
  follows,           \* rows of the follows table
  nextFollowId,            \* the id the next row gets
  following_count,   \* columns of the users table
  follower_count,
  client,            \* client[c]: the page c shows or the request it waits for
  followRequests,          \* number of requests posted
  followAborts,            \* number of requests that died half-way
  died,              \* history: users a request that died was about
  contended,         \* history: users two requests were about at the same time
  unoffered          \* history: users a POST that no page has offered was from or about

followVars == <<follows, nextFollowId, following_count, follower_count, client, followRequests,
          followAborts, died, contended, unoffered>>
followTables == <<follows, nextFollowId, following_count, follower_count>>
followHistory == <<followRequests, followAborts, died, contended, unoffered>>

FollowRow == [id : Nat, follower : FollowUsers, followed : FollowUsers]

\* kind is what the button of a page offers, or what the request does; seen and
\* mine are followed.follower_count and user.following_count as they were read;
\* rows holds the ids destroy_all has still to delete.
Client ==
  [at : {"page", "find", "validate", "insert", "select", "destroy", "load",
         "following", "followers"},
   kind : {"follow", "unfollow"}, followed : FollowUsers \cup UnknownNames,
   seen : Nat, mine : Nat, rows : SUBSET Nat]

ASSUME BlankAssumption == Blank \notin Client

FollowAt(c, step) == client[c] # Blank /\ client[c].at = step

\* The client waits for a request.
Waiting(c) == client[c] # Blank /\ client[c].at # "page"

FollowGoto(c, step) == client' = [client EXCEPT ![c].at = step]

\* The request of c at another step, with what it has read so far.
Continue(c, step, seen, mine, rows) ==
  client' = [client EXCEPT ![c] =
    [at |-> step, kind |-> client[c].kind, followed |-> client[c].followed,
     seen |-> seen, mine |-> mine, rows |-> rows]]

FollowDone(c) == client' = [client EXCEPT ![c] = Blank]

Rows(u, f) == {r \in follows : r.follower = u /\ r.followed = f}

FollowsInit ==
  /\ follows = {}
  /\ nextFollowId = 1
  /\ following_count = [u \in FollowUsers |-> 0]
  /\ follower_count = [u \in FollowUsers |-> 0]
  /\ client = [c \in Clients |-> Blank]
  /\ followRequests = 0
  /\ followAborts = 0
  /\ died = {}
  /\ contended = {}
  /\ unoffered = {}

(***************************************************************************)
(* The profile page and its button.                                        *)
(***************************************************************************)

\* GET /user/:user_name: only a known user's page, to a user who is logged in;
\* the button is left out of one's own page.
ViewProfile(c, f) ==
  /\ ~Waiting(c)
  /\ Owner[c] # Nobody
  /\ f # Owner[c]
  /\ client' = [client EXCEPT ![c] =
       [at |-> "page", kind |-> IF Rows(Owner[c], f) # {} THEN "unfollow" ELSE "follow",
        followed |-> f, seen |-> 0, mine |-> 0, rows |-> {}]]
  /\ UNCHANGED <<followTables, followHistory>>

Click(c) ==
  /\ FollowAt(c, "page")
  /\ followRequests < MaxFollowRequests
  /\ followRequests' = followRequests + 1
  /\ FollowGoto(c, "find")
  /\ UNCHANGED <<followTables, followAborts, died, contended, unoffered>>

\* A POST that no page has offered.
Post(c, kind, f) ==
  /\ c \in Scripted
  /\ client[c] = Blank
  /\ followRequests < MaxFollowRequests
  /\ followRequests' = followRequests + 1
  /\ client' = [client EXCEPT ![c] =
       [at |-> "find", kind |-> kind, followed |-> f, seen |-> 0, mine |-> 0, rows |-> {}]]
  /\ unoffered' = unoffered \cup ({Owner[c], f} \cap FollowUsers)
  /\ UNCHANGED <<followTables, followAborts, died, contended>>

(***************************************************************************)
(* The two handlers.  They differ between the first and the third query.   *)
(***************************************************************************)

\* followed = User.find_by_user_name(params[:user_name])
FindFollowed(c) ==
  /\ FollowAt(c, "find")
  /\ client[c].followed \in FollowUsers
  /\ Continue(c, IF client[c].kind = "follow" THEN "validate" ELSE "select",
              follower_count[client[c].followed], 0, {})
  /\ contended' = contended \cup
       {f \in {client[c].followed} : \E other \in Clients \ {c} :
          Waiting(other) /\ ~FollowAt(other, "find") /\ client[other].followed = f}
  /\ UNCHANGED <<followTables, followRequests, followAborts, died, unoffered>>

\* find_by_user_name returns nil; followed.id raises.
FollowedNotFound(c) ==
  /\ FollowAt(c, "find")
  /\ client[c].followed \notin FollowUsers
  /\ FollowDone(c)
  /\ UNCHANGED <<followTables, followHistory>>

\* Mutant: FollowValidator without the check for an existing row.
ValidateWithoutLookup(c) ==
  /\ FollowAt(c, "validate")
  /\ FollowGoto(c, IF Owner[c] \notin {Nobody, client[c].followed} THEN "insert" ELSE "load")
  /\ UNCHANGED <<followTables, followHistory>>

\* Mutant: the validations of follower and followed are missing.
ValidateAnybody(c) ==
  /\ FollowAt(c, "validate")
  /\ FollowGoto(c, IF Rows(Owner[c], client[c].followed) = {} THEN "insert" ELSE "load")
  /\ UNCHANGED <<followTables, followHistory>>

\* Follow.create, validation: a follower there is, who is not the followed, and
\* no such row yet.  A rejected follow is not noticed: the handler goes on.
ValidateFollow(c) ==
  /\ FollowAt(c, "validate")
  /\ FollowGoto(c, IF /\ Owner[c] \notin {Nobody, client[c].followed}
                /\ Rows(Owner[c], client[c].followed) = {}
             THEN "insert" ELSE "load")
  /\ UNCHANGED <<followTables, followHistory>>

\* Follow.create, the INSERT.
InsertFollow(c) ==
  /\ FollowAt(c, "insert")
  /\ follows' = follows \cup
       {[id |-> nextFollowId, follower |-> Owner[c], followed |-> client[c].followed]}
  /\ nextFollowId' = nextFollowId + 1
  /\ FollowGoto(c, "load")
  /\ UNCHANGED <<following_count, follower_count, followHistory>>

\* Follow.where(...).destroy_all, the SELECT.
SelectFollows(c) ==
  /\ FollowAt(c, "select")
  /\ LET ids == {r.id : r \in Rows(Owner[c], client[c].followed)}
     IN  Continue(c, IF ids = {} THEN "load" ELSE "destroy", client[c].seen, 0, ids)
  /\ UNCHANGED <<followTables, followHistory>>

\* Mutant: the row is deleted again and again.
DestroyAgain(c) ==
  /\ FollowAt(c, "destroy")
  /\ \E i \in client[c].rows : follows' = {r \in follows : r.id # i}
  /\ UNCHANGED <<nextFollowId, following_count, follower_count, client, followHistory>>

\* Mutant: the last row selected is left in the table.
DestroyAllButOne(c) ==
  /\ FollowAt(c, "destroy")
  /\ \E i \in client[c].rows :
       /\ follows' = {r \in follows : r.id # i \/ client[c].rows = {i}}
       /\ Continue(c, IF client[c].rows = {i} THEN "load" ELSE "destroy",
                   client[c].seen, 0, client[c].rows \ {i})
  /\ UNCHANGED <<nextFollowId, following_count, follower_count, followHistory>>

\* Follow.where(...).destroy_all: one DELETE by id for each row selected.
DestroyFollow(c) ==
  /\ FollowAt(c, "destroy")
  /\ \E i \in client[c].rows :
       /\ follows' = {r \in follows : r.id # i}
       /\ Continue(c, IF client[c].rows = {i} THEN "load" ELSE "destroy",
                   client[c].seen, 0, client[c].rows \ {i})
  /\ UNCHANGED <<nextFollowId, following_count, follower_count, followHistory>>

\* user = User.find(session[:user_id])
LoadUser(c) ==
  /\ FollowAt(c, "load")
  /\ Owner[c] # Nobody
  /\ Continue(c, "following", client[c].seen, following_count[Owner[c]], {})
  /\ UNCHANGED <<followTables, followHistory>>

\* User.find(nil) raises RecordNotFound.
NotLoggedIn(c) ==
  /\ FollowAt(c, "load")
  /\ Owner[c] = Nobody
  /\ FollowDone(c)
  /\ UNCHANGED <<followTables, followHistory>>

\* increment_xs and decrement_xs of the User model: the value a record was read
\* with becomes one more, or one less and never negative.
Adjusted(kind, read) ==
  IF kind = "follow" THEN read + 1 ELSE IF read > 0 THEN read - 1 ELSE read

\* self.save: the UPDATE of one column, or nothing when the validation fails.
SavedColumn(column, u, value) ==
  [column EXCEPT ![u] = IF u \in FollowClashing THEN @ ELSE value]

\* Mutant: the two records are swapped, followed.increment_followings.
SaveFollowingSwapped(c) ==
  /\ FollowAt(c, "following")
  /\ following_count' =
       SavedColumn(following_count, client[c].followed, Adjusted(client[c].kind, client[c].mine))
  /\ FollowGoto(c, "followers")
  /\ UNCHANGED <<follows, nextFollowId, follower_count, followHistory>>

\* user.increment_followings or user.decrement_followings
SaveFollowing(c) ==
  /\ FollowAt(c, "following")
  /\ following_count' =
       SavedColumn(following_count, Owner[c], Adjusted(client[c].kind, client[c].mine))
  /\ FollowGoto(c, "followers")
  /\ UNCHANGED <<follows, nextFollowId, follower_count, followHistory>>

\* Mutant: decrement_followers does nothing.
SaveNeverDecrements(c) ==
  /\ FollowAt(c, "followers")
  /\ follower_count' = SavedColumn(follower_count, client[c].followed,
                             Adjusted("follow", client[c].seen))
  /\ FollowDone(c)
  /\ UNCHANGED <<follows, nextFollowId, following_count, followHistory>>

\* followed.increment_followers or followed.decrement_followers
SaveFollowers(c) ==
  /\ FollowAt(c, "followers")
  /\ follower_count' = SavedColumn(follower_count, client[c].followed,
                             Adjusted(client[c].kind, client[c].seen))
  /\ FollowDone(c)
  /\ UNCHANGED <<follows, nextFollowId, following_count, followHistory>>

\* A call raises or the process is restarted; what has been saved stays.
FollowAbort(c) ==
  /\ Waiting(c)
  /\ followAborts < MaxFollowAborts
  /\ followAborts' = followAborts + 1
  /\ died' = died \cup ({Owner[c], client[c].followed} \cap FollowUsers)
  /\ FollowDone(c)
  /\ UNCHANGED <<followTables, followRequests, contended, unoffered>>

FollowStep(c) ==
  \/ FindFollowed(c)
  \/ FollowedNotFound(c)
  \/ ValidateFollow(c)
  \/ InsertFollow(c)
  \/ SelectFollows(c)
  \/ DestroyFollow(c)
  \/ LoadUser(c)
  \/ NotLoggedIn(c)
  \/ SaveFollowing(c)
  \/ SaveFollowers(c)

FollowsNext ==
  \E c \in Clients :
    \/ \E f \in FollowUsers : ViewProfile(c, f)
    \/ Click(c)
    \/ \E kind \in {"follow", "unfollow"}, f \in FollowUsers \cup UnknownNames : Post(c, kind, f)
    \/ FollowStep(c)
    \/ FollowAbort(c)

FollowsSpec == FollowsInit /\ [][FollowsNext]_followVars

\* Every query returns or raises, and no thread of the server is starved.
FollowsFairSpec == FollowsSpec /\ \A c \in Clients : WF_followVars(FollowStep(c))

(***************************************************************************)
(* Properties.                                                             *)
(***************************************************************************)

\* Type invariant of the follows and users tables and of the clients of the
\* follow handlers.
FollowsTypeOK ==
  /\ follows \subseteq FollowRow
  /\ nextFollowId \in Nat \ {0}
  /\ \A r \in follows : r.id < nextFollowId
  /\ following_count \in [FollowUsers -> Nat]
  /\ follower_count \in [FollowUsers -> Nat]
  /\ client \in [Clients -> Client \cup {Blank}]
  /\ \A c \in Clients : Waiting(c) /\ ~FollowAt(c, "find") => client[c].followed \in FollowUsers
  /\ \A c \in Clients : FollowAt(c, "insert") => Owner[c] # Nobody
  /\ \A c \in Clients : FollowAt(c, "following") => Owner[c] # Nobody
  /\ followRequests \in Nat
  /\ followAborts \in Nat
  /\ died \subseteq FollowUsers
  /\ contended \subseteq FollowUsers
  /\ unoffered \subseteq FollowUsers

\* FollowValidator: "Prevents duplicate follows".  No two rows of the follows
\* table are for the same pair of users, nor is a row for a user and
\* themselves.
NoDuplicateFollows ==
  \A r, s \in follows :
    /\ r.follower # r.followed
    /\ r.follower = s.follower /\ r.followed = s.followed => r = s

\* A follow or unfollow request that has come to the counters has had its
\* effect on the follows table, and no other request has undone it since: the
\* row is there after Follow.create, and is gone after destroy_all.
TookEffect ==
  \A c \in Clients :
    (FollowAt(c, "load") \/ FollowAt(c, "following") \/ FollowAt(c, "followers"))
      /\ Owner[c] \notin {Nobody, client[c].followed} =>
        (Rows(Owner[c], client[c].followed) # {} <=> client[c].kind = "follow")

(***************************************************************************)
(* The inductive invariant behind NoDuplicateFollows and TookEffect, for   *)
(* clients of different users.                                             *)
(***************************************************************************)
OwnersDistinct ==
  \A a, b \in Clients : a # b /\ Owner[a] = Owner[b] => Owner[a] = Nobody

IdsUnique == \A r, s \in follows : r.id = s.id => r = s

KindFits ==
  \A c \in Clients :
    /\ FollowAt(c, "validate") \/ FollowAt(c, "insert") => client[c].kind = "follow"
    /\ FollowAt(c, "select") \/ FollowAt(c, "destroy") => client[c].kind = "unfollow"

\* What ValidateFollow established still holds at the INSERT.
InsertIsNew ==
  \A c \in Clients :
    FollowAt(c, "insert") => /\ Owner[c] # client[c].followed
                       /\ Rows(Owner[c], client[c].followed) = {}

\* destroy_all deletes rows of its own pair only, and all of them.
DestroyFits ==
  \A c \in Clients : FollowAt(c, "destroy") =>
    /\ \A i \in client[c].rows : i < nextFollowId
    /\ \A r \in follows :
         r.id \in client[c].rows <=> r.follower = Owner[c] /\ r.followed = client[c].followed

EffectInv ==
  IdsUnique /\ NoDuplicateFollows /\ KindFits /\ InsertIsNew /\ DestroyFits /\ TookEffect

\* following_count is the number of users one follows, whenever none of one's
\* requests is in flight or has died, all were made with the button and one's
\* record can be saved: the requests of others, which save other columns of
\* the same row, never disturb it.
FollowingCountExact ==
  \A u \in FollowUsers \ (died \cup FollowClashing \cup unoffered) :
    (\A c \in Clients : Owner[c] = u => ~Waiting(c)) =>
      following_count[u] = Cardinality({r \in follows : r.follower = u})

\* follower_count is the number of followers, for a user no request is about
\* now, no two requests have been about at the same time, who is followed and
\* unfollowed with the button only and whose record can be saved.
FollowerCountExactAlone ==
  \A f \in FollowUsers \ (died \cup FollowClashing \cup contended \cup unoffered) :
    (\A c \in Clients : Waiting(c) => client[c].followed # f) =>
      follower_count[f] = Cardinality({r \in follows : r.followed = f})

\* Both counters are what they count, for the users above.
FollowCountsExact == FollowingCountExact /\ FollowerCountExactAlone

(***************************************************************************)
(* The inductive invariant behind FollowCountsExact: what a counter still  *)
(* owes the request that has changed the table and not yet the counter.    *)
(***************************************************************************)

\* A request, or a page, that the history unoffered does not tell from one that
\* came with the button.
Offered(c) ==
  client[c] # Blank /\ \E u \in FollowUsers \ unoffered : u = Owner[c] \/ u = client[c].followed

\* The button is right about the table until the request changes it.
ButtonRight(c) ==
  /\ Owner[c] # Nobody
  /\ client[c].followed \in FollowUsers \ {Owner[c]}
  /\ client[c].at \in {"page", "find", "validate", "select"} =>
       (client[c].kind = "unfollow" <=> Rows(Owner[c], client[c].followed) # {})

\* destroy_all has the one row of its pair to delete.
DestroysOne(c) ==
  FollowAt(c, "destroy") =>
    \E r \in Rows(Owner[c], client[c].followed) : client[c].rows = {r.id}

Owing(count, n, kind) == IF kind = "follow" THEN count + 1 = n ELSE count = n + 1

FollowingRight(c) ==
  LET count == following_count[Owner[c]]
      n == Cardinality({r \in follows : r.follower = Owner[c]})
  IN  IF FollowAt(c, "load") \/ FollowAt(c, "following")
      THEN Owing(count, n, client[c].kind) /\ (FollowAt(c, "following") => client[c].mine = count)
      ELSE count = n

\* The requests about f that have read the row of f.
About(f) == {c \in Clients : Waiting(c) /\ ~FollowAt(c, "find") /\ client[c].followed = f}

FollowerRight(f) ==
  LET n == Cardinality({r \in follows : r.followed = f})
  IN  /\ \A c, d \in About(f) : c = d
      /\ About(f) = {} => follower_count[f] = n
      /\ \A c \in About(f) :
           /\ client[c].seen = follower_count[f]
           /\ IF client[c].at \in {"load", "following", "followers"}
              THEN Owing(follower_count[f], n, client[c].kind)
              ELSE follower_count[f] = n

CountInv ==
  /\ IsFiniteSet(follows)
  /\ \A c \in Clients :
       /\ Offered(c) => ButtonRight(c)
       /\ DestroysOne(c)
       /\ Owner[c] \in FollowUsers \ (died \cup FollowClashing \cup unoffered) => FollowingRight(c)
  /\ \A f \in FollowUsers \ (died \cup FollowClashing \cup contended \cup unoffered) : FollowerRight(f)
  /\ FollowCountsExact

\* Every follow and unfollow request is answered.
RequestAnswered ==
  \A c \in Clients : Waiting(c) ~> ~Waiting(c)

FollowsQuiet == \A c \in Clients : ~Waiting(c)

\* The client's info command "returns the number of tweets, followers and
\* followings of a certain user": when no request is in flight and none died,
\* following_count is the number of users followed.
FollowingCountTrue ==
  FollowsQuiet /\ followAborts = 0 =>
    \A u \in FollowUsers : following_count[u] = Cardinality({r \in follows : r.follower = u})
=============================================================================
