--------------------------- MODULE FollowsProofs ---------------------------
(***************************************************************************)
(* Proofs about Follows, for any users, clients and bounds.                *)
(***************************************************************************)
EXTENDS Follows, FiniteSetTheorems, TLAPS

\* The client SelectFollows leaves.
LEMMA SelectedClient ==
  ASSUME NEW k \in Client, NEW at \in {"load", "destroy"}, NEW ids \in SUBSET Nat
  PROVE  [at |-> at, kind |-> k.kind, followed |-> k.followed, seen |-> k.seen,
          mine |-> 0, rows |-> ids] \in Client
  BY DEF Client

\* The tables and the clients keep their types in every interleaving of the
\* follow handlers: a visitor without a session is never inserted as a
\* follower, and no counter becomes negative.
THEOREM TypeCorrect == FollowsSpec => []FollowsTypeOK
<1> USE FollowsAssumption, BlankAssumption
<1>1. FollowsInit => FollowsTypeOK
  BY DEF FollowsInit, FollowsTypeOK, Waiting, FollowAt
<1>2. FollowsTypeOK /\ [FollowsNext]_followVars => FollowsTypeOK'
  <2> SUFFICES ASSUME FollowsTypeOK, [FollowsNext]_followVars PROVE FollowsTypeOK'
    OBVIOUS
  <2> USE DEF FollowsTypeOK, Waiting, FollowAt
  <2>1. ASSUME NEW c \in Clients, NEW f \in FollowUsers, ViewProfile(c, f) PROVE FollowsTypeOK'
    BY <2>1 DEF ViewProfile, Client, followTables, followHistory
  <2>2. ASSUME NEW c \in Clients, Click(c) PROVE FollowsTypeOK'
    BY <2>2 DEF Click, FollowGoto, Client, followTables, followHistory
  <2>3. ASSUME NEW c \in Clients, NEW kind \in {"follow", "unfollow"},
               NEW f \in FollowUsers \cup UnknownNames, Post(c, kind, f)
        PROVE  FollowsTypeOK'
    BY <2>3 DEF Post, Client, followTables, followHistory
  <2>4. ASSUME NEW c \in Clients, FindFollowed(c) PROVE FollowsTypeOK'
    <3>1. contended' \subseteq FollowUsers
      BY <2>4 DEF FindFollowed
    <3>2. QED
      BY <2>4, <3>1 DEF FindFollowed, Continue, Client, followTables
  <2>5. ASSUME NEW c \in Clients, FollowedNotFound(c) PROVE FollowsTypeOK'
    BY <2>5 DEF FollowedNotFound, FollowDone, followTables, followHistory
  <2>6. ASSUME NEW c \in Clients, ValidateFollow(c) PROVE FollowsTypeOK'
    BY <2>6 DEF ValidateFollow, FollowGoto, Client, followTables, followHistory
  <2>7. ASSUME NEW c \in Clients, InsertFollow(c) PROVE FollowsTypeOK'
    <3> DEFINE row == [id |-> nextFollowId, follower |-> Owner[c], followed |-> client[c].followed]
    <3>1. row \in FollowRow /\ row.id = nextFollowId
      BY <2>7 DEF InsertFollow, FollowRow
    <3>2. follows' = follows \cup {row} /\ nextFollowId' = nextFollowId + 1
      BY <2>7 DEF InsertFollow
    <3>3. follows' \subseteq FollowRow /\ \A r \in follows' : r.id < nextFollowId'
      <4> HIDE DEF row
      <4>1. \A r \in follows : r.id \in Nat
        BY DEF FollowRow
      <4>2. QED
        BY <3>1, <3>2, <4>1
    <3>4. QED
      BY <2>7, <3>2, <3>3 DEF InsertFollow, FollowGoto, Client, followHistory
  <2>8. ASSUME NEW c \in Clients, SelectFollows(c) PROVE FollowsTypeOK'
    <3>1. PICK ids \in SUBSET Nat :
            Continue(c, IF ids = {} THEN "load" ELSE "destroy", client[c].seen, 0, ids)
      <4>1. {r.id : r \in Rows(Owner[c], client[c].followed)} \in SUBSET Nat
        BY DEF Rows, FollowRow
      <4>2. WITNESS {r.id : r \in Rows(Owner[c], client[c].followed)} \in SUBSET Nat
      <4>3. QED
        BY <2>8 DEF SelectFollows
    <3>2. client[c] \in Client
      BY <2>8 DEF SelectFollows
    <3>3. PICK at \in {"load", "destroy"} : Continue(c, at, client[c].seen, 0, ids)
      BY <3>1
    <3>4. PICK new \in Client :
            /\ client' = [client EXCEPT ![c] = new]
            /\ new.at = at
            /\ new.followed = client[c].followed
      BY <3>2, <3>3, SelectedClient, ZenonT(30) DEF Continue
    <3>5. QED
      BY <2>8, <3>2, <3>3, <3>4 DEF SelectFollows, followTables, followHistory
  <2>9. ASSUME NEW c \in Clients, DestroyFollow(c) PROVE FollowsTypeOK'
    <3>1. PICK i \in client[c].rows :
            /\ follows' = {r \in follows : r.id # i}
            /\ Continue(c, IF client[c].rows = {i} THEN "load" ELSE "destroy",
                        client[c].seen, 0, client[c].rows \ {i})
      BY <2>9 DEF DestroyFollow
    <3>2. QED
      BY <2>9, <3>1 DEF DestroyFollow, Continue, Client, followHistory
  <2>10. ASSUME NEW c \in Clients, LoadUser(c) PROVE FollowsTypeOK'
    BY <2>10 DEF LoadUser, Continue, Client, followTables, followHistory
  <2>11. ASSUME NEW c \in Clients, NotLoggedIn(c) PROVE FollowsTypeOK'
    BY <2>11 DEF NotLoggedIn, FollowDone, followTables, followHistory
  <2>12. ASSUME NEW c \in Clients, SaveFollowing(c) PROVE FollowsTypeOK'
    BY <2>12 DEF SaveFollowing, SavedColumn, Adjusted, FollowGoto, Client, followTables,
       followHistory
  <2>13. ASSUME NEW c \in Clients, SaveFollowers(c) PROVE FollowsTypeOK'
    BY <2>13 DEF SaveFollowers, SavedColumn, Adjusted, FollowDone, Client, followTables,
       followHistory
  <2>14. ASSUME NEW c \in Clients, FollowAbort(c) PROVE FollowsTypeOK'
    BY <2>14 DEF FollowAbort, FollowDone, followTables, followHistory
  <2>15. CASE UNCHANGED followVars
    BY <2>15 DEF followVars
  <2>16. QED
    BY <2>1, <2>2, <2>3, <2>4, <2>5, <2>6, <2>7, <2>8, <2>9, <2>10, <2>11, <2>12,
       <2>13, <2>14, <2>15 DEF FollowsNext, FollowStep
<1>3. QED
  BY <1>1, <1>2, PTL DEF FollowsSpec

-----------------------------------------------------------------------------

\* Follow rows stay unique, and a request finds the follows table as it left
\* it, for any number of clients that belong to different users.
THEOREM EffectInvariant ==
  ASSUME OwnersDistinct
  PROVE  FollowsSpec => []EffectInv
<1> USE FollowsAssumption, BlankAssumption DEF EffectInv
<1>1. FollowsInit => EffectInv
  BY DEF FollowsInit, IdsUnique, NoDuplicateFollows, KindFits, InsertIsNew, DestroyFits,
     TookEffect, FollowAt
<1>2. FollowsTypeOK /\ EffectInv /\ [FollowsNext]_followVars => EffectInv'
  <2> SUFFICES ASSUME FollowsTypeOK, EffectInv, [FollowsNext]_followVars PROVE EffectInv'
    OBVIOUS
  <2> DEFINE AtCounters(c) == FollowAt(c, "load") \/ FollowAt(c, "following") \/ FollowAt(c, "followers")
  \* A step that moves one client and no row keeps what is said of the others.
  <2>a. ASSUME UNCHANGED <<follows, nextFollowId>>, NEW c \in Clients,
               \A d \in Clients : d # c => client'[d] = client[d],
               FollowAt(c, "validate")' \/ FollowAt(c, "insert")' => client'[c].kind = "follow",
               FollowAt(c, "select")' \/ FollowAt(c, "destroy")' => client'[c].kind = "unfollow",
               FollowAt(c, "insert")' => /\ Owner[c] # client'[c].followed
                                   /\ Rows(Owner[c], client'[c].followed) = {},
               FollowAt(c, "destroy")' =>
                 /\ \A i \in client'[c].rows : i < nextFollowId
                 /\ \A r \in follows :
                      r.id \in client'[c].rows <=>
                        r.follower = Owner[c] /\ r.followed = client'[c].followed,
               AtCounters(c)' /\ Owner[c] \notin {Nobody, client'[c].followed} =>
                 (Rows(Owner[c], client'[c].followed) # {} <=> client'[c].kind = "follow")
        PROVE  EffectInv'
    BY <2>a DEF IdsUnique, NoDuplicateFollows, KindFits, InsertIsNew, DestroyFits, TookEffect,
       FollowAt, Rows
  <2>1. ASSUME NEW c \in Clients, NEW f \in FollowUsers, ViewProfile(c, f) PROVE EffectInv'
    BY <2>1, <2>a DEF ViewProfile, FollowsTypeOK, FollowAt, followTables
  <2>2. ASSUME NEW c \in Clients, Click(c) PROVE EffectInv'
    BY <2>2, <2>a DEF Click, FollowGoto, FollowsTypeOK, Client, FollowAt, followTables
  <2>3. ASSUME NEW c \in Clients, NEW kind \in {"follow", "unfollow"},
               NEW f \in FollowUsers \cup UnknownNames, Post(c, kind, f)
        PROVE  EffectInv'
    BY <2>3, <2>a DEF Post, FollowsTypeOK, FollowAt, followTables
  <2>4. ASSUME NEW c \in Clients, FindFollowed(c) PROVE EffectInv'
    <3>1. PICK step \in {"validate", "select"} :
               /\ Continue(c, step, follower_count[client[c].followed], 0, {})
               /\ step = IF client[c].kind = "follow" THEN "validate" ELSE "select"
      BY <2>4 DEF FindFollowed
    <3>2. PICK q : q = [at |-> step, kind |-> client[c].kind, followed |-> client[c].followed,
                        seen |-> follower_count[client[c].followed], mine |-> 0, rows |-> {}]
      OBVIOUS
    <3>3. client' = [client EXCEPT ![c] = q]
      BY <3>1, <3>2 DEF Continue
    <3>4. /\ client'[c] = q /\ q.kind \in {"follow", "unfollow"}
          /\ q.at = IF q.kind = "follow" THEN "validate" ELSE "select"
      BY <2>4, <3>1, <3>2, <3>3 DEF FindFollowed, FollowsTypeOK, Client, FollowAt
    <3>5. UNCHANGED <<follows, nextFollowId>> /\ \A d \in Clients : d # c => client'[d] = client[d]
      BY <2>4, <3>3 DEF FindFollowed, FollowsTypeOK, followTables
    <3>6. QED
      BY <2>a, <3>4, <3>5 DEF FollowAt, AtCounters
  <2>5. ASSUME NEW c \in Clients, FollowedNotFound(c) PROVE EffectInv'
    BY <2>5, <2>a DEF FollowedNotFound, FollowDone, FollowsTypeOK, FollowAt, followTables
  <2>6. ASSUME NEW c \in Clients, ValidateFollow(c) PROVE EffectInv'
    BY <2>6, <2>a, ZenonT(30) DEF ValidateFollow, FollowGoto, KindFits, FollowsTypeOK, Client,
       FollowAt, followTables
  <2>8. ASSUME NEW c \in Clients, SelectFollows(c) PROVE EffectInv'
    <3>1. PICK ids : /\ ids = {r.id : r \in Rows(Owner[c], client[c].followed)}
                     /\ Continue(c, IF ids = {} THEN "load" ELSE "destroy",
                                 client[c].seen, 0, ids)
      BY <2>8 DEF SelectFollows
    <3>2. /\ client[c] \in Client
          /\ client[c].kind = "unfollow"
          /\ UNCHANGED <<follows, nextFollowId>>
      BY <2>8 DEF SelectFollows, KindFits, FollowsTypeOK, FollowAt, followTables
    <3>3. \A d \in Clients : d # c => client'[d] = client[d]
      BY <3>1 DEF Continue, FollowsTypeOK
    <3>4. /\ client'[c] # Blank
          /\ client'[c].at = IF ids = {} THEN "load" ELSE "destroy"
          /\ client'[c].kind = "unfollow"
          /\ client'[c].followed = client[c].followed
          /\ client'[c].rows = ids
      <4>1. ids \in SUBSET Nat
        BY <3>1 DEF Rows, FollowsTypeOK, FollowRow
      <4>2. PICK at \in {"load", "destroy"} :
              /\ at = IF ids = {} THEN "load" ELSE "destroy"
              /\ Continue(c, at, client[c].seen, 0, ids)
        BY <3>1
      <4>3. QED
        BY <3>2, <4>1, <4>2, SelectedClient DEF Continue, FollowsTypeOK
    <3>5. \A i \in ids : i < nextFollowId
      BY <3>1 DEF Rows, FollowsTypeOK
    <3>6. \A r \in follows : r.id \in ids <=> r.follower = Owner[c] /\ r.followed = client[c].followed
      BY <3>1 DEF Rows, IdsUnique
    <3>7. Rows(Owner[c], client[c].followed) = {} <=> ids = {}
      BY <3>1, SMTT(30)
    <3>8. QED
      BY <2>a, <3>2, <3>3, <3>4, <3>5, <3>6, <3>7 DEF FollowAt
  <2>10. ASSUME NEW c \in Clients, LoadUser(c) PROVE EffectInv'
    BY <2>10, <2>a, ZenonT(30) DEF LoadUser, Continue, TookEffect, FollowsTypeOK, Client,
       FollowAt, followTables
  <2>11. ASSUME NEW c \in Clients, NotLoggedIn(c) PROVE EffectInv'
    BY <2>11, <2>a DEF NotLoggedIn, FollowDone, FollowsTypeOK, FollowAt, followTables
  <2>12. ASSUME NEW c \in Clients, SaveFollowing(c) PROVE EffectInv'
    <3>1. /\ client[c] \in Client
          /\ FollowAt(c, "following")
          /\ client' = [client EXCEPT ![c].at = "followers"]
          /\ UNCHANGED <<follows, nextFollowId>>
      BY <2>12 DEF SaveFollowing, FollowGoto, FollowsTypeOK, FollowAt
    <3>2. \A d \in Clients : d # c => client'[d] = client[d]
      BY <3>1 DEF FollowsTypeOK
    <3>3. /\ client'[c].at = "followers"
          /\ client'[c].kind = client[c].kind
          /\ client'[c].followed = client[c].followed
      BY <3>1 DEF FollowsTypeOK, Client
    <3>4. Owner[c] \notin {Nobody, client[c].followed} =>
            (Rows(Owner[c], client[c].followed) # {} <=> client[c].kind = "follow")
      BY <3>1 DEF TookEffect
    <3>5. QED
      BY <2>a, <3>1, <3>2, <3>3, <3>4 DEF FollowAt
  <2>13. ASSUME NEW c \in Clients, SaveFollowers(c) PROVE EffectInv'
    BY <2>13, <2>a DEF SaveFollowers, FollowDone, FollowsTypeOK, FollowAt
  <2>14. ASSUME NEW c \in Clients, FollowAbort(c) PROVE EffectInv'
    BY <2>14, <2>a DEF FollowAbort, FollowDone, FollowsTypeOK, FollowAt, followTables
  <2>15. CASE UNCHANGED followVars
    BY <2>15, SMTT(30) DEF followVars, IdsUnique, NoDuplicateFollows, KindFits, InsertIsNew,
       DestroyFits, TookEffect, FollowAt, Rows
  <2>7. ASSUME NEW c \in Clients, InsertFollow(c) PROVE EffectInv'
    <3>1. PICK row \in FollowRow :
            /\ row.id = nextFollowId
            /\ row.follower = Owner[c]
            /\ row.followed = client[c].followed
            /\ follows' = follows \cup {row}
      BY <2>7 DEF InsertFollow, FollowsTypeOK, Waiting, FollowAt, FollowRow
    <3>2. nextFollowId' = nextFollowId + 1
      BY <2>7 DEF InsertFollow
    <3>3. client' = [client EXCEPT ![c].at = "load"]
      BY <2>7 DEF InsertFollow, FollowGoto
    <3>4. Owner[c] # Nobody
      BY <2>7 DEF InsertFollow, FollowsTypeOK
    <3>5. IdsUnique' /\ NoDuplicateFollows'
      <4>1. IdsUnique'
        BY <3>1 DEF IdsUnique, FollowsTypeOK, FollowRow
      <4>2. NoDuplicateFollows'
        BY <2>7, <3>1 DEF InsertFollow, NoDuplicateFollows, InsertIsNew, Rows
      <4>3. QED
        BY <4>1, <4>2
    <3>6. KindFits'
      BY <3>3 DEF KindFits, FollowsTypeOK, Client, FollowAt
    <3>7. InsertIsNew'
      BY <3>1, <3>3, <3>4, OwnersDistinct DEF OwnersDistinct, InsertIsNew, Rows, FollowsTypeOK,
         Client, FollowAt
    <3>8. DestroyFits'
      BY <3>1, <3>2, <3>3, <3>4, OwnersDistinct
         DEF OwnersDistinct, DestroyFits, FollowsTypeOK, Client, FollowRow, FollowAt
    <3>9. TookEffect'
      BY <2>7, <3>1, <3>3, <3>4, OwnersDistinct
         DEF InsertFollow, OwnersDistinct, TookEffect, KindFits, Rows, FollowsTypeOK, Client,
         FollowAt
    <3>10. QED
      BY <3>5, <3>6, <3>7, <3>8, <3>9
  <2>9. ASSUME NEW c \in Clients, DestroyFollow(c) PROVE EffectInv'
    <3>1. PICK i \in client[c].rows :
            /\ follows' = {r \in follows : r.id # i}
            /\ Continue(c, IF client[c].rows = {i} THEN "load" ELSE "destroy",
                        client[c].seen, 0, client[c].rows \ {i})
      BY <2>9 DEF DestroyFollow
    <3>2. \A r \in follows : r.id = i => r.follower = Owner[c] /\ r.followed = client[c].followed
      BY <2>9 DEF DestroyFollow, DestroyFits
    <3>3. DestroyFits /\ client[c].kind = "unfollow" /\ client[c] \in Client
      BY <2>9 DEF DestroyFollow, KindFits, FollowsTypeOK, FollowAt
    <3>4. \A d \in Clients : d # c => client'[d] = client[d]
      BY <3>1 DEF Continue, FollowsTypeOK
    <3>5. /\ client'[c] # Blank
          /\ client'[c].at = IF client[c].rows = {i} THEN "load" ELSE "destroy"
          /\ client'[c].kind = "unfollow"
          /\ client'[c].followed = client[c].followed
          /\ client'[c].rows = client[c].rows \ {i}
      BY <3>1, <3>3 DEF Continue, FollowsTypeOK, Client
    <3>6. IdsUnique' /\ NoDuplicateFollows'
      BY <3>1 DEF IdsUnique, NoDuplicateFollows
    <3>7. KindFits'
      BY <3>4, <3>5, SMTT(30) DEF KindFits, FollowAt
    <3>8. InsertIsNew'
      BY <3>1, <3>4, <3>5, SMTT(30) DEF InsertIsNew, Rows, FollowAt
    <3>9. DestroyFits'
      <4>1. nextFollowId' = nextFollowId /\ FollowAt(c, "destroy")
        BY <2>9 DEF DestroyFollow
      <4>2. ASSUME NEW d \in Clients, client'[d] # Blank, client'[d].at = "destroy"
            PROVE  /\ \A k \in client'[d].rows : k < nextFollowId
                   /\ \A r \in follows' : r.id \in client'[d].rows <=>
                        r.follower = Owner[d] /\ r.followed = client'[d].followed
        <5>1. CASE d = c
          BY <3>1, <3>3, <3>5, <4>1, <5>1 DEF DestroyFits
        <5>2. CASE d # c
          BY <3>1, <3>3, <3>4, <4>2, <5>2 DEF DestroyFits, FollowAt
        <5>3. QED
          BY <5>1, <5>2
      <4>3. QED
        BY <4>1, <4>2 DEF DestroyFits, FollowAt
    <3>10. TookEffect'
      <4>1. ASSUME NEW d \in Clients, AtCounters(d)',
                   Owner[d] \notin {Nobody, client'[d].followed}
            PROVE  Rows(Owner[d], client[d].followed)' # {} <=> client'[d].kind = "follow"
        <5>1. CASE d = c
          <6>1. client[c].rows = {i}
            BY <3>5, <4>1, <5>1 DEF FollowAt
          <6>2. \A r \in follows' : ~(r.follower = Owner[c] /\ r.followed = client[c].followed)
            BY <2>9, <3>1, <6>1 DEF DestroyFollow, DestroyFits
          <6>3. Rows(Owner[c], client[c].followed)' = {}
            BY <3>5, <6>2 DEF Rows
          <6>4. QED
            BY <3>5, <5>1, <6>3
        <5>2. CASE d # c
          <6>1. Owner[d] # Owner[c]
            BY <4>1, <5>2, OwnersDistinct DEF OwnersDistinct
          <6>2. PICK f : f = client[d].followed
            OBVIOUS
          <6>3. {r \in follows' : r.follower = Owner[d] /\ r.followed = f}
                  = {r \in follows : r.follower = Owner[d] /\ r.followed = f}
            BY <3>1, <3>2, <6>1
          <6>4. client'[d] = client[d]
            BY <3>4, <5>2
          <6>5. QED
            BY <4>1, <6>2, <6>3, <6>4 DEF TookEffect, Rows, FollowAt
        <5>3. QED
          BY <5>1, <5>2
      <4>2. QED
        BY <4>1 DEF TookEffect
    <3>11. QED
      BY <3>6, <3>7, <3>8, <3>9, <3>10
  <2>16. QED
    BY <2>1, <2>2, <2>3, <2>4, <2>5, <2>6, <2>7, <2>8, <2>9, <2>10, <2>11, <2>12,
       <2>13, <2>14, <2>15 DEF FollowsNext, FollowStep
<1>3. QED
  BY <1>1, <1>2, TypeCorrect, PTL DEF FollowsSpec

\* FollowValidator keeps duplicates out of the follows table as long as no
\* user has two clients: the row it looked for cannot appear before the INSERT.
THEOREM NoDuplicates ==
  ASSUME OwnersDistinct
  PROVE  FollowsSpec => []NoDuplicateFollows
  BY EffectInvariant, PTL DEF EffectInv

\* POST /user/follow and POST /user/unfollow adjust the counters only once the
\* follows table is as the request wants it, and it stays so until they are
\* saved.
THEOREM RequestsTakeEffect ==
  ASSUME OwnersDistinct
  PROVE  FollowsSpec => []TookEffect
  BY EffectInvariant, PTL DEF EffectInv
-----------------------------------------------------------------------------
(***************************************************************************)
(* CountInv is inductive, for clients of different users.                  *)
(***************************************************************************)

RowsBy(F, u) == {x \in F : x.follower = u}
RowsOn(F, u) == {x \in F : x.followed = u}

\* A row more counts for its follower and for its followed.
LEMMA RowAdded ==
  ASSUME NEW F, NEW r, NEW u, IsFiniteSet(F), r \notin F
  PROVE  /\ Cardinality(RowsBy(F, u)) \in Nat
         /\ Cardinality(RowsOn(F, u)) \in Nat
         /\ r.follower = u => Cardinality(RowsBy(F \cup {r}, u)) = Cardinality(RowsBy(F, u)) + 1
         /\ r.followed = u => Cardinality(RowsOn(F \cup {r}, u)) = Cardinality(RowsOn(F, u)) + 1
<1>1. IsFiniteSet(RowsBy(F, u)) /\ IsFiniteSet(RowsOn(F, u))
  BY FS_Subset DEF RowsBy, RowsOn
<1>2. r \notin RowsBy(F, u) /\ r \notin RowsOn(F, u)
  BY DEF RowsBy, RowsOn
<1>3. /\ r.follower = u => RowsBy(F \cup {r}, u) = RowsBy(F, u) \cup {r}
      /\ r.followed = u => RowsOn(F \cup {r}, u) = RowsOn(F, u) \cup {r}
  BY DEF RowsBy, RowsOn
<1>4. Cardinality(RowsBy(F, u)) \in Nat /\ Cardinality(RowsOn(F, u)) \in Nat
  BY <1>1, FS_CardinalityType
<1>5. /\ Cardinality(RowsBy(F, u) \cup {r}) = Cardinality(RowsBy(F, u)) + 1
      /\ Cardinality(RowsOn(F, u) \cup {r}) = Cardinality(RowsOn(F, u)) + 1
  BY <1>1, <1>2, FS_AddElement
<1>6. QED
  BY <1>3, <1>4, <1>5

\* What the INSERT and the DELETE do to the rows of a follower and of a followed.
LEMMA RowsCounted ==
  ASSUME NEW F, NEW G, NEW r, NEW u, NEW kind, IsFiniteSet(F),
         \/ kind = "follow" /\ r \notin F /\ G = F \cup {r}
         \/ kind = "unfollow" /\ r \in F /\ G = F \ {r}
  PROVE  /\ IsFiniteSet(G)
         /\ r.follower = u => Owing(Cardinality(RowsBy(F, u)), Cardinality(RowsBy(G, u)), kind)
         /\ r.followed = u => Owing(Cardinality(RowsOn(F, u)), Cardinality(RowsOn(G, u)), kind)
<1>1. CASE kind = "follow"
  <2>1. r \notin F /\ G = F \cup {r}
    BY <1>1
  <2>2. IsFiniteSet(G)
    BY <2>1, FS_AddElement
  <2>3. QED
    <3>1. r \notin F /\ IsFiniteSet(F)
      BY <2>1, <2>2
    <3>2. /\ r.follower = u =>
               Cardinality(RowsBy(F \cup {r}, u)) = Cardinality(RowsBy(F, u)) + 1
          /\ r.followed = u =>
               Cardinality(RowsOn(F \cup {r}, u)) = Cardinality(RowsOn(F, u)) + 1
      BY <3>1, RowAdded
    <3>3. QED
      BY <1>1, <2>1, <2>2, <3>2 DEF Owing
<1>2. CASE kind = "unfollow"
  <2>1. r \notin G /\ F = G \cup {r}
    BY <1>2
  <2>2. IsFiniteSet(G)
    BY <1>2, FS_RemoveElement
  <2>3. QED
    <3>1. r \notin G /\ IsFiniteSet(G)
      BY <2>1, <2>2
    <3>2. /\ r.follower = u =>
               Cardinality(RowsBy(G \cup {r}, u)) = Cardinality(RowsBy(G, u)) + 1
          /\ r.followed = u =>
               Cardinality(RowsOn(G \cup {r}, u)) = Cardinality(RowsOn(G, u)) + 1
      BY <3>1, RowAdded
    <3>3. QED
      BY <1>2, <2>1, <2>2, <3>2 DEF Owing
<1>3. QED
  BY <1>1, <1>2

\* The other clients' pages, requests and counters, after a step of c.
LEMMA OthersKeep ==
  ASSUME FollowsTypeOK, CountInv, OwnersDistinct, NEW c \in Clients,
         \A d \in Clients : d # c => client'[d] = client[d],
         died \subseteq died', unoffered \subseteq unoffered',
         \A r : r.follower # Owner[c] => (r \in follows' <=> r \in follows),
         \A u \in FollowUsers : u # Owner[c] => following_count'[u] = following_count[u],
         NEW d \in Clients, d # c
  PROVE  /\ Offered(d)' => ButtonRight(d)'
         /\ DestroysOne(d)'
         /\ Owner[d] \in FollowUsers \ (died' \cup FollowClashing \cup unoffered') => FollowingRight(d)'
<1>1. client'[d] = client[d] /\ (Owner[d] = Owner[c] => Owner[d] = Nobody)
  BY DEF OwnersDistinct
<1>2. ASSUME Owner[d] # Owner[c]
      PROVE  /\ \A f : Rows(Owner[d], f)' = Rows(Owner[d], f)
             /\ {r \in follows' : r.follower = Owner[d]} = {r \in follows : r.follower = Owner[d]}
  BY <1>2 DEF Rows
<1>3. Offered(d)' => Offered(d)
  BY <1>1 DEF Offered
<1>4. Offered(d)' => ButtonRight(d)'
  <2>1. SUFFICES ASSUME Offered(d)' PROVE ButtonRight(d)'
    OBVIOUS
  <2>2. ButtonRight(d)
    BY <1>3, <2>1 DEF CountInv
  <2>3. Owner[d] # Owner[c]
    BY <1>1, <2>2 DEF ButtonRight
  <2>4. (Rows(Owner[d], client[d].followed))' = Rows(Owner[d], client[d].followed)
    BY <1>1, <2>3 DEF Rows
  <2>5. QED
    BY <1>1, <2>2, <2>4 DEF ButtonRight
<1>5. DestroysOne(d)'
  <2>1. SUFFICES ASSUME FollowAt(d, "destroy")'
                 PROVE  \E r \in (Rows(Owner[d], client[d].followed))' : client'[d].rows = {r.id}
    BY DEF DestroysOne
  <2>2. FollowAt(d, "destroy")
    BY <1>1, <2>1 DEF FollowAt
  <2>3. PICK r \in Rows(Owner[d], client[d].followed) : client[d].rows = {r.id}
    BY <2>2 DEF CountInv, DestroysOne
  <2>4. r \in follows /\ r.follower = Owner[d] /\ r.followed = client[d].followed
    BY <2>3 DEF Rows
  <2>5. Owner[d] # Nobody
    BY <2>4, FollowsAssumption DEF FollowsTypeOK, FollowRow
  <2>6. r \in follows'
    BY <1>1, <2>4, <2>5
  <2>7. QED
    BY <1>1, <2>3, <2>4, <2>6 DEF Rows
<1>6. ASSUME Owner[d] \in FollowUsers \ (died' \cup FollowClashing \cup unoffered')
      PROVE  FollowingRight(d)'
  <2>1. Owner[d] # Owner[c] /\ Owner[d] \in FollowUsers
    BY <1>1, <1>6, FollowsAssumption
  <2>2. following_count'[Owner[d]] = following_count[Owner[d]]
    BY <2>1
  <2>3. FollowingRight(d)
    BY <1>6 DEF CountInv
  <2>4. {r \in follows' : r.follower = Owner[d]} = {r \in follows : r.follower = Owner[d]}
    BY <1>2, <2>1
  <2>5. QED
    BY <1>1, <2>2, <2>3, <2>4 DEF FollowingRight, FollowAt, Owing
<1>7. QED
  BY <1>4, <1>5, <1>6

\* Users whom the step of c is not about.
LEMMA ElsewhereKeep ==
  ASSUME CountInv, NEW c \in Clients,
         \A d \in Clients : d # c => client'[d] = client[d],
         died \subseteq died', contended \subseteq contended', unoffered \subseteq unoffered',
         NEW f \in FollowUsers \ (died' \cup FollowClashing \cup contended' \cup unoffered'),
         \A r : r.followed = f => (r \in follows' <=> r \in follows),
         follower_count'[f] = follower_count[f],
         c \notin About(f), c \notin About(f)'
  PROVE  FollowerRight(f)'
<1>1. FollowerRight(f)
  BY DEF CountInv
<1>2. {r \in follows' : r.followed = f} = {r \in follows : r.followed = f}
  OBVIOUS
<1>3. About(f)' = About(f)
  BY DEF About, Waiting, FollowAt
<1>4. \A d \in About(f) : client'[d] = client[d]
  BY DEF About
<1>5. QED
  BY <1>1, <1>2, <1>3, <1>4 DEF FollowerRight, Owing

\* The user the step of c is about, when no other request is.
LEMMA HereKeeps ==
  ASSUME NEW c \in Clients, NEW f, NEW n,
         \A d \in Clients : d # c => client'[d] = client[d],
         \A d \in About(f) : d = c,
         Cardinality({r \in follows' : r.followed = f}) = n,
         c \notin About(f)' => follower_count'[f] = n,
         c \in About(f)' =>
           /\ client'[c].seen = follower_count'[f]
           /\ IF client'[c].at \in {"load", "following", "followers"}
              THEN Owing(follower_count'[f], n, client'[c].kind)
              ELSE follower_count'[f] = n
  PROVE  FollowerRight(f)'
<1>1. \A d \in About(f)' : d = c
  BY DEF About, Waiting, FollowAt
<1>2. QED
  BY <1>1 DEF FollowerRight, Owing

\* FollowCountsExact follows from the rest.
LEMMA CountsFollow ==
  ASSUME FollowsTypeOK, CountInv, NEW c \in Clients,
         \A r : r.follower # Owner[c] => (r \in follows' <=> r \in follows),
         \A u \in FollowUsers : u # Owner[c] => following_count'[u] = following_count[u],
         died \subseteq died', unoffered \subseteq unoffered',
         \A d \in Clients :
           Owner[d] \in FollowUsers \ (died' \cup FollowClashing \cup unoffered') => FollowingRight(d)',
         \A f \in FollowUsers \ (died' \cup FollowClashing \cup contended' \cup unoffered') :
           FollowerRight(f)'
  PROVE  FollowCountsExact'
<1>1. FollowerCountExactAlone'
  <2> SUFFICES ASSUME NEW f \in FollowUsers \ (died' \cup FollowClashing \cup contended' \cup unoffered'),
                      \A d \in Clients : Waiting(d)' => client'[d].followed # f
               PROVE  follower_count'[f] = Cardinality({r \in follows' : r.followed = f})
    BY DEF FollowerCountExactAlone
  <2>1. About(f)' = {}
    BY DEF About
  <2>2. QED
    BY <2>1 DEF FollowerRight
<1>2. FollowingCountExact'
  <2> SUFFICES ASSUME NEW u \in FollowUsers \ (died' \cup FollowClashing \cup unoffered'),
                      \A d \in Clients : Owner[d] = u => ~Waiting(d)'
               PROVE  following_count'[u] = Cardinality({r \in follows' : r.follower = u})
    BY DEF FollowingCountExact
  <2>1. CASE \E d \in Clients : Owner[d] = u
    <3>1. PICK d \in Clients : Owner[d] = u
      BY <2>1
    <3>2. FollowingRight(d)' /\ ~FollowAt(d, "load")' /\ ~FollowAt(d, "following")'
      BY <3>1 DEF Waiting, FollowAt
    <3>3. QED
      BY <3>1, <3>2 DEF FollowingRight
  <2>2. CASE \A d \in Clients : Owner[d] # u
    <3>1. following_count[u] = Cardinality({r \in follows : r.follower = u})
      BY <2>2 DEF CountInv, FollowCountsExact, FollowingCountExact
    <3>2. {r \in follows' : r.follower = u} = {r \in follows : r.follower = u}
      BY <2>2
    <3>3. QED
      BY <2>2, <3>1, <3>2
  <2>3. QED
    BY <2>1, <2>2
<1>3. QED
  BY <1>1, <1>2 DEF FollowCountsExact

\* What is left to show of a step of c.
LEMMA StepKeepsCounts ==
  ASSUME FollowsTypeOK, CountInv, OwnersDistinct, NEW c \in Clients,
         \A d \in Clients : d # c => client'[d] = client[d],
         died \subseteq died', unoffered \subseteq unoffered',
         \A r : r.follower # Owner[c] => (r \in follows' <=> r \in follows),
         \A u \in FollowUsers : u # Owner[c] => following_count'[u] = following_count[u],
         IsFiniteSet(follows'),
         Offered(c)' => ButtonRight(c)',
         DestroysOne(c)',
         Owner[c] \in FollowUsers \ (died' \cup FollowClashing \cup unoffered') => FollowingRight(c)',
         \A f \in FollowUsers \ (died' \cup FollowClashing \cup contended' \cup unoffered') :
           FollowerRight(f)'
  PROVE  CountInv'
<1>1. ASSUME NEW d \in Clients
      PROVE  /\ Offered(d)' => ButtonRight(d)'
             /\ DestroysOne(d)'
             /\ Owner[d] \in FollowUsers \ (died' \cup FollowClashing \cup unoffered') => FollowingRight(d)'
  <2>1. CASE d = c
    BY <2>1
  <2>2. CASE d # c
    BY <2>2, OthersKeep
  <2>3. QED
    BY <2>1, <2>2
<1>2. FollowCountsExact'
  BY <1>1, CountsFollow
<1>3. QED
  BY <1>1, <1>2 DEF CountInv

\* A step of c before its request has read anything.
LEMMA OutsideKeeps ==
  ASSUME FollowsTypeOK, CountInv, OwnersDistinct, NEW c \in Clients, NEW q,
         client' = [client EXCEPT ![c] = q],
         died \subseteq died', contended \subseteq contended', unoffered \subseteq unoffered',
         UNCHANGED <<follows, following_count, follower_count>>,
         client[c] = Blank \/ client[c].at \in {"page", "find"},
         q = Blank \/ q.at \in {"page", "find"},
         Offered(c)' => ButtonRight(c)'
  PROVE  CountInv'
<1>1. client'[c] = q /\ \A d \in Clients : d # c => client'[d] = client[d]
  BY DEF FollowsTypeOK
<1>2. /\ DestroysOne(c)'
      /\ \A f : c \notin About(f) /\ c \notin About(f)'
  BY <1>1 DEF DestroysOne, About, Waiting, FollowAt
<1>3. ASSUME Owner[c] \in FollowUsers \ (died' \cup FollowClashing \cup unoffered')
      PROVE  FollowingRight(c)'
  <2>1. FollowingRight(c)
    BY <1>3 DEF CountInv
  <2>2. /\ ~FollowAt(c, "load") /\ ~FollowAt(c, "following")
        /\ ~FollowAt(c, "load")' /\ ~FollowAt(c, "following")'
    BY <1>1 DEF FollowAt
  <2>3. QED
    BY <2>1, <2>2 DEF FollowingRight
<1>4. \A f \in FollowUsers \ (died' \cup FollowClashing \cup contended' \cup unoffered') :
        FollowerRight(f)'
  BY <1>1, <1>2, ElsewhereKeep
<1>5. IsFiniteSet(follows')
  BY DEF CountInv
<1>6. QED
  BY <1>1, <1>2, <1>3, <1>4, <1>5, StepKeepsCounts

\* Those steps.
LEMMA OutsideSteps ==
  ASSUME FollowsTypeOK, CountInv, OwnersDistinct, NEW c \in Clients,
         \/ \E f \in FollowUsers : ViewProfile(c, f)
         \/ Click(c)
         \/ \E kind \in {"follow", "unfollow"}, f \in FollowUsers \cup UnknownNames : Post(c, kind, f)
         \/ FollowedNotFound(c)
         \/ FollowAbort(c) /\ FollowAt(c, "find")
  PROVE  CountInv'
<1>1. ASSUME NEW f \in FollowUsers, ViewProfile(c, f) PROVE CountInv'
  <2>1. PICK kind : kind = IF Rows(Owner[c], f) # {} THEN "unfollow" ELSE "follow"
    OBVIOUS
  <2>2. PICK q : q = [at |-> "page", kind |-> kind, followed |-> f, seen |-> 0, mine |-> 0, rows |-> {}]
    OBVIOUS
  <2>3. /\ client' = [client EXCEPT ![c] = q] /\ q.at = "page" /\ q.followed = f /\ q.kind = kind
        /\ Owner[c] # Nobody /\ f # Owner[c] /\ ~Waiting(c)
        /\ UNCHANGED <<follows, following_count, follower_count, died, contended, unoffered>>
    BY <1>1, <2>1, <2>2 DEF ViewProfile, followTables, followHistory
  <2>4. client'[c] = q
    BY <2>3 DEF FollowsTypeOK
  <2>5. (Rows(Owner[c], client[c].followed))' = Rows(Owner[c], f)
    BY <2>3, <2>4 DEF Rows
  <2>6. ButtonRight(c)'
    BY <2>1, <2>3, <2>4, <2>5 DEF ButtonRight
  <2>7. client[c] = Blank \/ client[c].at \in {"page", "find"}
    BY <2>3 DEF Waiting
  <2>8. QED
    BY <2>3, <2>6, <2>7, OutsideKeeps
<1>2. ASSUME Click(c) PROVE CountInv'
  <2>1. PICK q : q = [client[c] EXCEPT !.at = "find"]
    OBVIOUS
  <2>2. /\ client[c] # Blank /\ client[c].at = "page" /\ client[c] \in Client
        /\ UNCHANGED <<follows, following_count, follower_count, died, contended, unoffered>>
    BY <1>2 DEF Click, FollowAt, followTables, FollowsTypeOK
  <2>3. client' = [client EXCEPT ![c] = q]
    BY <1>2, <2>1 DEF Click, FollowGoto
  <2>4. q.at = "find" /\ q.kind = client[c].kind /\ q.followed = client[c].followed
    BY <2>1, <2>2 DEF Client
  <2>5. client'[c] = q
    BY <2>3 DEF FollowsTypeOK
  <2>6. Offered(c)' => Offered(c)
    BY <2>2, <2>4, <2>5 DEF Offered
  <2>7. (Rows(Owner[c], client[c].followed))' = Rows(Owner[c], client[c].followed)
    BY <2>2, <2>4, <2>5 DEF Rows
  <2>8. Offered(c)' => ButtonRight(c)'
    BY <2>2, <2>4, <2>5, <2>6, <2>7 DEF CountInv, ButtonRight
  <2>9. QED
    BY <2>2, <2>3, <2>4, <2>8, OutsideKeeps
<1>3. ASSUME NEW kind \in {"follow", "unfollow"}, NEW f \in FollowUsers \cup UnknownNames, Post(c, kind, f)
      PROVE  CountInv'
  <2>1. PICK q : q = [at |-> "find", kind |-> kind, followed |-> f, seen |-> 0, mine |-> 0, rows |-> {}]
    OBVIOUS
  <2>2. /\ client' = [client EXCEPT ![c] = q] /\ q.at = "find" /\ q.followed = f /\ client[c] = Blank
        /\ unoffered' = unoffered \cup ({Owner[c], f} \cap FollowUsers)
        /\ UNCHANGED <<follows, following_count, follower_count, died, contended>>
    BY <1>3, <2>1 DEF Post, followTables
  <2>3. client'[c] = q
    BY <2>2 DEF FollowsTypeOK
  <2>4. ~Offered(c)'
    BY <2>2, <2>3 DEF Offered
  <2>5. QED
    BY <2>2, <2>4, OutsideKeeps
<1>4. ASSUME FollowedNotFound(c) \/ (FollowAbort(c) /\ FollowAt(c, "find")) PROVE CountInv'
  <2>1. /\ client' = [client EXCEPT ![c] = Blank] /\ client[c].at = "find"
        /\ died \subseteq died' /\ contended' = contended /\ unoffered' = unoffered
        /\ UNCHANGED <<follows, following_count, follower_count>>
    BY <1>4 DEF FollowedNotFound, FollowAbort, FollowDone, FollowAt, followTables, followHistory
  <2>2. client'[c] = Blank
    BY <2>1 DEF FollowsTypeOK
  <2>3. ~Offered(c)'
    BY <2>2 DEF Offered
  <2>4. QED
    BY <2>1, <2>3, OutsideKeeps
<1>5. QED
  BY <1>1, <1>2, <1>3, <1>4

\* A step of c between its first query and its last that writes no table.
LEMMA InsideKeeps ==
  ASSUME FollowsTypeOK, CountInv, OwnersDistinct, NEW c \in Clients, NEW q,
         client' = [client EXCEPT ![c] = q],
         UNCHANGED <<follows, following_count, follower_count, died, contended, unoffered>>,
         client[c] # Blank, client[c].at \notin {"page", "find"},
         q # Blank, q.at \notin {"page", "find"},
         q.kind = client[c].kind, q.followed = client[c].followed, q.seen = client[c].seen,
         q.at \in {"validate", "select"} => client[c].at = q.at,
         DestroysOne(c)',
         Offered(c) =>
           /\ q.at \in {"load", "following", "followers"} <=>
                client[c].at \in {"load", "following", "followers"}
           /\ q.at = "followers" <=> client[c].at = "followers"
           /\ q.at = "following" => q.mine = following_count[Owner[c]]
  PROVE  CountInv'
<1>1. client'[c] = q /\ \A d \in Clients : d # c => client'[d] = client[d]
  BY DEF FollowsTypeOK
<1>2. Offered(c)' <=> Offered(c)
  BY <1>1 DEF Offered
<1>3. (Rows(Owner[c], client[c].followed))' = Rows(Owner[c], client[c].followed)
  BY <1>1 DEF Rows
<1>4. Offered(c)' => ButtonRight(c)'
  BY <1>1, <1>2, <1>3 DEF CountInv, ButtonRight
<1>5. ASSUME Owner[c] \in FollowUsers \ (died' \cup FollowClashing \cup unoffered')
      PROVE  FollowingRight(c)'
  <2>1. FollowingRight(c) /\ Offered(c)
    BY <1>5 DEF CountInv, Offered
  <2>2. (FollowAt(c, "load") \/ FollowAt(c, "following"))' <=>
          FollowAt(c, "load") \/ FollowAt(c, "following")
    BY <1>1, <2>1 DEF FollowAt
  <2>3. FollowAt(c, "following")' => client'[c].mine = following_count[Owner[c]]
    BY <1>1, <2>1 DEF FollowAt
  <2>4. client'[c].kind = client[c].kind
    BY <1>1
  <2>5. QED
    BY <2>1, <2>2, <2>3, <2>4 DEF FollowingRight
<1>6. ASSUME NEW f \in FollowUsers \ (died' \cup FollowClashing \cup contended' \cup unoffered')
      PROVE  FollowerRight(f)'
  <2>1. CASE client[c].followed # f
    <3>1. c \notin About(f) /\ c \notin About(f)'
      BY <1>1, <2>1 DEF About
    <3>2. QED
      BY <1>1, <3>1, ElsewhereKeep
  <2>2. CASE client[c].followed = f
    <3>1. c \in About(f) /\ c \in About(f)'
      BY <1>1, <2>2 DEF About, Waiting, FollowAt
    <3>2. FollowerRight(f) /\ Offered(c)
      BY <2>2 DEF CountInv, Offered
    <3>3. PICK n : n = Cardinality({r \in follows : r.followed = f})
      OBVIOUS
    <3>4. /\ \A d \in About(f) : d = c
          /\ client[c].seen = follower_count[f]
          /\ IF client[c].at \in {"load", "following", "followers"}
             THEN Owing(follower_count[f], n, client[c].kind)
             ELSE follower_count[f] = n
      BY <3>1, <3>2, <3>3 DEF FollowerRight
    <3>5. /\ client'[c].seen = follower_count'[f]
          /\ IF client'[c].at \in {"load", "following", "followers"}
             THEN Owing(follower_count'[f], n, client'[c].kind)
             ELSE follower_count'[f] = n
      BY <1>1, <3>2, <3>4
    <3>6. QED
      BY <1>1, <3>1, <3>3, <3>4, <3>5, HereKeeps
  <2>3. QED
    BY <2>1, <2>2
<1>7. IsFiniteSet(follows')
  BY DEF CountInv
<1>8. QED
  BY <1>1, <1>4, <1>5, <1>6, <1>7, StepKeepsCounts

\* The validation, the SELECT of destroy_all and the load of the user.
LEMMA InsideSteps ==
  ASSUME FollowsTypeOK, EffectInv, CountInv, OwnersDistinct, NEW c \in Clients,
         ValidateFollow(c) \/ SelectFollows(c) \/ LoadUser(c)
  PROVE  CountInv'
<1>0. UNCHANGED <<follows, following_count, follower_count, died, contended, unoffered>>
  BY DEF ValidateFollow, SelectFollows, LoadUser, followTables, followHistory
<1>1. client[c] # Blank /\ client[c] \in Client
  BY DEF ValidateFollow, SelectFollows, LoadUser, FollowAt, FollowsTypeOK
<1>2. Offered(c) => ButtonRight(c)
  BY DEF CountInv
<1>3. ASSUME ValidateFollow(c) PROVE CountInv'
  <2>1. PICK step : step = IF /\ Owner[c] \notin {Nobody, client[c].followed}
                              /\ Rows(Owner[c], client[c].followed) = {}
                           THEN "insert" ELSE "load"
    OBVIOUS
  <2>2. PICK q : q = [client[c] EXCEPT !.at = step]
    OBVIOUS
  <2>3. client[c].at = "validate" /\ client' = [client EXCEPT ![c] = q]
    BY <1>3, <2>1, <2>2 DEF ValidateFollow, FollowGoto, FollowAt
  <2>4. /\ q.at = step /\ q.kind = client[c].kind /\ q.followed = client[c].followed
        /\ q.seen = client[c].seen /\ q \in Client
    BY <1>1, <2>1, <2>2 DEF Client
  <2>5. q # Blank
    BY <2>4, BlankAssumption
  <2>6. client[c].kind = "follow"
    BY <1>1, <2>3 DEF EffectInv, KindFits, FollowAt
  <2>7. Offered(c) => step = "insert"
    BY <1>2, <2>1, <2>3, <2>6 DEF ButtonRight
  <2>8. client'[c] = q
    BY <2>3 DEF FollowsTypeOK
  <2>9. DestroysOne(c)'
    BY <2>1, <2>4, <2>8 DEF DestroysOne, FollowAt
  <2>10. step \in {"insert", "load"}
    BY <2>1
  <2>11. QED
    BY <1>0, <1>1, <2>3, <2>4, <2>5, <2>7, <2>9, <2>10, InsideKeeps
<1>4. ASSUME SelectFollows(c) PROVE CountInv'
  <2>1. PICK ids : ids = {r.id : r \in Rows(Owner[c], client[c].followed)}
    OBVIOUS
  <2>2. PICK step : step = IF ids = {} THEN "load" ELSE "destroy"
    OBVIOUS
  <2>3. PICK q : q = [at |-> step, kind |-> client[c].kind, followed |-> client[c].followed,
                      seen |-> client[c].seen, mine |-> 0, rows |-> ids]
    OBVIOUS
  <2>4. client[c].at = "select" /\ client' = [client EXCEPT ![c] = q]
    BY <1>4, <2>1, <2>2, <2>3 DEF SelectFollows, Continue, FollowAt
  <2>5. ids \subseteq Nat
    BY <2>1 DEF Rows, FollowsTypeOK, FollowRow
  <2>6. /\ q.at = step /\ q.kind = client[c].kind /\ q.followed = client[c].followed
        /\ q.seen = client[c].seen /\ q.rows = ids
    BY <2>3
  <2>7. q \in Client
    BY <1>1, <2>2, <2>3, <2>5 DEF Client
  <2>8. q # Blank
    BY <2>7, BlankAssumption
  <2>9. client[c].kind = "unfollow"
    BY <1>1, <2>4 DEF EffectInv, KindFits, FollowAt
  <2>10. Offered(c) => step = "destroy"
    BY <1>2, <2>1, <2>2, <2>4, <2>9 DEF ButtonRight
  <2>11. client'[c] = q
    BY <2>4 DEF FollowsTypeOK
  <2>12. ids # {} => \E r \in Rows(Owner[c], client[c].followed) : ids = {r.id}
    <3>1. SUFFICES ASSUME ids # {} PROVE \E r \in Rows(Owner[c], client[c].followed) : ids = {r.id}
      OBVIOUS
    <3>2. PICK r \in Rows(Owner[c], client[c].followed) : TRUE
      BY <2>1, <3>1
    <3>3. \A s \in Rows(Owner[c], client[c].followed) : s = r
      BY <3>2 DEF Rows, EffectInv, NoDuplicateFollows
    <3>4. ids = {r.id}
      BY <2>1, <3>2, <3>3
    <3>5. QED
      BY <3>2, <3>4
  <2>13. (Rows(Owner[c], client[c].followed))' = Rows(Owner[c], client[c].followed)
    BY <1>0, <2>6, <2>11 DEF Rows
  <2>14. DestroysOne(c)'
    BY <2>2, <2>6, <2>11, <2>12, <2>13 DEF DestroysOne, FollowAt
  <2>15. step \in {"load", "destroy"}
    BY <2>2
  <2>16. QED
    BY <1>0, <1>1, <2>4, <2>6, <2>8, <2>10, <2>14, <2>15, InsideKeeps
<1>5. ASSUME LoadUser(c) PROVE CountInv'
  <2>1. PICK mine : mine = following_count[Owner[c]]
    OBVIOUS
  <2>2. PICK q : q = [at |-> "following", kind |-> client[c].kind, followed |-> client[c].followed,
                      seen |-> client[c].seen, mine |-> mine, rows |-> {}]
    OBVIOUS
  <2>3. client[c].at = "load" /\ client' = [client EXCEPT ![c] = q] /\ Owner[c] # Nobody
    BY <1>5, <2>1, <2>2 DEF LoadUser, Continue, FollowAt
  <2>4. /\ q.at = "following" /\ q.kind = client[c].kind /\ q.followed = client[c].followed
        /\ q.seen = client[c].seen /\ q.mine = mine
    BY <2>2
  <2>5. mine \in Nat
    BY <2>1, <2>3, FollowsAssumption DEF FollowsTypeOK
  <2>6. q \in Client
    BY <1>1, <2>2, <2>5 DEF Client
  <2>7. q # Blank
    BY <2>6, BlankAssumption
  <2>8. client'[c] = q
    BY <2>3 DEF FollowsTypeOK
  <2>9. DestroysOne(c)'
    BY <2>4, <2>8 DEF DestroysOne, FollowAt
  <2>10. QED
    BY <1>0, <1>1, <2>1, <2>3, <2>4, <2>7, <2>9, InsideKeeps
<1>6. QED
  BY <1>3, <1>4, <1>5

\* The INSERT or the DELETE: both counters now owe the request.
LEMMA TableKeeps ==
  ASSUME FollowsTypeOK, CountInv, OwnersDistinct, NEW c \in Clients, NEW q, NEW r,
         client' = [client EXCEPT ![c] = q],
         UNCHANGED <<following_count, follower_count, died, contended, unoffered>>,
         client[c] # Blank, client[c].at \in {"insert", "destroy"},
         q # Blank, q.at = "load",
         q.kind = client[c].kind, q.followed = client[c].followed, q.seen = client[c].seen,
         r.follower = Owner[c], r.followed = client[c].followed,
         \/ client[c].kind = "follow" /\ r \notin follows /\ follows' = follows \cup {r}
         \/ client[c].kind = "unfollow" /\ r \in follows /\ follows' = follows \ {r}
  PROVE  CountInv'
<1>1. client'[c] = q /\ \A d \in Clients : d # c => client'[d] = client[d]
  BY DEF FollowsTypeOK
<1>2. PICK F, G, kind, u, f : F = follows /\ G = follows' /\ kind = client[c].kind
                              /\ u = Owner[c] /\ f = client[c].followed
  OBVIOUS
<1>4. IsFiniteSet(F)
  BY <1>2 DEF CountInv
<1>5. \/ kind = "follow" /\ r \notin F /\ G = F \cup {r}
      \/ kind = "unfollow" /\ r \in F /\ G = F \ {r}
  BY <1>2
<1>6. /\ IsFiniteSet(G)
      /\ Owing(Cardinality(RowsBy(F, u)), Cardinality(RowsBy(G, u)), kind)
      /\ Owing(Cardinality(RowsOn(F, f)), Cardinality(RowsOn(G, f)), kind)
  <2>1. r.follower = u /\ r.followed = f
    BY <1>2
  <2>2. /\ IsFiniteSet(G)
        /\ r.follower = u =>
             Owing(Cardinality(RowsBy(F, u)), Cardinality(RowsBy(G, u)), kind)
    BY <1>4, <1>5, RowsCounted
  <2>3. r.followed = f =>
          Owing(Cardinality(RowsOn(F, f)), Cardinality(RowsOn(G, f)), kind)
    BY <1>4, <1>5, RowsCounted
  <2>4. QED
    BY <2>1, <2>2, <2>3
<1>7. IsFiniteSet(follows')
  BY <1>2, <1>6
<1>8. /\ Offered(c)' <=> Offered(c)
      /\ DestroysOne(c)'
  BY <1>1 DEF Offered, DestroysOne, FollowAt
<1>9. Offered(c)' => ButtonRight(c)'
  BY <1>1, <1>8 DEF CountInv, ButtonRight
<1>10. ASSUME Owner[c] \in FollowUsers \ (died' \cup FollowClashing \cup unoffered')
       PROVE  FollowingRight(c)'
  <2>1. FollowingRight(c) /\ ~FollowAt(c, "load") /\ ~FollowAt(c, "following")
    BY <1>10 DEF CountInv, FollowAt
  <2>2. following_count[u] = Cardinality(RowsBy(F, u))
    BY <1>2, <2>1 DEF FollowingRight, RowsBy
  <2>3. Owing(following_count'[u], Cardinality(RowsBy(G, u)), kind)
    BY <1>6, <2>2
  <2>4. FollowAt(c, "load")' /\ ~FollowAt(c, "following")' /\ client'[c].kind = kind
    BY <1>1, <1>2 DEF FollowAt
  <2>5. QED
    BY <1>2, <2>3, <2>4 DEF FollowingRight, RowsBy
<1>11. ASSUME NEW g \in FollowUsers \ (died' \cup FollowClashing \cup contended' \cup unoffered')
       PROVE  FollowerRight(g)'
  <2>1. CASE f # g
    <3>1. c \notin About(g) /\ c \notin About(g)'
      BY <1>1, <1>2, <2>1 DEF About
    <3>2. \A x : x.followed = g => (x \in follows' <=> x \in follows)
      BY <1>2, <1>5, <2>1
    <3>3. QED
      BY <1>1, <3>1, <3>2, ElsewhereKeep
  <2>2. CASE f = g
    <3>1. c \in About(g)
      BY <1>2, <2>2 DEF About, Waiting, FollowAt
    <3>2. FollowerRight(g)
      BY DEF CountInv
    <3>3. PICK n : n = Cardinality(RowsOn(G, f))
      OBVIOUS
    <3>4. /\ \A d \in About(g) : d = c
          /\ client[c].seen = follower_count[g]
          /\ follower_count[g] = Cardinality(RowsOn(F, f))
      <4>1. /\ \A a, b \in About(g) : a = b
            /\ client[c].seen = follower_count[g]
            /\ follower_count[g] = Cardinality({x \in follows : x.followed = g})
        BY <3>1, <3>2 DEF FollowerRight
      <4>2. {x \in follows : x.followed = g} = RowsOn(F, f)
        BY <1>2, <2>2 DEF RowsOn
      <4>3. QED
        BY <3>1, <4>1, <4>2
    <3>5. Owing(follower_count'[g], n, client'[c].kind)
      BY <1>1, <1>2, <1>6, <2>2, <3>3, <3>4
    <3>6. client'[c].seen = follower_count'[g] /\ client'[c].at = "load"
      BY <1>1, <3>4
    <3>7. Cardinality({x \in follows' : x.followed = g}) = n
      BY <1>2, <2>2, <3>3 DEF RowsOn
    <3>8. c \in About(g)'
      BY <1>1, <1>2, <2>2 DEF About, Waiting, FollowAt
    <3>9. QED
      BY <1>1, <3>4, <3>5, <3>6, <3>7, <3>8, HereKeeps
  <2>3. QED
    BY <2>1, <2>2
<1>12. \A x : x.follower # Owner[c] => (x \in follows' <=> x \in follows)
  BY <1>2, <1>5
<1>13. QED
  BY <1>1, <1>7, <1>8, <1>9, <1>10, <1>11, <1>12, StepKeepsCounts

\* Those steps.
LEMMA TableSteps ==
  ASSUME FollowsTypeOK, EffectInv, CountInv, OwnersDistinct, NEW c \in Clients,
         InsertFollow(c) \/ DestroyFollow(c)
  PROVE  CountInv'
<1>0. UNCHANGED <<following_count, follower_count, died, contended, unoffered>>
  BY DEF InsertFollow, DestroyFollow, followHistory
<1>1. client[c] # Blank /\ client[c] \in Client
  BY DEF InsertFollow, DestroyFollow, FollowAt, FollowsTypeOK
<1>2. ASSUME InsertFollow(c) PROVE CountInv'
  <2>1. PICK q : q = [client[c] EXCEPT !.at = "load"]
    OBVIOUS
  <2>2. PICK r : r = [id |-> nextFollowId, follower |-> Owner[c], followed |-> client[c].followed]
    OBVIOUS
  <2>3. /\ client[c].at = "insert" /\ client' = [client EXCEPT ![c] = q]
        /\ follows' = follows \cup {r}
    BY <1>2, <2>1, <2>2 DEF InsertFollow, FollowGoto, FollowAt
  <2>4. /\ q.at = "load" /\ q.kind = client[c].kind /\ q.followed = client[c].followed
        /\ q.seen = client[c].seen /\ q \in Client
    BY <1>1, <2>1 DEF Client
  <2>5. q # Blank
    BY <2>4, BlankAssumption
  <2>6. client[c].kind = "follow"
    BY <1>1, <2>3 DEF EffectInv, KindFits, FollowAt
  <2>7. r.id = nextFollowId /\ r.follower = Owner[c] /\ r.followed = client[c].followed
    BY <2>2
  <2>8. r \notin follows
    BY <2>7 DEF FollowsTypeOK, FollowRow
  <2>9. QED
    BY <1>0, <1>1, <2>3, <2>4, <2>5, <2>6, <2>7, <2>8, TableKeeps
<1>3. ASSUME DestroyFollow(c) PROVE CountInv'
  <2>1. client[c].at = "destroy" /\ client[c].kind = "unfollow"
    BY <1>1, <1>3 DEF DestroyFollow, EffectInv, KindFits, FollowAt
  <2>2. PICK r \in Rows(Owner[c], client[c].followed) : client[c].rows = {r.id}
    BY <1>1, <2>1 DEF CountInv, DestroysOne, FollowAt
  <2>3. r \in follows /\ r.follower = Owner[c] /\ r.followed = client[c].followed
    BY <2>2 DEF Rows
  <2>4. PICK q : q = [at |-> "load", kind |-> client[c].kind, followed |-> client[c].followed,
                      seen |-> client[c].seen, mine |-> 0, rows |-> {}]
    OBVIOUS
  <2>5. PICK i \in client[c].rows :
          /\ follows' = {s \in follows : s.id # i}
          /\ Continue(c, IF client[c].rows = {i} THEN "load" ELSE "destroy",
                      client[c].seen, 0, client[c].rows \ {i})
    BY <1>3 DEF DestroyFollow
  <2>6. i = r.id /\ client[c].rows = {i} /\ client[c].rows \ {i} = {}
    BY <2>2, <2>5
  <2>7. client' = [client EXCEPT ![c] = q]
    BY <2>4, <2>5, <2>6 DEF Continue
  <2>8. follows' = follows \ {r}
    BY <2>3, <2>5, <2>6 DEF EffectInv, IdsUnique
  <2>9. /\ q.at = "load" /\ q.kind = client[c].kind /\ q.followed = client[c].followed
        /\ q.seen = client[c].seen
    BY <2>4
  <2>10. q \in Client
    BY <1>1, <2>4 DEF Client
  <2>11. q # Blank
    BY <2>10, BlankAssumption
  <2>12. QED
    BY <1>0, <1>1, <2>1, <2>3, <2>7, <2>8, <2>9, <2>11, TableKeeps
<1>4. QED
  BY <1>2, <1>3

\* The first query: when no other request is about f, the request has read the
\* counter of f as it stands.
LEMMA FindKeeps ==
  ASSUME FollowsTypeOK, CountInv, OwnersDistinct, NEW c \in Clients, FindFollowed(c)
  PROVE  CountInv'
<1>1. PICK step, f, seen : /\ step = IF client[c].kind = "follow" THEN "validate" ELSE "select"
                           /\ f = client[c].followed
                           /\ seen = follower_count[f]
  OBVIOUS
<1>2. PICK q : q = [at |-> step, kind |-> client[c].kind, followed |-> f,
                    seen |-> seen, mine |-> 0, rows |-> {}]
  OBVIOUS
<1>3. /\ client[c] # Blank /\ client[c].at = "find" /\ f \in FollowUsers
      /\ client' = [client EXCEPT ![c] = q]
      /\ UNCHANGED <<follows, following_count, follower_count, died, unoffered>>
  BY <1>1, <1>2 DEF FindFollowed, Continue, FollowAt, followTables
<1>4. contended \subseteq contended' /\ (f \notin contended' => About(f) = {})
  BY <1>1, <1>3 DEF FindFollowed, About, FollowAt
<1>5. /\ q.at = step /\ q.kind = client[c].kind /\ q.followed = f /\ q.seen = seen
      /\ step \in {"validate", "select"}
  BY <1>1, <1>2
<1>6. client[c] \in Client /\ seen \in Nat
  BY <1>1, <1>3 DEF FollowsTypeOK
<1>7. q \in Client
  BY <1>1, <1>2, <1>5, <1>6 DEF Client
<1>8. q # Blank
  BY <1>7, BlankAssumption
<1>9. client'[c] = q /\ \A d \in Clients : d # c => client'[d] = client[d]
  BY <1>3 DEF FollowsTypeOK
<1>10. Offered(c)' <=> Offered(c)
  BY <1>1, <1>3, <1>5, <1>8, <1>9 DEF Offered
<1>11. (Rows(Owner[c], client[c].followed))' = Rows(Owner[c], client[c].followed)
  BY <1>1, <1>3, <1>5, <1>9 DEF Rows
<1>12. Offered(c)' => ButtonRight(c)'
  BY <1>1, <1>3, <1>5, <1>9, <1>10, <1>11 DEF CountInv, ButtonRight
<1>13. DestroysOne(c)'
  BY <1>5, <1>9 DEF DestroysOne, FollowAt
<1>14. ASSUME Owner[c] \in FollowUsers \ (died' \cup FollowClashing \cup unoffered')
       PROVE  FollowingRight(c)'
  <2>1. FollowingRight(c)
    BY <1>3, <1>14 DEF CountInv
  <2>2. /\ ~FollowAt(c, "load") /\ ~FollowAt(c, "following")
        /\ ~FollowAt(c, "load")' /\ ~FollowAt(c, "following")'
    BY <1>3, <1>5, <1>9 DEF FollowAt
  <2>3. QED
    BY <1>3, <2>1, <2>2 DEF FollowingRight
<1>15. ASSUME NEW g \in FollowUsers \ (died' \cup FollowClashing \cup contended' \cup unoffered')
       PROVE  FollowerRight(g)'
  <2>1. CASE f # g
    <3>1. c \notin About(g) /\ c \notin About(g)'
      BY <1>1, <1>5, <1>9, <2>1 DEF About
    <3>2. QED
      BY <1>3, <1>4, <1>9, <3>1, ElsewhereKeep
  <2>2. CASE f = g
    <3>1. About(g) = {}
      BY <1>4, <2>2
    <3>2. FollowerRight(g)
      BY <1>3, <1>4 DEF CountInv
    <3>3. PICK n : n = Cardinality({r \in follows : r.followed = g})
      OBVIOUS
    <3>4. follower_count[g] = n
      BY <3>1, <3>2, <3>3 DEF FollowerRight
    <3>5. /\ Cardinality({r \in follows' : r.followed = g}) = n
          /\ follower_count'[g] = n
          /\ client'[c].seen = follower_count'[g]
          /\ client'[c].at \notin {"load", "following", "followers"}
      BY <1>1, <1>3, <1>5, <1>9, <2>2, <3>3, <3>4
    <3>6. QED
      BY <1>9, <3>1, <3>5, HereKeeps
  <2>3. QED
    BY <2>1, <2>2
<1>16. IsFiniteSet(follows')
  BY <1>3 DEF CountInv
<1>17. QED
  BY <1>3, <1>9, <1>12, <1>13, <1>14, <1>15, <1>16, StepKeepsCounts

\* What a counter owes is what increment and decrement make of it.
LEMMA Paid ==
  ASSUME NEW count \in Nat, NEW n \in Nat, NEW kind, Owing(count, n, kind)
  PROVE  Adjusted(kind, count) = n
<1>1. CASE kind = "follow"
  BY <1>1 DEF Owing, Adjusted
<1>2. CASE kind # "follow"
  BY <1>2 DEF Owing, Adjusted
<1>3. QED
  BY <1>1, <1>2

\* The save of following_count.
LEMMA SaveFollowingKeeps ==
  ASSUME FollowsTypeOK, CountInv, OwnersDistinct, NEW c \in Clients, SaveFollowing(c)
  PROVE  CountInv'
<1>1. PICK q : q = [client[c] EXCEPT !.at = "followers"]
  OBVIOUS
<1>2. /\ client[c] # Blank /\ client[c].at = "following" /\ client[c] \in Client
      /\ client' = [client EXCEPT ![c] = q]
      /\ UNCHANGED <<follows, follower_count, died, contended, unoffered>>
  BY <1>1 DEF SaveFollowing, FollowGoto, FollowAt, followHistory, FollowsTypeOK
<1>3. /\ q.at = "followers" /\ q.kind = client[c].kind /\ q.followed = client[c].followed
      /\ q.seen = client[c].seen /\ q \in Client
  BY <1>1, <1>2 DEF Client
<1>4. q # Blank
  BY <1>3, BlankAssumption
<1>5. client'[c] = q /\ \A d \in Clients : d # c => client'[d] = client[d]
  BY <1>2 DEF FollowsTypeOK
<1>6. Owner[c] \in FollowUsers
  BY <1>2, FollowsAssumption DEF FollowsTypeOK, FollowAt
<1>7. /\ \A u \in FollowUsers : u # Owner[c] => following_count'[u] = following_count[u]
      /\ Owner[c] \notin FollowClashing =>
           following_count'[Owner[c]] = Adjusted(client[c].kind, client[c].mine)
  BY <1>6 DEF SaveFollowing, SavedColumn, FollowsTypeOK
<1>8. Offered(c)' <=> Offered(c)
  BY <1>2, <1>3, <1>4, <1>5 DEF Offered
<1>9. Offered(c)' => ButtonRight(c)'
  BY <1>3, <1>5, <1>8 DEF CountInv, ButtonRight
<1>10. DestroysOne(c)'
  BY <1>3, <1>5 DEF DestroysOne, FollowAt
<1>11. ASSUME Owner[c] \in FollowUsers \ (died' \cup FollowClashing \cup unoffered')
       PROVE  FollowingRight(c)'
  <2>1. FollowingRight(c) /\ FollowAt(c, "following")
    BY <1>2, <1>11 DEF CountInv, FollowAt
  <2>2. PICK n, count, kind : /\ n = Cardinality({r \in follows : r.follower = Owner[c]})
                              /\ count = following_count[Owner[c]]
                              /\ kind = client[c].kind
    OBVIOUS
  <2>3. Owing(count, n, kind) /\ client[c].mine = count
    BY <2>1, <2>2 DEF FollowingRight
  <2>4. IsFiniteSet({r \in follows : r.follower = Owner[c]})
    BY FS_Subset DEF CountInv
  <2>5. n \in Nat
    BY <2>2, <2>4, FS_CardinalityType
  <2>6. count \in Nat
    BY <1>6, <2>2 DEF FollowsTypeOK
  <2>7. Adjusted(kind, count) = n
    BY <2>3, <2>5, <2>6, Paid
  <2>8. following_count'[Owner[c]] = n
    BY <1>7, <1>11, <2>2, <2>3, <2>7
  <2>9. ~FollowAt(c, "load")' /\ ~FollowAt(c, "following")'
    BY <1>3, <1>5 DEF FollowAt
  <2>10. Cardinality({r \in follows' : r.follower = Owner[c]}) = n
    BY <1>2, <2>2
  <2>11. QED
    BY <2>8, <2>9, <2>10 DEF FollowingRight
<1>12. ASSUME NEW g \in FollowUsers \ (died' \cup FollowClashing \cup contended' \cup unoffered')
       PROVE  FollowerRight(g)'
  <2>1. CASE client[c].followed # g
    <3>1. c \notin About(g) /\ c \notin About(g)'
      BY <1>3, <1>5, <2>1 DEF About
    <3>2. QED
      BY <1>2, <1>5, <3>1, ElsewhereKeep
  <2>2. CASE client[c].followed = g
    <3>1. c \in About(g)
      BY <1>2, <2>2 DEF About, Waiting, FollowAt
    <3>2. FollowerRight(g)
      BY <1>2 DEF CountInv
    <3>3. PICK n : n = Cardinality({r \in follows : r.followed = g})
      OBVIOUS
    <3>4. /\ \A d \in About(g) : d = c
          /\ client[c].seen = follower_count[g]
          /\ Owing(follower_count[g], n, client[c].kind)
      BY <1>2, <3>1, <3>2, <3>3 DEF FollowerRight
    <3>5. /\ Cardinality({r \in follows' : r.followed = g}) = n
          /\ client'[c].seen = follower_count'[g]
          /\ client'[c].at = "followers"
          /\ Owing(follower_count'[g], n, client'[c].kind)
      BY <1>2, <1>3, <1>5, <3>3, <3>4
    <3>6. c \in About(g)'
      BY <1>3, <1>4, <1>5, <2>2 DEF About, Waiting, FollowAt
    <3>7. QED
      BY <1>5, <3>4, <3>5, <3>6, HereKeeps
  <2>3. QED
    BY <2>1, <2>2
<1>13. IsFiniteSet(follows')
  BY <1>2 DEF CountInv
<1>14. QED
  BY <1>2, <1>5, <1>7, <1>9, <1>10, <1>11, <1>12, <1>13, StepKeepsCounts

\* The end of a request that has read the row of a user: its page is gone, and
\* what it says of that user's counter is left to show.
LEMMA ExitKeeps ==
  ASSUME FollowsTypeOK, CountInv, OwnersDistinct, NEW c \in Clients, NEW f,
         client' = [client EXCEPT ![c] = Blank], f = client[c].followed,
         died \subseteq died',
         UNCHANGED <<follows, following_count, contended, unoffered>>,
         \A g \in FollowUsers : g # f => follower_count'[g] = follower_count[g],
         Owner[c] \in FollowUsers \ (died' \cup FollowClashing \cup unoffered') =>
           ~FollowAt(c, "load") /\ ~FollowAt(c, "following"),
         f \in FollowUsers \ (died' \cup FollowClashing \cup contended' \cup unoffered') =>
           FollowerRight(f)'
  PROVE  CountInv'
<1>1. client'[c] = Blank /\ \A d \in Clients : d # c => client'[d] = client[d]
  BY DEF FollowsTypeOK
<1>2. DestroysOne(c)' /\ ~Offered(c)'
  BY <1>1 DEF DestroysOne, FollowAt, Offered
<1>3. ASSUME Owner[c] \in FollowUsers \ (died' \cup FollowClashing \cup unoffered')
      PROVE  FollowingRight(c)'
  <2>1. FollowingRight(c)
    BY <1>3 DEF CountInv
  <2>2. ~FollowAt(c, "load")' /\ ~FollowAt(c, "following")'
    BY <1>1 DEF FollowAt
  <2>3. QED
    BY <1>3, <2>1, <2>2 DEF FollowingRight
<1>4. ASSUME NEW g \in FollowUsers \ (died' \cup FollowClashing \cup contended' \cup unoffered')
      PROVE  FollowerRight(g)'
  <2>1. CASE f = g
    BY <2>1
  <2>2. CASE f # g
    <3>1. c \notin About(g) /\ c \notin About(g)'
      BY <1>1, <2>2 DEF About, Waiting
    <3>2. follower_count'[g] = follower_count[g]
      BY <2>2
    <3>3. QED
      BY <1>1, <3>1, <3>2, ElsewhereKeep
  <2>3. QED
    BY <2>1, <2>2
<1>5. IsFiniteSet(follows')
  BY DEF CountInv
<1>6. QED
  BY <1>1, <1>2, <1>3, <1>4, <1>5, StepKeepsCounts

\* A request that raises half-way, and one of nobody.
LEMMA RaisedKeeps ==
  ASSUME FollowsTypeOK, CountInv, OwnersDistinct, NEW c \in Clients,
         NotLoggedIn(c) \/ (FollowAbort(c) /\ ~FollowAt(c, "find"))
  PROVE  CountInv'
<1>1. PICK f : f = client[c].followed
  OBVIOUS
<1>2. /\ client' = [client EXCEPT ![c] = Blank] /\ died \subseteq died'
      /\ UNCHANGED <<follows, following_count, follower_count, contended, unoffered>>
  BY DEF NotLoggedIn, FollowAbort, FollowDone, followTables, followHistory
<1>3. /\ Owner[c] \notin FollowUsers \ (died' \cup FollowClashing \cup unoffered')
      /\ f \notin FollowUsers \ (died' \cup FollowClashing \cup contended' \cup unoffered')
  <2>1. CASE NotLoggedIn(c)
    <3>1. Owner[c] = Nobody /\ client[c] # Blank
      BY <2>1 DEF NotLoggedIn, FollowAt
    <3>2. ~Offered(c)
      BY <3>1 DEF CountInv, ButtonRight
    <3>3. f \notin FollowUsers \ unoffered
      BY <1>1, <3>1, <3>2 DEF Offered
    <3>4. QED
      BY <1>2, <3>1, <3>3, FollowsAssumption
  <2>2. CASE FollowAbort(c)
    BY <1>1, <2>2 DEF FollowAbort
  <2>3. QED
    BY <2>1, <2>2
<1>4. QED
  BY <1>1, <1>2, <1>3, ExitKeeps

\* The save of follower_count.
LEMMA SaveFollowersKeeps ==
  ASSUME FollowsTypeOK, CountInv, OwnersDistinct, NEW c \in Clients, SaveFollowers(c)
  PROVE  CountInv'
<1>1. PICK f, kind : f = client[c].followed /\ kind = client[c].kind
  OBVIOUS
<1>2. /\ client[c] # Blank /\ client[c].at = "followers"
      /\ client' = [client EXCEPT ![c] = Blank]
      /\ UNCHANGED <<follows, following_count, died, contended, unoffered>>
  BY DEF SaveFollowers, FollowDone, FollowAt, followHistory
<1>3. f \in FollowUsers
  BY <1>1, <1>2 DEF FollowsTypeOK, Waiting, FollowAt
<1>4. /\ \A g \in FollowUsers : g # f => follower_count'[g] = follower_count[g]
      /\ f \notin FollowClashing => follower_count'[f] = Adjusted(kind, client[c].seen)
  BY <1>1, <1>3 DEF SaveFollowers, SavedColumn, FollowsTypeOK
<1>5. client'[c] = Blank /\ \A d \in Clients : d # c => client'[d] = client[d]
  BY <1>2 DEF FollowsTypeOK
<1>6. ASSUME f \in FollowUsers \ (died' \cup FollowClashing \cup contended' \cup unoffered')
      PROVE  FollowerRight(f)'
  <2>1. c \in About(f)
    BY <1>1, <1>2 DEF About, Waiting, FollowAt
  <2>2. FollowerRight(f)
    BY <1>2, <1>6 DEF CountInv
  <2>3. PICK n, count : /\ n = Cardinality({r \in follows : r.followed = f})
                        /\ count = follower_count[f]
    OBVIOUS
  <2>4. /\ \A d \in About(f) : d = c
        /\ client[c].seen = count
        /\ Owing(count, n, kind)
    BY <1>1, <1>2, <2>1, <2>2, <2>3 DEF FollowerRight
  <2>5. IsFiniteSet({r \in follows : r.followed = f})
    BY FS_Subset DEF CountInv
  <2>6. n \in Nat
    BY <2>3, <2>5, FS_CardinalityType
  <2>7. count \in Nat
    BY <1>3, <2>3 DEF FollowsTypeOK
  <2>8. Adjusted(kind, count) = n
    BY <2>4, <2>6, <2>7, Paid
  <2>9. follower_count'[f] = n
    BY <1>4, <1>6, <2>4, <2>8
  <2>10. c \notin About(f)'
    BY <1>5 DEF About, Waiting
  <2>11. Cardinality({r \in follows' : r.followed = f}) = n
    BY <1>2, <2>3
  <2>12. QED
    BY <1>5, <2>4, <2>9, <2>10, <2>11, HereKeeps
<1>7. ~FollowAt(c, "load") /\ ~FollowAt(c, "following")
  BY <1>2 DEF FollowAt
<1>8. QED
  BY <1>1, <1>2, <1>4, <1>6, <1>7, ExitKeeps

\* The counters of the users table are what they count, and between the change
\* of the follows table and the save of a counter that counter is off by the one
\* row of the request in flight, for any number of clients that belong to
\* different users.
THEOREM CountInvariant ==
  ASSUME OwnersDistinct
  PROVE  FollowsSpec => []CountInv
<1>1. FollowsInit => CountInv
  <2> SUFFICES ASSUME FollowsInit PROVE CountInv
    OBVIOUS
  <2>1. IsFiniteSet(follows)
    BY FS_EmptySet DEF FollowsInit
  <2>2. Cardinality({}) = 0
    BY FS_EmptySet
  <2>3. ASSUME NEW u
        PROVE  /\ Cardinality({r \in follows : r.follower = u}) = 0
               /\ Cardinality({r \in follows : r.followed = u}) = 0
    <3>1. {r \in follows : r.follower = u} = {} /\ {r \in follows : r.followed = u} = {}
      BY DEF FollowsInit
    <3>2. QED
      BY <2>2, <3>1
  <2>4. ASSUME NEW c \in Clients
        PROVE  ~Offered(c) /\ DestroysOne(c) /\ ~FollowAt(c, "load") /\ ~FollowAt(c, "following")
    BY DEF FollowsInit, Offered, DestroysOne, FollowAt
  <2>5. ASSUME NEW c \in Clients, Owner[c] \in FollowUsers
        PROVE  FollowingRight(c)
    BY <2>3, <2>4, <2>5 DEF FollowingRight, FollowsInit
  <2>6. ASSUME NEW f \in FollowUsers
        PROVE  FollowerRight(f)
    <3>1. About(f) = {}
      BY DEF About, Waiting, FollowsInit
    <3>2. QED
      BY <2>3, <3>1 DEF FollowerRight, FollowsInit
  <2>7. FollowCountsExact
    BY <2>3 DEF FollowCountsExact, FollowingCountExact, FollowerCountExactAlone, FollowsInit
  <2>8. QED
    BY <2>1, <2>4, <2>5, <2>6, <2>7 DEF CountInv
<1>2. FollowsTypeOK /\ EffectInv /\ CountInv /\ [FollowsNext]_followVars => CountInv'
  <2> SUFFICES ASSUME FollowsTypeOK, EffectInv, CountInv, [FollowsNext]_followVars PROVE CountInv'
    OBVIOUS
  <2>1. CASE UNCHANGED followVars
    <3>1. UNCHANGED <<follows, following_count, follower_count, client, died, contended, unoffered>>
      BY <2>1 DEF followVars
    <3>2. \A c \in Clients : /\ Offered(c)' <=> Offered(c)
                             /\ ButtonRight(c)' <=> ButtonRight(c)
                             /\ DestroysOne(c)' <=> DestroysOne(c)
      BY <3>1 DEF Offered, ButtonRight, DestroysOne, Rows, FollowAt
    <3>3. \A c \in Clients : FollowingRight(c)' <=> FollowingRight(c)
      BY <3>1 DEF FollowingRight, FollowAt, Owing
    <3>4. \A f : About(f)' = About(f)
      BY <3>1 DEF About, Waiting, FollowAt
    <3>5. \A f : FollowerRight(f)' <=> FollowerRight(f)
      BY <3>1, <3>4 DEF FollowerRight, Owing
    <3>6. FollowCountsExact' <=> FollowCountsExact
      BY <3>1 DEF FollowCountsExact, FollowingCountExact, FollowerCountExactAlone, Waiting
    <3>7. QED
      BY <3>1, <3>2, <3>3, <3>5, <3>6 DEF CountInv
  <2>2. ASSUME NEW c \in Clients, FollowStep(c) \/ FollowAbort(c) PROVE CountInv'
    <3>1. CASE FollowStep(c)
      BY <3>1, FindKeeps, OutsideSteps, InsideSteps, TableSteps, SaveFollowingKeeps,
         SaveFollowersKeeps, RaisedKeeps DEF FollowStep
    <3>2. CASE FollowAbort(c)
      BY <3>2, OutsideSteps, RaisedKeeps
    <3>3. QED
      BY <2>2, <3>1, <3>2
  <2>3. QED
    BY <2>1, <2>2, OutsideSteps DEF FollowsNext
<1>3. QED
  BY <1>1, <1>2, TypeCorrect, EffectInvariant, PTL DEF FollowsSpec

\* following_count and follower_count, which the handlers adjust with a read, an
\* increment and a save instead of counting rows, are the numbers of rows of the
\* follows table once the requests in flight are over: for every user none of
\* whose requests died, was not offered by a page or, for follower_count, ran at
\* the same time as another about the same user.
THEOREM CountersExact ==
  ASSUME OwnersDistinct
  PROVE  FollowsSpec => []FollowCountsExact
  BY CountInvariant, PTL DEF CountInv

=============================================================================
