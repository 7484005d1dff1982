--------------------------- MODULE AccountsProofs ---------------------------
(***************************************************************************)
(* Proofs about Accounts: the users table and the sessions of the browsers *)
(* are sound for any number of names, browsers, threads and requests.      *)
(***************************************************************************)
EXTENDS Accounts, TLAPS

\* A thread is active when its record is that of a request.
LEMMA ActiveIff ==
  ASSUME AccountsTyped, NEW th \in Threads
  PROVE  /\ Active(th) <=> req[th] \in Request
         /\ Active(th) <=> req[th] # NoRequest
<1>1. req[th] \in Request \/ req[th] = NoRequest
  BY DEF AccountsTyped
<1>2. ASSUME req[th] \in Request PROVE req[th].at # "idle"
  BY <1>2 DEF Request
<1>3. NoRequest.at = "idle"
  BY DEF NoRequest
<1>4. QED
  BY <1>1, <1>2, <1>3 DEF Active

\* A step that only moves the request of one thread on keeps the invariant, if
\* it does so for that request.
LEMMA ServeKeeps ==
  ASSUME AccountsInv, NEW th \in Threads, Active(th), NEW q \in Request,
         req' = [req EXCEPT ![th] = q],
         q.browser = req[th].browser,
         UNCHANGED <<users, nextUserId, cookie, requests, accountAborts, loggedIn, raced, mixed>>,
         earned' \in [Browsers -> SUBSET Nat],
         \A b \in Browsers : earned[b] \subseteq earned'[b],
         q.session.user \in earned'[q.browser] \cup {NoUser},
         RegistrationSound(q), SessionKept(q), RejectedOnlyIfClash'
  PROVE  AccountsInv'
<1>1. /\ AccountsTyped
      /\ req'[th] = q
      /\ \A u \in Threads : u # th => req'[u] = req[u]
  BY DEF AccountsInv, AccountsTyped
<1>2. AccountsTyped'
  BY DEF AccountsInv, AccountsTyped
<1>3. \A u \in Threads : Active(u)' <=> Active(u)
  <2> SUFFICES ASSUME NEW u \in Threads PROVE Active(u)' <=> Active(u)
    OBVIOUS
  <2>1. CASE u = th
    BY <1>1, <2>1 DEF Active, Request
  <2>2. CASE u # th
    BY <1>1, <2>2 DEF Active
  <2>3. QED
    BY <2>1, <2>2
<1>4. IdsPast' /\ UniqueUnlessRaced'
  BY DEF AccountsInv, IdsPast, UniqueUnlessRaced, Clash
<1>5. RequestsSound'
  <2> SUFFICES ASSUME NEW u \in Threads, Active(u)
               PROVE  (RegistrationSound(req[u]) /\ SessionKept(req[u]))'
    BY <1>3 DEF RequestsSound
  <2>1. PICK p : p = req'[u]
    OBVIOUS
  <2>2. RegistrationSound(p) /\ SessionKept(p)
    <3>1. CASE u = th
      BY <1>1, <2>1, <3>1
    <3>2. CASE u # th
      BY <1>1, <2>1, <3>2 DEF AccountsInv, RequestsSound
    <3>3. QED
      BY <3>1, <3>2
  <2>3. RegistrationSound(p)' /\ SessionKept(p)'
    BY <2>2 DEF RegistrationSound, SessionKept, HasRow, Clash
  <2>4. QED
    BY <2>1, <2>3 DEF RegistrationSound, SessionKept, HasRow
<1>6. OneAtATime'
  BY <1>1, <1>3 DEF AccountsInv, OneAtATime
<1>7. SessionEarned'
  <2>1. \A b \in Browsers : cookie'[b].user \in earned'[b] \cup {NoUser}
    BY DEF AccountsInv, SessionEarned
  <2>2. ASSUME NEW u \in Threads, Active(u)
        PROVE  req'[u].session.user \in earned'[req'[u].browser] \cup {NoUser}
    <3>1. CASE u = th
      BY <1>1, <3>1
    <3>2. CASE u # th
      <4>1. req[u] \in Request
        BY <1>1, <2>2, ActiveIff
      <4>2. req[u].browser \in Browsers
        BY <4>1 DEF Request
      <4>3. req[u].session.user \in earned[req[u].browser] \cup {NoUser}
        BY <2>2 DEF AccountsInv, SessionEarned
      <4>4. QED
        BY <1>1, <3>2, <4>2, <4>3
    <3>3. QED
      BY <3>1, <3>2
  <2>3. QED
    BY <1>3, <2>1, <2>2 DEF SessionEarned
<1>8. LoginSticksAlone'
  BY DEF AccountsInv, LoginSticksAlone
<1>9. QED
  BY <1>2, <1>4, <1>5, <1>6, <1>7, <1>8 DEF AccountsInv

\* What the helpers do to a session.
LEMMA Sessions ==
  ASSUME NEW s \in Session, NEW u \in Nat \cup {NoUser}
  PROVE  /\ LoggedInAs(s, u) \in Session /\ LoggedInAs(s, u).user = u
         /\ [s EXCEPT !.asked = TRUE] \in Session /\ [s EXCEPT !.asked = TRUE].user = s.user
         /\ \A kind : \A e \in {"", "incorrect"} :
              Submitted(kind, s, e) \in Session /\ Submitted(kind, s, e).user = s.user
BY DEF Session, LoggedInAs, Submitted

\* Serve leaves a request with the fields it is given and the others as they were.
LEMMA Served ==
  ASSUME NEW th \in Threads, req[th] \in Request,
         NEW step \in {"registration", "insert", "registered", "rejected", "respond"},
         NEW session \in Session, NEW id \in Nat \cup {NoUser}, NEW saves \in {1, 2},
         NEW page \in Nat \cup {NoUser}, Serve(th, step, session, id, saves, page)
  PROVE  \E q \in Request :
           /\ req' = [req EXCEPT ![th] = q]
           /\ q.at = step /\ q.session = session /\ q.id = id
           /\ q.kind = req[th].kind /\ q.browser = req[th].browser /\ q.sent = req[th].sent
           /\ q.params = req[th].params
<1>1. PICK q : q = [at |-> step, kind |-> req[th].kind, browser |-> req[th].browser,
                    sent |-> req[th].sent, session |-> session, params |-> req[th].params,
                    id |-> id, saves |-> saves, page |-> page]
  OBVIOUS
<1>2. q \in Request
  BY <1>1 DEF Request
<1>3. req' = [req EXCEPT ![th] = q]
  BY <1>1 DEF Serve
<1>4. QED
  BY <1>1, <1>2, <1>3

\* The same for the last step of a handler.
LEMMA ServedLast ==
  ASSUME NEW th \in Threads, req[th] \in Request, NEW session \in Session,
         NEW page \in Nat \cup {NoUser},
         Serve(th, "respond", session, req[th].id, req[th].saves, page)
  PROVE  \E q \in Request :
           /\ req' = [req EXCEPT ![th] = q]
           /\ q.at = "respond" /\ q.session = session /\ q.id = req[th].id
           /\ q.kind = req[th].kind /\ q.browser = req[th].browser /\ q.sent = req[th].sent
           /\ q.params = req[th].params
<1>1. PICK id \in Nat \cup {NoUser}, saves \in {1, 2} : id = req[th].id /\ saves = req[th].saves
  BY DEF Request
<1>2. PICK q : q = [at |-> "respond", kind |-> req[th].kind, browser |-> req[th].browser,
                    sent |-> req[th].sent, session |-> session, params |-> req[th].params,
                    id |-> id, saves |-> saves, page |-> page]
  OBVIOUS
<1>3. q \in Request
  BY <1>2 DEF Request
<1>4. req' = [req EXCEPT ![th] = q]
  BY <1>1, <1>2 DEF Serve
<1>5. /\ q.at = "respond" /\ q.session = session /\ q.id = req[th].id
      /\ q.kind = req[th].kind /\ q.browser = req[th].browser /\ q.sent = req[th].sent
      /\ q.params = req[th].params
  BY <1>1, <1>2
<1>6. QED
  BY <1>3, <1>4, <1>5

\* A step that leaves the users table alone leaves it sound.
LEMMA TableKept ==
  ASSUME AccountsInv, UNCHANGED <<users, nextUserId, raced, turnedAway>>
  PROVE  IdsPast' /\ UniqueUnlessRaced' /\ RejectedOnlyIfClash'
<1>1. IdsPast'
  BY DEF AccountsInv, IdsPast
<1>2. UniqueUnlessRaced'
  BY DEF AccountsInv, UniqueUnlessRaced
<1>3. RejectedOnlyIfClash'
  BY DEF AccountsInv, RejectedOnlyIfClash
<1>4. QED
  BY <1>1, <1>2, <1>3

\* The facts about the request of a thread that every action starts from.
LEMMA RequestFacts ==
  ASSUME AccountsInv, NEW th \in Threads, Active(th)
  PROVE  /\ req[th] \in Request
         /\ req[th].browser \in Browsers /\ req[th].sent \in Session /\ req[th].session \in Session
         /\ req[th].params \in Params /\ req[th].id \in Nat \cup {NoUser}
         /\ req[th].saves \in {1, 2} /\ req[th].page \in Nat \cup {NoUser}
         /\ RegistrationSound(req[th]) /\ SessionKept(req[th])
         /\ req[th].session.user \in earned[req[th].browser] \cup {NoUser}
         /\ earned \in [Browsers -> SUBSET Nat]
<1>1. req[th] \in Request
  BY ActiveIff DEF AccountsInv
<1>2. QED
  BY <1>1 DEF AccountsInv, AccountsTyped, RequestsSound, SessionEarned, Request

\* The validations of a registration: a record whose own row is there is
\* rejected only when another row clashes with it.
LEMMA ValidateKeeps ==
  ASSUME AccountsInv, NEW th \in Threads, ValidateUser(th)
  PROVE  AccountsInv'
<1>1. Active(th) /\ req[th].at = "registration"
  BY DEF ValidateUser, At, Active
<1>2. /\ req[th] \in Request /\ req[th].id \in Nat \cup {NoUser}
      /\ req[th].saves \in {1, 2} /\ req[th].page \in Nat \cup {NoUser}
      /\ req[th].browser \in Browsers /\ req[th].session \in Session
      /\ RegistrationSound(req[th]) /\ SessionKept(req[th])
      /\ req[th].session.user \in earned[req[th].browser] \cup {NoUser}
      /\ earned \in [Browsers -> SUBSET Nat]
  BY <1>1, RequestFacts
<1>3. UNCHANGED <<users, nextUserId, cookie, requests, accountAborts, earned, loggedIn, raced, mixed,
                  turnedAway>>
  BY DEF ValidateUser, accountHistory
<1>4. RejectedOnlyIfClash'
  BY <1>3 DEF AccountsInv, RejectedOnlyIfClash, Clash
<1>5. \E step \in {"registration", "insert", "registered", "rejected"},
         id \in {req[th].id, NoUser}, saves \in {1, 2} :
          /\ Serve(th, step, req[th].session, id, saves, req[th].page)
          /\ step = "insert" => Valid(req[th].params, req[th].id) /\ id = NoUser /\ req[th].id = NoUser
          /\ step = "registered" => id # NoUser
          /\ step = "rejected" => ~Valid(req[th].params, req[th].id)
  <2>1. CASE Valid(req[th].params, req[th].id) /\ req[th].id = NoUser
    BY <1>2, <2>1 DEF ValidateUser, Goto
  <2>2. CASE Valid(req[th].params, req[th].id) /\ req[th].id # NoUser
    BY <1>2, <2>2 DEF ValidateUser, Goto
  <2>3. CASE ~Valid(req[th].params, req[th].id)
    BY <1>2, <2>3 DEF ValidateUser, Goto
  <2>4. QED
    BY <2>1, <2>2, <2>3
<1>6. PICK step \in {"registration", "insert", "registered", "rejected"},
           id \in {req[th].id, NoUser}, saves \in {1, 2} :
          /\ Serve(th, step, req[th].session, id, saves, req[th].page)
          /\ step = "insert" => Valid(req[th].params, req[th].id) /\ id = NoUser /\ req[th].id = NoUser
          /\ step = "registered" => id # NoUser
          /\ step = "rejected" => ~Valid(req[th].params, req[th].id)
  BY <1>5
<1>7. PICK q \in Request :
           /\ req' = [req EXCEPT ![th] = q]
           /\ q.at = step /\ q.session = req[th].session /\ q.id = id
           /\ q.kind = req[th].kind /\ q.browser = req[th].browser /\ q.sent = req[th].sent
           /\ q.params = req[th].params
  <2>1. /\ step \in {"registration", "insert", "registered", "rejected", "respond"}
        /\ id \in Nat \cup {NoUser}
    BY <1>2, <1>6
  <2>2. PICK session \in Session, page \in Nat \cup {NoUser} :
               session = req[th].session /\ page = req[th].page
    BY <1>2
  <2>3. Serve(th, step, session, id, saves, page)
    BY <1>6, <2>2 DEF Serve
  <2>4. PICK q : q = [at |-> step, kind |-> req[th].kind, browser |-> req[th].browser,
                      sent |-> req[th].sent, session |-> session, params |-> req[th].params,
                      id |-> id, saves |-> saves, page |-> page]
    OBVIOUS
  <2>5. req[th] \in Request
    BY <1>2
  <2>6. q \in Request
    BY <2>1, <2>4, <2>5 DEF Request
  <2>7. req' = [req EXCEPT ![th] = q]
    BY <2>3, <2>4 DEF Serve
  <2>8. /\ q.at = step /\ q.session = req[th].session /\ q.id = id
        /\ q.kind = req[th].kind /\ q.browser = req[th].browser /\ q.sent = req[th].sent
        /\ q.params = req[th].params
    BY <2>2, <2>4
  <2>9. QED
    BY <2>6, <2>7, <2>8
<1>8. SessionKept(q)
  BY <1>2, <1>6, <1>7 DEF SessionKept
<1>9. RegistrationSound(q)
  <2>1. q.params.password # Missing
    BY <1>1, <1>2, <1>7 DEF RegistrationSound
  <2>2. q.at = "insert" =>
          /\ q.params.user_name # Missing /\ q.params.email # Missing
          /\ \A r \in users : r.user_name # q.params.user_name /\ r.email # q.params.email
    <3>1. \A r \in users : r.id # NoUser
      BY AccountsAssumption DEF AccountsInv, AccountsTyped, Row
    <3>2. QED
      BY <1>6, <1>7, <3>1 DEF Valid
  <2>3. q.id # NoUser => HasRow(q.params, q.id)
    BY <1>2, <1>6, <1>7 DEF RegistrationSound
  <2>4. ASSUME q.at = "rejected", q.id # NoUser
        PROVE  \E r, s \in users : r.id = q.id /\ Clash(r, s)
    <3>1. q.id = req[th].id /\ ~Valid(q.params, q.id)
      BY <1>6, <1>7, <2>4
    <3>2. PICK r \in users : r.id = q.id /\ r.user_name = q.params.user_name /\ r.email = q.params.email
      BY <2>3, <2>4 DEF HasRow
    <3>3. r.user_name \in Names /\ r.email \in Emails
      BY <3>2 DEF AccountsInv, AccountsTyped, Row
    <3>4. q.params.user_name # Missing /\ q.params.email # Missing
      BY <3>2, <3>3, AccountsAssumption
    <3>5. PICK s \in users : s.id # q.id /\ (s.user_name = q.params.user_name \/ s.email = q.params.email)
      BY <3>1, <3>4 DEF Valid
    <3>6. Clash(r, s)
      BY <3>2, <3>5 DEF Clash
    <3>7. QED
      BY <3>2, <3>5, <3>6
  <2>5. QED
    BY <1>6, <1>7, <2>1, <2>2, <2>3, <2>4 DEF RegistrationSound
<1>10. QED
  BY <1>1, <1>2, <1>3, <1>4, <1>7, <1>8, <1>9, ServeKeeps

\* A handler that is through keeps the invariant, whatever session it leaves
\* that the browser has earned and that only a logout has emptied.
LEMMA DoneKeeps ==
  ASSUME AccountsInv, NEW th \in Threads, Active(th),
         NEW session \in Session, NEW page \in Nat \cup {NoUser},
         Serve(th, "respond", session, req[th].id, req[th].saves, page),
         UNCHANGED <<users, nextUserId, cookie, requests, accountAborts, loggedIn, raced, mixed>>,
         earned' \in [Browsers -> SUBSET Nat],
         \A b \in Browsers : earned[b] \subseteq earned'[b],
         session.user \in earned'[req[th].browser] \cup {NoUser},
         req[th].kind # "logout" /\ req[th].sent.user # NoUser => session.user # NoUser,
         RejectedOnlyIfClash'
  PROVE  AccountsInv'
<1>1. /\ req[th] \in Request /\ req[th].id \in Nat \cup {NoUser} /\ req[th].saves \in {1, 2}
      /\ RegistrationSound(req[th]) /\ SessionKept(req[th])
  BY RequestFacts
<1>2. PICK q \in Request :
           /\ req' = [req EXCEPT ![th] = q]
           /\ q.at = "respond" /\ q.session = session /\ q.id = req[th].id
           /\ q.kind = req[th].kind /\ q.browser = req[th].browser /\ q.sent = req[th].sent
           /\ q.params = req[th].params
  BY <1>1, ServedLast
<1>3. RegistrationSound(q)
  BY <1>1, <1>2 DEF RegistrationSound
<1>4. SessionKept(q)
  BY <1>1, <1>2 DEF SessionKept
<1>5. q.session.user \in earned'[q.browser] \cup {NoUser}
  BY <1>2
<1>6. QED
  BY <1>2, <1>3, <1>4, <1>5, ServeKeeps

\* The end of a registration, of either outcome.
LEMMA RegisteredKeeps ==
  ASSUME AccountsInv, NEW th \in Threads, Registered(th) \/ Rejected(th)
  PROVE  AccountsInv'
<1>1. Active(th)
  BY DEF Registered, Rejected, At, Active
<1>2. /\ req[th].id \in Nat \cup {NoUser} /\ req[th].page \in Nat \cup {NoUser}
      /\ req[th].browser \in Browsers /\ req[th].session \in Session
      /\ RegistrationSound(req[th]) /\ SessionKept(req[th])
      /\ req[th].session.user \in earned[req[th].browser] \cup {NoUser}
      /\ earned \in [Browsers -> SUBSET Nat]
  BY <1>1, RequestFacts
<1>3. PICK page \in Nat \cup {NoUser} : page = req[th].page
  BY <1>2
<1>4. CASE Registered(th)
  <2>1. req[th].id \in Nat
    BY <1>2, <1>4 DEF Registered, At, RegistrationSound
  <2>2. PICK session \in Session : session = LoggedInAs(req[th].session, req[th].id)
    BY <1>2, Sessions
  <2>3. session.user = req[th].id
    BY <1>2, <2>2, Sessions
  <2>4. Serve(th, "respond", session, req[th].id, req[th].saves, page)
    BY <1>3, <1>4, <2>2 DEF Registered, Done, Serve
  <2>5. /\ UNCHANGED <<users, nextUserId, cookie, requests, accountAborts, loggedIn, raced, mixed, turnedAway>>
        /\ earned' = [earned EXCEPT ![req[th].browser] = @ \cup {req[th].id}]
    BY <1>4 DEF Registered
  <2>6. /\ earned' \in [Browsers -> SUBSET Nat]
        /\ \A b \in Browsers : earned[b] \subseteq earned'[b]
        /\ session.user \in earned'[req[th].browser] \cup {NoUser}
    BY <1>2, <2>1, <2>3, <2>5
  <2>7. RejectedOnlyIfClash'
    BY <2>5 DEF AccountsInv, RejectedOnlyIfClash, Clash
  <2>8. session.user # NoUser
    BY <2>1, <2>3, AccountsAssumption
  <2>9. QED
    BY <1>1, <2>4, <2>5, <2>6, <2>7, <2>8, DoneKeeps
<1>5. CASE Rejected(th)
  <2>1. PICK session \in Session : session = req[th].session
    BY <1>2
  <2>2. Serve(th, "respond", session, req[th].id, req[th].saves, page)
    BY <1>3, <1>5, <2>1 DEF Rejected, Done, Serve
  <2>3. /\ UNCHANGED <<users, nextUserId, cookie, requests, accountAborts, earned, loggedIn, raced, mixed>>
        /\ turnedAway' = turnedAway \cup ({req[th].id} \ {NoUser})
    BY <1>5 DEF Rejected
  <2>4. RejectedOnlyIfClash'
    <3>1. \A i \in turnedAway : \E r, s \in users : r.id = i /\ Clash(r, s)
      BY DEF AccountsInv, RejectedOnlyIfClash
    <3>2. req[th].id # NoUser => \E r, s \in users : r.id = req[th].id /\ Clash(r, s)
      BY <1>2, <1>5 DEF Rejected, At, RegistrationSound
    <3>3. QED
      BY <2>3, <3>1, <3>2 DEF RejectedOnlyIfClash, Clash
  <2>5. /\ session.user \in earned'[req[th].browser] \cup {NoUser}
        /\ req[th].kind # "logout" /\ req[th].sent.user # NoUser => session.user # NoUser
    BY <1>2, <2>1, <2>3 DEF SessionKept
  <2>6. QED
    BY <1>1, <1>2, <2>2, <2>3, <2>4, <2>5, DoneKeeps
<1>6. QED
  BY <1>4, <1>5

\* Login, logout and GET /.
LEMMA LoginKeeps ==
  ASSUME AccountsInv, NEW th \in Threads,
         LoginSucceeds(th) \/ LoginFails(th) \/ LogOut(th) \/ ShowHome(th) \/ ShowFront(th)
  PROVE  AccountsInv'
<1>1. Active(th)
  BY DEF LoginSucceeds, LoginFails, LogOut, ShowHome, ShowFront, At, Active
<1>2. /\ req[th].id \in Nat \cup {NoUser} /\ req[th].page \in Nat \cup {NoUser}
      /\ req[th].browser \in Browsers /\ req[th].session \in Session
      /\ RegistrationSound(req[th]) /\ SessionKept(req[th])
      /\ req[th].session.user \in earned[req[th].browser] \cup {NoUser}
      /\ earned \in [Browsers -> SUBSET Nat]
  BY <1>1, RequestFacts
<1>3. /\ UNCHANGED <<users, nextUserId, cookie, requests, accountAborts, loggedIn, raced, mixed, turnedAway>>
      /\ ~LoginSucceeds(th) => UNCHANGED earned
  BY DEF LoginSucceeds, LoginFails, LogOut, ShowHome, ShowFront, accountHistory
<1>4. RejectedOnlyIfClash'
  BY <1>3 DEF AccountsInv, RejectedOnlyIfClash, Clash
<1>5. CASE LoginSucceeds(th)
  <2>1. PICK r \in users :
          /\ Done(th, Submitted(req[th].kind, LoggedInAs(req[th].session, r.id), ""))
          /\ earned' = [earned EXCEPT ![req[th].browser] = @ \cup {r.id}]
    BY <1>5 DEF LoginSucceeds, Found
  <2>2. r.id \in Nat
    BY DEF AccountsInv, AccountsTyped, Row
  <2>3. PICK inner \in Session : inner = LoggedInAs(req[th].session, r.id) /\ inner.user = r.id
    <3>1. PICK id \in Nat \cup {NoUser} : id = r.id
      BY <2>2
    <3>2. LoggedInAs(req[th].session, id) \in Session /\ LoggedInAs(req[th].session, id).user = id
      BY <1>2, Sessions
    <3>3. QED
      BY <3>1, <3>2
  <2>4. PICK session \in Session : session = Submitted(req[th].kind, inner, "") /\ session.user = r.id
    <3>1. \A kind : Submitted(kind, inner, "") \in Session /\ Submitted(kind, inner, "").user = inner.user
      BY Sessions
    <3>2. QED
      BY <2>3, <3>1
  <2>5. PICK page \in Nat \cup {NoUser} : page = req[th].page
    BY <1>2
  <2>6. Serve(th, "respond", session, req[th].id, req[th].saves, page)
    BY <2>1, <2>3, <2>4, <2>5 DEF Done, Serve
  <2>7. /\ earned' \in [Browsers -> SUBSET Nat]
        /\ \A b \in Browsers : earned[b] \subseteq earned'[b]
        /\ session.user \in earned'[req[th].browser] \cup {NoUser}
        /\ session.user # NoUser
    BY <1>2, <2>1, <2>2, <2>4, AccountsAssumption
  <2>8. QED
    BY <1>1, <1>3, <1>4, <2>6, <2>7, DoneKeeps
<1>6. CASE ~LoginSucceeds(th)
  <2>1. \E session \in Session, page \in Nat \cup {NoUser} :
          /\ Serve(th, "respond", session, req[th].id, req[th].saves, page)
          /\ session.user \in {req[th].session.user, NoUser}
          /\ req[th].kind # "logout" => session.user = req[th].session.user
    <3>1. CASE LoginFails(th)
      <4>1. PICK session \in Session : /\ session = Submitted(req[th].kind, req[th].session, "incorrect")
                                      /\ session.user = req[th].session.user
        BY <1>2, Sessions
      <4>2. Serve(th, "respond", session, req[th].id, req[th].saves, req[th].page)
        BY <3>1, <4>1 DEF LoginFails, Done, Serve
      <4>3. QED
        BY <1>2, <4>1, <4>2
    <3>2. CASE LogOut(th)
      <4>1. PICK session \in Session : session = LoggedInAs(req[th].session, NoUser) /\ session.user = NoUser
        BY <1>2, Sessions, ZenonT(30)
      <4>2. Serve(th, "respond", session, req[th].id, req[th].saves, req[th].page)
        BY <3>2, <4>1 DEF LogOut, Done, Serve
      <4>3. req[th].kind = "logout"
        BY <1>2, <3>2 DEF LogOut, At, SessionKept
      <4>4. QED
        BY <1>2, <4>1, <4>2, <4>3
    <3>3. CASE ShowHome(th)
      <4>1. Serve(th, "respond", req[th].session, req[th].id, req[th].saves, req[th].session.user)
        BY <3>3 DEF ShowHome
      <4>2. req[th].session.user \in Nat \cup {NoUser}
        BY <1>2 DEF Session
      <4>3. QED
        BY <1>2, <4>1, <4>2
    <3>4. CASE ShowFront(th)
      <4>1. PICK session \in Session : /\ session = [req[th].session EXCEPT !.asked = TRUE]
                                      /\ session.user = req[th].session.user
        BY <1>2, Sessions
      <4>2. Serve(th, "respond", session, req[th].id, req[th].saves, req[th].page)
        BY <3>4, <4>1 DEF ShowFront, Done, Serve
      <4>3. QED
        BY <1>2, <4>1, <4>2
    <3>5. QED
      BY <1>6, <3>1, <3>2, <3>3, <3>4
  <2>2. PICK session \in Session, page \in Nat \cup {NoUser} :
          /\ Serve(th, "respond", session, req[th].id, req[th].saves, page)
          /\ session.user \in {req[th].session.user, NoUser}
          /\ req[th].kind # "logout" => session.user = req[th].session.user
    BY <2>1
  <2>3. /\ session.user \in earned'[req[th].browser] \cup {NoUser}
        /\ req[th].kind # "logout" /\ req[th].sent.user # NoUser => session.user # NoUser
    BY <1>2, <1>3, <1>6, <2>2 DEF SessionKept
  <2>4. QED
    BY <1>1, <1>2, <1>3, <1>4, <1>6, <2>2, <2>3, DoneKeeps
<1>7. QED
  BY <1>5, <1>6

\* The INSERT: only a row inserted since the validation can be in its way, and
\* such a row was inserted while this thread was about to insert.
LEMMA InsertKeeps ==
  ASSUME AccountsInv, NEW th \in Threads, InsertUser(th)
  PROVE  AccountsInv'
<1>1. Active(th) /\ req[th].at = "insert" /\ AccountsTyped
  BY DEF InsertUser, At, Active, AccountsInv
<1>2. /\ req[th] \in Request /\ req[th].params \in Params /\ req[th].page \in Nat \cup {NoUser}
      /\ req[th].session \in Session
      /\ RegistrationSound(req[th]) /\ SessionKept(req[th])
      /\ req[th].session.user \in earned[req[th].browser] \cup {NoUser}
  BY <1>1, RequestFacts
<1>3. nextUserId \in Nat /\ nextUserId # NoUser
  BY <1>1, AccountsAssumption DEF AccountsTyped
<1>4. PICK row : row = [id |-> nextUserId, user_name |-> req[th].params.user_name,
                        email |-> req[th].params.email, password |-> req[th].params.password]
  OBVIOUS
<1>5. row \in Row
  <2>1. /\ req[th].params.user_name # Missing /\ req[th].params.email # Missing
        /\ req[th].params.password # Missing
    BY <1>1, <1>2 DEF RegistrationSound
  <2>2. /\ req[th].params.user_name \in Names /\ req[th].params.email \in Emails
        /\ req[th].params.password \in Passwords
    BY <1>2, <2>1 DEF Params
  <2>3. QED
    BY <1>3, <1>4, <2>2 DEF Row
<1>6. row.id = nextUserId /\ row.user_name = req[th].params.user_name /\ row.email = req[th].params.email
  BY <1>4
<1>7. /\ users' = users \cup {row} /\ nextUserId' = nextUserId + 1
      /\ raced \subseteq raced'
      /\ (\E other \in Threads \ {th} : Active(other) /\ req[other].at = "insert") => nextUserId \in raced'
      /\ UNCHANGED <<cookie, requests, accountAborts, earned, loggedIn, mixed, turnedAway>>
  BY <1>4 DEF InsertUser, At
<1>8. PICK step \in {"registration", "insert", "registered", "rejected", "respond"},
           id \in Nat \cup {NoUser}, session \in Session, page \in Nat \cup {NoUser} :
        /\ step \in {"registration", "registered"} /\ id = nextUserId
        /\ session = req[th].session /\ page = req[th].page
        /\ Serve(th, step, session, id, 2, page)
  <2>1. PICK step \in {"registration", "registered"} : Goto(th, step, nextUserId, 2)
    BY DEF InsertUser
  <2>2. QED
    BY <1>2, <1>3, <2>1 DEF Goto, Serve
<1>9. PICK q \in Request :
           /\ req' = [req EXCEPT ![th] = q]
           /\ q.at = step /\ q.session = session /\ q.id = id
           /\ q.kind = req[th].kind /\ q.browser = req[th].browser /\ q.sent = req[th].sent
           /\ q.params = req[th].params
  <2>1. req[th] \in Request /\ Serve(th, step, session, id, 2, page)
    BY <1>2, <1>8
  <2>2. PICK q : q = [at |-> step, kind |-> req[th].kind, browser |-> req[th].browser,
                      sent |-> req[th].sent, session |-> session, params |-> req[th].params,
                      id |-> id, saves |-> 2, page |-> page]
    OBVIOUS
  <2>3. q \in Request
    BY <2>1, <2>2 DEF Request
  <2>4. req' = [req EXCEPT ![th] = q]
    BY <2>1, <2>2 DEF Serve
  <2>5. QED
    BY <2>2, <2>3, <2>4
<1>10. /\ req'[th] = q
       /\ \A u \in Threads : u # th => req'[u] = req[u]
       /\ \A u \in Threads : Active(u)' <=> Active(u)
  <2>1. /\ req'[th] = q
        /\ \A u \in Threads : u # th => req'[u] = req[u]
    BY <1>1, <1>9 DEF AccountsTyped
  <2>2. q.at # "idle"
    BY DEF Request
  <2>3. QED
    BY <1>1, <2>1, <2>2 DEF Active
<1>11. AccountsTyped' /\ IdsPast'
  <2>1. req' \in [Threads -> Request \cup {NoRequest}]
    BY <1>1, <1>9 DEF AccountsTyped
  <2>2. AccountsTyped'
    BY <1>1, <1>3, <1>5, <1>7, <2>1 DEF AccountsTyped
  <2>3. \A r \in users : r.id \in Nat /\ r.id < nextUserId
    BY DEF AccountsInv, AccountsTyped, IdsPast, Row
  <2>4. IdsPast'
    BY <1>3, <1>6, <1>7, <2>3 DEF IdsPast
  <2>5. QED
    BY <2>2, <2>4
<1>12. RequestsSound'
  <2> SUFFICES ASSUME NEW u \in Threads, Active(u)
               PROVE  (RegistrationSound(req[u]) /\ SessionKept(req[u]))'
    BY <1>10 DEF RequestsSound
  <2>1. PICK p : p = req'[u]
    OBVIOUS
  <2>2. CASE u = th
    <3>1. p = q
      BY <1>10, <2>1, <2>2
    <3>2. SessionKept(p)'
      BY <1>2, <1>7, <1>8, <1>9, <3>1 DEF SessionKept
    <3>3. HasRow(p.params, p.id)'
      BY <1>6, <1>7, <1>8, <1>9, <3>1 DEF HasRow
    <3>4. p.params.password # Missing /\ p.id # NoUser /\ p.at \in {"registration", "registered"}
      BY <1>1, <1>2, <1>3, <1>8, <1>9, <3>1 DEF RegistrationSound
    <3>5. RegistrationSound(p)'
      BY <3>3, <3>4 DEF RegistrationSound
    <3>6. QED
      BY <2>1, <3>2, <3>5 DEF RegistrationSound, SessionKept, HasRow
  <2>3. CASE u # th
    <3>1. p = req[u] /\ RegistrationSound(p) /\ SessionKept(p)
      BY <1>10, <2>1, <2>3 DEF AccountsInv, RequestsSound
    <3>2. SessionKept(p)'
      BY <1>7, <3>1 DEF SessionKept
    <3>3. p.at = "insert" => \A r \in users' :
            r.user_name = p.params.user_name \/ r.email = p.params.email => r.id \in raced'
      BY <1>6, <1>7, <2>3, <3>1 DEF RegistrationSound
    <3>4. p.id # NoUser => HasRow(p.params, p.id)'
      BY <1>7, <3>1 DEF RegistrationSound, HasRow
    <3>5. p.at = "rejected" /\ p.id # NoUser => (\E r, s \in users : r.id = p.id /\ Clash(r, s))'
      BY <1>7, <3>1 DEF RegistrationSound, Clash
    <3>6. RegistrationSound(p)'
      BY <3>1, <3>3, <3>4, <3>5 DEF RegistrationSound
    <3>7. QED
      BY <2>1, <3>2, <3>6 DEF RegistrationSound, SessionKept, HasRow
  <2>4. QED
    BY <2>2, <2>3
<1>13. UniqueUnlessRaced'
  <2> SUFFICES ASSUME NEW r \in users', NEW s \in users', Clash(r, s), r.id < s.id
               PROVE  r.id \in raced'
    BY DEF UniqueUnlessRaced, Clash
  <2>1. \A x \in users : x.id \in Nat /\ x.id < nextUserId
    BY DEF AccountsInv, AccountsTyped, IdsPast, Row
  <2>2. CASE r \in users /\ s \in users
    BY <1>7, <2>2 DEF AccountsInv, UniqueUnlessRaced
  <2>3. CASE r = row
    <3>1. s = row \/ (s.id < nextUserId /\ s.id \in Nat)
      BY <1>7, <2>1
    <3>2. QED
      BY <1>3, <1>6, <2>3, <3>1
  <2>4. CASE r \in users /\ s = row
    BY <1>1, <1>2, <1>6, <1>7, <2>4 DEF Clash, RegistrationSound
  <2>5. QED
    BY <1>7, <2>2, <2>3, <2>4
<1>14. RejectedOnlyIfClash'
  <2>1. \A r, t : Clash(r, t)' <=> Clash(r, t)
    BY DEF Clash
  <2>2. \A i \in turnedAway : \E r, t \in users : r.id = i /\ Clash(r, t)
    BY DEF AccountsInv, RejectedOnlyIfClash
  <2>3. turnedAway' = turnedAway /\ users \subseteq users'
    BY <1>7
  <2>4. QED
    BY <2>1, <2>2, <2>3 DEF RejectedOnlyIfClash
<1>15. OneAtATime'
  BY <1>7, <1>9, <1>10 DEF AccountsInv, OneAtATime
<1>16. SessionEarned' /\ LoginSticksAlone'
  <2>1. ASSUME NEW u \in Threads, Active(u)
        PROVE  req'[u].session.user \in earned'[req'[u].browser] \cup {NoUser}
    <3>1. req[u].session.user \in earned[req[u].browser] \cup {NoUser}
      BY <2>1, RequestFacts
    <3>2. req'[u].session = req[u].session /\ req'[u].browser = req[u].browser
      <4>1. CASE u = th
        BY <1>8, <1>9, <1>10, <4>1
      <4>2. CASE u # th
        BY <1>10, <4>2
      <4>3. QED
        BY <4>1, <4>2
    <3>3. QED
      BY <1>7, <3>1, <3>2
  <2>2. QED
    BY <1>7, <1>10, <2>1 DEF AccountsInv, SessionEarned, LoginSticksAlone
<1>17. QED
  BY <1>11, <1>12, <1>13, <1>14, <1>15, <1>16 DEF AccountsInv

\* A request is sent with the browser's cookie; a second one marks the browser.
LEMMA SendKeeps ==
  ASSUME AccountsInv, NEW th \in Threads, NEW b \in Browsers,
         NEW kind \in {"registration", "login", "api", "logout", "home"},
         NEW params \in Forms(kind), Send(th, b, kind, params)
  PROVE  AccountsInv'
<1>1. ~Active(th) /\ AccountsTyped /\ cookie[b] \in Session /\ params \in Params
  BY DEF Send, AccountsInv, AccountsTyped, Forms
<1>2. PICK q : q = [at |-> kind, kind |-> kind, browser |-> b, sent |-> cookie[b],
                    session |-> cookie[b], params |-> params, id |-> NoUser, saves |-> 1,
                    page |-> NoUser]
  OBVIOUS
<1>3. q \in Request
  BY <1>1, <1>2 DEF Request
<1>4. /\ q.at = kind /\ q.kind = kind /\ q.browser = b /\ q.sent = cookie[b] /\ q.session = cookie[b]
      /\ q.params = params /\ q.id = NoUser
  BY <1>2
<1>5. /\ req' = [req EXCEPT ![th] = q]
      /\ loggedIn' \subseteq loggedIn /\ (kind = "logout" => b \notin loggedIn')
      /\ mixed \subseteq mixed' /\ (InFlight(b) # {} => b \in mixed')
      /\ requests' = requests + 1
      /\ UNCHANGED <<users, nextUserId, cookie, accountAborts, earned, raced, turnedAway>>
  BY <1>2 DEF Send
<1>6. /\ req'[th] = q /\ Active(th)'
      /\ \A u \in Threads : u # th => req'[u] = req[u] /\ (Active(u)' <=> Active(u))
  <2>1. /\ req'[th] = q
        /\ \A u \in Threads : u # th => req'[u] = req[u]
    BY <1>1, <1>5 DEF AccountsTyped
  <2>2. q.at # "idle"
    BY <1>3 DEF Request
  <2>3. QED
    BY <2>1, <2>2 DEF Active
<1>7. AccountsTyped' /\ IdsPast' /\ UniqueUnlessRaced' /\ RejectedOnlyIfClash'
  BY <1>3, <1>5 DEF AccountsInv, AccountsTyped, IdsPast, UniqueUnlessRaced, RejectedOnlyIfClash, Clash
<1>8. RequestsSound'
  <2> SUFFICES ASSUME NEW u \in Threads, Active(u)'
               PROVE  (RegistrationSound(req[u]) /\ SessionKept(req[u]))'
    BY DEF RequestsSound
  <2>1. PICK p : p = req'[u]
    OBVIOUS
  <2>2. CASE u = th
    <3>1. p = q
      BY <1>6, <2>1, <2>2
    <3>2. kind = "registration" => params.password # Missing
      BY DEF Forms
    <3>3. RegistrationSound(p)'
      BY <1>4, <3>1, <3>2 DEF RegistrationSound
    <3>4. SessionKept(p)'
      BY <1>4, <1>5, <3>1 DEF SessionKept
    <3>5. QED
      BY <2>1, <3>3, <3>4 DEF RegistrationSound, SessionKept, HasRow
  <2>3. CASE u # th
    <3>1. p = req[u] /\ RegistrationSound(p) /\ SessionKept(p)
      BY <1>6, <2>1, <2>3 DEF AccountsInv, RequestsSound
    <3>2. RegistrationSound(p)' /\ SessionKept(p)'
      BY <1>5, <3>1 DEF RegistrationSound, SessionKept, HasRow, Clash
    <3>3. QED
      BY <2>1, <3>2 DEF RegistrationSound, SessionKept, HasRow
  <2>4. QED
    BY <2>2, <2>3
<1>9. OneAtATime'
  <2> SUFFICES ASSUME NEW x \in Threads, NEW y \in Threads, Active(x)', Active(y)',
                      req'[x].browser = req'[y].browser, req'[x].browser \notin mixed'
               PROVE  x = y
    BY DEF OneAtATime
  <2>1. ASSUME NEW u \in Threads, u # th, Active(u)', req'[u].browser = b PROVE b \in mixed'
    BY <1>5, <1>6, <2>1 DEF InFlight
  <2>2. CASE x = th
    BY <1>4, <1>6, <2>1, <2>2
  <2>3. CASE y = th
    BY <1>4, <1>6, <2>1, <2>3
  <2>4. CASE x # th /\ y # th
    BY <1>5, <1>6, <2>4 DEF AccountsInv, OneAtATime
  <2>5. QED
    BY <2>2, <2>3, <2>4
<1>10. SessionEarned'
  <2>1. ASSUME NEW u \in Threads, Active(u)'
        PROVE  req'[u].session.user \in earned'[req'[u].browser] \cup {NoUser}
    <3>1. CASE u = th
      <4>1. cookie[b].user \in earned[b] \cup {NoUser}
        BY DEF AccountsInv, SessionEarned
      <4>2. req'[u].session = cookie[b] /\ req'[u].browser = b /\ earned' = earned
        BY <1>4, <1>5, <1>6, <3>1
      <4>3. QED
        BY <4>1, <4>2
    <3>2. CASE u # th
      BY <1>5, <1>6, <2>1, <3>2 DEF AccountsInv, SessionEarned
    <3>3. QED
      BY <3>1, <3>2
  <2>2. QED
    BY <1>5, <2>1 DEF AccountsInv, SessionEarned
<1>11. LoginSticksAlone'
  BY <1>5 DEF AccountsInv, LoginSticksAlone
<1>12. QED
  BY <1>7, <1>8, <1>9, <1>10, <1>11 DEF AccountsInv

\* A thread that becomes idle leaves the other requests as they are.
LEMMA Finished ==
  ASSUME AccountsTyped, NEW th \in Threads, Finish(th)
  PROVE  /\ req' \in [Threads -> Request \cup {NoRequest}]
         /\ \A u \in Threads : Active(u)' => u # th /\ Active(u) /\ req'[u] = req[u]
<1>1. req' = [req EXCEPT ![th] = NoRequest] /\ req \in [Threads -> Request \cup {NoRequest}]
  BY DEF Finish, AccountsTyped
<1>2. NoRequest.at = "idle"
  BY DEF NoRequest
<1>3. QED
  BY <1>1, <1>2 DEF Active

\* The answer reaches the browser: with one request at a time its cookie is
\* still the one that was sent.
LEMMA RespondKeeps ==
  ASSUME AccountsInv, NEW th \in Threads, Respond(th)
  PROVE  AccountsInv'
<1>1. Active(th) /\ AccountsTyped
  BY DEF Respond, At, Active, AccountsInv
<1>2. PICK r \in Request : r = req[th]
  BY <1>1, ActiveIff
<1>3. r.browser \in Browsers /\ r.session \in Session /\ r.sent \in Session
  BY <1>2 DEF Request
<1>4. SessionKept(r) /\ r.session.user \in earned[r.browser] \cup {NoUser}
  BY <1>1, <1>2 DEF AccountsInv, RequestsSound, SessionEarned
<1>5. /\ cookie' = IF r.session = r.sent THEN cookie ELSE [cookie EXCEPT ![r.browser] = r.session]
      /\ UNCHANGED <<users, nextUserId, requests, accountAborts, earned, raced, mixed, turnedAway>>
  BY <1>2 DEF Respond
<1>6. /\ loggedIn' = loggedIn \/ loggedIn' = loggedIn \cup {r.browser}
      /\ loggedIn' # loggedIn => r.kind # "logout" /\ r.session.user # r.sent.user
  <2>1. loggedIn' = IF /\ r.kind \in {"login", "api", "registration"}
                       /\ r.session.user # r.sent.user
                       /\ \A other \in InFlight(r.browser) : req[other].kind # "logout"
                    THEN loggedIn \cup {r.browser} ELSE loggedIn
    BY <1>2 DEF Respond
  <2>2. QED
    BY <2>1
<1>7. /\ req' \in [Threads -> Request \cup {NoRequest}]
      /\ \A u \in Threads : Active(u)' => u # th /\ Active(u) /\ req'[u] = req[u]
  BY <1>1, Finished DEF Respond
<1>8. /\ cookie \in [Browsers -> Session] /\ cookie' \in [Browsers -> Session]
      /\ \A b \in Browsers : b # r.browser => cookie'[b] = cookie[b]
      /\ cookie'[r.browser] = r.session \/ (r.session = r.sent /\ cookie' = cookie)
  <2>1. cookie \in [Browsers -> Session]
    BY <1>1 DEF AccountsTyped
  <2>2. QED
    BY <1>3, <1>5, <2>1
<1>9. AccountsTyped' /\ IdsPast' /\ UniqueUnlessRaced' /\ RejectedOnlyIfClash'
  <2>1. IdsPast' /\ UniqueUnlessRaced' /\ RejectedOnlyIfClash'
    BY <1>5, TableKept
  <2>2. AccountsTyped'
    BY <1>1, <1>5, <1>7, <1>8 DEF AccountsTyped
  <2>3. QED
    BY <2>1, <2>2
<1>10. RequestsSound'
  <2> SUFFICES ASSUME NEW u \in Threads, Active(u)'
               PROVE  (RegistrationSound(req[u]) /\ SessionKept(req[u]))'
    BY DEF RequestsSound
  <2>1. u # th /\ Active(u) /\ req'[u] = req[u]
    BY <1>7
  <2>2. PICK p \in Request : p = req[u]
    BY <1>1, <2>1, ActiveIff
  <2>3. RegistrationSound(p) /\ SessionKept(p) /\ p.browser \in Browsers
    BY <2>1, <2>2 DEF AccountsInv, RequestsSound, Request
  <2>4. p.browser \notin mixed => p.browser # r.browser
    BY <1>1, <1>2, <2>1, <2>2 DEF AccountsInv, OneAtATime
  <2>5. SessionKept(p)'
    BY <1>5, <1>6, <1>8, <2>3, <2>4 DEF SessionKept
  <2>6. RegistrationSound(p)'
    BY <1>5, <2>3 DEF RegistrationSound, HasRow, Clash
  <2>7. QED
    BY <2>1, <2>2, <2>5, <2>6 DEF RegistrationSound, SessionKept, HasRow
<1>11. OneAtATime'
  BY <1>5, <1>7 DEF AccountsInv, OneAtATime
<1>12. SessionEarned'
  <2>1. \A b \in Browsers : cookie'[b].user \in earned[b] \cup {NoUser}
    BY <1>4, <1>8 DEF AccountsInv, SessionEarned
  <2>2. QED
    BY <1>5, <1>7, <2>1 DEF AccountsInv, SessionEarned
<1>13. LoginSticksAlone'
  <2> SUFFICES ASSUME NEW b \in loggedIn', b \notin mixed PROVE cookie'[b].user # NoUser
    BY <1>5 DEF LoginSticksAlone
  <2>1. CASE b # r.browser
    <3>1. b \in loggedIn /\ cookie[b].user # NoUser
      BY <1>6, <2>1 DEF AccountsInv, LoginSticksAlone
    <3>2. cookie'[b] = cookie[b]
      BY <1>5, <1>8, <2>1
    <3>3. QED
      BY <3>1, <3>2
  <2>2. CASE b = r.browser
    <3>1. r.sent = cookie[b]
      BY <1>4, <2>2 DEF SessionKept
    <3>2. r.session.user # NoUser
      <4>1. CASE b \in loggedIn
        <5>1. cookie[b].user # NoUser
          BY <4>1 DEF AccountsInv, LoginSticksAlone
        <5>2. QED
          BY <1>4, <2>2, <3>1, <4>1, <5>1 DEF SessionKept
      <4>2. CASE b \notin loggedIn
        BY <1>4, <1>6, <4>2 DEF SessionKept
      <4>3. QED
        BY <4>1, <4>2
    <3>3. QED
      BY <1>8, <2>2, <3>1, <3>2
  <2>3. QED
    BY <2>1, <2>2
<1>14. QED
  BY <1>9, <1>10, <1>11, <1>12, <1>13 DEF AccountsInv

\* A request that dies changes nothing but itself.
LEMMA AbortKeeps ==
  ASSUME AccountsInv, NEW th \in Threads, AccountAbort(th)
  PROVE  AccountsInv'
<1>1. /\ UNCHANGED <<users, nextUserId, cookie, requests, earned, loggedIn, raced, mixed, turnedAway>>
      /\ accountAborts' = accountAborts + 1 /\ AccountsTyped
  BY DEF AccountAbort, AccountsInv
<1>2. /\ req' \in [Threads -> Request \cup {NoRequest}]
      /\ \A u \in Threads : Active(u)' => u # th /\ Active(u) /\ req'[u] = req[u]
  BY <1>1, Finished DEF AccountAbort
<1>3. AccountsTyped' /\ IdsPast' /\ UniqueUnlessRaced' /\ RejectedOnlyIfClash' /\ LoginSticksAlone'
  BY <1>1, <1>2 DEF AccountsInv, AccountsTyped, IdsPast, UniqueUnlessRaced, RejectedOnlyIfClash,
                    Clash, LoginSticksAlone
<1>4. RequestsSound'
  <2> SUFFICES ASSUME NEW u \in Threads, Active(u)'
               PROVE  (RegistrationSound(req[u]) /\ SessionKept(req[u]))'
    BY DEF RequestsSound
  <2>1. PICK p : p = req[u] /\ p = req'[u] /\ RegistrationSound(p) /\ SessionKept(p)
    BY <1>2 DEF AccountsInv, RequestsSound
  <2>2. RegistrationSound(p)' /\ SessionKept(p)'
    BY <1>1, <2>1 DEF RegistrationSound, SessionKept, HasRow, Clash
  <2>3. QED
    BY <2>1, <2>2 DEF RegistrationSound, SessionKept, HasRow
<1>5. OneAtATime' /\ SessionEarned'
  BY <1>1, <1>2 DEF AccountsInv, OneAtATime, SessionEarned
<1>6. QED
  BY <1>3, <1>4, <1>5 DEF AccountsInv

-----------------------------------------------------------------------------
\* The invariant of the account handlers holds in every state.
THEOREM AccountsInvariant == AccountsSpec => []AccountsInv
<1>1. AccountsInit => AccountsInv
  <2> SUFFICES ASSUME AccountsInit PROVE AccountsInv
    OBVIOUS
  <2>1. \A th \in Threads : ~Active(th)
    BY DEF AccountsInit, Active, NoRequest
  <2>2. NoSession \in Session /\ NoSession.user = NoUser
    BY DEF NoSession, Session
  <2>3. AccountsTyped
    BY <2>2 DEF AccountsInit, AccountsTyped
  <2>4. QED
    BY <2>1, <2>2, <2>3 DEF AccountsInit, AccountsInv, IdsPast, RequestsSound, OneAtATime,
                            UniqueUnlessRaced, RejectedOnlyIfClash, SessionEarned, LoginSticksAlone
<1>2. AccountsInv /\ [AccountsNext]_accountVars => AccountsInv'
  <2> SUFFICES ASSUME AccountsInv, [AccountsNext]_accountVars PROVE AccountsInv'
    OBVIOUS
  <2>1. CASE UNCHANGED accountVars
    <3>1. UNCHANGED <<users, nextUserId, cookie, req, requests, accountAborts, earned, loggedIn,
                      raced, mixed, turnedAway>>
      BY <2>1 DEF accountVars, accountHistory
    <3>2. IdsPast' /\ UniqueUnlessRaced' /\ RejectedOnlyIfClash'
      BY <3>1, TableKept
    <3>3. AccountsTyped'
      BY <3>1 DEF AccountsInv, AccountsTyped
    <3>4. \A th \in Threads : Active(th)' <=> Active(th)
      BY <3>1 DEF Active
    <3>5. RequestsSound'
      <4>1. ASSUME NEW th \in Threads, RegistrationSound(req[th]) PROVE (RegistrationSound(req[th]))'
        BY <3>1, <4>1 DEF RegistrationSound, HasRow, Clash
      <4>2. ASSUME NEW th \in Threads, SessionKept(req[th]) PROVE (SessionKept(req[th]))'
        BY <3>1, <4>2 DEF SessionKept
      <4>3. QED
        BY <3>4, <4>1, <4>2 DEF AccountsInv, RequestsSound
    <3>6. OneAtATime'
      BY <3>1, <3>4 DEF AccountsInv, OneAtATime
    <3>7. SessionEarned' /\ LoginSticksAlone'
      BY <3>1, <3>4 DEF AccountsInv, SessionEarned, LoginSticksAlone
    <3>8. QED
      BY <3>2, <3>3, <3>5, <3>6, <3>7 DEF AccountsInv
  <2>2. CASE \E th \in Threads : AccountStep(th)
    BY <2>2, ValidateKeeps, InsertKeeps, RegisteredKeeps, LoginKeeps, RespondKeeps DEF AccountStep
  <2>3. QED
    BY <2>1, <2>2, SendKeeps, AbortKeeps DEF AccountsNext, AccountsIdle
<1>3. QED
  BY <1>1, <1>2, PTL DEF AccountsSpec

\* A browser is only ever logged in as a user it registered or whose password it
\* gave, in whatever order the handlers' answers set its cookie.
THEOREM SessionsEarned == AccountsSpec => []SessionEarned
BY AccountsInvariant, PTL DEF AccountsInv

\* Registration: names and emails are unique unless an INSERT overtook another's
\* validation, and only a clash turns a saved record away.
THEOREM UsersSound == AccountsSpec => []AccountsSound
<1>1. AccountsInv => AccountsTypeOK
  <2> SUFFICES ASSUME AccountsInv PROVE AccountsTypeOK
    OBVIOUS
  <2>1. turnedAway \subseteq {r.id : r \in users}
    BY DEF AccountsInv, RejectedOnlyIfClash
  <2>2. DOMAIN req = Threads
    BY DEF AccountsInv, AccountsTyped
  <2>3. ASSUME NEW th \in Threads, Active(th)
        PROVE  /\ req[th].browser \in Browsers /\ req[th].sent \in Session
               /\ req[th].session \in Session /\ req[th].params \in Params
               /\ req[th].id \in Nat \cup {NoUser} /\ req[th].page \in Nat \cup {NoUser}
    BY <2>3, RequestFacts
  <2>4. QED
    BY <2>1, <2>2, <2>3 DEF AccountsTypeOK, AccountsInv, AccountsTyped, IdsPast
<1>2. AccountsInv => AccountsSound
  BY <1>1 DEF AccountsInv, AccountsSound
<1>3. QED
  BY <1>2, AccountsInvariant, PTL

\* A browser that sends one request at a time stays logged in until it asks for
\* a logout.
THEOREM LoginSticks == AccountsSpec => []LoginSticksAlone
BY AccountsInvariant, PTL DEF AccountsInv
=============================================================================
