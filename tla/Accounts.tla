------------------------------ MODULE Accounts ------------------------------
(***************************************************************************)
(* Registration, login, logout and GET / (app.rb, helpers/authentication). *)
(* The session is a cookie (enable :sessions): a request works on the copy *)
(* the browser sent, and its answer replaces the browser's cookie if the   *)
(* copy has changed.  A browser may have several requests in flight.       *)
(***************************************************************************)
EXTENDS Naturals, FiniteSets

CONSTANTS
  Names,         \* values of user_name, up to case
  Emails,        \* values of email, up to case
  Passwords,
  Missing,       \* a field left blank
  Browsers,
  Threads,       \* request threads of the web server
  NoUser,
  MaxInFlight,   \* bound: requests of one browser in flight
  MaxAccountRequests,   \* bound: requests sent
  MaxAccountAborts      \* bound: requests that die half-way

ASSUME AccountsAssumption ==
  /\ Missing \notin Names \cup Emails \cup Passwords
  /\ NoUser \notin Nat
  /\ MaxInFlight \in Nat
  /\ MaxAccountRequests \in Nat
  /\ MaxAccountAborts \in Nat

VARIABLES
  users,       \* rows of the users table
  nextUserId,      \* the id the next row gets
  cookie,      \* cookie[b]: the session browser b holds
  req,         \* req[th]: the request thread th serves
  requests,    \* number of requests sent
  accountAborts,      \* number of requests that died
  earned,      \* earned[b]: history, ids b has registered or given the password of
  loggedIn,    \* history: browsers a login has been answered to, no logout sent since
  raced,       \* history: rows inserted while another registration was about to insert
  mixed,       \* history: browsers that have had two requests in flight
  turnedAway   \* history: rows whose registration was answered as rejected

accountHistory == <<requests, accountAborts, earned, loggedIn, raced, mixed, turnedAway>>
accountVars == <<users, nextUserId, cookie, req, accountHistory>>

Row == [id : Nat, user_name : Names, email : Emails, password : Passwords]

\* session[:user_id] (session[:user_name] always goes with it), session[:error],
\* and whether session[:original_request] is set.
Session == [user : Nat \cup {NoUser}, error : {"unset", "", "incorrect"}, asked : BOOLEAN]
NoSession == [user |-> NoUser, error |-> "unset", asked |-> FALSE]

\* The parameters of a request; by is the parameter that says who logs in.
Params == [by : {"email", "user_name", "user"}, user_name : Names \cup {Missing},
           email : Emails \cup {Missing}, password : Passwords \cup {Missing}]

\* The parameters the forms of the pages, the client library and the URLs of
\* GET / send.
Forms(kind) ==
  {p \in Params :
     CASE kind = "registration" -> p.by = "email" /\ p.password # Missing
       [] kind = "login"  -> p.by = "email" /\ p.user_name = Missing /\ p.password # Missing
       [] kind = "api"    -> p.by = "user_name" /\ p.email = Missing /\ p.password # Missing
       [] kind = "logout" -> p.by = "user" /\ p.user_name = Missing /\ p.email = Missing
                             /\ p.password = Missing
       [] kind = "home"   -> p.by = "user" /\ p.email = Missing
                             /\ (p.user_name = Missing <=> p.password = Missing)}

\* Step, handler, browser, cookie sent, session as the handler leaves it,
\* parameters; for a registration the id of the new row and the number of the
\* save it is at; for GET / the user whose home page is shown (None: the front
\* page).
NoRequest == [at |-> "idle"]

Active(th) == req[th].at # "idle"
At(th, step) == req[th].at = step
Finish(th) == req' = [req EXCEPT ![th] = NoRequest]
InFlight(b) == {th \in Threads : Active(th) /\ req[th].browser = b}

\* The request of th at another step, with what the handler has changed.
Serve(th, step, session, id, saves, page) ==
  req' = [req EXCEPT ![th] =
    [at |-> step, kind |-> req[th].kind, browser |-> req[th].browser, sent |-> req[th].sent,
     session |-> session, params |-> req[th].params, id |-> id, saves |-> saves, page |-> page]]

Goto(th, step, id, saves) == Serve(th, step, req[th].session, id, saves, req[th].page)

\* The handler is through and leaves the session so.
Done(th, session) == Serve(th, "respond", session, req[th].id, req[th].saves, req[th].page)

LoggedInAs(session, u) == [session EXCEPT !.user = u]

AccountsInit ==
  /\ users = {}
  /\ nextUserId = 1
  /\ cookie = [b \in Browsers |-> NoSession]
  /\ req = [th \in Threads |-> NoRequest]
  /\ requests = 0
  /\ accountAborts = 0
  /\ earned = [b \in Browsers |-> {}]
  /\ loggedIn = {}
  /\ raced = {}
  /\ mixed = {}
  /\ turnedAway = {}

(***************************************************************************)
(* The browser sends POST /registration/submit, POST /login/submit,        *)
(* POST /api/v1/login, GET /logout or GET /, the latter also with the      *)
(* parameters user and password.                                           *)
(***************************************************************************)
Send(th, b, kind, params) ==
  /\ ~Active(th)
  /\ requests < MaxAccountRequests
  /\ Cardinality(InFlight(b)) < MaxInFlight
  /\ requests' = requests + 1
  /\ req' = [req EXCEPT ![th] =
       [at |-> kind, kind |-> kind, browser |-> b, sent |-> cookie[b], session |-> cookie[b],
        params |-> params, id |-> NoUser, saves |-> 1, page |-> NoUser]]
  /\ loggedIn' = IF kind = "logout" THEN loggedIn \ {b} ELSE loggedIn
  /\ mixed' = IF InFlight(b) # {} THEN mixed \cup {b} ELSE mixed
  /\ UNCHANGED <<users, nextUserId, cookie, accountAborts, earned, raced, turnedAway>>

(***************************************************************************)
(* POST /registration/submit: User.create, then u.save once more.          *)
(***************************************************************************)

\* Mutant: the email is not validated.
ValidName(params, id) ==
  /\ params.user_name # Missing
  /\ params.email # Missing
  /\ \A r \in users : r.id # id => r.user_name # params.user_name

\* Mutant: blank fields are accepted.
ValidBlank(params, id) ==
  \A r \in users : r.id # id =>
    r.user_name # params.user_name /\ r.email # params.email

\* Mutant: a saved record is in its own way.
ValidSelf(params, id) ==
  /\ params.user_name # Missing
  /\ params.email # Missing
  /\ \A r \in users : r.user_name # params.user_name /\ r.email # params.email

\* The validations of User, for the record with this id.
Valid(params, id) ==
  /\ params.user_name # Missing
  /\ params.email # Missing
  /\ \A r \in users : r.id # id =>
       r.user_name # params.user_name /\ r.email # params.email

\* save, the SELECTs of the validations.  Rows are only ever added, so that the
\* SELECTs for the two columns may be taken together.
ValidateUser(th) ==
  /\ At(th, "registration")
  /\ IF Valid(req[th].params, req[th].id)
       THEN IF req[th].id = NoUser THEN Goto(th, "insert", NoUser, req[th].saves)
                                 ELSE Goto(th, "registered", req[th].id, 2)
       ELSE IF req[th].saves = 1 THEN Goto(th, "registration", NoUser, 2)
                                 ELSE Goto(th, "rejected", req[th].id, 2)
  /\ UNCHANGED <<users, nextUserId, cookie, accountHistory>>

\* save, the INSERT.
InsertUser(th) ==
  /\ At(th, "insert")
  /\ users' = users \cup
       {[id |-> nextUserId, user_name |-> req[th].params.user_name,
         email |-> req[th].params.email, password |-> req[th].params.password]}
  /\ nextUserId' = nextUserId + 1
  /\ Goto(th, IF req[th].saves = 1 THEN "registration" ELSE "registered", nextUserId, 2)
  /\ raced' = IF \E other \in Threads \ {th} : At(other, "insert")
                THEN raced \cup {nextUserId} ELSE raced
  /\ UNCHANGED <<cookie, requests, accountAborts, earned, loggedIn, mixed, turnedAway>>

\* u.save is true: the session is the new user's.
Registered(th) ==
  /\ At(th, "registered")
  /\ Done(th, LoggedInAs(req[th].session, req[th].id))
  /\ earned' = [earned EXCEPT ![req[th].browser] = @ \cup {req[th].id}]
  /\ UNCHANGED <<users, nextUserId, cookie, requests, accountAborts, loggedIn, raced, mixed, turnedAway>>

\* u.save is false: redirect '/registration'.
Rejected(th) ==
  /\ At(th, "rejected")
  /\ Done(th, req[th].session)
  /\ turnedAway' = turnedAway \cup ({req[th].id} \ {NoUser})
  /\ UNCHANGED <<users, nextUserId, cookie, requests, accountAborts, earned, loggedIn, raced, mixed>>

(***************************************************************************)
(* login                                                                   *)
(***************************************************************************)

\* find_by_email or find_by_user_name; with neither parameter login is false.
Found(params) ==
  {r \in users : \/ params.by = "email" /\ r.email = params.email
                 \/ params.by = "user_name" /\ r.user_name = params.user_name}

\* POST /login/submit also sets the error the login page shows; POST
\* /api/v1/login does not.
Submitted(kind, session, error) ==
  IF kind = "login" THEN [session EXCEPT !.error = error] ELSE session

\* Mutant: the password is not compared.
LoginUnchecked(th) ==
  /\ At(th, "login") \/ At(th, "api")
  /\ \E r \in Found(req[th].params) :
       /\ Done(th, LoggedInAs(req[th].session, r.id))
       /\ earned' = [earned EXCEPT ![req[th].browser] =
            IF r.password = req[th].params.password THEN @ \cup {r.id} ELSE @]
  /\ UNCHANGED <<users, nextUserId, cookie, requests, accountAborts, loggedIn, raced, mixed, turnedAway>>

\* One of the rows found (LIMIT 1, in no order) has the password given.
LoginSucceeds(th) ==
  /\ At(th, "login") \/ At(th, "api")
  /\ \E r \in Found(req[th].params) :
       /\ r.password = req[th].params.password
       /\ Done(th, Submitted(req[th].kind, LoggedInAs(req[th].session, r.id), ""))
       /\ earned' = [earned EXCEPT ![req[th].browser] = @ \cup {r.id}]
  /\ UNCHANGED <<users, nextUserId, cookie, requests, accountAborts, loggedIn, raced, mixed, turnedAway>>

\* Mutant: the session is cleared.
LoginFailsClearing(th) ==
  /\ At(th, "login") \/ At(th, "api")
  /\ \/ Found(req[th].params) = {}
     \/ \E r \in Found(req[th].params) : r.password # req[th].params.password
  /\ Done(th, NoSession)
  /\ UNCHANGED <<users, nextUserId, cookie, accountHistory>>

\* No row, or one with another password: whoever was logged in stays so.
LoginFails(th) ==
  /\ At(th, "login") \/ At(th, "api")
  /\ \/ Found(req[th].params) = {}
     \/ \E r \in Found(req[th].params) : r.password # req[th].params.password
  /\ Done(th, Submitted(req[th].kind, req[th].session, "incorrect"))
  /\ UNCHANGED <<users, nextUserId, cookie, accountHistory>>

\* log_out_now
LogOut(th) ==
  /\ At(th, "logout")
  /\ Done(th, LoggedInAs(req[th].session, NoUser))
  /\ UNCHANGED <<users, nextUserId, cookie, accountHistory>>

(***************************************************************************)
(* GET /                                                                   *)
(***************************************************************************)

\* authenticate!, apart from the note it makes of the request.
Authenticated(session) == \E r \in users : r.id = session.user

\* home_page: the home page of whoever is logged in.
ShowHome(th) ==
  /\ At(th, "home")
  /\ Authenticated(req[th].session)
  /\ Serve(th, "respond", req[th].session, req[th].id, req[th].saves, req[th].session.user)
  /\ UNCHANGED <<users, nextUserId, cookie, accountHistory>>

\* authenticate! notes the request.  test_2_or_3? calls login, which reads none
\* of the parameters user and password are given in and is false: the front
\* page is shown, no random tweet is made.
ShowFront(th) ==
  /\ At(th, "home")
  /\ ~Authenticated(req[th].session)
  /\ Done(th, [req[th].session EXCEPT !.asked = TRUE])
  /\ UNCHANGED <<users, nextUserId, cookie, accountHistory>>

\* The answer reaches the browser; Rack sends the cookie if it has changed.
Respond(th) ==
  /\ At(th, "respond")
  /\ LET r == req[th]
     IN  /\ cookie' = IF r.session = r.sent THEN cookie
                      ELSE [cookie EXCEPT ![r.browser] = r.session]
         /\ loggedIn' =
              IF /\ r.kind \in {"login", "api", "registration"}
                 /\ r.session.user # r.sent.user
                 /\ \A other \in InFlight(r.browser) : req[other].kind # "logout"
                THEN loggedIn \cup {r.browser} ELSE loggedIn
  /\ Finish(th)
  /\ UNCHANGED <<users, nextUserId, requests, accountAborts, earned, raced, mixed, turnedAway>>

\* A query raises or the process is restarted.
AccountAbort(th) ==
  /\ Active(th)
  /\ accountAborts < MaxAccountAborts
  /\ accountAborts' = accountAborts + 1
  /\ Finish(th)
  /\ UNCHANGED <<users, nextUserId, cookie, requests, earned, loggedIn, raced, mixed, turnedAway>>

\* No request is in flight.
Quiet == \A th \in Threads : ~Active(th)

AccountsIdle == Quiet /\ UNCHANGED accountVars

AccountStep(th) ==
  \/ ValidateUser(th)
  \/ InsertUser(th)
  \/ Registered(th)
  \/ Rejected(th)
  \/ LoginSucceeds(th)
  \/ LoginFails(th)
  \/ LogOut(th)
  \/ ShowHome(th)
  \/ ShowFront(th)
  \/ Respond(th)

AccountsNext ==
  \/ \E th \in Threads :
       \/ \E b \in Browsers, kind \in {"registration", "login", "api", "logout", "home"} :
            \E params \in Forms(kind) : Send(th, b, kind, params)
       \/ AccountStep(th)
       \/ AccountAbort(th)
  \/ AccountsIdle

AccountsSpec == AccountsInit /\ [][AccountsNext]_accountVars

(***************************************************************************)
(* Properties.                                                             *)
(***************************************************************************)

\* Type invariant of the users table, the cookies and the requests of the
\* account handlers.
AccountsTypeOK ==
  /\ users \subseteq Row
  /\ nextUserId \in Nat \ {0}
  /\ \A r \in users : r.id < nextUserId
  /\ cookie \in [Browsers -> Session]
  /\ DOMAIN req = Threads
  /\ \A th \in Threads : Active(th) =>
       /\ req[th].browser \in Browsers
       /\ req[th].sent \in Session
       /\ req[th].session \in Session
       /\ req[th].params \in Params
       /\ req[th].id \in Nat \cup {NoUser}
       /\ req[th].page \in Nat \cup {NoUser}
  /\ turnedAway \subseteq {r.id : r \in users}

\* A browser's session, and the session a request works on, is that of nobody
\* or of a user whose account this browser has registered or whose password it
\* has given, in whatever order login, logout and registration are answered.
SessionEarned ==
  /\ \A b \in Browsers : cookie[b].user \in earned[b] \cup {NoUser}
  /\ \A th \in Threads : Active(th) =>
       req[th].session.user \in earned[req[th].browser] \cup {NoUser}

\* Two rows that one user_name or email belongs to.
Clash(r, s) == r # s /\ (r.user_name = s.user_name \/ r.email = s.email)

\* The comment in the User model: "allows for uniqueness of handles and
\* emails".  The validations keep two rows from the same user_name or email,
\* except when the earlier one was inserted between the validation and the
\* INSERT of another registration.
UniqueUnlessRaced ==
  \A r, s \in users : Clash(r, s) /\ r.id < s.id => r.id \in raced

\* Whoever is sent back to the registration form has no account made, or one
\* that another row clashes with: the second save of POST /registration/submit
\* never fails for a reason of its own.
RejectedOnlyIfClash ==
  \A i \in turnedAway : \E r, s \in users : r.id = i /\ Clash(r, s)

\* Registration leaves the users table sound: types, uniqueness unless raced, and
\* no account for whoever was turned away unless it clashes.
AccountsSound == AccountsTypeOK /\ UniqueUnlessRaced /\ RejectedOnlyIfClash

\* A browser with one request in flight at a time that has been answered a
\* login, and has not asked for a logout since, is logged in: neither failed
\* logins nor visits nor registrations end a session.
LoginSticksAlone ==
  \A b \in loggedIn \ mixed : cookie[b].user # NoUser

(***************************************************************************)
(* The inductive invariant behind AccountsSound, SessionEarned and         *)
(* LoginSticksAlone.                                                       *)
(***************************************************************************)
Request ==
  [at : {"registration", "login", "api", "logout", "home", "insert", "registered", "rejected",
         "respond"},
   kind : {"registration", "login", "api", "logout", "home"}, browser : Browsers,
   sent : Session, session : Session, params : Params, id : Nat \cup {NoUser},
   saves : {1, 2}, page : Nat \cup {NoUser}]

AccountsTyped ==
  /\ users \subseteq Row
  /\ nextUserId \in Nat \ {0}
  /\ cookie \in [Browsers -> Session]
  /\ req \in [Threads -> Request \cup {NoRequest}]
  /\ earned \in [Browsers -> SUBSET Nat]
  /\ requests \in Nat
  /\ accountAborts \in Nat

IdsPast == \A r \in users : r.id < nextUserId

\* The new record has a row of its own to be saved to again.
HasRow(params, id) ==
  \E r \in users : r.id = id /\ r.user_name = params.user_name /\ r.email = params.email

\* What a registration has established at each step: no blank field at the
\* INSERT, and no row in its way but those inserted since it was validated; the
\* row of a record with an id; a clash for whoever is turned away with an id.
RegistrationSound(q) ==
  /\ q.at \in {"registration", "insert"} => q.params.password # Missing
  /\ q.at = "insert" =>
       /\ q.params.user_name # Missing /\ q.params.email # Missing
       /\ \A r \in users :
            r.user_name = q.params.user_name \/ r.email = q.params.email => r.id \in raced
  /\ q.at = "registered" => q.id # NoUser
  /\ q.id # NoUser => HasRow(q.params, q.id)
  /\ q.at = "rejected" /\ q.id # NoUser => \E r, s \in users : r.id = q.id /\ Clash(r, s)

\* A request of a browser that sends one at a time has been sent the browser's
\* cookie, and only a logout ends the session it works on.
SessionKept(q) ==
  /\ q.at = "logout" => q.kind = "logout"
  /\ q.kind # "logout" /\ q.sent.user # NoUser => q.session.user # NoUser
  /\ q.browser \notin mixed => q.sent = cookie[q.browser]
  /\ q.browser \notin mixed /\ q.kind = "logout" => q.browser \notin loggedIn

RequestsSound ==
  \A th \in Threads : Active(th) => RegistrationSound(req[th]) /\ SessionKept(req[th])

OneAtATime ==
  \A a, b \in Threads :
    Active(a) /\ Active(b) /\ req[a].browser = req[b].browser /\ req[a].browser \notin mixed => a = b

AccountsInv ==
  /\ AccountsTyped
  /\ IdsPast
  /\ RequestsSound
  /\ OneAtATime
  /\ UniqueUnlessRaced
  /\ RejectedOnlyIfClash
  /\ SessionEarned
  /\ LoginSticksAlone

\* The third test URL: "Still the homepage, displays the page for this user".
\* GET / with the name and the password of a user shows their home page.
TestUrlShowsUser ==
  \A th \in Threads : At(th, "respond") /\ req[th].kind = "home" =>
    \A r \in users :
      r.user_name = req[th].params.user_name /\ r.password = req[th].params.password =>
        req[th].page = r.id
=============================================================================
