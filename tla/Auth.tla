-------------------------------- MODULE Auth --------------------------------
(***************************************************************************)
(* The context contexts/auth: users, their sessions and verification       *)
(* tokens in Postgres, the settings that allow registration and login, and *)
(* the web requests that work on them. A use case reads a user with its    *)
(* sessions, changes it and saves all of it, statement by statement and    *)
(* without a transaction. The web session is loaded when a request begins  *)
(* and written as a whole at its end.                                      *)
(***************************************************************************)
EXTENDS Naturals, FiniteSets

CONSTANTS
  Users,      \* IDs of users, each drawn once (uuid)
  Logins,
  Keys,       \* keys of sessions
  Tokens,     \* verification tokens
  Browsers,
  Requests,   \* goroutines that serve requests
  May,        \* by request: the kinds it serves
  MaxRequests,\* bound: the number of requests that are served
  Nobody, NoUser, NoSession, NoToken, NoKey

Kinds == {"register", "newuser", "login", "verify", "block", "unblock",
          "loginas", "leave", "logout"}

ASSUME AuthAssumption ==
  /\ May \in [Requests -> SUBSET Kinds]
  /\ MaxRequests \in Nat
  /\ Nobody \notin Users /\ NoKey \notin Keys

VARIABLES
  setting, \* what is stored for AllowRegistration and AllowLogin
  user,    \* the table of users
  session, \* the table of sessions: owner and data, see pg.session.store.go
  token,   \* the table of verification tokens
  mail,    \* users for which a job for the verification mail is in the queue
  cookie,  \* by browser: the key of the session in its cookie
  req,     \* by request: how far it is and what it has read
  served,  \* the number of requests that have begun
  proved   \* history: users that have shown a token of theirs in time

vars == <<setting, user, session, token, mail, cookie, req, served, proved>>

tables == <<setting, user, session, token, mail, cookie>>

UserRows == [login : Logins, verified : BOOLEAN, blocked : BOOLEAN, superuser : BOOLEAN]

\* The values of a web session: the user, whether it is a superuser, and the user
\* that a superuser had been before. They are missing in a row that only a use
\* case has written.
Values   == [user : Users \cup {Nobody}, super : BOOLEAN, origin : Users \cup {Nobody}]
NoValues == [user |-> Nobody, super |-> FALSE, origin |-> Nobody]
Rows     == [owner : Users \cup {Nobody}, filled : BOOLEAN, values : Values]

\* What a request has in hand; old is history: the user was saved as blocked since the
\* request has read it.
Done == [pc |-> "idle", kind |-> "logout", id |-> Nobody, key |-> NoKey, browser |-> Nobody,
         values |-> NoValues, usr |-> NoUser, keys |-> {}, token |-> NoToken, old |-> FALSE]

PCs == {"idle", "setting", "exists", "find", "sessions", "check", "upsert", "rows",
        "enqueue", "save", "delete"}

TypeOK ==
  /\ setting \in [{"registration", "login"} -> BOOLEAN]
  /\ user \in [Users -> UserRows \cup {NoUser}]
  /\ session \in [Keys -> Rows \cup {NoSession}]
  /\ token \in [Tokens -> [user : Users, valid : BOOLEAN] \cup {NoToken}]
  /\ mail \subseteq Users /\ proved \subseteq Users
  /\ cookie \in [Browsers -> Keys \cup {NoKey}]
  /\ req \in [Requests ->
       [pc : PCs, kind : Kinds, id : Users \cup {Nobody}, key : Keys \cup {NoKey},
        browser : Browsers \cup {Nobody}, values : Values,
        usr : UserRows \cup {NoUser}, keys : SUBSET Keys, token : Tokens \cup {NoToken},
        old : BOOLEAN]]
  /\ served \in 0 .. MaxRequests

Nothing ==
  /\ user = [u \in Users |-> NoUser]
  /\ session = [k \in Keys |-> NoSession]
  /\ cookie = [b \in Browsers |-> NoKey]
  /\ proved = {}

\* What requests have led to by now: a verified superuser that has logged in.
Founded ==
  \E f \in Users, l \in Logins, k \in Keys, b \in Browsers :
    /\ user = [u \in Users |-> IF u # f THEN NoUser ELSE
         [login |-> l, verified |-> TRUE, blocked |-> FALSE, superuser |-> TRUE]]
    /\ session = [j \in Keys |-> IF j # k THEN NoSession ELSE
         [owner |-> f, filled |-> TRUE,
          values |-> [user |-> f, super |-> TRUE, origin |-> Nobody]]]
    /\ cookie = [c \in Browsers |-> IF c = b THEN k ELSE NoKey]
    /\ proved = {f}

Init ==
  /\ Nothing \/ Founded
  /\ setting = [s \in {"registration", "login"} |-> TRUE]
  /\ token = [t \in Tokens |-> NoToken]
  /\ mail = {} /\ served = 0
  /\ req = [r \in Requests |-> Done]

-----------------------------------------------------------------------------
(* The session store.                                                      *)

\* New: the key in the cookie, also if its row is gone, or else a new random one.
KeysFor(b) ==
  IF cookie[b] # NoKey THEN {cookie[b]}
  ELSE {k \in Keys : /\ session[k] = NoSession
                     /\ \A c \in Browsers : cookie[c] # k
                     /\ \A r \in Requests : req[r].key # k}

\* New: the values that are stored for the key. A row without values is an error, but
\* one of the statement is not: the session then is a new one with the old key.
Loaded(k) ==
  {NoValues} \cup (IF session[k] # NoSession /\ session[k].filled THEN {session[k].values} ELSE {})

\* Save with MaxAge >= 0: the row is updated or written anew.
Stored(k, values) ==
  [session EXCEPT ![k] = [owner |-> IF @ = NoSession THEN Nobody ELSE @.owner,
                          filled |-> TRUE, values |-> values]]

-----------------------------------------------------------------------------
(* A request begins: the middleware loads the session, the controller       *)
(* decides by its values where it goes.                                    *)

First(kind, values) ==
  CASE kind = "register" -> IF values.user = Nobody THEN "setting" ELSE "idle"
    [] kind = "newuser" -> "setting"
    [] kind = "login" -> IF values.user = Nobody THEN "find" ELSE "idle"
    [] kind \in {"verify", "block", "unblock"} -> "find"
    [] kind = "loginas" -> IF values.super THEN "find" ELSE "idle"
    [] kind = "leave" -> IF values.origin # Nobody THEN "save" ELSE "idle"
    [] kind = "logout" -> IF values.user # Nobody THEN "delete" ELSE "idle"

\* What a request has in hand at first, the values of its session if it writes them.
Asked(kind, b, k, v, u, l, t, su) ==
  [pc |-> First(kind, v), kind |-> kind, id |-> u, key |-> k, browser |-> b,
   values |-> IF kind \in {"register", "login", "loginas", "leave"} THEN v ELSE NoValues,
   usr |-> [login |-> l, verified |-> FALSE, blocked |-> FALSE, superuser |-> su],
   keys |-> {}, token |-> t, old |-> FALSE]

\* What the request names: a login for those that look a user up by it, an ID.
Begin(r) ==
  /\ req[r].pc = "idle" /\ served < MaxRequests
  /\ \E kind \in May[r], b \in Browsers : \E k \in KeysFor(b) : \E v \in Loaded(k) :
       /\ First(kind, v) # "idle"
       /\ \E u \in Users \cup {Nobody}, l \in Logins, t \in Tokens \cup {NoToken}, su \in BOOLEAN :
            /\ (kind \in {"verify", "block", "unblock", "loginas"}) <=> (u # Nobody)
            /\ (kind = "verify") <=> (t # NoToken)
            /\ su => kind = "newuser"
            /\ req' = [req EXCEPT ![r] = Asked(kind, b, k, v, u, l, t, su)]
  /\ served' = served + 1
  /\ UNCHANGED <<tables, proved>>

Goto(r, pc) == req' = [req EXCEPT ![r].pc = pc]

End(r) == req' = [req EXCEPT ![r] = Done]

-----------------------------------------------------------------------------
(* Registration: RegisterNewUser, then Save.                               *)

ReadSetting(r) ==
  /\ req[r].pc = "setting"
  /\ IF setting["registration"] THEN Goto(r, "exists") ELSE End(r)
  /\ UNCHANGED <<tables, served, proved>>

\* ExistsByLogin, of which an error counts as no; a new user gets an ID that nobody has.
LoginTaken(l) == \E u \in Users : user[u] # NoUser /\ user[u].login = l

Drawn(u) == user[u] # NoUser \/ u \in mail \/ \E r \in Requests : req[r].id = u

Exists(r) ==
  /\ req[r].pc = "exists"
  /\ \/ LoginTaken(req[r].usr.login) /\ End(r)
     \/ \E u \in Users :
          /\ ~Drawn(u) /\ u \notin proved
          /\ req' = [req EXCEPT ![r].id = u, ![r].pc = "upsert",
                       ![r].keys = IF req[r].kind = "register" THEN {req[r].key} ELSE {}]
  /\ UNCHANGED <<tables, served, proved>>

-----------------------------------------------------------------------------
(* Login, verification and blocking: read, change, save.                   *)

\* FindUserByLogin, FindUserByID
FoundUsers(r) ==
  {u \in Users : user[u] # NoUser /\ IF req[r].kind = "login"
                                     THEN user[u].login = req[r].usr.login ELSE u = req[r].id}

\* FindByID, FindByLogin: the row ...
Find(r) ==
  /\ req[r].pc = "find"
  /\ \/ FoundUsers(r) = {} /\ End(r)
     \/ \E u \in FoundUsers(r) :
          req' = [req EXCEPT ![r].id = u, ![r].usr = user[u],
                    ![r].pc = IF req[r].kind = "loginas" THEN "save" ELSE "sessions"]
  /\ UNCHANGED <<tables, served, proved>>

\* ... and then its sessions.
FindSessionsByUserID(u) == {k \in Keys : session[k] # NoSession /\ session[k].owner = u}

FindSessions(r) ==
  /\ req[r].pc = "sessions"
  /\ req' = [req EXCEPT ![r].pc = "check", ![r].keys = FindSessionsByUserID(req[r].id)]
  /\ UNCHANGED <<tables, served, proved>>

\* Authenticate, with the right password.
MayLogin(usr) == setting["login"] /\ usr.verified /\ ~usr.blocked

\* Two bugs for the checks.
AcceptsAny(r) == token[req[r].token] # NoToken /\ token[req[r].token].valid
BlockToggles(usr) == [usr EXCEPT !.blocked = ~@]

\* Verify: the token is stored, is this user's, and has not expired. It stays.
Accepts(r) ==
  /\ token[req[r].token] # NoToken
  /\ token[req[r].token].user = req[r].id
  /\ token[req[r].token].valid

Verify(usr) == [usr EXCEPT !.verified = TRUE]

Block(usr) == [usr EXCEPT !.blocked = TRUE]

Unblock(usr) == [usr EXCEPT !.blocked = FALSE]

\* The user as the use case changes it.
Changed(r) ==
  CASE req[r].kind = "verify"  -> Verify(req[r].usr)
    [] req[r].kind = "block"   -> Block(req[r].usr)
    [] req[r].kind = "unblock" -> Unblock(req[r].usr)
    [] OTHER                   -> req[r].usr

Check(r) ==
  /\ req[r].pc = "check"
  /\ IF \/ req[r].kind = "login" /\ ~MayLogin(req[r].usr)
        \/ req[r].kind = "verify" /\ ~Accepts(r)
     THEN End(r)
     ELSE req' = [req EXCEPT ![r].pc = "upsert", ![r].usr = Changed(r),
                    ![r].keys = IF req[r].kind = "login" THEN @ \cup {req[r].key} ELSE @]
  /\ proved' = IF /\ req[r].kind = "verify"
                  /\ token[req[r].token] = [user |-> req[r].id, valid |-> TRUE]
               THEN proved \cup {req[r].id} ELSE proved
  /\ UNCHANGED <<tables, served>>

-----------------------------------------------------------------------------
(* saveUser: the row of the user, then one statement for each session.     *)

\* The constraint UNIQUE (login).
Violates(u, l) == \E v \in Users \ {u} : user[v] # NoUser /\ user[v].login = l
ViolatesNever(u, l) == FALSE

UpsertUser(u, usr) == user' = [user EXCEPT ![u] = usr]

Upsert(r) ==
  LET u == req[r].id IN
  /\ req[r].pc = "upsert"
  /\ IF Violates(u, req[r].usr.login)
     THEN End(r) /\ UNCHANGED user
     ELSE /\ UpsertUser(u, req[r].usr)
          /\ req' = [s \in Requests |->
               IF s = r THEN [req[r] EXCEPT !.pc = "rows"]
               ELSE [req[s] EXCEPT !.old =
                       @ \/ (req[r].usr.blocked /\ req[s].id = u
                               /\ req[s].pc \in {"sessions", "check", "upsert"})]]
  /\ UNCHANGED <<setting, session, token, mail, cookie, served, proved>>

AfterRows(kind) == IF kind \in {"register", "login"} THEN "enqueue" ELSE "idle"

\* The row is made, or gets another owner and keeps its values.
UpsertNewSession(k, u) ==
  session' = [session EXCEPT ![k] =
    IF @ = NoSession THEN [owner |-> u, filled |-> FALSE, values |-> NoValues]
    ELSE [@ EXCEPT !.owner = u]]

\* The foreign key demands that the user is still there.
WriteSession(r) ==
  /\ req[r].pc = "rows"
  /\ \E k \in req[r].keys :
       IF user[req[r].id] = NoUser
       THEN End(r) /\ UNCHANGED session
       ELSE /\ UpsertNewSession(k, req[r].id)
            /\ req' = [req EXCEPT ![r].keys = @ \ {k}]
  /\ UNCHANGED <<setting, user, token, mail, cookie, served, proved>>

RowsWritten(r) ==
  /\ req[r].pc = "rows" /\ req[r].keys = {}
  /\ IF AfterRows(req[r].kind) = "idle" THEN End(r) ELSE Goto(r, AfterRows(req[r].kind))
  /\ UNCHANGED <<tables, served, proved>>

\* The job for the mail; that of a login from a new device changes nothing here.
Enqueue(r) ==
  /\ req[r].pc = "enqueue"
  /\ mail' = IF req[r].kind = "register" THEN mail \cup {req[r].id} ELSE mail
  /\ Goto(r, "save")
  /\ UNCHANGED <<setting, user, session, token, cookie, served, proved>>

-----------------------------------------------------------------------------
(* The controller writes the session and the cookie.                       *)

\* A registration and a login enter the user, a login its rank as well.
LoginValues(r) ==
  LET entered == [req[r].values EXCEPT !.user = req[r].id] IN
  IF req[r].kind = "register" THEN entered ELSE [entered EXCEPT !.super = req[r].usr.superuser]

NewValues(r) ==
  LET v == req[r].values IN
  CASE req[r].kind \in {"register", "login"} -> LoginValues(r)
    [] req[r].kind = "loginas"  -> [v EXCEPT !.user = req[r].id, !.origin = v.user]
    [] req[r].kind = "leave"    -> [v EXCEPT !.user = v.origin, !.origin = Nobody]

SaveSession(r) ==
  /\ req[r].pc = "save"
  /\ session' = Stored(req[r].key, NewValues(r))
  /\ cookie' = [cookie EXCEPT ![req[r].browser] = req[r].key]
  /\ End(r)
  /\ UNCHANGED <<setting, user, token, mail, served, proved>>

DeleteSession(r) ==
  /\ req[r].pc = "delete"
  /\ session' = [session EXCEPT ![req[r].key] = NoSession]
  /\ cookie' = [cookie EXCEPT ![req[r].browser] = NoKey]
  /\ End(r)
  /\ UNCHANGED <<setting, user, token, mail, served, proved>>

\* A statement, the look-up of the address or the queue fails: the request ends and
\* leaves what it has written.
Fail(r) ==
  /\ req[r].pc # "idle"
  /\ End(r)
  /\ UNCHANGED <<tables, served, proved>>

-----------------------------------------------------------------------------
(* What happens beside the requests.                                       *)

CreateVerificationToken(t, u) == token' = [token EXCEPT ![t] = [user |-> u, valid |-> TRUE]]

\* The job that makes a token and mails it, in the transaction of the queue.
SendMail(u) ==
  /\ u \in mail
  /\ user[u] # NoUser
  /\ \E t \in Tokens : token[t] = NoToken /\ CreateVerificationToken(t, u)
  /\ mail' = mail \ {u}
  /\ UNCHANGED <<setting, user, session, cookie, req, served, proved>>

Expire(t) ==
  /\ token[t] # NoToken /\ token[t].valid
  /\ token' = [token EXCEPT ![t].valid = FALSE]
  /\ UNCHANGED <<setting, user, session, mail, cookie, req, served, proved>>

DestroySession(k) ==
  /\ session[k] # NoSession
  /\ session' = [session EXCEPT ![k] = NoSession]
  /\ UNCHANGED <<setting, user, token, mail, cookie, req, served, proved>>

\* Delete, with the sessions and tokens of the user (ON DELETE CASCADE).
DeleteUser(u) ==
  /\ user[u] # NoUser
  /\ user' = [user EXCEPT ![u] = NoUser]
  /\ session' = [k \in Keys |-> IF session[k] # NoSession /\ session[k].owner = u
                                THEN NoSession ELSE session[k]]
  /\ token' = [t \in Tokens |-> IF token[t] # NoToken /\ token[t].user = u
                                THEN NoToken ELSE token[t]]
  /\ UNCHANGED <<setting, mail, cookie, req, served, proved>>

SaveSetting(s) ==
  /\ setting' = [setting EXCEPT ![s] = ~@]
  /\ UNCHANGED <<user, session, token, mail, cookie, req, served, proved>>

\* NewAuthContext saves both settings as true whenever the application starts.
Restart ==
  /\ req' = [r \in Requests |-> Done]
  /\ setting' = [s \in DOMAIN setting |-> TRUE]
  /\ UNCHANGED <<user, session, token, mail, cookie, served, proved>>

Serve(r) ==
  \/ Begin(r) \/ ReadSetting(r) \/ Exists(r) \/ Find(r) \/ FindSessions(r) \/ Check(r)
  \/ Upsert(r) \/ WriteSession(r) \/ RowsWritten(r) \/ Enqueue(r)
  \/ SaveSession(r) \/ DeleteSession(r) \/ Fail(r)

Next ==
  \/ \E r \in Requests : Serve(r)
  \/ \E u \in Users : SendMail(u) \/ DeleteUser(u)
  \/ \E t \in Tokens : Expire(t)
  \/ \E k \in Keys : DestroySession(k)
  \/ \E s \in DOMAIN setting : SaveSetting(s)
  \/ Restart

Spec == Init /\ [][Next]_vars

-----------------------------------------------------------------------------
(* Properties.                                                             *)

\* However registrations overlap, no two users have one login; RegisterNewUser
\* looks for it and saves later.
LoginsUnique ==
  \A u, v \in Users :
    u # v /\ user[u] # NoUser /\ user[v] # NoUser => user[u].login # user[v].login

\* Who counts as verified has shown, in time, a token that was mailed to it; also in
\* what a request still has in hand and may save later (Verify, userFromModel).
VerifiedByToken ==
  /\ \A u \in Users : user[u] # NoUser /\ user[u].verified => u \in proved
  /\ \A r \in Requests : req[r].pc # "idle" /\ req[r].usr.verified => req[r].id \in proved

\* A block lasts until somebody unblocks the user, with one exception: a request
\* that had read the user before a request saved it as blocked, and saves it
\* afterwards.
BlockLasts ==
  [][\A u \in Users :
       user[u] # NoUser /\ user[u].blocked /\ user'[u] # NoUser /\ ~user'[u].blocked =>
         \E r \in Requests : /\ Upsert(r) /\ req[r].id = u
                             /\ req[r].kind = "unblock" \/ req[r].old]_vars
=============================================================================
