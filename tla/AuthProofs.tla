----------------------------- MODULE AuthProofs -----------------------------
(***************************************************************************)
(* Proofs about Auth: its types, that logins are unique and that only a    *)
(* user who has shown a token counts as verified, for any users, sessions, *)
(* tokens and requests, however their statements interleave and fail.      *)
(***************************************************************************)
EXTENDS Auth, TLAPS

Req == [pc : PCs, kind : Kinds, id : Users \cup {Nobody}, key : Keys \cup {NoKey},
        browser : Browsers \cup {Nobody}, values : Values,
        usr : UserRows \cup {NoUser}, keys : SUBSET Keys, token : Tokens \cup {NoToken},
        old : BOOLEAN]

(* A request has a user in hand, and one that registers it has not         *)
(* verified it; those for the mail and for the session are of their kinds. *)
InHand ==
  \A r \in Requests : req[r].pc # "idle" =>
    /\ req[r].usr \in UserRows /\ req[r].key \in Keys
    /\ req[r].kind = "verify" => req[r].id \in Users /\ req[r].token \in Tokens
    /\ req[r].pc \in {"setting", "exists"} => ~req[r].usr.verified
    /\ req[r].pc \in {"sessions", "check", "upsert", "rows", "enqueue"} => req[r].id \in Users
    /\ req[r].pc = "enqueue" => req[r].kind \in {"register", "login"}
    /\ req[r].pc = "save" => req[r].kind \in {"register", "login", "loginas", "leave"}

IInv == TypeOK /\ InHand /\ VerifiedByToken

LEMMA DoneType == Done \in Req
  BY DEF Done, Req, PCs, Kinds, Values, NoValues

LEMMA InitType == Init => TypeOK
<1> SUFFICES ASSUME Init PROVE TypeOK
  OBVIOUS
<1>1. req \in [Requests -> Req]
  BY DoneType DEF Init
<1>2. /\ user \in [Users -> UserRows \cup {NoUser}]
      /\ session \in [Keys -> Rows \cup {NoSession}]
      /\ cookie \in [Browsers -> Keys \cup {NoKey}]
      /\ proved \subseteq Users
  <2>1. CASE Nothing
    BY <2>1 DEF Nothing
  <2>2. CASE Founded
    BY <2>2 DEF Founded, UserRows, Rows, Values
  <2> QED
    BY <2>1, <2>2 DEF Init
<1> QED
  BY <1>1, <1>2, AuthAssumption DEF Init, TypeOK, Req

(* The next state of a request that has another record in hand.            *)
LEMMA ReqType ==
  ASSUME req \in [Requests -> Req], NEW r \in Requests, NEW x \in Req
  PROVE  [req EXCEPT ![r] = x] \in [Requests -> Req]
  OBVIOUS

LEMMA NewValuesType ==
  ASSUME TypeOK, InHand, NEW r \in Requests, req[r].pc = "save"
  PROVE  NewValues(r) \in Values
<1>1. /\ req[r].values \in Values /\ req[r].id \in Users \cup {Nobody}
      /\ req[r].usr \in UserRows
      /\ req[r].kind \in {"register", "login", "loginas", "leave"}
  BY DEF TypeOK, InHand
<1>2. req[r].usr.superuser \in BOOLEAN
  BY <1>1 DEF UserRows
<1>3. LoginValues(r) \in Values
  BY <1>1, <1>2 DEF LoginValues, Values
<1>4. CASE req[r].kind \in {"register", "login"}
  BY <1>3, <1>4 DEF NewValues
<1>5. CASE req[r].kind = "loginas"
  BY <1>1, <1>5 DEF NewValues, Values
<1>6. CASE req[r].kind = "leave"
  BY <1>1, <1>6 DEF NewValues, Values
<1> QED
  BY <1>1, <1>4, <1>5, <1>6

LEMMA ChangedType ==
  ASSUME NEW r \in Requests, req[r].usr \in UserRows
  PROVE  /\ Changed(r) \in UserRows
         /\ Changed(r).verified => req[r].usr.verified \/ req[r].kind = "verify"
  BY DEF Changed, Verify, Block, Unblock, UserRows

(* What InHand and VerifiedByToken say of one request, when the users of P *)
(* have shown a token.                                                     *)
Held(x, P) ==
  /\ x \in Req
  /\ x.pc # "idle" =>
       /\ x.usr \in UserRows /\ x.key \in Keys
       /\ x.kind = "verify" => x.id \in Users /\ x.token \in Tokens
       /\ x.pc \in {"setting", "exists"} => ~x.usr.verified
       /\ x.pc \in {"sessions", "check", "upsert", "rows", "enqueue"} => x.id \in Users
       /\ x.pc = "enqueue" => x.kind \in {"register", "login"}
       /\ x.pc = "save" => x.kind \in {"register", "login", "loginas", "leave"}
       /\ x.usr.verified => x.id \in P

LEMMA HeldInv ==
  ASSUME TypeOK
  PROVE  InHand /\ VerifiedByToken <=>
           /\ \A r \in Requests : Held(req[r], proved)
           /\ \A u \in Users : user[u] # NoUser /\ user[u].verified => u \in proved
  BY DEF InHand, VerifiedByToken, Held, TypeOK, Req

(* A step that changes what one request has in hand and nothing else.      *)
LEMMA KeepInv ==
  ASSUME IInv, NEW r \in Requests, NEW x, Held(x, proved), req' = [req EXCEPT ![r] = x],
         UNCHANGED <<setting, user, session, token, mail, cookie, proved>>,
         served' \in 0 .. MaxRequests
  PROVE  IInv'
<1>1. req' \in [Requests -> Req]
  BY DEF IInv, TypeOK, Held, Req
<1>2. TypeOK'
  BY <1>1 DEF IInv, TypeOK, Req
<1>3. \A s \in Requests : Held(req'[s], proved) /\ (s # r => req'[s] = req[s])
  BY HeldInv DEF IInv, TypeOK
<1>4. InHand' /\ VerifiedByToken'
  BY <1>2, <1>3 DEF IInv, InHand, VerifiedByToken, Held
<1> QED
  BY <1>2, <1>4 DEF IInv

(* What a request has in hand when it has begun.                           *)
LEMMA BeginAsks ==
  ASSUME IInv, NEW r \in Requests, Begin(r)
  PROVE  \E kind \in Kinds, b \in Browsers, k \in Keys : \E v \in Loaded(k) :
           \E u \in Users \cup {Nobody}, l \in Logins, t \in Tokens \cup {NoToken}, su \in BOOLEAN :
             /\ (kind \in {"verify", "block", "unblock", "loginas"}) <=> (u # Nobody)
             /\ (kind = "verify") <=> (t # NoToken)
             /\ req' = [req EXCEPT ![r] = Asked(kind, b, k, v, u, l, t, su)]
<1>1. May[r] \subseteq Kinds /\ \A b \in Browsers : KeysFor(b) \subseteq Keys
  BY AuthAssumption DEF KeysFor, IInv, TypeOK
<1>2. PICK kind \in May[r], b \in Browsers :
        \E k \in KeysFor(b) : \E v \in Loaded(k) :
          /\ First(kind, v) # "idle"
          /\ \E u \in Users \cup {Nobody}, l \in Logins, t \in Tokens \cup {NoToken}, su \in BOOLEAN :
               /\ (kind \in {"verify", "block", "unblock", "loginas"}) <=> (u # Nobody)
               /\ (kind = "verify") <=> (t # NoToken)
               /\ su => kind = "newuser"
               /\ req' = [req EXCEPT ![r] = Asked(kind, b, k, v, u, l, t, su)]
  BY DEF Begin
<1>3. PICK k \in KeysFor(b) :
        \E v \in Loaded(k) :
          \E u \in Users \cup {Nobody}, l \in Logins, t \in Tokens \cup {NoToken}, su \in BOOLEAN :
            /\ (kind \in {"verify", "block", "unblock", "loginas"}) <=> (u # Nobody)
            /\ (kind = "verify") <=> (t # NoToken)
            /\ req' = [req EXCEPT ![r] = Asked(kind, b, k, v, u, l, t, su)]
  BY <1>2
<1>4. kind \in Kinds /\ k \in Keys
  BY <1>1
<1> QED
  BY <1>3, <1>4

LEMMA BeginInv ==
  ASSUME IInv, NEW r \in Requests, Begin(r)
  PROVE  IInv'
<1>1. PICK kind \in Kinds, b \in Browsers, k \in Keys : \E v \in Loaded(k) :
        \E u \in Users \cup {Nobody}, l \in Logins, t \in Tokens \cup {NoToken}, su \in BOOLEAN :
          /\ (kind \in {"verify", "block", "unblock", "loginas"}) <=> (u # Nobody)
          /\ (kind = "verify") <=> (t # NoToken)
          /\ req' = [req EXCEPT ![r] = Asked(kind, b, k, v, u, l, t, su)]
  BY BeginAsks
<1>2. PICK v \in Loaded(k) :
        \E u \in Users \cup {Nobody}, l \in Logins, t \in Tokens \cup {NoToken}, su \in BOOLEAN :
          /\ (kind \in {"verify", "block", "unblock", "loginas"}) <=> (u # Nobody)
          /\ (kind = "verify") <=> (t # NoToken)
          /\ req' = [req EXCEPT ![r] = Asked(kind, b, k, v, u, l, t, su)]
  BY <1>1
<1>3. PICK u \in Users \cup {Nobody}, l \in Logins, t \in Tokens \cup {NoToken}, su \in BOOLEAN :
        /\ (kind \in {"verify", "block", "unblock", "loginas"}) <=> (u # Nobody)
        /\ (kind = "verify") <=> (t # NoToken)
        /\ req' = [req EXCEPT ![r] = Asked(kind, b, k, v, u, l, t, su)]
  BY <1>2
<1> DEFINE x == Asked(kind, b, k, v, u, l, t, su)
<1>4. v \in Values
  <2>1. session[k] \in Rows \cup {NoSession}
    BY DEF IInv, TypeOK
  <2>2. session[k] \in Rows => session[k].values \in Values
    BY DEF Rows
  <2>3. NoValues \in Values
    BY DEF NoValues, Values
  <2> QED
    BY <2>1, <2>2, <2>3 DEF Loaded
<1>5. First(kind, v) \in PCs
  BY DEF First, Kinds, PCs
<1>6. /\ x.pc = First(kind, v) /\ x.kind = kind /\ x.id = u /\ x.key = k /\ x.token = t
      /\ x.usr = [login |-> l, verified |-> FALSE, blocked |-> FALSE, superuser |-> su]
  BY DEF Asked
<1>7. x \in Req
  <2>1. x.values \in Values
    BY <1>4 DEF Asked, Values, NoValues
  <2>2. x.usr \in UserRows
    BY <1>6 DEF UserRows
  <2> QED
    BY <1>5, <2>1, <2>2 DEF Asked, Req
<1>8. x.usr \in UserRows /\ ~x.usr.verified
  BY <1>6 DEF UserRows
<1>9. x.pc \notin {"sessions", "check", "upsert", "rows", "enqueue"} /\ (x.pc = "save" => x.kind = "leave")
  BY <1>6 DEF First, Kinds
<1>10. x.kind = "verify" => x.id \in Users /\ x.token \in Tokens
  BY <1>3, <1>6
<1> HIDE DEF x
<1>11. Held(x, proved)
  BY <1>6, <1>7, <1>8, <1>9, <1>10 DEF Held
<1>12. served' \in 0 .. MaxRequests
  BY AuthAssumption DEF Begin, IInv, TypeOK
<1>13. req' = [req EXCEPT ![r] = x]
  BY <1>3 DEF x
<1>14. UNCHANGED <<setting, user, session, token, mail, cookie, proved>>
  BY DEF Begin, tables
<1> QED
  BY <1>11, <1>12, <1>13, <1>14, KeepInv

LEMMA DoneHeld == Held(Done, proved)
  BY DoneType DEF Held, Done

(* The request ends, or goes on to the next step with what it has.         *)
LEMMA EndInv ==
  ASSUME IInv, NEW r \in Requests, End(r),
         UNCHANGED <<setting, user, session, token, mail, cookie, proved, served>>
  PROVE  IInv'
  BY DoneHeld, KeepInv DEF End, IInv, TypeOK

LEMMA GotoInv ==
  ASSUME IInv, NEW r \in Requests, NEW pc \in {"exists", "enqueue"}, Goto(r, pc), req[r].pc # "idle",
         pc = "exists" => req[r].pc = "setting",
         pc = "enqueue" => req[r].kind \in {"register", "login"} /\ req[r].pc = "rows",
         UNCHANGED <<setting, user, session, token, mail, cookie, proved, served>>
  PROVE  IInv'
<1> DEFINE x == [req[r] EXCEPT !.pc = pc]
<1>1. req[r] \in Req /\ Held(req[r], proved)
  BY HeldInv DEF IInv, TypeOK, Req
<1>2. x \in Req
  BY <1>1 DEF Req, PCs
<1>3. /\ x.pc = pc /\ x.usr = req[r].usr /\ x.kind = req[r].kind /\ x.id = req[r].id
      /\ x.key = req[r].key /\ x.token = req[r].token
  BY <1>1 DEF Req
<1>4. Held(x, proved)
  BY <1>1, <1>2, <1>3 DEF Held
<1>5. req' = [req EXCEPT ![r] = x]
  BY DEF Goto
<1> HIDE DEF x
<1> QED
  BY <1>4, <1>5, KeepInv DEF IInv, TypeOK

LEMMA ReadSettingInv ==
  ASSUME IInv, NEW r \in Requests, ReadSetting(r)
  PROVE  IInv'
  BY EndInv, GotoInv DEF ReadSetting, tables, PCs

LEMMA ExistsInv ==
  ASSUME IInv, NEW r \in Requests, Exists(r)
  PROVE  IInv'
<1>1. UNCHANGED <<setting, user, session, token, mail, cookie, proved, served>>
  BY DEF Exists, tables
<1>2. CASE End(r)
  BY <1>1, <1>2, EndInv
<1>3. ASSUME NEW u \in Users,
             req' = [req EXCEPT ![r].id = u, ![r].pc = "upsert",
                       ![r].keys = IF req[r].kind = "register" THEN {req[r].key} ELSE {}]
      PROVE  IInv'
  <2> DEFINE K == (IF req[r].kind = "register" THEN {req[r].key} ELSE {})
             x == [req[r] EXCEPT !.id = u, !.pc = "upsert", !.keys = K]
  <2>1. req[r] \in Req /\ Held(req[r], proved)
    BY HeldInv DEF IInv, TypeOK, Req
  <2>2. req[r].pc = "exists"
    BY DEF Exists
  <2>3. K \in SUBSET Keys
    BY <2>1, <2>2 DEF Held
  <2>4. x \in Req
    BY <2>1, <2>3 DEF Req, PCs
  <2>5. /\ x.pc = "upsert" /\ x.usr = req[r].usr /\ x.kind = req[r].kind /\ x.id = u
        /\ x.key = req[r].key /\ x.token = req[r].token
    BY <2>1 DEF Req
  <2>6. Held(x, proved)
    BY <2>1, <2>2, <2>4, <2>5 DEF Held
  <2>7. req' = [req EXCEPT ![r] = x]
    BY <1>3
  <2> HIDE DEF x
  <2> QED
    BY <1>1, <2>6, <2>7, KeepInv DEF IInv, TypeOK
<1> QED
  BY <1>2, <1>3 DEF Exists

LEMMA FindInv ==
  ASSUME IInv, NEW r \in Requests, Find(r)
  PROVE  IInv'
<1>1. UNCHANGED <<setting, user, session, token, mail, cookie, proved, served>>
  BY DEF Find, tables
<1>2. CASE End(r)
  BY <1>1, <1>2, EndInv
<1>3. ASSUME NEW u \in Users, user[u] # NoUser, NEW pc \in {"save", "sessions"},
             pc = "save" => req[r].kind = "loginas",
             req' = [req EXCEPT ![r].id = u, ![r].usr = user[u], ![r].pc = pc]
      PROVE  IInv'
  <2> DEFINE x == [req[r] EXCEPT !.id = u, !.usr = user[u], !.pc = pc]
  <2>1. req[r] \in Req /\ Held(req[r], proved)
    BY HeldInv DEF IInv, TypeOK, Req
  <2>2. user[u] \in UserRows /\ (user[u].verified => u \in proved)
    BY <1>3 DEF IInv, TypeOK, VerifiedByToken
  <2>3. x \in Req
    BY <2>1, <2>2, <1>3 DEF Req, PCs
  <2>4. /\ x.pc = pc /\ x.usr = user[u] /\ x.kind = req[r].kind /\ x.id = u
        /\ x.key = req[r].key /\ x.token = req[r].token /\ req[r].pc = "find"
    BY <2>1 DEF Req, Find, FoundUsers
  <2>5. Held(x, proved)
    BY <2>1, <2>2, <2>3, <2>4, <1>3 DEF Held
  <2>6. req' = [req EXCEPT ![r] = x]
    BY <1>3
  <2> HIDE DEF x
  <2> QED
    BY <1>1, <2>5, <2>6, KeepInv DEF IInv, TypeOK
<1>4. CASE ~End(r)
  <2>1. PICK u \in Users :
          /\ user[u] # NoUser
          /\ req' = [req EXCEPT ![r].id = u, ![r].usr = user[u],
                       ![r].pc = IF req[r].kind = "loginas" THEN "save" ELSE "sessions"]
    BY <1>4 DEF Find, FoundUsers
  <2> QED
    BY <1>3, <2>1
<1> QED
  BY <1>2, <1>4

LEMMA FindSessionsInv ==
  ASSUME IInv, NEW r \in Requests, FindSessions(r)
  PROVE  IInv'
<1> DEFINE S == FindSessionsByUserID(req[r].id)
           x == [req[r] EXCEPT !.pc = "check", !.keys = S]
<1>1. req[r] \in Req /\ Held(req[r], proved)
  BY HeldInv DEF IInv, TypeOK, Req
<1>2. S \subseteq Keys
  BY DEF FindSessionsByUserID
<1>3. x \in Req
  BY <1>1, <1>2 DEF Req, PCs
<1>4. /\ x.pc = "check" /\ x.usr = req[r].usr /\ x.kind = req[r].kind /\ x.id = req[r].id
      /\ x.key = req[r].key /\ x.token = req[r].token /\ req[r].pc = "sessions"
  BY <1>1 DEF Req, FindSessions
<1>5. Held(x, proved)
  BY <1>1, <1>3, <1>4 DEF Held
<1>6. req' = [req EXCEPT ![r] = x] /\ UNCHANGED <<setting, user, session, token, mail, cookie, proved, served>>
  BY DEF FindSessions, tables
<1> HIDE DEF x
<1> QED
  BY <1>5, <1>6, KeepInv DEF IInv, TypeOK

(* A step that changes more than one request.                              *)
LEMMA NextInv ==
  ASSUME TypeOK', \A r \in Requests : Held(req'[r], proved'),
         \A u \in Users : user'[u] # NoUser /\ user'[u].verified => u \in proved'
  PROVE  IInv'
  BY DEF IInv, InHand, VerifiedByToken, Held

LEMMA CheckInv ==
  ASSUME IInv, NEW r \in Requests, Check(r)
  PROVE  IInv'
<1>1. /\ UNCHANGED <<setting, user, session, token, mail, cookie, served>>
      /\ req[r].pc = "check"
  BY DEF Check, tables
<1>2. req[r] \in Req /\ Held(req[r], proved)
  BY HeldInv DEF IInv, TypeOK, Req
<1>3. proved \subseteq proved' /\ proved' \subseteq Users
  BY <1>1, <1>2 DEF Check, IInv, TypeOK, Held
<1>4. CASE End(r)
  <2>1. req' \in [Requests -> Req]
    BY <1>4, DoneType DEF End, IInv, TypeOK, Req
  <2>2. TypeOK'
    BY <1>1, <1>3, <2>1 DEF IInv, TypeOK, Req
  <2>3. \A s \in Requests : Held(req'[s], proved')
    <3> TAKE s \in Requests
    <3>1. Held(req[s], proved)
      BY HeldInv DEF IInv
    <3>2. CASE s = r
      BY <1>4, <3>2, DoneType DEF End, IInv, TypeOK, Held, Done
    <3>3. CASE s # r
      BY <1>3, <1>4, <3>1, <3>3 DEF End, IInv, TypeOK, Held
    <3> QED
      BY <3>2, <3>3
  <2> QED
    BY <1>1, <1>3, <2>2, <2>3, NextInv DEF IInv, VerifiedByToken
<1>5. CASE ~End(r)
  <2> DEFINE K == (IF req[r].kind = "login" THEN req[r].keys \cup {req[r].key} ELSE req[r].keys)
             x == [req[r] EXCEPT !.pc = "upsert", !.usr = Changed(r), !.keys = K]
  <2>1. /\ ~(req[r].kind = "verify" /\ ~Accepts(r))
        /\ req' = [req EXCEPT ![r].pc = "upsert", ![r].usr = Changed(r),
                     ![r].keys = IF req[r].kind = "login" THEN @ \cup {req[r].key} ELSE @]
    BY <1>5 DEF Check
  <2>2. req' = [req EXCEPT ![r] = x]
    BY <2>1, <1>2 DEF IInv, TypeOK
  <2>3. K \in SUBSET Keys /\ req[r].usr \in UserRows
    BY <1>1, <1>2 DEF Req, Held
  <2>4. Changed(r) \in UserRows /\ (Changed(r).verified => req[r].usr.verified \/ req[r].kind = "verify")
    BY <2>3, ChangedType
  <2>5. x \in Req
    BY <1>2, <2>3, <2>4 DEF Req, PCs
  <2>6. /\ x.pc = "upsert" /\ x.usr = Changed(r) /\ x.kind = req[r].kind /\ x.id = req[r].id
        /\ x.key = req[r].key /\ x.token = req[r].token
    BY <1>2 DEF Req
  <2>7. req[r].kind = "verify" => req[r].id \in proved'
    <3> SUFFICES ASSUME req[r].kind = "verify"
                 PROVE  req[r].id \in proved'
      OBVIOUS
    <3>1. Accepts(r) /\ token[req[r].token] # NoToken
      BY <2>1 DEF Accepts
    <3>2. req[r].token \in Tokens
      BY <1>1, <1>2 DEF Held
    <3>3. token[req[r].token] \in [user : Users, valid : BOOLEAN]
      BY <3>1, <3>2 DEF IInv, TypeOK
    <3>4. token[req[r].token] = [user |-> req[r].id, valid |-> TRUE]
      BY <3>1, <3>3 DEF Accepts
    <3> QED
      BY <3>4 DEF Check
  <2>8. Held(x, proved')
    BY <1>1, <1>2, <1>3, <2>4, <2>5, <2>6, <2>7 DEF Held
  <2> HIDE DEF x
  <2>9. req' \in [Requests -> Req]
    BY <2>2, <2>5 DEF IInv, TypeOK, Req
  <2>10. TypeOK'
    BY <1>1, <1>3, <2>9 DEF IInv, TypeOK, Req
  <2>11. \A s \in Requests : Held(req'[s], proved')
    <3> TAKE s \in Requests
    <3>1. Held(req[s], proved)
      BY HeldInv DEF IInv
    <3>2. CASE s = r
      BY <2>2, <2>8, <3>2 DEF IInv, TypeOK
    <3>3. CASE s # r
      BY <1>3, <2>2, <3>1, <3>3 DEF IInv, TypeOK, Held
    <3> QED
      BY <3>2, <3>3
  <2> QED
    BY <1>1, <1>3, <2>10, <2>11, NextInv DEF IInv, VerifiedByToken
<1> QED
  BY <1>4, <1>5

(* A step that leaves the requests as they are and forgets no proof.       *)
LEMMA BesideInv ==
  ASSUME IInv, TypeOK', UNCHANGED <<req, proved>>,
         \A u \in Users : user'[u] # NoUser /\ user'[u].verified => user'[u] = user[u]
  PROVE  IInv'
  BY HeldInv, NextInv DEF IInv, VerifiedByToken

(* A step that changes sessions, cookies and mails and what one request    *)
(* has in hand.                                                            *)
LEMMA WrittenInv ==
  ASSUME IInv, NEW r \in Requests, NEW x, Held(x, proved), req' = [req EXCEPT ![r] = x],
         UNCHANGED <<setting, user, token, proved, served>>,
         session' \in [Keys -> Rows \cup {NoSession}],
         cookie' \in [Browsers -> Keys \cup {NoKey}], mail' \subseteq Users
  PROVE  IInv'
<1>1. req' \in [Requests -> Req]
  BY DEF IInv, TypeOK, Held, Req
<1>2. TypeOK'
  BY <1>1 DEF IInv, TypeOK, Req
<1>3. \A s \in Requests : Held(req'[s], proved')
  BY HeldInv DEF IInv, TypeOK
<1> QED
  BY <1>2, <1>3, NextInv DEF IInv, VerifiedByToken

LEMMA UpsertInv ==
  ASSUME IInv, NEW r \in Requests, Upsert(r)
  PROVE  IInv'
<1>1. /\ UNCHANGED <<setting, session, token, mail, cookie, served, proved>>
      /\ req[r].pc = "upsert"
  BY DEF Upsert
<1>2. CASE End(r) /\ UNCHANGED user
  BY <1>1, <1>2, EndInv
<1>3. CASE ~(End(r) /\ UNCHANGED user)
  <2> DEFINE Old(s) == req[s].old \/ (req[r].usr.blocked /\ req[s].id = req[r].id
                               /\ req[s].pc \in {"sessions", "check", "upsert"})
             x(s) == IF s = r THEN [req[r] EXCEPT !.pc = "rows"]
                     ELSE [req[s] EXCEPT !.old = Old(s)]
  <2>1. /\ user' = [user EXCEPT ![req[r].id] = req[r].usr]
        /\ req' = [s \in Requests |-> x(s)]
    BY <1>3 DEF Upsert, UpsertUser
  <2>2. \A s \in Requests : Held(req[s], proved)
    BY HeldInv DEF IInv
  <2>3. \A s \in Requests : Held(x(s), proved)
    <3> TAKE s \in Requests
    <3>1. req[s] \in Req
      BY <2>2 DEF Held
    <3>2. Old(s) \in BOOLEAN
      BY <3>1 DEF Req
    <3>3. x(s) \in Req
      <4>1. [req[s] EXCEPT !.pc = "rows"] \in Req
        BY <3>1 DEF Req, PCs
      <4>2. [req[s] EXCEPT !.old = Old(s)] \in Req
        BY <3>1, <3>2 DEF Req
      <4> QED
        BY <4>1, <4>2
    <3>4. /\ x(s).pc = (IF s = r THEN "rows" ELSE req[s].pc) /\ x(s).usr = req[s].usr
          /\ x(s).kind = req[s].kind /\ x(s).id = req[s].id /\ x(s).key = req[s].key
          /\ x(s).token = req[s].token
      BY <3>1, <3>2 DEF Req
    <3> HIDE DEF x
    <3> QED
      BY <1>1, <2>2, <3>3, <3>4 DEF Held
  <2> HIDE DEF x
  <2>4. req' \in [Requests -> Req]
    BY <2>1, <2>3 DEF Held
  <2>5. user' \in [Users -> UserRows \cup {NoUser}]
    BY <1>1, <2>1, <2>2 DEF IInv, TypeOK, Held
  <2>6. TypeOK'
    BY <1>1, <2>4, <2>5 DEF IInv, TypeOK, Req
  <2>7. \A u \in Users : user'[u] # NoUser /\ user'[u].verified => u \in proved'
    <3> TAKE u \in Users
    <3>1. CASE u = req[r].id
      BY <1>1, <2>1, <2>2, <3>1 DEF IInv, TypeOK, Held
    <3>2. CASE u # req[r].id
      BY <1>1, <2>1, <3>2 DEF IInv, TypeOK, VerifiedByToken
    <3> QED
      BY <3>1, <3>2
  <2>8. \A s \in Requests : Held(req'[s], proved')
    BY <1>1, <2>1, <2>3
  <2> QED
    BY <2>6, <2>7, <2>8, NextInv
<1> QED
  BY <1>2, <1>3

LEMMA WriteSessionInv ==
  ASSUME IInv, NEW r \in Requests, WriteSession(r)
  PROVE  IInv'
<1>1. /\ UNCHANGED <<setting, user, token, mail, cookie, served, proved>>
      /\ req[r].pc = "rows"
  BY DEF WriteSession
<1>2. PICK k \in req[r].keys :
        IF user[req[r].id] = NoUser
        THEN End(r) /\ UNCHANGED session
        ELSE /\ UpsertNewSession(k, req[r].id)
             /\ req' = [req EXCEPT ![r].keys = @ \ {k}]
  BY DEF WriteSession
<1>3. CASE user[req[r].id] = NoUser
  BY <1>1, <1>2, <1>3, EndInv
<1>4. CASE user[req[r].id] # NoUser
  <2> DEFINE x == [req[r] EXCEPT !.keys = req[r].keys \ {k}]
  <2>1. req[r] \in Req /\ Held(req[r], proved)
    BY HeldInv DEF IInv, TypeOK, Req
  <2>2. k \in Keys /\ req[r].id \in Users \cup {Nobody}
    BY <2>1 DEF Req
  <2>3. x \in Req
    BY <2>1 DEF Req
  <2>4. /\ x.pc = req[r].pc /\ x.usr = req[r].usr /\ x.kind = req[r].kind /\ x.id = req[r].id
        /\ x.key = req[r].key /\ x.token = req[r].token
    BY <2>1 DEF Req
  <2>5. Held(x, proved)
    BY <2>1, <2>3, <2>4 DEF Held
  <2>6. session' \in [Keys -> Rows \cup {NoSession}]
    <3>1. session[k] \in Rows \cup {NoSession}
      BY <2>2 DEF IInv, TypeOK
    <3>2. (IF session[k] = NoSession THEN [owner |-> req[r].id, filled |-> FALSE, values |-> NoValues]
           ELSE [session[k] EXCEPT !.owner = req[r].id]) \in Rows
      BY <2>2, <3>1 DEF Rows, Values, NoValues
    <3> QED
      BY <1>2, <1>4, <2>2, <3>2 DEF UpsertNewSession, IInv, TypeOK
  <2>7. req' = [req EXCEPT ![r] = x]
    BY <1>2, <1>4 DEF IInv, TypeOK
  <2> HIDE DEF x
  <2> QED
    BY <1>1, <2>5, <2>6, <2>7, WrittenInv DEF IInv, TypeOK
<1> QED
  BY <1>3, <1>4

LEMMA RowsWrittenInv ==
  ASSUME IInv, NEW r \in Requests, RowsWritten(r)
  PROVE  IInv'
<1>1. /\ UNCHANGED <<setting, user, session, token, mail, cookie, proved, served>>
      /\ req[r].pc = "rows"
  BY DEF RowsWritten, tables
<1>2. CASE AfterRows(req[r].kind) = "idle"
  BY <1>1, <1>2, EndInv DEF RowsWritten
<1>3. CASE AfterRows(req[r].kind) # "idle"
  <2>1. req[r].kind \in {"register", "login"} /\ Goto(r, "enqueue")
    BY <1>3 DEF RowsWritten, AfterRows
  <2> QED
    BY <1>1, <2>1, GotoInv DEF PCs
<1> QED
  BY <1>2, <1>3

LEMMA EnqueueInv ==
  ASSUME IInv, NEW r \in Requests, Enqueue(r)
  PROVE  IInv'
<1> DEFINE x == [req[r] EXCEPT !.pc = "save"]
<1>1. req[r] \in Req /\ Held(req[r], proved) /\ req[r].pc = "enqueue"
  BY HeldInv DEF IInv, TypeOK, Req, Enqueue
<1>2. x \in Req
  BY <1>1 DEF Req, PCs
<1>3. /\ x.pc = "save" /\ x.usr = req[r].usr /\ x.kind = req[r].kind /\ x.id = req[r].id
      /\ x.key = req[r].key /\ x.token = req[r].token
  BY <1>1 DEF Req
<1>4. Held(x, proved)
  BY <1>1, <1>2, <1>3 DEF Held
<1>5. req' = [req EXCEPT ![r] = x]
  BY DEF Enqueue, Goto
<1>6. mail' \subseteq Users
  BY <1>1 DEF Enqueue, IInv, TypeOK, Held
<1> HIDE DEF x
<1> QED
  BY <1>4, <1>5, <1>6, WrittenInv DEF Enqueue, IInv, TypeOK

LEMMA SaveSessionInv ==
  ASSUME IInv, NEW r \in Requests, SaveSession(r)
  PROVE  IInv'
<1>1. req[r] \in Req /\ Held(req[r], proved) /\ req[r].pc = "save"
  BY HeldInv DEF IInv, TypeOK, Req, SaveSession
<1>2. NewValues(r) \in Values
  BY <1>1, NewValuesType DEF IInv
<1>3. session' \in [Keys -> Rows \cup {NoSession}]
  BY <1>1, <1>2 DEF SaveSession, Stored, Rows, IInv, TypeOK
<1>4. cookie' \in [Browsers -> Keys \cup {NoKey}]
  BY <1>1 DEF SaveSession, IInv, TypeOK, Held
<1>5. req' = [req EXCEPT ![r] = Done]
  BY DEF SaveSession, End
<1> QED
  BY <1>3, <1>4, <1>5, DoneHeld, WrittenInv DEF SaveSession, IInv, TypeOK

LEMMA DeleteSessionInv ==
  ASSUME IInv, NEW r \in Requests, DeleteSession(r)
  PROVE  IInv'
<1>1. /\ session' \in [Keys -> Rows \cup {NoSession}]
      /\ cookie' \in [Browsers -> Keys \cup {NoKey}]
  BY DEF DeleteSession, IInv, TypeOK
<1>2. req' = [req EXCEPT ![r] = Done]
  BY DEF DeleteSession, End
<1> QED
  BY <1>1, <1>2, DoneHeld, WrittenInv DEF DeleteSession, IInv, TypeOK

LEMMA FailInv ==
  ASSUME IInv, NEW r \in Requests, Fail(r)
  PROVE  IInv'
  BY EndInv DEF Fail, tables

LEMMA OutsideInv ==
  ASSUME IInv, \/ \E u \in Users : SendMail(u) \/ DeleteUser(u)
               \/ \E t \in Tokens : Expire(t)
               \/ \E k \in Keys : DestroySession(k)
               \/ \E s \in DOMAIN setting : SaveSetting(s)
  PROVE  IInv'
<1>1. ASSUME NEW u \in Users, SendMail(u)
      PROVE  IInv'
  BY <1>1, BesideInv DEF SendMail, CreateVerificationToken, IInv, TypeOK, Req
<1>2. ASSUME NEW u \in Users, DeleteUser(u)
      PROVE  IInv'
  <2>1. TypeOK'
    BY <1>2 DEF DeleteUser, IInv, TypeOK
  <2> QED
    BY <1>2, <2>1, BesideInv DEF DeleteUser, IInv, TypeOK
<1>3. ASSUME NEW t \in Tokens, Expire(t)
      PROVE  IInv'
  <2> DEFINE Known == [user : Users, valid : BOOLEAN]
  <2>10. token \in [Tokens -> Known \cup {NoToken}] /\ token[t] \in Known
    BY <1>3 DEF Expire, IInv, TypeOK
  <2>11. [token[t] EXCEPT !.valid = FALSE] \in Known
    BY <2>10
  <2>1. token' \in [Tokens -> Known \cup {NoToken}]
    BY <1>3, <2>10, <2>11 DEF Expire
  <2>2. TypeOK'
    BY <1>3, <2>1 DEF Expire, IInv, TypeOK
  <2> QED
    BY <1>3, <2>2, BesideInv DEF Expire
<1>4. ASSUME NEW k \in Keys, DestroySession(k)
      PROVE  IInv'
  <2>1. TypeOK'
    BY <1>4 DEF DestroySession, IInv, TypeOK
  <2> QED
    BY <1>4, <2>1, BesideInv DEF DestroySession
<1>5. ASSUME NEW s \in DOMAIN setting, SaveSetting(s)
      PROVE  IInv'
  <2>1. TypeOK'
    BY <1>5 DEF SaveSetting, IInv, TypeOK
  <2> QED
    BY <1>5, <2>1, BesideInv DEF SaveSetting
<1> QED
  BY <1>1, <1>2, <1>3, <1>4, <1>5

LEMMA RestartInv ==
  ASSUME IInv, Restart
  PROVE  IInv'
<1>1. UNCHANGED <<user, session, token, mail, cookie, served, proved>>
      /\ req' = [r \in Requests |-> Done]
  BY DEF Restart
<1>2. req' \in [Requests -> Req]
  BY <1>1, DoneType
<1>3. setting' \in [{"registration", "login"} -> BOOLEAN]
  BY DEF Restart, IInv, TypeOK
<1>4. TypeOK'
  BY <1>1, <1>2, <1>3 DEF IInv, TypeOK, Req
<1>5. \A r \in Requests : Held(req'[r], proved')
  BY <1>1, DoneType DEF Held, Done
<1> QED
  BY <1>1, <1>4, <1>5, NextInv DEF IInv, VerifiedByToken

LEMMA InitInv == Init => IInv
<1> SUFFICES ASSUME Init PROVE IInv
  OBVIOUS
<1>1. TypeOK
  BY InitType
<1>2. InHand
  BY DEF Init, InHand, Done
<1>3. \A r \in Requests : req[r].pc = "idle"
  BY DEF Init, Done
<1>4. \A u \in Users : user[u] # NoUser /\ user[u].verified => u \in proved
  BY DEF Init, Nothing, Founded
<1> QED
  BY <1>1, <1>2, <1>3, <1>4 DEF IInv, VerifiedByToken

LEMMA StepInv == IInv /\ [Next]_vars => IInv'
<1> SUFFICES ASSUME IInv, [Next]_vars
             PROVE  IInv'
  OBVIOUS
<1>1. ASSUME NEW r \in Requests, Serve(r)
      PROVE  IInv'
  BY <1>1, BeginInv, ReadSettingInv, ExistsInv, FindInv, FindSessionsInv, CheckInv, UpsertInv,
     WriteSessionInv, RowsWrittenInv, EnqueueInv, SaveSessionInv, DeleteSessionInv, FailInv
     DEF Serve
<1>2. CASE UNCHANGED vars
  BY <1>2 DEF vars, IInv, TypeOK, InHand, VerifiedByToken
<1> QED
  BY <1>1, <1>2, OutsideInv, RestartInv DEF Next

LEMMA Invariance == Spec => []IInv
  BY InitInv, StepInv, PTL DEF Spec

(* The types of the tables, the cookies and of all that requests have in   *)
(* hand, for the whole of package auth.                                    *)
THEOREM TypeCorrect == Spec => []TypeOK
<1>1. IInv => TypeOK
  BY DEF IInv
<1> QED
  BY <1>1, Invariance, PTL

(* Who counts as verified has shown a token of its own in time, whatever   *)
(* requests overlap and fail (verify-user.business.go:91-113).             *)
THEOREM VerifiedCorrect == Spec => []VerifiedByToken
<1>1. IInv => VerifiedByToken
  BY DEF IInv
<1> QED
  BY <1>1, Invariance, PTL

(* The constraint of the table keeps logins unique although registrations  *)
(* look for the login and save it later (register-user.business.go:43).    *)
LEMMA UniqueStep ==
  ASSUME IInv, LoginsUnique, [Next]_vars
  PROVE  LoginsUnique'
<1>1. CASE UNCHANGED user
  BY <1>1 DEF LoginsUnique
<1>2. ASSUME NEW r \in Requests, Upsert(r), user' # user
      PROVE  LoginsUnique'
  <2>1. ~Violates(req[r].id, req[r].usr.login) /\ user' = [user EXCEPT ![req[r].id] = req[r].usr]
    BY <1>2 DEF Upsert, UpsertUser
  <2> QED
    BY <2>1 DEF LoginsUnique, Violates, IInv, TypeOK
<1>3. ASSUME NEW u \in Users, DeleteUser(u)
      PROVE  LoginsUnique'
  BY <1>3 DEF DeleteUser, LoginsUnique, IInv, TypeOK
<1>4. ASSUME NEW r \in Requests, Serve(r)
      PROVE  UNCHANGED user \/ Upsert(r)
  BY <1>4 DEF Serve, Begin, ReadSetting, Exists, Find, FindSessions, Check, WriteSession, RowsWritten,
              Enqueue, SaveSession, DeleteSession, Fail, tables
<1>5. CASE \/ \E u \in Users : SendMail(u)
           \/ \E t \in Tokens : Expire(t)
           \/ \E k \in Keys : DestroySession(k)
           \/ \E s \in DOMAIN setting : SaveSetting(s)
           \/ Restart \/ UNCHANGED vars
  BY <1>1, <1>5 DEF SendMail, Expire, DestroySession, SaveSetting, Restart, vars
<1> QED
  BY <1>1, <1>2, <1>3, <1>4, <1>5 DEF Next

(* However registrations overlap, no two users have one login.             *)
THEOREM LoginsCorrect == Spec => []LoginsUnique
<1>1. Init => LoginsUnique
  BY DEF Init, Nothing, Founded, LoginsUnique
<1>2. IInv /\ LoginsUnique /\ [Next]_vars => LoginsUnique'
  BY UniqueStep
<1> QED
  BY <1>1, <1>2, Invariance, PTL DEF Spec

(* A request that will save a user whom the table has as blocked knows of  *)
(* it, or has been marked as one that read the user before.                *)
Aware(x, table) ==
  x.pc \in {"sessions", "check", "upsert"} /\ table[x.id] # NoUser /\ table[x.id].blocked
  /\ x.kind # "unblock" => x.usr.blocked \/ x.old

AllAware == \A r \in Requests : Aware(req[r], user)

LEMMA ChangedAware ==
  ASSUME IInv, AllAware, NEW r \in Requests, Check(r)
  PROVE  Aware(req'[r], user)
<1>1. req[r] \in Req /\ req[r].pc = "check" /\ req[r].usr \in UserRows
  BY DEF Check, IInv, TypeOK, Req, InHand
<1>2. CASE req' = [req EXCEPT ![r] = Done]
  BY <1>2 DEF Aware, Done, IInv, TypeOK
<1>3. CASE req' # [req EXCEPT ![r] = Done]
  <2> DEFINE K == IF req[r].kind = "login" THEN req[r].keys \cup {req[r].key} ELSE req[r].keys
             x == [req[r] EXCEPT !.pc = "upsert", !.usr = Changed(r), !.keys = K]
  <2>1. req' = [req EXCEPT ![r] = x]
    BY <1>3 DEF Check, End
  <2>2. /\ x.pc = "upsert" /\ x.usr = Changed(r) /\ x.kind = req[r].kind /\ x.id = req[r].id
        /\ x.old = req[r].old
    BY <1>1 DEF Req
  <2>3. req'[r] = x
    BY <2>1 DEF IInv, TypeOK
  <2>4. req[r].usr.blocked /\ req[r].kind # "unblock" => Changed(r).blocked
    BY <1>1 DEF Changed, Verify, Block, Unblock, UserRows
  <2> HIDE DEF x
  <2> QED
    BY <1>1, <2>2, <2>3, <2>4 DEF AllAware, Aware
<1> QED
  BY <1>2, <1>3

LEMMA UpsertAware ==
  ASSUME IInv, AllAware, NEW r \in Requests, Upsert(r)
  PROVE  AllAware'
<1>1. req[r].pc = "upsert" /\ req[r].usr \in UserRows /\ req[r].id \in Users
  BY DEF Upsert, IInv, InHand
<1>2. CASE End(r) /\ UNCHANGED user
  BY <1>2 DEF AllAware, Aware, End, Done, IInv, TypeOK
<1>3. CASE ~(End(r) /\ UNCHANGED user)
  <2> DEFINE Old(s) == req[s].old \/ (req[r].usr.blocked /\ req[s].id = req[r].id
                               /\ req[s].pc \in {"sessions", "check", "upsert"})
             x(s) == IF s = r THEN [req[r] EXCEPT !.pc = "rows"]
                     ELSE [req[s] EXCEPT !.old = Old(s)]
  <2>1. /\ user' = [user EXCEPT ![req[r].id] = req[r].usr]
        /\ req' = [s \in Requests |-> x(s)]
    BY <1>3 DEF Upsert, UpsertUser
  <2>2. ASSUME NEW s \in Requests
        PROVE  Aware(req'[s], user')
    <3>1. req[s] \in Req /\ req'[s] = x(s)
      BY <2>1 DEF IInv, TypeOK, Req
    <3>2. CASE s = r
      <4>1. x(s).pc = "rows"
        BY <3>1, <3>2 DEF Req
      <4> HIDE DEF x
      <4> QED
        BY <3>1, <4>1 DEF Aware
    <3>3. CASE s # r
      <4>1. /\ x(s).pc = req[s].pc /\ x(s).usr = req[s].usr /\ x(s).kind = req[s].kind
            /\ x(s).id = req[s].id /\ x(s).old = Old(s)
        BY <3>1, <3>3 DEF Req
      <4>2. x(s).pc \in {"sessions", "check", "upsert"} => x(s).id \in Users
        BY <4>1 DEF IInv, InHand
      <4>3. Aware(req[s], user)
        BY DEF AllAware
      <4> HIDE DEF x
      <4> SUFFICES ASSUME x(s).pc \in {"sessions", "check", "upsert"}, user'[x(s).id] # NoUser,
                          user'[x(s).id].blocked, x(s).kind # "unblock"
                   PROVE  x(s).usr.blocked \/ x(s).old
        BY <3>1 DEF Aware
      <4>4. CASE req[s].id = req[r].id
        <5>1. req[r].usr.blocked
          BY <1>1, <2>1, <4>1, <4>4 DEF IInv, TypeOK
        <5> QED
          BY <4>1, <4>4, <5>1
      <4>5. CASE req[s].id # req[r].id
        <5>1. user'[req[s].id] = user[req[s].id]
          BY <2>1, <4>1, <4>2, <4>5 DEF IInv, TypeOK
        <5> QED
          BY <4>1, <4>3, <5>1 DEF Aware
      <4> QED
        BY <4>4, <4>5
    <3> QED
      BY <3>2, <3>3
  <2> QED
    BY <2>2 DEF AllAware
<1> QED
  BY <1>2, <1>3

LEMMA AskedFirst ==
  ASSUME IInv, NEW r \in Requests, Begin(r)
  PROVE  \E kind \in Kinds : \E v : req'[r].pc = First(kind, v)
<1>1. PICK kind \in Kinds : \E b, k, v, u, l, t, su :
        req' = [req EXCEPT ![r] = Asked(kind, b, k, v, u, l, t, su)]
  BY BeginAsks
<1>2. PICK b, k, v, u, l, t, su :
        req' = [req EXCEPT ![r] = Asked(kind, b, k, v, u, l, t, su)]
  BY <1>1
<1>3. req'[r] = Asked(kind, b, k, v, u, l, t, su)
  BY <1>2 DEF IInv, TypeOK
<1> QED
  BY <1>3 DEF Asked

(* The other steps of a request; only Exists and Find look at a user.      *)
LEMMA ServeAware ==
  ASSUME IInv, AllAware, NEW r \in Requests, Serve(r), ~Upsert(r)
  PROVE  AllAware'
<1>1. req \in [Requests -> Req] /\ req[r] \in Req
  BY DEF IInv, TypeOK, Req
<1>2. UNCHANGED user /\ \A s \in Requests : s # r => req'[s] = req[s]
  <2>1. CASE Begin(r)
    <3>1. \E x : req' = [req EXCEPT ![r] = x]
      BY <2>1, BeginAsks
    <3> QED
      BY <1>1, <2>1, <3>1 DEF Begin, tables
  <2>2. CASE ~Begin(r)
    BY <1>1, <2>2 DEF Serve, ReadSetting, Exists, Find, FindSessions, Check, WriteSession, RowsWritten,
       Enqueue, SaveSession, DeleteSession, Fail, End, Goto, tables
  <2> QED
    BY <2>1, <2>2
<1>3. Aware(req'[r], user)
  <2>1. CASE End(r)
    BY <1>1, <2>1 DEF Aware, End, Done
  <2>2. CASE Begin(r)
    <3>1. PICK kind \in Kinds : \E v : req'[r].pc = First(kind, v)
      BY <1>1, <2>2, AskedFirst
    <3> QED
      BY <3>1 DEF Aware, First, Kinds
  <2>3. CASE ReadSetting(r) /\ ~End(r)
    BY <1>1, <2>3 DEF ReadSetting, Goto, Aware, Req
  <2>4. CASE Exists(r) /\ ~End(r)
    <3>1. PICK u \in Users :
            /\ ~Drawn(u)
            /\ req' = [req EXCEPT ![r].id = u, ![r].pc = "upsert",
                         ![r].keys = IF req[r].kind = "register" THEN {req[r].key} ELSE {}]
      BY <2>4 DEF Exists
    <3>2. user[u] = NoUser /\ req'[r].id = u
      BY <1>1, <3>1 DEF Drawn, Req
    <3> QED
      BY <3>2 DEF Aware
  <2>5. CASE Find(r) /\ ~End(r)
    <3>1. PICK u \in Users, pc \in PCs : req' = [req EXCEPT ![r].id = u, ![r].usr = user[u], ![r].pc = pc]
      BY <2>5 DEF Find, FoundUsers, PCs
    <3>2. req'[r].id = u /\ req'[r].usr = user[u]
      BY <1>1, <3>1 DEF Req
    <3> QED
      BY <3>2 DEF Aware
  <2>6. CASE FindSessions(r)
    <3> DEFINE S == FindSessionsByUserID(req[r].id)
    <3>1. req[r].pc = "sessions" /\ req' = [req EXCEPT ![r].pc = "check", ![r].keys = S]
      BY <2>6 DEF FindSessions
    <3> HIDE DEF S
    <3>2. /\ req'[r].usr = req[r].usr /\ req'[r].kind = req[r].kind /\ req'[r].id = req[r].id
          /\ req'[r].old = req[r].old
      BY <1>1, <3>1 DEF Req
    <3> QED
      BY <3>1, <3>2 DEF AllAware, Aware
  <2>7. CASE Check(r)
    BY <2>7, ChangedAware
  <2>8. CASE (WriteSession(r) \/ RowsWritten(r) \/ Enqueue(r)) /\ ~End(r)
    <3>1. req'[r].pc \in {"rows", "enqueue", "save"}
      BY <1>1, <2>8 DEF WriteSession, RowsWritten, Enqueue, Goto, AfterRows, Req
    <3> QED
      BY <3>1 DEF Aware
  <2> QED
    BY <2>1, <2>2, <2>3, <2>4, <2>5, <2>6, <2>7, <2>8 DEF Serve, SaveSession, DeleteSession, Fail
<1> QED
  BY <1>2, <1>3 DEF AllAware

LEMMA AwareStep ==
  ASSUME IInv, AllAware, [Next]_vars
  PROVE  AllAware'
<1>1. ASSUME NEW u \in Users, DeleteUser(u)
      PROVE  AllAware'
  BY <1>1 DEF DeleteUser, AllAware, Aware, IInv, TypeOK, InHand
<1>2. CASE Restart
  BY <1>2 DEF Restart, AllAware, Aware, Done
<1>3. CASE \/ \E u \in Users : SendMail(u)
           \/ \E t \in Tokens : Expire(t)
           \/ \E k \in Keys : DestroySession(k)
           \/ \E s \in DOMAIN setting : SaveSetting(s)
           \/ UNCHANGED vars
  BY <1>3 DEF AllAware, Aware, SendMail, Expire, DestroySession, SaveSetting, vars
<1> QED
  BY <1>1, <1>2, <1>3, UpsertAware, ServeAware DEF Next

LEMMA BlockStep ==
  ASSUME IInv, AllAware, [Next]_vars, NEW u \in Users,
         user[u] # NoUser, user[u].blocked, user'[u] # NoUser, ~user'[u].blocked
  PROVE  \E r \in Requests : /\ Upsert(r) /\ req[r].id = u
                             /\ req[r].kind = "unblock" \/ req[r].old
<1>1. user' # user
  OBVIOUS
<1>2. ASSUME NEW v \in Users, DeleteUser(v)
      PROVE  FALSE
  BY <1>2 DEF DeleteUser, IInv, TypeOK
<1>3. PICK r \in Requests : Upsert(r)
  BY <1>1, <1>2 DEF Next, vars, SendMail, Expire, DestroySession, SaveSetting, Restart, Serve, Begin,
     ReadSetting, Exists, Find, FindSessions, Check, WriteSession, RowsWritten, Enqueue,
     SaveSession, DeleteSession, Fail, tables
<1>4. user' = [user EXCEPT ![req[r].id] = req[r].usr]
  BY <1>1, <1>3 DEF Upsert, UpsertUser
<1>5. req[r].id = u /\ ~req[r].usr.blocked /\ req[r].pc = "upsert"
  BY <1>3, <1>4 DEF Upsert, IInv, TypeOK
<1> QED
  BY <1>3, <1>5 DEF AllAware, Aware

(* A block lasts until somebody unblocks the user, but for a request that  *)
(* read the user before it was saved as blocked (block-user.usecase.go).   *)
THEOREM BlockCorrect == Spec => BlockLasts
<1>1. Init => AllAware
  BY DEF Init, AllAware, Aware, Done
<1>2. IInv /\ AllAware /\ [Next]_vars => AllAware'
  BY AwareStep
<1>3. IInv /\ AllAware /\ [Next]_vars =>
        [\A u \in Users :
           user[u] # NoUser /\ user[u].blocked /\ user'[u] # NoUser /\ ~user'[u].blocked =>
             \E r \in Requests : /\ Upsert(r) /\ req[r].id = u
                                 /\ req[r].kind = "unblock" \/ req[r].old]_vars
  BY BlockStep
<1> QED
  BY <1>1, <1>2, <1>3, Invariance, PTL DEF Spec, BlockLasts

=============================================================================
