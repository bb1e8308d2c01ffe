------------------------- MODULE SessionStoreProofs -------------------------
(***************************************************************************)
(* Proofs about SessionStore, for any number of clients, tokens, links,    *)
(* requests and failures.                                                  *)
(***************************************************************************)
EXTENDS SessionStore, FiniteSetTheorems, TLAPS

LEMMA FreshIsNew ==
  ASSUME NEW values, NEW value \in Fresh(values)
  PROVE  value \in values /\ value \notin drawn
<1>1. ~(values \subseteq drawn)
  BY DEF Fresh
<1>2. PICK other \in values : other \notin drawn
  BY <1>1
<1>3. value = CHOOSE v \in values : v \notin drawn
  BY <1>1 DEF Fresh
<1> QED BY <1>2, <1>3

\* The tables and the resets, without the requests.
TablesOK ==
  /\ rows \in [Stored -> RowType]
  /\ links \in [Outstanding -> BOOLEAN]
  /\ Stored \subseteq drawn \cap Tokens
  /\ Outstanding \subseteq drawn \cap Links
  /\ drawn \subseteq Tokens \cup Links
  /\ password \in Nat
  /\ resets \in [Links -> Nat]

RequestsOK == req \in [Clients -> Handler]

LEMMA IdleType == Idle \in Handler
  BY DEF Idle, Handler, Places

\* Every answer is a handler's record.
LEMMA AnswerType ==
  ASSUME RequestsOK, NEW c \in Clients, NEW set \in Tokens \cup {Nothing}, NEW ok \in BOOLEAN,
         Answer(c, set, ok)
  PROVE  RequestsOK'
<1>1. req[c].kind \in {"none", "login", "refresh", "logout", "link", "reset"}
      /\ req[c].persistent \in BOOLEAN
  BY DEF RequestsOK, Handler
<1>2. [Idle EXCEPT !.at = "answered", !.kind = req[c].kind,
                   !.persistent = req[c].persistent, !.set = set, !.ok = ok] \in Handler
  BY <1>1 DEF Idle, Handler, Places
<1> QED BY <1>2 DEF Answer, RequestsOK

LEMMA GotoType ==
  ASSUME RequestsOK, NEW c \in Clients, NEW place \in Places, Goto(c, place)
  PROVE  RequestsOK'
<1>1. [req[c] EXCEPT !.at = place] \in Handler
  BY DEF RequestsOK, Handler
<1> QED BY <1>1 DEF Goto, RequestsOK

LEMMA GotoDoomedType ==
  ASSUME RequestsOK, NEW c \in Clients, NEW place \in Places, NEW gone \in SUBSET (Tokens \cup Links),
         req' = [req EXCEPT ![c].at = place, ![c].doomed = gone]
  PROVE  RequestsOK'
<1>1. [req[c] EXCEPT !.at = place, !.doomed = gone] \in Handler
  BY DEF RequestsOK, Handler
<1> QED BY <1>1 DEF RequestsOK

LEMMA SendType ==
  ASSUME RequestsOK, TablesOK, NEW c \in Clients, Send(c)
  PROVE  RequestsOK'
<1>1. ASSUME NEW r \in Handler, Arrive(c, r) PROVE RequestsOK'
  BY <1>1 DEF Arrive, RequestsOK
<1>2. CASE Login(c)
  <2>1. PICK typed \in 0..password, persistent \in BOOLEAN :
          Arrive(c, [Idle EXCEPT !.at = "check", !.kind = "login", !.seen = typed,
                                 !.persistent = persistent])
    BY <1>2 DEF Login
  <2>2. typed \in Nat
    BY DEF TablesOK
  <2>3. [Idle EXCEPT !.at = "check", !.kind = "login", !.seen = typed,
                     !.persistent = persistent] \in Handler
    BY <2>2 DEF Idle, Handler, Places
  <2> QED BY <1>1, <2>1, <2>3
<1>3. CASE Refresh(c)
  <2>1. PICK cookie \in Tokens \cup {Nothing} :
          Arrive(c, [Idle EXCEPT !.at = "refresh", !.kind = "refresh", !.cookie = cookie])
    BY <1>3 DEF Refresh
  <2>2. [Idle EXCEPT !.at = "refresh", !.kind = "refresh", !.cookie = cookie] \in Handler
    BY DEF Idle, Handler, Places
  <2> QED BY <1>1, <2>1, <2>2
<1>4. CASE Logout(c)
  <2>1. PICK cookie \in Tokens \cup {Nothing} :
          Arrive(c, [Idle EXCEPT !.at = "logout", !.kind = "logout", !.cookie = cookie])
    BY <1>4 DEF Logout
  <2>2. [Idle EXCEPT !.at = "logout", !.kind = "logout", !.cookie = cookie] \in Handler
    BY DEF Idle, Handler, Places
  <2> QED BY <1>1, <2>1, <2>2
<1>5. CASE RequestLink(c)
  <2>1. [Idle EXCEPT !.at = "linkDelete", !.kind = "link"] \in Handler
    BY DEF Idle, Handler, Places
  <2> QED BY <1>1, <1>5, <2>1 DEF RequestLink
<1>6. CASE ConfirmReset(c)
  <2>1. PICK link \in Links :
          Arrive(c, [Idle EXCEPT !.at = "consume", !.kind = "reset", !.link = link,
                                 !.persistent = TRUE])
    BY <1>6 DEF ConfirmReset
  <2>2. [Idle EXCEPT !.at = "consume", !.kind = "reset", !.link = link,
                     !.persistent = TRUE] \in Handler
    BY DEF Idle, Handler, Places
  <2> QED BY <1>1, <2>1, <2>2
<1> QED BY <1>2, <1>3, <1>4, <1>5, <1>6 DEF Send

LEMMA WithType ==
  ASSUME TablesOK, NEW gone, NEW token \in Tokens, NEW row \in RowType
  PROVE  /\ DOMAIN With(Without(rows, gone), token, row) = (Stored \ gone) \cup {token}
         /\ With(Without(rows, gone), token, row) \in [(Stored \ gone) \cup {token} -> RowType]
  BY DEF TablesOK, With, Without, Stored

\* Everything that leaves the tables alone, and what each statement does to them.
Tables == <<tables, resets>>

LEMMA TablesAlone ==
  ASSUME TablesOK, UNCHANGED Tables
  PROVE  TablesOK'
  BY DEF TablesOK, Tables, tables, Stored, Outstanding

\* A token is stored for a session, in place of those that go.
LEMMA TokenStored ==
  ASSUME TablesOK, NEW gone, NEW token \in Fresh(Tokens), NEW row \in RowType,
         rows' = With(Without(rows, gone), token, row), drawn' = drawn \cup {token},
         UNCHANGED <<links, password, resets>>
  PROVE  TablesOK'
<1>1. token \in Tokens
  BY FreshIsNew
<1>2. Stored' = (Stored \ gone) \cup {token} /\ rows' \in [Stored' -> RowType]
  BY <1>1, WithType DEF Stored
<1>3. Outstanding' = Outstanding
  BY DEF Outstanding
<1> QED BY <1>1, <1>2, <1>3 DEF TablesOK

LEMMA WithoutNone ==
  ASSUME TablesOK
  PROVE  rows = Without(rows, {})
  BY DEF TablesOK, Without, Stored

LEMMA TablesStep ==
  ASSUME TablesOK, RequestsOK, [Next]_vars
  PROVE  TablesOK'
<1>1. ASSUME NEW c \in Clients, Send(c) PROVE UNCHANGED Tables
  BY <1>1 DEF Send, Login, Refresh, Logout, RequestLink, ConfirmReset, Arrive, Tables, histVars
<1>2. ASSUME NEW c \in Clients,
             LoginCheck(c) \/ RefreshRefused(c) \/ LinkDelete(c) \/ ResetConsume(c)
               \/ ResetScan(c) \/ StatementFails(c) \/ Done(c)
      PROVE  UNCHANGED Tables
  BY <1>2 DEF LoginCheck, RefreshRefused, LinkDelete, ResetConsume, ResetScan, StatementFails,
              Done, Tables, histVars
<1>3. ASSUME NEW c \in Clients, LoginStore(c) PROVE TablesOK'
  <2>1. PICK token \in Fresh(Tokens) :
          /\ drawn' = drawn \cup {token}
          /\ rows' = With(rows, token,
                       [session |-> token, persistent |-> req[c].persistent, expired |-> FALSE,
                        begun |-> req[c].seen, late |-> req[c].seen # password \/ Resetting # {}])
    BY <1>3 DEF LoginStore
  <2>2. req[c].persistent \in BOOLEAN /\ req[c].seen \in Nat /\ token \in Tokens
    BY FreshIsNew DEF RequestsOK, Handler
  <2>3. [session |-> token, persistent |-> req[c].persistent, expired |-> FALSE,
         begun |-> req[c].seen, late |-> req[c].seen # password \/ Resetting # {}] \in RowType
    BY <2>2 DEF RowType
  <2>4. UNCHANGED <<links, password, resets>>
    BY <1>3 DEF LoginStore, histVars
  <2> QED BY <2>1, <2>3, <2>4, WithoutNone, TokenStored
<1>4. ASSUME NEW c \in Clients, RefreshRotate(c) PROVE TablesOK'
  <2>1. PICK token \in Fresh(Tokens) :
          /\ drawn' = drawn \cup {token}
          /\ rows' = With(Without(rows, {req[c].cookie}), token,
                          [rows[req[c].cookie] EXCEPT !.late = @ \/ Resetting # {}])
    BY <1>4 DEF RefreshRotate, Rotated
  <2>2. rows[req[c].cookie] \in RowType
    BY <1>4 DEF RefreshRotate, Valid, TablesOK
  <2>3. [rows[req[c].cookie] EXCEPT !.late = @ \/ Resetting # {}] \in RowType
    BY <2>2 DEF RowType
  <2>4. UNCHANGED <<links, password, resets>>
    BY <1>4 DEF RefreshRotate, histVars
  <2> QED BY <2>1, <2>3, <2>4, TokenStored
<1>5. ASSUME NEW c \in Clients, LogoutDelete(c) PROVE TablesOK'
  BY <1>5 DEF LogoutDelete, Without, TablesOK, Stored, Outstanding, histVars
<1>6. ASSUME NEW c \in Clients, LinkInsert(c) PROVE TablesOK'
  <2>1. PICK link \in Fresh(Links) :
          /\ drawn' = drawn \cup {link}
          /\ links' = With(Without(links, req[c].doomed), link, FALSE)
    BY <1>6 DEF LinkInsert
  <2>2. link \in Links
    BY FreshIsNew
  <2>3. Outstanding' = (Outstanding \ req[c].doomed) \cup {link}
    BY <2>1 DEF With, Without, Outstanding
  <2>4. links' \in [Outstanding' -> BOOLEAN]
    BY <2>1, <2>3 DEF With, Without, TablesOK, Outstanding
  <2>5. UNCHANGED <<rows, password, resets>>
    BY <1>6 DEF LinkInsert
  <2>6. Stored' = Stored
    BY <2>5 DEF Stored
  <2> QED BY <2>1, <2>2, <2>3, <2>4, <2>5, <2>6 DEF TablesOK
<1>7. ASSUME NEW c \in Clients, ResetCommit(c) PROVE TablesOK'
  <2>1. /\ rows' = Without(rows, req[c].doomed) /\ links' = Without(links, {req[c].link})
        /\ password' = password + 1 /\ drawn' = drawn
        /\ resets' = [resets EXCEPT ![req[c].link] = @ + 1]
    BY <1>7 DEF ResetCommit
  <2>2. Stored' = Stored \ req[c].doomed /\ rows' \in [Stored' -> RowType]
    BY <2>1 DEF Without, Stored, TablesOK
  <2>3. Outstanding' = Outstanding \ {req[c].link} /\ links' \in [Outstanding' -> BOOLEAN]
    BY <2>1 DEF Without, Outstanding, TablesOK
  <2>4. resets' \in [Links -> Nat]
    <3> DEFINE spent == req[c].link
    <3>1. resets' = [resets EXCEPT ![spent] = resets[spent] + 1] /\ resets \in [Links -> Nat]
      BY <2>1 DEF TablesOK
    <3> HIDE DEF spent
    <3>2. CASE spent \in Links
      BY <3>1, <3>2
    <3>3. CASE spent \notin Links
      <4>1. resets' = resets
        BY <3>1, <3>3
      <4> QED BY <3>1, <4>1
    <3> QED BY <3>2, <3>3
  <2>5. Stored' \subseteq drawn' \cap Tokens /\ Outstanding' \subseteq drawn' \cap Links
    BY <2>1, <2>2, <2>3 DEF TablesOK
  <2>6. password' \in Nat /\ drawn' \subseteq Tokens \cup Links
    BY <2>1 DEF TablesOK
  <2> QED BY <2>2, <2>3, <2>4, <2>5, <2>6 DEF TablesOK
<1>8. ASSUME NEW c \in Clients, ResetSignIn(c) PROVE TablesOK'
  <2>1. PICK token \in Fresh(Tokens) :
          /\ drawn' = drawn \cup {token}
          /\ rows' = With(rows, token,
                       [session |-> token, persistent |-> TRUE, expired |-> FALSE,
                        begun |-> password, late |-> Resetting # {}])
    BY <1>8 DEF ResetSignIn
  <2>2. [session |-> token, persistent |-> TRUE, expired |-> FALSE,
         begun |-> password, late |-> Resetting # {}] \in RowType
    BY FreshIsNew DEF RowType, TablesOK
  <2>3. UNCHANGED <<links, password, resets>>
    BY <1>8 DEF ResetSignIn, histVars
  <2> QED BY <2>1, <2>2, <2>3, WithoutNone, TokenStored
<1>9. CASE Expire
  <2>1. ASSUME NEW token \in Tokens, ExpireToken(token) PROVE TablesOK'
    <3>1. rows' = [rows EXCEPT ![token].expired = TRUE] /\ token \in Stored
      BY <2>1 DEF ExpireToken, Valid
    <3>2. [rows[token] EXCEPT !.expired = TRUE] \in RowType
      BY <3>1 DEF TablesOK, RowType
    <3>3. Stored' = Stored /\ rows' \in [Stored -> RowType]
      BY <3>1, <3>2 DEF TablesOK, Stored
    <3>4. UNCHANGED <<links, drawn, password, resets>>
      BY <2>1 DEF ExpireToken, histVars
    <3> QED BY <3>3, <3>4 DEF TablesOK, Outstanding
  <2>2. ASSUME NEW link \in Links, ExpireLink(link) PROVE TablesOK'
    BY <2>2 DEF ExpireLink, TablesOK, Stored, Outstanding, histVars
  <2> QED BY <1>9, <2>1, <2>2 DEF Expire
<1>10. CASE UNCHANGED vars
  BY <1>10, TablesAlone DEF Tables, vars, sysVars, histVars
<1> QED BY <1>1, <1>2, <1>3, <1>4, <1>5, <1>6, <1>7, <1>8, <1>9, <1>10, TablesAlone
         DEF Next, Serve

LEMMA RequestsStep ==
  ASSUME TablesOK, RequestsOK, [Next]_vars
  PROVE  RequestsOK'
<1>1. ASSUME NEW c \in Clients, LoginCheck(c) PROVE RequestsOK'
  BY <1>1, GotoType, AnswerType DEF LoginCheck, Places
<1>2. ASSUME NEW c \in Clients, LoginStore(c) \/ RefreshRotate(c) \/ ResetSignIn(c)
      PROVE  RequestsOK'
  <2>1. PICK token \in Fresh(Tokens) : Answer(c, token, TRUE)
    BY <1>2 DEF LoginStore, RefreshRotate, ResetSignIn
  <2> QED BY <2>1, FreshIsNew, AnswerType
<1>3. ASSUME NEW c \in Clients, RefreshRefused(c) \/ LogoutDelete(c) \/ LinkInsert(c)
                                   \/ StatementFails(c)
      PROVE  RequestsOK'
  <2>1. PICK ok \in BOOLEAN : Answer(c, Nothing, ok)
    BY <1>3 DEF RefreshRefused, LogoutDelete, LinkInsert, StatementFails
  <2> QED BY <2>1, AnswerType
<1>4. ASSUME NEW c \in Clients, LinkDelete(c) PROVE RequestsOK'
  <2>1. LinksToReplace \in SUBSET (Tokens \cup Links)
    BY DEF LinksToReplace, TablesOK
  <2>2. req' = [req EXCEPT ![c].at = "linkInsert", ![c].doomed = LinksToReplace]
    BY <1>4 DEF LinkDelete
  <2>3. "linkInsert" \in Places
    BY DEF Places
  <2> QED BY <2>1, <2>2, <2>3, GotoDoomedType
<1>5. ASSUME NEW c \in Clients, ResetConsume(c) PROVE RequestsOK'
  BY <1>5, GotoType, AnswerType DEF ResetConsume, Places
<1>6. ASSUME NEW c \in Clients, ResetScan(c) PROVE RequestsOK'
  <2>1. SessionsToEnd \in SUBSET (Tokens \cup Links)
    BY DEF SessionsToEnd, TablesOK
  <2>2. req' = [req EXCEPT ![c].at = "commit", ![c].doomed = SessionsToEnd]
    BY <1>6 DEF ResetScan
  <2>3. "commit" \in Places
    BY DEF Places
  <2> QED BY <2>1, <2>2, <2>3, GotoDoomedType
<1>7. ASSUME NEW c \in Clients, ResetCommit(c) PROVE RequestsOK'
  <2>1. req' = [req EXCEPT ![c].at = "signIn", ![c].doomed = {}]
    BY <1>7 DEF ResetCommit
  <2>2. "signIn" \in Places /\ {} \in SUBSET (Tokens \cup Links)
    BY DEF Places
  <2> QED BY <2>1, <2>2, GotoDoomedType
<1>8. ASSUME NEW c \in Clients, Done(c) PROVE RequestsOK'
  BY <1>8, IdleType DEF Done, RequestsOK
<1>9. CASE Expire \/ UNCHANGED vars
  BY <1>9 DEF Expire, ExpireToken, ExpireLink, RequestsOK, vars, sysVars
<1> QED BY <1>1, <1>2, <1>3, <1>4, <1>5, <1>6, <1>7, <1>8, <1>9, SendType DEF Next, Serve

Bounds == ops \in 0..MaxOps /\ faults \in 0..MaxFaults /\ crowded \in BOOLEAN

LEMMA BoundsStep == Bounds /\ [Next]_vars => Bounds'
<1> SUFFICES ASSUME Bounds, [Next]_vars PROVE Bounds'
  OBVIOUS
<1>1. ASSUME NEW c \in Clients, Send(c) PROVE Bounds'
  <2>1. ops < MaxOps /\ ops' = ops + 1 /\ UNCHANGED <<faults, crowded>>
    BY <1>1 DEF Send, Login, Refresh, Logout, RequestLink, ConfirmReset, Arrive, histVars
  <2> QED BY <2>1, BoundsAssumption DEF Bounds
<1>2. ASSUME NEW c \in Clients, LinkInsert(c) PROVE Bounds'
  <2>1. crowded' \in BOOLEAN
    BY <1>2, Zenon DEF LinkInsert
  <2>2. UNCHANGED <<ops, faults>>
    BY <1>2 DEF LinkInsert, bounds
  <2> QED BY <2>1, <2>2 DEF Bounds
<1>3. ASSUME NEW c \in Clients, StatementFails(c) PROVE Bounds'
  <2>1. UNCHANGED <<ops, crowded>>
    BY <1>3 DEF StatementFails, histVars
  <2>2. faults < MaxFaults /\ faults' = faults + 1
    BY <1>3 DEF StatementFails, Fault
  <2> QED BY <2>1, <2>2, BoundsAssumption DEF Bounds
<1>4. ASSUME NEW c \in Clients, (Serve(c) /\ ~LinkInsert(c)) \/ Done(c) PROVE Bounds'
  BY <1>4 DEF Serve, LoginCheck, LoginStore, RefreshRotate, RefreshRefused, LogoutDelete,
              LinkDelete, ResetConsume, ResetScan, ResetCommit, ResetSignIn, Done, Bounds,
              bounds, histVars
<1>5. CASE Expire \/ UNCHANGED vars
  BY <1>5 DEF Expire, ExpireToken, ExpireLink, Bounds, vars, sysVars, bounds, histVars
<1> QED BY <1>1, <1>2, <1>3, <1>4, <1>5 DEF Next

Shape == TablesOK /\ RequestsOK /\ Bounds

LEMMA ShapeInit == Init => Shape
<1> SUFFICES ASSUME Init PROVE Shape
  OBVIOUS
<1>1. Stored = {} /\ Outstanding = {}
  BY DEF Init, Stored, Outstanding
<1>2. TablesOK
  BY <1>1 DEF Init, TablesOK
<1>3. RequestsOK
  BY IdleType DEF Init, RequestsOK
<1>4. Bounds
  <2>1. ops = 0 /\ faults = 0
    BY DEF Init
  <2>2. crowded \in BOOLEAN
    BY Zenon DEF Init
  <2> QED BY <2>1, <2>2, BoundsAssumption DEF Bounds
<1> QED BY <1>2, <1>3, <1>4 DEF Shape

LEMMA ShapeHolds == Spec => []Shape
<1>1. Shape /\ [Next]_vars => Shape'
  BY TablesStep, RequestsStep, BoundsStep DEF Shape
<1> QED BY <1>1, ShapeInit, PTL DEF Spec

\* Every reachable state is well typed.
THEOREM TypeCorrect == Spec => []TypeOK
<1>1. Shape => TypeOK
  BY DEF Shape, TablesOK, RequestsOK, Bounds, TypeOK
<1> QED BY <1>1, ShapeHolds, PTL

-----------------------------------------------------------------------------
\* The token a session has is the only one that has its first token.
SessionsApart ==
  /\ \A token \in Stored : rows[token].session \in drawn
  /\ OneTokenPerSession

LEMMA TokenTaken ==
  ASSUME TablesOK, SessionsApart, NEW gone, NEW token \in Fresh(Tokens), NEW row \in RowType,
         rows' = With(Without(rows, gone), token, row), drawn' = drawn \cup {token},
         \/ row.session = token
         \/ gone \subseteq Stored /\ \E old \in gone : row.session = rows[old].session
  PROVE  SessionsApart'
<1>1. Stored' = (Stored \ gone) \cup {token} /\ token \notin drawn /\ token \in Tokens
  BY FreshIsNew, WithType DEF Stored
<1>2. \A other \in Stored' : rows'[other] = IF other = token THEN row ELSE rows[other]
  BY <1>1 DEF With, Without, Stored
<1>3. row.session \in drawn'
  BY <1>1 DEF SessionsApart
<1>4. \A other \in Stored \ gone : other # token /\ rows[other].session # row.session
  BY <1>1 DEF TablesOK, SessionsApart, OneTokenPerSession
<1> QED BY <1>1, <1>2, <1>3, <1>4 DEF SessionsApart, OneTokenPerSession

LEMMA SessionsStep ==
  ASSUME Shape, SessionsApart, [Next]_vars
  PROVE  SessionsApart'
<1>1. ASSUME Stored' \subseteq Stored, drawn \subseteq drawn',
             \A token \in Stored' : rows'[token].session = rows[token].session
      PROVE  SessionsApart'
  BY <1>1 DEF SessionsApart, OneTokenPerSession
<1>2. ASSUME UNCHANGED rows, drawn \subseteq drawn' PROVE SessionsApart'
  BY <1>1, <1>2 DEF Stored
<1>3. ASSUME NEW c \in Clients, Send(c) \/ LoginCheck(c) \/ RefreshRefused(c) \/ LinkDelete(c)
               \/ ResetConsume(c) \/ ResetScan(c) \/ StatementFails(c) \/ Done(c)
      PROVE  SessionsApart'
  BY <1>2, <1>3 DEF Send, Login, Refresh, Logout, RequestLink, ConfirmReset, Arrive, LoginCheck,
              RefreshRefused, LinkDelete, ResetConsume, ResetScan, StatementFails, Done, tables
<1>4. ASSUME NEW c \in Clients, LoginStore(c) PROVE SessionsApart'
  <2>1. PICK token \in Fresh(Tokens) :
          /\ drawn' = drawn \cup {token}
          /\ rows' = With(rows, token,
                       [session |-> token, persistent |-> req[c].persistent, expired |-> FALSE,
                        begun |-> req[c].seen, late |-> req[c].seen # password \/ Resetting # {}])
    BY <1>4 DEF LoginStore
  <2>2. req[c].persistent \in BOOLEAN /\ req[c].seen \in Nat /\ token \in Tokens
    BY FreshIsNew DEF Shape, RequestsOK, Handler
  <2>3. [session |-> token, persistent |-> req[c].persistent, expired |-> FALSE,
         begun |-> req[c].seen, late |-> req[c].seen # password \/ Resetting # {}] \in RowType
    BY <2>2 DEF RowType
  <2> QED BY <2>1, <2>3, WithoutNone, TokenTaken DEF Shape
<1>5. ASSUME NEW c \in Clients, RefreshRotate(c) PROVE SessionsApart'
  <2> DEFINE old == req[c].cookie
             row == [rows[old] EXCEPT !.late = @ \/ Resetting # {}]
  <2>1. PICK token \in Fresh(Tokens) :
          drawn' = drawn \cup {token} /\ rows' = With(Without(rows, {old}), token, row)
    BY <1>5 DEF RefreshRotate, Rotated
  <2>2. old \in Stored /\ rows[old] \in RowType
    BY <1>5 DEF RefreshRotate, Valid, Shape, TablesOK
  <2>3. row \in RowType /\ row.session = rows[old].session
    BY <2>2 DEF RowType
  <2> QED BY <2>1, <2>2, <2>3, TokenTaken DEF Shape
<1>6. ASSUME NEW c \in Clients, LogoutDelete(c) \/ ResetCommit(c) PROVE SessionsApart'
  BY <1>1, <1>6 DEF LogoutDelete, ResetCommit, Without, Stored
<1>7. ASSUME NEW c \in Clients, LinkInsert(c) PROVE SessionsApart'
  BY <1>2, <1>7 DEF LinkInsert
<1>8. ASSUME NEW c \in Clients, ResetSignIn(c) PROVE SessionsApart'
  <2>1. PICK token \in Fresh(Tokens) :
          /\ drawn' = drawn \cup {token}
          /\ rows' = With(rows, token,
                       [session |-> token, persistent |-> TRUE, expired |-> FALSE,
                        begun |-> password, late |-> Resetting # {}])
    BY <1>8 DEF ResetSignIn
  <2>2. [session |-> token, persistent |-> TRUE, expired |-> FALSE,
         begun |-> password, late |-> Resetting # {}] \in RowType
    BY FreshIsNew DEF RowType, Shape, TablesOK
  <2> QED BY <2>1, <2>2, WithoutNone, TokenTaken DEF Shape
<1>9. ASSUME NEW token \in Tokens, ExpireToken(token) PROVE SessionsApart'
  <2>1. rows' = [rows EXCEPT ![token].expired = TRUE] /\ token \in Stored /\ drawn' = drawn
    BY <1>9 DEF ExpireToken, Valid
  <2>2. rows[token] \in RowType
    BY <2>1 DEF Shape, TablesOK
  <2>3. Stored' = Stored /\ \A other \in Stored : rows'[other].session = rows[other].session
    BY <2>1, <2>2 DEF Stored, RowType
  <2> QED BY <1>1, <2>1, <2>3
<1>10. CASE (\E link \in Links : ExpireLink(link)) \/ UNCHANGED vars
  BY <1>2, <1>10 DEF ExpireLink, vars, sysVars, tables
<1> QED BY <1>3, <1>4, <1>5, <1>6, <1>7, <1>8, <1>9, <1>10 DEF Next, Serve, Expire

\* Requests that rotate one token at once do not split its session.
THEOREM OneTokenHolds == Spec => []OneTokenPerSession
<1>1. Init => SessionsApart
  BY DEF Init, SessionsApart, OneTokenPerSession, Stored
<1>2. Shape /\ SessionsApart /\ [Next]_vars => SessionsApart'
  BY SessionsStep
<1>3. SessionsApart => OneTokenPerSession
  BY DEF SessionsApart
<1> QED BY <1>1, <1>2, <1>3, ShapeHolds, PTL DEF Spec

-----------------------------------------------------------------------------
\* A reset that has taken its link is the only one that has, and the link is still
\* in the table and has set no password; a link that has is gone for good.
Taking(c) == req[c].at \in {"scan", "commit"}

TakenOnce ==
  /\ \A c, d \in Clients : Taking(c) /\ Taking(d) /\ req[c].link = req[d].link => c = d
  /\ \A c \in Clients :
       Taking(c) => req[c].link \in Outstanding /\ resets[req[c].link] = 0
  /\ \A link \in Links :
       resets[link] # 0 => resets[link] = 1 /\ link \notin Outstanding /\ link \in drawn

\* A step after which nobody else takes a link, and no link comes back.
LEMMA TakenKept ==
  ASSUME TablesOK, TakenOnce, resets' = resets, drawn \subseteq drawn',
         Outstanding' \cap drawn \subseteq Outstanding,
         \A c \in Clients : Taking(c)' => Taking(c) /\ req'[c].link = req[c].link,
         \A c \in Clients : Taking(c) => req[c].link \in Outstanding'
  PROVE  TakenOnce'
  BY DEF TakenOnce, TablesOK

LEMMA TakenStep ==
  ASSUME Shape, TakenOnce, [Next]_vars
  PROVE  TakenOnce'
<1> USE DEF Shape
<1>1. ASSUME NEW c \in Clients, NEW r, req' = [req EXCEPT ![c] = r], r.at \notin {"scan", "commit"}
      PROVE  \A d \in Clients : Taking(d)' => Taking(d) /\ req'[d].link = req[d].link
  BY <1>1 DEF RequestsOK, Taking
<1>2. ASSUME NEW c \in Clients, NEW set, NEW ok, Answer(c, set, ok)
      PROVE  \A d \in Clients : Taking(d)' => Taking(d) /\ req'[d].link = req[d].link
  BY <1>1, <1>2 DEF Answer, Idle
<1>3. ASSUME \A d \in Clients : Taking(d)' => Taking(d) /\ req'[d].link = req[d].link,
             UNCHANGED <<links, resets>>, drawn \subseteq drawn'
      PROVE  TakenOnce'
  <2>1. Outstanding' = Outstanding
    BY <1>3 DEF Outstanding
  <2>2. \A d \in Clients : Taking(d) => req[d].link \in Outstanding'
    BY <2>1 DEF TakenOnce
  <2> QED BY <1>3, <2>1, <2>2, TakenKept
<1>4. ASSUME NEW c \in Clients, Send(c) PROVE TakenOnce'
  <2>1. ASSUME NEW r, Arrive(c, r), r.at \notin {"scan", "commit"} PROVE TakenOnce'
    BY <1>1, <1>3, <2>1 DEF Arrive, tables, histVars
  <2>2. CASE Login(c)
    BY <2>1, <2>2 DEF Login, Idle
  <2>3. CASE Refresh(c)
    BY <2>1, <2>3 DEF Refresh, Idle
  <2>4. CASE Logout(c)
    BY <2>1, <2>4 DEF Logout, Idle
  <2>5. CASE RequestLink(c)
    BY <2>1, <2>5 DEF RequestLink, Idle
  <2>6. CASE ConfirmReset(c)
    BY <2>1, <2>6 DEF ConfirmReset, Idle
  <2> QED BY <1>4, <2>2, <2>3, <2>4, <2>5, <2>6 DEF Send
<1>5. ASSUME NEW c \in Clients,
             LoginStore(c) \/ RefreshRotate(c) \/ RefreshRefused(c) \/ LogoutDelete(c)
               \/ ResetSignIn(c) \/ StatementFails(c)
      PROVE  TakenOnce'
  <2>1. PICK set, ok : Answer(c, set, ok)
    BY <1>5 DEF LoginStore, RefreshRotate, RefreshRefused, LogoutDelete, ResetSignIn,
                StatementFails
  <2>2. UNCHANGED <<links, resets>> /\ drawn \subseteq drawn'
    BY <1>5 DEF LoginStore, RefreshRotate, RefreshRefused, LogoutDelete, ResetSignIn,
                StatementFails, tables, histVars
  <2> QED BY <1>2, <1>3, <2>1, <2>2
<1>6. ASSUME NEW c \in Clients, LoginCheck(c) PROVE TakenOnce'
  <2>1. UNCHANGED <<links, resets, drawn>>
    BY <1>6 DEF LoginCheck, tables, histVars
  <2>2. CASE Goto(c, "store")
    <3>1. \A d \in Clients : Taking(d)' => Taking(d) /\ req'[d].link = req[d].link
      BY <2>2 DEF Goto, Taking, RequestsOK
    <3> QED BY <1>3, <2>1, <3>1
  <2>3. CASE Answer(c, Nothing, FALSE)
    BY <1>2, <1>3, <2>1, <2>3
  <2> QED BY <1>6, <2>2, <2>3 DEF LoginCheck
<1>7. ASSUME NEW c \in Clients, LinkDelete(c) \/ Done(c) PROVE TakenOnce'
  <2>1. UNCHANGED <<links, resets, drawn>>
    BY <1>7 DEF LinkDelete, Done, tables, histVars
  <2>2. \A d \in Clients : Taking(d)' => Taking(d) /\ req'[d].link = req[d].link
    BY <1>7 DEF LinkDelete, Done, Idle, Taking, RequestsOK, Handler
  <2> QED BY <1>3, <2>1, <2>2
<1>8. ASSUME NEW c \in Clients, LinkInsert(c) PROVE TakenOnce'
  <2>1. PICK link \in Fresh(Links) :
          drawn' = drawn \cup {link} /\ links' = With(Without(links, req[c].doomed), link, FALSE)
    BY <1>8 DEF LinkInsert
  <2>2. link \notin drawn
    BY FreshIsNew
  <2>3. Outstanding' = (Outstanding \ req[c].doomed) \cup {link}
    BY <2>1 DEF With, Without, Outstanding
  <2>4. \A d \in Clients : Taking(d) => req[d].link \in Consuming
    BY DEF Taking, Consuming
  <2>5. \A d \in Clients : Taking(d) => req[d].link \in Outstanding'
    BY <1>8, <2>3, <2>4 DEF LinkInsert, TakenOnce
  <2>6. \A d \in Clients : Taking(d)' => Taking(d) /\ req'[d].link = req[d].link
    BY <1>2, <1>8 DEF LinkInsert
  <2>7. resets' = resets
    BY <1>8 DEF LinkInsert
  <2> QED BY <2>1, <2>2, <2>3, <2>5, <2>6, <2>7, TakenKept
<1>9. ASSUME NEW c \in Clients, ResetConsume(c) PROVE TakenOnce'
  <2>1. UNCHANGED <<links, resets, drawn>> /\ Outstanding' = Outstanding
    BY <1>9 DEF ResetConsume, tables, histVars, Outstanding
  <2>2. CASE req[c].link \in Outstanding /\ Goto(c, "scan")
    <3>1. /\ \A d \in Clients : Taking(d)' <=> (Taking(d) \/ d = c)
          /\ \A d \in Clients : req'[d].link = req[d].link
      BY <2>2 DEF Goto, Taking, RequestsOK, Handler
    <3>2. \A d \in Clients : Taking(d) => req[d].link # req[c].link
      BY <1>9 DEF ResetConsume, Consuming, Taking
    <3>3. resets[req[c].link] = 0
      BY <2>2 DEF TakenOnce, TablesOK
    <3> QED BY <2>1, <2>2, <3>1, <3>2, <3>3 DEF TakenOnce
  <2>3. CASE Answer(c, Nothing, FALSE)
    BY <1>2, <1>3, <2>1, <2>3
  <2> QED BY <1>9, <2>2, <2>3 DEF ResetConsume
<1>10. ASSUME NEW c \in Clients, ResetScan(c) PROVE TakenOnce'
  <2>1. UNCHANGED <<links, resets, drawn>>
    BY <1>10 DEF ResetScan, tables, histVars
  <2>2. \A d \in Clients : Taking(d)' => Taking(d) /\ req'[d].link = req[d].link
    BY <1>10 DEF ResetScan, At, Taking, RequestsOK, Handler
  <2> QED BY <1>3, <2>1, <2>2
<1>11. ASSUME NEW c \in Clients, ResetCommit(c) PROVE TakenOnce'
  <2>1. /\ Taking(c) /\ drawn' = drawn
        /\ Outstanding' = Outstanding \ {req[c].link}
        /\ resets' = [resets EXCEPT ![req[c].link] = @ + 1]
    BY <1>11 DEF ResetCommit, At, Taking, Without, Outstanding
  <2>2. \A d \in Clients : Taking(d)' => d # c /\ Taking(d) /\ req'[d].link = req[d].link
    BY <1>11 DEF ResetCommit, Taking, RequestsOK, Handler
  <2>3. req[c].link \in Links /\ req[c].link \in drawn /\ resets[req[c].link] = 0
    BY <2>1 DEF TakenOnce, TablesOK
  <2>4. /\ resets'[req[c].link] = 1
        /\ \A link \in Links \ {req[c].link} : resets'[link] = resets[link]
    BY <2>1, <2>3 DEF TablesOK
  <2>5. \A d \in Clients : Taking(d)' => req[d].link \in Links \ {req[c].link}
    BY <2>1, <2>2 DEF TakenOnce, TablesOK
  <2> QED BY <2>1, <2>2, <2>3, <2>4, <2>5 DEF TakenOnce
<1>12. CASE Expire \/ UNCHANGED vars
  <2>1. UNCHANGED <<req, resets, drawn>> /\ Outstanding' = Outstanding
    BY <1>12 DEF Expire, ExpireToken, ExpireLink, vars, sysVars, tables, histVars, Outstanding
  <2> QED BY <2>1 DEF TakenOnce, Taking
<1> QED BY <1>4, <1>5, <1>6, <1>7, <1>8, <1>9, <1>10, <1>11, <1>12 DEF Next, Serve

\* A reset link sets one password, whatever confirms it at once.
THEOREM LinkIsUsedOnce == Spec => []LinkUsedOnce
<1>1. Init => TakenOnce
  BY DEF Init, TakenOnce, Taking, Idle
<1>2. Shape /\ TakenOnce /\ [Next]_vars => TakenOnce'
  BY TakenStep
<1>3. Shape /\ TakenOnce => LinkUsedOnce
  BY DEF Shape, TablesOK, TakenOnce, LinkUsedOnce
<1> QED BY <1>1, <1>2, <1>3, ShapeHolds, PTL DEF Spec

-----------------------------------------------------------------------------
\* One reset at a time has deleted sessions without having committed; a session it
\* has not deleted was stored late.
EndsKept ==
  /\ \A c, d \in Clients : At(c, "commit") /\ At(d, "commit") => c = d
  /\ \A c \in Clients : At(c, "commit") =>
       \A token \in Stored \ req[c].doomed : rows[token].late
  /\ ResetEndsSessions

\* No reset comes to where it has deleted sessions, and none that is there forgets.
NoNewCommit ==
  \A c \in Clients : At(c, "commit")' => At(c, "commit") /\ req'[c].doomed = req[c].doomed

LEMMA EndsSame ==
  ASSUME EndsKept, NoNewCommit, password' = password, Stored' \subseteq Stored,
         \A token \in Stored' : /\ rows'[token].begun = rows[token].begun
                                /\ rows'[token].late = rows[token].late
  PROVE  EndsKept'
  BY DEF EndsKept, NoNewCommit, ResetEndsSessions

LEMMA EndsStored ==
  ASSUME TablesOK, EndsKept, NoNewCommit, password' = password,
         NEW gone, NEW token \in Fresh(Tokens), NEW row \in RowType,
         rows' = With(Without(rows, gone), token, row),
         Resetting # {} => row.late, row.begun < password => row.late
  PROVE  EndsKept'
<1>1. Stored' = (Stored \ gone) \cup {token} /\ token \notin drawn
  BY FreshIsNew, WithType DEF Stored
<1>2. \A other \in Stored' : rows'[other] = IF other = token THEN row ELSE rows[other]
  BY <1>1 DEF With, Without, Stored
<1>3. \A c \in Clients : At(c, "commit") => row.late
  BY DEF Resetting
<1> QED BY <1>1, <1>2, <1>3 DEF EndsKept, NoNewCommit, ResetEndsSessions

LEMMA EndsStep ==
  ASSUME Shape, EndsKept, [Next]_vars
  PROVE  EndsKept'
<1> USE DEF Shape
<1>1. ASSUME NEW c \in Clients, NEW r, req' = [req EXCEPT ![c] = r], r.at # "commit"
      PROVE  NoNewCommit
  BY <1>1 DEF RequestsOK, At, NoNewCommit
<1>2. ASSUME NEW c \in Clients, NEW set, NEW ok, Answer(c, set, ok) PROVE NoNewCommit
  <2> DEFINE r == [Idle EXCEPT !.at = "answered", !.kind = req[c].kind,
                               !.persistent = req[c].persistent, !.set = set, !.ok = ok]
  <2>1. r.at = "answered"
    BY DEF Idle
  <2>2. req' = [req EXCEPT ![c] = r]
    BY <1>2 DEF Answer
  <2> HIDE DEF r
  <2> QED BY <1>1, <2>1, <2>2
<1>3. ASSUME NoNewCommit, UNCHANGED <<rows, password>> PROVE EndsKept'
  BY <1>3, EndsSame DEF Stored
<1>4. ASSUME NEW c \in Clients, Send(c) PROVE EndsKept'
  <2>1. ASSUME NEW r, Arrive(c, r), r.at # "commit" PROVE EndsKept'
    BY <1>1, <1>3, <2>1 DEF Arrive, tables
  <2>2. CASE Login(c)
    BY <2>1, <2>2 DEF Login, Idle
  <2>3. CASE Refresh(c)
    BY <2>1, <2>3 DEF Refresh, Idle
  <2>4. CASE Logout(c)
    BY <2>1, <2>4 DEF Logout, Idle
  <2>5. CASE RequestLink(c)
    BY <2>1, <2>5 DEF RequestLink, Idle
  <2>6. CASE ConfirmReset(c)
    BY <2>1, <2>6 DEF ConfirmReset, Idle
  <2> QED BY <1>4, <2>2, <2>3, <2>4, <2>5, <2>6 DEF Send
<1>5. ASSUME NEW c \in Clients, RefreshRefused(c) \/ LinkInsert(c) \/ StatementFails(c)
      PROVE  EndsKept'
  <2>1. PICK set, ok : Answer(c, set, ok)
    BY <1>5 DEF RefreshRefused, LinkInsert, StatementFails
  <2>2. UNCHANGED <<rows, password>>
    BY <1>5 DEF RefreshRefused, LinkInsert, StatementFails, tables
  <2> QED BY <1>2, <1>3, <2>1, <2>2
<1>6. ASSUME NEW c \in Clients, NEW place \in Places \ {"commit"}, Goto(c, place)
      PROVE  NoNewCommit
  BY <1>6 DEF Goto, At, RequestsOK, NoNewCommit, Handler
<1>7. ASSUME NEW c \in Clients, LoginCheck(c) \/ ResetConsume(c) PROVE EndsKept'
  <2>1. UNCHANGED <<rows, password>>
    BY <1>7 DEF LoginCheck, ResetConsume, tables
  <2>2. Answer(c, Nothing, FALSE) \/ Goto(c, "store") \/ Goto(c, "scan")
    BY <1>7 DEF LoginCheck, ResetConsume
  <2>3. "store" \in Places \ {"commit"} /\ "scan" \in Places \ {"commit"}
    BY DEF Places
  <2> QED BY <1>2, <1>3, <1>6, <2>1, <2>2, <2>3
<1>8. ASSUME NEW c \in Clients, LinkDelete(c) \/ Done(c) PROVE EndsKept'
  <2>1. UNCHANGED <<rows, password>>
    BY <1>8 DEF LinkDelete, Done, tables
  <2>2. NoNewCommit
    BY <1>8 DEF LinkDelete, Done, Idle, At, RequestsOK, Handler, NoNewCommit
  <2> QED BY <1>3, <2>1, <2>2
<1>9. ASSUME NEW c \in Clients, LoginStore(c) PROVE EndsKept'
  <2> DEFINE row(token) == [session |-> token, persistent |-> req[c].persistent, expired |-> FALSE,
                            begun |-> req[c].seen,
                            late |-> req[c].seen # password \/ Resetting # {}]
  <2>1. PICK token \in Fresh(Tokens) : rows' = With(rows, token, row(token)) /\ Answer(c, token, TRUE)
    BY <1>9 DEF LoginStore
  <2>2. req[c].persistent \in BOOLEAN /\ req[c].seen \in Nat /\ token \in Tokens
    BY FreshIsNew DEF RequestsOK, Handler
  <2>3. row(token) \in RowType
    BY <2>2 DEF RowType
  <2>4. /\ Resetting # {} => row(token).late
        /\ row(token).begun < password => row(token).late
    <3>1. row(token).begun = req[c].seen
      OBVIOUS
    <3>2. row(token).late <=> req[c].seen # password \/ Resetting # {}
      BY Zenon
    <3>3. req[c].seen < password => req[c].seen # password
      BY <2>2 DEF TablesOK
    <3> HIDE DEF row
    <3> QED BY <3>1, <3>2, <3>3
  <2>5. password' = password /\ NoNewCommit
    BY <1>2, <1>9, <2>1 DEF LoginStore
  <2> HIDE DEF row
  <2> QED BY <2>1, <2>3, <2>4, <2>5, WithoutNone, EndsStored
<1>10. ASSUME NEW c \in Clients, RefreshRotate(c) PROVE EndsKept'
  <2> DEFINE old == req[c].cookie
             row == [rows[old] EXCEPT !.late = @ \/ Resetting # {}]
  <2>1. PICK token \in Fresh(Tokens) :
          rows' = With(Without(rows, {old}), token, row) /\ Answer(c, token, TRUE)
    BY <1>10 DEF RefreshRotate, Rotated
  <2>2. old \in Stored /\ rows[old] \in RowType
    BY <1>10 DEF RefreshRotate, Valid, TablesOK
  <2>3. /\ row \in RowType /\ row.begun = rows[old].begun
        /\ row.late = (rows[old].late \/ Resetting # {})
    BY <2>2 DEF RowType
  <2>4. row.begun < password => row.late
    BY <2>2, <2>3 DEF EndsKept, ResetEndsSessions
  <2>5. password' = password /\ NoNewCommit
    BY <1>2, <1>10, <2>1 DEF RefreshRotate
  <2> HIDE DEF row
  <2> QED BY <2>1, <2>3, <2>4, <2>5, EndsStored
<1>11. ASSUME NEW c \in Clients, LogoutDelete(c) PROVE EndsKept'
  <2>1. NoNewCommit
    BY <1>2, <1>11 DEF LogoutDelete
  <2> QED BY <1>11, <2>1, EndsSame DEF LogoutDelete, Without, Stored
<1>12. ASSUME NEW c \in Clients, ResetScan(c) PROVE EndsKept'
  <2>1. \A d \in Clients : ~At(d, "commit")
    BY <1>12 DEF ResetScan, ProfileFree, Resetting
  <2>2. UNCHANGED <<rows, password>> /\ req' = [req EXCEPT ![c].at = "commit", ![c].doomed = Stored]
    BY <1>12 DEF ResetScan, SessionsToEnd, tables
  <2>3. \A d \in Clients : At(d, "commit")' => d = c /\ req'[d].doomed = Stored
    BY <2>1, <2>2 DEF At, RequestsOK, Handler
  <2> QED BY <2>2, <2>3 DEF EndsKept, ResetEndsSessions, Stored
<1>13. ASSUME NEW c \in Clients, ResetCommit(c) PROVE EndsKept'
  <2>1. \A d \in Clients : ~At(d, "commit")'
    BY <1>13 DEF ResetCommit, At, RequestsOK, Handler, EndsKept
  <2>2. /\ Stored' = Stored \ req[c].doomed
        /\ \A token \in Stored' : rows'[token] = rows[token]
    BY <1>13 DEF ResetCommit, Without, Stored
  <2>3. \A token \in Stored' : rows'[token].late
    BY <1>13, <2>2 DEF ResetCommit, EndsKept
  <2> QED BY <2>1, <2>3 DEF EndsKept, ResetEndsSessions
<1>14. ASSUME NEW c \in Clients, ResetSignIn(c) PROVE EndsKept'
  <2> DEFINE row(token) == [session |-> token, persistent |-> TRUE, expired |-> FALSE,
                            begun |-> password, late |-> Resetting # {}]
  <2>1. PICK token \in Fresh(Tokens) : rows' = With(rows, token, row(token)) /\ Answer(c, token, TRUE)
    BY <1>14 DEF ResetSignIn
  <2>2. row(token) \in RowType
    BY FreshIsNew DEF RowType, TablesOK
  <2>3. /\ Resetting # {} => row(token).late
        /\ row(token).begun < password => row(token).late
    <3>1. row(token).begun = password
      OBVIOUS
    <3>2. row(token).late <=> Resetting # {}
      BY Zenon
    <3>3. ~(password < password)
      BY DEF TablesOK
    <3> HIDE DEF row
    <3> QED BY <3>1, <3>2, <3>3
  <2>4. password' = password /\ NoNewCommit
    BY <1>2, <1>14, <2>1 DEF ResetSignIn
  <2> HIDE DEF row
  <2> QED BY <2>1, <2>2, <2>3, <2>4, WithoutNone, EndsStored
<1>15. ASSUME NEW token \in Tokens, ExpireToken(token) PROVE EndsKept'
  <2>1. /\ rows' = [rows EXCEPT ![token].expired = TRUE] /\ token \in Stored
        /\ UNCHANGED <<password, req>>
    BY <1>15 DEF ExpireToken, Valid
  <2>2. rows[token] \in RowType
    BY <2>1 DEF TablesOK
  <2>3. Stored' = Stored /\ \A other \in Stored : /\ rows'[other].begun = rows[other].begun
                                                 /\ rows'[other].late = rows[other].late
    BY <2>1, <2>2 DEF Stored, RowType
  <2>4. NoNewCommit
    BY <2>1 DEF NoNewCommit, At
  <2> QED BY <2>1, <2>3, <2>4, EndsSame
<1>16. CASE (\E link \in Links : ExpireLink(link)) \/ UNCHANGED vars
  <2>1. UNCHANGED <<rows, password, req>>
    BY <1>16 DEF ExpireLink, vars, sysVars, tables
  <2> QED BY <1>3, <2>1 DEF NoNewCommit, At
<1> QED BY <1>4, <1>5, <1>7, <1>8, <1>9, <1>10, <1>11, <1>12, <1>13, <1>14, <1>15, <1>16
         DEF Next, Serve, Expire

\* A session begun with an earlier password was stored while a reset ran.
THEOREM ResetsEndSessions == Spec => []ResetEndsSessions
<1>1. Init => EndsKept
  BY DEF Init, EndsKept, ResetEndsSessions, Stored, At, Idle
<1>2. Shape /\ EndsKept /\ [Next]_vars => EndsKept'
  BY EndsStep
<1>3. EndsKept => ResetEndsSessions
  BY DEF EndsKept
<1> QED BY <1>1, <1>2, <1>3, ShapeHolds, PTL DEF Spec

-----------------------------------------------------------------------------
\* Unless two have overlapped, a request for a link deletes every link there is.
\* A link can only have come, since its DELETE looked, from a request that ended
\* while this one was running.
ReplacesAll ==
  ~crowded =>
    /\ \A one, other \in Outstanding : one = other
    /\ \A c \in Clients : At(c, "linkInsert") => Outstanding \subseteq req[c].doomed

\* A step that brings no link and lets no request look again.
LEMMA ReplacesKept ==
  ASSUME ReplacesAll, UNCHANGED crowded, Outstanding' \subseteq Outstanding,
         \A c \in Clients :
           At(c, "linkInsert")' => At(c, "linkInsert") /\ req'[c].doomed = req[c].doomed
  PROVE  ReplacesAll'
  BY DEF ReplacesAll

LEMMA ReplacesStep ==
  ASSUME Shape, ReplacesAll, [Next]_vars
  PROVE  ReplacesAll'
<1> USE DEF Shape
<1> DEFINE Stay == \A d \in Clients :
             At(d, "linkInsert")' => At(d, "linkInsert") /\ req'[d].doomed = req[d].doomed
<1>1. ASSUME NEW c \in Clients, NEW r, req' = [req EXCEPT ![c] = r], r.at # "linkInsert"
      PROVE  Stay
  BY <1>1 DEF RequestsOK, At
<1>2. ASSUME NEW c \in Clients, NEW set, NEW ok, Answer(c, set, ok)
      PROVE  Stay
  <2>1. PICK r : r = [Idle EXCEPT !.at = "answered", !.kind = req[c].kind,
                                  !.persistent = req[c].persistent, !.set = set, !.ok = ok]
    OBVIOUS
  <2>2. r.at # "linkInsert"
    BY <2>1 DEF Idle
  <2> QED BY <1>1, <1>2, <2>1, <2>2 DEF Answer
<1>3. ASSUME NEW c \in Clients, NEW place \in Places \ {"linkInsert"}, Goto(c, place)
      PROVE  Stay
  BY <1>3 DEF Goto, RequestsOK, At
<1>4. ASSUME Stay, UNCHANGED <<links, crowded>>
      PROVE  ReplacesAll'
  <2>1. Outstanding' = Outstanding
    BY <1>4 DEF Outstanding
  <2> QED BY <1>4, <2>1, ReplacesKept
<1> HIDE DEF Stay
<1>5. ASSUME NEW c \in Clients, Send(c) PROVE ReplacesAll'
  <2>1. ASSUME NEW r, Arrive(c, r), r.at # "linkInsert" PROVE ReplacesAll'
    BY <1>1, <1>4, <2>1 DEF Arrive, tables, histVars
  <2>2. CASE Login(c)
    BY <2>1, <2>2 DEF Login, Idle
  <2>3. CASE Refresh(c)
    BY <2>1, <2>3 DEF Refresh, Idle
  <2>4. CASE Logout(c)
    BY <2>1, <2>4 DEF Logout, Idle
  <2>5. CASE RequestLink(c)
    BY <2>1, <2>5 DEF RequestLink, Idle
  <2>6. CASE ConfirmReset(c)
    BY <2>1, <2>6 DEF ConfirmReset, Idle
  <2> QED BY <1>5, <2>2, <2>3, <2>4, <2>5, <2>6 DEF Send
<1>6. ASSUME NEW c \in Clients,
             LoginStore(c) \/ RefreshRotate(c) \/ RefreshRefused(c) \/ LogoutDelete(c)
               \/ ResetSignIn(c) \/ StatementFails(c)
      PROVE  ReplacesAll'
  <2>1. PICK set, ok : Answer(c, set, ok)
    BY <1>6 DEF LoginStore, RefreshRotate, RefreshRefused, LogoutDelete, ResetSignIn,
                StatementFails
  <2>2. UNCHANGED <<links, crowded>>
    BY <1>6 DEF LoginStore, RefreshRotate, RefreshRefused, LogoutDelete, ResetSignIn,
                StatementFails, tables, histVars
  <2> QED BY <1>2, <1>4, <2>1, <2>2
<1>7. ASSUME NEW c \in Clients, LoginCheck(c) \/ ResetConsume(c) PROVE ReplacesAll'
  <2>1. UNCHANGED <<links, crowded>>
    BY <1>7 DEF LoginCheck, ResetConsume, tables, histVars
  <2>2. Goto(c, "store") \/ Goto(c, "scan") \/ Answer(c, Nothing, FALSE)
    BY <1>7, Zenon DEF LoginCheck, ResetConsume
  <2> QED BY <1>2, <1>3, <1>4, <2>1, <2>2 DEF Places
<1>8. ASSUME NEW c \in Clients, LinkDelete(c) PROVE ReplacesAll'
  <2>1. /\ req' = [req EXCEPT ![c].at = "linkInsert", ![c].doomed = Outstanding]
        /\ UNCHANGED <<links, crowded>>
    BY <1>8 DEF LinkDelete, LinksToReplace, tables, histVars
  <2>2. Outstanding' = Outstanding
    BY <2>1 DEF Outstanding
  <2>3. ASSUME NEW d \in Clients, At(d, "linkInsert")'
        PROVE  \/ req'[d].doomed = Outstanding
               \/ At(d, "linkInsert") /\ req'[d].doomed = req[d].doomed
    BY <2>1, <2>3 DEF RequestsOK, Handler, At
  <2> QED BY <2>1, <2>2, <2>3 DEF ReplacesAll
<1>9. ASSUME NEW c \in Clients, LinkInsert(c) PROVE ReplacesAll'
  <2>1. PICK link \in Fresh(Links) :
          links' = With(Without(links, req[c].doomed), link, FALSE)
    BY <1>9 DEF LinkInsert
  <2>2. Outstanding' = (Outstanding \ req[c].doomed) \cup {link}
    BY <2>1 DEF With, Without, Outstanding
  <2>3. Stay
    BY <1>2, <1>9 DEF LinkInsert
  <2>4. req'[c].at # "linkInsert"
    BY <1>9 DEF LinkInsert, Answer, Idle, RequestsOK
  <2>5. ASSUME ~crowded'
        PROVE  Outstanding' = {link} /\ \A d \in Clients : ~At(d, "linkInsert")'
    <3>1. ~crowded /\ \A d \in Clients \ {c} : ~At(d, "linkInsert")
      BY <1>9, <2>5 DEF LinkInsert
    <3>2. Outstanding \subseteq req[c].doomed
      BY <1>9, <3>1 DEF LinkInsert, ReplacesAll
    <3> QED BY <2>2, <2>3, <2>4, <3>1, <3>2 DEF Stay, At
  <2> QED BY <2>5 DEF ReplacesAll
<1>10. ASSUME NEW c \in Clients, ResetScan(c) PROVE ReplacesAll'
  <2>1. /\ req' = [req EXCEPT ![c].at = "commit", ![c].doomed = SessionsToEnd]
        /\ UNCHANGED <<links, crowded>>
    BY <1>10 DEF ResetScan, tables, histVars
  <2>2. Stay
    BY <2>1 DEF Stay, RequestsOK, Handler, At
  <2> QED BY <1>4, <2>1, <2>2
<1>11. ASSUME NEW c \in Clients, ResetCommit(c) PROVE ReplacesAll'
  <2>1. /\ req' = [req EXCEPT ![c].at = "signIn", ![c].doomed = {}]
        /\ links' = Without(links, {req[c].link})
        /\ UNCHANGED crowded
    BY <1>11 DEF ResetCommit
  <2>2. Stay
    BY <2>1 DEF Stay, RequestsOK, Handler, At
  <2>3. Outstanding' \subseteq Outstanding
    BY <2>1 DEF Without, Outstanding
  <2> QED BY <2>1, <2>2, <2>3, ReplacesKept DEF Stay
<1>12. ASSUME NEW c \in Clients, Done(c) PROVE ReplacesAll'
  <2>1. UNCHANGED <<links, crowded>>
    BY <1>12 DEF Done, tables, histVars
  <2>2. Stay
    BY <1>12 DEF Done, Idle, Stay, RequestsOK, At
  <2> QED BY <1>4, <2>1, <2>2
<1>13. ASSUME NEW link \in Links, ExpireLink(link) PROVE ReplacesAll'
  <2>1. Outstanding' = Outstanding
    BY <1>13 DEF ExpireLink, Outstanding
  <2>2. UNCHANGED <<req, crowded>>
    BY <1>13 DEF ExpireLink, histVars
  <2> QED BY <2>1, <2>2, ReplacesKept DEF At
<1>14. CASE (\E token \in Tokens : ExpireToken(token)) \/ UNCHANGED vars
  <2>1. UNCHANGED <<links, req, crowded>>
    BY <1>14 DEF ExpireToken, vars, sysVars, tables, histVars
  <2>2. Stay
    BY <2>1 DEF Stay, At
  <2> QED BY <1>4, <2>1, <2>2
<1> QED BY <1>5, <1>6, <1>7, <1>8, <1>9, <1>10, <1>11, <1>12, <1>13, <1>14
        DEF Next, Serve, Expire

\* CreatePasswordResetToken leaves a profile with one reset link, for any number of
\* clients: two are outstanding only after two requests for one overlapped, each
\* with its DELETE before the other's INSERT.
THEOREM LinksAreReplaced == Spec => []OneLink
<1>1. Init => ReplacesAll
  BY DEF Init, ReplacesAll, Outstanding, At, Idle
<1>2. Shape /\ ReplacesAll /\ [Next]_vars => ReplacesAll'
  BY ReplacesStep
<1>3. ReplacesAll => OneLink
  <2> SUFFICES ASSUME ReplacesAll, ~crowded
               PROVE  ~(Cardinality(Outstanding) > 1)
    BY DEF OneLink
  <2>1. CASE Outstanding = {}
    BY <2>1, FS_EmptySet
  <2>2. CASE Outstanding # {}
    <3>1. PICK link \in Outstanding : TRUE
      BY <2>2
    <3>2. Outstanding = {link}
      BY <3>1 DEF ReplacesAll
    <3> QED BY <3>2, FS_Singleton
  <2> QED BY <2>1, <2>2
<1> QED BY <1>1, <1>2, <1>3, ShapeHolds, PTL DEF Spec

=============================================================================
