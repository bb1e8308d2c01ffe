------------------------ MODULE BrowserSessionProofs ------------------------
(***************************************************************************)
(* Proofs about BrowserSession, for every number of tabs and every bound:  *)
(* who is told that the session expired, what a sign-out leaves, and what  *)
(* is left of a session that is not to be remembered.                      *)
(*                                                                         *)
(* Each action is first brought into a form that says what becomes of the  *)
(* one tab that moves; the invariants are then shown form by form.         *)
(***************************************************************************)
EXTENDS BrowserSession, TLAPS

Token == Nat \X Nat

Message == [tab : Tabs \cup {Nobody}, kind : {"refresh", "login", "logout", "forget"},
            way : {"to", "back"}, cookie : Token, remember : {"none", "true", "false"}]

TabState == [at : {"closed", "reloading", "boot", "on"}, initial : {"refresh", "forget", "done"},
             access : {"none", "good", "old"}, live : BOOLEAN,
             refresh : {"no", "queued", "sent"}, call : {"none", "waits"}]

Said == {"login", "logout"}

Shape ==
  /\ rows \subseteq Token /\ signIns \in Nat
  /\ cookie \in Token /\ remember \in {"none", "true", "false"}
  /\ tab \in [Tabs -> TabState] /\ lock \in Tabs \cup {Nobody}
  /\ inbox \in [Tabs -> Seq(Said)]
  /\ net \subseteq Message
  /\ surprised \in BOOLEAN /\ upset \in BOOLEAN /\ left \in BOOLEAN /\ out \in Nat

\* Sessions and turns count from one, and no token is of a session to come.
Issued ==
  /\ \A token \in rows : token[1] \in 1..signIns /\ token[2] > 0
  /\ cookie[1] <= signIns
  /\ \A m \in net : m.cookie[1] <= signIns

\* A session has one refresh token.
OneRow == \A token, other \in rows : token[1] = other[1] => token = other

\* Nobody has used the token that the answer to a sign-in brings.
Unused(m) ==
  /\ m.cookie \in rows /\ m.cookie[2] = 1
  /\ m.cookie # cookie
  /\ \A n \in net : n.cookie = m.cookie => n = m

LoginsBring == \A m \in net : m.kind = "login" /\ m.way = "back" => Unused(m)

\* A tab that is not there holds nothing.
Absent(t) ==
  tab[t].at \in {"closed", "reloading"} =>
    /\ tab[t].access = "none" /\ tab[t].call = "none" /\ tab[t].refresh = "no"
    /\ tab[t].at = "closed" => ~tab[t].live
    /\ inbox[t] = << >>

\* Requests of a tab that is left belong to nobody.
Present == \A m \in net : m.tab # Nobody => tab[m.tab].at \in {"boot", "on"}

\* A tab that waits for a refresh has the lock, and there is one such request.
IsRefresh(m) == m.kind = "refresh"
Locked ==
  /\ \A m \in net : IsRefresh(m) /\ m.tab # Nobody => m.tab = lock
  /\ \A m, n \in net : IsRefresh(m) /\ IsRefresh(n) /\ m.tab = n.tab /\ m.tab # Nobody => m = n

Tokens == Issued /\ OneRow /\ LoginsBring
Base == Shape /\ Tokens /\ Locked /\ Present /\ \A t \in Tabs : Absent(t)

-----------------------------------------------------------------------------
(* Records.                                                                *)

LEMMA ClosedIs ==
  /\ Closed \in TabState
  /\ Closed.at = "closed" /\ Closed.access = "none" /\ Closed.call = "none"
  /\ Closed.refresh = "no" /\ ~Closed.live
  BY DEF Closed, TabState

LEMMA AppliedIs ==
  ASSUME NEW tb \in TabState, NEW access \in {"none", "good"}
  PROVE  /\ Applied(tb, access) \in TabState
         /\ Applied(tb, access).at = tb.at /\ Applied(tb, access).initial = tb.initial
         /\ Applied(tb, access).access = access
         /\ Applied(tb, access).refresh = tb.refresh /\ Applied(tb, access).call = tb.call
  BY DEF Applied, TabState

LEMMA RefreshedIs ==
  ASSUME NEW tb \in TabState
  PROVE  /\ Refreshed(tb) \in TabState
         /\ Refreshed(tb).at = tb.at /\ Refreshed(tb).access = tb.access
         /\ Refreshed(tb).call = "none" /\ Refreshed(tb).refresh = "no"
         /\ Refreshed(tb).initial = IF tb.initial = "refresh" THEN "done" ELSE tb.initial
  BY DEF Refreshed, TabState

LEMMA RequestIs ==
  ASSUME Shape, NEW t \in Tabs, NEW kind \in {"refresh", "login", "logout", "forget"},
         NEW keep \in {"none", "true", "false"}
  PROVE  /\ Request(t, kind, keep) \in Message
         /\ Request(t, kind, keep).tab = t /\ Request(t, kind, keep).kind = kind
         /\ Request(t, kind, keep).way = "to" /\ Request(t, kind, keep).cookie = cookie
  BY DEF Request, Message, Shape

LEMMA AnsweredIs ==
  ASSUME NEW m \in Message, NEW token \in Token
  PROVE  /\ Answered(m, token) \in Message
         /\ Answered(m, token).tab = m.tab /\ Answered(m, token).kind = m.kind
         /\ Answered(m, token).way = "back" /\ Answered(m, token).cookie = token
  BY DEF Answered, Message

Orphaned(m, t) == IF m.tab = t THEN [m EXCEPT !.tab = Nobody] ELSE m

LEMMA OrphanedIs ==
  ASSUME NEW m \in Message, NEW t
  PROVE  /\ Orphaned(m, t) \in Message
         /\ Orphaned(m, t).tab = IF m.tab = t THEN Nobody ELSE m.tab
         /\ Orphaned(m, t).kind = m.kind /\ Orphaned(m, t).way = m.way
         /\ Orphaned(m, t).cookie = m.cookie
         /\ m.tab # t => Orphaned(m, t) = m
  BY DEF Orphaned, Message

LEMMA TokenIs ==
  /\ NoToken \in Token /\ NoToken[1] = 0 /\ NoToken[2] = 0
  /\ \A token \in Token : /\ Rotated(token) \in Token
                          /\ Rotated(token)[1] = token[1] /\ Rotated(token)[2] = token[2] + 1
  BY DEF NoToken, Token, Rotated

-----------------------------------------------------------------------------
(* The forms of the actions.                                               *)

Moves(t, v) == v \in TabState /\ tab' = [tab EXCEPT ![t] = v]

\* A tab opens, and restores the session, or sends the request to forget it.
Opens(t, v) ==
  /\ tab[t].at \in {"closed", "reloading"}
  /\ ~MayForget(t) \/ OtherTabLive(t)
  /\ Moves(t, v) /\ v.at = "boot" /\ v.initial = "refresh"
  /\ v.access = tab[t].access /\ v.call = tab[t].call
  /\ left' = (left /\ ~UnderWay({"forget"}))
  /\ UNCHANGED <<rows, signIns, cookie, remember, lock, inbox, net, surprised, upset, out>>

Forgets(t, v) ==
  /\ tab[t].at \in {"closed", "reloading"}
  /\ MayForget(t)
  /\ Moves(t, v) /\ v.at = "boot" /\ v.initial = "forget"
  /\ v.access = tab[t].access /\ v.call = tab[t].call /\ v.refresh = tab[t].refresh
  /\ net' = net \cup {Request(t, "forget", "none")}
  /\ remember' = "none"
  /\ upset' = TRUE
  /\ left' = (left /\ ~OtherTabLive(t))
  /\ UNCHANGED <<rows, signIns, cookie, lock, inbox, surprised, out>>

\* Nothing moves but where the tab is, whether it waits, or has the lock.
Mounts(t, v) ==
  /\ tab[t].at = "boot" /\ v.at = "on"
  /\ v.initial = tab[t].initial /\ v.access = tab[t].access
  /\ v.refresh = tab[t].refresh /\ v.call = tab[t].call
  /\ Moves(t, v)
  /\ UNCHANGED <<rows, signIns, cookie, remember, lock, inbox, net, surprised, upset, out, left>>

Waits(t, v) ==
  /\ tab[t].at = "on" /\ v.at = "on"
  /\ tab[t].access = "old" /\ v.access = "old"
  /\ Moves(t, v)
  /\ UNCHANGED <<rows, signIns, cookie, remember, lock, inbox, net, surprised, upset, out, left>>

Acquires(t, v) ==
  /\ tab[t].refresh = "queued" /\ lock = Nobody /\ lock' = t
  /\ Moves(t, v)
  /\ v.at = tab[t].at /\ v.initial = tab[t].initial
  /\ v.access = tab[t].access /\ v.call = tab[t].call
  /\ net' = net \cup {Request(t, "refresh", "none")}
  /\ out' = IF UnderWay({"logout"}) THEN 0 ELSE out
  /\ UNCHANGED <<rows, signIns, cookie, remember, inbox, surprised, upset, left>>

\* A tab is left, and with it its requests.
Leaves(t, v) ==
  /\ tab[t].at \in {"boot", "on"}
  /\ \A m \in net : m.tab # Nobody
  /\ Moves(t, v) /\ v.at \in {"closed", "reloading"}
  /\ v.access = "none" /\ v.call = "none" /\ v.refresh = "no"
  /\ v.at = "closed" => ~v.live
  /\ inbox' = [inbox EXCEPT ![t] = << >>]
  /\ lock' = IF lock = t THEN Nobody ELSE lock
  /\ net' = {Orphaned(m, t) : m \in net}
  /\ upset' = (upset \/ \E m \in net : m.tab = t)
  /\ out' = IF UnderWay({"logout", "login"}) THEN 0 ELSE out
  /\ left' = \/ left /\ ~UnderWay({"forget", "login"})
             \/ /\ v.at = "closed" /\ net = {} /\ remember = "false"
                /\ \A u \in Tabs \ {t} : tab[u].at = "closed"
  /\ UNCHANGED <<rows, signIns, cookie, remember, surprised>>

SignsIn(t, keep) ==
  /\ tab[t].at = "on" /\ tab[t].initial = "done"
  /\ net' = net \cup {Request(t, "login", keep)}
  /\ UNCHANGED <<rows, signIns, cookie, remember, tab, lock, inbox, surprised, upset, out, left>>

SignsOut(t, v) ==
  /\ tab[t].at = "on" /\ tab[t].access # "none"
  /\ Moves(t, v) /\ v.at = "on" /\ v.access = "none"
  /\ v.call = tab[t].call /\ v.initial = tab[t].initial
  /\ net' = net \cup {Request(t, "logout", "none")}
  /\ remember' = "none"
  /\ Post(t, "logout")
  /\ upset' = TRUE
  /\ out' = IF /\ net = {} /\ inbox[t] = << >> /\ cookie \in rows
               /\ \A u \in Tabs : tab[u].at # "boot"
              THEN cookie[1] ELSE 0
  /\ UNCHANGED <<rows, signIns, cookie, lock, surprised, left>>

Expires ==
  /\ tab' \in [Tabs -> TabState]
  /\ \A t \in Tabs :
       /\ tab'[t].at = tab[t].at /\ tab'[t].initial = tab[t].initial
       /\ tab'[t].live = tab[t].live
       /\ tab'[t].refresh = tab[t].refresh /\ tab'[t].call = tab[t].call
       /\ tab'[t].access = IF tab[t].access = "good" THEN "old" ELSE tab[t].access
  /\ UNCHANGED <<rows, signIns, cookie, remember, lock, inbox, net, surprised, upset, out, left>>

\* What the server does with request m.
Serves(m, token) ==
  /\ m \in net /\ m.way = "to"
  /\ token \in Token
  /\ net' = (net \ {m}) \cup {Answered(m, token)}
  /\ UNCHANGED <<cookie, remember, tab, lock, inbox, surprised>>

Rotates(m) ==
  /\ m.kind = "refresh" /\ m.cookie \in rows
  /\ rows' = (rows \ {m.cookie}) \cup {Rotated(m.cookie)}

RotatesToken(m) ==
  /\ Rotates(m) /\ Serves(m, Rotated(m.cookie))
  /\ UNCHANGED <<signIns, upset, out, left>>

RefusesToken(m) ==
  /\ m.kind = "refresh" /\ m.cookie \notin rows /\ Serves(m, NoToken)
  /\ UNCHANGED <<rows, signIns, upset, out, left>>

DeletesToken(m) ==
  /\ m.kind \in {"logout", "forget"} /\ Serves(m, NoToken)
  /\ rows' = rows \ {m.cookie}
  /\ UNCHANGED <<signIns, upset, out, left>>

LogsIn(m) ==
  /\ m.kind = "login" /\ Serves(m, <<signIns + 1, 1>>)
  /\ signIns' = signIns + 1
  /\ rows' = rows \cup {<<signIns + 1, 1>>}
  /\ UNCHANGED <<upset, out, left>>

\* Something went wrong.
Spoilt == upset' = TRUE /\ out' = 0 /\ left' = FALSE

Breaks(m) ==
  /\ m.kind # "login" /\ Serves(m, NoToken)
  /\ UNCHANGED rows \/ Rotates(m)
  /\ Spoilt
  /\ UNCHANGED signIns

\* What a tab does with the answer m, or without it.
Takes(m, v) ==
  /\ m \in net /\ m.tab \in Tabs
  /\ Moves(m.tab, v) /\ v.at = tab[m.tab].at
  /\ UNCHANGED <<rows, signIns>>

Answer(m) == m.way = "back" /\ cookie' = m.cookie

TakesLogin(m, v) ==
  /\ Takes(m, v) /\ Answer(m) /\ m.kind = "login"
  /\ v.access = "good" /\ v.call = tab[m.tab].call
  /\ net' = net \ {m}
  /\ remember' = m.remember
  /\ Post(m.tab, "login")
  /\ upset' = (net # {m}) /\ out' = 0 /\ left' = FALSE
  /\ UNCHANGED <<lock, surprised>>

TakesToken(m, v) ==
  /\ Takes(m, v) /\ Answer(m) /\ m.kind = "refresh" /\ m.cookie # NoToken
  /\ v.access = "good" /\ v.call = "none"
  /\ net' = net \ {m} /\ lock' = Nobody
  /\ UNCHANGED inbox \/ Post(m.tab, "login")
  /\ UNCHANGED <<remember, surprised, upset, out, left>>

\* No token: told so, or the request is lost.
NoAnswer(m) ==
  \/ Answer(m) /\ m.cookie = NoToken /\ UNCHANGED <<upset, out, left>>
  \/ Spoilt /\ UNCHANGED cookie

TakesNone(m, v) ==
  /\ Takes(m, v) /\ NoAnswer(m) /\ m.kind = "refresh"
  /\ v.access = tab[m.tab].access /\ v.call = "none"
  /\ net' = net \ {m} /\ lock' = Nobody
  /\ UNCHANGED <<inbox, remember, surprised>>

SaysExpired(m, v) ==
  /\ Takes(m, v) /\ NoAnswer(m) /\ m.kind = "refresh" /\ tab[m.tab].call = "waits"
  /\ v.access = "none" /\ v.call = "none"
  /\ net' = (net \ {m}) \cup {Request(m.tab, "logout", "none")}
  /\ lock' = Nobody
  /\ remember' = "none"
  /\ Post(m.tab, "logout")
  /\ surprised' = (surprised \/ ~upset')

TakesNews(m, v) ==
  /\ Takes(m, v)
  /\ \/ Answer(m) /\ m.kind \in {"logout", "forget"} /\ UNCHANGED <<upset, out, left>>
     \/ m.kind # "refresh" /\ Spoilt /\ UNCHANGED cookie
  /\ v.access = tab[m.tab].access /\ v.call = tab[m.tab].call
  /\ net' = net \ {m}
  /\ UNCHANGED <<lock, inbox, remember, surprised>>

DropsAnswer(m) ==
  /\ m \in net /\ m.tab = Nobody
  /\ Answer(m) \/ UNCHANGED cookie
  /\ net' = net \ {m}
  /\ UNCHANGED <<rows, signIns, remember, tab, lock, inbox, surprised, upset, out, left>>

Hears(t, v) ==
  /\ inbox[t] # << >>
  /\ Moves(t, v) /\ v.at = tab[t].at /\ v.call = tab[t].call
  /\ v.initial = tab[t].initial /\ v.refresh = tab[t].refresh
  /\ v.access = IF Head(inbox[t]) = "login" THEN "good" ELSE "none"
  /\ inbox' = [inbox EXCEPT ![t] = Tail(inbox[t])]
  /\ UNCHANGED <<rows, signIns, cookie, remember, lock, net, surprised, upset, out, left>>

Rests ==
  UNCHANGED <<rows, signIns, cookie, remember, tab, lock, inbox, net, surprised, upset, out, left>>

UserForms ==
  \E t \in Tabs, v \in TabState :
    \/ Opens(t, v) \/ Forgets(t, v) \/ Mounts(t, v) \/ Leaves(t, v) \/ SignsOut(t, v)
    \/ Waits(t, v) \/ Acquires(t, v) \/ Hears(t, v)
    \/ \E keep \in {"true", "false"} : SignsIn(t, keep)

ServerForms ==
  \E m \in net : RotatesToken(m) \/ RefusesToken(m) \/ DeletesToken(m) \/ LogsIn(m) \/ Breaks(m)

AnswerForms ==
  \E m \in net :
    \/ DropsAnswer(m)
    \/ \E v \in TabState : \/ TakesLogin(m, v) \/ TakesToken(m, v) \/ TakesNone(m, v)
                           \/ SaysExpired(m, v) \/ TakesNews(m, v)

Forms == UserForms \/ ServerForms \/ AnswerForms \/ Expires \/ Rests

LEMMA UserFormsHold ==
  ASSUME Shape, NEW t \in Tabs,
         \/ OpenTab(t) \/ Mount(t) \/ (\E reload \in BOOLEAN : Leave(t, reload))
         \/ (\E keep \in {"true", "false"} : SignIn(t, keep))
         \/ SignOut(t) \/ Unauthorized(t) \/ Acquire(t) \/ Receive(t)
  PROVE  UserForms
<1>0. tab \in [Tabs -> TabState] /\ tab[t] \in TabState
  BY DEF Shape
<1>1. CASE OpenTab(t)
  <2>1. PICK v, w : /\ v = [tab[t] EXCEPT !.at = "boot", !.initial = "forget"]
                    /\ w = [tab[t] EXCEPT !.at = "boot", !.initial = "refresh", !.refresh = "queued"]
    OBVIOUS
  <2>2. /\ v \in TabState /\ v.at = "boot" /\ v.initial = "forget"
        /\ v.access = tab[t].access /\ v.call = tab[t].call /\ v.refresh = tab[t].refresh
        /\ w \in TabState /\ w.at = "boot" /\ w.initial = "refresh"
        /\ w.access = tab[t].access /\ w.call = tab[t].call
    BY <1>0, <2>1 DEF TabState
  <2>3. /\ [tab EXCEPT ![t].at = "boot", ![t].initial = "forget"] = [tab EXCEPT ![t] = v]
        /\ [tab EXCEPT ![t].at = "boot", ![t].initial = "refresh", ![t].refresh = "queued"]
             = [tab EXCEPT ![t] = w]
    BY <1>0, <2>1 DEF TabState
  <2>4. Forgets(t, v) \/ Opens(t, w)
    BY <1>1, <2>2, <2>3, Zenon DEF OpenTab, Forgets, Opens, Moves, server, counts
  <2> QED BY <2>2, <2>4, Zenon DEF UserForms
<1>2. CASE Mount(t)
  <2>1. PICK v : v = [tab[t] EXCEPT !.at = "on", !.live = @ \/ tab[t].access # "none"]
    OBVIOUS
  <2>2. /\ v \in TabState /\ v.at = "on" /\ v.initial = tab[t].initial
        /\ v.access = tab[t].access /\ v.refresh = tab[t].refresh /\ v.call = tab[t].call
    BY <1>0, <2>1 DEF TabState
  <2>3. [tab EXCEPT ![t].at = "on", ![t].live = @ \/ tab[t].access # "none"] = [tab EXCEPT ![t] = v]
    BY <1>0, <2>1 DEF TabState
  <2>4. Mounts(t, v)
    BY <1>2, <2>2, <2>3, Zenon DEF Mount, Mounts, Moves, server, counts, history
  <2> QED BY <2>2, <2>4, Zenon DEF UserForms
<1>3. CASE \E reload \in BOOLEAN : Leave(t, reload)
  <2>1. PICK reload \in BOOLEAN : Leave(t, reload)
    BY <1>3
  <2>2. PICK v : v = [Closed EXCEPT !.at = IF reload THEN "reloading" ELSE "closed",
                                    !.live = MarkKept(tab[t], reload)]
    OBVIOUS
  <2>3. /\ v \in TabState /\ v.at \in {"closed", "reloading"}
        /\ v.access = "none" /\ v.call = "none" /\ v.refresh = "no"
        /\ v.at = "closed" <=> ~reload
        /\ v.at = "closed" => ~v.live
    BY <1>0, <2>2 DEF TabState, Closed, MarkKept
  <2>4. net' = {Orphaned(m, t) : m \in net}
    BY <2>1, Zenon DEF Leave, Orphaned
  <2>5. Leaves(t, v)
    <3>1. Moves(t, v)
      BY <2>1, <2>2, <2>3, Zenon DEF Leave, Moves
    <3>2. left' = \/ left /\ ~UnderWay({"forget", "login"})
                  \/ /\ v.at = "closed" /\ net = {} /\ remember = "false"
                     /\ \A u \in Tabs \ {t} : tab[u].at = "closed"
      BY <2>1, <2>3, Zenon DEF Leave
    <3> QED BY <2>1, <2>3, <2>4, <3>1, <3>2, Zenon DEF Leave, Leaves, Open, server, counts
  <2> QED BY <2>3, <2>5, Zenon DEF UserForms
<1>4. CASE \E keep \in {"true", "false"} : SignIn(t, keep)
  BY <1>0, <1>4, Zenon DEF SignIn, SignsIn, UserForms, server, browser, counts, history
<1>5. CASE SignOut(t)
  <2>1. PICK v : v = Applied(tab[t], "none")
    OBVIOUS
  <2>2. /\ v \in TabState /\ v.at = tab[t].at /\ v.access = "none"
        /\ v.call = tab[t].call /\ v.initial = tab[t].initial
    BY <1>0, <2>1, AppliedIs
  <2>3. SignsOut(t, v)
    BY <1>5, <2>1, <2>2, Zenon DEF SignOut, LogOut, SignsOut, Moves, server, counts
  <2> QED BY <2>2, <2>3, Zenon DEF UserForms
<1>6. CASE Unauthorized(t)
  <2>1. PICK v : v = [tab[t] EXCEPT !.call = "waits", !.refresh = IF @ = "no" THEN "queued" ELSE @]
    OBVIOUS
  <2>2. v \in TabState /\ v.at = tab[t].at /\ v.access = tab[t].access
    BY <1>0, <2>1 DEF TabState
  <2>3. [tab EXCEPT ![t].call = "waits", ![t].refresh = IF @ = "no" THEN "queued" ELSE @]
          = [tab EXCEPT ![t] = v]
    BY <1>0, <2>1 DEF TabState
  <2>4. Waits(t, v)
    BY <1>6, <2>2, <2>3, Zenon DEF Unauthorized, Waits, Moves, server, counts, history
  <2> QED BY <2>2, <2>4, Zenon DEF UserForms
<1>7. CASE Acquire(t)
  <2>1. PICK v : v = [tab[t] EXCEPT !.refresh = "sent"]
    OBVIOUS
  <2>2. /\ v \in TabState /\ v.at = tab[t].at /\ v.initial = tab[t].initial
        /\ v.access = tab[t].access /\ v.call = tab[t].call
    BY <1>0, <2>1 DEF TabState
  <2>3. [tab EXCEPT ![t].refresh = "sent"] = [tab EXCEPT ![t] = v]
    BY <1>0, <2>1 DEF TabState
  <2>4. Acquires(t, v)
    BY <1>7, <2>2, <2>3, Zenon DEF Acquire, Granted, Acquires, Moves, server, counts
  <2> QED BY <2>2, <2>4, Zenon DEF UserForms
<1>8. CASE Receive(t)
  <2>1. PICK v : v = Applied(tab[t], IF Head(inbox[t]) = "login" THEN "good" ELSE "none")
    OBVIOUS
  <2>2. /\ v \in TabState /\ v.at = tab[t].at /\ v.call = tab[t].call
        /\ v.initial = tab[t].initial /\ v.refresh = tab[t].refresh
        /\ v.access = IF Head(inbox[t]) = "login" THEN "good" ELSE "none"
    BY <1>0, <2>1, AppliedIs
  <2>3. tab' = [tab EXCEPT ![t] = v] /\ inbox' = [inbox EXCEPT ![t] = Tail(inbox[t])]
    BY <1>8, <2>1 DEF Receive
  <2>4. Hears(t, v)
    BY <1>8, <2>2, <2>3, Zenon DEF Receive, Hears, Moves, server, counts, history
  <2> QED BY <2>2, <2>4, Zenon DEF UserForms
<1> QED BY <1>1, <1>2, <1>3, <1>4, <1>5, <1>6, <1>7, <1>8

LEMMA ServerFormsHold ==
  ASSUME Shape, Serve \/ \E m \in net : DatabaseFails(m)
  PROVE  ServerForms
<1>0. \A m \in net : m \in Message /\ m.cookie \in Token
  BY DEF Shape, Message
<1>1. CASE Serve
  <2>1. PICK m \in net :
          /\ m.way = "to"
          /\ \/ m.kind = "refresh" /\ HandleRefresh(m) /\ UNCHANGED signIns
             \/ m.kind \in {"logout", "forget"} /\ HandleLogout(m) /\ UNCHANGED signIns
             \/ m.kind = "login" /\ HandleLogin(m)
    BY <1>1, Zenon DEF Serve
  <2>2. UNCHANGED <<browser, counts, history>>
    BY <1>1 DEF Serve
  <2>3. <<signIns + 1, 1>> \in Token /\ NoToken \in Token /\ Rotated(m.cookie) \in Token
    <3>1. <<signIns + 1, 1>> \in Token
      BY DEF Shape, Token
    <3> QED BY <1>0, <3>1, TokenIs
  <2>4. CASE m.kind = "refresh" /\ HandleRefresh(m) /\ UNCHANGED signIns
    <3>1. CASE m.cookie \in rows
      BY <2>1, <2>2, <2>3, <2>4, <3>1, Zenon
         DEF HandleRefresh, RotatesToken, Rotates, Serves, ServerForms, browser, history
    <3>2. CASE m.cookie \notin rows
      BY <2>1, <2>2, <2>3, <2>4, <3>2, Zenon
         DEF HandleRefresh, RefusesToken, Serves, ServerForms, browser, history
    <3> QED BY <3>1, <3>2
  <2>5. CASE m.kind \in {"logout", "forget"} /\ HandleLogout(m) /\ UNCHANGED signIns
    BY <2>1, <2>2, <2>3, <2>5, Zenon
       DEF HandleLogout, DeletesToken, Serves, ServerForms, browser, history
  <2>6. CASE m.kind = "login" /\ HandleLogin(m)
    BY <2>1, <2>2, <2>3, <2>6, Zenon DEF HandleLogin, LogsIn, Serves, ServerForms, browser, history
  <2> QED BY <2>1, <2>4, <2>5, <2>6
<1>2. CASE \E m \in net : DatabaseFails(m)
  BY <1>2, TokenIs, Zenon
     DEF DatabaseFails, Breaks, Rotates, Serves, Spoilt, ServerForms, browser
<1> QED BY <1>1, <1>2

LEMMA FailingForms ==
  ASSUME Shape, NEW m \in net, m.tab \in Tabs, m.kind = "refresh",
         UNCHANGED <<rows, signIns>>, Unlocked(m), NoAnswer(m),
         NEW lost \in BOOLEAN, RefreshFails(m.tab, net \ {m}, lost), lost \/ UNCHANGED upset,
         lost => upset'
  PROVE  \E v \in TabState : TakesNone(m, v) \/ SaysExpired(m, v)
<1>0. tab[m.tab] \in TabState
  BY DEF Shape
<1>1. lock' = Nobody
  BY DEF Unlocked
<1>2. CASE tab[m.tab].call = "waits"
  <2>1. PICK v : v = Applied(Refreshed(tab[m.tab]), "none")
    OBVIOUS
  <2>2. v \in TabState /\ v.at = tab[m.tab].at /\ v.access = "none" /\ v.call = "none"
    BY <1>0, <2>1, AppliedIs, RefreshedIs
  <2>3. /\ net' = (net \ {m}) \cup {Request(m.tab, "logout", "none")}
        /\ remember' = "none" /\ tab' = [tab EXCEPT ![m.tab] = v]
        /\ Post(m.tab, "logout")
        /\ surprised' = (surprised \/ ~(upset \/ lost))
    BY <1>2, <2>1, Zenon DEF RefreshFails, LogOut
  <2>4. surprised' = (surprised \/ ~upset')
    BY <2>3, Zenon DEF Shape
  <2>5. SaysExpired(m, v)
    BY <1>1, <1>2, <2>2, <2>3, <2>4, Zenon DEF SaysExpired, Takes, Moves
  <2> QED BY <2>2, <2>5
<1>3. CASE tab[m.tab].call # "waits"
  <2>1. PICK v : v = Refreshed(tab[m.tab])
    OBVIOUS
  <2>2. v \in TabState /\ v.at = tab[m.tab].at /\ v.access = tab[m.tab].access /\ v.call = "none"
    BY <1>0, <2>1, RefreshedIs
  <2>3. TakesNone(m, v)
    BY <1>1, <1>3, <2>1, <2>2, Zenon DEF RefreshFails, TakesNone, Takes, Moves
  <2> QED BY <2>2, <2>3
<1> QED BY <1>2, <1>3

LEMMA NewsForm ==
  ASSUME Shape, NEW m \in net, m.tab \in Tabs, UNCHANGED <<rows, signIns>>,
         \/ Answer(m) /\ m.kind \in {"logout", "forget"} /\ UNCHANGED <<upset, out, left>>
         \/ m.kind # "refresh" /\ Spoilt /\ UNCHANGED cookie,
         net' = net \ {m},
         tab' = [tab EXCEPT ![m.tab].initial = IF m.kind = "forget" THEN "done" ELSE @],
         UNCHANGED <<inbox, remember, surprised>>, UNCHANGED lock
  PROVE  \E v \in TabState : TakesNews(m, v)
<1>0. tab \in [Tabs -> TabState] /\ tab[m.tab] \in TabState
  BY DEF Shape
<1>1. PICK v : v = [tab[m.tab] EXCEPT !.initial = IF m.kind = "forget" THEN "done" ELSE @]
  OBVIOUS
<1>2. /\ v \in TabState /\ v.at = tab[m.tab].at /\ v.access = tab[m.tab].access
      /\ v.call = tab[m.tab].call
  BY <1>0, <1>1 DEF TabState
<1>3. tab' = [tab EXCEPT ![m.tab] = v]
  BY <1>0, <1>1 DEF TabState
<1> QED BY <1>2, <1>3, Zenon DEF TakesNews, Takes, Moves

LEMMA AnswerFormsHold ==
  ASSUME Shape, NEW m \in net, Deliver(m) \/ DeliverLeft(m) \/ Lose(m)
  PROVE  AnswerForms
<1>0. m \in Message /\ m.tab \in Tabs \cup {Nobody} /\ m.kind \in {"refresh", "login", "logout", "forget"}
  BY DEF Shape, Message
<1>1. CASE Deliver(m)
  <2>0. /\ m.tab \in Tabs /\ Answer(m) /\ Unlocked(m) /\ tab[m.tab] \in TabState
        /\ UNCHANGED <<rows, signIns>>
    BY <1>0, <1>1 DEF Deliver, Answer, Shape, server
  <2>1. CASE m.kind = "login"
    <3>1. LoginAnswered(m)
      BY <1>1, <2>1 DEF Deliver
    <3>2. PICK v : v = Applied(tab[m.tab], "good")
      OBVIOUS
    <3>3. v \in TabState /\ v.at = tab[m.tab].at /\ v.access = "good" /\ v.call = tab[m.tab].call
      BY <2>0, <3>2, AppliedIs
    <3>4. TakesLogin(m, v)
      BY <2>0, <2>1, <3>1, <3>2, <3>3
         DEF LoginAnswered, TakesLogin, Takes, Moves, Unlocked
    <3> QED BY <3>3, <3>4, Zenon DEF AnswerForms
  <2>2. CASE m.kind = "refresh"
    <3>1. /\ IF m.cookie # NoToken THEN RefreshSucceeds(m.tab, net \ {m})
                                   ELSE RefreshFails(m.tab, net \ {m}, FALSE)
          /\ UNCHANGED <<upset, out, left>>
      BY <1>1, <2>2 DEF Deliver
    <3>2. CASE m.cookie # NoToken
      <4>1. PICK v : v = IF tab[m.tab].at = "boot"
                           THEN [Refreshed(tab[m.tab]) EXCEPT !.access = "good"]
                           ELSE Applied(Refreshed(tab[m.tab]), "good")
        OBVIOUS
      <4>2. Refreshed(tab[m.tab]) \in TabState
        BY <2>0, RefreshedIs
      <4>3. PICK w : w = [Refreshed(tab[m.tab]) EXCEPT !.access = "good"]
        OBVIOUS
      <4>4. w \in TabState /\ w.at = Refreshed(tab[m.tab]).at /\ w.access = "good"
              /\ w.call = Refreshed(tab[m.tab]).call
        BY <4>2, <4>3 DEF TabState
      <4>5. v \in TabState /\ v.at = tab[m.tab].at /\ v.access = "good" /\ v.call = "none"
        BY <2>0, <4>1, <4>2, <4>3, <4>4, AppliedIs, RefreshedIs
      <4>6. /\ net' = net \ {m} /\ tab' = [tab EXCEPT ![m.tab] = v]
            /\ UNCHANGED inbox \/ Post(m.tab, "login")
            /\ UNCHANGED <<remember, surprised>>
        BY <3>1, <3>2, <4>1, Zenon DEF RefreshSucceeds
      <4>7. TakesToken(m, v)
        BY <2>0, <2>2, <3>1, <3>2, <4>5, <4>6, Zenon DEF TakesToken, Takes, Moves, Unlocked
      <4> QED BY <4>5, <4>7, Zenon DEF AnswerForms
    <3>3. CASE m.cookie = NoToken
      <4>1. RefreshFails(m.tab, net \ {m}, FALSE) /\ NoAnswer(m)
        BY <2>0, <3>1, <3>3, Zenon DEF NoAnswer
      <4>2. \E v \in TabState : TakesNone(m, v) \/ SaysExpired(m, v)
        BY <2>0, <2>2, <3>1, <4>1, FailingForms
      <4> QED BY <4>2, Zenon DEF AnswerForms
    <3> QED BY <3>2, <3>3
  <2>3. CASE m.kind \in {"logout", "forget"}
    <3>1. /\ net' = net \ {m}
          /\ tab' = [tab EXCEPT ![m.tab].initial = IF m.kind = "forget" THEN "done" ELSE @]
          /\ UNCHANGED <<inbox, remember, history>>
      BY <1>1, <2>3 DEF Deliver
    <3>2. UNCHANGED lock /\ UNCHANGED <<inbox, remember, surprised>> /\ UNCHANGED <<upset, out, left>>
      BY <2>0, <2>3, <3>1 DEF Unlocked, history
    <3>3. \E v \in TabState : TakesNews(m, v)
      BY <2>0, <2>3, <3>1, <3>2, NewsForm, Zenon
    <3> QED BY <3>3, Zenon DEF AnswerForms
  <2> QED BY <1>0, <2>1, <2>2, <2>3
<1>2. CASE DeliverLeft(m)
  BY <1>2, Zenon DEF DeliverLeft, DropsAnswer, Answer, AnswerForms, server, history, counts
<1>3. CASE Lose(m)
  <2>0. /\ m.tab \in Tabs /\ Unlocked(m) /\ Spoilt
        /\ UNCHANGED <<rows, signIns>> /\ UNCHANGED cookie
    BY <1>0, <1>3 DEF Lose, Spoilt, server
  <2>1. CASE m.kind = "refresh"
    <3>1. RefreshFails(m.tab, net \ {m}, TRUE) /\ NoAnswer(m)
      BY <1>3, <2>0, <2>1, Zenon DEF Lose, NoAnswer
    <3>2. \E v \in TabState : TakesNone(m, v) \/ SaysExpired(m, v)
      BY <2>0, <2>1, <3>1, FailingForms DEF Spoilt
    <3> QED BY <3>2, Zenon DEF AnswerForms
  <2>2. CASE m.kind # "refresh"
    <3>1. /\ net' = net \ {m}
          /\ tab' = [tab EXCEPT ![m.tab].initial = IF m.kind = "forget" THEN "done" ELSE @]
          /\ UNCHANGED <<inbox, remember, surprised>>
      BY <1>3, <2>2 DEF Lose
    <3>2. UNCHANGED lock
      BY <2>0, <2>2 DEF Unlocked
    <3>3. \E v \in TabState : TakesNews(m, v)
      BY <2>0, <2>2, <3>1, <3>2, NewsForm, Zenon
    <3> QED BY <3>3, Zenon DEF AnswerForms
  <2> QED BY <2>1, <2>2
<1> QED BY <1>1, <1>2, <1>3

\* Every step has one of the forms.
LEMMA FormsHold == Shape /\ [Next]_vars => Forms
<1> SUFFICES ASSUME Shape, [Next]_vars PROVE Forms
  OBVIOUS
<1>1. CASE \E t \in Tabs :
             \/ OpenTab(t) \/ Mount(t)
             \/ \E reload \in BOOLEAN : Leave(t, reload)
             \/ \E keep \in {"true", "false"} : SignIn(t, keep)
             \/ SignOut(t) \/ Unauthorized(t) \/ Acquire(t) \/ Receive(t)
  BY <1>1, UserFormsHold, Zenon DEF Forms
<1>2. CASE Expire
  <2>1. Expires
    <3>1. tab' = [t \in Tabs |-> IF tab[t].access = "good"
                                  THEN [tab[t] EXCEPT !.access = "old"] ELSE tab[t]]
      BY <1>2, Zenon DEF Expire
    <3>2. ASSUME NEW t \in Tabs
          PROVE  /\ tab'[t] \in TabState
                 /\ tab'[t].at = tab[t].at /\ tab'[t].initial = tab[t].initial
                 /\ tab'[t].live = tab[t].live
                 /\ tab'[t].refresh = tab[t].refresh /\ tab'[t].call = tab[t].call
                 /\ tab'[t].access = IF tab[t].access = "good" THEN "old" ELSE tab[t].access
      <4>1. PICK v : v = [tab[t] EXCEPT !.access = "old"]
        OBVIOUS
      <4>2. tab[t] \in TabState
        BY DEF Shape
      <4>3. /\ v \in TabState /\ v.at = tab[t].at /\ v.initial = tab[t].initial
            /\ v.live = tab[t].live /\ v.refresh = tab[t].refresh /\ v.call = tab[t].call
            /\ v.access = "old"
        BY <4>1, <4>2 DEF TabState
      <4>4. tab'[t] = IF tab[t].access = "good" THEN v ELSE tab[t]
        BY <3>1, <4>1, Zenon
      <4> QED BY <4>2, <4>3, <4>4
    <3>3. tab' \in [Tabs -> TabState]
      BY <3>1, <3>2
    <3> QED BY <1>2, <3>2, <3>3, Zenon DEF Expire, Expires, server, history
  <2> QED BY <2>1, Zenon DEF Forms
<1>3. CASE Serve \/ \E m \in net : DatabaseFails(m)
  BY <1>3, ServerFormsHold, Zenon DEF Forms
<1>4. CASE \E m \in net : Deliver(m) \/ DeliverLeft(m) \/ Lose(m)
  BY <1>4, AnswerFormsHold, Zenon DEF Forms
<1>5. CASE UNCHANGED vars
  <2>1. Rests
    BY <1>5, Zenon DEF vars, server, browser, counts, history, Rests
  <2> QED BY <2>1, Zenon DEF Forms
<1> QED BY <1>1, <1>2, <1>3, <1>4, <1>5, Zenon DEF Next

LEMMA MovesIs ==
  ASSUME Shape, NEW t \in Tabs, NEW v, Moves(t, v)
  PROVE  /\ tab' \in [Tabs -> TabState]
         /\ \A u \in Tabs : tab'[u] = IF u = t THEN v ELSE tab[u]
  BY DEF Shape, Moves

LEMMA PostIs ==
  ASSUME Shape, NEW t, NEW what \in Said, Post(t, what)
  PROVE  /\ inbox' \in [Tabs -> Seq(Said)]
         /\ \A u \in Tabs : inbox'[u] = IF u # t /\ tab[u].at = "on"
                                          THEN Append(inbox[u], what) ELSE inbox[u]
<1>1. inbox' = [u \in Tabs |-> IF u # t /\ tab[u].at = "on" THEN Append(inbox[u], what)
                                                            ELSE inbox[u]]
  BY Zenon DEF Post
<1>2. \A u \in Tabs : inbox[u] \in Seq(Said) /\ Append(inbox[u], what) \in Seq(Said)
  BY DEF Shape
<1> QED BY <1>1, <1>2

-----------------------------------------------------------------------------
(* What holds of the tables, the requests and the tabs.                    *)

LEMMA ShapeStep == ASSUME Shape, Forms PROVE Shape'
<1>0. \A m \in net : m \in Message /\ m.cookie \in Token /\ m.remember \in {"none", "true", "false"}
  BY DEF Shape, Message
<1>1. CASE UserForms
  <2>1. PICK t \in Tabs, v \in TabState :
          \/ Opens(t, v) \/ Forgets(t, v) \/ Mounts(t, v) \/ Leaves(t, v) \/ SignsOut(t, v)
          \/ Waits(t, v) \/ Acquires(t, v) \/ Hears(t, v)
          \/ \E keep \in {"true", "false"} : SignsIn(t, keep)
    BY <1>1, Zenon DEF UserForms
  <2>2. Moves(t, v) => tab' \in [Tabs -> TabState]
    BY MovesIs
  <2>3. CASE Opens(t, v) \/ Mounts(t, v) \/ Waits(t, v)
    BY <2>2, <2>3 DEF Shape, Opens, Mounts, Waits
  <2>4. CASE Forgets(t, v)
    BY <2>2, <2>4, RequestIs DEF Shape, Forgets
  <2>5. CASE Leaves(t, v)
    <3>1. net' \subseteq Message
      BY <1>0, <2>5, OrphanedIs DEF Leaves
    <3>2. inbox' \in [Tabs -> Seq(Said)]
      BY <2>5 DEF Leaves, Shape
    <3>3. upset' \in BOOLEAN /\ left' \in BOOLEAN /\ out' \in Nat
      BY <2>5 DEF Leaves, Shape
    <3> QED BY <2>2, <2>5, <3>1, <3>2, <3>3 DEF Shape, Leaves
  <2>6. CASE SignsOut(t, v)
    <3>1. out' \in Nat
      BY <2>6 DEF SignsOut, Shape, Token
    <3> QED BY <2>2, <2>6, <3>1, PostIs, RequestIs DEF Shape, SignsOut, Said
  <2>7. CASE Acquires(t, v)
    BY <2>2, <2>7, RequestIs DEF Shape, Acquires
  <2>8. CASE Hears(t, v)
    <3>1. inbox[t] \in Seq(Said) /\ inbox[t] # << >>
      BY <2>8 DEF Hears, Shape
    <3>2. Tail(inbox[t]) \in Seq(Said)
      BY <3>1
    <3>3. inbox' \in [Tabs -> Seq(Said)]
      BY <2>8, <3>2 DEF Hears, Shape
    <3> QED BY <2>2, <2>8, <3>3 DEF Shape, Hears
  <2>9. CASE \E keep \in {"true", "false"} : SignsIn(t, keep)
    BY <2>9, RequestIs DEF Shape, SignsIn
  <2> QED BY <2>1, <2>3, <2>4, <2>5, <2>6, <2>7, <2>8, <2>9
<1>2. CASE ServerForms
  <2>1. PICK m \in net :
          RotatesToken(m) \/ RefusesToken(m) \/ DeletesToken(m) \/ LogsIn(m) \/ Breaks(m)
    BY <1>2, Zenon DEF ServerForms
  <2>2. ASSUME NEW token, Serves(m, token)
        PROVE  /\ net' \subseteq Message
               /\ UNCHANGED <<cookie, remember, tab, lock, inbox, surprised>>
    BY <1>0, <2>2, AnsweredIs DEF Serves, Shape
  <2>3. NoToken \in Token /\ Rotated(m.cookie) \in Token
    BY <1>0, TokenIs
  <2>4. CASE RotatesToken(m)
    BY <2>2, <2>3, <2>4 DEF RotatesToken, Rotates, Shape
  <2>5. CASE RefusesToken(m) \/ DeletesToken(m)
    BY <2>2, <2>5 DEF RefusesToken, DeletesToken, Shape
  <2>6. CASE LogsIn(m)
    <3>1. signIns + 1 \in Nat /\ <<signIns + 1, 1>> \in Token
      BY DEF Shape, Token
    <3> QED BY <2>2, <2>6, <3>1 DEF LogsIn, Shape
  <2>7. CASE Breaks(m)
    BY <2>2, <2>3, <2>7 DEF Breaks, Rotates, Spoilt, Shape
  <2> QED BY <2>1, <2>4, <2>5, <2>6, <2>7
<1>3. CASE AnswerForms
  <2>1. PICK m \in net :
          \/ DropsAnswer(m)
          \/ \E v \in TabState : \/ TakesLogin(m, v) \/ TakesToken(m, v) \/ TakesNone(m, v)
                                 \/ SaysExpired(m, v) \/ TakesNews(m, v)
    BY <1>3, Zenon DEF AnswerForms
  <2>2. CASE DropsAnswer(m)
    BY <1>0, <2>2 DEF DropsAnswer, Answer, Shape
  <2>3. ASSUME NEW v \in TabState,
               \/ TakesLogin(m, v) \/ TakesToken(m, v) \/ TakesNone(m, v)
               \/ SaysExpired(m, v) \/ TakesNews(m, v)
        PROVE  Shape'
    <3>1. Takes(m, v)
      BY <2>3, Zenon DEF TakesLogin, TakesToken, TakesNone, SaysExpired, TakesNews
    <3>2. tab' \in [Tabs -> TabState] /\ m.tab \in Tabs /\ UNCHANGED <<rows, signIns>>
      BY <3>1, MovesIs DEF Takes
    <3>3. NoAnswer(m) => cookie' \in Token /\ upset' \in BOOLEAN /\ out' \in Nat /\ left' \in BOOLEAN
      <4>1. ASSUME NoAnswer(m) PROVE cookie' \in Token
        BY <1>0, <4>1 DEF NoAnswer, Answer, Shape
      <4>2. ASSUME NoAnswer(m) PROVE out' \in Nat
        BY <4>2 DEF NoAnswer, Spoilt, Shape
      <4>3. ASSUME NoAnswer(m) PROVE upset' \in BOOLEAN /\ left' \in BOOLEAN
        BY <4>3, Zenon DEF NoAnswer, Spoilt, Shape
      <4> QED BY <4>1, <4>2, <4>3
    <3>4. CASE TakesLogin(m, v)
      BY <1>0, <3>2, <3>4, PostIs DEF TakesLogin, Answer, Shape, Said
    <3>5. CASE TakesToken(m, v)
      BY <1>0, <3>2, <3>5, PostIs DEF TakesToken, Answer, Shape, Said
    <3>6. CASE TakesNone(m, v)
      BY <3>2, <3>3, <3>6 DEF TakesNone, Shape
    <3>7. CASE SaysExpired(m, v)
      <4>1. net' \subseteq Message
        BY <3>2, <3>7, RequestIs DEF SaysExpired, Shape
      <4>2. inbox' \in [Tabs -> Seq(Said)]
        BY <3>7, PostIs DEF SaysExpired, Said
      <4>3. surprised' \in BOOLEAN
        BY <3>7, Zenon DEF SaysExpired, Shape
      <4> QED BY <3>2, <3>3, <3>7, <4>1, <4>2, <4>3 DEF SaysExpired, Shape
    <3>8. CASE TakesNews(m, v)
      <4>1. cookie' \in Token /\ out' \in Nat
        BY <1>0, <3>8 DEF TakesNews, Answer, Spoilt, Shape
      <4>2. upset' \in BOOLEAN /\ left' \in BOOLEAN
        BY <3>8, Zenon DEF TakesNews, Spoilt, Shape
      <4> QED BY <3>2, <3>8, <4>1, <4>2 DEF TakesNews, Shape
    <3> QED BY <2>3, <3>4, <3>5, <3>6, <3>7, <3>8
  <2> QED BY <2>1, <2>2, <2>3
<1>4. CASE Expires
  BY <1>4 DEF Expires, Shape
<1>5. CASE Rests
  BY <1>5 DEF Rests, Shape
<1> QED BY <1>1, <1>2, <1>3, <1>4, <1>5 DEF Forms

\* The tables stay, what is new among the requests carries the cookie, and the
\* cookie is set only by an answer that is gone then.
Carried ==
  /\ UNCHANGED <<rows, signIns>>
  /\ \A n \in net' : n \in net \/ (n.way = "to" /\ n.cookie = cookie)
  /\ cookie' = cookie \/ \E m \in net \ net' : cookie' = m.cookie

LEMMA FormsCarry ==
  ASSUME Shape, Forms
  PROVE  Carried \/ (\E t \in Tabs, v \in TabState : Leaves(t, v)) \/ ServerForms
<1>1. CASE UserForms
  <2>1. PICK t \in Tabs, v \in TabState :
          \/ Opens(t, v) \/ Forgets(t, v) \/ Mounts(t, v) \/ Leaves(t, v) \/ SignsOut(t, v)
          \/ Waits(t, v) \/ Acquires(t, v) \/ Hears(t, v)
          \/ \E keep \in {"true", "false"} : SignsIn(t, keep)
    BY <1>1, Zenon DEF UserForms
  <2>2. CASE Opens(t, v) \/ Mounts(t, v) \/ Waits(t, v) \/ Hears(t, v)
    BY <2>2 DEF Opens, Mounts, Waits, Hears, Carried
  <2>3. CASE Forgets(t, v) \/ SignsOut(t, v) \/ Acquires(t, v)
    BY <2>3, RequestIs DEF Forgets, SignsOut, Acquires, Carried
  <2>4. CASE \E keep \in {"true", "false"} : SignsIn(t, keep)
    BY <2>4, RequestIs DEF SignsIn, Carried
  <2> QED BY <2>1, <2>2, <2>3, <2>4
<1>2. CASE AnswerForms
  <2>1. PICK m \in net :
          \/ DropsAnswer(m)
          \/ \E v \in TabState : \/ TakesLogin(m, v) \/ TakesToken(m, v) \/ TakesNone(m, v)
                                 \/ SaysExpired(m, v) \/ TakesNews(m, v)
    BY <1>2, Zenon DEF AnswerForms
  <2>2. CASE DropsAnswer(m)
    BY <2>2 DEF DropsAnswer, Answer, Carried
  <2>3. ASSUME NEW v \in TabState,
               TakesLogin(m, v) \/ TakesToken(m, v) \/ TakesNone(m, v) \/ TakesNews(m, v)
        PROVE  Carried
    <3>1. net' = net \ {m} /\ UNCHANGED <<rows, signIns>>
      BY <2>3, Zenon DEF TakesLogin, TakesToken, TakesNone, TakesNews, Takes
    <3>2. cookie' = cookie \/ cookie' = m.cookie
      BY <2>3, Zenon DEF TakesLogin, TakesToken, TakesNone, TakesNews, NoAnswer, Answer
    <3> QED BY <3>1, <3>2 DEF Carried
  <2>4. ASSUME NEW v \in TabState, SaysExpired(m, v) PROVE Carried
    <3>1. /\ net' = (net \ {m}) \cup {Request(m.tab, "logout", "none")}
          /\ m.tab \in Tabs /\ UNCHANGED <<rows, signIns>>
          /\ cookie' = cookie \/ (m.way = "back" /\ cookie' = m.cookie)
      BY <2>4, Zenon DEF SaysExpired, Takes, NoAnswer, Answer
    <3>2. /\ Request(m.tab, "logout", "none").way = "to"
          /\ Request(m.tab, "logout", "none").cookie = cookie
      BY <3>1, RequestIs
    <3> QED BY <3>1, <3>2 DEF Carried
  <2> QED BY <2>1, <2>2, <2>3, <2>4
<1>3. CASE Expires \/ Rests
  BY <1>3, Zenon DEF Expires, Rests, Carried
<1> QED BY <1>1, <1>2, <1>3 DEF Forms

LEMMA TokensStep == ASSUME Shape, Tokens, Forms PROVE Tokens'
<1>0. \A m \in net : m \in Message /\ m.cookie \in Token /\ m.tab \in Tabs \cup {Nobody}
  BY DEF Shape, Message
<1>1. CASE Carried
  <2>1. Issued' /\ OneRow'
    BY <1>0, <1>1 DEF Carried, Tokens, Issued, OneRow
  <2>2. ASSUME NEW m \in net', m.kind = "login", m.way = "back" PROVE Unused(m)'
    <3>1. m \in net /\ Unused(m)
      BY <1>1, <2>2 DEF Carried, Tokens, LoginsBring
    <3>2. m.cookie # cookie'
      BY <1>1, <2>2, <3>1 DEF Carried, Unused
    <3>3. ASSUME NEW n \in net', n.cookie = m.cookie PROVE n = m
      BY <1>1, <3>1, <3>3 DEF Carried, Unused
    <3> QED BY <1>1, <3>1, <3>2, <3>3 DEF Carried, Unused
  <2> QED BY <2>1, <2>2 DEF Tokens, LoginsBring
<1>2. CASE \E t \in Tabs, v \in TabState : Leaves(t, v)
  <2>1. PICK t \in Tabs, v \in TabState : Leaves(t, v)
    BY <1>2
  <2>2. UNCHANGED <<rows, signIns, cookie>> /\ net' = {Orphaned(m, t) : m \in net}
    BY <2>1 DEF Leaves
  <2>3. \A m \in net : /\ Orphaned(m, t).cookie = m.cookie
                       /\ Orphaned(m, t).kind = m.kind /\ Orphaned(m, t).way = m.way
    BY <1>0, OrphanedIs
  <2>4. Issued' /\ OneRow'
    BY <2>2, <2>3 DEF Tokens, Issued, OneRow
  <2>5. ASSUME NEW m \in net', m.kind = "login", m.way = "back" PROVE Unused(m)'
    <3>1. PICK mine \in net : m = Orphaned(mine, t)
      BY <2>2
    <3>2. Unused(mine) /\ m.cookie = mine.cookie
      BY <2>3, <2>5, <3>1 DEF Tokens, LoginsBring
    <3>3. ASSUME NEW n \in net', n.cookie = m.cookie PROVE n = m
      <4>1. PICK other \in net : n = Orphaned(other, t)
        BY <2>2
      <4>2. other = mine
        BY <2>3, <3>2, <3>3, <4>1 DEF Unused
      <4> QED BY <3>1, <4>1, <4>2
    <3> QED BY <2>2, <3>2, <3>3 DEF Unused
  <2> QED BY <2>4, <2>5 DEF Tokens, LoginsBring
<1>3. CASE ServerForms
  <2>1. PICK m \in net :
          RotatesToken(m) \/ RefusesToken(m) \/ DeletesToken(m) \/ LogsIn(m) \/ Breaks(m)
    BY <1>3, Zenon DEF ServerForms
  <2>2. NoToken \in Token /\ NoToken[1] = 0 /\ NoToken[2] = 0 /\ signIns \in Nat
    BY TokenIs DEF Shape
  <2>3. /\ Rotated(m.cookie) \in Token /\ m.cookie \in Token
        /\ Rotated(m.cookie)[1] = m.cookie[1] /\ Rotated(m.cookie)[2] = m.cookie[2] + 1
    BY <1>0, TokenIs
  \* A token that is drawn now, or none, is no answer to a sign-in.
  <2>4. ASSUME NEW token, Serves(m, token), m.kind # "login", UNCHANGED signIns,
               rows' \subseteq rows \cup {token}, rows \subseteq rows' \cup {m.cookie},
               token = NoToken \/ (token = Rotated(m.cookie) /\ m.cookie \in rows)
        PROVE  LoginsBring'
    <3>1. /\ net' = (net \ {m}) \cup {Answered(m, token)} /\ cookie' = cookie
          /\ Answered(m, token).kind = m.kind /\ Answered(m, token).cookie = token
      BY <1>0, <2>4, AnsweredIs DEF Serves
    <3>2. token[2] # 1
      <4>1. m.cookie \in rows => m.cookie[2] \in Nat \ {0}
        BY <2>3 DEF Tokens, Issued, Token
      <4> QED BY <2>2, <2>3, <2>4, <4>1
    <3>3. ASSUME NEW n \in net', n.kind = "login", n.way = "back" PROVE Unused(n)'
      <4>1. n \in net /\ n # m /\ Unused(n)
        BY <2>4, <3>1, <3>3 DEF Tokens, LoginsBring
      <4>2. n.cookie # m.cookie
        BY <4>1 DEF Unused
      <4>3. n.cookie \in rows'
        BY <2>4, <4>1, <4>2 DEF Unused
      <4>4. ASSUME NEW x \in net', x.cookie = n.cookie PROVE x = n
        BY <3>1, <3>2, <4>1, <4>4 DEF Unused
      <4> QED BY <3>1, <4>1, <4>3, <4>4 DEF Unused
    <3> QED BY <3>3 DEF LoginsBring
  <2>5. ASSUME NEW token, Serves(m, token) PROVE
          /\ UNCHANGED cookie
          /\ \A n \in net' : n \in net \/ n.cookie = token
    BY <1>0, <2>5, AnsweredIs DEF Serves
  <2>6. ASSUME Rotates(m), UNCHANGED signIns,
               Serves(m, Rotated(m.cookie)) \/ Serves(m, NoToken)
        PROVE  Issued' /\ OneRow'
    <3>1. m.cookie \in rows /\ rows' = (rows \ {m.cookie}) \cup {Rotated(m.cookie)}
      BY <2>6 DEF Rotates
    <3>2. Issued'
      <4>1. m.cookie[1] \in 1..signIns /\ m.cookie[2] \in Nat \ {0}
        BY <2>3, <3>1 DEF Tokens, Issued, Token
      <4>2. \A token \in rows' : token[1] \in 1..signIns /\ token[2] > 0
        BY <2>3, <3>1, <4>1 DEF Tokens, Issued
      <4>3. UNCHANGED cookie /\ \A n \in net' : n.cookie[1] <= signIns
        BY <2>2, <2>3, <2>5, <2>6, <4>1 DEF Tokens, Issued
      <4> QED BY <2>6, <4>2, <4>3 DEF Tokens, Issued
    <3>3. OneRow'
      BY <2>3, <3>1 DEF Tokens, OneRow
    <3> QED BY <3>2, <3>3
  <2>7. ASSUME rows' \subseteq rows, UNCHANGED signIns, Serves(m, NoToken)
        PROVE  Issued' /\ OneRow'
    BY <2>2, <2>5, <2>7 DEF Tokens, Issued, OneRow
  <2>8. CASE RotatesToken(m)
    <3>1. Rotates(m) /\ Serves(m, Rotated(m.cookie)) /\ UNCHANGED signIns
      BY <2>8 DEF RotatesToken
    <3>2. LoginsBring'
      BY <2>4, <3>1 DEF Rotates
    <3> QED BY <2>6, <3>1, <3>2 DEF Tokens
  <2>9. CASE RefusesToken(m) \/ DeletesToken(m)
    <3>1. /\ Serves(m, NoToken) /\ UNCHANGED signIns /\ m.kind # "login"
          /\ rows' \subseteq rows /\ rows \subseteq rows' \cup {m.cookie}
      BY <2>9 DEF RefusesToken, DeletesToken
    <3>2. LoginsBring'
      BY <2>4, <3>1
    <3> QED BY <2>7, <3>1, <3>2 DEF Tokens
  <2>10. CASE Breaks(m)
    <3>1. /\ Serves(m, NoToken) /\ UNCHANGED signIns /\ m.kind # "login"
          /\ UNCHANGED rows \/ Rotates(m)
      BY <2>10 DEF Breaks
    <3>2. LoginsBring'
      <4>1. CASE UNCHANGED rows
        BY <2>4, <3>1, <4>1
      <4>2. CASE Rotates(m)
        <5>1. /\ net' = (net \ {m}) \cup {Answered(m, NoToken)} /\ cookie' = cookie
              /\ Answered(m, NoToken).kind = m.kind /\ Answered(m, NoToken).cookie = NoToken
          BY <1>0, <2>2, <3>1, AnsweredIs DEF Serves
        <5>2. ASSUME NEW n \in net', n.kind = "login", n.way = "back" PROVE Unused(n)'
          <6>1. n \in net /\ n # m /\ Unused(n)
            BY <3>1, <5>1, <5>2 DEF Tokens, LoginsBring
          <6>2. n.cookie \in rows'
            BY <4>2, <6>1 DEF Unused, Rotates
          <6>3. ASSUME NEW x \in net', x.cookie = n.cookie PROVE x = n
            BY <2>2, <5>1, <6>1, <6>3 DEF Unused
          <6> QED BY <5>1, <6>1, <6>2, <6>3 DEF Unused
        <5> QED BY <5>2 DEF LoginsBring
      <4> QED BY <3>1, <4>1, <4>2
    <3> QED BY <2>6, <2>7, <3>1, <3>2 DEF Tokens
  <2>11. CASE LogsIn(m)
    <3>1. PICK token : token = <<signIns + 1, 1>>
      OBVIOUS
    <3>2. token \in Token /\ token[1] = signIns + 1 /\ token[2] = 1
      BY <2>2, <3>1 DEF Token
    <3>3. /\ m.kind = "login" /\ Serves(m, token) /\ signIns' = signIns + 1
          /\ rows' = rows \cup {token}
      BY <2>11, <3>1 DEF LogsIn
    <3>4. /\ net' = (net \ {m}) \cup {Answered(m, token)} /\ cookie' = cookie
          /\ Answered(m, token).cookie = token
      BY <1>0, <3>2, <3>3, AnsweredIs DEF Serves
    <3>5. cookie \in Token /\ rows \subseteq Token
      BY DEF Shape
    <3>6. Issued'
      BY <1>0, <2>2, <3>2, <3>3, <3>4, <3>5 DEF Tokens, Issued, Token
    <3>7. OneRow'
      BY <2>2, <3>2, <3>3, <3>5 DEF Tokens, Issued, OneRow
    <3>8. token # cookie /\ token \notin rows /\ \A n \in net : n.cookie # token
      BY <1>0, <2>2, <3>2, <3>5 DEF Tokens, Issued, Token
    <3>9. ASSUME NEW n \in net', n.kind = "login", n.way = "back" PROVE Unused(n)'
      <4>1. CASE n = Answered(m, token)
        BY <3>2, <3>3, <3>4, <3>8, <4>1 DEF Unused
      <4>2. CASE n # Answered(m, token)
        <5>1. n \in net /\ Unused(n)
          BY <3>4, <3>9, <4>2 DEF Tokens, LoginsBring
        <5> QED BY <3>3, <3>4, <3>8, <5>1 DEF Unused
      <4> QED BY <4>1, <4>2
    <3> QED BY <3>6, <3>7, <3>9 DEF Tokens, LoginsBring
  <2> QED BY <2>1, <2>8, <2>9, <2>10, <2>11
<1> QED BY <1>1, <1>2, <1>3, FormsCarry

LEMMA LockedStep == ASSUME Shape, Locked, Forms PROVE Locked'
<1>0. \A m \in net : m \in Message /\ m.cookie \in Token /\ m.tab \in Tabs \cup {Nobody}
  BY DEF Shape, Message
<1>1. CASE UserForms
  <2>1. PICK t \in Tabs, v \in TabState :
          \/ Opens(t, v) \/ Forgets(t, v) \/ Mounts(t, v) \/ Leaves(t, v) \/ SignsOut(t, v)
          \/ Waits(t, v) \/ Acquires(t, v) \/ Hears(t, v)
          \/ \E keep \in {"true", "false"} : SignsIn(t, keep)
    BY <1>1, Zenon DEF UserForms
  <2>2. CASE Opens(t, v) \/ Mounts(t, v) \/ Waits(t, v) \/ Hears(t, v)
    BY <2>2 DEF Opens, Mounts, Waits, Hears, Locked
  <2>3. CASE Forgets(t, v) \/ SignsOut(t, v) \/ \E keep \in {"true", "false"} : SignsIn(t, keep)
    <3>1. PICK r : UNCHANGED lock /\ net' = net \cup {r} /\ ~IsRefresh(r)
      BY <2>3, RequestIs DEF Forgets, SignsOut, SignsIn, IsRefresh
    <3> QED BY <3>1 DEF Locked
  <2>4. CASE Acquires(t, v)
    <3>1. PICK r : net' = net \cup {r} /\ r.tab = t /\ lock = Nobody /\ lock' = t
      BY <2>4, RequestIs DEF Acquires
    <3>2. \A m \in net : IsRefresh(m) => m.tab = Nobody
      BY <3>1 DEF Locked
    <3> QED BY <3>1, <3>2 DEF Locked
  <2>5. CASE Leaves(t, v)
    <3>1. /\ net' = {Orphaned(m, t) : m \in net}
          /\ lock' = IF lock = t THEN Nobody ELSE lock
      BY <2>5 DEF Leaves
    <3>2. ASSUME NEW m \in net', m.tab # Nobody PROVE m \in net /\ m.tab # t
      BY <1>0, <3>1, <3>2, OrphanedIs, NobodyAssumption
    <3> QED BY <3>1, <3>2 DEF Locked
  <2> QED BY <2>1, <2>2, <2>3, <2>4, <2>5
<1>2. CASE ServerForms
  <2>0. PICK m \in net : \E token : Serves(m, token)
    BY <1>2, Zenon DEF ServerForms, RotatesToken, RefusesToken, DeletesToken, LogsIn, Breaks
  <2>1. PICK token : Serves(m, token)
    BY <2>0
  <2>2. PICK answer : answer = Answered(m, token)
    OBVIOUS
  <2>3. /\ net' = (net \ {m}) \cup {answer} /\ UNCHANGED lock
        /\ answer.tab = m.tab /\ answer.kind = m.kind
    BY <1>0, <2>1, <2>2, AnsweredIs DEF Serves
  <2> QED BY <2>3 DEF Locked, IsRefresh
<1>3. CASE AnswerForms
  <2>1. PICK m \in net :
          \/ DropsAnswer(m)
          \/ \E v \in TabState : \/ TakesLogin(m, v) \/ TakesToken(m, v) \/ TakesNone(m, v)
                                 \/ SaysExpired(m, v) \/ TakesNews(m, v)
    BY <1>3, Zenon DEF AnswerForms
  <2>2. CASE DropsAnswer(m) \/ \E v \in TabState : TakesLogin(m, v) \/ TakesNews(m, v)
    <3>1. net' \subseteq net /\ UNCHANGED lock
      BY <2>2 DEF DropsAnswer, TakesLogin, TakesNews
    <3> QED BY <3>1 DEF Locked
  <2>3. CASE \E v \in TabState : TakesToken(m, v) \/ TakesNone(m, v) \/ SaysExpired(m, v)
    <3>1. m.tab \in Tabs /\ IsRefresh(m)
      BY <2>3 DEF TakesToken, TakesNone, SaysExpired, Takes, IsRefresh
    <3>2. PICK r : net' \subseteq (net \ {m}) \cup {r} /\ ~IsRefresh(r)
      <4>1. ~IsRefresh(Request(m.tab, "logout", "none"))
        BY <3>1, RequestIs DEF IsRefresh
      <4> QED BY <2>3, <4>1, Zenon DEF TakesToken, TakesNone, SaysExpired
    <3>3. \A n \in net \ {m} : IsRefresh(n) => n.tab = Nobody
      BY <3>1, NobodyAssumption DEF Locked
    <3> QED BY <3>2, <3>3 DEF Locked
  <2> QED BY <2>1, <2>2, <2>3
<1>4. CASE Expires \/ Rests
  BY <1>4 DEF Expires, Rests, Locked
<1> QED BY <1>1, <1>2, <1>3, <1>4 DEF Forms

\* A tab that is not there stays as it is until it opens.
LEMMA TabsStep ==
  ASSUME Shape, Present, \A t \in Tabs : Absent(t), Forms
  PROVE  Present' /\ \A t \in Tabs : Absent(t)'
<1>0. \A m \in net : m \in Message /\ m.tab \in Tabs \cup {Nobody}
  BY DEF Shape, Message
<1>00. \A t \in Tabs : tab[t] \in TabState
  BY DEF Shape
<1>1. CASE UserForms
  <2>1. PICK t \in Tabs, v \in TabState :
          \/ Opens(t, v) \/ Forgets(t, v) \/ Mounts(t, v) \/ Leaves(t, v) \/ SignsOut(t, v)
          \/ Waits(t, v) \/ Acquires(t, v) \/ Hears(t, v)
          \/ \E keep \in {"true", "false"} : SignsIn(t, keep)
    BY <1>1, Zenon DEF UserForms
  <2>2. Moves(t, v) => \A u \in Tabs : tab'[u] = IF u = t THEN v ELSE tab[u]
    BY MovesIs
  <2>3. CASE Opens(t, v) \/ Mounts(t, v) \/ Waits(t, v)
    <3>1. UNCHANGED <<inbox, net>> /\ Moves(t, v) /\ v.at \in {"boot", "on"}
      BY <2>3 DEF Opens, Mounts, Waits
    <3> QED BY <1>0, <2>2, <3>1 DEF Present, Absent
  <2>4. CASE Forgets(t, v) \/ Acquires(t, v)
    <3>1. Moves(t, v) /\ v.at \in {"boot", "on"} /\ UNCHANGED inbox
      BY <1>00, <2>4 DEF Forgets, Acquires, Absent, TabState
    <3>2. PICK r : net' = net \cup {r} /\ r.tab = t
      BY <2>4, RequestIs DEF Forgets, Acquires
    <3> QED BY <1>0, <2>2, <3>1, <3>2 DEF Present, Absent
  <2>5. CASE Leaves(t, v)
    <3>1. Moves(t, v) /\ inbox' = [inbox EXCEPT ![t] = << >>] /\ net' = {Orphaned(m, t) : m \in net}
      BY <2>5 DEF Leaves
    <3>2. ASSUME NEW m \in net', m.tab # Nobody PROVE m \in net /\ m.tab # t
      BY <1>0, <3>1, <3>2, OrphanedIs, NobodyAssumption
    <3>3. Present'
      BY <1>0, <2>2, <3>1, <3>2 DEF Present
    <3>4. \A u \in Tabs : inbox'[u] = IF u = t THEN << >> ELSE inbox[u]
      BY <3>1 DEF Shape
    <3>5. \A u \in Tabs : Absent(u)'
      BY <2>2, <2>5, <3>1, <3>4 DEF Absent, Leaves
    <3> QED BY <3>3, <3>5
  <2>6. CASE SignsOut(t, v)
    <3>1. Moves(t, v) /\ v.at = "on" /\ tab[t].at = "on"
      BY <2>6 DEF SignsOut
    <3>2. PICK r : net' = net \cup {r} /\ r.tab = t
      BY <2>6, RequestIs DEF SignsOut
    <3>3. \A u \in Tabs : tab[u].at # "on" => inbox'[u] = inbox[u]
      BY <2>6, PostIs DEF SignsOut, Said
    <3> QED BY <1>0, <2>2, <3>1, <3>2, <3>3 DEF Present, Absent
  <2>7. CASE Hears(t, v)
    <3>1. /\ Moves(t, v) /\ v.at = tab[t].at /\ UNCHANGED net
          /\ inbox[t] # << >> /\ inbox' = [inbox EXCEPT ![t] = Tail(inbox[t])]
      BY <2>7 DEF Hears
    <3>2. tab[t].at \notin {"closed", "reloading"}
      BY <3>1 DEF Absent
    <3>3. \A u \in Tabs : u # t => inbox'[u] = inbox[u]
      BY <3>1 DEF Shape
    <3> QED BY <1>0, <2>2, <3>1, <3>2, <3>3 DEF Present, Absent
  <2>8. CASE \E keep \in {"true", "false"} : SignsIn(t, keep)
    <3>1. PICK r : net' = net \cup {r} /\ r.tab = t /\ tab[t].at = "on" /\ UNCHANGED <<tab, inbox>>
      BY <2>8, RequestIs DEF SignsIn
    <3> QED BY <3>1 DEF Present, Absent
  <2> QED BY <2>1, <2>3, <2>4, <2>5, <2>6, <2>7, <2>8
<1>2. CASE ServerForms
  <2>0. PICK m \in net : \E token : Serves(m, token)
    BY <1>2, Zenon DEF ServerForms, RotatesToken, RefusesToken, DeletesToken, LogsIn, Breaks
  <2>1. PICK token : Serves(m, token)
    BY <2>0
  <2>2. PICK answer : answer = Answered(m, token)
    OBVIOUS
  <2>3. net' = (net \ {m}) \cup {answer} /\ UNCHANGED <<tab, inbox>> /\ answer.tab = m.tab
    BY <1>0, <2>1, <2>2, AnsweredIs DEF Serves
  <2> QED BY <2>3 DEF Present, Absent
<1>3. CASE AnswerForms
  <2>1. PICK m \in net :
          \/ DropsAnswer(m)
          \/ \E v \in TabState : \/ TakesLogin(m, v) \/ TakesToken(m, v) \/ TakesNone(m, v)
                                 \/ SaysExpired(m, v) \/ TakesNews(m, v)
    BY <1>3, Zenon DEF AnswerForms
  <2>2. CASE DropsAnswer(m)
    BY <2>2 DEF DropsAnswer, Present, Absent
  <2>3. ASSUME NEW v \in TabState,
               \/ TakesLogin(m, v) \/ TakesToken(m, v) \/ TakesNone(m, v)
               \/ SaysExpired(m, v) \/ TakesNews(m, v)
        PROVE  Present' /\ \A t \in Tabs : Absent(t)'
    <3>1. Takes(m, v)
      BY <2>3, Zenon DEF TakesLogin, TakesToken, TakesNone, SaysExpired, TakesNews
    <3>2. /\ m.tab \in Tabs /\ v.at = tab[m.tab].at
          /\ \A u \in Tabs : tab'[u] = IF u = m.tab THEN v ELSE tab[u]
      BY <3>1, MovesIs DEF Takes
    <3>3. v.at \in {"boot", "on"}
      BY <3>2, NobodyAssumption DEF Present
    <3>4. \A n \in net' : n \in net \/ n.tab = m.tab
      <4>1. net' \subseteq net \cup {Request(m.tab, "logout", "none")}
        BY <2>3, Zenon DEF TakesLogin, TakesToken, TakesNone, SaysExpired, TakesNews
      <4> QED BY <3>2, <4>1, RequestIs
    <3>5. \A u \in Tabs : tab[u].at # "on" => inbox'[u] = inbox[u]
      <4>1. UNCHANGED inbox \/ Post(m.tab, "login") \/ Post(m.tab, "logout")
        BY <2>3, Zenon DEF TakesLogin, TakesToken, TakesNone, SaysExpired, TakesNews
      <4> QED BY <4>1, PostIs DEF Said
    <3>6. Present'
      BY <1>0, <3>2, <3>3, <3>4 DEF Present
    <3>7. \A u \in Tabs : Absent(u)'
      BY <3>2, <3>3, <3>5 DEF Absent
    <3> QED BY <3>6, <3>7
  <2> QED BY <2>1, <2>2, <2>3
<1>4. CASE Expires
  <2>1. UNCHANGED <<inbox, net>> /\ \A t \in Tabs :
          /\ tab'[t].at = tab[t].at /\ tab'[t].live = tab[t].live
          /\ tab'[t].refresh = tab[t].refresh /\ tab'[t].call = tab[t].call
          /\ tab[t].access = "none" => tab'[t].access = "none"
    BY <1>4 DEF Expires
  <2> QED BY <1>0, <2>1 DEF Present, Absent
<1>5. CASE Rests
  BY <1>5 DEF Rests, Present, Absent
<1> QED BY <1>1, <1>2, <1>3, <1>4, <1>5 DEF Forms

LEMMA BaseStep == Base /\ [Next]_vars => Base' /\ Forms
<1> SUFFICES ASSUME Base, [Next]_vars PROVE Base' /\ Forms
  OBVIOUS
<1>1. Forms
  BY FormsHold DEF Base
<1>2. Shape' /\ Tokens' /\ Locked' /\ Present' /\ \A t \in Tabs : Absent(t)'
  BY <1>1, ShapeStep, TokensStep, LockedStep, TabsStep DEF Base
<1> QED BY <1>1, <1>2 DEF Base

LEMMA BaseInit == Init => Base
<1> SUFFICES ASSUME Init PROVE Base
  OBVIOUS
<1>1. tab = [t \in Tabs |-> Closed] /\ inbox = [t \in Tabs |-> << >>] /\ net = {} /\ rows = {}
  BY DEF Init
<1>2. Shape
  <2>1. tab \in [Tabs -> TabState] /\ inbox \in [Tabs -> Seq(Said)]
    BY <1>1, ClosedIs
  <2>2. surprised \in BOOLEAN /\ upset \in BOOLEAN /\ left \in BOOLEAN
    BY DEF Init
  <2> QED BY <1>1, <2>1, <2>2, TokenIs DEF Init, Shape
<1>3. Tokens /\ Locked /\ Present
  BY <1>1, TokenIs DEF Init, Tokens, Issued, OneRow, LoginsBring, Locked, Present
<1>4. \A t \in Tabs : Absent(t)
  BY <1>1, ClosedIs DEF Absent
<1> QED BY <1>2, <1>3, <1>4 DEF Base

-----------------------------------------------------------------------------
(* Who is told that the session expired.                                   *)

\* Nobody is signed in.
NoneIn ==
  /\ cookie = NoToken
  /\ \A m \in net : IsRefresh(m) => m.cookie = NoToken
  /\ \A t \in Tabs :
       /\ tab[t].access = "none" /\ tab[t].call = "none"
       /\ \A i \in 1..Len(inbox[t]) : inbox[t][i] = "logout"

\* The browser has the token of a session that lives, or is being given it.
OneIn ==
  /\ \A m \in net : IsRefresh(m) => m.cookie \in rows
  /\ (\A m \in net : ~IsRefresh(m)) => cookie \in rows

\* Unless something happened to the session, nobody is forgetting it.
Calm == \A m \in net : m.kind \in {"refresh", "login"} /\ m.tab # Nobody
Peace == ~upset => Calm /\ (NoneIn \/ OneIn)

TellInv == Base /\ ~surprised /\ Peace

LEMMA NoTokenIsNone == Base => NoToken \notin rows
  BY TokenIs DEF Base, Tokens, Issued

\* What a tab has heard, but for the first, was there before.
LEMMA HearsTail ==
  ASSUME Shape, NEW t \in Tabs, inbox[t] # << >>, inbox' = [inbox EXCEPT ![t] = Tail(inbox[t])]
  PROVE  /\ \A u \in Tabs : u # t => inbox'[u] = inbox[u]
         /\ inbox[t] \in Seq(Said) /\ Len(inbox[t]) \in Nat \ {0}
         /\ Head(inbox[t]) = inbox[t][1]
         /\ Len(inbox'[t]) = Len(inbox[t]) - 1
         /\ \A i \in 1..Len(inbox'[t]) : inbox'[t][i] = inbox[t][i + 1]
<1>1. inbox[t] \in Seq(Said) /\ inbox'[t] = Tail(inbox[t])
  BY DEF Shape
<1>2. \A u \in Tabs : u # t => inbox'[u] = inbox[u]
  BY DEF Shape
<1>3. PICK heard : heard = inbox[t]
  OBVIOUS
<1>4. heard \in Seq(Said) /\ heard # << >> /\ inbox'[t] = Tail(heard)
  BY <1>1, <1>3
<1>5. Len(heard) \in Nat \ {0} /\ Head(heard) = heard[1]
  BY <1>4
<1>6. Len(Tail(heard)) = Len(heard) - 1
  BY <1>4
<1>7. \A i \in 1..Len(Tail(heard)) : Tail(heard)[i] = heard[i + 1]
  BY <1>4
<1> QED BY <1>1, <1>2, <1>3, <1>4, <1>5, <1>6, <1>7

LEMMA UserPeace ==
  ASSUME Base, Peace, UserForms, ~upset'
  PROVE  Peace'
<1>0. /\ \A t \in Tabs : tab[t] \in TabState
      /\ \A m \in net : m \in Message /\ m.tab \in Tabs \cup {Nobody}
  BY DEF Base, Shape, Message
<1>1. PICK t \in Tabs, v \in TabState :
        \/ Opens(t, v) \/ Forgets(t, v) \/ Mounts(t, v) \/ Leaves(t, v) \/ SignsOut(t, v)
        \/ Waits(t, v) \/ Acquires(t, v) \/ Hears(t, v)
        \/ \E keep \in {"true", "false"} : SignsIn(t, keep)
  BY Zenon DEF UserForms
<1>2. ~Forgets(t, v) /\ ~SignsOut(t, v)
  BY DEF Forgets, SignsOut
<1>3. ~upset
  BY <1>1, <1>2, Zenon DEF Opens, Mounts, Leaves, Waits, Acquires, Hears, SignsIn
<1>4. Calm /\ (NoneIn \/ OneIn)
  BY <1>3 DEF Peace
<1>5. Moves(t, v) => \A u \in Tabs : tab'[u] = IF u = t THEN v ELSE tab[u]
  BY MovesIs DEF Base
<1>6. CASE Opens(t, v) \/ Mounts(t, v)
  <2>1. /\ UNCHANGED <<rows, cookie, net>> /\ UNCHANGED inbox /\ Moves(t, v)
        /\ v.access = tab[t].access /\ v.call = tab[t].call
    BY <1>6 DEF Opens, Mounts
  <2> QED BY <1>4, <1>5, <2>1 DEF Peace, Calm, NoneIn, OneIn
<1>7. CASE Waits(t, v)
  <2>1. ~NoneIn /\ UNCHANGED <<rows, cookie, net>>
    BY <1>7 DEF Waits, NoneIn
  <2> QED BY <1>4, <2>1 DEF Peace, Calm, OneIn
<1>8. CASE Leaves(t, v)
  <2>1. /\ UNCHANGED <<rows, cookie>> /\ Moves(t, v) /\ v.access = "none" /\ v.call = "none"
        /\ inbox' = [inbox EXCEPT ![t] = << >>] /\ net' = {Orphaned(m, t) : m \in net}
        /\ \A m \in net : m.tab # t
    BY <1>8 DEF Leaves
  <2>2. net' = net
    <3>1. \A m \in net : Orphaned(m, t) = m
      BY <1>0, <2>1, OrphanedIs
    <3> QED BY <2>1, <3>1
  <2>3. \A u \in Tabs : inbox'[u] = IF u = t THEN << >> ELSE inbox[u]
    BY <2>1 DEF Base, Shape
  <2>4. NoneIn => NoneIn'
    BY <1>5, <2>1, <2>2, <2>3 DEF NoneIn
  <2>5. OneIn => OneIn'
    BY <2>1, <2>2 DEF OneIn
  <2> QED BY <1>4, <2>2, <2>4, <2>5 DEF Peace, Calm
<1>9. CASE Acquires(t, v)
  <2>1. /\ Moves(t, v) /\ v.access = tab[t].access /\ v.call = tab[t].call
        /\ UNCHANGED <<rows, cookie>> /\ UNCHANGED inbox /\ lock = Nobody
    BY <1>9 DEF Acquires
  <2>2. PICK r : net' = net \cup {r} /\ r.tab = t /\ r.kind = "refresh" /\ r.cookie = cookie
    BY <1>9, RequestIs DEF Acquires, Base
  <2>3. \A m \in net : ~IsRefresh(m)
    BY <1>0, <1>4, <2>1 DEF Base, Locked, Calm
  <2>4. NoneIn => NoneIn'
    BY <1>5, <2>1, <2>2 DEF NoneIn
  <2>5. OneIn => OneIn'
    BY <2>1, <2>2, <2>3 DEF OneIn, IsRefresh
  <2>6. Calm'
    BY <1>4, <2>2, NobodyAssumption DEF Calm
  <2> QED BY <1>4, <2>4, <2>5, <2>6 DEF Peace
<1>10. CASE Hears(t, v)
  <2>1. /\ Moves(t, v) /\ v.call = tab[t].call /\ UNCHANGED <<rows, cookie, net>>
        /\ inbox[t] # << >> /\ inbox' = [inbox EXCEPT ![t] = Tail(inbox[t])]
        /\ v.access = IF Head(inbox[t]) = "login" THEN "good" ELSE "none"
    BY <1>10 DEF Hears
  <2>2. ASSUME NoneIn PROVE NoneIn'
    <3>1. /\ \A u \in Tabs : u # t => inbox'[u] = inbox[u]
          /\ Len(inbox[t]) \in Nat \ {0} /\ Head(inbox[t]) = inbox[t][1]
          /\ Len(inbox'[t]) = Len(inbox[t]) - 1
          /\ \A i \in 1..Len(inbox'[t]) : inbox'[t][i] = inbox[t][i + 1]
      BY <2>1, HearsTail DEF Base
    <3>2. v.access = "none"
      BY <2>1, <2>2, <3>1 DEF NoneIn
    <3>3. \A i \in 1..Len(inbox'[t]) : inbox'[t][i] = "logout"
      BY <2>2, <3>1 DEF NoneIn
    <3> QED BY <1>5, <2>1, <2>2, <3>1, <3>2, <3>3 DEF NoneIn
  <2>3. OneIn => OneIn'
    BY <2>1 DEF OneIn
  <2> QED BY <1>4, <2>1, <2>2, <2>3 DEF Peace, Calm
<1>11. CASE \E keep \in {"true", "false"} : SignsIn(t, keep)
  <2>1. PICK r : /\ net' = net \cup {r} /\ r.tab = t /\ r.kind = "login"
                 /\ UNCHANGED <<rows, cookie, tab, inbox>>
    BY <1>11, RequestIs DEF SignsIn, Base
  <2>2. NoneIn => NoneIn'
    BY <2>1 DEF NoneIn, IsRefresh
  <2>3. OneIn => OneIn'
    BY <2>1 DEF OneIn, IsRefresh
  <2>4. Calm'
    BY <1>4, <2>1, NobodyAssumption DEF Calm
  <2> QED BY <1>4, <2>2, <2>3, <2>4 DEF Peace
<1> QED BY <1>1, <1>2, <1>6, <1>7, <1>8, <1>9, <1>10, <1>11

LEMMA ServerPeace ==
  ASSUME Base, Peace, ServerForms, ~upset'
  PROVE  Peace'
<1>0. \A m \in net : m \in Message /\ m.cookie \in Token /\ m.tab \in Tabs \cup {Nobody}
  BY DEF Base, Shape, Message
<1>1. PICK m \in net :
        RotatesToken(m) \/ RefusesToken(m) \/ DeletesToken(m) \/ LogsIn(m) \/ Breaks(m)
  BY Zenon DEF ServerForms
<1>2. ~upset
  BY <1>1, Zenon DEF RotatesToken, RefusesToken, DeletesToken, LogsIn, Breaks, Spoilt
<1>3. Calm /\ (NoneIn \/ OneIn)
  BY <1>2 DEF Peace
<1>4. ~Breaks(m) /\ ~DeletesToken(m)
  BY <1>3 DEF Breaks, Spoilt, DeletesToken, Calm
<1>5. \A n \in net : IsRefresh(m) /\ IsRefresh(n) => m = n
  BY <1>0, <1>3 DEF Base, Locked, Calm
<1>6. ASSUME NEW token, Serves(m, token)
      PROVE  /\ UNCHANGED <<cookie, tab, inbox>> /\ Calm'
             /\ \E answer : /\ net' = (net \ {m}) \cup {answer}
                            /\ answer.kind = m.kind /\ answer.cookie = token
  <2>1. PICK answer : answer = Answered(m, token)
    OBVIOUS
  <2>2. /\ net' = (net \ {m}) \cup {answer} /\ UNCHANGED <<cookie, tab, inbox>>
        /\ answer.tab = m.tab /\ answer.kind = m.kind /\ answer.cookie = token
    BY <1>0, <1>6, <2>1, AnsweredIs DEF Serves
  <2> QED BY <1>3, <2>2 DEF Calm
<1>7. CASE RotatesToken(m)
  <2>1. /\ IsRefresh(m) /\ m.cookie \in rows /\ Serves(m, Rotated(m.cookie))
        /\ rows' = (rows \ {m.cookie}) \cup {Rotated(m.cookie)}
    BY <1>7 DEF RotatesToken, Rotates, IsRefresh
  <2>2. PICK answer : /\ net' = (net \ {m}) \cup {answer}
                      /\ answer.kind = m.kind /\ answer.cookie = Rotated(m.cookie)
    BY <1>6, <2>1
  <2>3. OneIn'
    BY <1>5, <2>1, <2>2 DEF OneIn, IsRefresh
  <2> QED BY <1>6, <2>1, <2>3 DEF Peace
<1>8. CASE RefusesToken(m)
  <2>1. IsRefresh(m) /\ m.cookie \notin rows /\ Serves(m, NoToken) /\ UNCHANGED rows
    BY <1>8 DEF RefusesToken, IsRefresh
  <2>2. NoneIn
    BY <1>3, <2>1 DEF OneIn
  <2>3. PICK answer : /\ net' = (net \ {m}) \cup {answer}
                      /\ answer.kind = m.kind /\ answer.cookie = NoToken
    BY <1>6, <2>1
  <2>4. NoneIn'
    BY <1>6, <2>1, <2>2, <2>3 DEF NoneIn
  <2> QED BY <1>6, <2>1, <2>4 DEF Peace
<1>9. CASE LogsIn(m)
  <2>1. PICK token : /\ m.kind = "login" /\ Serves(m, token) /\ rows' = rows \cup {token}
    BY <1>9 DEF LogsIn
  <2>2. PICK answer : /\ net' = (net \ {m}) \cup {answer} /\ answer.kind = m.kind
    BY <1>6, <2>1
  <2>3. NoneIn => NoneIn'
    BY <1>6, <2>1, <2>2 DEF NoneIn, IsRefresh
  <2>4. OneIn => OneIn'
    BY <1>6, <2>1, <2>2 DEF OneIn, IsRefresh
  <2> QED BY <1>3, <1>6, <2>1, <2>3, <2>4 DEF Peace
<1> QED BY <1>1, <1>4, <1>7, <1>8, <1>9

\* A tab says so, for no reason, when it gets no token though a session lives, or
\* waits for one though nobody is signed in.
LEMMA SaysExpiredUpset ==
  ASSUME Base, Peace, NEW m \in net, NEW v, SaysExpired(m, v)
  PROVE  upset'
<1> SUFFICES ASSUME ~upset' PROVE FALSE
  BY SMT
<1>1. ~upset /\ m.cookie = NoToken
  BY DEF SaysExpired, NoAnswer, Spoilt
<1>2. NoneIn \/ OneIn
  BY <1>1 DEF Peace
<1>3. m.tab \in Tabs /\ tab[m.tab].call = "waits" /\ IsRefresh(m)
  BY DEF SaysExpired, Takes, IsRefresh
<1> QED BY <1>1, <1>2, <1>3, NoTokenIsNone DEF NoneIn, OneIn

LEMMA AnswerPeace ==
  ASSUME Base, Peace, AnswerForms, ~upset'
  PROVE  Peace'
<1>0. \A m \in net : m \in Message /\ m.cookie \in Token /\ m.tab \in Tabs \cup {Nobody}
  BY DEF Base, Shape, Message
<1>1. PICK m \in net :
        \/ DropsAnswer(m)
        \/ \E v \in TabState : \/ TakesLogin(m, v) \/ TakesToken(m, v) \/ TakesNone(m, v)
                               \/ SaysExpired(m, v) \/ TakesNews(m, v)
  BY Zenon DEF AnswerForms
<1>2. ~DropsAnswer(m)
  <2> SUFFICES ASSUME DropsAnswer(m) PROVE FALSE
    OBVIOUS
  <2>1. ~upset /\ m.tab = Nobody
    BY Zenon DEF DropsAnswer
  <2> QED BY <2>1 DEF Peace, Calm
<1>3. PICK v \in TabState : \/ TakesLogin(m, v) \/ TakesToken(m, v) \/ TakesNone(m, v)
                            \/ SaysExpired(m, v) \/ TakesNews(m, v)
  BY <1>1, <1>2, Zenon
<1>4. ~SaysExpired(m, v)
  BY SaysExpiredUpset
<1>5. CASE TakesLogin(m, v)
  <2>1. net = {m} /\ net' = {} /\ cookie' = m.cookie /\ UNCHANGED rows
        /\ m.kind = "login" /\ m.way = "back"
    BY <1>5 DEF TakesLogin, Answer, Takes
  <2>2. m.cookie \in rows
    BY <2>1 DEF Base, Tokens, LoginsBring, Unused
  <2> QED BY <2>1, <2>2 DEF Peace, Calm, OneIn
<1>6. CASE TakesToken(m, v) \/ TakesNone(m, v)
  <2>0. ~upset
    BY <1>6 DEF TakesToken, TakesNone, NoAnswer, Spoilt
  <2>1. /\ IsRefresh(m) /\ net' = net \ {m} /\ cookie' = m.cookie /\ UNCHANGED rows
        /\ m.tab \in Tabs /\ Moves(m.tab, v) /\ v.call = "none"
        /\ TakesNone(m, v) => v.access = tab[m.tab].access /\ UNCHANGED inbox /\ m.cookie = NoToken
        /\ TakesToken(m, v) => m.cookie # NoToken
    BY <1>6, Zenon DEF TakesToken, TakesNone, Takes, NoAnswer, Answer, Spoilt, IsRefresh
  <2>2. Calm /\ (NoneIn \/ OneIn)
    BY <2>0 DEF Peace
  <2>3. \A n \in net' : ~IsRefresh(n)
    BY <1>0, <2>1, <2>2 DEF Base, Locked, Calm
  <2>4. OneIn => OneIn'
    BY <2>1, <2>3 DEF OneIn
  <2>5. ASSUME NoneIn PROVE NoneIn'
    <3>1. TakesNone(m, v)
      BY <1>6, <2>1, <2>5 DEF NoneIn
    <3>2. \A u \in Tabs : tab'[u] = IF u = m.tab THEN v ELSE tab[u]
      BY <2>1, MovesIs DEF Base
    <3> QED BY <2>1, <2>3, <2>5, <3>1, <3>2 DEF NoneIn
  <2> QED BY <2>1, <2>2, <2>4, <2>5 DEF Peace, Calm
<1>7. CASE TakesNews(m, v)
  <2>1. ~upset /\ m.kind \in {"logout", "forget"}
    BY <1>7 DEF TakesNews, Spoilt
  <2> QED BY <2>1 DEF Peace, Calm
<1> QED BY <1>3, <1>4, <1>5, <1>6, <1>7

LEMMA PeaceStep == Base /\ ~surprised /\ Peace /\ Forms => ~surprised' /\ Peace'
<1> SUFFICES ASSUME Base, ~surprised, Peace, Forms PROVE ~surprised' /\ Peace'
  OBVIOUS
<1>1. ~surprised'
  <2>1. ASSUME NEW m \in net, NEW v, SaysExpired(m, v) PROVE ~surprised'
    BY <2>1, SaysExpiredUpset, Zenon DEF SaysExpired
  <2>2. CASE UserForms
    <3>1. PICK t \in Tabs, v \in TabState :
            \/ Opens(t, v) \/ Forgets(t, v) \/ Mounts(t, v) \/ Leaves(t, v) \/ SignsOut(t, v)
            \/ Waits(t, v) \/ Acquires(t, v) \/ Hears(t, v)
            \/ \E keep \in {"true", "false"} : SignsIn(t, keep)
      BY <2>2, Zenon DEF UserForms
    <3>2. UNCHANGED surprised
      BY <3>1, Zenon DEF Opens, Forgets, Mounts, Leaves, SignsOut, Waits, Acquires, Hears, SignsIn
    <3> QED BY <3>2
  <2>3. CASE ServerForms
    BY <2>3, Zenon DEF ServerForms, RotatesToken, RefusesToken, DeletesToken, LogsIn, Breaks, Serves
  <2>4. CASE AnswerForms
    BY <2>1, <2>4, Zenon DEF AnswerForms, DropsAnswer, TakesLogin, TakesToken, TakesNone, TakesNews
  <2>5. CASE Expires \/ Rests
    BY <2>5, Zenon DEF Expires, Rests
  <2> QED BY <2>2, <2>3, <2>4, <2>5 DEF Forms
<1>2. Peace'
  <2> SUFFICES ASSUME ~upset' PROVE Peace'
    BY DEF Peace
  <2>1. CASE Expires \/ Rests
    <3>1. /\ ~upset /\ UNCHANGED <<rows, cookie, net>> /\ UNCHANGED inbox
          /\ \A t \in Tabs : /\ tab'[t].call = tab[t].call
                             /\ tab[t].access = "none" => tab'[t].access = "none"
      BY <2>1 DEF Expires, Rests
    <3> QED BY <3>1 DEF Peace, Calm, NoneIn, OneIn
  <2> QED BY <2>1, UserPeace, ServerPeace, AnswerPeace DEF Forms
<1> QED BY <1>1, <1>2

\* A tab tells its user that the session expired only if something ended it: a
\* sign-out, a request or a database call that failed, a tab left in the middle
\* of a request, or a sign-in that crossed another request.  Tabs that refresh,
\* reload and hear of each other's tokens do not (client.ts).
THEOREM ExpiryIsReal == Spec => []ToldOnlyIfEnded
<1>1. Init => TellInv
  <2> SUFFICES ASSUME Init PROVE TellInv
    OBVIOUS
  <2>1. NoneIn
    BY ClosedIs DEF Init, NoneIn
  <2>2. Calm /\ ~surprised
    BY DEF Init, Calm
  <2> QED BY <2>1, <2>2, BaseInit DEF TellInv, Peace
<1>2. TellInv /\ [Next]_vars => TellInv'
  BY BaseStep, PeaceStep DEF TellInv
<1>3. TellInv => ToldOnlyIfEnded
  BY DEF TellInv, ToldOnlyIfEnded
<1> QED BY <1>1, <1>2, <1>3, PTL DEF Spec

-----------------------------------------------------------------------------
(* What a sign-out leaves.                                                 *)

RowsOf(session) == {token \in rows : token[1] = session}

\* The sign-out's request is on its way, with the only token of its session, or
\* has been served; nothing but sign-ins goes on beside it.
ClearedBy(m) ==
  /\ m.kind = "logout" /\ m.tab # Nobody
  /\ RowsOf(out) \subseteq {m.cookie}
  /\ m.way = "back" => RowsOf(out) = {} /\ m.cookie = NoToken
  /\ \A n \in net : n.kind = "login" \/ n = m
Clearing == \E m \in net : ClearedBy(m)

\* It is over: no request but a sign-in can bring a token.
Cleared ==
  /\ cookie = NoToken
  /\ RowsOf(out) = {}
  /\ \A m \in net : m.kind # "login" => m.cookie = NoToken

\* The last thing that a tab with a token will hear is the sign-out.
ToldLast(t) ==
  IF inbox[t] = << >> THEN tab[t].access = "none" ELSE inbox[t][Len(inbox[t])] = "logout"

OutHolds ==
  /\ out <= signIns
  /\ remember = "none"
  /\ \A m \in net : m.kind = "login" => m.tab # Nobody
  /\ Clearing \/ Cleared
  /\ \A t \in Tabs : ToldLast(t)

SigningOut == out # 0 => OutHolds

\* While the request is on its way, nothing else but sign-ins is.
LEMMA OthersSignIn ==
  ASSUME Clearing, NEW m \in net, m.kind # "login"
  PROVE  m.kind = "logout" /\ ClearedBy(m)
<1>1. PICK mine \in net : ClearedBy(mine)
  BY DEF Clearing
<1>2. m = mine
  BY <1>1 DEF ClearedBy
<1> QED BY <1>1, <1>2 DEF ClearedBy

\* To hear of it last is what the rest of the inbox says, too.
LEMMA HearsLast ==
  ASSUME Base, NEW t \in Tabs, NEW v, Hears(t, v), \A u \in Tabs : ToldLast(u)
  PROVE  \A u \in Tabs : ToldLast(u)'
<1>1. /\ \A u \in Tabs : tab'[u] = IF u = t THEN v ELSE tab[u]
      /\ v.access = IF Head(inbox[t]) = "login" THEN "good" ELSE "none"
      /\ inbox[t] # << >> /\ inbox' = [inbox EXCEPT ![t] = Tail(inbox[t])]
  BY MovesIs DEF Hears, Base
<1>2. /\ \A u \in Tabs : u # t => inbox'[u] = inbox[u]
      /\ Len(inbox[t]) \in Nat \ {0} /\ Head(inbox[t]) = inbox[t][1]
      /\ Len(inbox'[t]) = Len(inbox[t]) - 1
      /\ \A i \in 1..Len(inbox'[t]) : inbox'[t][i] = inbox[t][i + 1]
  BY <1>1, HearsTail DEF Base
<1>3. inbox[t][Len(inbox[t])] = "logout"
  BY <1>1 DEF ToldLast
<1>4. inbox[t] \in Seq(Said) /\ inbox'[t] \in Seq(Said)
  BY <1>1 DEF Base, Shape
<1>5. CASE inbox'[t] = << >>
  <2>1. Len(inbox[t]) = 1
    BY <1>2, <1>5
  <2>2. v.access = "none"
    BY <1>1, <1>2, <1>3, <2>1
  <2>3. ToldLast(t)'
    BY <1>1, <1>5, <2>2 DEF ToldLast
  <2> QED BY <1>1, <1>2, <2>3 DEF ToldLast
<1>6. CASE inbox'[t] # << >>
  <2>1. Len(inbox'[t]) \in Nat \ {0}
    BY <1>2, <1>4, <1>6
  <2>2. inbox'[t][Len(inbox'[t])] = "logout"
    <3>1. PICK n \in Nat : n = Len(inbox'[t]) /\ n \in 1..Len(inbox'[t])
      BY <2>1
    <3>2. n + 1 = Len(inbox[t])
      BY <1>2, <3>1
    <3>3. inbox'[t][n] = inbox[t][n + 1]
      BY <1>2, <3>1
    <3> QED BY <1>3, <3>1, <3>2, <3>3
  <2>3. ToldLast(t)'
    BY <1>6, <2>2 DEF ToldLast
  <2> QED BY <1>1, <1>2, <2>3 DEF ToldLast
<1> QED BY <1>5, <1>6

\* A message that everybody else gets is the last they hear.
LEMMA SaidLast ==
  ASSUME Base, NEW t \in Tabs, NEW v, Moves(t, v), v.access = "none", Post(t, "logout"),
         NEW u \in Tabs, ToldLast(u) \/ (tab[u].at = "on" /\ u # t) \/ (inbox[u] = << >> /\ u = t)
  PROVE  ToldLast(u)'
<1>1. /\ tab'[u] = IF u = t THEN v ELSE tab[u]
      /\ inbox'[u] = IF u # t /\ tab[u].at = "on" THEN Append(inbox[u], "logout") ELSE inbox[u]
      /\ inbox[u] \in Seq(Said)
  BY MovesIs, PostIs DEF Base, Said, Shape
<1>2. CASE u # t /\ tab[u].at = "on"
  <2>1. inbox'[u] # << >> /\ inbox'[u][Len(inbox'[u])] = "logout"
    BY <1>1, <1>2 DEF Said
  <2> QED BY <2>1 DEF ToldLast
<1>3. CASE ~(u # t /\ tab[u].at = "on")
  BY <1>1, <1>3 DEF ToldLast
<1> QED BY <1>2, <1>3

LEMMA UserOut ==
  ASSUME Base, SigningOut, UserForms, out' # 0
  PROVE  OutHolds'
<1>0. /\ \A u \in Tabs : tab[u] \in TabState
      /\ \A m \in net : m \in Message /\ m.tab \in Tabs \cup {Nobody}
  BY DEF Base, Shape, Message
<1>1. PICK t \in Tabs, v \in TabState :
        \/ Opens(t, v) \/ Forgets(t, v) \/ Mounts(t, v) \/ Leaves(t, v) \/ SignsOut(t, v)
        \/ Waits(t, v) \/ Acquires(t, v) \/ Hears(t, v)
        \/ \E keep \in {"true", "false"} : SignsIn(t, keep)
  BY Zenon DEF UserForms
<1>2. Moves(t, v) => \A u \in Tabs : tab'[u] = IF u = t THEN v ELSE tab[u]
  BY MovesIs DEF Base
<1>3. CASE Opens(t, v) \/ Mounts(t, v) \/ Waits(t, v)
  <2>1. /\ UNCHANGED <<rows, signIns, cookie, remember, net, out>> /\ UNCHANGED inbox
        /\ Moves(t, v) /\ v.access = tab[t].access
    BY <1>3 DEF Opens, Mounts, Waits
  <2>2. OutHolds
    BY <2>1 DEF SigningOut
  <2>3. \A u \in Tabs : ToldLast(u)'
    BY <1>2, <2>1, <2>2 DEF OutHolds, ToldLast
  <2> QED BY <2>1, <2>2, <2>3 DEF OutHolds, Clearing, ClearedBy, Cleared, RowsOf
<1>4. ~Forgets(t, v)
  BY DEF Forgets, MayForget, SigningOut, OutHolds
<1>5. CASE Leaves(t, v)
  <2>1. /\ ~UnderWay({"logout", "login"}) /\ out' = out
        /\ UNCHANGED <<rows, signIns, cookie, remember>>
        /\ Moves(t, v) /\ v.access = "none"
        /\ inbox' = [inbox EXCEPT ![t] = << >>] /\ net' = {Orphaned(m, t) : m \in net}
    BY <1>5 DEF Leaves
  <2>2. OutHolds /\ ~Clearing
    BY <2>1 DEF SigningOut, Clearing, ClearedBy, UnderWay
  <2>3. \A m \in net : Orphaned(m, t).kind = m.kind /\ Orphaned(m, t).cookie = m.cookie
    BY <1>0, OrphanedIs
  <2>4. Cleared' /\ \A m \in net' : m.kind # "login"
    BY <2>1, <2>2, <2>3 DEF OutHolds, Cleared, RowsOf, UnderWay
  <2>5. \A u \in Tabs : inbox'[u] = IF u = t THEN << >> ELSE inbox[u]
    BY <2>1 DEF Base, Shape
  <2>6. \A u \in Tabs : ToldLast(u)'
    BY <1>2, <2>1, <2>2, <2>5 DEF OutHolds, ToldLast
  <2> QED BY <2>1, <2>2, <2>4, <2>6 DEF OutHolds
<1>6. CASE SignsOut(t, v)
  <2>1. /\ net = {} /\ inbox[t] = << >> /\ cookie \in rows /\ out' = cookie[1]
        /\ \A u \in Tabs : tab[u].at # "boot"
        /\ UNCHANGED <<rows, signIns, cookie>> /\ remember' = "none"
        /\ Moves(t, v) /\ v.access = "none" /\ Post(t, "logout")
        /\ net' = net \cup {Request(t, "logout", "none")}
    BY <1>6 DEF SignsOut
  <2>2. PICK m : m = Request(t, "logout", "none")
    OBVIOUS
  <2>3. m.kind = "logout" /\ m.tab = t /\ m.way = "to" /\ m.cookie = cookie /\ net' = {m}
    BY <2>1, <2>2, RequestIs DEF Base
  <2>4. RowsOf(out)' \subseteq {cookie}
    BY <2>1 DEF RowsOf, Base, Tokens, OneRow
  <2>5. Clearing'
    BY <2>3, <2>4, NobodyAssumption DEF Clearing, ClearedBy
  <2>6. out' <= signIns'
    BY <2>1 DEF Base, Tokens, Issued
  <2>7. ASSUME NEW u \in Tabs PROVE ToldLast(u)'
    <3>0. tab[u].at \in {"closed", "reloading", "on"} /\ Absent(u)
      BY <1>0, <2>1 DEF TabState, Base
    <3>1. ToldLast(u) \/ (tab[u].at = "on" /\ u # t) \/ (inbox[u] = << >> /\ u = t)
      BY <2>1, <3>0 DEF Absent, ToldLast
    <3> QED BY <2>1, <3>1, SaidLast
  <2> QED BY <2>1, <2>3, <2>5, <2>6, <2>7, NobodyAssumption DEF OutHolds
<1>7. CASE Acquires(t, v)
  <2>1. /\ ~UnderWay({"logout"}) /\ out' = out
        /\ UNCHANGED <<rows, signIns, cookie, remember>> /\ UNCHANGED inbox
        /\ Moves(t, v) /\ v.access = tab[t].access
    BY <1>7 DEF Acquires
  <2>2. PICK r : net' = net \cup {r} /\ r.kind = "refresh" /\ r.cookie = cookie
    BY <1>7, RequestIs DEF Acquires, Base
  <2>3. OutHolds /\ Cleared
    BY <2>1 DEF SigningOut, OutHolds, Clearing, ClearedBy, UnderWay
  <2>4. Cleared'
    BY <2>1, <2>2, <2>3 DEF Cleared, RowsOf
  <2>5. \A u \in Tabs : ToldLast(u)'
    BY <1>2, <2>1, <2>3 DEF OutHolds, ToldLast
  <2> QED BY <2>1, <2>2, <2>3, <2>4, <2>5 DEF OutHolds
<1>8. CASE Hears(t, v)
  <2>1. UNCHANGED <<rows, signIns, cookie, remember, net, out>>
    BY <1>8 DEF Hears
  <2>2. OutHolds
    BY <2>1 DEF SigningOut
  <2>3. \A u \in Tabs : ToldLast(u)'
    BY <1>8, <2>2, HearsLast DEF OutHolds
  <2> QED BY <2>1, <2>2, <2>3 DEF OutHolds, Clearing, ClearedBy, Cleared, RowsOf
<1>9. CASE \E keep \in {"true", "false"} : SignsIn(t, keep)
  <2>1. PICK r : /\ net' = net \cup {r} /\ r.tab = t /\ r.kind = "login"
                 /\ UNCHANGED <<rows, signIns, cookie, remember, tab, inbox, out>>
    BY <1>9, RequestIs DEF SignsIn, Base
  <2>2. OutHolds
    BY <2>1 DEF SigningOut
  <2>3. Clearing => Clearing'
    BY <2>1 DEF Clearing, ClearedBy, RowsOf
  <2>4. Cleared => Cleared'
    BY <2>1 DEF Cleared, RowsOf
  <2>5. \A u \in Tabs : ToldLast(u)'
    BY <2>1, <2>2 DEF OutHolds, ToldLast
  <2> QED BY <2>1, <2>2, <2>3, <2>4, <2>5, NobodyAssumption DEF OutHolds
<1> QED BY <1>1, <1>3, <1>4, <1>5, <1>6, <1>7, <1>8, <1>9

LEMMA ServerOut ==
  ASSUME Base, SigningOut, ServerForms, out' # 0
  PROVE  OutHolds'
<1>0. \A m \in net : m \in Message /\ m.cookie \in Token
  BY DEF Base, Shape, Message
<1>1. PICK m \in net :
        RotatesToken(m) \/ RefusesToken(m) \/ DeletesToken(m) \/ LogsIn(m) \/ Breaks(m)
  BY Zenon DEF ServerForms
<1>2. out' = out /\ ~Breaks(m)
  BY <1>1 DEF RotatesToken, RefusesToken, DeletesToken, LogsIn, Breaks, Spoilt
<1>3. OutHolds /\ out # 0
  BY <1>2 DEF SigningOut
<1>4. PICK token, answer :
        /\ Serves(m, token) /\ answer = Answered(m, token)
        /\ RefusesToken(m) \/ DeletesToken(m) => token = NoToken
  BY <1>1, <1>2, Zenon DEF RotatesToken, RefusesToken, DeletesToken, LogsIn
<1>5. /\ UNCHANGED <<cookie, remember, tab, inbox>>
      /\ net' = (net \ {m}) \cup {answer} /\ m.way = "to"
      /\ answer.tab = m.tab /\ answer.kind = m.kind /\ answer.way = "back"
      /\ answer.cookie = token
  BY <1>0, <1>4, AnsweredIs DEF Serves
<1>6. /\ \A t \in Tabs : ToldLast(t)'
      /\ \A n \in net' : n.kind = "login" => n.tab # Nobody
      /\ remember' = "none"
  BY <1>3, <1>5 DEF OutHolds, ToldLast
<1>7. ~RotatesToken(m)
  <2> SUFFICES ASSUME RotatesToken(m) PROVE FALSE
    OBVIOUS
  <2>1. m.kind = "refresh" /\ m.cookie \in rows
    BY DEF RotatesToken, Rotates
  <2>2. Cleared
    BY <1>3, <2>1, OthersSignIn DEF OutHolds
  <2> QED BY <2>1, <2>2, NoTokenIsNone DEF Cleared
<1>8. CASE RefusesToken(m) \/ DeletesToken(m)
  <2>1. /\ m.kind # "login" /\ token = NoToken /\ rows' \subseteq rows /\ UNCHANGED signIns
        /\ m.kind = "logout" => rows' = rows \ {m.cookie}
    BY <1>4, <1>8 DEF RefusesToken, DeletesToken
  <2>2. CASE Clearing
    <3>1. ClearedBy(m) /\ m.kind = "logout"
      BY <2>1, <2>2, OthersSignIn
    <3>2. RowsOf(out)' = {}
      BY <1>2, <2>1, <3>1 DEF ClearedBy, RowsOf
    <3>3. ClearedBy(answer)'
      BY <1>5, <2>1, <3>1, <3>2 DEF ClearedBy
    <3> QED BY <1>2, <1>3, <1>5, <1>6, <2>1, <3>3 DEF OutHolds, Clearing
  <2>3. CASE Cleared
    <3>1. Cleared'
      BY <1>2, <1>5, <2>1, <2>3 DEF Cleared, RowsOf
    <3> QED BY <1>2, <1>3, <1>6, <2>1, <3>1 DEF OutHolds
  <2> QED BY <1>3, <2>2, <2>3 DEF OutHolds
<1>9. CASE LogsIn(m)
  <2>1. /\ m.kind = "login" /\ signIns' = signIns + 1 /\ signIns \in Nat /\ out \in Nat
        /\ rows' = rows \cup {<<signIns + 1, 1>>}
    BY <1>9 DEF LogsIn, Base, Shape
  <2>2. RowsOf(out)' = RowsOf(out)
    BY <1>2, <1>3, <2>1 DEF RowsOf, OutHolds
  <2>3. Clearing => Clearing'
    <3>1. ASSUME NEW mine \in net, ClearedBy(mine) PROVE mine \in net' /\ ClearedBy(mine)'
      BY <1>5, <2>1, <2>2, <3>1 DEF ClearedBy
    <3> QED BY <3>1 DEF Clearing
  <2>4. Cleared => Cleared'
    BY <1>5, <2>1, <2>2 DEF Cleared
  <2>5. out' <= signIns'
    BY <1>2, <1>3, <2>1 DEF OutHolds
  <2> QED BY <1>3, <1>6, <2>3, <2>4, <2>5 DEF OutHolds
<1> QED BY <1>1, <1>2, <1>7, <1>8, <1>9

LEMMA AnswerOut ==
  ASSUME Base, SigningOut, AnswerForms, out' # 0
  PROVE  OutHolds'
<1>1. PICK m \in net :
        \/ DropsAnswer(m)
        \/ \E v \in TabState : \/ TakesLogin(m, v) \/ TakesToken(m, v) \/ TakesNone(m, v)
                               \/ SaysExpired(m, v) \/ TakesNews(m, v)
  BY Zenon DEF AnswerForms
<1>2. CASE DropsAnswer(m)
  <2>1. /\ m.tab = Nobody /\ net' = net \ {m} /\ cookie' \in {cookie, m.cookie}
        /\ UNCHANGED <<rows, signIns, remember, tab, inbox, out>>
    BY <1>2 DEF DropsAnswer, Answer
  <2>2. OutHolds /\ m.kind # "login"
    BY <2>1 DEF SigningOut, OutHolds
  <2>3. Cleared
    BY <2>1, <2>2, OthersSignIn DEF OutHolds, ClearedBy
  <2>4. Cleared'
    BY <2>1, <2>2, <2>3 DEF Cleared, RowsOf
  <2>5. \A t \in Tabs : ToldLast(t)'
    BY <2>1, <2>2 DEF OutHolds, ToldLast
  <2> QED BY <2>1, <2>2, <2>4, <2>5 DEF OutHolds
<1>3. ASSUME NEW v \in TabState,
             \/ TakesLogin(m, v) \/ TakesToken(m, v) \/ TakesNone(m, v)
             \/ SaysExpired(m, v) \/ TakesNews(m, v)
      PROVE  OutHolds'
  <2>1. ~TakesLogin(m, v)
    BY DEF TakesLogin
  <2>2. /\ Takes(m, v) /\ cookie' = m.cookie /\ out' = out /\ m.kind # "login" /\ m.way = "back"
        /\ m.kind = "refresh" => TakesToken(m, v) \/ m.cookie = NoToken
    BY <1>3, <2>1 DEF TakesToken, TakesNone, SaysExpired, TakesNews, NoAnswer, Answer, Spoilt
  <2>3. OutHolds
    BY <2>2 DEF SigningOut
  <2>4. /\ m.tab \in Tabs /\ UNCHANGED <<rows, signIns>> /\ Moves(m.tab, v)
        /\ \A u \in Tabs : tab'[u] = IF u = m.tab THEN v ELSE tab[u]
    BY <2>2, MovesIs DEF Takes, Base
  <2>5. m.cookie = NoToken /\ RowsOf(out)' = {}
    <3>1. RowsOf(out)' = RowsOf(out)
      BY <2>2, <2>4 DEF RowsOf
    <3> QED BY <2>2, <2>3, <3>1, OthersSignIn DEF OutHolds, ClearedBy, Cleared
  <2>6. ~TakesToken(m, v)
    BY <2>5 DEF TakesToken
  <2>7. \A n \in net \ {m} : n.kind # "login" => n.cookie = NoToken
    BY <2>2, <2>3, OthersSignIn DEF OutHolds, ClearedBy, Cleared
  <2>8. CASE TakesNone(m, v) \/ TakesNews(m, v)
    <3>1. /\ net' = net \ {m} /\ UNCHANGED <<inbox, remember>> /\ v.access = tab[m.tab].access
      BY <2>8 DEF TakesNone, TakesNews
    <3>2. Cleared'
      BY <2>2, <2>5, <2>7, <3>1 DEF Cleared
    <3>3. \A u \in Tabs : ToldLast(u)'
      BY <2>3, <2>4, <3>1 DEF OutHolds, ToldLast
    <3> QED BY <2>2, <2>3, <2>4, <3>1, <3>2, <3>3 DEF OutHolds
  <2>9. CASE SaysExpired(m, v)
    <3>1. /\ m.kind = "refresh" /\ remember' = "none" /\ v.access = "none" /\ Post(m.tab, "logout")
          /\ net' = (net \ {m}) \cup {Request(m.tab, "logout", "none")}
      BY <2>9 DEF SaysExpired
    <3>2. cookie = NoToken
      BY <2>2, <2>3, <3>1, OthersSignIn DEF OutHolds, Cleared
    <3>3. PICK r : net' = (net \ {m}) \cup {r} /\ r.kind = "logout" /\ r.cookie = NoToken
      BY <2>4, <3>1, <3>2, RequestIs DEF Base
    <3>4. Cleared'
      BY <2>2, <2>5, <2>7, <3>3 DEF Cleared
    <3>5. ASSUME NEW u \in Tabs PROVE ToldLast(u)'
      <4>1. ToldLast(u)
        BY <2>3 DEF OutHolds
      <4> QED BY <2>4, <3>1, <4>1, SaidLast
    <3> QED BY <2>2, <2>3, <2>4, <3>1, <3>3, <3>4, <3>5 DEF OutHolds
  <2> QED BY <1>3, <2>1, <2>6, <2>8, <2>9
<1> QED BY <1>1, <1>2, <1>3

LEMMA SigningOutStep == Base /\ SigningOut /\ Forms => SigningOut'
<1> SUFFICES ASSUME Base, SigningOut, Forms, out' # 0 PROVE OutHolds'
  BY DEF SigningOut
<1>1. CASE Expires
  <2>1. /\ UNCHANGED <<rows, signIns, cookie, remember, net, out>> /\ UNCHANGED inbox
        /\ \A t \in Tabs : tab[t].access = "none" => tab'[t].access = "none"
    BY <1>1 DEF Expires
  <2>2. \A t \in Tabs : ToldLast(t)'
    BY <2>1 DEF SigningOut, OutHolds, ToldLast
  <2> QED BY <2>1, <2>2 DEF SigningOut, OutHolds, Clearing, ClearedBy, Cleared, RowsOf
<1>2. CASE Rests
  BY <1>2 DEF Rests, SigningOut, OutHolds, Clearing, ClearedBy, Cleared, RowsOf, ToldLast
<1> QED BY <1>1, <1>2, UserOut, ServerOut, AnswerOut DEF Forms

\* A sign-out that no refresh, sign-in, opening tab or failure crosses holds for
\* the whole browser: when its request and its messages have arrived, the
\* session's refresh token and the cookie are gone, and no tab has a token
\* (logout of auth-store.tsx).
THEOREM SignOutIsForAll == Spec => []SignOutHolds
<1>1. Init => Base /\ SigningOut
  BY BaseInit DEF Init, SigningOut
<1>2. Base /\ SigningOut /\ [Next]_vars => Base' /\ SigningOut'
  BY BaseStep, SigningOutStep
<1>3. Base /\ SigningOut => SignOutHolds
  <2> SUFFICES ASSUME SigningOut, out # 0, ~UnderWay({"logout"}), \A t \in Tabs : inbox[t] = << >>
               PROVE  /\ cookie = NoToken
                      /\ \A token \in rows : token[1] # out
                      /\ \A t \in Tabs : tab[t].access = "none"
    BY DEF SignOutHolds
  <2>1. Cleared
    BY DEF SigningOut, OutHolds, Clearing, ClearedBy, UnderWay
  <2> QED BY <2>1 DEF SigningOut, OutHolds, Cleared, RowsOf, ToldLast
<1> QED BY <1>1, <1>2, <1>3, PTL DEF Spec

-----------------------------------------------------------------------------
(* What is left of a session that is not to be remembered.                 *)

\* Nobody is there.
Deserted ==
  /\ net = {} /\ remember = "false"
  /\ \A t \in Tabs : tab[t].at = "closed"

\* A tab has come, and the request to forget the session is under way.
ToForget(t, m) ==
  /\ net = {m} /\ m.tab = t /\ m.kind = "forget"
  /\ m.way = "back" => m.cookie = NoToken
HasCome(t) ==
  /\ tab[t].initial = "forget" /\ tab[t].access = "none" /\ tab[t].refresh = "no"
  /\ inbox[t] = << >>
  /\ \A u \in Tabs : u = t \/ tab[u].at = "closed"
  /\ \E m \in net : ToForget(t, m)
Forgetting == remember = "none" /\ \E t \in Tabs : HasCome(t)

\* It is answered: but for a sign-in, nothing brings a token.
Forgotten ==
  /\ remember = "none" /\ cookie = NoToken
  /\ \A m \in net : IF m.kind = "login" THEN m.tab # Nobody ELSE m.cookie = NoToken
  /\ \A t \in Tabs :
       /\ tab[t].access = "none"
       /\ \A i \in 1..Len(inbox[t]) : inbox[t][i] = "logout"

Gone == Deserted \/ Forgetting \/ Forgotten
Leaving == left => Gone

LEMMA DesertedStep ==
  ASSUME Base, Deserted, Forms, left'
  PROVE  Gone'
<1>0. \A t \in Tabs :
        /\ tab[t].at = "closed" /\ tab[t].access = "none" /\ tab[t].refresh = "no"
        /\ ~tab[t].live /\ inbox[t] = << >>
  BY DEF Deserted, Base, Absent
<1>1. ~ServerForms /\ ~AnswerForms
  BY Zenon DEF ServerForms, AnswerForms, Deserted
<1>2. CASE UserForms
  <2>1. PICK t \in Tabs, v \in TabState :
          \/ Opens(t, v) \/ Forgets(t, v) \/ Mounts(t, v) \/ Leaves(t, v) \/ SignsOut(t, v)
          \/ Waits(t, v) \/ Acquires(t, v) \/ Hears(t, v)
          \/ \E keep \in {"true", "false"} : SignsIn(t, keep)
    BY <1>2, Zenon DEF UserForms
  <2>2. ~Opens(t, v)
    BY <1>0 DEF Opens, MayForget, OtherTabLive, Open, Deserted
  <2>3. /\ ~Mounts(t, v) /\ ~Leaves(t, v) /\ ~SignsOut(t, v) /\ ~Waits(t, v)
        /\ ~Acquires(t, v) /\ ~Hears(t, v)
        /\ ~\E keep \in {"true", "false"} : SignsIn(t, keep)
    BY <1>0 DEF Mounts, Leaves, SignsOut, Waits, Acquires, Hears, SignsIn
  <2>4. /\ Forgets(t, v) /\ \A u \in Tabs : tab'[u] = IF u = t THEN v ELSE tab[u]
    BY <2>1, <2>2, <2>3, MovesIs DEF Forgets, Base
  <2>5. PICK m : m = Request(t, "forget", "none")
    OBVIOUS
  <2>6. net' = {m} /\ m.tab = t /\ m.kind = "forget" /\ m.way = "to"
    BY <2>4, <2>5, RequestIs DEF Forgets, Deserted, Base
  <2>7. remember' = "none" /\ HasCome(t)'
    BY <1>0, <2>4, <2>6 DEF Forgets, HasCome, ToForget
  <2> QED BY <2>7 DEF Gone, Forgetting
<1>3. CASE Expires \/ Rests
  <2>1. UNCHANGED net /\ UNCHANGED remember /\ \A t \in Tabs : tab'[t].at = tab[t].at
    BY <1>3 DEF Expires, Rests
  <2> QED BY <2>1 DEF Gone, Deserted
<1> QED BY <1>1, <1>2, <1>3 DEF Forms

LEMMA ForgettingStep ==
  ASSUME Base, Forgetting, Forms, left'
  PROVE  Gone'
<1>0. PICK t \in Tabs : HasCome(t)
  BY DEF Forgetting
<1>1. PICK m \in net : ToForget(t, m)
  BY <1>0 DEF HasCome
<1>2. /\ net = {m} /\ m.tab = t /\ m.kind = "forget" /\ m \in Message
      /\ tab[t].at \in {"boot", "on"} /\ t # Nobody /\ remember = "none"
      /\ inbox[t] = << >>
  BY <1>0, <1>1, NobodyAssumption DEF ToForget, Base, Shape, Present, Forgetting, HasCome
<1>3. ASSUME NEW u \in Tabs
      PROVE  /\ tab[u].access = "none" /\ tab[u].refresh = "no" /\ inbox[u] = << >>
             /\ u # t => tab[u].at = "closed"
  BY <1>0 DEF HasCome, Base, Absent
<1>4. CASE UserForms
  <2>1. PICK u \in Tabs, v \in TabState :
          \/ Opens(u, v) \/ Forgets(u, v) \/ Mounts(u, v) \/ Leaves(u, v) \/ SignsOut(u, v)
          \/ Waits(u, v) \/ Acquires(u, v) \/ Hears(u, v)
          \/ \E keep \in {"true", "false"} : SignsIn(u, keep)
    BY <1>4, Zenon DEF UserForms
  <2>2. ~Opens(u, v) /\ ~Forgets(u, v) /\ ~Leaves(u, v)
    BY <1>2 DEF Opens, Forgets, Leaves, UnderWay, MayForget
  <2>3. ~SignsOut(u, v) /\ ~Waits(u, v) /\ ~Acquires(u, v) /\ ~Hears(u, v)
    BY <1>3 DEF SignsOut, Waits, Acquires, Hears
  <2>4. ~\E keep \in {"true", "false"} : SignsIn(u, keep)
    BY <1>0, <1>3 DEF SignsIn, HasCome
  <2>5. /\ Mounts(u, v) /\ \A w \in Tabs : tab'[w] = IF w = u THEN v ELSE tab[w]
    BY <2>1, <2>2, <2>3, <2>4, MovesIs DEF Mounts, Base
  <2>6. u = t
    BY <1>3, <2>5 DEF Mounts
  <2>7. /\ UNCHANGED net /\ UNCHANGED remember /\ UNCHANGED inbox
        /\ v.initial = tab[t].initial /\ v.access = tab[t].access /\ v.refresh = tab[t].refresh
    BY <2>5, <2>6 DEF Mounts
  <2>8. HasCome(t)'
    BY <1>0, <2>5, <2>6, <2>7 DEF HasCome, ToForget
  <2> QED BY <1>2, <2>7, <2>8 DEF Gone, Forgetting
<1>5. CASE ServerForms
  <2>1. RotatesToken(m) \/ RefusesToken(m) \/ DeletesToken(m) \/ LogsIn(m) \/ Breaks(m)
    BY <1>2, <1>5 DEF ServerForms
  <2>2. DeletesToken(m)
    BY <1>2, <2>1 DEF RotatesToken, Rotates, RefusesToken, LogsIn, Breaks, Spoilt
  <2>3. PICK answer : answer = Answered(m, NoToken)
    OBVIOUS
  <2>4. answer.tab = t /\ answer.kind = "forget" /\ answer.cookie = NoToken
    BY <1>2, <2>3, AnsweredIs, TokenIs
  <2>5. net' = {answer} /\ UNCHANGED remember /\ UNCHANGED tab /\ UNCHANGED inbox
    BY <1>2, <2>2, <2>3 DEF DeletesToken, Serves
  <2>6. HasCome(t)'
    BY <1>0, <2>4, <2>5 DEF HasCome, ToForget
  <2> QED BY <1>2, <2>5, <2>6 DEF Gone, Forgetting
<1>6. CASE AnswerForms
  <2>1. \/ DropsAnswer(m)
        \/ \E v \in TabState : \/ TakesLogin(m, v) \/ TakesToken(m, v) \/ TakesNone(m, v)
                               \/ SaysExpired(m, v) \/ TakesNews(m, v)
    BY <1>2, <1>6 DEF AnswerForms
  <2>2. PICK v \in TabState : TakesNews(m, v)
    BY <1>2, <2>1 DEF DropsAnswer, TakesLogin, TakesToken, TakesNone, SaysExpired
  <2>3. /\ cookie' = m.cookie /\ m.way = "back" /\ Takes(m, v) /\ v.access = tab[t].access
        /\ net' = {} /\ UNCHANGED inbox /\ UNCHANGED remember
    BY <1>2, <2>2 DEF TakesNews, Answer, Spoilt
  <2>4. \A u \in Tabs : tab'[u] = IF u = t THEN v ELSE tab[u]
    BY <1>2, <2>3, MovesIs DEF Takes, Base
  <2>5. cookie' = NoToken
    BY <1>1, <2>3 DEF ToForget
  <2>6. \A u \in Tabs : tab'[u].access = "none" /\ Len(inbox'[u]) = 0
    BY <1>3, <2>3, <2>4
  <2>7. Forgotten'
    BY <1>2, <2>3, <2>5, <2>6 DEF Forgotten
  <2> QED BY <2>7 DEF Gone
<1>7. CASE Expires \/ Rests
  <2>1. /\ UNCHANGED net /\ UNCHANGED remember /\ UNCHANGED inbox
        /\ \A u \in Tabs : /\ tab'[u].at = tab[u].at /\ tab'[u].initial = tab[u].initial
                           /\ tab'[u].refresh = tab[u].refresh
                           /\ tab[u].access = "none" => tab'[u].access = "none"
    BY <1>7 DEF Expires, Rests
  <2>2. HasCome(t)'
    BY <1>0, <2>1 DEF HasCome, ToForget
  <2> QED BY <1>2, <2>1, <2>2 DEF Gone, Forgetting
<1> QED BY <1>4, <1>5, <1>6, <1>7 DEF Forms

LEMMA UserForgotten ==
  ASSUME Base, Forgotten, UserForms, left'
  PROVE  Gone'
<1>0. \A m \in net : m \in Message /\ m.tab \in Tabs \cup {Nobody}
  BY DEF Base, Shape, Message
<1>1. PICK t \in Tabs, v \in TabState :
        \/ Opens(t, v) \/ Forgets(t, v) \/ Mounts(t, v) \/ Leaves(t, v) \/ SignsOut(t, v)
        \/ Waits(t, v) \/ Acquires(t, v) \/ Hears(t, v)
        \/ \E keep \in {"true", "false"} : SignsIn(t, keep)
  BY Zenon DEF UserForms
<1>2. Moves(t, v) => \A u \in Tabs : tab'[u] = IF u = t THEN v ELSE tab[u]
  BY MovesIs DEF Base
<1>3. ~Forgets(t, v) /\ ~SignsOut(t, v) /\ ~Waits(t, v)
  BY DEF Forgets, SignsOut, Waits, MayForget, Forgotten
<1>4. CASE Opens(t, v) \/ Mounts(t, v)
  <2>1. /\ UNCHANGED <<cookie, remember, net>> /\ UNCHANGED inbox
        /\ Moves(t, v) /\ v.access = tab[t].access
    BY <1>4 DEF Opens, Mounts
  <2>2. \A u \in Tabs : tab'[u].access = "none"
    BY <1>2, <2>1 DEF Forgotten
  <2>3. Forgotten'
    BY <2>1, <2>2 DEF Forgotten
  <2> QED BY <2>3 DEF Gone
<1>5. CASE Leaves(t, v)
  <2>1. /\ ~UnderWay({"forget", "login"})
        /\ UNCHANGED cookie /\ UNCHANGED remember /\ Moves(t, v) /\ v.access = "none"
        /\ inbox' = [inbox EXCEPT ![t] = << >>] /\ net' = {Orphaned(m, t) : m \in net}
    BY <1>5 DEF Leaves, Forgotten
  <2>2. \A m \in net : /\ Orphaned(m, t).kind = m.kind /\ Orphaned(m, t).cookie = m.cookie
                       /\ m.kind # "login"
    BY <1>0, <2>1, OrphanedIs DEF UnderWay
  <2>3. \A m \in net' : m.kind # "login" /\ m.cookie = NoToken
    BY <2>1, <2>2 DEF Forgotten
  <2>4. \A u \in Tabs : inbox'[u] = IF u = t THEN << >> ELSE inbox[u]
    BY <2>1 DEF Base, Shape
  <2>5. ASSUME NEW u \in Tabs
        PROVE  tab'[u].access = "none" /\ \A i \in 1..Len(inbox'[u]) : inbox'[u][i] = "logout"
    BY <1>2, <2>1, <2>4 DEF Forgotten
  <2>6. Forgotten'
    BY <2>1, <2>3, <2>5 DEF Forgotten
  <2> QED BY <2>6 DEF Gone
<1>6. CASE Acquires(t, v)
  <2>1. /\ UNCHANGED cookie /\ UNCHANGED remember /\ UNCHANGED inbox
        /\ Moves(t, v) /\ v.access = tab[t].access
    BY <1>6 DEF Acquires
  <2>2. PICK r : net' = net \cup {r} /\ r.kind = "refresh" /\ r.cookie = cookie
    BY <1>6, RequestIs DEF Acquires, Base
  <2>3. \A u \in Tabs : tab'[u].access = "none"
    BY <1>2, <2>1 DEF Forgotten
  <2>4. Forgotten'
    BY <2>1, <2>2, <2>3 DEF Forgotten
  <2> QED BY <2>4 DEF Gone
<1>7. CASE Hears(t, v)
  <2>1. /\ Moves(t, v) /\ UNCHANGED <<cookie, remember, net>>
        /\ inbox[t] # << >> /\ inbox' = [inbox EXCEPT ![t] = Tail(inbox[t])]
        /\ v.access = IF Head(inbox[t]) = "login" THEN "good" ELSE "none"
    BY <1>7 DEF Hears
  <2>2. /\ \A u \in Tabs : u # t => inbox'[u] = inbox[u]
        /\ Len(inbox[t]) \in Nat \ {0} /\ Head(inbox[t]) = inbox[t][1]
        /\ Len(inbox'[t]) = Len(inbox[t]) - 1
        /\ \A i \in 1..Len(inbox'[t]) : inbox'[t][i] = inbox[t][i + 1]
    BY <2>1, HearsTail DEF Base
  <2>3. v.access = "none"
    BY <2>1, <2>2 DEF Forgotten
  <2>4. \A i \in 1..Len(inbox'[t]) : inbox'[t][i] = "logout"
    BY <2>2 DEF Forgotten
  <2>5. Forgotten'
    BY <1>2, <2>1, <2>2, <2>3, <2>4 DEF Forgotten
  <2> QED BY <2>5 DEF Gone
<1>8. CASE \E keep \in {"true", "false"} : SignsIn(t, keep)
  <2>1. PICK r : /\ net' = net \cup {r} /\ r.tab = t /\ r.kind = "login"
                 /\ UNCHANGED <<cookie, remember, tab, inbox>>
    BY <1>8, RequestIs DEF SignsIn, Base
  <2>2. Forgotten'
    BY <2>1, NobodyAssumption DEF Forgotten
  <2> QED BY <2>2 DEF Gone
<1> QED BY <1>1, <1>3, <1>4, <1>5, <1>6, <1>7, <1>8

LEMMA ServerForgotten ==
  ASSUME Base, Forgotten, ServerForms, left'
  PROVE  Gone'
<1>0. \A m \in net : m \in Message /\ m.cookie \in Token
  BY DEF Base, Shape, Message
<1>1. PICK m \in net :
        RotatesToken(m) \/ RefusesToken(m) \/ DeletesToken(m) \/ LogsIn(m) \/ Breaks(m)
  BY Zenon DEF ServerForms
<1>2. ~Breaks(m)
  BY DEF Breaks, Spoilt
<1>3. ~RotatesToken(m)
  BY NoTokenIsNone DEF RotatesToken, Rotates, Forgotten
<1>4. PICK token, answer :
        /\ Serves(m, token) /\ answer = Answered(m, token)
        /\ m.kind = "login" \/ token = NoToken
  BY <1>1, <1>2, <1>3, Zenon DEF RefusesToken, DeletesToken, LogsIn
<1>5. /\ UNCHANGED <<cookie, remember, tab, inbox>>
      /\ net' = (net \ {m}) \cup {answer}
      /\ answer.tab = m.tab /\ answer.kind = m.kind /\ answer.cookie = token
  BY <1>0, <1>4, AnsweredIs DEF Serves
<1>6. Forgotten'
  BY <1>4, <1>5 DEF Forgotten
<1> QED BY <1>6 DEF Gone

LEMMA AnswerForgotten ==
  ASSUME Base, Forgotten, AnswerForms, left'
  PROVE  Gone'
<1>1. PICK m \in net :
        \/ DropsAnswer(m)
        \/ \E v \in TabState : \/ TakesLogin(m, v) \/ TakesToken(m, v) \/ TakesNone(m, v)
                               \/ SaysExpired(m, v) \/ TakesNews(m, v)
  BY Zenon DEF AnswerForms
<1>2. CASE DropsAnswer(m)
  <2>1. /\ m.tab = Nobody /\ net' = net \ {m} /\ cookie' \in {cookie, m.cookie}
        /\ UNCHANGED <<remember, tab, inbox>>
    BY <1>2 DEF DropsAnswer, Answer
  <2>2. Forgotten'
    BY <2>1 DEF Forgotten
  <2> QED BY <2>2 DEF Gone
<1>3. ASSUME NEW v \in TabState,
             \/ TakesLogin(m, v) \/ TakesToken(m, v) \/ TakesNone(m, v)
             \/ SaysExpired(m, v) \/ TakesNews(m, v)
      PROVE  Forgotten'
  <2>1. ~TakesLogin(m, v)
    BY DEF TakesLogin
  <2>2. ~TakesToken(m, v)
    BY DEF TakesToken, Forgotten
  <2>3. Takes(m, v) /\ cookie' = m.cookie /\ m.cookie = NoToken
    BY <1>3, <2>1, <2>2
       DEF TakesNone, SaysExpired, TakesNews, NoAnswer, Answer, Spoilt, Forgotten
  <2>4. /\ m.tab \in Tabs /\ Moves(m.tab, v)
        /\ \A u \in Tabs : tab'[u] = IF u = m.tab THEN v ELSE tab[u]
    BY <2>3, MovesIs DEF Takes, Base
  <2>5. CASE TakesNone(m, v) \/ TakesNews(m, v)
    <3>1. /\ net' = net \ {m} /\ UNCHANGED <<inbox, remember>> /\ v.access = tab[m.tab].access
      BY <2>5 DEF TakesNone, TakesNews
    <3>2. \A u \in Tabs : tab'[u].access = "none"
      BY <2>4, <3>1 DEF Forgotten
    <3> QED BY <2>3, <3>1, <3>2 DEF Forgotten
  <2>6. CASE SaysExpired(m, v)
    <3>1. /\ remember' = "none" /\ v.access = "none" /\ Post(m.tab, "logout")
          /\ net' = (net \ {m}) \cup {Request(m.tab, "logout", "none")}
      BY <2>6 DEF SaysExpired
    <3>2. PICK r : net' = (net \ {m}) \cup {r} /\ r.kind = "logout" /\ r.cookie = NoToken
      BY <2>4, <3>1, RequestIs DEF Base, Forgotten
    <3>3. ASSUME NEW u \in Tabs
          PROVE  tab'[u].access = "none" /\ \A i \in 1..Len(inbox'[u]) : inbox'[u][i] = "logout"
      <4>1. /\ inbox'[u] = IF u # m.tab /\ tab[u].at = "on" THEN Append(inbox[u], "logout")
                                                           ELSE inbox[u]
            /\ inbox[u] \in Seq(Said)
        BY <3>1, PostIs DEF Base, Said, Shape
      <4>2. \A i \in 1..Len(inbox[u]) : inbox[u][i] = "logout"
        BY DEF Forgotten
      <4>3. \A i \in 1..Len(inbox'[u]) : inbox'[u][i] = "logout"
        BY <4>1, <4>2 DEF Said
      <4> QED BY <2>4, <3>1, <4>3 DEF Forgotten
    <3> QED BY <2>3, <3>1, <3>2, <3>3 DEF Forgotten
  <2> QED BY <1>3, <2>1, <2>2, <2>5, <2>6
<1> QED BY <1>1, <1>2, <1>3 DEF Gone

LEMMA ForgottenStep ==
  ASSUME Base, Forgotten, Forms, left'
  PROVE  Gone'
<1>1. CASE Expires \/ Rests
  <2>1. /\ UNCHANGED <<cookie, remember, net>> /\ UNCHANGED inbox
        /\ \A u \in Tabs : tab[u].access = "none" => tab'[u].access = "none"
    BY <1>1 DEF Expires, Rests
  <2>2. Forgotten'
    BY <2>1 DEF Forgotten
  <2> QED BY <2>2 DEF Gone
<1> QED BY <1>1, UserForgotten, ServerForgotten, AnswerForgotten DEF Forms

\* The site is left only by the last tab that closes.
LEMMA LeftIsDeserted ==
  ASSUME Base, ~left, Forms, left'
  PROVE  Deserted'
<1>1. ~ServerForms /\ ~AnswerForms /\ ~Expires /\ ~Rests
  BY Zenon DEF ServerForms, RotatesToken, RefusesToken, DeletesToken, LogsIn, Breaks, Spoilt,
     AnswerForms, DropsAnswer, TakesLogin, TakesToken, TakesNone, SaysExpired, TakesNews,
     NoAnswer, Expires, Rests
<1>2. PICK t \in Tabs, v \in TabState :
        \/ Opens(t, v) \/ Forgets(t, v) \/ Mounts(t, v) \/ Leaves(t, v) \/ SignsOut(t, v)
        \/ Waits(t, v) \/ Acquires(t, v) \/ Hears(t, v)
        \/ \E keep \in {"true", "false"} : SignsIn(t, keep)
  BY <1>1, Zenon DEF Forms, UserForms
<1>3. /\ Leaves(t, v) /\ \A u \in Tabs : tab'[u] = IF u = t THEN v ELSE tab[u]
  <2>1. Leaves(t, v)
    BY <1>2, Zenon DEF Opens, Forgets, Mounts, SignsOut, Waits, Acquires, Hears, SignsIn
  <2> QED BY <2>1, MovesIs DEF Leaves, Base
<1>4. /\ v.at = "closed" /\ net = {} /\ remember = "false" /\ UNCHANGED remember
      /\ \A u \in Tabs \ {t} : tab[u].at = "closed"
      /\ net' = {}
  BY <1>3 DEF Leaves
<1> QED BY <1>3, <1>4 DEF Deserted

LEMMA LeavingStep == Base /\ Leaving /\ Forms => Leaving'
  BY DesertedStep, ForgettingStep, ForgottenStep, LeftIsDeserted DEF Leaving, Gone

\* Without "remember me" a session does not outlive the site being left: from
\* then on no tab has a token before the next sign-in, and a tab that has opened
\* finds the cookie gone, unless the request that forgets it is not waited for
\* (restoreSession of auth-store.tsx).
THEOREM SessionIsForgotten == Spec => []ForgottenWhenLeft
<1>1. Init => Base /\ Leaving
  BY BaseInit DEF Init, Leaving
<1>2. Base /\ Leaving /\ [Next]_vars => Base' /\ Leaving'
  BY BaseStep, LeavingStep
<1>3. Base /\ Leaving => ForgottenWhenLeft
  <2> SUFFICES ASSUME Base, Gone, NEW t \in Tabs
               PROVE  /\ tab[t].access = "none"
                      /\ (Open(t) /\ tab[t].initial = "done") => cookie = NoToken
    BY DEF ForgottenWhenLeft, Leaving
  <2>1. Absent(t)
    BY DEF Base
  <2> QED BY <2>1 DEF Gone, Deserted, Forgetting, HasCome, Forgotten, Absent, Open
<1> QED BY <1>1, <1>2, <1>3, PTL DEF Spec

=============================================================================
