---------------------------- MODULE BrowserSession ----------------------------
(***************************************************************************)
(* One browser's session with the site: its tabs, each with an access      *)
(* token in memory (stores/auth-store.tsx, api/client.ts), the refresh     *)
(* cookie and the "remember me" flag they share, the lock and the          *)
(* broadcast channel between them, and the handlers that rotate and delete *)
(* the refresh token behind the cookie (server/profiles.go).               *)
(*                                                                         *)
(* A request carries the cookie of the moment it is sent and its answer    *)
(* sets the cookie when it arrives, so answers take effect in any order.   *)
(* A tab that is closed or reloaded leaves its requests behind: they may   *)
(* be served, and their answers may set the cookie, but nobody waits.      *)
(*                                                                         *)
(* A refresh token is <<session, turn>>; each rotation takes the next turn.*)
(***************************************************************************)
EXTENDS Integers, FiniteSets, Sequences

CONSTANTS
  Tabs,
  Nobody,       \* whom no tab's request belongs to; who holds a free lock
  MaxInFlight,  \* bound: requests at a time, but for those a request leads to
  MaxVisits,    \* bound: tabs opened or reloaded
  MaxSignIns,   \* bound: sign-ins
  MaxExpiries,  \* bound: times the access tokens run out
  MaxFaults     \* bound: requests lost, database errors, pings not heard

ASSUME NobodyAssumption == Nobody \notin Tabs

VARIABLES
  rows,         \* table profile_refresh_tokens
  signIns,      \* sessions ever created
  cookie,       \* the profile_refresh cookie
  remember,     \* localStorage profile-remember
  tab,          \* what each tab holds
  lock,         \* navigator.locks profile-refresh
  inbox,        \* messages of the channel profile-auth not yet handled
  net,          \* the requests under way
  visits, expiries, faults \* how many there have been

\* History variables: they record what happened and no action reads them.
VARIABLES
  surprised,    \* a tab was told that its session expired, and nothing explains it
  upset,        \* something that may end the session happened to it
  out,          \* the session a sign-out nothing crossed was for, or 0
  left          \* the site was left with a session not to be remembered

server == <<rows, signIns>>
browser == <<cookie, remember, tab, lock, inbox>>
counts == <<visits, expiries, faults>>
history == <<surprised, upset, out, left>>
vars == <<server, browser, net, counts, history>>

NoToken == <<0, 0>>
Closed == [at |-> "closed", initial |-> "done", access |-> "none", live |-> FALSE,
           refresh |-> "no", call |-> "none"]

Init ==
  /\ rows = {} /\ signIns = 0
  /\ cookie = NoToken /\ remember = "none"
  /\ tab = [t \in Tabs |-> Closed]
  /\ lock = Nobody /\ inbox = [t \in Tabs |-> << >>] /\ net = {}
  /\ visits = 0 /\ expiries = 0 /\ faults = 0
  /\ surprised = FALSE /\ upset = FALSE /\ out = 0 /\ left = FALSE

-----------------------------------------------------------------------------
(* Requests. *)

Open(t) == tab[t].at \in {"boot", "on"}
Quiet == net = {} /\ \A t \in Tabs : inbox[t] = << >>
UnderWay(kinds) == \E m \in net : m.kind \in kinds

\* fetch(..., credentials: 'include'): the cookie goes along as it is now.
Request(t, kind, keep) ==
  [tab |-> t, kind |-> kind, way |-> "to", cookie |-> cookie, remember |-> keep]

\* An answer carries the cookie it sets.
Answered(m, token) == [m EXCEPT !.way = "back", !.cookie = token]

Fault == faults < MaxFaults /\ faults' = faults + 1

-----------------------------------------------------------------------------
(* What a tab does with a token. *)

\* applyToken: the token, and the mark of a live session in sessionStorage.
Applied(tb, access) == [tb EXCEPT !.access = access, !.live = access # "none"]

\* A fault: a tab whose token has run out is not told.
PostLive(t, what) ==
  inbox' = [u \in Tabs |-> IF u # t /\ tab[u].at = "on" /\ tab[u].access = "good"
                             THEN Append(inbox[u], what) ELSE inbox[u]]

\* channelRef.current?.postMessage: every other tab whose provider is mounted.
Post(t, what) ==
  inbox' = [u \in Tabs |-> IF u # t /\ tab[u].at = "on" THEN Append(inbox[u], what)
                                                         ELSE inbox[u]]

\* logout of the provider; tb is the tab's record, rest the requests left.
LogOut(t, tb, rest) ==
  /\ net' = rest \cup {Request(t, "logout", "none")}
  /\ remember' = "none"
  /\ tab' = [tab EXCEPT ![t] = Applied(tb, "none")]
  /\ Post(t, "logout")

-----------------------------------------------------------------------------
(* The user. *)

\* Only tabs that are open and live answer the ping of another.
OtherTabLive(t) == \E u \in Tabs \ {t} : Open(u) /\ tab[u].live

MayForget(t) == remember = "false" /\ ~tab[t].live

\* restoreSession, started at import; a ping may time out in a tab put to sleep.
OpenTab(t) ==
  /\ tab[t].at \in {"closed", "reloading"}
  /\ visits < MaxVisits /\ Cardinality(net) < MaxInFlight
  /\ visits' = visits + 1
  /\ \/ /\ MayForget(t)
        /\ \/ ~OtherTabLive(t) /\ UNCHANGED faults
           \/ OtherTabLive(t) /\ Fault
        /\ remember' = "none"
        /\ net' = net \cup {Request(t, "forget", "none")}
        /\ tab' = [tab EXCEPT ![t].at = "boot", ![t].initial = "forget"]
        /\ upset' = TRUE
        /\ left' = (left /\ ~OtherTabLive(t))
     \/ /\ ~MayForget(t) \/ OtherTabLive(t)
        /\ tab' = [tab EXCEPT ![t].at = "boot", ![t].initial = "refresh",
                              ![t].refresh = "queued"]
        /\ left' = (left /\ ~UnderWay({"forget"}))
        /\ UNCHANGED <<remember, net, faults, upset>>
  /\ UNCHANGED <<server, cookie, lock, inbox, expiries, surprised, out>>

\* The provider's effects: the listeners, and the token a refresh already got.
Mount(t) ==
  /\ tab[t].at = "boot"
  /\ tab' = [tab EXCEPT ![t].at = "on", ![t].live = @ \/ tab[t].access # "none"]
  /\ UNCHANGED <<server, cookie, remember, lock, inbox, net, counts, history>>

\* A fault: the mark is in localStorage.
MarkStays(tb, reload) == tb.live

\* sessionStorage outlives a reload, not the tab.
MarkKept(tb, reload) == reload /\ tb.live

\* The tab is closed or reloaded, one tab's requests left behind at a time.
Leave(t, reload) ==
  /\ Open(t) /\ \A m \in net : m.tab # Nobody
  /\ tab' = [tab EXCEPT ![t] =
       [Closed EXCEPT !.at = IF reload THEN "reloading" ELSE "closed",
                      !.live = MarkKept(tab[t], reload)]]
  /\ inbox' = [inbox EXCEPT ![t] = << >>]
  /\ lock' = IF lock = t THEN Nobody ELSE lock
  /\ net' = {IF m.tab = t THEN [m EXCEPT !.tab = Nobody] ELSE m : m \in net}
  /\ upset' = (upset \/ \E m \in net : m.tab = t)
  /\ out' = IF UnderWay({"logout", "login"}) THEN 0 ELSE out
  /\ left' = \/ left /\ ~UnderWay({"forget", "login"})
             \/ /\ ~reload /\ net = {} /\ remember = "false"
                /\ \A u \in Tabs \ {t} : tab[u].at = "closed"
  /\ UNCHANGED <<server, cookie, remember, counts, surprised>>

\* AuthForms, shown once the tab knows that nobody is signed in.
SignIn(t, keep) ==
  /\ tab[t].at = "on" /\ tab[t].initial = "done" /\ tab[t].access = "none"
  /\ Cardinality(net) < MaxInFlight
  /\ ~\E m \in net : m.tab = t /\ m.kind = "login"
  /\ signIns + Cardinality({m \in net : m.kind = "login" /\ m.way = "to"}) < MaxSignIns
  /\ net' = net \cup {Request(t, "login", keep)}
  /\ UNCHANGED <<server, browser, counts, history>>

\* Header: "Log out".
SignOut(t) ==
  /\ tab[t].at = "on" /\ tab[t].access # "none" /\ Cardinality(net) < MaxInFlight
  /\ LogOut(t, tab[t], net)
  /\ upset' = TRUE
  /\ out' = IF /\ net = {} /\ inbox[t] = << >> /\ cookie \in rows
               /\ \A u \in Tabs : tab[u].at # "boot"
              THEN cookie[1] ELSE 0
  /\ UNCHANGED <<server, cookie, lock, counts, surprised, left>>

\* Fifteen minutes pass; requests and messages take less.
Expire ==
  /\ Quiet /\ expiries < MaxExpiries
  /\ \E t \in Tabs : tab[t].access = "good"
  /\ tab' = [t \in Tabs |-> IF tab[t].access = "good"
                              THEN [tab[t] EXCEPT !.access = "old"] ELSE tab[t]]
  /\ expiries' = expiries + 1
  /\ UNCHANGED <<server, cookie, remember, lock, inbox, net, visits, faults, history>>

-----------------------------------------------------------------------------
(* api/client.ts *)

\* A request with a token that has run out is refused: it waits for a refresh,
\* the one under way if there is one.
Unauthorized(t) ==
  /\ tab[t].at = "on" /\ tab[t].access = "old" /\ tab[t].call = "none"
  /\ tab' = [tab EXCEPT ![t].call = "waits",
                        ![t].refresh = IF @ = "no" THEN "queued" ELSE @]
  /\ UNCHANGED <<server, cookie, remember, lock, inbox, net, counts, history>>

\* A fault: tabs do not wait for each other.
GrantedAtOnce(t) == tab[t].refresh = "queued"

\* navigator.locks.request('profile-refresh')
Granted(t) == tab[t].refresh = "queued" /\ lock = Nobody

\* requestAccessToken
Acquire(t) ==
  /\ Granted(t)
  /\ lock' = t
  /\ tab' = [tab EXCEPT ![t].refresh = "sent"]
  /\ net' = net \cup {Request(t, "refresh", "none")}
  /\ out' = IF UnderWay({"logout"}) THEN 0 ELSE out
  /\ UNCHANGED <<server, cookie, remember, inbox, counts, surprised, upset, left>>

\* refreshInFlight ends: the initial refresh and the call that shared it go on.
Refreshed(tb) ==
  [tb EXCEPT !.refresh = "no", !.call = IF @ = "waits" THEN "none" ELSE @,
             !.initial = IF @ = "refresh" THEN "done" ELSE @]

\* A token before the provider listens is kept; after, it is a login for all.
RefreshSucceeds(t, rest) ==
  /\ net' = rest
  /\ tab' = [tab EXCEPT ![t] =
       IF tab[t].at = "boot" THEN [Refreshed(tab[t]) EXCEPT !.access = "good"]
                             ELSE Applied(Refreshed(tab[t]), "good")]
  /\ IF tab[t].at = "boot" THEN UNCHANGED inbox ELSE Post(t, "login")
  /\ UNCHANGED <<remember, surprised>>

\* The session expired only for a call that waited for the token.
RefreshFails(t, rest, lost) ==
  IF tab[t].call = "waits"
    THEN /\ LogOut(t, Refreshed(tab[t]), rest)
         /\ surprised' = (surprised \/ ~(upset \/ lost))
    ELSE /\ net' = rest /\ tab' = [tab EXCEPT ![t] = Refreshed(tab[t])]
         /\ UNCHANGED <<inbox, remember, surprised>>

-----------------------------------------------------------------------------
(* server/profiles.go *)

Rotated(token) == <<token[1], token[2] + 1>>

\* handleRefreshProfile
HandleRefresh(m) ==
  IF m.cookie \in rows
    THEN /\ rows' = (rows \ {m.cookie}) \cup {Rotated(m.cookie)}
         /\ net' = (net \ {m}) \cup {Answered(m, Rotated(m.cookie))}
    ELSE /\ net' = (net \ {m}) \cup {Answered(m, NoToken)}
         /\ UNCHANGED rows

\* handleLogoutProfile
HandleLogout(m) ==
  /\ rows' = rows \ {m.cookie}
  /\ net' = (net \ {m}) \cup {Answered(m, NoToken)}

\* handleLoginProfile and handleCreateProfile, the password right
HandleLogin(m) ==
  /\ signIns' = signIns + 1
  /\ rows' = rows \cup {<<signIns + 1, 1>>}
  /\ net' = (net \ {m}) \cup {Answered(m, <<signIns + 1, 1>>)}

Serve ==
  /\ \E m \in {r \in net : r.way = "to"} :
       \/ m.kind = "refresh" /\ HandleRefresh(m) /\ UNCHANGED signIns
       \/ m.kind \in {"logout", "forget"} /\ HandleLogout(m) /\ UNCHANGED signIns
       \/ m.kind = "login" /\ HandleLogin(m)
  /\ UNCHANGED <<browser, counts, history>>

\* The database fails: the cookie is cleared all the same, and the statement may
\* have been committed.  A login that fails so leaves the cookie alone.
DatabaseFails(m) ==
  /\ m \in net /\ m.way = "to" /\ m.kind # "login" /\ Fault
  /\ \/ UNCHANGED rows
     \/ /\ m.kind = "refresh" /\ m.cookie \in rows
        /\ rows' = (rows \ {m.cookie}) \cup {Rotated(m.cookie)}
  /\ net' = (net \ {m}) \cup {Answered(m, NoToken)}
  /\ upset' = TRUE /\ out' = 0 /\ left' = FALSE
  /\ UNCHANGED <<signIns, browser, visits, expiries, surprised>>

-----------------------------------------------------------------------------
(* Answers and messages. *)

Unlocked(m) == lock' = IF m.kind = "refresh" THEN Nobody ELSE lock

\* login with the "remember me" of the form
LoginAnswered(m) ==
  /\ net' = net \ {m}
  /\ remember' = m.remember
  /\ tab' = [tab EXCEPT ![m.tab] = Applied(tab[m.tab], "good")]
  /\ Post(m.tab, "login")
  /\ UNCHANGED surprised
  /\ upset' = (net # {m})
  /\ out' = 0 /\ left' = FALSE

\* An answer arrives: its cookie is set, and the tab that waits goes on.
Deliver(m) ==
  /\ m \in net /\ m.way = "back" /\ m.tab # Nobody
  /\ cookie' = m.cookie
  /\ Unlocked(m)
  /\ CASE m.kind = "login" -> LoginAnswered(m)
       [] m.kind = "refresh" ->
            /\ IF m.cookie # NoToken THEN RefreshSucceeds(m.tab, net \ {m})
                       ELSE RefreshFails(m.tab, net \ {m}, FALSE)
            /\ UNCHANGED <<upset, out, left>>
       [] OTHER ->
            /\ net' = net \ {m}
            /\ tab' = [tab EXCEPT ![m.tab].initial =
                         IF m.kind = "forget" THEN "done" ELSE @]
            /\ UNCHANGED <<inbox, remember, history>>
  /\ UNCHANGED <<server, counts>>

\* A request nobody waits for any more: served or not, its cookie set or not.
DeliverLeft(m) ==
  /\ m \in net /\ m.tab = Nobody
  /\ \/ m.way = "back" /\ cookie' = m.cookie
     \/ UNCHANGED cookie
  /\ net' = net \ {m}
  /\ UNCHANGED <<server, remember, tab, lock, inbox, counts, history>>

\* The request, or its answer, is lost: fetch throws, which a refresh and a
\* forgetting tab catch.
Lose(m) ==
  /\ m \in net /\ m.tab # Nobody /\ Fault
  /\ Unlocked(m)
  /\ IF m.kind = "refresh"
       THEN RefreshFails(m.tab, net \ {m}, TRUE)
       ELSE /\ net' = net \ {m}
            /\ tab' = [tab EXCEPT ![m.tab].initial =
                         IF m.kind = "forget" THEN "done" ELSE @]
            /\ UNCHANGED <<inbox, remember, surprised>>
  /\ upset' = TRUE /\ out' = 0 /\ left' = FALSE
  /\ UNCHANGED <<server, cookie, visits, expiries>>

\* channel.onmessage
Receive(t) ==
  /\ inbox[t] # << >>
  /\ tab' = [tab EXCEPT ![t] =
       Applied(@, IF Head(inbox[t]) = "login" THEN "good" ELSE "none")]
  /\ inbox' = [inbox EXCEPT ![t] = Tail(@)]
  /\ UNCHANGED <<server, cookie, remember, lock, net, counts, history>>

Next ==
  \/ \E t \in Tabs :
       \/ OpenTab(t) \/ Mount(t)
       \/ \E reload \in BOOLEAN : Leave(t, reload)
       \/ \E keep \in {"true", "false"} : SignIn(t, keep)
       \/ SignOut(t) \/ Unauthorized(t) \/ Acquire(t) \/ Receive(t)
  \/ Expire
  \/ Serve
  \/ \E m \in net : Deliver(m) \/ DeliverLeft(m) \/ DatabaseFails(m) \/ Lose(m)

Spec == Init /\ [][Next]_vars

-----------------------------------------------------------------------------
(* Properties *)

\* A tab tells its user that the session expired (client.ts:93) only if it was
\* signed out or forgotten, a request or a database call failed, a tab was left
\* with a request under way, or a sign-in crossed another request: tabs that
\* refresh, reload and hear of each other's tokens do not end their session.
ToldOnlyIfEnded == ~surprised

\* A sign-out that no refresh, sign-in, opening tab or failure crosses holds for
\* the whole browser: when its request and messages have arrived, the session's
\* refresh token and the cookie are gone and no tab has a token.
SignOutHolds ==
  (out # 0 /\ ~UnderWay({"logout"}) /\ \A t \in Tabs : inbox[t] = << >>) =>
    /\ cookie = NoToken
    /\ \A token \in rows : token[1] # out
    /\ \A t \in Tabs : tab[t].access = "none"

\* auth-store.tsx:61 "Without "remember me", a session only survives reloads and
\* other open tabs, not leaving the site": once the last tab is closed no tab is
\* given a token again before the next sign-in, and a tab that has opened finds
\* the cookie gone, unless the request that forgets it is not waited for: it
\* fails, its tab is left, or a second tab opens before it is answered.
ForgottenWhenLeft ==
  left => \A t \in Tabs :
            /\ tab[t].access = "none"
            /\ (Open(t) /\ tab[t].initial = "done") => cookie = NoToken

=============================================================================
