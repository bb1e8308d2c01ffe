---------------------------- MODULE SessionStore ----------------------------
(***************************************************************************)
(* One profile's sessions and password reset links as the server keeps     *)
(* them (server/profiles.go, server/password_reset.go,                     *)
(* database/refresh_tokens.go, database/password_reset.go).                *)
(*                                                                         *)
(* Handlers run side by side.  At READ COMMITTED a DELETE works from the   *)
(* snapshot its statement began with: a row inserted later is not seen,    *)
(* and a row another transaction deletes first is skipped.  The UPDATE of  *)
(* the profile's password holds the profile's row until its transaction    *)
(* ends, which keeps another reset out but not an INSERT of a token, whose *)
(* foreign key needs only a key-share lock.                                *)
(***************************************************************************)
EXTENDS Integers, FiniteSets

CONSTANTS
  Clients,     \* requests that can be in flight together
  Tokens,      \* refresh tokens; a value is drawn once
  Links,       \* tokens of password reset links; a value is drawn once
  Nothing,     \* no cookie, no link
  MaxOps,      \* bound: requests ever sent
  MaxFaults    \* bound: statements that fail

ASSUME NothingAssumption == Nothing \notin Tokens \cup Links
ASSUME BoundsAssumption == MaxOps \in Nat /\ MaxFaults \in Nat

VARIABLES
  rows,        \* table profile_refresh_tokens
  links,       \* table profile_password_reset_tokens: link -> has it expired?
  password,    \* profiles.password, as the number of times it was set
  drawn,       \* token and link values handed out
  req,         \* the handler of each client's request, and its answer
  ops, faults

\* History variables: they record what happened and no action reads them.
VARIABLES
  resets,      \* links whose reset has committed, as many times as it did
  crowded      \* two link requests have overlapped

tables == <<rows, links, password, drawn>>
bounds == <<ops, faults>>
histVars == <<resets, crowded>>
sysVars == <<tables, req, bounds>>
vars == <<sysVars, histVars>>

\* session: the first token of the session this one was rotated from.
\* begun: the password its login was checked against.
\* late: it was stored by a handler that overlapped a reset.
RowType == [session : Tokens, persistent : BOOLEAN, expired : BOOLEAN,
            begun : Nat, late : BOOLEAN]

Stored == DOMAIN rows
Outstanding == DOMAIN links

Places == {"idle", "check", "store", "refresh", "logout", "linkDelete", "linkInsert",
           "consume", "scan", "commit", "signIn", "answered"}

Idle == [at |-> "idle", kind |-> "none", cookie |-> Nothing, seen |-> 0,
         persistent |-> FALSE, link |-> Nothing, doomed |-> {}, set |-> Nothing,
         ok |-> FALSE]

Handler == [at : Places, kind : {"none", "login", "refresh", "logout", "link", "reset"},
            cookie : Tokens \cup {Nothing}, seen : Nat, persistent : BOOLEAN,
            link : Links \cup {Nothing}, doomed : SUBSET (Tokens \cup Links),
            set : Tokens \cup {Nothing}, ok : BOOLEAN]

TypeOK ==
  /\ rows \in [Stored -> RowType]
  /\ links \in [Outstanding -> BOOLEAN]
  /\ Stored \subseteq drawn \cap Tokens
  /\ Outstanding \subseteq drawn \cap Links
  /\ drawn \subseteq Tokens \cup Links
  /\ password \in Nat
  /\ req \in [Clients -> Handler]
  /\ ops \in 0..MaxOps
  /\ faults \in 0..MaxFaults
  /\ resets \in [Links -> Nat]
  /\ crowded \in BOOLEAN

Init ==
  /\ rows = [token \in {} |-> 0]
  /\ links = [link \in {} |-> FALSE]
  /\ password = 0
  /\ drawn = {}
  /\ req = [c \in Clients |-> Idle]
  /\ ops = 0
  /\ faults = 0
  /\ resets = [link \in Links |-> 0]
  /\ crowded = FALSE

-----------------------------------------------------------------------------
At(c, place) == req[c].at = place

Goto(c, place) == req' = [req EXCEPT ![c].at = place]

\* The answer of c's request: set is the token its cookie carries, if any; ok tells
\* a 2xx from an error.  An answer to a refresh or a logout without a token clears
\* the cookie; the other handlers then leave it alone.
Answer(c, set, ok) ==
  req' = [req EXCEPT ![c] = [Idle EXCEPT !.at = "answered", !.kind = req[c].kind,
                                         !.persistent = req[c].persistent,
                                         !.set = set, !.ok = ok]]

\* A request with local variables r arrives.
Arrive(c, r) ==
  /\ At(c, "idle")
  /\ ops < MaxOps
  /\ ops' = ops + 1
  /\ req' = [req EXCEPT ![c] = r]
  /\ UNCHANGED <<tables, faults, histVars>>

Fault == faults < MaxFaults /\ faults' = faults + 1

\* Resets between the snapshot of their DELETE and their commit.
Resetting == {c \in Clients : At(c, "commit")}

\* NewRefreshToken: a value nobody has had.  Values are only ever compared, so it
\* does not matter which.
Fresh(values) ==
  IF values \subseteq drawn THEN {} ELSE {CHOOSE value \in values : value \notin drawn}

Without(table, gone) == [key \in DOMAIN table \ gone |-> table[key]]
With(table, key, row) == [other \in DOMAIN table \cup {key} |->
                            IF other = key THEN row ELSE table[other]]

-----------------------------------------------------------------------------
(* Logging in, and staying so.                                             *)

Login(c) ==
  \E typed \in 0..password, persistent \in BOOLEAN :
    Arrive(c, [Idle EXCEPT !.at = "check", !.kind = "login", !.seen = typed,
                           !.persistent = persistent])

\* The hash is read and compared with the password typed.
LoginCheck(c) ==
  /\ At(c, "check")
  /\ IF req[c].seen = password THEN Goto(c, "store") ELSE Answer(c, Nothing, FALSE)
  /\ UNCHANGED <<tables, bounds, histVars>>

\* createSession: the token's INSERT, in a statement of its own.
LoginStore(c) ==
  /\ At(c, "store")
  /\ \E token \in Fresh(Tokens) :
       /\ drawn' = drawn \cup {token}
       /\ rows' = With(rows, token,
                    [session |-> token, persistent |-> req[c].persistent,
                     expired |-> FALSE, begun |-> req[c].seen,
                     late |-> req[c].seen # password \/ Resetting # {}])
       /\ Answer(c, token, TRUE)
  /\ UNCHANGED <<links, password, bounds, histVars>>

Refresh(c) ==
  \E cookie \in (Tokens \cap drawn) \cup {Nothing} :
    Arrive(c, [Idle EXCEPT !.at = "refresh", !.kind = "refresh", !.cookie = cookie])

Valid(token) == token \in Stored /\ ~rows[token].expired

\* A fault: the old token stays.
RotatedKeeping(old, new) ==
  With(rows, new, [rows[old] EXCEPT !.late = @ \/ Resetting # {}])

\* RotateRefreshToken: one statement deletes the token and stores its successor.
Rotated(old, new) ==
  With(Without(rows, {old}), new, [rows[old] EXCEPT !.late = @ \/ Resetting # {}])

RefreshRotate(c) ==
  /\ At(c, "refresh")
  /\ Valid(req[c].cookie)
  /\ \E token \in Fresh(Tokens) :
       /\ drawn' = drawn \cup {token}
       /\ rows' = Rotated(req[c].cookie, token)
       /\ Answer(c, token, TRUE)
  /\ UNCHANGED <<links, password, bounds, histVars>>

\* No cookie, or a token that was used, deleted or has expired: the answer is
\* 401, and clears the cookie.
RefreshRefused(c) ==
  /\ At(c, "refresh")
  /\ ~Valid(req[c].cookie)
  /\ Answer(c, Nothing, FALSE)
  /\ UNCHANGED <<tables, bounds, histVars>>

Logout(c) ==
  \E cookie \in (Tokens \cap drawn) \cup {Nothing} :
    Arrive(c, [Idle EXCEPT !.at = "logout", !.kind = "logout", !.cookie = cookie])

LogoutDelete(c) ==
  /\ At(c, "logout")
  /\ rows' = Without(rows, {req[c].cookie})
  /\ Answer(c, Nothing, TRUE)
  /\ UNCHANGED <<links, password, drawn, bounds, histVars>>

-----------------------------------------------------------------------------
(* CreatePasswordResetToken: a transaction of a DELETE and an INSERT.      *)

RequestLink(c) == Arrive(c, [Idle EXCEPT !.at = "linkDelete", !.kind = "link"])

\* A fault: only the expired links are swept.
ExpiredLinks == {link \in Outstanding : links[link]}

\* What the DELETE of the links finds: every one of the profile.
LinksToReplace == Outstanding

LinkDelete(c) ==
  /\ At(c, "linkDelete")
  /\ req' = [req EXCEPT ![c].at = "linkInsert", ![c].doomed = LinksToReplace]
  /\ UNCHANGED <<tables, bounds, histVars>>

Consuming == {req[c].link : c \in {d \in Clients : req[d].at \in {"scan", "commit"}}}

\* The DELETE waits for a reset that has taken one of its links.
LinkInsert(c) ==
  /\ At(c, "linkInsert")
  /\ req[c].doomed \cap Consuming = {}
  /\ \E link \in Fresh(Links) :
       /\ drawn' = drawn \cup {link}
       /\ links' = With(Without(links, req[c].doomed), link, FALSE)
  /\ crowded' = (crowded \/ \E d \in Clients \ {c} : At(d, "linkInsert"))
  /\ Answer(c, Nothing, TRUE)
  /\ UNCHANGED <<rows, password, bounds, resets>>

-----------------------------------------------------------------------------
(* ResetPassword: one transaction takes the link, sets the password and    *)
(* deletes the sessions; the handler then signs the client in.             *)

ConfirmReset(c) ==
  \E link \in Links \cap drawn :
    Arrive(c, [Idle EXCEPT !.at = "consume", !.kind = "reset", !.link = link,
                           !.persistent = TRUE])

\* A fault: the link is looked up, and not locked.
ConsumeUnlocked(c) ==
  /\ At(c, "consume")
  /\ IF req[c].link \in Outstanding /\ ~links[req[c].link]
     THEN Goto(c, "scan")
     ELSE Answer(c, Nothing, FALSE)
  /\ UNCHANGED <<tables, bounds, histVars>>

\* The DELETE of the link waits for whoever is deleting it.
ResetConsume(c) ==
  /\ At(c, "consume")
  /\ req[c].link \notin Consuming
  /\ IF req[c].link \in Outstanding /\ ~links[req[c].link]
     THEN Goto(c, "scan")
     ELSE Answer(c, Nothing, FALSE)
  /\ UNCHANGED <<tables, bounds, histVars>>

\* A fault: each reset waits for every other that has begun.
ProfileFreeOfResets(c) == \A d \in Clients \ {c} : req[d].at \notin {"scan", "commit"}

\* The UPDATE waits for the reset that holds the profile's row.
ProfileFree(c) == Resetting = {}

\* A fault: only the sessions of an earlier password are taken.
SessionsBefore == {token \in Stored : rows[token].begun < password}

\* What the DELETE of the sessions finds.
SessionsToEnd == Stored

ResetScan(c) ==
  /\ At(c, "scan")
  /\ ProfileFree(c)
  /\ req' = [req EXCEPT ![c].at = "commit", ![c].doomed = SessionsToEnd]
  /\ UNCHANGED <<tables, bounds, histVars>>

ResetCommit(c) ==
  /\ At(c, "commit")
  /\ rows' = Without(rows, req[c].doomed)
  /\ links' = Without(links, {req[c].link})
  /\ password' = password + 1
  /\ resets' = [resets EXCEPT ![req[c].link] = @ + 1]
  /\ req' = [req EXCEPT ![c].at = "signIn", ![c].doomed = {}]
  /\ UNCHANGED <<drawn, bounds, crowded>>

ResetSignIn(c) ==
  /\ At(c, "signIn")
  /\ \E token \in Fresh(Tokens) :
       /\ drawn' = drawn \cup {token}
       /\ rows' = With(rows, token, [session |-> token, persistent |-> TRUE, expired |-> FALSE,
                                     begun |-> password, late |-> Resetting # {}])
       /\ Answer(c, token, TRUE)
  /\ UNCHANGED <<links, password, bounds, histVars>>

-----------------------------------------------------------------------------
\* A statement fails, and what its transaction did is undone.  A refresh then
\* clears the cookie; a logout answers as if all were well.
StatementFails(c) ==
  /\ req[c].at \notin {"idle", "answered"}
  /\ Fault
  /\ Answer(c, Nothing, req[c].kind = "logout")
  /\ UNCHANGED <<tables, ops, histVars>>

\* expires_at passes.
ExpireToken(token) ==
  /\ Valid(token)
  /\ rows' = [rows EXCEPT ![token].expired = TRUE]
  /\ UNCHANGED <<links, password, drawn, req, bounds, histVars>>

ExpireLink(link) ==
  /\ link \in Outstanding
  /\ ~links[link]
  /\ links' = [links EXCEPT ![link] = TRUE]
  /\ UNCHANGED <<rows, password, drawn, req, bounds, histVars>>

\* The client has its answer.
Done(c) ==
  /\ At(c, "answered")
  /\ req' = [req EXCEPT ![c] = Idle]
  /\ UNCHANGED <<tables, bounds, histVars>>

-----------------------------------------------------------------------------
Serve(c) ==
  \/ LoginCheck(c) \/ LoginStore(c) \/ RefreshRotate(c) \/ RefreshRefused(c)
  \/ LogoutDelete(c) \/ LinkDelete(c) \/ LinkInsert(c)
  \/ ResetConsume(c) \/ ResetScan(c) \/ ResetCommit(c) \/ ResetSignIn(c)

Send(c) ==
  \/ Login(c) \/ Refresh(c) \/ Logout(c) \/ RequestLink(c) \/ ConfirmReset(c)

Expire ==
  \/ \E token \in Tokens : ExpireToken(token)
  \/ \E link \in Links : ExpireLink(link)

Next == (\E c \in Clients : Send(c) \/ Serve(c) \/ StatementFails(c) \/ Done(c)) \/ Expire

Spec == Init /\ [][Next]_vars

\* The server works on every request it has.
FairSpec == Spec /\ \A c \in Clients : WF_sysVars(Serve(c))

-----------------------------------------------------------------------------
(* Properties.                                                             *)

\* A session has one token: RotateRefreshToken "consumes a valid token and
\* replaces it", so requests that rotate the same token at once do not split
\* the session in two.
OneTokenPerSession ==
  \A one, other \in Stored : rows[one].session = rows[other].session => one = other

\* A reset link sets at most one password, whoever confirms it at once.
LinkUsedOnce == \A link \in Links : resets[link] <= 1

\* ResetPassword "signs out every session": a session that was begun with an
\* earlier password was stored, by a login or a refresh, while the reset ran.
ResetEndsSessions ==
  \A token \in Stored : rows[token].begun < password => rows[token].late

\* CreatePasswordResetToken "replaces the profile's outstanding reset token":
\* two are outstanding only after two requests overlapped.
OneLink == Cardinality(Outstanding) > 1 => crowded

\* No two transactions wait for each other: every request is answered.
RequestsAnswered ==
  \A c \in Clients : req[c].at \notin {"idle", "answered"} ~> req[c].at \in {"idle", "answered"}

=============================================================================
