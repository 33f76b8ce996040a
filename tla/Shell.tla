-------------------------------- MODULE Shell -------------------------------
(***************************************************************************)
(* The shell of the UI in one tab: whether someone is signed in (App), the *)
(* login page, the hop to the identity provider it may make by itself, and *)
(* the poll that watches for a running scan.  Requests to fs_api overlap   *)
(* and are answered, or fail, in any order; the session may end at any     *)
(* time; a reload or a hop loses everything but the cookie and the time of *)
(* the last automatic hop (sessionStorage).                                *)
(***************************************************************************)
EXTENDS Naturals, FiniteSets

CONSTANTS
    Cooldown,         \* AUTO_REDIRECT_COOLDOWN_MS, in ticks
    MaxCalls          \* bound: requests in flight before the user asks for more

ASSUME ShellAssumption == Cooldown \in Nat \ {0} /\ MaxCalls \in Nat

VARIABLES
    setup,            \* auth.mode, auth.oidc.auto_redirect, and whether the tab has storage
    valid,            \* the cookie of the browser names a session
    page,             \* "app", or "idp" while the tab is at the identity provider
    me,               \* undefined, null or someone: "checking", "out", "in"
    signedOut,
    mode, login,      \* of the login page: what it offers; its error and loading
    runningScan,      \* the badge
    stamp,            \* ticks since the automatic hop in sessionStorage
    calls             \* requests in flight

vars == <<setup, valid, page, me, signedOut, mode, login, runningScan, stamp, calls>>

\* `guard` is the noAutoRedirect a request for the mode was sent under; `live`
\* says that the component, or the effect, that sent it is still there.
Call(kind, guard) == [kind |-> kind, guard |-> guard, live |-> TRUE, reply |-> "none"]
Fresh == [error |-> "", loading |-> FALSE]

\* The page is loaded: App asks who is signed in.
Load ==
    /\ page' = "app" /\ me' = "checking" /\ signedOut' = FALSE
    /\ mode' = "loading" /\ login' = Fresh /\ runningScan' = FALSE
    /\ calls' = {Call("me", FALSE)}

Init ==
    /\ setup \in {s \in [mode : {"local", "oidc"}, auto : BOOLEAN, storage : BOOLEAN] :
                     s.mode = "local" => ~s.auto}
    /\ valid \in BOOLEAN /\ stamp = Cooldown
    /\ page = "app" /\ me = "checking" /\ signedOut = FALSE
    /\ mode = "loading" /\ login = Fresh /\ runningScan = FALSE
    /\ calls = {Call("me", FALSE)}

\* The requests left by a component that is no longer there.
Orphaned(cs, kinds) == {IF c.kind \in kinds THEN [c EXCEPT !.live = FALSE] ELSE c : c \in cs}

\* setMe and setSignedOut, and the effects of the render that follows, with cs
\* still in flight: App polls while someone is signed in, and a LoginPage that
\* is mounted, or given another noAutoRedirect, asks for the mode.
SetMe(who, away, cs) ==
    /\ me' = who /\ signedOut' = away
    /\ IF who = "out"
       THEN /\ IF me = "out" THEN UNCHANGED mode ELSE mode' = "loading"
            /\ calls' = Orphaned(cs, {"poll"})
                        \cup (IF me = "out" /\ away = signedOut THEN {} ELSE {Call("mode", away)})
       ELSE /\ mode' = "loading"
            /\ calls' = Orphaned(cs, {"mode", "login"})
                        \cup (IF me = "in" THEN {} ELSE {Call("poll", FALSE)})

\* Of a login page that is mounted or unmounted, nothing is left.
KeepLogin == login' = IF me' = me THEN login ELSE Fresh

-----------------------------------------------------------------------------
\* fs_api handles a request: it looks the session up, or ends it.
Serve(c) ==
    /\ page = "app" /\ c \in calls /\ c.reply = "none"
    /\ \E reply \in CASE c.kind = "me"    -> {IF valid THEN "ok" ELSE "401"}
                      [] c.kind = "poll"  -> IF valid THEN {"running", "idle"} ELSE {"401"}
                      [] c.kind = "login" -> IF setup.mode = "local" THEN {"ok", "refused"} ELSE {"refused"}
                      [] OTHER            -> {"ok"} :
         calls' = (calls \ {c}) \cup {[c EXCEPT !.reply = reply]}
    /\ valid' = (valid /\ c.kind # "logout")
    /\ UNCHANGED <<setup, page, me, signedOut, mode, login, runningScan, stamp>>

Answered(c, kind) == page = "app" /\ c \in calls /\ c.kind = kind /\ c.reply # "none"

\* What fs_api may still do with a request that the tab no longer waits for.
Abandon == valid' \in {valid} \cup {FALSE : c \in {d \in calls : d.kind = "logout"}}
                              \cup {TRUE : c \in {d \in calls : d.kind = "login" /\ setup.mode = "local"}}

\* The tab leaves for /auth/oidc/start, and keeps nothing.
Leave ==
    /\ page' = "idp" /\ me' = "checking" /\ signedOut' = FALSE /\ mode' = "loading"
    /\ login' = Fresh /\ runningScan' = FALSE /\ calls' = {}
    /\ Abandon

\* loadMe.
LandMe(c) ==
    /\ Answered(c, "me")
    /\ SetMe(IF c.reply = "ok" THEN "in" ELSE "out", signedOut, calls \ {c}) /\ KeepLogin
    /\ UNCHANGED <<setup, valid, page, runningScan, stamp>>

\* tryAutoRedirect: without storage, or within the cooldown, it stays.
tryAutoRedirect == setup.storage /\ stamp = Cooldown

\* Mutation: any tab may hop again at once.
HopUnstamped(c) ==
    /\ Answered(c, "mode") /\ setup.auto /\ ~c.guard /\ tryAutoRedirect
    /\ Leave /\ UNCHANGED <<setup, stamp>>

\* The answer sends the tab to the identity provider.
Hop(c) ==
    /\ Answered(c, "mode") /\ setup.auto /\ ~c.guard /\ tryAutoRedirect
    /\ stamp' = 0 /\ Leave /\ UNCHANGED setup

\* ... or becomes what the login page offers.
Offer(c) ==
    /\ Answered(c, "mode") /\ ~(setup.auto /\ ~c.guard /\ tryAutoRedirect)
    /\ mode' = IF c.live THEN setup.mode ELSE mode
    /\ calls' = calls \ {c}
    /\ UNCHANGED <<setup, valid, page, me, signedOut, login, runningScan, stamp>>

\* handleLocalLogin: onLogin is App's loadMe.
LandLogin(c) ==
    /\ Answered(c, "login")
    /\ login' = IF ~c.live THEN login
                ELSE [error |-> IF c.reply = "ok" THEN "" ELSE "refused", loading |-> FALSE]
    /\ calls' = (calls \ {c}) \cup (IF c.reply = "ok" THEN {Call("me", FALSE)} ELSE {})
    /\ valid' = (valid \/ c.reply = "ok")
    /\ UNCHANGED <<setup, page, me, signedOut, mode, runningScan, stamp>>

\* Signing out, whatever the status of the answer.
LandLogout(c) ==
    /\ Answered(c, "logout")
    /\ SetMe("out", TRUE, calls \ {c}) /\ KeepLogin
    /\ UNCHANGED <<setup, valid, page, runningScan, stamp>>

\* Mutation: the 401 of a poll is best-effort, too.
LandPollQuietly(c) ==
    /\ Answered(c, "poll")
    /\ runningScan' = IF c.live /\ c.reply # "401" THEN c.reply = "running" ELSE runningScan
    /\ calls' = calls \ {c}
    /\ UNCHANGED <<setup, valid, page, me, signedOut, mode, login, stamp>>

\* A call of fsApi: a 401 fires the hook that App has registered (fail), also
\* when the effect that sent it is gone.
LandPoll(c) ==
    /\ Answered(c, "poll")
    /\ IF c.reply = "401"
       THEN SetMe("out", signedOut, calls \ {c}) /\ KeepLogin /\ UNCHANGED runningScan
       ELSE /\ runningScan' = IF c.live THEN c.reply = "running" ELSE runningScan
            /\ calls' = calls \ {c}
            /\ UNCHANGED <<me, signedOut, mode, login>>
    /\ UNCHANGED <<setup, valid, page, stamp>>

\* No answer arrives, whether fs_api has handled the request or not.  Without
\* a mode, the form is shown; a sign-out has no catch.
Fail(c) ==
    /\ page = "app" /\ c \in calls
    /\ IF c.kind = "me" THEN SetMe("out", signedOut, calls \ {c}) /\ KeepLogin
       ELSE /\ calls' = calls \ {c}
            /\ mode' = IF c.kind = "mode" /\ c.live THEN "local" ELSE mode
            /\ login' = IF c.kind = "login" /\ c.live THEN [error |-> "network", loading |-> FALSE] ELSE login
            /\ UNCHANGED <<me, signedOut>>
    /\ valid' \in {valid} \cup (IF c.kind = "login" /\ c.reply = "ok" THEN {TRUE} ELSE {})
    /\ UNCHANGED <<setup, page, runningScan, stamp>>

Settle ==
    \E c \in calls :
        \/ Serve(c) \/ LandMe(c) \/ Hop(c) \/ Offer(c) \/ LandLogin(c)
        \/ LandLogout(c) \/ LandPoll(c) \/ Fail(c)

-----------------------------------------------------------------------------
Send(c) ==
    /\ calls' = calls \cup {c}
    /\ UNCHANGED <<setup, valid, page, me, signedOut, mode, runningScan, stamp>>

\* "Sign out".
Logout ==
    /\ page = "app" /\ me = "in" /\ Cardinality(calls) < MaxCalls
    /\ Send(Call("logout", FALSE)) /\ UNCHANGED login

\* The interval of the poll.
PollTimer == page = "app" /\ me = "in" /\ Send(Call("poll", FALSE)) /\ UNCHANGED login

Submit ==
    /\ page = "app" /\ me = "out" /\ mode = "local" /\ ~login.loading
    /\ Cardinality(calls) < MaxCalls
    /\ login' = [error |-> "", loading |-> TRUE]
    /\ Send(Call("login", FALSE))

\* "Sign in with SSO".
FollowLink ==
    /\ page = "app" /\ me = "out" /\ mode = "oidc"
    /\ Leave /\ UNCHANGED <<setup, stamp>>

Reload == page = "app" /\ Load /\ Abandon /\ UNCHANGED <<setup, stamp>>

\* Back from the identity provider, with a session or without: refused, or the
\* cookie was dropped on the way.
IdpReturns == page = "idp" /\ Load /\ valid' \in {valid, TRUE} /\ UNCHANGED <<setup, stamp>>

\* It expires, is revoked, or another tab signs out.
SessionEnds ==
    /\ valid /\ valid' = FALSE
    /\ UNCHANGED <<setup, page, me, signedOut, mode, login, runningScan, stamp, calls>>

Tick ==
    /\ stamp < Cooldown /\ stamp' = stamp + 1
    /\ UNCHANGED <<setup, valid, page, me, signedOut, mode, login, runningScan, calls>>

Next ==
    \/ Settle \/ Logout \/ PollTimer \/ Submit \/ FollowLink \/ Reload \/ IdpReturns
    \/ SessionEnds \/ Tick

\* The network answers or fails, and does not lose every poll; the identity
\* provider sends the tab back; the timer of the poll fires.
Fairness ==
    /\ WF_vars(Settle) /\ WF_vars(IdpReturns) /\ WF_vars(PollTimer)
    /\ SF_vars(\E c \in calls : c.kind = "poll" /\ Serve(c)) /\ SF_vars(\E c \in calls : LandPoll(c))
Spec == Init /\ [][Next]_vars /\ Fairness

-----------------------------------------------------------------------------
\* A visitor is neither left before "Loading..." nor sent back and forth
\* between Cuttlefish and the identity provider for ever: in the end someone is
\* signed in, or there is a way to, unless the visitor keeps reloading, or every
\* round takes longer than the cooldown.
LoginOffered ==
    \/ []<>(me = "in" \/ mode # "loading")
    \/ []<><<Reload>>_vars \/ []<><<Tick /\ stamp' = Cooldown>>_vars

\* A session that has ended is noticed, even by someone who does nothing: the
\* pages do not go on showing what may no longer be seen.
GoneIsNoticed == []<>(me = "in" => valid)

\* What LoginPage says of noAutoRedirect: after a sign-out, no answer sends the
\* tab to the identity provider, which would sign the user straight back in.
SignOutSticks == [][signedOut => ~ \E c \in calls : Hop(c)]_vars

Kinds == {"me", "mode", "login", "logout", "poll"}
Request == [kind : Kinds, guard : BOOLEAN, live : BOOLEAN,
            reply : {"none", "ok", "401", "refused", "running", "idle"}]

ShellTypeOK ==
    /\ setup \in [mode : {"local", "oidc"}, auto : BOOLEAN, storage : BOOLEAN]
    /\ valid \in BOOLEAN /\ page \in {"app", "idp"} /\ me \in {"checking", "out", "in"}
    /\ signedOut \in BOOLEAN /\ mode \in {"loading", "local", "oidc"}
    /\ login \in [error : {"", "refused", "network"}, loading : BOOLEAN]
    /\ runningScan \in BOOLEAN /\ stamp \in 0..Cooldown /\ calls \subseteq Request

Pending(kind) == \E c \in calls : c.kind = kind /\ c.live

\* Whatever the tab waits for is under way, and whoever sent it is still there to
\* take the answer: who is signed in while the screen is blank (App, authState),
\* the mode behind "Loading...", the answer while "Sign in" is disabled.
NothingAwaitedInVain ==
    /\ page = "app" /\ me = "checking" => Pending("me")
    /\ me = "out" /\ mode = "loading" => Pending("mode")
    /\ login.loading => Pending("login")

\* What keeps it so: a login page that is gone has left nothing, and no request
\* of it will be listened to; of App itself there is nobody else.
OfLoginPage ==
    /\ page = "idp" => me = "checking"
    /\ me # "out" => /\ mode = "loading" /\ login = Fresh
                     /\ ~ Pending("mode") /\ ~ Pending("login")
    /\ \A c \in calls : c.kind = "me" => c.live

ShellInv == ShellTypeOK /\ NothingAwaitedInVain /\ OfLoginPage
=============================================================================
