---------------------------- MODULE OidcSession ----------------------------
(***************************************************************************)
(* The sessions of fs_api in OIDC mode: rows of the table `sessions`,      *)
(* found again by the hash of a cookie, and re-checked against the         *)
(* identity provider at most once per recheck interval with a refresh      *)
(* token that the provider may rotate.                                     *)
(*                                                                         *)
(* One user; requests run concurrently, each a goroutine of its own; the   *)
(* provider may take any time to answer, its answer may be lost, clients   *)
(* give up, statements fail, fs_api restarts.                              *)
(***************************************************************************)
EXTENDS Naturals, FiniteSets

CONSTANTS
    Groups,           \* what the groups claim may hold
    Sid,              \* session tokens, each drawn once by randomHex
    Request,          \* goroutines of fs_api
    Interval,         \* auth.oidc.recheck_interval
    Lifetime,         \* sessionLifetime
    None,             \* no such row
    MaxTime,          \* bound: the clock
    MaxChanges,       \* bound: changes of the account at the provider
    MaxFaults         \* bound: failures of the database, restarts of fs_api

ASSUME ConstantsAssumption ==
    /\ Interval \in Nat \ {0} /\ Lifetime \in Nat \ {0}
    /\ MaxTime \in Nat /\ MaxChanges \in Nat /\ MaxFaults \in Nat
    /\ None \notin [groups : Groups, token : Nat, checked_at : Nat, expires_at : Nat,
                    confirmed : Nat, claimed : BOOLEAN]

VARIABLES
    now,
    \* The identity provider.
    active,           \* the account is enabled and signed in
    member,           \* the groups it belongs to
    current,          \* the refresh token it accepts next, of each session
    \* The database: [Sid -> row or None].  `confirmed` and `claimed` are
    \* history: when the provider stated the row's groups (a login counts as
    \* the moment its session was issued), and that this was before checked_at
    \* was claimed: the answer to that claim is awaited, was lost, or was
    \* overwritten by that to an older one.
    sessions,
    \* fs_api: what each goroutine holds.  `seen` and `lost` are history: when
    \* the provider stated its groups, and that another request had the claim.
    request,
    \* History and bounds.
    issued,           \* session tokens drawn
    ended,            \* sessions deleted by a logout or a failed recheck
    spends,           \* the times a refresh token was presented to the provider
    changes,
    faults

idpVars  == <<active, member>>
histVars == <<issued, ended, spends>>
vars == <<now, active, member, current, sessions, request,
          issued, ended, spends, changes, faults>>

NoToken == 0          \* refresh_token IS NULL

Row == [groups : Groups, token : Nat, checked_at : Nat, expires_at : Nat,
        confirmed : Nat, claimed : BOOLEAN]

\* `pc` of a goroutine: "exchanged" in the callback of a login; "loaded" and
\* so on along loadSession and recheckSession.
Goroutine == [pc : {"idle", "exchanged", "loaded", "asking", "confirmed", "refused",
                    "admitted"},
              sid : Sid \cup {None}, groups : Groups, token : Nat,
              next : Nat,       \* the new refresh token, if the provider sent one
              at : Nat,         \* when it loaded the session
              claimedAt : Nat, seen : Nat, lost : BOOLEAN]

Idle == [pc |-> "idle", sid |-> None, groups |-> CHOOSE g \in Groups : TRUE,
         token |-> NoToken, next |-> NoToken, at |-> 0, claimedAt |-> 0, seen |-> 0, lost |-> FALSE]

Fault == faults < MaxFaults /\ faults' = faults + 1

Init ==
    /\ now = 0
    /\ active = TRUE /\ member \in Groups
    /\ current = [s \in Sid |-> 1]
    /\ sessions = [s \in Sid |-> None]
    /\ request = [q \in Request |-> Idle]
    /\ issued = {} /\ ended = {} /\ spends = {}
    /\ changes = 0 /\ faults = 0

\* A goroutine moves on, or answers its client and is gone.
Becomes(q, r) == request' = [request EXCEPT ![q] = r]
Answers(q)    == Becomes(q, Idle)

----------------------------------------------------------------------------
(* handleOIDCCallback and issueSession                                     *)

\* The code is exchanged for claims, and for a refresh token if the provider
\* issues them.  Every refusal on the way leaves no trace.
ExchangeCode(q) ==
    /\ request[q].pc = "idle"
    /\ active
    /\ \E t \in {NoToken, 1} :
          Becomes(q, [Idle EXCEPT !.pc = "exchanged", !.groups = member, !.token = t])
    /\ UNCHANGED <<now, idpVars, current, sessions, histVars, changes, faults>>

\* Mutant: a session lives for a day with or without a refresh token.
ExpiryUncapped(t) == now + Lifetime

\* Without a refresh token the session must not outlive one interval.
Expiry(t) == now + (IF t = NoToken THEN Interval ELSE Lifetime)

\* Drop the expired rows, add one under a fresh token, set the cookie.
IssueSession(q) ==
    /\ request[q].pc = "exchanged"
    /\ \E s \in Sid \ issued :
          /\ issued' = issued \cup {s}
          /\ sessions' =
                [x \in Sid |->
                    IF x = s
                    THEN [groups |-> request[q].groups, token |-> request[q].token,
                          checked_at |-> now, expires_at |-> Expiry(request[q].token),
                          confirmed |-> now, claimed |-> FALSE]
                    ELSE IF sessions[x] # None /\ sessions[x].expires_at < now THEN None
                    ELSE sessions[x]]
    /\ Answers(q)
    /\ UNCHANGED <<now, idpVars, current, ended, spends, changes, faults>>

\* The INSERT fails: the user signs in again.
IssueFails(q) ==
    /\ request[q].pc = "exchanged"
    /\ Fault
    /\ Answers(q)
    /\ UNCHANGED <<now, idpVars, current, sessions, histVars, changes>>

----------------------------------------------------------------------------
(* loadSession and recheckSession                                          *)

\* The session behind the cookie; without one, or past its end, 401.
LoadSession(q, s) ==
    /\ request[q].pc = "idle"
    /\ sessions[s] # None
    /\ sessions[s].expires_at > now
    /\ Becomes(q, [Idle EXCEPT !.pc = "loaded", !.sid = s, !.groups = sessions[s].groups,
                               !.seen = sessions[s].confirmed, !.at = now,
                               !.lost = sessions[s].claimed])
    /\ UNCHANGED <<now, idpVars, current, sessions, histVars, changes, faults>>

\* The recheck is due: checked_at < now() - recheck_interval.
Due(s) == sessions[s] # None /\ sessions[s].checked_at + Interval < now

\* Mutant: whether it is due was decided when the session was loaded.
ClaimStale(q) ==
    LET s == request[q].sid IN
    /\ request[q].pc = "loaded"
    /\ sessions[s] # None
    /\ request[q].seen + Interval < request[q].at
    /\ sessions[s].token # NoToken
    /\ sessions' = [sessions EXCEPT ![s].checked_at = now, ![s].claimed = TRUE]
    /\ Becomes(q, [request[q] EXCEPT !.pc = "asking", !.token = sessions[s].token,
                                     !.claimedAt = now])
    /\ UNCHANGED <<now, idpVars, current, histVars, changes, faults>>

\* UPDATE sessions SET checked_at = now() ... RETURNING refresh_token.
Claim(q) ==
    LET s == request[q].sid IN
    /\ request[q].pc = "loaded"
    /\ Due(s)
    /\ sessions[s].token # NoToken
    /\ sessions' = [sessions EXCEPT ![s].checked_at = now, ![s].claimed = TRUE]
    /\ Becomes(q, [request[q] EXCEPT !.pc = "asking", !.token = sessions[s].token,
                                     !.claimedAt = now])
    /\ UNCHANGED <<now, idpVars, current, histVars, changes, faults>>

\* The same for a session that has no refresh token: it carries on.
ClaimWithoutToken(q) ==
    LET s == request[q].sid IN
    /\ request[q].pc = "loaded"
    /\ Due(s)
    /\ sessions[s].token = NoToken
    /\ sessions' = [sessions EXCEPT ![s].checked_at = now]
    /\ Becomes(q, [request[q] EXCEPT !.pc = "admitted"])
    /\ UNCHANGED <<now, idpVars, current, histVars, changes, faults>>

\* The UPDATE matches no row: not due, claimed by another request, or deleted
\* since.  The request carries on with the groups it loaded.
CarryOn(q) ==
    LET s == request[q].sid IN
    /\ request[q].pc = "loaded"
    /\ ~Due(s)
    /\ Becomes(q, [request[q] EXCEPT
          !.pc = "admitted",
          !.lost = @ \/ sessions[s] = None
                     \/ sessions[s].claimed \/ sessions[s].checked_at >= request[q].at])
    /\ UNCHANGED <<now, idpVars, current, sessions, histVars, changes, faults>>

\* The UPDATE fails: 401.
ClaimFails(q) ==
    /\ request[q].pc = "loaded"
    /\ Fault
    /\ Answers(q)
    /\ UNCHANGED <<now, idpVars, current, sessions, histVars, changes>>

\* The provider receives the refresh token and decides, claims included; it
\* may rotate the token, or keep it.
IdpAnswers(q) ==
    LET s == request[q].sid
        t == request[q].token IN
    /\ request[q].pc = "asking"
    /\ spends' = spends \cup {[sid |-> s, at |-> request[q].claimedAt, by |-> q,
                               rotated |-> t # current[s]]}
    /\ IF active /\ t = current[s]
       THEN \E next \in {NoToken, t + 1} :
              /\ current' = [current EXCEPT ![s] = IF next = NoToken THEN t ELSE next]
              /\ Becomes(q, [request[q] EXCEPT !.pc = "confirmed", !.next = next,
                                               !.groups = member, !.seen = now])
       ELSE /\ Becomes(q, [request[q] EXCEPT !.pc = "refused"])
            /\ UNCHANGED current
    /\ UNCHANGED <<now, idpVars, sessions, issued, ended, changes, faults>>

\* The provider cannot be reached, its answer is lost or names another user,
\* or the client gives up, which cancels the context of the exchange.
RefreshFails(q) ==
    /\ request[q].pc \in {"asking", "confirmed"}
    /\ Becomes(q, [request[q] EXCEPT !.pc = "refused"])
    /\ UNCHANGED <<now, idpVars, current, sessions, histVars, changes, faults>>

\* revoke(): the row is deleted, if the DELETE succeeds; 401 in any case.
Revoke(q) ==
    LET s == request[q].sid IN
    /\ request[q].pc = "refused"
    /\ \/ /\ sessions' = [sessions EXCEPT ![s] = None]
          /\ ended' = ended \cup {s}
          /\ UNCHANGED faults
       \/ Fault /\ UNCHANGED <<sessions, ended>>
    /\ Answers(q)
    /\ UNCHANGED <<now, idpVars, current, issued, spends, changes>>

\* Mutant: the token of the answer is stored although it has none.
AnswerToken(q) == request[q].next

\* The provider that does not rotate sends no token: the old one stays good.
NewRefresh(q) == IF request[q].next = NoToken THEN request[q].token ELSE request[q].next

\* Mutant: the new refresh token is stored, the new groups are not.
StoredTokenOnly(q, row) ==
    [row EXCEPT !.token = NewRefresh(q), !.claimed = request[q].seen < row.checked_at]

\* The row as the answer of request q leaves it.
Stored(q, row) ==
    [row EXCEPT !.groups = request[q].groups, !.token = NewRefresh(q),
                !.confirmed = request[q].seen,
                !.claimed = request[q].seen < row.checked_at]

\* Mutant: INSERT ... ON CONFLICT DO UPDATE.
UpsertAnswer(q) ==
    LET s == request[q].sid IN
    /\ request[q].pc = "confirmed"
    /\ sessions' = [sessions EXCEPT ![s] =
          IF @ = None THEN [groups |-> request[q].groups, token |-> NewRefresh(q),
                            checked_at |-> now, expires_at |-> now + Lifetime,
                            confirmed |-> request[q].seen, claimed |-> FALSE]
          ELSE Stored(q, @)]
    /\ Becomes(q, [request[q] EXCEPT !.pc = "admitted"])
    /\ UNCHANGED <<now, idpVars, current, histVars, changes, faults>>

\* UPDATE sessions SET groups, refresh_token: no row, no effect.
StoreAnswer(q) ==
    LET s == request[q].sid IN
    /\ request[q].pc = "confirmed"
    /\ sessions' = [sessions EXCEPT ![s] = IF @ = None THEN None ELSE Stored(q, @)]
    /\ Becomes(q, [request[q] EXCEPT !.pc = "admitted"])
    /\ UNCHANGED <<now, idpVars, current, histVars, changes, faults>>

\* The UPDATE fails, which is only logged.
StoreFails(q) ==
    /\ request[q].pc = "confirmed"
    /\ Fault
    /\ Becomes(q, [request[q] EXCEPT !.pc = "admitted"])
    /\ UNCHANGED <<now, idpVars, current, sessions, histVars, changes>>

\* The handler behind authMiddleware answers.
Serve(q) ==
    /\ request[q].pc = "admitted"
    /\ Answers(q)
    /\ UNCHANGED <<now, idpVars, current, sessions, histVars, changes, faults>>

\* handleLogout deletes the row of its cookie.
Logout(s) ==
    /\ sessions[s] # None
    /\ sessions' = [sessions EXCEPT ![s] = None]
    /\ ended' = ended \cup {s}
    /\ UNCHANGED <<now, idpVars, current, request, issued, spends, changes, faults>>

----------------------------------------------------------------------------
(* The environment                                                         *)

\* The account is disabled, enabled, or moved to other groups.
AccountChanges ==
    /\ changes < MaxChanges
    /\ changes' = changes + 1
    /\ \/ active' = ~active /\ UNCHANGED member
       \/ member' \in Groups \ {member} /\ UNCHANGED active
    /\ UNCHANGED <<now, current, sessions, request, histVars, faults>>

\* fs_api restarts: its goroutines are gone, the table (WAL-logged) is not.
Restart ==
    /\ Fault
    /\ request' = [q \in Request |-> Idle]
    /\ UNCHANGED <<now, idpVars, current, sessions, histVars, changes>>

Tick ==
    /\ now < MaxTime
    /\ now' = now + 1
    /\ UNCHANGED <<idpVars, current, sessions, request, histVars, changes, faults>>

----------------------------------------------------------------------------
RequestStep(q) ==
    \/ ExchangeCode(q) \/ IssueSession(q) \/ IssueFails(q)
    \/ \E s \in Sid : LoadSession(q, s)
    \/ Claim(q) \/ ClaimWithoutToken(q) \/ CarryOn(q) \/ ClaimFails(q)
    \/ IdpAnswers(q) \/ RefreshFails(q) \/ Revoke(q)
    \/ StoreAnswer(q) \/ StoreFails(q) \/ Serve(q)

Next ==
    \/ \E q \in Request : RequestStep(q)
    \/ \E s \in Sid : Logout(s)
    \/ AccountChanges \/ Restart \/ Tick

Spec == Init /\ [][Next]_vars

----------------------------------------------------------------------------
TypeOK ==
    /\ now \in 0..MaxTime
    /\ active \in BOOLEAN /\ member \in Groups
    /\ current \in [Sid -> Nat]
    /\ sessions \in [Sid -> Row \cup {None}]
    /\ \A s \in Sid : sessions[s] # None => sessions[s].checked_at <= now
    /\ request \in [Request -> Goroutine]
    /\ issued \subseteq Sid /\ ended \subseteq issued
    /\ changes \in 0..MaxChanges /\ faults \in 0..MaxFaults

\* A logout or a failed recheck is final: no answer that was under way when
\* the row was deleted brings the session back.
EndedStaysEnded == \A s \in ended : sessions[s] = None

\* However many requests a session has at a time, the provider is asked about
\* it at most once per interval.
RecheckedOncePerInterval ==
    \A a, b \in spends : a.sid = b.sid /\ a # b =>
        a.at + Interval < b.at \/ b.at + Interval < a.at

\* A request is served on what the provider stated more than an interval
\* before only if another request had the claim: then its answer is still
\* awaited, was lost, was overwritten by an older one that came late, or came
\* after this request had read the row.
ServedOnFreshGroups ==
    \A q \in Request : request[q].pc = "admitted" =>
        request[q].seen + Interval >= request[q].at \/ request[q].lost

\* A session the provider cannot be asked about ends within an interval of
\* the last time it was: none loses its refresh token and lives on unchecked.
UncheckableIsShort ==
    \A s \in Sid : sessions[s] # None /\ sessions[s].token = NoToken =>
        sessions[s].expires_at <= sessions[s].confirmed + Interval

\* What is known of the account goes back to an older statement of the provider
\* only when the answer stored took longer than an interval to arrive, or when
\* both statements were made since the last recheck was claimed: an answer that
\* this claim overtook may be stored just before its own.
KnowledgeAdvances ==
    [][\A s \in Sid : sessions[s] # None /\ sessions'[s] # None =>
          \/ sessions'[s].confirmed >= sessions[s].confirmed
          \/ sessions'[s].confirmed >= sessions[s].checked_at
          \/ \E q \in Request : StoreAnswer(q) /\ request[q].claimedAt + Interval < now]_vars

\* The comment of recheckSession: "The UPDATE ... RETURNING claims the re-check,
\* so concurrent requests don't spend a rotating refresh token twice".
TokenSpentOnce == \A a \in spends : ~a.rotated
=============================================================================
