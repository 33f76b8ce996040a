------------------------- MODULE OidcSessionProofs -------------------------
(***************************************************************************)
(* Proofs about the sessions of fs_api, for any number of sessions,        *)
(* requests, groups, changes at the provider and failures, any interval    *)
(* and any lifetime.                                                       *)
(***************************************************************************)
EXTENDS OidcSession, TLAPS

\* Two moments more than an interval apart.
Apart(i, j) == i + Interval < j \/ j + Interval < i

HoldsSession(q) == request[q].pc \notin {"idle", "exchanged"}
InFlight(q) == request[q].pc \in {"asking", "confirmed"}
Asks(q, s) == request[q].pc = "asking" /\ request[q].sid = s

\* A row is of a session that was issued and has not ended.  Its groups were
\* stated after its last claim unless it says so, or cannot be rechecked; then
\* it ends within an interval.
RowOK(s) ==
    sessions[s] # None =>
        /\ s \in issued /\ s \notin ended
        /\ sessions[s].token = NoToken =>
               sessions[s].expires_at <= sessions[s].confirmed + Interval
        /\ sessions[s].claimed \/ sessions[s].confirmed >= sessions[s].checked_at
           \/ sessions[s].token = NoToken

\* What a request loaded is fresh, or the row has been claimed since, or was
\* claimed then.
LoadedOK(q) ==
    LET row == sessions[request[q].sid] IN
    /\ request[q].at <= now
    /\ row # None =>
         /\ row.token = NoToken => request[q].at <= request[q].seen + Interval
         /\ \/ request[q].lost \/ row.checked_at >= request[q].at
            \/ request[q].seen >= row.checked_at
            \/ request[q].at <= request[q].seen + Interval

\* A claim is the last of its session, or more than an interval older.
InFlightOK(q) ==
    LET row == sessions[request[q].sid] IN
    /\ request[q].token # NoToken
    /\ request[q].at <= request[q].claimedAt /\ request[q].claimedAt <= now
    /\ row # None => \/ request[q].claimedAt = row.checked_at
                     \/ request[q].claimedAt + Interval < row.checked_at

GoroutineOK(q) ==
    /\ HoldsSession(q) => request[q].sid \in issued
    /\ request[q].pc = "loaded" => LoadedOK(q)
    /\ InFlight(q) => InFlightOK(q)
    /\ request[q].pc = "confirmed" => request[q].claimedAt <= request[q].seen
    /\ request[q].pc = "admitted" =>
           request[q].seen + Interval >= request[q].at \/ request[q].lost

Spend == [sid : Sid, at : Nat, by : Request, rotated : BOOLEAN]

\* The token of a session is presented for claims an interval apart: those
\* that were, those that will be, and the last of them.
SpendsOK ==
    /\ spends \subseteq Spend
    /\ \A a \in spends :
         /\ a.sid \in issued
         /\ sessions[a.sid] # None => a.at <= sessions[a.sid].checked_at
         /\ \A q \in Request : Asks(q, a.sid) => Apart(a.at, request[q].claimedAt)
    /\ \A p, q \in Request :
         p # q /\ request[p].pc = "asking" /\ Asks(q, request[p].sid) =>
             Apart(request[p].claimedAt, request[q].claimedAt)

IInv ==
    /\ TypeOK
    /\ \A s \in Sid : RowOK(s)
    /\ \A q \in Request : GoroutineOK(q)
    /\ SpendsOK
    /\ RecheckedOncePerInterval

----------------------------------------------------------------------------
(* Types                                                                   *)

\* A goroutine that handles no request holds well-typed nothing.
LEMMA IdleType == TypeOK => Idle \in Goroutine
  BY DEF TypeOK, Idle, Goroutine, NoToken

\* What is found in the table is a row.
LEMMA RowType ==
  ASSUME TypeOK, NEW s \in Sid, sessions[s] # None
  PROVE  /\ sessions[s] \in Row
         /\ sessions[s].checked_at \in Nat /\ sessions[s].checked_at <= now
         /\ sessions[s].expires_at \in Nat /\ sessions[s].confirmed \in Nat
         /\ sessions[s].token \in Nat
  BY DEF TypeOK, Row

\* None is not a row.
LEMMA NoneIsNoRow == None \notin Row
  BY ConstantsAssumption DEF Row

\* A step that leaves the clock and the table alone, and its goroutine with
\* some well-typed state, keeps the types.
LEMMA GoroutineMoves ==
  ASSUME TypeOK, NEW q \in Request, NEW r \in Goroutine, Becomes(q, r)
  PROVE  request' \in [Request -> Goroutine]
  BY DEF TypeOK, Becomes

\* A row that is written into the table leaves a table of rows.
LEMMA RowWritten ==
  ASSUME TypeOK, NEW s \in Sid, NEW r \in Row \cup {None},
         sessions' = [sessions EXCEPT ![s] = r],
         r # None => r.checked_at <= now, now' = now
  PROVE  /\ sessions' \in [Sid -> Row \cup {None}]
         /\ \A x \in Sid : sessions'[x] # None => sessions'[x].checked_at <= now'
  BY DEF TypeOK

\* The row as a claim leaves it.
LEMMA ClaimedRow ==
  ASSUME TypeOK, NEW s \in Sid, sessions[s] # None, NEW c \in BOOLEAN
  PROVE  [sessions[s] EXCEPT !.checked_at = now, !.claimed = c] \in Row
  <1> DEFINE r == [sessions[s] EXCEPT !.checked_at = now]
  <1>1. sessions[s] \in Row /\ now \in Nat
    BY RowType DEF TypeOK
  <1>2. r \in Row
    BY <1>1 DEF Row
  <1>3. [r EXCEPT !.claimed = c] \in Row
    <2> HIDE DEF r
    <2> QED
      BY <1>2 DEF Row
  <1>4. QED
    BY <1>3

\* The row as the answer of a request leaves it.
LEMMA StoredRow ==
  ASSUME TypeOK, NEW q \in Request, NEW s \in Sid, sessions[s] # None
  PROVE  /\ Stored(q, sessions[s]) \in Row
         /\ Stored(q, sessions[s]).checked_at = sessions[s].checked_at
         /\ Stored(q, sessions[s]).expires_at = sessions[s].expires_at
         /\ Stored(q, sessions[s]).token = NewRefresh(q)
         /\ Stored(q, sessions[s]).confirmed = request[q].seen
         /\ Stored(q, sessions[s]).claimed = (request[q].seen < sessions[s].checked_at)
  <1>1. sessions[s] \in Row /\ request[q] \in Goroutine
    BY RowType DEF TypeOK
  <1>2. NewRefresh(q) \in Nat
    BY <1>1 DEF NewRefresh, Goroutine
  <1> DEFINE c  == request[q].seen < sessions[s].checked_at
             r1 == [sessions[s] EXCEPT !.groups = request[q].groups]
             r2 == [r1 EXCEPT !.token = NewRefresh(q)]
             r3 == [r2 EXCEPT !.confirmed = request[q].seen]
  <1>3. /\ r1 \in Row /\ r1.checked_at = sessions[s].checked_at
        /\ r1.expires_at = sessions[s].expires_at
    BY <1>1 DEF Row, Goroutine
  <1>4. /\ r2 \in Row /\ r2.checked_at = r1.checked_at /\ r2.expires_at = r1.expires_at
        /\ r2.token = NewRefresh(q)
    <2> HIDE DEF r1
    <2> QED
      BY <1>2, <1>3 DEF Row
  <1>5. /\ r3 \in Row /\ r3.checked_at = r2.checked_at /\ r3.expires_at = r2.expires_at
        /\ r3.token = r2.token /\ r3.confirmed = request[q].seen
    <2> HIDE DEF r2
    <2> QED
      BY <1>1, <1>4 DEF Row, Goroutine
  <1>6. c \in BOOLEAN
    OBVIOUS
  <1>7. LET r == [r3 EXCEPT !.claimed = c]
        IN  /\ r \in Row /\ r.checked_at = r3.checked_at /\ r.expires_at = r3.expires_at
            /\ r.token = r3.token /\ r.confirmed = r3.confirmed /\ r.claimed = c
    <2> HIDE DEF r3, c
    <2> QED
      BY <1>5, <1>6 DEF Row
  <1>8. Stored(q, sessions[s]) = [r3 EXCEPT !.claimed = c]
    BY DEF Stored
  <1>9. Stored(q, sessions[s]).claimed = c
    <2> HIDE DEF r3, c
    <2> QED
      BY <1>7, <1>8
  <1>10. /\ Stored(q, sessions[s]) \in Row
         /\ Stored(q, sessions[s]).checked_at = sessions[s].checked_at
         /\ Stored(q, sessions[s]).expires_at = sessions[s].expires_at
         /\ Stored(q, sessions[s]).token = NewRefresh(q)
         /\ Stored(q, sessions[s]).confirmed = request[q].seen
    <2> HIDE DEF r1, r2, r3, c
    <2> QED
      BY <1>3, <1>4, <1>5, <1>7, <1>8
  <1>11. QED
    BY <1>9, <1>10, Zenon

\* Every session in flight has a token to its name.
LEMMA SidOfRequest ==
  ASSUME IInv, NEW q \in Request, HoldsSession(q)
  PROVE  request[q].sid \in Sid /\ request[q].sid \in issued
  BY DEF IInv, GoroutineOK, TypeOK

\* Every step of a request keeps the types.
LEMMA RequestTypes ==
  ASSUME IInv, NEW q \in Request, RequestStep(q)
  PROVE  TypeOK'
<1>1. TypeOK /\ request[q] \in Goroutine /\ now \in Nat
  BY DEF IInv, TypeOK
<1>2. ASSUME Fault PROVE faults' \in 0..MaxFaults
  BY <1>1, <1>2, ConstantsAssumption DEF Fault, TypeOK
<1>3. ASSUME Answers(q) PROVE request' \in [Request -> Goroutine]
  BY <1>1, <1>3, IdleType, GoroutineMoves DEF Answers
<1>4. CASE ExchangeCode(q)
  <2>1. PICK t \in {NoToken, 1} :
          Becomes(q, [Idle EXCEPT !.pc = "exchanged", !.groups = member, !.token = t])
    BY <1>4 DEF ExchangeCode
  <2>2. [Idle EXCEPT !.pc = "exchanged", !.groups = member, !.token = t] \in Goroutine
    <3>1. t \in Nat /\ member \in Groups /\ Idle \in Goroutine
      BY <1>1, IdleType DEF TypeOK, NoToken
    <3>2. QED
      BY <3>1 DEF Goroutine
  <2>3. request' \in [Request -> Goroutine]
    BY <1>1, <2>1, <2>2, GoroutineMoves
  <2>4. QED
    BY <1>1, <1>4, <2>3 DEF ExchangeCode, TypeOK, idpVars, histVars
<1>5. CASE IssueSession(q)
  <2>1. PICK s \in Sid \ issued :
          /\ issued' = issued \cup {s}
          /\ sessions' =
                [x \in Sid |->
                    IF x = s
                    THEN [groups |-> request[q].groups, token |-> request[q].token,
                          checked_at |-> now, expires_at |-> Expiry(request[q].token),
                          confirmed |-> now, claimed |-> FALSE]
                    ELSE IF sessions[x] # None /\ sessions[x].expires_at < now THEN None
                    ELSE sessions[x]]
    BY <1>5 DEF IssueSession
  <2>2. [groups |-> request[q].groups, token |-> request[q].token,
         checked_at |-> now, expires_at |-> Expiry(request[q].token),
         confirmed |-> now, claimed |-> FALSE] \in Row
    BY <1>1, ConstantsAssumption DEF Row, Goroutine, Expiry
  <2>3. sessions' \in [Sid -> Row \cup {None}]
    BY <1>1, <2>1, <2>2 DEF TypeOK
  <2>4. \A x \in Sid : sessions'[x] # None => sessions'[x].checked_at <= now
    BY <1>1, <2>1 DEF TypeOK
  <2>5. QED
    BY <1>1, <1>3, <1>5, <2>1, <2>3, <2>4 DEF IssueSession, TypeOK, idpVars
<1>6. CASE IssueFails(q)
  BY <1>1, <1>2, <1>3, <1>6 DEF IssueFails, TypeOK, idpVars, histVars
<1>7. ASSUME NEW s \in Sid, LoadSession(q, s) PROVE TypeOK'
  <2>1. sessions[s] \in Row
    BY <1>1, <1>7, RowType DEF LoadSession
  <2>2. [Idle EXCEPT !.pc = "loaded", !.sid = s, !.groups = sessions[s].groups,
                     !.seen = sessions[s].confirmed, !.at = now,
                     !.lost = sessions[s].claimed] \in Goroutine
    BY <1>1, <2>1, IdleType DEF Goroutine, Row
  <2>3. request' \in [Request -> Goroutine]
    BY <1>1, <1>7, <2>2, GoroutineMoves DEF LoadSession
  <2>4. QED
    BY <1>1, <1>7, <2>3 DEF LoadSession, TypeOK, idpVars, histVars
<1>8. CASE Claim(q)
  <2> DEFINE s == request[q].sid
  <2>1. s \in Sid /\ sessions[s] # None
    BY <1>8, SidOfRequest DEF Claim, Due, HoldsSession
  <2>2. /\ sessions' = [sessions EXCEPT ![s] =
                            [sessions[s] EXCEPT !.checked_at = now, !.claimed = TRUE]]
        /\ now' = now
    BY <1>1, <1>8, <2>1, RowType DEF Claim, TypeOK, Row
  <2>3. [sessions[s] EXCEPT !.checked_at = now, !.claimed = TRUE] \in Row
    BY <1>1, <2>1, ClaimedRow
  <2>4. [sessions[s] EXCEPT !.checked_at = now, !.claimed = TRUE].checked_at <= now
    BY <1>1, <2>1, RowType DEF Row
  <2>5. /\ sessions' \in [Sid -> Row \cup {None}]
        /\ \A x \in Sid : sessions'[x] # None => sessions'[x].checked_at <= now'
    <3> HIDE DEF s
    <3> DEFINE r == [sessions[s] EXCEPT !.checked_at = now, !.claimed = TRUE]
    <3>1. r \in Row \cup {None} /\ (r # None => r.checked_at <= now)
      BY <2>3, <2>4
    <3>2. sessions' = [sessions EXCEPT ![s] = r]
      BY <2>2
    <3> HIDE DEF r
    <3>3. QED
      BY <1>1, <2>1, <2>2, <3>1, <3>2, RowWritten
  <2>6. [request[q] EXCEPT !.pc = "asking", !.token = sessions[s].token,
                           !.claimedAt = now] \in Goroutine
    BY <1>1, <2>1, RowType DEF Goroutine
  <2>7. request' \in [Request -> Goroutine]
    BY <1>1, <1>8, <2>6, GoroutineMoves DEF Claim
  <2>8. QED
    BY <1>1, <1>8, <2>5, <2>7 DEF Claim, TypeOK, idpVars, histVars
<1>9. CASE ClaimWithoutToken(q)
  <2> DEFINE s == request[q].sid
  <2>1. s \in Sid /\ sessions[s] # None
    BY <1>9, SidOfRequest DEF ClaimWithoutToken, Due, HoldsSession
  <2>2. sessions[s] \in Row
    BY <1>1, <2>1, RowType
  <2>3. [sessions[s] EXCEPT !.checked_at = now] \in Row
    BY <1>1, <2>2 DEF Row
  <2>4. /\ sessions' = [sessions EXCEPT ![s] = [sessions[s] EXCEPT !.checked_at = now]]
        /\ [sessions[s] EXCEPT !.checked_at = now].checked_at <= now
        /\ now' = now
    BY <1>1, <1>9, <2>1, <2>2 DEF ClaimWithoutToken, TypeOK, Row
  <2>5. /\ sessions' \in [Sid -> Row \cup {None}]
        /\ \A x \in Sid : sessions'[x] # None => sessions'[x].checked_at <= now'
    <3> HIDE DEF s
    <3> DEFINE r == [sessions[s] EXCEPT !.checked_at = now]
    <3>1. r \in Row \cup {None} /\ (r # None => r.checked_at <= now)
      BY <2>3, <2>4
    <3>2. sessions' = [sessions EXCEPT ![s] = r]
      BY <2>4
    <3> HIDE DEF r
    <3>3. QED
      BY <1>1, <2>1, <2>4, <3>1, <3>2, RowWritten
  <2>6. [request[q] EXCEPT !.pc = "admitted"] \in Goroutine
    BY <1>1 DEF Goroutine
  <2>7. request' \in [Request -> Goroutine]
    BY <1>1, <1>9, <2>6, GoroutineMoves DEF ClaimWithoutToken
  <2>8. QED
    BY <1>1, <1>9, <2>5, <2>7 DEF ClaimWithoutToken, TypeOK, idpVars, histVars
<1>10. CASE CarryOn(q)
  <2> DEFINE s == request[q].sid
             r == [request[q] EXCEPT
                     !.pc = "admitted",
                     !.lost = @ \/ sessions[s] = None
                                \/ sessions[s].claimed
                                \/ sessions[s].checked_at >= request[q].at]
  <2>1. (request[q].lost \/ sessions[s] = None \/ sessions[s].claimed
            \/ sessions[s].checked_at >= request[q].at) \in BOOLEAN
    OBVIOUS
  <2>2. r \in Goroutine
    BY <1>1, <2>1 DEF Goroutine
  <2>3. Becomes(q, r)
    BY <1>10 DEF CarryOn
  <2>4. request' \in [Request -> Goroutine]
    <3> HIDE DEF r
    <3> QED
      BY <1>1, <2>2, <2>3, GoroutineMoves
  <2>5. QED
    BY <1>1, <1>10, <2>4 DEF CarryOn, TypeOK, idpVars, histVars
<1>11. CASE ClaimFails(q)
  BY <1>1, <1>2, <1>3, <1>11 DEF ClaimFails, TypeOK, idpVars, histVars
<1>12. CASE IdpAnswers(q)
  <2> DEFINE s == request[q].sid
             t == request[q].token
  <2>1. s \in Sid /\ t \in Nat
    BY <1>1, <1>12, SidOfRequest DEF IdpAnswers, HoldsSession, Goroutine
  <2>2. CASE active /\ t = current[s]
    <3>1. PICK next \in {NoToken, t + 1} :
            /\ current' = [current EXCEPT ![s] = IF next = NoToken THEN t ELSE next]
            /\ Becomes(q, [request[q] EXCEPT !.pc = "confirmed", !.next = next,
                                             !.groups = member, !.seen = now])
      BY <1>12, <2>2 DEF IdpAnswers
    <3>2. next \in Nat
      BY <2>1 DEF NoToken
    <3>3. current' \in [Sid -> Nat]
      BY <1>1, <2>1, <3>1, <3>2 DEF TypeOK
    <3>4. [request[q] EXCEPT !.pc = "confirmed", !.next = next,
                             !.groups = member, !.seen = now] \in Goroutine
      BY <1>1, <3>2 DEF Goroutine, TypeOK
    <3>5. request' \in [Request -> Goroutine]
      BY <1>1, <3>1, <3>4, GoroutineMoves
    <3>6. QED
      BY <1>1, <1>12, <3>3, <3>5 DEF IdpAnswers, TypeOK, idpVars
  <2>3. CASE ~(active /\ t = current[s])
    <3>1. Becomes(q, [request[q] EXCEPT !.pc = "refused"]) /\ current' = current
      BY <1>12, <2>3 DEF IdpAnswers
    <3>2. [request[q] EXCEPT !.pc = "refused"] \in Goroutine
      BY <1>1 DEF Goroutine
    <3>3. request' \in [Request -> Goroutine]
      BY <1>1, <3>1, <3>2, GoroutineMoves
    <3>4. QED
      BY <1>1, <1>12, <3>1, <3>3 DEF IdpAnswers, TypeOK, idpVars
  <2>4. QED
    BY <2>2, <2>3
<1>13. CASE RefreshFails(q)
  <2>1. [request[q] EXCEPT !.pc = "refused"] \in Goroutine
    BY <1>1 DEF Goroutine
  <2>2. request' \in [Request -> Goroutine]
    BY <1>1, <1>13, <2>1, GoroutineMoves DEF RefreshFails
  <2>3. QED
    BY <1>1, <1>13, <2>2 DEF RefreshFails, TypeOK, idpVars, histVars
<1>14. CASE Revoke(q)
  <2>1. request[q].sid \in issued
    BY <1>14, SidOfRequest DEF Revoke, HoldsSession
  <2>2. request' \in [Request -> Goroutine]
    BY <1>3, <1>14 DEF Revoke
  <2>3. CASE Fault /\ UNCHANGED <<sessions, ended>>
    BY <1>1, <1>2, <1>14, <2>2, <2>3 DEF Revoke, TypeOK, idpVars
  <2>4. CASE /\ sessions' = [sessions EXCEPT ![request[q].sid] = None]
             /\ ended' = ended \cup {request[q].sid}
             /\ UNCHANGED faults
    BY <1>1, <1>14, <2>1, <2>2, <2>4 DEF Revoke, TypeOK, idpVars
  <2>5. QED
    BY <1>14, <2>3, <2>4 DEF Revoke
<1>15. CASE StoreAnswer(q)
  <2> DEFINE s == request[q].sid
             r == IF sessions[s] = None THEN None ELSE Stored(q, sessions[s])
  <2>1. s \in Sid
    BY <1>15, SidOfRequest DEF StoreAnswer, HoldsSession
  <2>2. sessions' = [sessions EXCEPT ![s] = r] /\ now' = now
    BY <1>1, <1>15, <2>1 DEF StoreAnswer, TypeOK
  <2>3. r \in Row \cup {None} /\ (r # None => r.checked_at <= now)
    BY <1>1, <2>1, RowType, StoredRow
  <2>4. /\ sessions' \in [Sid -> Row \cup {None}]
        /\ \A x \in Sid : sessions'[x] # None => sessions'[x].checked_at <= now'
    <3> HIDE DEF r, s
    <3> QED
      BY <1>1, <2>1, <2>2, <2>3, RowWritten
  <2>5. [request[q] EXCEPT !.pc = "admitted"] \in Goroutine
    BY <1>1 DEF Goroutine
  <2>6. request' \in [Request -> Goroutine]
    BY <1>1, <1>15, <2>5, GoroutineMoves DEF StoreAnswer
  <2>7. QED
    BY <1>1, <1>15, <2>4, <2>6 DEF StoreAnswer, TypeOK, idpVars, histVars
<1>16. CASE StoreFails(q)
  <2>1. [request[q] EXCEPT !.pc = "admitted"] \in Goroutine
    BY <1>1 DEF Goroutine
  <2>2. request' \in [Request -> Goroutine]
    BY <1>1, <1>16, <2>1, GoroutineMoves DEF StoreFails
  <2>3. QED
    BY <1>1, <1>2, <1>16, <2>2 DEF StoreFails, TypeOK, idpVars, histVars
<1>17. CASE Serve(q)
  BY <1>1, <1>3, <1>17 DEF Serve, TypeOK, idpVars, histVars
<1>18. QED
  BY <1>4, <1>5, <1>6, <1>7, <1>8, <1>9, <1>10, <1>11, <1>12, <1>13, <1>14, <1>15,
     <1>16, <1>17 DEF RequestStep

----------------------------------------------------------------------------
(* What a step does to the rows, and what it leaves of the rest            *)

\* No session comes back; checked_at moves only when the recheck is due; a
\* refresh token is replaced, never lost.
RowSteps ==
    /\ issued \subseteq issued' /\ now <= now'
    /\ \A s \in issued : sessions'[s] # None =>
         /\ sessions[s] # None
         /\ \/ sessions'[s].checked_at = sessions[s].checked_at
            \/ sessions'[s].checked_at = now /\ sessions[s].checked_at + Interval < now
         /\ sessions'[s].token = NoToken => sessions[s].token = NoToken

\* A goroutine moves alone.
LEMMA OneMoves ==
  ASSUME TypeOK, NEW q \in Request, NEW r, Becomes(q, r)
  PROVE  /\ request'[q] = r
         /\ \A p \in Request : p # q => request'[p] = request[p]
  BY DEF TypeOK, Becomes

\* A goroutine that stays where it is stays right, whatever a step does to
\* the rows.
LEMMA GoroutineStays ==
  ASSUME IInv, TypeOK', RowSteps, NEW q \in Request, request'[q] = request[q]
  PROVE  GoroutineOK(q)'
<1>1. TypeOK /\ GoroutineOK(q) /\ request[q] \in Goroutine
  BY DEF IInv, TypeOK
<1>2. now \in Nat /\ now' \in Nat /\ now <= now' /\ Interval \in Nat
  BY <1>1, ConstantsAssumption DEF TypeOK, RowSteps
<1> DEFINE s == request[q].sid
<1>3. HoldsSession(q) => s \in issued /\ s \in Sid /\ s \in issued'
  BY <1>1, SidOfRequest DEF RowSteps
<1>4. ASSUME HoldsSession(q), sessions'[s] # None
      PROVE  /\ sessions[s] # None
             /\ sessions[s].checked_at \in Nat /\ sessions'[s].checked_at \in Nat
             /\ \/ sessions'[s].checked_at = sessions[s].checked_at
                \/ /\ sessions'[s].checked_at = now
                   /\ sessions[s].checked_at + Interval < now
             /\ sessions'[s].token = NoToken => sessions[s].token = NoToken
  <2>1. sessions'[s] \in Row
    BY <1>3, <1>4 DEF TypeOK
  <2>2. QED
    BY <1>1, <1>3, <1>4, <2>1, RowType DEF RowSteps, Row
<1>5. /\ request[q].at \in Nat /\ request[q].claimedAt \in Nat /\ request[q].seen \in Nat
  BY <1>1 DEF Goroutine
<1>6. ASSUME request[q].pc = "loaded" PROVE LoadedOK(q)'
  <2>1. LoadedOK(q) /\ HoldsSession(q)
    BY <1>1, <1>6 DEF GoroutineOK, HoldsSession
  <2> HIDE DEF s
  <2>2. QED
    BY <1>2, <1>4, <1>5, <2>1 DEF LoadedOK, s
<1>7. ASSUME InFlight(q) PROVE InFlightOK(q)'
  <2>1. InFlightOK(q) /\ HoldsSession(q)
    BY <1>1, <1>7 DEF GoroutineOK, HoldsSession, InFlight
  <2>2. QED
    BY <1>2, <1>4, <1>5, <2>1 DEF InFlightOK
<1>8. QED
  BY <1>1, <1>3, <1>6, <1>7 DEF GoroutineOK, HoldsSession, InFlight

\* A goroutine without a session has nothing to be wrong about.
LEMMA GoroutineLeaves ==
  ASSUME NEW q \in Request, request'[q].pc \in {"idle", "exchanged"}
  PROVE  GoroutineOK(q)'
  BY DEF GoroutineOK, HoldsSession, InFlight

\* What was presented to the provider stays in order when nobody new asks.
LEMMA SpendsStay ==
  ASSUME IInv, TypeOK', RowSteps, spends' = spends,
         \A q \in Request : request'[q].pc = "asking" => request'[q] = request[q]
  PROVE  SpendsOK' /\ RecheckedOncePerInterval'
<1>1. TypeOK /\ SpendsOK /\ RecheckedOncePerInterval
  BY DEF IInv
<1>2. ASSUME NEW a \in spends
      PROVE  /\ a.sid \in issued'
             /\ sessions'[a.sid] # None => a.at <= sessions'[a.sid].checked_at
  <2>1. /\ a.sid \in issued /\ a.sid \in Sid /\ a.at \in Nat /\ now \in Nat
        /\ sessions[a.sid] # None => a.at <= sessions[a.sid].checked_at
    BY <1>1 DEF SpendsOK, Spend, TypeOK
  <2>2. sessions[a.sid] # None =>
          sessions[a.sid].checked_at \in Nat /\ sessions[a.sid].checked_at <= now
    BY <1>1, <2>1, RowType
  <2>3. QED
    BY <2>1, <2>2 DEF RowSteps
<1>3. ASSUME NEW a \in spends, NEW q \in Request, Asks(q, a.sid)'
      PROVE  Apart(a.at, request[q].claimedAt)'
  BY <1>1, <1>3 DEF SpendsOK, Asks, Apart
<1>4. ASSUME NEW p \in Request, NEW q \in Request, p # q,
             request'[p].pc = "asking", Asks(q, request[p].sid)'
      PROVE  Apart(request[p].claimedAt, request[q].claimedAt)'
  BY <1>1, <1>4 DEF SpendsOK, Asks, Apart
<1>5. SpendsOK'
  BY <1>1, <1>2, <1>3, <1>4 DEF SpendsOK, Asks
<1>6. RecheckedOncePerInterval'
  BY <1>1 DEF RecheckedOncePerInterval
<1>7. QED
  BY <1>5, <1>6

\* A row that a step leaves alone, or deletes, stays right.
LEMMA RowStays ==
  ASSUME NEW s \in Sid, RowOK(s), sessions'[s] \in {sessions[s], None},
         issued \subseteq issued', sessions'[s] # None => s \notin ended'
  PROVE  RowOK(s)'
  BY DEF RowOK

\* A step of a goroutine that leaves the table, the clock and the provider's
\* record alone needs to answer for that goroutine alone.
LEMMA QuietStep ==
  ASSUME IInv, TypeOK', NEW q \in Request, NEW r, Becomes(q, r),
         UNCHANGED <<now, sessions, issued, ended, spends>>,
         r.pc # "asking", GoroutineOK(q)'
  PROVE  IInv'
<1>1. TypeOK
  BY DEF IInv
<1>2. request'[q] = r /\ \A p \in Request : p # q => request'[p] = request[p]
  BY <1>1, OneMoves
<1>3. RowSteps
  BY <1>1 DEF RowSteps, TypeOK
<1>4. \A p \in Request : GoroutineOK(p)'
  BY <1>2, <1>3, GoroutineStays
<1>5. SpendsOK' /\ RecheckedOncePerInterval'
  BY <1>2, <1>3, SpendsStay
<1>6. \A s \in Sid : RowOK(s)'
  BY RowStays DEF IInv, RowOK
<1>7. QED
  BY <1>4, <1>5, <1>6 DEF IInv

----------------------------------------------------------------------------
(* One lemma per operation                                                 *)

\* A login, as far as the exchange of the code, and a request that answers its
\* client without another word.
LEMMA LoginKeeps ==
  ASSUME IInv, NEW q \in Request,
         \/ ExchangeCode(q) \/ IssueFails(q) \/ ClaimFails(q) \/ Serve(q)
  PROVE  IInv'
<1>1. TypeOK /\ TypeOK'
  BY RequestTypes DEF IInv, RequestStep
<1>2. PICK r : Becomes(q, r) /\ r.pc \in {"idle", "exchanged"}
  <2>1. CASE ExchangeCode(q)
    <3>1. PICK t :
            Becomes(q, [Idle EXCEPT !.pc = "exchanged", !.groups = member, !.token = t])
      BY <2>1 DEF ExchangeCode
    <3>2. [Idle EXCEPT !.pc = "exchanged", !.groups = member, !.token = t].pc = "exchanged"
      BY DEF Idle
    <3>3. QED
      BY <3>1, <3>2
  <2>2. CASE IssueFails(q) \/ ClaimFails(q) \/ Serve(q)
    <3>1. Becomes(q, Idle) /\ Idle.pc = "idle"
      BY <2>2 DEF IssueFails, ClaimFails, Serve, Answers, Idle
    <3>2. QED
      BY <3>1
  <2>3. QED
    BY <2>1, <2>2
<1>3. request'[q] = r
  BY <1>1, <1>2, OneMoves
<1>4. GoroutineOK(q)'
  BY <1>2, <1>3, GoroutineLeaves
<1>5. UNCHANGED <<now, sessions, issued, ended, spends>>
  BY DEF ExchangeCode, IssueFails, ClaimFails, Serve, histVars
<1>6. QED
  BY <1>1, <1>2, <1>4, <1>5, QuietStep

\* A session is issued under a token nothing else refers to, and is fresh.
LEMMA IssueKeeps ==
  ASSUME IInv, NEW q \in Request, IssueSession(q)
  PROVE  IInv'
<1>1. TypeOK /\ TypeOK' /\ request[q] \in Goroutine /\ now \in Nat
  BY RequestTypes DEF IInv, RequestStep, TypeOK
<1>2. PICK s \in Sid \ issued :
        /\ issued' = issued \cup {s}
        /\ sessions' =
              [x \in Sid |->
                  IF x = s
                  THEN [groups |-> request[q].groups, token |-> request[q].token,
                        checked_at |-> now, expires_at |-> Expiry(request[q].token),
                        confirmed |-> now, claimed |-> FALSE]
                  ELSE IF sessions[x] # None /\ sessions[x].expires_at < now THEN None
                  ELSE sessions[x]]
  BY DEF IssueSession
<1>3. request'[q] = Idle /\ \A p \in Request : p # q => request'[p] = request[p]
  BY <1>1, OneMoves DEF IssueSession, Answers
<1>4. \A x \in Sid : x # s => sessions'[x] \in {sessions[x], None}
  BY <1>2
<1>5. RowSteps
  <2>1. now' = now /\ issued \subseteq issued' /\ issued \subseteq Sid
    BY <1>1, <1>2 DEF IssueSession, TypeOK
  <2>2. QED
    BY <1>1, <1>2, <1>4, <2>1 DEF RowSteps
<1>6. \A p \in Request : GoroutineOK(p)'
  <2>1. GoroutineOK(q)'
    BY <1>3, GoroutineLeaves DEF Idle
  <2>2. QED
    BY <1>1, <1>3, <1>5, <2>1, GoroutineStays
<1>7. SpendsOK' /\ RecheckedOncePerInterval'
  <2>1. \A p \in Request : request'[p].pc = "asking" => request'[p] = request[p]
    BY <1>3 DEF Idle
  <2>2. spends' = spends
    BY DEF IssueSession
  <2>3. QED
    BY <1>1, <1>5, <2>1, <2>2, SpendsStay
<1>8. ASSUME NEW x \in Sid PROVE RowOK(x)'
  <2>1. ended' = ended /\ ended \subseteq issued
    BY <1>1 DEF IssueSession, TypeOK
  <2>2. CASE x = s
    <3>1. sessions'[s] = [groups |-> request[q].groups, token |-> request[q].token,
                          checked_at |-> now, expires_at |-> Expiry(request[q].token),
                          confirmed |-> now, claimed |-> FALSE]
      BY <1>2
    <3>2. s \in issued' /\ s \notin ended'
      BY <1>2, <2>1
    <3>3. request[q].token = NoToken => Expiry(request[q].token) <= now + Interval
      BY <1>1, ConstantsAssumption DEF Expiry
    <3>4. QED
      BY <1>1, <2>2, <3>1, <3>2, <3>3 DEF RowOK
  <2>3. CASE x # s
    <3>1. RowOK(x) /\ issued \subseteq issued'
      BY <1>2 DEF IInv
    <3>2. sessions'[x] # None => x \notin ended'
      BY <1>4, <2>1, <2>3, <3>1 DEF RowOK
    <3>3. QED
      BY <1>4, <2>3, <3>1, <3>2, RowStays
  <2>4. QED
    BY <2>2, <2>3
<1>9. QED
  BY <1>1, <1>6, <1>7, <1>8 DEF IInv

\* What a request loads is as fresh as the row says.
LEMMA LoadKeeps ==
  ASSUME IInv, NEW q \in Request, NEW s \in Sid, LoadSession(q, s)
  PROVE  IInv'
<1>1. TypeOK /\ TypeOK' /\ now \in Nat
  BY RequestTypes DEF IInv, RequestStep, TypeOK
<1> DEFINE r == [Idle EXCEPT !.pc = "loaded", !.sid = s, !.groups = sessions[s].groups,
                             !.seen = sessions[s].confirmed, !.at = now,
                             !.lost = sessions[s].claimed]
<1>2. sessions[s] # None /\ sessions[s].expires_at > now /\ RowOK(s)
  BY DEF LoadSession, IInv
<1>3. Becomes(q, r) /\ UNCHANGED <<now, sessions, issued, ended, spends>>
  BY DEF LoadSession, histVars
<1>4. /\ request'[q] = r /\ r.pc = "loaded" /\ r.sid = s /\ r.at = now
      /\ r.seen = sessions[s].confirmed /\ r.lost = sessions[s].claimed
  <2>1. request'[q] = r
    <3> HIDE DEF r
    <3> QED
      BY <1>1, <1>3, OneMoves
  <2>2. QED
    BY <2>1 DEF Idle
<1> HIDE DEF r
<1>5. LoadedOK(q)'
  <2>1. /\ sessions[s].checked_at \in Nat /\ sessions[s].checked_at <= now
        /\ sessions[s].expires_at \in Nat /\ sessions[s].confirmed \in Nat
        /\ Interval \in Nat
    BY <1>1, <1>2, RowType, ConstantsAssumption
  <2>2. sessions[s].token = NoToken => now <= sessions[s].confirmed + Interval
    BY <1>1, <1>2, <2>1 DEF RowOK
  <2>3. \/ sessions[s].claimed \/ sessions[s].confirmed >= sessions[s].checked_at
        \/ sessions[s].token = NoToken
    BY <1>2 DEF RowOK
  <2>4. QED
    BY <1>1, <1>3, <1>4, <2>1, <2>2, <2>3 DEF LoadedOK
<1>6. GoroutineOK(q)'
  <2>1. s \in issued'
    BY <1>2, <1>3 DEF RowOK
  <2>2. QED
    BY <1>4, <1>5, <2>1 DEF GoroutineOK, InFlight
<1>7. QED
  BY <1>1, <1>3, <1>4, <1>6, QuietStep

\* A request that finds nothing to claim carries on with what it loaded: that
\* is fresh, or somebody else has had the claim.
LEMMA CarryOnKeeps ==
  ASSUME IInv, NEW q \in Request, CarryOn(q)
  PROVE  IInv'
<1>1. TypeOK /\ TypeOK' /\ now \in Nat /\ request[q] \in Goroutine
  BY RequestTypes DEF IInv, RequestStep, TypeOK
<1> DEFINE s == request[q].sid
           lost == \/ request[q].lost \/ sessions[s] = None
                   \/ sessions[s].claimed \/ sessions[s].checked_at >= request[q].at
           r == [request[q] EXCEPT !.pc = "admitted", !.lost = lost]
<1>2. /\ request[q].pc = "loaded" /\ ~Due(s) /\ Becomes(q, r)
      /\ UNCHANGED <<now, sessions, issued, ended, spends>>
  BY DEF CarryOn, histVars
<1>3. /\ request'[q] = r /\ r.pc = "admitted" /\ r.sid = s
      /\ r.at = request[q].at /\ r.seen = request[q].seen /\ r.lost = lost
  <2>1. request'[q] = r
    <3> HIDE DEF r
    <3> QED
      BY <1>1, <1>2, OneMoves
  <2>2. lost \in BOOLEAN
    OBVIOUS
  <2>3. QED
    <3> HIDE DEF lost, s
    <3> QED
      BY <1>1, <2>1, <2>2 DEF Goroutine, s
<1>4. LoadedOK(q) /\ s \in issued /\ s \in Sid
  BY <1>2, SidOfRequest DEF IInv, GoroutineOK, HoldsSession
<1>5. request[q].seen + Interval >= request[q].at \/ lost
  <2> SUFFICES ASSUME ~lost PROVE request[q].seen + Interval >= request[q].at
    OBVIOUS
  <2>1. /\ sessions[s] # None /\ ~sessions[s].claimed
        /\ ~(sessions[s].checked_at >= request[q].at) /\ ~request[q].lost
    OBVIOUS
  <2>2. /\ sessions[s].checked_at \in Nat /\ request[q].at \in Nat /\ Interval \in Nat
        /\ request[q].seen \in Nat /\ request[q].at <= now
    BY <1>1, <1>4, <2>1, RowType, ConstantsAssumption DEF Goroutine, LoadedOK
  <2>3. ~(sessions[s].checked_at + Interval < now)
    BY <1>2, <2>1 DEF Due
  <2>4. request[q].seen >= sessions[s].checked_at
           \/ request[q].at <= request[q].seen + Interval
    BY <1>4, <2>1 DEF LoadedOK
  <2>5. QED
    <3> HIDE DEF s
    <3> QED
      BY <1>1, <2>2, <2>3, <2>4
<1>6. GoroutineOK(q)'
  <2> HIDE DEF r, lost
  <2>1. /\ request'[q].pc = "admitted" /\ request'[q].sid \in issued'
        /\ request'[q].seen + Interval >= request'[q].at \/ request'[q].lost
    BY <1>2, <1>3, <1>4, <1>5
  <2>2. QED
    BY <2>1 DEF GoroutineOK, InFlight
<1>7. QED
  <2> HIDE DEF r
  <2> QED
    BY <1>1, <1>2, <1>3, <1>6, QuietStep

\* An exchange that fails leaves the row to be deleted.
LEMMA RefreshFailsKeeps ==
  ASSUME IInv, NEW q \in Request, RefreshFails(q)
  PROVE  IInv'
<1>1. TypeOK /\ TypeOK' /\ request[q] \in Goroutine
  BY RequestTypes DEF IInv, RequestStep, TypeOK
<1> DEFINE r == [request[q] EXCEPT !.pc = "refused"]
<1>2. Becomes(q, r) /\ UNCHANGED <<now, sessions, issued, ended, spends>>
  BY DEF RefreshFails, histVars
<1>3. r.pc = "refused" /\ r.sid = request[q].sid
  BY <1>1 DEF Goroutine
<1> HIDE DEF r
<1>4. request'[q] = r
  BY <1>1, <1>2, OneMoves
<1>5. GoroutineOK(q)'
  <2>1. request[q].sid \in issued
    BY SidOfRequest DEF RefreshFails, HoldsSession
  <2>2. QED
    BY <1>2, <1>3, <1>4, <2>1 DEF GoroutineOK, InFlight
<1>6. QED
  BY <1>1, <1>2, <1>3, <1>5, QuietStep

\* An answer that cannot be stored is served all the same.
LEMMA StoreFailsKeeps ==
  ASSUME IInv, NEW q \in Request, StoreFails(q)
  PROVE  IInv'
<1>1. TypeOK /\ TypeOK' /\ request[q] \in Goroutine
  BY RequestTypes DEF IInv, RequestStep, TypeOK
<1> DEFINE r == [request[q] EXCEPT !.pc = "admitted"]
<1>2. Becomes(q, r) /\ UNCHANGED <<now, sessions, issued, ended, spends>>
  BY DEF StoreFails, histVars
<1>3. /\ r.pc = "admitted" /\ r.sid = request[q].sid
      /\ r.at = request[q].at /\ r.seen = request[q].seen
  BY <1>1 DEF Goroutine
<1> HIDE DEF r
<1>4. request'[q] = r
  BY <1>1, <1>2, OneMoves
<1>5. request[q].sid \in issued
  BY SidOfRequest DEF StoreFails, HoldsSession
<1>6. request[q].at <= request[q].claimedAt /\ request[q].claimedAt <= request[q].seen
  BY DEF StoreFails, IInv, GoroutineOK, InFlight, InFlightOK
<1>7. request[q].seen + Interval >= request[q].at
  BY <1>1, <1>6, ConstantsAssumption DEF Goroutine
<1>8. GoroutineOK(q)'
  BY <1>2, <1>3, <1>4, <1>5, <1>7 DEF GoroutineOK, InFlight
<1>9. QED
  BY <1>1, <1>2, <1>3, <1>8, QuietStep

\* A request claims the recheck of its session: nobody else has claimed it for
\* an interval, and whoever did is overtaken.
LEMMA ClaimKeeps ==
  ASSUME IInv, NEW q \in Request, Claim(q)
  PROVE  IInv'
<1>1. TypeOK /\ TypeOK' /\ now \in Nat /\ request[q] \in Goroutine /\ Interval \in Nat
  BY RequestTypes, ConstantsAssumption DEF IInv, RequestStep, TypeOK
<1> DEFINE s == request[q].sid
           row == [sessions[s] EXCEPT !.checked_at = now, !.claimed = TRUE]
           r == [request[q] EXCEPT !.pc = "asking", !.token = sessions[s].token,
                                   !.claimedAt = now]
<1>2. /\ s \in Sid /\ s \in issued /\ sessions[s] # None
      /\ sessions[s].checked_at + Interval < now /\ sessions[s].token # NoToken
      /\ sessions[s] \in Row /\ sessions[s].checked_at \in Nat
  BY <1>1, SidOfRequest, RowType DEF Claim, Due, HoldsSession
<1>3. /\ Becomes(q, r)
      /\ UNCHANGED <<now, issued, ended, spends>>
  BY DEF Claim, histVars
<1>4. /\ sessions'[s] = row /\ row.checked_at = now /\ row.claimed = TRUE
      /\ row.token = sessions[s].token
      /\ \A x \in Sid : x # s => sessions'[x] = sessions[x]
  BY <1>1, <1>2 DEF Claim, TypeOK, Row
<1>5. /\ r.pc = "asking" /\ r.sid = s /\ r.token = sessions[s].token
      /\ r.claimedAt = now /\ r.at = request[q].at
  BY <1>1 DEF Goroutine
<1> HIDE DEF r, row
<1>6. request'[q] = r /\ \A p \in Request : p # q => request'[p] = request[p]
  BY <1>1, <1>3, OneMoves
<1>7. RowSteps
  BY <1>1, <1>2, <1>3, <1>4 DEF RowSteps, TypeOK
<1>8. \A p \in Request : GoroutineOK(p)'
  <2>1. request[q].at <= now
    BY DEF Claim, IInv, GoroutineOK, LoadedOK
  <2>2. InFlightOK(q)'
    BY <1>1, <1>2, <1>3, <1>4, <1>5, <1>6, <2>1 DEF InFlightOK
  <2>3. GoroutineOK(q)'
    BY <1>2, <1>3, <1>5, <1>6, <2>2 DEF GoroutineOK
  <2>4. QED
    BY <1>1, <1>6, <1>7, <2>3, GoroutineStays
<1>9. ASSUME NEW p \in Request, p # q, Asks(p, s)
      PROVE  Apart(request[p].claimedAt, now) /\ Apart(now, request[p].claimedAt)
  <2>1. InFlightOK(p) /\ request[p] \in Goroutine
    BY <1>1, <1>9 DEF IInv, GoroutineOK, Asks, InFlight, TypeOK
  <2>2. \/ request[p].claimedAt = sessions[s].checked_at
        \/ request[p].claimedAt + Interval < sessions[s].checked_at
    BY <1>2, <1>9, <2>1 DEF InFlightOK, Asks
  <2>3. request[p].claimedAt \in Nat
    BY <2>1 DEF Goroutine
  <2>4. QED
    BY <1>1, <1>2, <2>2, <2>3 DEF Apart
<1>10. ASSUME NEW a \in spends, a.sid = s PROVE Apart(a.at, now)
  BY <1>1, <1>2, <1>10 DEF IInv, SpendsOK, Spend, Apart
<1>11. SpendsOK' /\ RecheckedOncePerInterval'
  <2>1. SpendsOK /\ RecheckedOncePerInterval
    BY DEF IInv
  <2>2. ASSUME NEW a \in spends
        PROVE  /\ a.sid \in issued'
               /\ sessions'[a.sid] # None => a.at <= sessions'[a.sid].checked_at
    <3>1. /\ a.sid \in Sid /\ a.at \in Nat /\ a.sid \in issued
          /\ sessions[a.sid] # None => a.at <= sessions[a.sid].checked_at
      BY <2>1 DEF SpendsOK, Spend
    <3>2. QED
      BY <1>1, <1>2, <1>3, <1>4, <3>1
  <2>3. ASSUME NEW a \in spends, NEW p \in Request, Asks(p, a.sid)'
        PROVE  Apart(a.at, request[p].claimedAt)'
    <3>1. CASE p = q
      BY <1>3, <1>5, <1>6, <1>10, <2>3, <3>1 DEF Asks, Apart
    <3>2. CASE p # q
      BY <1>6, <2>1, <2>3, <3>2 DEF Asks, Apart, SpendsOK
    <3>3. QED
      BY <3>1, <3>2
  <2>4. ASSUME NEW p \in Request, NEW o \in Request, p # o,
               request'[p].pc = "asking", Asks(o, request[p].sid)'
        PROVE  Apart(request[p].claimedAt, request[o].claimedAt)'
    <3>1. CASE p = q
      BY <1>5, <1>6, <1>9, <2>4, <3>1 DEF Asks, Apart
    <3>2. CASE o = q
      BY <1>5, <1>6, <1>9, <2>4, <3>2 DEF Asks, Apart
    <3>3. CASE p # q /\ o # q
      BY <1>6, <2>1, <2>4, <3>3 DEF Asks, Apart, SpendsOK
    <3>4. QED
      BY <3>1, <3>2, <3>3
  <2>5. SpendsOK'
    BY <1>3, <2>1, <2>2, <2>3, <2>4 DEF SpendsOK, Asks
  <2>6. RecheckedOncePerInterval'
    BY <1>3, <2>1 DEF RecheckedOncePerInterval
  <2>7. QED
    BY <2>5, <2>6
<1>12. ASSUME NEW x \in Sid PROVE RowOK(x)'
  <2>1. RowOK(x)
    BY DEF IInv
  <2>2. CASE x = s
    BY <1>2, <1>3, <1>4, <2>1, <2>2 DEF RowOK
  <2>3. CASE x # s
    BY <1>3, <1>4, <2>1, <2>3 DEF RowOK
  <2>4. QED
    BY <2>2, <2>3
<1>13. QED
  BY <1>1, <1>8, <1>11, <1>12 DEF IInv

\* The claim of a session that cannot be rechecked changes when it was last
\* tried, and nothing else; the request goes on with fresh groups, because the
\* session has not lived for an interval.
LEMMA ClaimWithoutTokenKeeps ==
  ASSUME IInv, NEW q \in Request, ClaimWithoutToken(q)
  PROVE  IInv'
<1>1. TypeOK /\ TypeOK' /\ now \in Nat /\ request[q] \in Goroutine /\ Interval \in Nat
  BY RequestTypes, ConstantsAssumption DEF IInv, RequestStep, TypeOK
<1> DEFINE s == request[q].sid
           row == [sessions[s] EXCEPT !.checked_at = now]
           r == [request[q] EXCEPT !.pc = "admitted"]
<1>2. /\ s \in Sid /\ s \in issued /\ sessions[s] # None
      /\ sessions[s].checked_at + Interval < now /\ sessions[s].token = NoToken
      /\ sessions[s] \in Row /\ sessions[s].checked_at \in Nat
  BY <1>1, SidOfRequest, RowType DEF ClaimWithoutToken, Due, HoldsSession
<1>3. /\ Becomes(q, r)
      /\ UNCHANGED <<now, issued, ended, spends>>
  BY DEF ClaimWithoutToken, histVars
<1>4. /\ sessions'[s] = row /\ row.checked_at = now
      /\ row.token = NoToken /\ row.expires_at = sessions[s].expires_at
      /\ row.confirmed = sessions[s].confirmed
      /\ \A x \in Sid : x # s => sessions'[x] = sessions[x]
  BY <1>1, <1>2 DEF ClaimWithoutToken, TypeOK, Row
<1>5. /\ r.pc = "admitted" /\ r.sid = s /\ r.at = request[q].at
      /\ r.seen = request[q].seen
  BY <1>1 DEF Goroutine
<1> HIDE DEF r, row
<1>6. request'[q] = r /\ \A p \in Request : p # q => request'[p] = request[p]
  BY <1>1, <1>3, OneMoves
<1>7. RowSteps
  BY <1>1, <1>2, <1>3, <1>4 DEF RowSteps, TypeOK
<1>8. \A p \in Request : GoroutineOK(p)'
  <2>1. request[q].at <= request[q].seen + Interval
    BY <1>2 DEF ClaimWithoutToken, IInv, GoroutineOK, LoadedOK
  <2>2. request[q].seen + Interval >= request[q].at
    BY <1>1, <2>1 DEF Goroutine
  <2>3. GoroutineOK(q)'
    BY <1>2, <1>3, <1>5, <1>6, <2>2 DEF GoroutineOK, InFlight
  <2>4. QED
    BY <1>1, <1>6, <1>7, <2>3, GoroutineStays
<1>9. SpendsOK' /\ RecheckedOncePerInterval'
  BY <1>1, <1>3, <1>5, <1>6, <1>7, SpendsStay
<1>10. ASSUME NEW x \in Sid PROVE RowOK(x)'
  <2>1. RowOK(x)
    BY DEF IInv
  <2>2. CASE x = s
    BY <1>2, <1>3, <1>4, <2>1, <2>2 DEF RowOK
  <2>3. CASE x # s
    BY <1>3, <1>4, <2>1, <2>3 DEF RowOK
  <2>4. QED
    BY <2>2, <2>3
<1>11. QED
  BY <1>1, <1>8, <1>9, <1>10 DEF IInv

\* The provider is asked: an interval from every other time, past or to come.
LEMMA IdpAnswersKeeps ==
  ASSUME IInv, NEW q \in Request, IdpAnswers(q)
  PROVE  IInv'
<1>1. TypeOK /\ TypeOK' /\ now \in Nat /\ request[q] \in Goroutine /\ Interval \in Nat
  BY RequestTypes, ConstantsAssumption DEF IInv, RequestStep, TypeOK
<1> DEFINE s == request[q].sid
           b == [sid |-> s, at |-> request[q].claimedAt, by |-> q,
                 rotated |-> request[q].token # current[s]]
<1>2. s \in Sid /\ s \in issued /\ request[q].pc = "asking" /\ Asks(q, s)
  BY SidOfRequest DEF IdpAnswers, HoldsSession, Asks
<1>3. InFlightOK(q)
  BY <1>2 DEF IInv, GoroutineOK, InFlight
<1>4. spends' = spends \cup {b} /\ UNCHANGED <<now, sessions, issued, ended>>
  BY DEF IdpAnswers
<1>5. PICK r : /\ Becomes(q, r) /\ r.sid = s /\ r.at = request[q].at
               /\ r.claimedAt = request[q].claimedAt /\ r.token = request[q].token
               /\ \/ r.pc = "confirmed" /\ r.seen = now
                  \/ r.pc = "refused"
  <2>1. CASE active /\ request[q].token = current[s]
    <3>1. PICK next :
            Becomes(q, [request[q] EXCEPT !.pc = "confirmed", !.next = next,
                                          !.groups = member, !.seen = now])
      BY <2>1 DEF IdpAnswers
    <3> DEFINE r == [request[q] EXCEPT !.pc = "confirmed", !.next = next,
                                       !.groups = member, !.seen = now]
    <3>2. /\ r.sid = s /\ r.at = request[q].at /\ r.claimedAt = request[q].claimedAt
          /\ r.token = request[q].token /\ r.pc = "confirmed" /\ r.seen = now
      BY <1>1 DEF Goroutine
    <3> HIDE DEF r
    <3>3. Becomes(q, r)
      BY <3>1 DEF r
    <3>4. QED
      BY <3>2, <3>3
  <2>2. CASE ~(active /\ request[q].token = current[s])
    <3> DEFINE r == [request[q] EXCEPT !.pc = "refused"]
    <3>1. Becomes(q, r)
      BY <2>2 DEF IdpAnswers
    <3>2. /\ r.sid = s /\ r.at = request[q].at /\ r.claimedAt = request[q].claimedAt
          /\ r.token = request[q].token /\ r.pc = "refused"
      BY <1>1 DEF Goroutine
    <3> HIDE DEF r
    <3>3. QED
      BY <3>1, <3>2
  <2>3. QED
    BY <2>1, <2>2
<1>6. request'[q] = r /\ \A p \in Request : p # q => request'[p] = request[p]
  BY <1>1, <1>5, OneMoves
<1>7. RowSteps
  BY <1>1, <1>4 DEF RowSteps, TypeOK
<1>8. \A p \in Request : GoroutineOK(p)'
  <2>1. /\ request'[q].token # NoToken /\ request'[q].at <= request'[q].claimedAt
        /\ request'[q].claimedAt <= now'
        /\ sessions'[s] # None =>
              \/ request'[q].claimedAt = sessions'[s].checked_at
              \/ request'[q].claimedAt + Interval < sessions'[s].checked_at
    BY <1>3, <1>4, <1>5, <1>6 DEF InFlightOK
  <2>2. InFlightOK(q)'
    BY <1>5, <1>6, <2>1 DEF InFlightOK
  <2>3. request'[q].pc = "confirmed" => request'[q].claimedAt <= request'[q].seen
    BY <1>3, <1>5, <1>6 DEF InFlightOK
  <2>4. GoroutineOK(q)'
    BY <1>2, <1>4, <1>5, <1>6, <2>2, <2>3 DEF GoroutineOK
  <2>5. QED
    BY <1>1, <1>6, <1>7, <2>4, GoroutineStays
<1>9. b \in Spend /\ b.sid = s /\ b.at = request[q].claimedAt
  <2>1. (request[q].token # current[s]) \in BOOLEAN
    OBVIOUS
  <2>2. QED
    BY <1>1, <1>2, <2>1 DEF Spend, Goroutine
<1> HIDE DEF b
<1>10. SpendsOK /\ RecheckedOncePerInterval
  BY DEF IInv
<1>11. ASSUME NEW a \in spends, a.sid = s
       PROVE  a.at + Interval < b.at \/ b.at + Interval < a.at
  BY <1>2, <1>9, <1>10, <1>11 DEF SpendsOK, Apart
<1>12. RecheckedOncePerInterval'
  BY <1>4, <1>9, <1>10, <1>11 DEF RecheckedOncePerInterval
<1>13. SpendsOK'
  <2>1. spends' \subseteq Spend
    BY <1>4, <1>9, <1>10 DEF SpendsOK
  <2>2. ASSUME NEW a \in spends'
        PROVE  /\ a.sid \in issued'
               /\ sessions'[a.sid] # None => a.at <= sessions'[a.sid].checked_at
    <3>1. CASE a \in spends
      BY <1>4, <1>10, <3>1 DEF SpendsOK
    <3>2. CASE a = b
      <4>1. sessions[s] # None => sessions[s].checked_at \in Nat
        BY <1>1, <1>2, RowType
      <4>2. request[q].claimedAt \in Nat
        BY <1>1 DEF Goroutine
      <4>3. QED
        BY <1>1, <1>2, <1>3, <1>4, <1>9, <3>2, <4>1, <4>2 DEF InFlightOK
    <3>3. QED
      BY <1>4, <3>1, <3>2
  <2>3. ASSUME NEW a \in spends', NEW p \in Request, Asks(p, a.sid)'
        PROVE  Apart(a.at, request[p].claimedAt)'
    <3>1. p # q /\ request'[p] = request[p] /\ Asks(p, a.sid)
      BY <1>5, <1>6, <2>3 DEF Asks
    <3>2. CASE a \in spends
      BY <1>10, <3>1, <3>2 DEF SpendsOK, Apart
    <3>3. CASE a = b
      BY <1>2, <1>9, <1>10, <3>1, <3>3 DEF SpendsOK, Apart, Asks
    <3>4. QED
      BY <1>4, <3>2, <3>3
  <2>4. ASSUME NEW p \in Request, NEW o \in Request, p # o,
               request'[p].pc = "asking", Asks(o, request[p].sid)'
        PROVE  Apart(request[p].claimedAt, request[o].claimedAt)'
    <3>1. p # q /\ o # q
      BY <1>5, <1>6, <2>4 DEF Asks
    <3>2. QED
      BY <1>6, <1>10, <2>4, <3>1 DEF SpendsOK, Asks, Apart
  <2>5. QED
    BY <2>1, <2>2, <2>3, <2>4 DEF SpendsOK, Asks
<1>14. \A x \in Sid : RowOK(x)'
  BY <1>4, RowStays DEF IInv, RowOK
<1>15. QED
  BY <1>1, <1>8, <1>12, <1>13, <1>14 DEF IInv

\* A session is deleted for good, and the requests that hold it find no row.
LEMMA SessionEnds ==
  ASSUME IInv, TypeOK', NEW s \in Sid,
         sessions' = [sessions EXCEPT ![s] = None], ended' = ended \cup {s},
         UNCHANGED <<now, issued, spends>>,
         NEW L \in SUBSET Request,
         \A q \in L : request'[q].pc \in {"idle", "exchanged"},
         \A q \in Request \ L : request'[q] = request[q]
  PROVE  IInv'
<1>1. TypeOK
  BY DEF IInv
<1>2. /\ sessions'[s] = None
      /\ \A x \in Sid : x # s => sessions'[x] = sessions[x]
  BY <1>1 DEF TypeOK
<1>3. RowSteps
  BY <1>1, <1>2 DEF RowSteps, TypeOK
<1>4. \A q \in Request : GoroutineOK(q)'
  BY <1>1, <1>3, GoroutineStays, GoroutineLeaves
<1>5. SpendsOK' /\ RecheckedOncePerInterval'
  BY <1>3, SpendsStay
<1>6. \A x \in Sid : RowOK(x)'
  BY <1>2, RowStays DEF IInv, RowOK
<1>7. QED
  BY <1>4, <1>5, <1>6 DEF IInv

\* The row goes, whatever was under way for its session.
LEMMA RevokeKeeps ==
  ASSUME IInv, NEW q \in Request, Revoke(q)
  PROVE  IInv'
<1>1. TypeOK /\ TypeOK'
  BY RequestTypes DEF IInv, RequestStep
<1>2. request'[q] = Idle /\ \A p \in Request : p # q => request'[p] = request[p]
  BY <1>1, OneMoves DEF Revoke, Answers
<1>3. request'[q].pc = "idle" /\ request[q].sid \in Sid
  BY <1>2, SidOfRequest DEF Revoke, HoldsSession, Idle
<1>4. CASE /\ sessions' = [sessions EXCEPT ![request[q].sid] = None]
           /\ ended' = ended \cup {request[q].sid}
  <2>1. /\ UNCHANGED <<now, issued, spends>>
        /\ {q} \in SUBSET Request
        /\ \A p \in {q} : request'[p].pc \in {"idle", "exchanged"}
        /\ \A p \in Request \ {q} : request'[p] = request[p]
    BY <1>2, <1>3 DEF Revoke
  <2>2. QED
    BY <1>1, <1>3, <1>4, <2>1, SessionEnds
<1>5. CASE UNCHANGED <<sessions, ended>>
  <2>1. UNCHANGED <<now, sessions, issued, ended, spends>> /\ Becomes(q, Idle)
    BY <1>5 DEF Revoke, Answers
  <2>2. GoroutineOK(q)' /\ Idle.pc # "asking"
    BY <1>3, GoroutineLeaves DEF Idle
  <2>3. QED
    BY <1>1, <2>1, <2>2, QuietStep
<1>6. QED
  BY <1>4, <1>5 DEF Revoke

\* What the row becomes when the answer to a request is stored.
LEMMA StoredAnswer ==
  ASSUME IInv, NEW q \in Request, StoreAnswer(q)
  PROVE  LET s == request[q].sid IN
         /\ s \in Sid /\ s \in issued
         /\ sessions[s] = None => sessions'[s] = None
         /\ sessions[s] # None =>
               /\ sessions'[s] \in Row
               /\ sessions'[s].checked_at = sessions[s].checked_at
               /\ sessions'[s].token # NoToken
               /\ sessions'[s].confirmed = request[q].seen
               /\ sessions'[s].claimed \/ request[q].seen >= sessions[s].checked_at
         /\ \A x \in Sid : x # s => sessions'[x] = sessions[x]
<1> DEFINE s == request[q].sid
<1>1. TypeOK /\ request[q] \in Goroutine
  BY DEF IInv, TypeOK
<1>2. s \in Sid /\ s \in issued
  BY SidOfRequest DEF StoreAnswer, HoldsSession
<1>3. /\ sessions'[s] = IF sessions[s] = None THEN None ELSE Stored(q, sessions[s])
      /\ \A x \in Sid : x # s => sessions'[x] = sessions[x]
  BY <1>1, <1>2 DEF StoreAnswer, TypeOK
<1>4. NewRefresh(q) # NoToken
  <2>1. request[q].token # NoToken
    BY DEF StoreAnswer, IInv, GoroutineOK, InFlight, InFlightOK
  <2>2. QED
    BY <2>1 DEF NewRefresh
<1>5. CASE sessions[s] # None
  <2>1. sessions'[s] = Stored(q, sessions[s])
    BY <1>3, <1>5
  <2>2. /\ sessions'[s] \in Row
        /\ sessions'[s].checked_at = sessions[s].checked_at
        /\ sessions'[s].token = NewRefresh(q)
        /\ sessions'[s].confirmed = request[q].seen
        /\ sessions'[s].claimed = (request[q].seen < sessions[s].checked_at)
    BY <1>1, <1>2, <1>5, <2>1, StoredRow
  <2>3. request[q].seen \in Nat /\ sessions[s].checked_at \in Nat
    BY <1>1, <1>2, <1>5, RowType DEF Goroutine
  <2>4. sessions'[s].claimed \/ request[q].seen >= sessions[s].checked_at
    <3>1. (request[q].seen < sessions[s].checked_at)
             \/ request[q].seen >= sessions[s].checked_at
      BY <2>3
    <3>2. QED
      BY <2>2, <3>1, Zenon
  <2>5. QED
    BY <1>2, <1>3, <1>4, <1>5, <2>2, <2>4
<1>6. CASE sessions[s] = None
  BY <1>2, <1>3, <1>6
<1>7. QED
  BY <1>5, <1>6

\* The answer is stored in the row if there is still one, and served.
LEMMA StoreAnswerKeeps ==
  ASSUME IInv, NEW q \in Request, StoreAnswer(q)
  PROVE  IInv'
<1>1. TypeOK /\ TypeOK' /\ now \in Nat /\ request[q] \in Goroutine /\ Interval \in Nat
  BY RequestTypes, ConstantsAssumption DEF IInv, RequestStep, TypeOK
<1> DEFINE s == request[q].sid
           r == [request[q] EXCEPT !.pc = "admitted"]
<1>2. /\ s \in Sid /\ s \in issued
      /\ sessions[s] = None => sessions'[s] = None
      /\ sessions[s] # None =>
            /\ sessions'[s] \in Row
            /\ sessions'[s].checked_at = sessions[s].checked_at
            /\ sessions'[s].token # NoToken
            /\ sessions'[s].confirmed = request[q].seen
            /\ sessions'[s].claimed \/ request[q].seen >= sessions[s].checked_at
      /\ \A x \in Sid : x # s => sessions'[x] = sessions[x]
  BY StoredAnswer
<1>3. Becomes(q, r) /\ UNCHANGED <<now, issued, ended, spends>>
  BY DEF StoreAnswer, histVars
<1>4. /\ r.pc = "admitted" /\ r.sid = s /\ r.at = request[q].at /\ r.seen = request[q].seen
  BY <1>1 DEF Goroutine
<1> HIDE DEF r
<1>5. request'[q] = r /\ \A p \in Request : p # q => request'[p] = request[p]
  BY <1>1, <1>3, OneMoves
<1>6. RowSteps
  BY <1>1, <1>2, <1>3 DEF RowSteps, TypeOK
<1>7. \A p \in Request : GoroutineOK(p)'
  <2>1. request[q].at <= request[q].claimedAt /\ request[q].claimedAt <= request[q].seen
    BY DEF StoreAnswer, IInv, GoroutineOK, InFlight, InFlightOK
  <2>2. request[q].seen + Interval >= request[q].at
    BY <1>1, <2>1 DEF Goroutine
  <2>3. GoroutineOK(q)'
    BY <1>2, <1>3, <1>4, <1>5, <2>2 DEF GoroutineOK, InFlight
  <2>4. QED
    BY <1>1, <1>5, <1>6, <2>3, GoroutineStays
<1>8. SpendsOK' /\ RecheckedOncePerInterval'
  BY <1>1, <1>3, <1>4, <1>5, <1>6, SpendsStay
<1>9. ASSUME NEW x \in Sid PROVE RowOK(x)'
  <2>1. RowOK(x)
    BY DEF IInv
  <2>2. CASE x = s
    BY <1>2, <1>3, <2>1, <2>2 DEF RowOK
  <2>3. CASE x # s
    BY <1>2, <1>3, <2>1, <2>3 DEF RowOK
  <2>4. QED
    BY <2>2, <2>3
<1>10. QED
  BY <1>1, <1>7, <1>8, <1>9 DEF IInv

\* A logout deletes a row and disturbs nobody.
LEMMA LogoutKeeps ==
  ASSUME IInv, NEW s \in Sid, Logout(s)
  PROVE  IInv'
<1>1. TypeOK /\ s \in issued
  BY DEF IInv, RowOK, Logout
<1>2. TypeOK'
  BY <1>1 DEF TypeOK, Logout, idpVars
<1>3. /\ UNCHANGED <<now, issued, spends>> /\ {} \in SUBSET Request
      /\ \A q \in {} : request'[q].pc \in {"idle", "exchanged"}
      /\ \A q \in Request \ {} : request'[q] = request[q]
      /\ sessions' = [sessions EXCEPT ![s] = None] /\ ended' = ended \cup {s}
  BY DEF Logout
<1>4. QED
  BY <1>2, <1>3, SessionEnds

\* Time passes, the account changes, fs_api restarts: no row moves.
LEMMA EnvironmentKeeps ==
  ASSUME IInv, AccountChanges \/ Restart \/ Tick \/ UNCHANGED vars
  PROVE  IInv'
<1>1. TypeOK /\ now \in Nat
  BY DEF IInv, TypeOK
<1>2. TypeOK'
  <2>1. CASE AccountChanges
    <3>1. active' \in BOOLEAN
      BY <1>1, <2>1, Zenon DEF AccountChanges, TypeOK
    <3>2. member' \in Groups /\ changes' \in 0..MaxChanges
      BY <1>1, <2>1, ConstantsAssumption DEF AccountChanges, TypeOK
    <3>3. QED
      BY <1>1, <2>1, <3>1, <3>2 DEF AccountChanges, TypeOK, histVars
  <2>2. CASE Restart
    BY <1>1, <2>2, IdleType, ConstantsAssumption DEF Restart, Fault, TypeOK, idpVars, histVars
  <2>3. CASE Tick
    BY <1>1, <2>3, RowType, ConstantsAssumption DEF Tick, TypeOK, idpVars, histVars
  <2>4. CASE UNCHANGED vars
    BY <1>1, <2>4 DEF TypeOK, vars
  <2>5. QED
    BY <2>1, <2>2, <2>3, <2>4
<1>3. UNCHANGED <<sessions, issued, ended, spends>> /\ now <= now'
  BY <1>1 DEF AccountChanges, Restart, Tick, vars, histVars
<1>4. \A q \in Request : request'[q] = request[q] \/ request'[q].pc = "idle"
  BY DEF AccountChanges, Restart, Tick, vars, Idle
<1>5. RowSteps
  BY <1>1, <1>3 DEF RowSteps, TypeOK
<1>6. \A q \in Request : GoroutineOK(q)'
  BY <1>2, <1>4, <1>5, GoroutineStays, GoroutineLeaves
<1>7. SpendsOK' /\ RecheckedOncePerInterval'
  BY <1>2, <1>3, <1>4, <1>5, SpendsStay
<1>8. \A s \in Sid : RowOK(s)'
  BY <1>3 DEF IInv, RowOK
<1>9. QED
  BY <1>2, <1>6, <1>7, <1>8 DEF IInv

----------------------------------------------------------------------------
(* Theorems                                                                *)

\* The strengthening is an invariant of fs_api's sessions.
THEOREM Inductive == Spec => []IInv
<1>1. Init => IInv
  <2> SUFFICES ASSUME Init PROVE IInv
    OBVIOUS
  <2>1. TypeOK
    <3>1. Idle \in Goroutine
      BY DEF Init, Idle, Goroutine, NoToken
    <3>2. QED
      BY <3>1, ConstantsAssumption DEF Init, TypeOK
  <2>2. \A q \in Request : request[q].pc = "idle"
    BY DEF Init, Idle
  <2>3. \A q \in Request : GoroutineOK(q)
    BY <2>2 DEF GoroutineOK, HoldsSession, InFlight
  <2>4. SpendsOK /\ RecheckedOncePerInterval
    BY <2>2 DEF Init, SpendsOK, RecheckedOncePerInterval
  <2>5. \A s \in Sid : RowOK(s)
    BY DEF Init, RowOK
  <2>6. QED
    BY <2>1, <2>3, <2>4, <2>5 DEF IInv
<1>2. IInv /\ [Next]_vars => IInv'
  <2> SUFFICES ASSUME IInv, [Next]_vars PROVE IInv'
    OBVIOUS
  <2>1. ASSUME NEW q \in Request, RequestStep(q) PROVE IInv'
    BY <2>1, LoginKeeps, IssueKeeps, LoadKeeps, ClaimKeeps, ClaimWithoutTokenKeeps,
       CarryOnKeeps, IdpAnswersKeeps, RefreshFailsKeeps, RevokeKeeps, StoreAnswerKeeps,
       StoreFailsKeeps DEF RequestStep
  <2>2. ASSUME NEW s \in Sid, Logout(s) PROVE IInv'
    BY <2>2, LogoutKeeps
  <2>3. CASE AccountChanges \/ Restart \/ Tick \/ UNCHANGED vars
    BY <2>3, EnvironmentKeeps
  <2>4. QED
    BY <2>1, <2>2, <2>3 DEF Next
<1>3. QED
  BY <1>1, <1>2, PTL DEF Spec

\* Every reachable state is of the types the code declares.
THEOREM TypeCorrect == Spec => []TypeOK
<1>1. IInv => TypeOK
  BY DEF IInv
<1>2. QED
  BY <1>1, Inductive, PTL

\* A session that a logout or a failed recheck has deleted never comes back,
\* whatever answers were under way.
THEOREM EndedSessionsStayEnded == Spec => []EndedStaysEnded
<1>1. IInv => EndedStaysEnded
  BY DEF IInv, TypeOK, RowOK, EndedStaysEnded
<1>2. QED
  BY <1>1, Inductive, PTL

\* The provider is asked about a session at most once per interval, however
\* many requests it has at a time.
THEOREM ProviderAskedOncePerInterval == Spec => []RecheckedOncePerInterval
<1>1. IInv => RecheckedOncePerInterval
  BY DEF IInv
<1>2. QED
  BY <1>1, Inductive, PTL

\* A session that cannot be rechecked ends within an interval of the last time
\* its groups were stated.
THEOREM UncheckableSessionsAreShort == Spec => []UncheckableIsShort
<1>1. IInv => UncheckableIsShort
  BY DEF IInv, RowOK, UncheckableIsShort
<1>2. QED
  BY <1>1, Inductive, PTL

\* A request is served on groups stated within an interval of its arrival,
\* unless another request has had the claim.
THEOREM RequestsServedOnFreshGroups == Spec => []ServedOnFreshGroups
<1>1. IInv => ServedOnFreshGroups
  BY DEF IInv, GoroutineOK, ServedOnFreshGroups
<1>2. QED
  BY <1>1, Inductive, PTL

\* Only storing an answer changes when a session's groups were stated.
LEMMA OnlyAnswersConfirm ==
  ASSUME IInv, [Next]_vars, NEW s \in Sid, sessions[s] # None, sessions'[s] # None
  PROVE  \/ sessions'[s].confirmed = sessions[s].confirmed
         \/ \E q \in Request : StoreAnswer(q) /\ request[q].sid = s
<1>1. TypeOK /\ sessions[s] \in Row
  BY RowType DEF IInv
<1>2. CASE UNCHANGED sessions
  BY <1>2
<1>3. ASSUME NEW q \in Request, IssueSession(q)
      PROVE  sessions'[s].confirmed = sessions[s].confirmed
  <2>1. s \in issued
    BY DEF IInv, RowOK
  <2>2. QED
    BY <1>3, <2>1 DEF IssueSession
<1>4. ASSUME NEW q \in Request, Claim(q) \/ ClaimWithoutToken(q)
      PROVE  sessions'[s].confirmed = sessions[s].confirmed
  BY <1>1, <1>4 DEF Claim, ClaimWithoutToken, TypeOK, Row
<1>5. ASSUME NEW q \in Request, Revoke(q), ~UNCHANGED sessions
      PROVE  sessions'[s].confirmed = sessions[s].confirmed
  BY <1>1, <1>5 DEF Revoke, TypeOK
<1>6. ASSUME NEW q \in Request, StoreAnswer(q), request[q].sid # s
      PROVE  sessions'[s].confirmed = sessions[s].confirmed
  BY <1>6, StoredAnswer
<1>7. ASSUME NEW x \in Sid, Logout(x)
      PROVE  sessions'[s].confirmed = sessions[s].confirmed
  BY <1>1, <1>7 DEF Logout, TypeOK
<1>8. QED
  BY <1>2, <1>3, <1>4, <1>5, <1>6, <1>7
     DEF Next, RequestStep, ExchangeCode, IssueFails, LoadSession, CarryOn, ClaimFails,
         IdpAnswers, RefreshFails, StoreFails, Serve, AccountChanges, Restart, Tick, vars

\* What is known of the account goes back to an older statement only by an
\* answer that took longer than an interval, or one of two that were made since
\* the recheck was last claimed.
THEOREM KnowledgeOnlyAdvances == Spec => KnowledgeAdvances
<1>1. ASSUME IInv, [Next]_vars, NEW s \in Sid, sessions[s] # None, sessions'[s] # None
      PROVE  \/ sessions'[s].confirmed >= sessions[s].confirmed
             \/ sessions'[s].confirmed >= sessions[s].checked_at
             \/ \E q \in Request : StoreAnswer(q) /\ request[q].claimedAt + Interval < now
  <2>1. /\ TypeOK /\ now \in Nat /\ Interval \in Nat
        /\ sessions[s].confirmed \in Nat /\ sessions[s].checked_at \in Nat
        /\ sessions[s].checked_at <= now
    BY <1>1, RowType, ConstantsAssumption DEF IInv, TypeOK
  <2>2. CASE sessions'[s].confirmed = sessions[s].confirmed
    BY <2>1, <2>2
  <2>3. ASSUME NEW q \in Request, StoreAnswer(q), request[q].sid = s
        PROVE  \/ sessions'[s].confirmed >= sessions[s].checked_at
               \/ request[q].claimedAt + Interval < now
    <3>1. sessions'[s].confirmed = request[q].seen
      BY <1>1, <2>3, StoredAnswer
    <3>2. InFlightOK(q) /\ request[q].claimedAt <= request[q].seen
      BY <1>1, <2>3 DEF StoreAnswer, IInv, GoroutineOK, InFlight
    <3>3. request[q].claimedAt \in Nat /\ request[q].seen \in Nat
      BY <2>1 DEF TypeOK, Goroutine
    <3>4. QED
      BY <1>1, <2>1, <2>3, <3>1, <3>2, <3>3 DEF InFlightOK
  <2>4. QED
    BY <1>1, <2>2, <2>3, OnlyAnswersConfirm
<1>2. IInv /\ [Next]_vars =>
        \A s \in Sid : sessions[s] # None /\ sessions'[s] # None =>
          \/ sessions'[s].confirmed >= sessions[s].confirmed
          \/ sessions'[s].confirmed >= sessions[s].checked_at
          \/ \E q \in Request : StoreAnswer(q) /\ request[q].claimedAt + Interval < now
  BY <1>1
<1>3. QED
  BY <1>2, Inductive, PTL DEF Spec, KnowledgeAdvances
=============================================================================
