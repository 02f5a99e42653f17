----------------------------- MODULE EdgeProofs -----------------------------
(***************************************************************************)
(* Two of the components between a Run and its user.  The refresh ledger,  *)
(* for any number of users, handlers, tokens and ticks: tokens neither fork*)
(* nor outlive a logout of all devices.  Event delivery, for any number of *)
(* publishers, subscribers and events: a connection is sent the journal, in*)
(* order and to its end.                                                   *)
(***************************************************************************)
EXTENDS RefreshLedger, EventDelivery, WellFoundedInduction, TLAPS

(* The refresh ledger *)

\* Tokens are handed out in order, and a token's login was issued with it or before.
IssuedInOrder ==
  /\ \A t \in Tokens : t > issued => ledger[t] = None
  /\ \A t \in Tokens : ledger[t] # None => ledger[t].login \in 1 .. issued

\* A request acts for the owner of the token it was given, as long as that is stored.
HandlerKnowsOwner ==
  \A h \in Handlers :
    /\ handler[h].op # "idle" => handler[h].user \in LedgerUsers
    /\ handler[h].op \in {"rotate", "logout"} => handler[h].token \in 1 .. issued

LedgerInv == LedgerTypeOK /\ IssuedInOrder /\ HandlerKnowsOwner /\ LogoutAllHolds /\ OneActivePerLogin

\* A revoked copy of a stored row is a row.
LEMMA RevokedRow ==
  ASSUME NEW r \in Row
  PROVE  /\ [r EXCEPT !.revoked = TRUE] \in Row
         /\ [r EXCEPT !.revoked = TRUE].user = r.user
         /\ [r EXCEPT !.revoked = TRUE].login = r.login
         /\ [r EXCEPT !.revoked = TRUE].since = r.since
         /\ [r EXCEPT !.revoked = TRUE].expires = r.expires
         /\ [r EXCEPT !.revoked = TRUE].revoked = TRUE
  BY DEF Row

\* A renewed copy of a stored row is a row.
LEMMA RenewedRow ==
  ASSUME NEW r \in Row, NEW e \in Nat
  PROVE  LET q == [r EXCEPT !.expires = e, !.revoked = FALSE]
         IN q \in Row /\ q.user = r.user /\ q.login = r.login /\ q.since = r.since
  BY DEF Row

\* What a step that issues nothing does to a row: it goes, stays, or is revoked.
Fades(t) ==
  \/ ledger'[t] = None
  \/ /\ ledger[t] \in Row /\ ledger[t] # None /\ ledger'[t] \in Row
     /\ ledger'[t].user = ledger[t].user /\ ledger'[t].login = ledger[t].login
     /\ ledger'[t].since = ledger[t].since /\ ledger'[t].expires = ledger[t].expires
     /\ ledger[t].revoked => ledger'[t].revoked

\* When rows only fade and time does not go back, nothing becomes active.
LEMMA FadingActive ==
  ASSUME LedgerTypeOK, ledgerClock' \in Nat, ledgerClock <= ledgerClock', NEW t \in Tokens, Fades(t), Active(t)'
  PROVE  Active(t) /\ ledger'[t].user = ledger[t].user /\ ledger'[t].login = ledger[t].login
         /\ ledger'[t].since = ledger[t].since
  BY DEF LedgerTypeOK, Fades, Active, Stored, LedgerExpired, Row

\* Fading rows keep the types, the order of issue and OneActivePerLogin.
LEMMA FadingKeeps ==
  ASSUME LedgerInv, ledgerClock' \in Nat, ledgerClock <= ledgerClock', UNCHANGED issued,
         ledger' = [t \in Tokens |-> ledger'[t]],
         \A t \in Tokens : Fades(t)
  PROVE  ledger' \in [Tokens -> Row \cup {None}] /\ IssuedInOrder' /\ OneActivePerLogin'
<1>1. \A t \in Tokens : ledger'[t] \in Row \cup {None} BY DEF Fades
<1>2. ledger' \in [Tokens -> Row \cup {None}] BY <1>1
<1>3. IssuedInOrder' BY DEF LedgerInv, IssuedInOrder, Fades, LedgerTypeOK
<1>4. OneActivePerLogin'
  <2> SUFFICES ASSUME NEW s \in Tokens, NEW t \in Tokens, Active(s)', Active(t)', ledger'[s].login = ledger'[t].login
               PROVE  s = t
    BY DEF OneActivePerLogin
  <2>1. Active(s) /\ ledger'[s].login = ledger[s].login BY FadingActive DEF LedgerInv
  <2>2. Active(t) /\ ledger'[t].login = ledger[t].login BY FadingActive DEF LedgerInv
  <2> QED BY <2>1, <2>2 DEF LedgerInv, OneActivePerLogin
<1> QED BY <1>2, <1>3, <1>4

\* ... and, when nobody leaves all devices, LogoutAllHolds.
LEMMA FadingKeepsLogoutAll ==
  ASSUME LedgerInv, ledgerClock' \in Nat, ledgerClock <= ledgerClock', UNCHANGED logouts, \A t \in Tokens : Fades(t)
  PROVE  LogoutAllHolds'
<1> SUFFICES ASSUME NEW t \in Tokens, Active(t)'
             PROVE  ledger'[t].since = logouts'[ledger'[t].user]
  BY DEF LogoutAllHolds
<1>1. Active(t) /\ ledger'[t].user = ledger[t].user /\ ledger'[t].since = ledger[t].since
  BY FadingActive DEF LedgerInv
<1> QED BY <1>1 DEF LedgerInv, LogoutAllHolds

\* Revoking a user's active tokens makes rows fade.
LEMMA RevokeFades ==
  ASSUME LedgerInv, NEW u, ledger' = RevokeActive(u)
  PROVE  ledger' = [t \in Tokens |-> ledger'[t]] /\ \A t \in Tokens : Fades(t)
<1>1. ledger' = [t \in Tokens |-> ledger'[t]] BY DEF RevokeActive
<1>2. ASSUME NEW t \in Tokens PROVE Fades(t)
  <2>1. ledger[t] \in Row \cup {None} BY DEF LedgerInv, LedgerTypeOK
  <2>2. CASE Active(t) /\ ledger[t].user = u
    <3>1. ledger[t] # None /\ ledger[t] \in Row BY <2>1, <2>2 DEF Active, Stored
    <3>2. ledger'[t] = [ledger[t] EXCEPT !.revoked = TRUE] BY <2>2 DEF RevokeActive
    <3> QED BY <3>1, <3>2, RevokedRow DEF Fades
  <2>3. CASE ~(Active(t) /\ ledger[t].user = u)
    <3>1. ledger'[t] = ledger[t] BY <2>3 DEF RevokeActive
    <3> QED BY <2>1, <3>1 DEF Fades
  <2> QED BY <2>2, <2>3
<1> QED BY <1>1, <1>2

\* Revoking one token makes rows fade.
LEMMA RevokeOneFades ==
  ASSUME LedgerInv, NEW r \in Tokens, ledger[r] # None,
         ledger' = [ledger EXCEPT ![r] = [ledger[r] EXCEPT !.revoked = TRUE]]
  PROVE  ledger' = [t \in Tokens |-> ledger'[t]] /\ \A t \in Tokens : Fades(t)
<1>0. ledger \in [Tokens -> Row \cup {None}] BY DEF LedgerInv, LedgerTypeOK
<1>1. ledger' = [t \in Tokens |-> ledger'[t]] BY <1>0
<1>2. ASSUME NEW t \in Tokens PROVE Fades(t)
  <2>1. ledger[t] \in Row \cup {None} BY <1>0
  <2>2. CASE t = r
    <3>1. ledger[t] \in Row BY <2>1, <2>2
    <3>2. ledger'[t] = [ledger[t] EXCEPT !.revoked = TRUE] BY <1>0, <2>2
    <3> QED BY <2>2, <3>1, <3>2, RevokedRow DEF Fades
  <2>3. CASE t # r
    <3>1. ledger'[t] = ledger[t] BY <1>0, <2>3
    <3> QED BY <2>1, <3>1 DEF Fades
  <2> QED BY <2>2, <2>3
<1> QED BY <1>1, <1>2

\* A ledger that stays as it is fades.
LEMMA SameFades ==
  ASSUME LedgerInv, UNCHANGED ledger
  PROVE  ledger' = [t \in Tokens |-> ledger'[t]] /\ \A t \in Tokens : Fades(t)
<1>0. ledger \in [Tokens -> Row \cup {None}] BY DEF LedgerInv, LedgerTypeOK
<1> QED BY <1>0 DEF Fades

-----------------------------------------------------------------------------

\* The invariant holds of the empty ledger.
THEOREM LedgerInvInit == LedgerInit => LedgerInv
<1> SUFFICES ASSUME LedgerInit PROVE LedgerInv
  OBVIOUS
<1> USE LedgerAssumption
<1>1. \A h \in Handlers : handler[h] = Idle BY DEF LedgerInit
<1>2. Idle \in LedgerRequests BY DEF Idle, LedgerRequests
<1>3. LedgerTypeOK BY <1>2 DEF LedgerInit, LedgerTypeOK
<1>4. IssuedInOrder BY DEF LedgerInit, IssuedInOrder
<1>5. HandlerKnowsOwner BY <1>1 DEF HandlerKnowsOwner, Idle
<1>6. LogoutAllHolds /\ OneActivePerLogin BY DEF LedgerInit, LogoutAllHolds, OneActivePerLogin, Active, Stored
<1> QED BY <1>3, <1>4, <1>5, <1>6 DEF LedgerInv

\* Handlers that end leave the others as they were.
LEMMA DoneKeeps ==
  ASSUME LedgerInv, NEW h \in Handlers, Done(h), issued' \in Nat, issued <= issued'
  PROVE  handler' \in [Handlers -> LedgerRequests] /\ HandlerKnowsOwner'
<1>1. Idle \in LedgerRequests BY DEF Idle, LedgerRequests
<1>2. handler \in [Handlers -> LedgerRequests] /\ issued \in Nat BY LedgerAssumption DEF LedgerInv, LedgerTypeOK
<1>3. handler' \in [Handlers -> LedgerRequests] BY <1>1, <1>2 DEF Done
<1>4. ASSUME NEW g \in Handlers
      PROVE  /\ handler'[g].op # "idle" => handler'[g].user \in LedgerUsers
             /\ handler'[g].op \in {"rotate", "logout"} => handler'[g].token \in 1 .. issued'
  <2>1. handler'[g] = Idle \/ handler'[g] = handler[g] BY <1>2 DEF Done
  <2>2. CASE handler'[g] = Idle BY <2>2 DEF Idle
  <2>3. CASE handler'[g] = handler[g]
    <3>1. handler[g] \in LedgerRequests BY <1>2
    <3> QED BY <1>2, <2>3, <3>1 DEF LedgerInv, HandlerKnowsOwner, LedgerRequests
  <2> QED BY <2>1, <2>2, <2>3
<1> QED BY <1>3, <1>4 DEF HandlerKnowsOwner

\* A login adds a token that shares its login with no other.
LEMMA IssueKeeps ==
  ASSUME LedgerInv, NEW h \in Handlers, CommitIssue(h)
  PROVE  LedgerInv'
<1> USE LedgerAssumption
<1> DEFINE n == issued + 1
<1> DEFINE row == LoginRow(handler[h].user, handler[h].now)
<1>1. issued \in Nat /\ issued < MaxTokens /\ issued' = n /\ ledgerClock \in Nat /\ UNCHANGED <<ledgerClock, logouts>> /\ Done(h)
  BY DEF CommitIssue, LedgerInv, LedgerTypeOK
<1>2. n \in Tokens /\ ledger[n] = None BY <1>1 DEF Tokens, LedgerInv, IssuedInOrder
<1>3. handler[h] \in LedgerRequests /\ handler[h].user \in LedgerUsers
  BY DEF CommitIssue, LedgerInv, LedgerTypeOK, HandlerKnowsOwner
<1>4. handler[h].now \in Nat BY <1>3 DEF LedgerRequests
<1>5. logouts[handler[h].user] \in Nat BY <1>3 DEF LedgerInv, LedgerTypeOK
<1>6. row \in Row BY <1>1, <1>3, <1>4, <1>5 DEF LoginRow, Row
<1>7. row.login = n /\ row.user = handler[h].user /\ row.since = logouts[handler[h].user] BY DEF LoginRow
<1>8. ledger \in [Tokens -> Row \cup {None}] BY DEF LedgerInv, LedgerTypeOK
<1>9. ledger' = [ledger EXCEPT ![n] = row] BY DEF CommitIssue
<1> HIDE DEF row
<1>10. ledger'[n] = row /\ \A t \in Tokens : t # n => ledger'[t] = ledger[t] BY <1>2, <1>8, <1>9
<1>11. LedgerTypeOK'
  <2>1. ledger' \in [Tokens -> Row \cup {None}] BY <1>6, <1>8, <1>9
  <2>2. issued' \in 0 .. MaxTokens BY <1>1
  <2>3. handler' \in [Handlers -> LedgerRequests] BY <1>1, DoneKeeps
  <2> QED BY <1>1, <2>1, <2>2, <2>3 DEF LedgerInv, LedgerTypeOK
<1>12. IssuedInOrder'
  <2>1. ASSUME NEW t \in Tokens, t > issued' PROVE ledger'[t] = None
    BY <1>1, <1>10, <2>1 DEF LedgerInv, IssuedInOrder, Tokens
  <2>2. ASSUME NEW t \in Tokens, ledger'[t] # None PROVE ledger'[t].login \in 1 .. issued'
    <3>1. CASE t = n BY <1>1, <1>7, <1>10, <3>1
    <3>2. CASE t # n BY <1>1, <1>10, <2>2, <3>2 DEF LedgerInv, IssuedInOrder
    <3> QED BY <3>1, <3>2
  <2> QED BY <2>1, <2>2 DEF IssuedInOrder
<1>13. HandlerKnowsOwner' BY <1>1, DoneKeeps
<1>14. \A t \in Tokens : t # n /\ Active(t)' => Active(t)
  BY <1>1, <1>10 DEF Active, Stored, LedgerExpired
<1>15. LogoutAllHolds'
  <2> SUFFICES ASSUME NEW t \in Tokens, Active(t)' PROVE ledger'[t].since = logouts'[ledger'[t].user]
    BY DEF LogoutAllHolds
  <2>1. CASE t = n BY <1>1, <1>7, <1>10, <2>1
  <2>2. CASE t # n BY <1>1, <1>10, <1>14, <2>2 DEF LedgerInv, LogoutAllHolds
  <2> QED BY <2>1, <2>2
<1>16. OneActivePerLogin'
  <2> SUFFICES ASSUME NEW s \in Tokens, NEW t \in Tokens, Active(s)', Active(t)', ledger'[s].login = ledger'[t].login
               PROVE  s = t
    BY DEF OneActivePerLogin
  <2>1. ASSUME NEW r \in Tokens, r # n, Active(r)' PROVE ledger'[r].login \in 1 .. issued
    BY <1>10, <1>14, <2>1 DEF LedgerInv, IssuedInOrder, Active, Stored
  <2>2. CASE s = n \/ t = n BY <1>1, <1>7, <1>10, <2>1, <2>2
  <2>3. CASE s # n /\ t # n BY <1>10, <1>14, <2>3 DEF LedgerInv, OneActivePerLogin
  <2> QED BY <2>2, <2>3
<1> QED BY <1>11, <1>12, <1>13, <1>15, <1>16 DEF LedgerInv

\* A rotation hands the one active place of a login on to its replacement.
LEMMA RotationKeeps ==
  ASSUME LedgerInv, NEW h \in Handlers, NEW t, t = handler[h].token,
         handler[h].op = "rotate", ~RotateRefused(t), issued < MaxTokens,
         ledger' = LedgerReplaced(t), issued' = issued + 1, Done(h), UNCHANGED <<ledgerClock, logouts>>
  PROVE  LedgerInv'
<1> USE LedgerAssumption
<1> DEFINE n == issued + 1
<1> DEFINE new == ReplacementRow(t)
<1> DEFINE old == [ledger[t] EXCEPT !.revoked = TRUE]
<1>1. issued \in Nat /\ ledgerClock \in Nat /\ ledger \in [Tokens -> Row \cup {None}] BY DEF LedgerInv, LedgerTypeOK
<1>2. n \in Tokens /\ ledger[n] = None BY <1>1 DEF Tokens, LedgerInv, IssuedInOrder
<1>3. t \in Tokens /\ ledger[t] # None /\ Active(t) BY DEF RotateRefused, Stored, Active
<1>4. t # n /\ ledger[t] \in Row BY <1>1, <1>2, <1>3
<1>5. /\ new \in Row /\ new.user = ledger[t].user /\ new.login = ledger[t].login /\ new.since = ledger[t].since
  <2>1. ledgerClock + Lifetime \in Nat BY <1>1
  <2> QED BY <1>4, <2>1, RenewedRow DEF ReplacementRow
<1>6. old \in Row /\ old.revoked = TRUE /\ old.login = ledger[t].login BY <1>4, RevokedRow
<1>7. ledger' = [ledger EXCEPT ![t] = old, ![n] = new] BY DEF LedgerReplaced
<1> HIDE DEF new, old
<1>8. ledger'[n] = new /\ ledger'[t] = old /\ \A r \in Tokens : r # n /\ r # t => ledger'[r] = ledger[r]
  BY <1>1, <1>2, <1>3, <1>4, <1>7
<1>9. LedgerTypeOK'
  <2>1. ledger' \in [Tokens -> Row \cup {None}] BY <1>1, <1>5, <1>6, <1>7
  <2>2. issued' \in 0 .. MaxTokens BY <1>1
  <2>3. handler' \in [Handlers -> LedgerRequests] BY <1>1, DoneKeeps
  <2> QED BY <1>1, <2>1, <2>2, <2>3 DEF LedgerInv, LedgerTypeOK
<1>10. ledger[t].login \in 1 .. issued BY <1>3 DEF LedgerInv, IssuedInOrder
<1>11. IssuedInOrder'
  <2>1. ASSUME NEW r \in Tokens, r > issued' PROVE ledger'[r] = None
    <3>1. r # n /\ r > issued BY <1>1, <2>1 DEF Tokens
    <3>2. ledger[r] = None BY <3>1 DEF LedgerInv, IssuedInOrder
    <3> QED BY <1>3, <1>8, <3>1, <3>2
  <2>2. ASSUME NEW r \in Tokens, ledger'[r] # None PROVE ledger'[r].login \in 1 .. issued'
    <3>1. CASE r = n BY <1>1, <1>5, <1>8, <1>10, <3>1
    <3>2. CASE r = t BY <1>1, <1>6, <1>8, <1>10, <3>2
    <3>3. CASE r # n /\ r # t BY <1>1, <1>8, <2>2, <3>3 DEF LedgerInv, IssuedInOrder
    <3> QED BY <3>1, <3>2, <3>3
  <2> QED BY <2>1, <2>2 DEF IssuedInOrder
<1>12. HandlerKnowsOwner' BY <1>1, DoneKeeps
<1>13. ASSUME NEW r \in Tokens, Active(r)', r # n
       PROVE  r # t /\ Active(r) /\ ledger'[r] = ledger[r]
  BY <1>6, <1>8, <1>13 DEF Active, Stored, LedgerExpired
<1>14. LogoutAllHolds'
  <2> SUFFICES ASSUME NEW r \in Tokens, Active(r)' PROVE ledger'[r].since = logouts'[ledger'[r].user]
    BY DEF LogoutAllHolds
  <2>1. CASE r = n BY <1>3, <1>5, <1>8, <2>1 DEF LedgerInv, LogoutAllHolds
  <2>2. CASE r # n BY <1>13, <2>2 DEF LedgerInv, LogoutAllHolds
  <2> QED BY <2>1, <2>2
<1>15. OneActivePerLogin'
  <2> SUFFICES ASSUME NEW r \in Tokens, NEW s \in Tokens, Active(r)', Active(s)', ledger'[r].login = ledger'[s].login
               PROVE  r = s
    BY DEF OneActivePerLogin
  <2>1. ASSUME NEW q \in Tokens, q # n, Active(q)' PROVE ledger'[q].login # ledger[t].login
    BY <1>3, <1>13, <2>1 DEF LedgerInv, OneActivePerLogin
  <2>2. CASE r = n \/ s = n BY <1>5, <1>8, <2>1, <2>2
  <2>3. CASE r # n /\ s # n BY <1>13, <2>3 DEF LedgerInv, OneActivePerLogin
  <2> QED BY <2>2, <2>3
<1> QED BY <1>9, <1>11, <1>12, <1>14, <1>15 DEF LedgerInv

-----------------------------------------------------------------------------

\* Every step keeps the invariant: tokens are only added by a login or for the one
\* active token they replace; in every other step rows fade.
LEMMA LedgerInvStep == LedgerInv /\ [LedgerNext]_ledgerVars => LedgerInv'
<1> SUFFICES ASSUME LedgerInv, [LedgerNext]_ledgerVars PROVE LedgerInv'
  OBVIOUS
<1> USE LedgerAssumption
<1>0. /\ issued \in Nat /\ issued \in 0 .. MaxTokens /\ ledgerClock \in Nat
      /\ handler \in [Handlers -> LedgerRequests] /\ logouts \in [LedgerUsers -> Nat]
  BY DEF LedgerInv, LedgerTypeOK
\* Steps that change neither the clock nor logouts and let rows fade.
<1>1. ASSUME ledger' = [t \in Tokens |-> ledger'[t]], \A t \in Tokens : Fades(t), UNCHANGED issued,
             ledgerClock' \in Nat, ledgerClock <= ledgerClock', UNCHANGED logouts,
             handler' \in [Handlers -> LedgerRequests], HandlerKnowsOwner'
      PROVE  LedgerInv'
  <2>1. ledger' \in [Tokens -> Row \cup {None}] /\ IssuedInOrder' /\ OneActivePerLogin' BY <1>1, FadingKeeps
  <2>2. LogoutAllHolds' BY <1>1, FadingKeepsLogoutAll
  <2> QED BY <1>0, <1>1, <2>1, <2>2 DEF LedgerInv, LedgerTypeOK
<1>2. ASSUME UNCHANGED handler, UNCHANGED issued
      PROVE  handler' \in [Handlers -> LedgerRequests] /\ HandlerKnowsOwner'
  BY <1>0, <1>2 DEF LedgerInv, HandlerKnowsOwner
<1>3. ASSUME NEW h \in Handlers, NEW r \in LedgerRequests, handler' = [handler EXCEPT ![h] = r],
             r.user \in LedgerUsers, r.op \in {"rotate", "logout"} => r.token \in 1 .. issued,
             UNCHANGED <<ledger, issued, ledgerClock, logouts>>
      PROVE  LedgerInv'
  <2>1. handler' \in [Handlers -> LedgerRequests] BY <1>0, <1>3
  <2>2. HandlerKnowsOwner'
    <3>1. \A g \in Handlers : handler'[g] = IF g = h THEN r ELSE handler[g] BY <1>0, <1>3
    <3> QED BY <1>3, <3>1 DEF LedgerInv, HandlerKnowsOwner
  <2> QED BY <1>0, <1>1, <1>3, <2>1, <2>2, SameFades
<1>4. ASSUME NEW h \in Handlers, NEW u \in LedgerUsers, BeginIssue(h, u) PROVE LedgerInv'
  <2> DEFINE r == [op |-> "issue", user |-> u, token |-> 0, now |-> ledgerClock]
  <2>1. r \in LedgerRequests BY <1>0 DEF LedgerRequests
  <2>2. r.user \in LedgerUsers /\ r.op = "issue" OBVIOUS
  <2>3. handler' = [handler EXCEPT ![h] = r] /\ UNCHANGED <<ledger, issued, ledgerClock, logouts>> BY <1>4 DEF BeginIssue
  <2> HIDE DEF r
  <2> QED BY <1>3, <2>1, <2>2, <2>3
<1>5. ASSUME NEW h \in Handlers, NEW t \in Tokens, NEW op \in {"rotate", "logout"}, Locate(h, op, t) PROVE LedgerInv'
  <2> DEFINE r == [op |-> op, user |-> ledger[t].user, token |-> t, now |-> 0]
  <2>1. ledger[t] \in Row BY <1>5 DEF Locate, Stored, LedgerInv, LedgerTypeOK
  <2>2. ledger[t].user \in LedgerUsers /\ t \in Nat /\ t \in 1 .. issued BY <1>0, <1>5, <2>1 DEF Row, Tokens, Locate
  <2>3. r \in LedgerRequests BY <2>2 DEF LedgerRequests
  <2>4. r.user \in LedgerUsers /\ r.token \in 1 .. issued BY <2>2
  <2>5. handler' = [handler EXCEPT ![h] = r] /\ UNCHANGED <<ledger, issued, ledgerClock, logouts>> BY <1>5 DEF Locate
  <2> HIDE DEF r
  <2> QED BY <1>3, <2>3, <2>4, <2>5
<1>6. ASSUME NEW h \in Handlers, Rotate(h) PROVE LedgerInv'
  <2> DEFINE t == handler[h].token
  <2>1. CASE RotateRefused(t)
    <3>1. UNCHANGED <<issued, ledgerClock, logouts>> /\ Done(h) BY <1>6, <2>1 DEF Rotate
    <3>2. ledger' = [s \in Tokens |-> ledger'[s]] /\ \A s \in Tokens : Fades(s)
      <4>1. ledger' = RevokeActive(handler[h].user) \/ UNCHANGED ledger BY <1>6, <2>1 DEF Rotate
      <4> QED BY <4>1, RevokeFades, SameFades
    <3>3. handler' \in [Handlers -> LedgerRequests] /\ HandlerKnowsOwner' BY <1>0, <3>1, DoneKeeps
    <3> QED BY <1>0, <1>1, <3>1, <3>2, <3>3
  <2>2. CASE ~RotateRefused(t)
    <3>1. /\ handler[h].op = "rotate" /\ issued < MaxTokens /\ ledger' = LedgerReplaced(t) /\ issued' = issued + 1
          /\ Done(h) /\ UNCHANGED <<ledgerClock, logouts>>
      BY <1>6, <2>2 DEF Rotate
    <3> QED BY <2>2, <3>1, RotationKeeps
  <2> QED BY <2>1, <2>2
<1>7. ASSUME NEW h \in Handlers, Logout(h) PROVE LedgerInv'
  <2> DEFINE t == handler[h].token
  <2>1. UNCHANGED <<issued, ledgerClock, logouts>> /\ Done(h) BY <1>7 DEF Logout
  <2>2. ledger' = [s \in Tokens |-> ledger'[s]] /\ \A s \in Tokens : Fades(s)
    <3>1. CASE Active(t)
      <4>1. t \in Tokens /\ ledger[t] # None BY <3>1 DEF Active, Stored
      <4>2. ledger' = [ledger EXCEPT ![t] = [ledger[t] EXCEPT !.revoked = TRUE]] BY <1>7, <3>1 DEF Logout
      <4> HIDE DEF t
      <4> QED BY <4>1, <4>2, RevokeOneFades
    <3>2. CASE ~Active(t) BY <1>7, <3>2, SameFades DEF Logout
    <3> QED BY <3>1, <3>2
  <2>3. handler' \in [Handlers -> LedgerRequests] /\ HandlerKnowsOwner' BY <1>0, <2>1, DoneKeeps
  <2> QED BY <1>0, <1>1, <2>1, <2>2, <2>3
<1>8. ASSUME NEW u \in LedgerUsers, LogoutAll(u) PROVE LedgerInv'
  <2>1. ledger' = RevokeActive(u) /\ logouts' = [logouts EXCEPT ![u] = @ + 1] /\ UNCHANGED <<issued, ledgerClock, handler>>
    BY <1>8 DEF LogoutAll
  <2>2. ledger' = [s \in Tokens |-> ledger'[s]] /\ \A s \in Tokens : Fades(s) BY <2>1, RevokeFades
  <2>3. ledger' \in [Tokens -> Row \cup {None}] /\ IssuedInOrder' /\ OneActivePerLogin'
    BY <1>0, <2>1, <2>2, FadingKeeps
  <2>4. LogoutAllHolds'
    <3> SUFFICES ASSUME NEW t \in Tokens, Active(t)' PROVE ledger'[t].since = logouts'[ledger'[t].user]
      BY DEF LogoutAllHolds
    <3>1. Active(t) /\ ledger'[t].user = ledger[t].user /\ ledger'[t].since = ledger[t].since
      BY <1>0, <2>1, <2>2, FadingActive DEF LedgerInv
    <3>2. ledger[t] \in Row BY <3>1 DEF Active, Stored, LedgerInv, LedgerTypeOK
    <3>3. ledger[t].user # u
      <4> SUFFICES ASSUME ledger[t].user = u PROVE FALSE
        OBVIOUS
      <4>1. ledger'[t] = [ledger[t] EXCEPT !.revoked = TRUE] BY <2>1, <3>1 DEF RevokeActive
      <4>2. ledger'[t].revoked = TRUE BY <3>2, <4>1, RevokedRow
      <4> QED BY <4>2 DEF Active
    <3>4. ledger[t].user \in LedgerUsers BY <3>2 DEF Row
    <3>5. logouts'[ledger[t].user] = logouts[ledger[t].user] BY <1>0, <2>1, <3>3, <3>4
    <3> QED BY <3>1, <3>5 DEF LedgerInv, LogoutAllHolds
  <2>5. logouts' \in [LedgerUsers -> Nat] BY <1>0, <2>1
  <2> QED BY <1>0, <1>2, <2>1, <2>3, <2>4, <2>5 DEF LedgerInv, LedgerTypeOK
<1>9. ASSUME NEW batch \in SUBSET Tokens, Purge(batch) PROVE LedgerInv'
  <2>1. UNCHANGED <<issued, ledgerClock, handler, logouts>> BY <1>9 DEF Purge
  <2>2. ledger' = [t \in Tokens |-> IF t \in batch THEN None ELSE ledger[t]] BY <1>9 DEF Purge
  <2>3. ledger' = [t \in Tokens |-> ledger'[t]] /\ \A t \in Tokens : Fades(t)
    BY <2>2 DEF Fades, LedgerInv, LedgerTypeOK
  <2> QED BY <1>0, <1>1, <1>2, <2>1, <2>3
<1>10. CASE LedgerTick
  <2>1. UNCHANGED <<ledger, issued, handler, logouts>> /\ ledgerClock' = ledgerClock + 1 BY <1>10 DEF LedgerTick
  <2> QED BY <1>0, <1>1, <1>2, <2>1, SameFades
<1>11. CASE UNCHANGED ledgerVars
  <2>1. UNCHANGED <<ledger, issued, ledgerClock, handler, logouts>> BY <1>11 DEF ledgerVars
  <2> QED BY <1>0, <1>1, <1>2, <2>1, SameFades
<1> QED BY <1>4, <1>5, <1>6, <1>7, <1>8, <1>9, <1>10, <1>11, IssueKeeps DEF LedgerNext

\* The ledger and the requests at work on it always have their types.
THEOREM LedgerTypeCorrect == LedgerSpec => []LedgerTypeOK
<1>1. LedgerInv => LedgerTypeOK BY DEF LedgerInv
<1> QED BY <1>1, LedgerInvInit, LedgerInvStep, PTL DEF LedgerSpec

\* Leaving all devices ends every session begun before, for any number of users,
\* concurrent requests and tokens.
THEOREM LogoutAllIsFinal == LedgerSpec => []LogoutAllHolds
<1>1. LedgerInv => LogoutAllHolds BY DEF LedgerInv
<1> QED BY <1>1, LedgerInvInit, LedgerInvStep, PTL DEF LedgerSpec

\* A login never has two active tokens.
THEOREM NoForkedLogin == LedgerSpec => []OneActivePerLogin
<1>1. LedgerInv => OneActivePerLogin BY DEF LedgerInv
<1> QED BY <1>1, LedgerInvInit, LedgerInvStep, PTL DEF LedgerSpec

\* Refresh, rotation, reuse detection, logout and purge together: tokens neither
\* outlive a logout of all devices nor fork.
THEOREM LedgerIsSoundHolds == LedgerSpec => []LedgerIsSound
<1>1. LogoutAllHolds /\ OneActivePerLogin => LedgerIsSound BY DEF LedgerIsSound
<1> QED BY <1>1, LogoutAllIsFinal, NoForkedLogin, PTL

-----------------------------------------------------------------------------
(* Event delivery *)

\* What is published was handed to Redis, which has since gone on from there.
JournalInv ==
  /\ len \in 0..MaxEvents /\ closed \in BOOLEAN /\ deliveryUp \in BOOLEAN /\ faults \in 0..MaxFaults
  /\ published \subseteq Events /\ deliveryStream \subseteq Events /\ top \in 0..len
  /\ \A n \in published : n <= top

\* The same for the row a publisher has handed over and not yet marked.
PublisherInv ==
  /\ deliveryJob \in [Publishers -> SUBSET Events] /\ sent \in [Publishers -> BOOLEAN]
  /\ \A p \in Publishers : sent[p] => deliveryJob[p] # {} /\ NextRow(p) <= top

\* A connection has yielded the events from its Last-Event-ID up to its cursor and holds the ones right behind it.
Faithful(s) ==
  /\ Len(got[s]) <= cursor[s] + 1
  /\ \A i \in 1..Len(got[s]) : got[s][i] = cursor[s] - Len(got[s]) + i
  /\ \A i \in 1..Len(page[s]) : page[s][i] = cursor[s] + i
  /\ cursor[s] + Len(page[s]) <= len
  /\ deliveryPhase[s] = "yield" <=> page[s] # << >>
  /\ deliveryPhase[s] = "ended" => closed /\ cursor[s] = len

SubscriberInv ==
  /\ cursor \in [Subscribers -> Nat] /\ page \in [Subscribers -> Seq(Nat)] /\ got \in [Subscribers -> Seq(Nat)]
  /\ deliveryPhase \in [Subscribers -> {"off", "read", "yield", "wait", "ended"}]
  /\ \A s \in Subscribers : Faithful(s)

DeliveryInv == JournalInv /\ PublisherInv /\ SubscriberInv

\* The oldest row of a batch is a row of it.
LEMMA MinIsMember == ASSUME NEW S \in SUBSET Nat, S # {} PROVE Min(S) \in S
<1>1. PICK x \in S : \A y \in S : ~(<<y, x>> \in OpToRel(<, Nat))
  BY NatLessThanWellFounded, WFMin
<1>2. \A y \in S : <<y, x>> \in Nat \X Nat /\ (y < x => <<y, x>> \in OpToRel(<, Nat))
  BY DEF OpToRel
<1>3. \A y \in S : ~(y < x)
  BY <1>1, <1>2, Zenon
<1>4. \A y \in S : x <= y
  BY <1>3
<1> QED
  BY <1>4 DEF Min

\* A page read behind cursor c.
LEMMA PageRead ==
  ASSUME NEW c \in Nat, NEW e \in Nat, c <= e, NEW q, q = [i \in 1..(e - c) |-> c + i]
  PROVE  q \in Seq(Nat) /\ Len(q) = e - c /\ \A i \in 1..Len(q) : q[i] = c + i
  OBVIOUS

\* What is left of a page once its first event is yielded.
LEMMA PageTail ==
  ASSUME NEW c \in Nat, NEW q \in Seq(Nat), q # << >>, \A i \in 1..Len(q) : q[i] = c + i
  PROVE  /\ Head(q) = c + 1 /\ Tail(q) \in Seq(Nat) /\ Len(Tail(q)) = Len(q) - 1 /\ Len(q) >= 1
         /\ \A i \in 1..Len(Tail(q)) : Tail(q)[i] = (c + 1) + i
  OBVIOUS

\* The events yielded, with the next one.
LEMMA GotNext ==
  ASSUME NEW c \in Nat, NEW g \in Seq(Nat), Len(g) <= c + 1, \A i \in 1..Len(g) : g[i] = c - Len(g) + i
  PROVE  /\ Append(g, c + 1) \in Seq(Nat) /\ Len(Append(g, c + 1)) <= (c + 1) + 1
         /\ \A i \in 1..Len(Append(g, c + 1)) : Append(g, c + 1)[i] = (c + 1) - Len(Append(g, c + 1)) + i
  OBVIOUS

\* The first state.
LEMMA DeliveryInitial == DeliveryInit => DeliveryInv
<1> SUFFICES ASSUME DeliveryInit PROVE DeliveryInv
  OBVIOUS
<1>1. JournalInv
  <2>1. closed \in BOOLEAN /\ deliveryUp \in BOOLEAN
    BY DEF DeliveryInit
  <2>2. len \in 0..MaxEvents /\ faults \in 0..MaxFaults /\ top \in 0..len
    BY DeliveryBounds DEF DeliveryInit
  <2> QED
    BY <2>1, <2>2 DEF DeliveryInit, JournalInv
<1>2. PublisherInv
  BY DEF DeliveryInit, PublisherInv
<1>3. SubscriberInv
  <2>1. << >> \in Seq(Nat) /\ Len(<< >>) = 0
    OBVIOUS
  <2> QED
    BY <2>1 DEF DeliveryInit, SubscriberInv, Faithful
<1> QED
  BY <1>1, <1>2, <1>3 DEF DeliveryInv

\* Subscribers see of the journal only that it grows, and not past its terminal event.
LEMMA GrowthKeepsSubscribers ==
  ASSUME SubscriberInv, JournalInv, len' \in Nat, len <= len', closed => closed' /\ len' = len, UNCHANGED subs
  PROVE  SubscriberInv'
<1>1. len \in Nat
  BY DeliveryBounds DEF JournalInv
<1>2. UNCHANGED <<cursor, page, deliveryPhase, got>>
  BY DEF subs
<1>3. ASSUME NEW s \in Subscribers PROVE Faithful(s)'
  <2>1. Faithful(s) /\ cursor[s] \in Nat /\ Len(page[s]) \in Nat
    BY DEF SubscriberInv
  <2>2. cursor'[s] + Len(page'[s]) <= len'
    BY <1>1, <1>2, <2>1 DEF Faithful
  <2>3. deliveryPhase'[s] = "ended" => closed' /\ cursor'[s] = len'
    BY <1>2, <2>1 DEF Faithful
  <2> QED
    BY <1>2, <2>1, <2>2, <2>3 DEF Faithful
<1> QED
  BY <1>2, <1>3 DEF SubscriberInv

\* An event is committed.
LEMMA AppendKeeps ==
  ASSUME DeliveryInv,
         (\E terminal \in BOOLEAN : AppendInTransaction(terminal)) \/ (\E p \in Callers : AppendAndPublish(p))
  PROVE  DeliveryInv'
<1>1. /\ len < MaxEvents /\ ~closed /\ len' = len + 1 /\ closed' \in BOOLEAN
      /\ UNCHANGED <<published, deliveryUp, deliveryStream, top, sent, subs, faults>>
  BY DEF DeliveryInv, JournalInv, AppendInTransaction, AppendAndPublish, CanAppend, deliveryRedis, pubs
<1>2. len \in Nat /\ MaxEvents \in Nat /\ Events \subseteq Events' /\ len + 1 \in Events'
  BY <1>1, DeliveryBounds DEF DeliveryInv, JournalInv, Events
<1>3. JournalInv'
  BY <1>1, <1>2 DEF DeliveryInv, JournalInv, Events
<1>4. PublisherInv'
  <2>1. CASE UNCHANGED deliveryJob
    BY <1>1, <1>2, <2>1 DEF DeliveryInv, PublisherInv, NextRow
  <2>2. ASSUME NEW p \in Callers, AppendAndPublish(p) PROVE PublisherInv'
    <3>1. deliveryJob[p] = {} /\ deliveryJob' = [deliveryJob EXCEPT ![p] = {len + 1}] /\ p \in Publishers
      BY <2>2 DEF AppendAndPublish, Publishers
    <3>2. ~sent[p]
      BY <3>1 DEF DeliveryInv, PublisherInv
    <3> QED
      BY <1>1, <1>2, <3>1, <3>2 DEF DeliveryInv, PublisherInv, NextRow
  <2> QED
    BY <2>1, <2>2 DEF AppendInTransaction, pubs
<1>5. SubscriberInv'
  BY <1>1, <1>2, GrowthKeepsSubscribers DEF DeliveryInv
<1> QED
  BY <1>3, <1>4, <1>5 DEF DeliveryInv

\* A publisher changes its job or Redis and leaves the journal's rows and the subscribers.
LEMMA PublishingKeeps ==
  ASSUME DeliveryInv, JournalInv', PublisherInv', UNCHANGED <<len, closed, subs>>
  PROVE  DeliveryInv'
<1>1. len \in Nat
  BY DeliveryBounds DEF DeliveryInv, JournalInv
<1> QED
  BY <1>1, GrowthKeepsSubscribers DEF DeliveryInv

\* A worker loads its next batch.
LEMMA LoadKeeps == ASSUME DeliveryInv, NEW w \in Workers, LoadPending(w) PROVE DeliveryInv'
<1>1. /\ w \in Publishers /\ deliveryJob[w] = {} /\ deliveryJob' = [deliveryJob EXCEPT ![w] = Pending]
      /\ UNCHANGED <<len, closed, published, deliveryUp, deliveryStream, top, sent, subs, faults>>
  BY DEF LoadPending, Publishers, rows, deliveryRedis
<1>2. Pending \subseteq Events /\ ~sent[w] /\ Events' = Events
  BY <1>1 DEF DeliveryInv, PublisherInv, Pending, Events
<1>3. PublisherInv'
  BY <1>1, <1>2 DEF DeliveryInv, PublisherInv, NextRow
<1>4. JournalInv'
  BY <1>1 DEF DeliveryInv, JournalInv, Events
<1> QED
  BY <1>1, <1>3, <1>4, PublishingKeeps

\* A publisher hands a row to Redis.
LEMMA SendKeeps == ASSUME DeliveryInv, NEW p \in Publishers, Send(p) PROVE DeliveryInv'
<1>1. /\ deliveryJob[p] # {} /\ sent' = [sent EXCEPT ![p] = TRUE]
      /\ deliveryStream' = IF NextRow(p) > top THEN deliveryStream \cup {NextRow(p)} ELSE deliveryStream
      /\ top' = IF NextRow(p) > top THEN NextRow(p) ELSE top
      /\ UNCHANGED <<len, closed, published, deliveryUp, deliveryJob, subs, faults>>
  BY DEF Send, Accepted, rows
<1>2. deliveryJob[p] \subseteq Events /\ Events \subseteq Nat /\ top \in Nat /\ len \in Nat
  BY DeliveryBounds DEF DeliveryInv, PublisherInv, JournalInv, Events
<1>3. NextRow(p) \in Events /\ NextRow(p) \in Nat
  BY <1>1, <1>2, MinIsMember DEF NextRow
<1>4. top' \in 0..len /\ top <= top' /\ NextRow(p) <= top' /\ deliveryStream' \subseteq Events
  <2> DEFINE n == NextRow(p)
  <2>1. top \in 0..len /\ deliveryStream \subseteq Events
    BY DEF DeliveryInv, JournalInv
  <2>2. n \in Nat /\ n <= len
    BY <1>2, <1>3 DEF Events
  <2>3. deliveryStream' \subseteq Events
    BY <1>1, <1>3, <2>1
  <2> HIDE DEF n
  <2>4. top' \in 0..len /\ top <= top' /\ n <= top'
    <3>1. top' = IF n > top THEN n ELSE top
      BY <1>1 DEF n
    <3> QED
      BY <1>2, <2>1, <2>2, <3>1
  <2> QED
    BY <2>3, <2>4 DEF n
<1>5. JournalInv'
  BY <1>1, <1>2, <1>4 DEF DeliveryInv, JournalInv, Events
<1>6. ASSUME NEW q \in Publishers, sent'[q] PROVE deliveryJob'[q] # {} /\ NextRow(q)' <= top'
  <2>1. CASE q = p
    BY <1>1, <1>4, <2>1 DEF NextRow
  <2>2. CASE q # p
    <3>1. deliveryJob[q] # {} /\ NextRow(q) <= top /\ deliveryJob[q] \subseteq Events
      BY <1>1, <1>6, <2>2 DEF DeliveryInv, PublisherInv
    <3>2. NextRow(q) \in Nat
      BY <1>2, <3>1, MinIsMember DEF NextRow
    <3> QED
      BY <1>1, <1>2, <1>4, <3>1, <3>2 DEF NextRow
  <2> QED
    BY <2>1, <2>2
<1>7. PublisherInv'
  BY <1>1, <1>6 DEF DeliveryInv, PublisherInv, Events
<1> QED
  BY <1>1, <1>5, <1>7, PublishingKeeps

\* A publisher gives its batch up, crashes, or marks a row it has handed over.
LEMMA JobKeeps ==
  ASSUME DeliveryInv, NEW p \in Publishers, SendFails(p) \/ MarkPublished(p) \/ Crash(p)
  PROVE  DeliveryInv'
<1>1. /\ UNCHANGED <<len, closed, deliveryUp, deliveryStream, top, subs>>
      /\ faults' = faults \/ (faults < MaxFaults /\ faults' = faults + 1)
      /\ sent'[p] = FALSE /\ sent' \in [Publishers -> BOOLEAN] /\ deliveryJob' \in [Publishers -> SUBSET Events]
      /\ \A q \in Publishers \ {p} : sent'[q] = sent[q] /\ deliveryJob'[q] = deliveryJob[q]
  BY DEF DeliveryInv, PublisherInv, SendFails, MarkPublished, Crash, Fault, rows, deliveryRedis
<1>2. published' = published \/ (MarkPublished(p) /\ published' = published \cup {NextRow(p)})
  BY DEF SendFails, MarkPublished, Crash, rows
<1>3. PublisherInv'
  BY <1>1 DEF DeliveryInv, PublisherInv, NextRow, Events
<1>4. \A n \in published' : n \in Events /\ n <= top
  <2>1. CASE published' = published
    BY <2>1 DEF DeliveryInv, JournalInv
  <2>2. CASE MarkPublished(p) /\ published' = published \cup {NextRow(p)}
    <3>1. deliveryJob[p] # {} /\ NextRow(p) <= top /\ deliveryJob[p] \subseteq Events
      BY <2>2 DEF DeliveryInv, PublisherInv, MarkPublished, Markable
    <3>2. Events \subseteq Nat
      BY DeliveryBounds DEF DeliveryInv, JournalInv, Events
    <3>3. NextRow(p) \in Events
      BY <3>1, <3>2, MinIsMember DEF NextRow
    <3> QED
      BY <2>2, <3>1, <3>3 DEF DeliveryInv, JournalInv
  <2> QED
    BY <1>2, <2>1, <2>2
<1>5. JournalInv'
  BY <1>1, <1>4, DeliveryBounds DEF DeliveryInv, JournalInv, Events
<1> QED
  BY <1>1, <1>3, <1>5, PublishingKeeps

\* Redis fails, comes back or trims the stream.
LEMMA RedisKeeps == ASSUME DeliveryInv, RedisGoesDown \/ RedisComesBack \/ Trim PROVE DeliveryInv'
<1>1. /\ UNCHANGED <<len, closed, published, top, deliveryJob, sent, subs>>
      /\ deliveryUp' \in BOOLEAN /\ deliveryStream' \subseteq deliveryStream
      /\ faults' = faults \/ (faults < MaxFaults /\ faults' = faults + 1)
  BY DEF DeliveryInv, JournalInv, RedisGoesDown, RedisComesBack, Trim, Fault, rows, pubs
<1>2. JournalInv'
  BY <1>1, DeliveryBounds DEF DeliveryInv, JournalInv, Events
<1>3. PublisherInv'
  BY <1>1 DEF DeliveryInv, PublisherInv, NextRow, Events
<1> QED
  BY <1>1, <1>2, <1>3, PublishingKeeps

\* A step of one connection leaves the journal, Redis and the other connections alone.
LEMMA ConnectionKeeps ==
  ASSUME DeliveryInv, NEW s \in Subscribers, UNCHANGED <<rows, deliveryRedis, pubs, faults>>,
         cursor' \in [Subscribers -> Nat], page' \in [Subscribers -> Seq(Nat)], got' \in [Subscribers -> Seq(Nat)],
         deliveryPhase' \in [Subscribers -> {"off", "read", "yield", "wait", "ended"}],
         \A v \in Subscribers \ {s} : /\ cursor'[v] = cursor[v] /\ page'[v] = page[v] /\ got'[v] = got[v]
                                      /\ deliveryPhase'[v] = deliveryPhase[v],
         Faithful(s)'
  PROVE  DeliveryInv'
<1>1. JournalInv'
  BY DEF DeliveryInv, JournalInv, Events, rows, deliveryRedis
<1>2. PublisherInv'
  BY DEF DeliveryInv, PublisherInv, NextRow, Events, rows, deliveryRedis, pubs
<1>3. \A v \in Subscribers \ {s} : Faithful(v)'
  <2> SUFFICES ASSUME NEW v \in Subscribers \ {s} PROVE Faithful(v)'
    OBVIOUS
  <2>1. /\ cursor'[v] = cursor[v] /\ page'[v] = page[v] /\ got'[v] = got[v]
        /\ deliveryPhase'[v] = deliveryPhase[v] /\ len' = len /\ closed' = closed
    BY DEF rows
  <2>2. Faithful(v)
    BY DEF DeliveryInv, SubscriberInv
  <2> QED
    BY <2>1, <2>2, Zenon DEF Faithful
<1> QED
  BY <1>1, <1>2, <1>3 DEF DeliveryInv, SubscriberInv

\* The steps of a connection other than yielding.
LEMMA ConnectKeeps ==
  ASSUME DeliveryInv, NEW s \in Subscribers, NEW after \in 0..MaxEvents, Connect(s, after)
  PROVE  DeliveryInv'
<1>1. /\ deliveryPhase[s] = "off" /\ after <= len /\ after \in Nat /\ page[s] = << >> /\ len \in Nat
      /\ cursor \in [Subscribers -> Nat] /\ got \in [Subscribers -> Seq(Nat)] /\ page \in [Subscribers -> Seq(Nat)]
      /\ deliveryPhase \in [Subscribers -> {"off", "read", "yield", "wait", "ended"}]
  BY DeliveryBounds DEF DeliveryInv, JournalInv, SubscriberInv, Faithful, Connect
<1>2. /\ cursor' = [cursor EXCEPT ![s] = after] /\ got' = [got EXCEPT ![s] = <<after>>] /\ page' = page
      /\ deliveryPhase' = [deliveryPhase EXCEPT ![s] = "read"] /\ UNCHANGED <<rows, deliveryRedis, pubs, faults>>
  BY DEF Connect
<1> DEFINE g == <<after>>
<1>3. g \in Seq(Nat) /\ Len(g) = 1 /\ g[1] = after
  BY <1>1
<1> HIDE DEF g
<1>4. Faithful(s)'
  <2>1. /\ cursor'[s] = after /\ got'[s] = g /\ page'[s] = << >> /\ deliveryPhase'[s] = "read" /\ len' = len
    BY <1>1, <1>2 DEF g, rows
  <2>2. Len(g) <= after + 1 /\ \A i \in 1..Len(g) : g[i] = after - Len(g) + i
    BY <1>1, <1>3
  <2>3. Len(page'[s]) = 0 /\ after + Len(page'[s]) <= len'
    BY <1>1, <2>1
  <2>4. \A i \in 1..Len(page'[s]) : page'[s][i] = after + i
    BY <2>3
  <2> QED
    BY <2>1, <2>2, <2>3, <2>4 DEF Faithful
<1>5. got' \in [Subscribers -> Seq(Nat)] /\ cursor' \in [Subscribers -> Nat]
  BY <1>1, <1>2, <1>3 DEF g
<1> QED
  BY <1>1, <1>2, <1>4, <1>5, ConnectionKeeps

LEMMA ReadKeeps == ASSUME DeliveryInv, NEW s \in Subscribers, Read(s) PROVE DeliveryInv'
<1> DEFINE c == cursor[s]
           e == IF c + Batch < len THEN c + Batch ELSE len
<1>1. /\ page' = [page EXCEPT ![s] = ReadAfter(s)]
      /\ deliveryPhase' = [deliveryPhase EXCEPT ![s] = IF ReadAfter(s) = << >> THEN "wait" ELSE "yield"]
      /\ UNCHANGED <<rows, deliveryRedis, pubs, cursor, got, faults>>
  BY DEF Read
<1>2. /\ cursor \in [Subscribers -> Nat] /\ got \in [Subscribers -> Seq(Nat)] /\ page \in [Subscribers -> Seq(Nat)]
      /\ deliveryPhase \in [Subscribers -> {"off", "read", "yield", "wait", "ended"}]
      /\ Faithful(s) /\ len \in Nat /\ Batch \in Nat
  BY DeliveryBounds DEF DeliveryInv, JournalInv, SubscriberInv
<1>3. c \in Nat /\ c <= len /\ e \in Nat /\ c <= e /\ e <= len
  BY <1>2 DEF Faithful
<1>4. ReadAfter(s) = [i \in 1..(e - c) |-> c + i]
  BY DEF ReadAfter
<1> HIDE DEF e
<1>5. ReadAfter(s) \in Seq(Nat) /\ Len(ReadAfter(s)) = e - c /\ \A i \in 1..Len(ReadAfter(s)) : ReadAfter(s)[i] = c + i
  BY <1>3, <1>4, PageRead
<1>6. Faithful(s)'
  <2>1. page'[s] = ReadAfter(s) /\ cursor'[s] = c /\ got'[s] = got[s] /\ len' = len /\ closed' = closed
    BY <1>1, <1>2 DEF rows
  <2>2. deliveryPhase'[s] = IF ReadAfter(s) = << >> THEN "wait" ELSE "yield"
    BY <1>1, <1>2
  <2>3. c + Len(ReadAfter(s)) <= len
    BY <1>2, <1>3, <1>5
  <2> QED
    BY <1>2, <1>5, <2>1, <2>2, <2>3 DEF Faithful
<1> QED
  BY <1>1, <1>2, <1>5, <1>6, ConnectionKeeps

\* Yielding the next event of the page.
LEMMA YieldKeeps == ASSUME DeliveryInv, NEW s \in Subscribers, Yield(s) PROVE DeliveryInv'
<1> DEFINE c == cursor[s]  q == page[s]  g == got[s]
<1>1. /\ cursor \in [Subscribers -> Nat] /\ got \in [Subscribers -> Seq(Nat)] /\ page \in [Subscribers -> Seq(Nat)]
      /\ deliveryPhase \in [Subscribers -> {"off", "read", "yield", "wait", "ended"}]
      /\ Faithful(s) /\ len \in Nat
  BY DeliveryBounds DEF DeliveryInv, JournalInv, SubscriberInv
<1>2. /\ c \in Nat /\ q \in Seq(Nat) /\ g \in Seq(Nat) /\ q # << >> /\ c + Len(q) <= len
      /\ \A i \in 1..Len(q) : q[i] = c + i
      /\ Len(g) <= c + 1 /\ \A i \in 1..Len(g) : g[i] = c - Len(g) + i
  BY <1>1 DEF Faithful, Yield
<1>3. /\ Head(q) = c + 1 /\ Tail(q) \in Seq(Nat) /\ Len(Tail(q)) = Len(q) - 1 /\ Len(q) >= 1
      /\ \A i \in 1..Len(Tail(q)) : Tail(q)[i] = (c + 1) + i
  BY <1>2, PageTail
<1>4. /\ Append(g, c + 1) \in Seq(Nat) /\ Len(Append(g, c + 1)) <= (c + 1) + 1
      /\ \A i \in 1..Len(Append(g, c + 1)) : Append(g, c + 1)[i] = (c + 1) - Len(Append(g, c + 1)) + i
  BY <1>2, GotNext
<1>5. c + 1 > c
  BY <1>2
<1>6. /\ cursor' = [cursor EXCEPT ![s] = c + 1] /\ got' = [got EXCEPT ![s] = Append(@, c + 1)]
      /\ page' = [page EXCEPT ![s] = IF Terminal(c + 1) THEN << >> ELSE Tail(q)]
      /\ deliveryPhase' = [deliveryPhase EXCEPT ![s] = IF Terminal(c + 1) THEN "ended"
                                        ELSE IF Tail(q) = << >> THEN "read" ELSE "yield"]
      /\ UNCHANGED <<rows, deliveryRedis, pubs, faults>>
  BY <1>3, <1>5 DEF Yield
<1>7. << >> \in Seq(Nat) /\ Len(<< >>) = 0
  OBVIOUS
<1>8. /\ cursor'[s] = c + 1 /\ got'[s] = Append(g, c + 1)
      /\ page'[s] = IF Terminal(c + 1) THEN << >> ELSE Tail(q)
      /\ deliveryPhase'[s] = IF Terminal(c + 1) THEN "ended" ELSE IF Tail(q) = << >> THEN "read" ELSE "yield"
      /\ len' = len /\ closed' = closed
  BY <1>1, <1>6 DEF rows
<1>9. (c + 1) + Len(Tail(q)) <= len /\ c + 1 <= len
  BY <1>1, <1>2, <1>3
<1>10. Faithful(s)'
  <2>1. CASE Terminal(c + 1)
    BY <1>4, <1>7, <1>8, <1>9, <2>1 DEF Faithful, Terminal
  <2>2. CASE ~Terminal(c + 1)
    BY <1>3, <1>4, <1>8, <1>9, <2>2 DEF Faithful
  <2> QED
    BY <2>1, <2>2
<1>11. cursor' \in [Subscribers -> Nat] /\ got' \in [Subscribers -> Seq(Nat)] /\ page' \in [Subscribers -> Seq(Nat)]
  BY <1>1, <1>2, <1>3, <1>4, <1>6, <1>7
<1> QED
  BY <1>1, <1>6, <1>10, <1>11, ConnectionKeeps

\* A connection wakes, or is dropped.
LEMMA RestKeeps == ASSUME DeliveryInv, NEW s \in Subscribers, Wait(s) \/ Disconnect(s) PROVE DeliveryInv'
<1>1. /\ cursor \in [Subscribers -> Nat] /\ got \in [Subscribers -> Seq(Nat)] /\ page \in [Subscribers -> Seq(Nat)]
      /\ deliveryPhase \in [Subscribers -> {"off", "read", "yield", "wait", "ended"}]
      /\ Faithful(s) /\ len \in Nat /\ Len(page[s]) \in Nat /\ cursor[s] \in Nat
  BY DeliveryBounds DEF DeliveryInv, JournalInv, SubscriberInv
<1>2. << >> \in Seq(Nat) /\ Len(<< >>) = 0
  OBVIOUS
<1>3. /\ UNCHANGED <<rows, deliveryRedis, pubs, cursor, got, faults>>
      /\ page' = page \/ page' = [page EXCEPT ![s] = << >>]
      /\ \/ deliveryPhase[s] = "wait" /\ page' = page /\ deliveryPhase' = [deliveryPhase EXCEPT ![s] = "read"]
         \/ page' = [page EXCEPT ![s] = << >>] /\ deliveryPhase' = [deliveryPhase EXCEPT ![s] = "off"]
  BY DEF Wait, Disconnect
<1>4. page'[s] = << >> /\ deliveryPhase'[s] \in {"off", "read"}
  BY <1>1, <1>3 DEF Faithful
<1>5. Faithful(s)'
  BY <1>1, <1>2, <1>3, <1>4 DEF Faithful, rows
<1> QED
  BY <1>1, <1>2, <1>3, <1>5, ConnectionKeeps

\* DeliveryInv is an invariant of event delivery.
LEMMA DeliveryInvariant == DeliverySpec => []DeliveryInv
<1>1. DeliveryInv /\ [DeliveryNext]_deliveryVars => DeliveryInv'
  <2> SUFFICES ASSUME DeliveryInv, [DeliveryNext]_deliveryVars PROVE DeliveryInv'
    OBVIOUS
  <2>1. CASE UNCHANGED deliveryVars
    <3>1. JournalInv' /\ PublisherInv' /\ UNCHANGED <<len, closed, subs>>
      BY <2>1 DEF deliveryVars, rows, deliveryRedis, pubs, DeliveryInv, JournalInv, PublisherInv, NextRow, Events
    <3> QED
      BY <3>1, PublishingKeeps
  <2>2. CASE DeliveryNext
    BY <2>2, AppendKeeps, LoadKeeps, SendKeeps, JobKeeps, RedisKeeps, ConnectKeeps, ReadKeeps, YieldKeeps, RestKeeps
       DEF DeliveryNext, Publish, Serve
  <2> QED
    BY <2>1, <2>2
<1> QED
  BY <1>1, DeliveryInitial, PTL DEF DeliverySpec

\* Whatever order any number of publishers reach Redis in, and however they and Redis
\* fail: every connection is sent each event behind its Last-Event-ID once and in order,
\* ends only at the run's terminal event, and is never left to its poll by a drained outbox
\* (PersistentEventBus.subscribe, read_after, OutboxPublisher.publish_pending).
THEOREM StreamIsFaithfulHolds == DeliverySpec => []StreamIsFaithful
<1>1. DeliveryInv => StreamIsFaithful
  <2> SUFFICES ASSUME DeliveryInv PROVE StreamIsFaithful
    OBVIOUS
  <2>0. len \in Nat /\ top \in Nat
    BY DeliveryBounds DEF DeliveryInv, JournalInv
  <2>1. ASSUME NEW s \in Subscribers
        PROVE  /\ cursor[s] \in 0..len
               /\ \A i \in DOMAIN page[s] : page[s][i] \in Events
               /\ \A i \in DOMAIN got[s] : got[s][i] = cursor[s] - Len(got[s]) + i
               /\ Len(got[s]) <= cursor[s] + 1
               /\ deliveryPhase[s] = "ended" => closed /\ cursor[s] = len
    <3>1. Faithful(s) /\ cursor[s] \in Nat /\ page[s] \in Seq(Nat) /\ got[s] \in Seq(Nat)
      BY DEF DeliveryInv, SubscriberInv
    <3>2. DOMAIN page[s] = 1..Len(page[s]) /\ DOMAIN got[s] = 1..Len(got[s]) /\ Len(page[s]) \in Nat
      BY <3>1
    <3>3. /\ Len(got[s]) <= cursor[s] + 1 /\ cursor[s] + Len(page[s]) <= len
          /\ \A i \in 1..Len(got[s]) : got[s][i] = cursor[s] - Len(got[s]) + i
          /\ \A i \in 1..Len(page[s]) : page[s][i] = cursor[s] + i
          /\ deliveryPhase[s] = "ended" => closed /\ cursor[s] = len
      BY <3>1, Zenon DEF Faithful
    <3> DEFINE c == cursor[s]  k == Len(page[s])
    <3>4. c \in Nat /\ k \in Nat /\ len \in Nat /\ c + k <= len
      BY <2>0, <3>1, <3>2, <3>3
    <3> HIDE DEF c, k
    <3>5. c \in 0..len /\ \A i \in 1..k : c + i \in 1..len
      BY <3>4
    <3> QED
      BY <3>2, <3>3, <3>5, Zenon DEF c, k, Events
  <2>2. TypeOK
    BY <2>1 DEF DeliveryInv, JournalInv, PublisherInv, SubscriberInv, TypeOK
  <2>3. DeliveredInOrder /\ EndsAtTerminal
    BY <2>1 DEF DeliveredInOrder, EndsAtTerminal
  <2>4. PublishedWakes
    <3>1. \A n \in published : n <= top
      BY DEF DeliveryInv, JournalInv
    <3>2. ASSUME published = Events, NEW s \in Subscribers, cursor[s] < len PROVE top > cursor[s]
      <4>1. len \in Events
        BY <2>0, <2>1, <3>2 DEF Events
      <4> QED
        BY <2>0, <2>1, <3>1, <3>2, <4>1
    <3> QED
      BY <3>1, <3>2 DEF PublishedWakes
  <2> QED
    BY <2>2, <2>3, <2>4 DEF StreamIsFaithful
<1> QED
  BY <1>1, DeliveryInvariant, PTL

=============================================================================
