----------------------------- MODULE AuthSession -----------------------------
(***************************************************************************)
(* The browser's side of authentication (frontend auth/session.ts,         *)
(* stores/auth.ts, utils/api.ts) against the server's refresh ledger.      *)
(* The tabs of one browser share the cookie that holds the refresh token;  *)
(* each has its own access token in memory and its own tombstone for a     *)
(* logout the server has not confirmed.  Nothing expires here but access   *)
(* tokens: a protected call may be answered 401 at any time.               *)
(***************************************************************************)
EXTENDS RefreshLedger

CONSTANTS
  Tabs,
  MaxGrants,    \* bound on the tokens the browser is given
  Environments  \* the browsers and networks tried

\* The browser has navigator.locks; requests and replies may be lost; pages may be
\* reloaded; the tabs that are open and the users who log in.
Environment == [locks : BOOLEAN, fail : BOOLEAN, reload : BOOLEAN, tabs : SUBSET Tabs, users : SUBSET LedgerUsers]

ASSUME SessionAssumption == Environments \subseteq Environment /\ None \notin Tabs /\ MaxGrants <= MaxTokens

VARIABLES
  env,        \* one of Environments, for good
  cookie,     \* the browser's refresh cookie, 0 when there is none
  lock,       \* the tab that holds the refresh lock
  session,    \* the grant each tab has in memory, 0 when signed out
  pending,    \* each tab's revocation tombstone
  restored,   \* new, restoring or yes: authResolved
  refresh,    \* each tab's refreshPromise
  logout,     \* each tab's revokeRefreshSession
  login,      \* each tab's login request
  api,        \* each tab's protected call
  orphans,    \* requests whose page no longer waits for the reply
  cleared,    \* a logout was confirmed and nobody has logged in since (history)
  replayed    \* the server took a request for a replay (history)

tabVars == <<session, pending, restored, refresh, logout, login, api>>
serverVars == <<ledger, issued, replayed>>
quiet == <<ledgerClock, handler, logouts, env>>
browserVars == <<cookie, lock, tabVars, orphans, cleared>>
authVars == <<ledgerVars, browserVars, replayed, env>>

WebLocks == env.locks
MayFail == env.fail
MayReload == env.reload

NoUser == None
Owner(grant) == IF grant = 0 THEN NoUser ELSE ledger[grant].user

\* A refresh attempt: live until the tab's generation changes; the user it expects;
\* the cookie it was sent with; the grant it was answered with.
NoRefresh == [phase |-> "none", live |-> FALSE, expected |-> NoUser, sent |-> 0, got |-> 0]
NewRefresh(t) == [NoRefresh EXCEPT !.phase = "lock", !.live = TRUE, !.expected = Owner(session[t])]
NoLogout == [phase |-> "none", sent |-> 0]
NoLogin == [phase |-> "none", user |-> NoUser, got |-> 0]
NoCall == [phase |-> "none", token |-> 0, retried |-> FALSE, got |-> 0]

AuthInit ==
  /\ LedgerInit /\ env \in Environments
  /\ cookie = 0 /\ lock = None
  /\ session = [t \in Tabs |-> 0] /\ pending = [t \in Tabs |-> FALSE] /\ restored = [t \in Tabs |-> "new"]
  /\ refresh = [t \in Tabs |-> NoRefresh] /\ logout = [t \in Tabs |-> NoLogout]
  /\ login = [t \in Tabs |-> NoLogin] /\ api = [t \in Tabs |-> NoCall]
  /\ orphans = {} /\ cleared = FALSE /\ replayed = FALSE

-----------------------------------------------------------------------------
(* The server, one request at a time: RefreshLedger shows what its handlers *)
(* do when they run at once.                                                *)

ServeRotate(c) ==
  /\ replayed' = (replayed \/ Replay(c))
  /\ IF RotateRefused(c)
     THEN ledger' = (IF Replay(c) THEN RevokeActive(ledger[c].user) ELSE ledger) /\ UNCHANGED issued
     ELSE issued < MaxGrants /\ ledger' = LedgerReplaced(c) /\ issued' = issued + 1

ServeRevoke(c) ==
  /\ ledger' = IF Active(c) THEN [ledger EXCEPT ![c] = [ledger[c] EXCEPT !.revoked = TRUE]] ELSE ledger
  /\ UNCHANGED <<issued, replayed>>

ServeRefresh(t) ==
  /\ refresh[t].phase = "sent"
  /\ ServeRotate(refresh[t].sent)
  /\ refresh' = [refresh EXCEPT ![t].phase = "served",
                                ![t].got = IF RotateRefused(refresh[t].sent) THEN 0 ELSE issued + 1]
  /\ UNCHANGED <<quiet, cookie, lock, session, pending, restored, logout, login, api, orphans, cleared>>

ServeLogout(t) ==
  /\ logout[t].phase = "sent"
  /\ ServeRevoke(logout[t].sent)
  /\ logout' = [logout EXCEPT ![t].phase = "served"]
  /\ UNCHANGED <<quiet, cookie, lock, session, pending, restored, refresh, login, api, orphans, cleared>>

ServeLogin(t) ==
  /\ login[t].phase = "sent" /\ issued < MaxGrants
  /\ ledger' = [ledger EXCEPT ![issued + 1] = LoginRow(login[t].user, ledgerClock)]
  /\ issued' = issued + 1
  /\ login' = [login EXCEPT ![t].phase = "served", ![t].got = issued + 1]
  /\ UNCHANGED <<quiet, cookie, lock, session, pending, restored, refresh, logout, api, orphans, cleared, replayed>>

\* A request nobody waits for any more, when the server has not seen it yet; one
\* without a cookie would change nothing there.
Unseen(op, r) == IF r.phase = "sent" /\ r.sent # 0 THEN {[op |-> op, token |-> r.sent]} ELSE {}

\* A request whose page is gone arrives after all; nobody sees the reply.
ServeOrphan(o) ==
  /\ orphans' = orphans \ {o}
  /\ IF o.op = "rotate" THEN ServeRotate(o.token) ELSE ServeRevoke(o.token)
  /\ UNCHANGED <<quiet, cookie, lock, tabVars, cleared>>

-----------------------------------------------------------------------------
(* refreshAuthSession and executeRefresh *)

Free(t) == ~WebLocks \/ lock = None
Take(t) == lock' = IF WebLocks THEN t ELSE lock

Release(t) == lock' = IF lock = t THEN None ELSE lock

\* A call is handed the grant of the refresh it shares, or 0 when that failed.
Handed(t, grant) ==
  IF api[t].phase = "refreshing" THEN [api EXCEPT ![t].phase = "resume", ![t].got = grant] ELSE api

\* The refresh ends: whoever shared the promise goes on, a restoring page is resolved.
EndRefresh(t, grant) ==
  /\ refresh' = [refresh EXCEPT ![t] = NoRefresh]
  /\ Release(t)
  /\ session' = IF grant = 0 THEN session ELSE [session EXCEPT ![t] = grant]
  /\ api' = Handed(t, grant)
  /\ restored' = IF restored[t] = "restoring" THEN [restored EXCEPT ![t] = "yes"] ELSE restored
  /\ UNCHANGED <<pending, logout, login, quiet>>

\* assertRefreshAttemptCurrent
AttemptCurrent(t) == refresh[t].live /\ ~pending[t]

\* The lock is granted: a superseded attempt sends nothing.
SendRefresh(t) ==
  /\ refresh[t].phase = "lock" /\ Free(t)
  /\ IF AttemptCurrent(t)
     THEN /\ refresh' = [refresh EXCEPT ![t].phase = "sent", ![t].sent = cookie]
          /\ Take(t)
          /\ UNCHANGED <<session, pending, restored, logout, login, api, quiet>>
     ELSE EndRefresh(t, 0)
  /\ UNCHANGED <<cookie, orphans, cleared, serverVars>>

SameSubject(t) == refresh[t].expected \in {NoUser, Owner(refresh[t].got)}

\* The reply sets or clears the cookie whatever becomes of the attempt.
RefreshReply(t) ==
  /\ refresh[t].phase = "served"
  /\ cookie' = refresh[t].got
  /\ EndRefresh(t, IF refresh[t].got # 0 /\ AttemptCurrent(t) /\ SameSubject(t) THEN refresh[t].got ELSE 0)
  /\ UNCHANGED <<orphans, cleared, serverVars>>

\* Lost or timed out; a request the server has not seen may still reach it.
RefreshLost(t) ==
  /\ MayFail /\ refresh[t].phase \in {"sent", "served"}
  /\ EndRefresh(t, 0)
  /\ orphans' = orphans \cup Unseen("rotate", refresh[t])
  /\ UNCHANGED <<cookie, cleared, serverVars>>

-----------------------------------------------------------------------------
(* restoreAuthSession, login and logout *)

Restore(t) ==
  /\ restored[t] = "new"
  /\ restored' = [restored EXCEPT ![t] = "restoring"]
  /\ IF pending[t]
     THEN logout' = [logout EXCEPT ![t].phase = "waits"] /\ UNCHANGED refresh
     ELSE refresh' = [refresh EXCEPT ![t] = NewRefresh(t)] /\ UNCHANGED logout
  /\ UNCHANGED <<cookie, lock, session, pending, login, api, orphans, cleared, serverVars, quiet>>

SignedOut(t) == restored[t] = "yes" /\ session[t] = 0 /\ login[t] = NoLogin /\ logout[t] = NoLogout

Login(t, u) ==
  /\ SignedOut(t)
  /\ login' = [login EXCEPT ![t] = [NoLogin EXCEPT !.phase = "sent", !.user = u]]
  /\ cleared' = FALSE
  /\ UNCHANGED <<cookie, lock, session, pending, restored, refresh, logout, api, orphans, serverVars, quiet>>

\* installAuthSession: a new generation; the tombstone is lifted.
LoginReply(t) ==
  /\ login[t].phase = "served"
  /\ cookie' = login[t].got
  /\ session' = [session EXCEPT ![t] = login[t].got]
  /\ pending' = [pending EXCEPT ![t] = FALSE]
  /\ refresh' = [refresh EXCEPT ![t].live = FALSE]
  /\ login' = [login EXCEPT ![t] = NoLogin]
  /\ UNCHANGED <<lock, restored, logout, api, orphans, cleared, serverVars, quiet>>

LoginLost(t) ==
  /\ MayFail /\ login[t].phase \in {"sent", "served"}
  /\ login' = [login EXCEPT ![t] = NoLogin]
  /\ UNCHANGED <<cookie, lock, session, pending, restored, refresh, logout, api, orphans, cleared, serverVars, quiet>>

\* revokeRefreshSession: tombstone, new generation, then wait for a refresh in flight.
SignOut(t) ==
  /\ restored[t] = "yes" /\ session[t] # 0 /\ login[t] = NoLogin /\ logout[t] = NoLogout
  /\ pending' = [pending EXCEPT ![t] = TRUE]
  /\ session' = [session EXCEPT ![t] = 0]
  /\ refresh' = [refresh EXCEPT ![t].live = FALSE]
  /\ logout' = [logout EXCEPT ![t].phase = "waits"]
  /\ UNCHANGED <<cookie, lock, restored, login, api, orphans, cleared, serverVars, quiet>>

\* Faulty variant of AwaitRefresh: a refresh in flight is not waited for.
AwaitRefreshSkipped(t) == logout[t].phase = "waits"

AwaitRefresh(t) == logout[t].phase = "waits" /\ refresh[t].phase = "none"

SendLogout(t) ==
  /\ AwaitRefresh(t) /\ Free(t)
  /\ logout' = [logout EXCEPT ![t] = [phase |-> "sent", sent |-> cookie]]
  /\ Take(t)
  /\ UNCHANGED <<cookie, session, pending, restored, refresh, login, api, orphans, cleared, serverVars, quiet>>

EndLogout(t) ==
  /\ logout' = [logout EXCEPT ![t] = NoLogout]
  /\ Release(t)
  /\ restored' = [restored EXCEPT ![t] = "yes"]

LogoutReply(t) ==
  /\ logout[t].phase = "served"
  /\ EndLogout(t)
  /\ cookie' = 0
  /\ pending' = [pending EXCEPT ![t] = FALSE]
  /\ cleared' = \A s \in Tabs : login[s] = NoLogin
  /\ UNCHANGED <<session, refresh, login, api, orphans, serverVars, quiet>>

\* The tombstone stays: the next page load tries again.
LogoutLost(t) ==
  /\ MayFail /\ logout[t].phase \in {"sent", "served"}
  /\ EndLogout(t)
  /\ orphans' = orphans \cup Unseen("logout", logout[t])
  /\ UNCHANGED <<cookie, session, pending, refresh, login, api, cleared, serverVars, quiet>>

-----------------------------------------------------------------------------
(* A protected call and its one retry *)

Call(t) ==
  /\ restored[t] = "yes" /\ api[t] = NoCall
  /\ api' = [api EXCEPT ![t] = [NoCall EXCEPT !.phase = "sent", !.token = session[t]]]
  /\ UNCHANGED <<cookie, lock, session, pending, restored, refresh, logout, login, orphans, cleared, serverVars, quiet>>

CallDone(t) ==
  /\ api[t].phase = "sent"
  /\ api' = [api EXCEPT ![t] = NoCall]
  /\ UNCHANGED <<cookie, lock, session, pending, restored, refresh, logout, login, orphans, cleared, serverVars, quiet>>

\* expireAuthSession: only the session the call was made with is dropped.
Expire(t) ==
  /\ api' = [api EXCEPT ![t] = NoCall]
  /\ IF api[t].token # 0 /\ session[t] = api[t].token
     THEN session' = [session EXCEPT ![t] = 0] /\ refresh' = [refresh EXCEPT ![t].live = FALSE]
     ELSE UNCHANGED <<session, refresh>>

\* The response interceptor on a 401: a call of an earlier session is given up, a
\* retried one ends the session, any other shares or starts a refresh.
Unauthorized(t) ==
  /\ api[t].phase = "sent"
  /\ IF api[t].token # session[t]
     THEN api' = [api EXCEPT ![t] = NoCall] /\ UNCHANGED <<session, refresh>>
     ELSE IF api[t].retried \/ pending[t]
     THEN Expire(t)
     ELSE /\ api' = [api EXCEPT ![t].phase = "refreshing"]
          /\ refresh' = IF refresh[t] = NoRefresh THEN [refresh EXCEPT ![t] = NewRefresh(t)] ELSE refresh
          /\ UNCHANGED session
  /\ UNCHANGED <<cookie, lock, pending, restored, logout, login, orphans, cleared, serverVars, quiet>>

Resume(t) ==
  /\ api[t].phase = "resume"
  /\ IF api[t].got = 0 THEN Expire(t)
     ELSE /\ api' = [api EXCEPT ![t] = IF session[t] = api[t].got /\ Owner(api[t].token) \in {NoUser, Owner(api[t].got)}
                                       THEN [NoCall EXCEPT !.phase = "sent", !.token = api[t].got, !.retried = TRUE]
                                       ELSE NoCall]
          /\ UNCHANGED <<session, refresh>>
  /\ UNCHANGED <<cookie, lock, pending, restored, logout, login, orphans, cleared, serverVars, quiet>>

\* The page is loaded anew: only the tombstone survives.
AuthReload(t) ==
  /\ MayReload /\ restored[t] # "new"
  /\ session' = [session EXCEPT ![t] = 0] /\ restored' = [restored EXCEPT ![t] = "new"]
  /\ refresh' = [refresh EXCEPT ![t] = NoRefresh] /\ logout' = [logout EXCEPT ![t] = NoLogout]
  /\ login' = [login EXCEPT ![t] = NoLogin] /\ api' = [api EXCEPT ![t] = NoCall]
  /\ Release(t)
  /\ orphans' = orphans \cup Unseen("rotate", refresh[t]) \cup Unseen("logout", logout[t])
  /\ UNCHANGED <<cookie, pending, cleared, serverVars, quiet>>

-----------------------------------------------------------------------------

RefreshSettles(t) == ServeRefresh(t) \/ RefreshReply(t) \/ RefreshLost(t)
LogoutSettles(t) == ServeLogout(t) \/ LogoutReply(t) \/ LogoutLost(t)
LoginSettles(t) == ServeLogin(t) \/ LoginReply(t) \/ LoginLost(t)
CallSettles(t) == CallDone(t) \/ Unauthorized(t) \/ Resume(t)

AuthNext ==
  \/ \E t \in env.tabs :
       \/ RefreshSettles(t) \/ LogoutSettles(t) \/ LoginSettles(t) \/ CallSettles(t)
       \/ Restore(t)
       \/ SendRefresh(t) \/ SendLogout(t)
       \/ \E u \in env.users : Login(t, u)
       \/ SignOut(t)
       \/ Call(t)
       \/ AuthReload(t)
  \/ \E o \in orphans : ServeOrphan(o)

AuthSpec == AuthInit /\ [][AuthNext]_authVars

\* Requests are answered or time out after a minute; the browser grants the lock in
\* order of arrival.
AuthFairness ==
  \A t \in Tabs :
       /\ WF_authVars(RefreshSettles(t)) /\ WF_authVars(LogoutSettles(t)) /\ WF_authVars(LoginSettles(t))
       /\ SF_authVars(SendRefresh(t)) /\ SF_authVars(SendLogout(t))

-----------------------------------------------------------------------------
(* Properties *)

\* Tabs of one browser that refresh at once never look like a replay to the server:
\* the refresh lock lets each one use the cookie the one before it was given, as
\* long as no reply is lost and no page goes away with one.
NoFalseReplay == WebLocks /\ ~MayFail /\ ~MayReload => ~replayed

\* A confirmed logout leaves no usable cookie, although refreshes of this or other
\* tabs were under way: until somebody logs in again the cookie names no active token.
LogoutIsFinal == cleared => ~Active(cookie)

\* A tab whose logout is not yet confirmed stays signed out, although a refresh that
\* began before it may still be answered.
RevokedTabStaysOut == \A t \in Tabs : pending[t] => session[t] = 0

\* Tabs that share a cookie neither lock each other out nor undo a logout.
SessionsHold == NoFalseReplay /\ LogoutIsFinal /\ RevokedTabStaysOut

\* Whatever a tab waits for ends: no refresh, logout or login hangs, although a
\* logout waits for a refresh, which waits for a lock another tab holds.
TabsSettle ==
  \A t \in Tabs :
    /\ refresh[t] # NoRefresh ~> refresh[t] = NoRefresh
    /\ logout[t] # NoLogout ~> logout[t] = NoLogout
    /\ login[t] # NoLogin ~> login[t] = NoLogin

=============================================================================
