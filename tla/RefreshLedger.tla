---------------------------- MODULE RefreshLedger ----------------------------
(***************************************************************************)
(* The refresh-token ledger of AuthTokenService (auth/service.py) and its  *)
(* retention job (auth/cleanup.py).  Request handlers of several processes *)
(* work on it at once: each first looks up whose token it was given, then  *)
(* locks the user's row and decides on what it reads under that lock, so   *)
(* the part from the lock to the commit is one step.                       *)
(***************************************************************************)
EXTENDS Absence, Naturals, FiniteSets

CONSTANTS
  LedgerUsers,
  Handlers,     \* request handlers, in any number of processes
  MaxTokens,    \* bound on the tokens issued
  MaxTime,      \* bound on the clock
  Lifetime,     \* refresh_token_expire_days
  Retention,    \* refresh_token_retention_days
  LedgerBatchSize     \* of one purge

ASSUME LedgerAssumption ==
  /\ MaxTokens \in Nat /\ MaxTime \in Nat /\ Lifetime \in Nat \ {0} /\ Retention \in Nat
  /\ LedgerBatchSize \in Nat \ {0}
  /\ None \notin LedgerUsers

VARIABLES
  ledger,    \* the refresh_tokens table, by token
  issued,    \* number of tokens issued so far
  ledgerClock,
  handler,   \* what each handler has in hand
  logouts    \* how often each user has left all devices (history)

ledgerVars == <<ledger, issued, ledgerClock, handler, logouts>>

Tokens == 1 .. MaxTokens

\* A row of the table. login is the token of the login this one descends from and
\* since the number of the user's logouts from all devices before that login;
\* both are history, the code does not store them.
Row == [user : LedgerUsers, expires : Nat, revoked : BOOLEAN, login : Nat, since : Nat]

\* A request: its kind, the user it acts for, the token it was given, and the
\* time it read before it took the lock.
Idle == [op |-> "idle", user |-> None, token |-> 0, now |-> 0]
LedgerRequests ==
  [op : {"idle", "issue", "rotate", "logout"}, user : LedgerUsers \cup {None}, token : Nat, now : Nat]

LedgerInit ==
  /\ ledger = [t \in Tokens |-> None]
  /\ issued = 0 /\ ledgerClock = 0
  /\ handler = [h \in Handlers |-> Idle]
  /\ logouts = [u \in LedgerUsers |-> 0]

-----------------------------------------------------------------------------

Stored(t) == t \in Tokens /\ ledger[t] # None
LedgerExpired(t) == ledger[t].expires <= ledgerClock
Active(t) == Stored(t) /\ ~ledger[t].revoked /\ ~LedgerExpired(t)

\* Faulty variant of RevokeActive: only the newest token is revoked.
RevokeActiveNewest(u) ==
  [t \in Tokens |-> IF Active(t) /\ ledger[t].user = u /\ t = issued THEN [ledger[t] EXCEPT !.revoked = TRUE] ELSE ledger[t]]

\* _revoke_active_for_user
RevokeActive(u) ==
  [t \in Tokens |-> IF Active(t) /\ ledger[t].user = u THEN [ledger[t] EXCEPT !.revoked = TRUE] ELSE ledger[t]]

Done(h) == handler' = [handler EXCEPT ![h] = Idle]

\* login and register: the clock is read before the user is locked.
BeginIssue(h, u) ==
  /\ handler[h] = Idle
  /\ handler' = [handler EXCEPT ![h] = [op |-> "issue", user |-> u, token |-> 0, now |-> ledgerClock]]
  /\ UNCHANGED <<ledger, issued, ledgerClock, logouts>>

LoginRow(u, now) ==
  [user |-> u, expires |-> now + Lifetime, revoked |-> FALSE, login |-> issued + 1, since |-> logouts[u]]

CommitIssue(h) ==
  /\ handler[h].op = "issue" /\ issued < MaxTokens
  /\ ledger' = [ledger EXCEPT ![issued + 1] = LoginRow(handler[h].user, handler[h].now)]
  /\ issued' = issued + 1
  /\ Done(h)
  /\ UNCHANGED <<ledgerClock, logouts>>

\* _token_user_id: the unlocked look-up. An unknown token is refused at once.
Locate(h, op, t) ==
  /\ handler[h] = Idle /\ t <= issued
  /\ Stored(t)
  /\ handler' = [handler EXCEPT ![h] = [op |-> op, user |-> ledger[t].user, token |-> t, now |-> 0]]
  /\ UNCHANGED <<ledger, issued, ledgerClock, logouts>>

ReplacementRow(t) == [ledger[t] EXCEPT !.expires = ledgerClock + Lifetime, !.revoked = FALSE]

LedgerReplaced(t) == [ledger EXCEPT ![t] = [ledger[t] EXCEPT !.revoked = TRUE], ![issued + 1] = ReplacementRow(t)]

RotateRefused(t) == ~Stored(t) \/ LedgerExpired(t) \/ ledger[t].revoked

Replay(t) == Stored(t) /\ ~LedgerExpired(t) /\ ledger[t].revoked

Rotate(h) ==
  LET t == handler[h].token
  IN /\ handler[h].op = "rotate"
     /\ IF RotateRefused(t)
        THEN ledger' = (IF Replay(t) THEN RevokeActive(handler[h].user) ELSE ledger) /\ UNCHANGED issued
        ELSE issued < MaxTokens /\ ledger' = LedgerReplaced(t) /\ issued' = issued + 1
     /\ Done(h)
     /\ UNCHANGED <<ledgerClock, logouts>>

Logout(h) ==
  LET t == handler[h].token
  IN /\ handler[h].op = "logout"
     /\ ledger' = IF Active(t) THEN [ledger EXCEPT ![t] = [ledger[t] EXCEPT !.revoked = TRUE]] ELSE ledger
     /\ Done(h)
     /\ UNCHANGED <<issued, ledgerClock, logouts>>

\* logout_all takes no token: the user is known from the access token.
LogoutAll(u) ==
  /\ ledger' = RevokeActive(u)
  /\ logouts' = [logouts EXCEPT ![u] = @ + 1]
  /\ UNCHANGED <<issued, ledgerClock, handler>>

Purgeable == {t \in Tokens : Stored(t) /\ ledger[t].expires + Retention <= ledgerClock}

\* purge_refresh_token_batch: the first rows in the order of their expiry.
Purge(batch) ==
  /\ batch # {} /\ batch \subseteq Purgeable
  /\ Cardinality(batch) <= LedgerBatchSize
  /\ Cardinality(batch) < LedgerBatchSize => batch = Purgeable
  /\ \A t \in batch, o \in Purgeable \ batch : ledger[t].expires <= ledger[o].expires
  /\ ledger' = [t \in Tokens |-> IF t \in batch THEN None ELSE ledger[t]]
  /\ UNCHANGED <<issued, ledgerClock, handler, logouts>>

LedgerTick == ledgerClock < MaxTime /\ ledgerClock' = ledgerClock + 1 /\ UNCHANGED <<ledger, issued, handler, logouts>>

LedgerNext ==
  \/ \E h \in Handlers :
       \/ \E u \in LedgerUsers : BeginIssue(h, u)
       \/ CommitIssue(h)
       \/ \E t \in Tokens, op \in {"rotate", "logout"} : Locate(h, op, t)
       \/ Rotate(h)
       \/ Logout(h)
  \/ \E u \in LedgerUsers : LogoutAll(u)
  \/ \E batch \in SUBSET Tokens : Purge(batch)
  \/ LedgerTick

LedgerSpec == LedgerInit /\ [][LedgerNext]_ledgerVars

-----------------------------------------------------------------------------
(* Properties *)

\* Type invariant of the ledger and the requests at work on it.
LedgerTypeOK ==
  /\ ledger \in [Tokens -> Row \cup {None}]
  /\ issued \in 0 .. MaxTokens /\ ledgerClock \in Nat
  /\ handler \in [Handlers -> LedgerRequests]
  /\ logouts \in [LedgerUsers -> Nat]

\* Leaving all devices ends every session begun before it: a token that is active
\* descends from a login made after the user's last logout-all, although rotations
\* of older tokens were under way in other processes when it was committed.
LogoutAllHolds == \A t \in Tokens : Active(t) => ledger[t].since = logouts[ledger[t].user]

\* A login has at most one active token at any time: however many requests present
\* the same token at once, it is replaced at most once.
OneActivePerLogin ==
  \A s, t \in Tokens : Active(s) /\ Active(t) /\ ledger[s].login = ledger[t].login => s = t

\* Tokens neither outlive a logout of all devices nor fork.
LedgerIsSound == LogoutAllHolds /\ OneActivePerLogin

=============================================================================
