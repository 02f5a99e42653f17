------------------------------ MODULE RateLimit ------------------------------
(* Inbound rate limiting of POST /auth/login (backend/rate_limits).  The ASGI   *)
(* middleware charges the caller's host, then the route dependency charges      *)
(* host and user name before the password is hashed, both against the fixed     *)
(* window of the "auth-login" policy.  The window is kept in Redis by one       *)
(* atomic Lua script; the in-memory adapter is driven by the same requests      *)
(* beside it, so that the two can be compared.  Time is counted in ticks.       *)
EXTENDS Naturals, FiniteSets

CONSTANTS
    Hosts, RateUsers,
    RateRequests,       \* requests being handled at the same time
    Limit,          \* RateLimitPolicy.limit
    WindowTicks,    \* RateLimitPolicy.window_seconds, in ticks
    Second,         \* ticks of a second
    MaxClock,       \* bound on the clock
    NoName          \* a body without a usable user name

ASSUME RateBounds == /\ Limit \in Nat \ {0} /\ Second \in Nat \ {0} /\ MaxClock \in Nat
                     /\ WindowTicks \in {n * Second : n \in 1..10}
                     /\ NoName \notin RateUsers

NameCost == 2       \* _AUTH_IDENTITY_COST

HostKeys == {<<h>> : h \in Hosts}
NameKeys == Hosts \X RateUsers
Keys == HostKeys \cup NameKeys

VARIABLES
    rateClock,
    rateUp,         \* Redis answers
    rateRedis,      \* per key: the hash written by the Lua script
    memory,     \* per key: the _MemoryWindow, count and reset_at
    request,    \* per request: where it is
    spent,      \* per key: cost admitted in the window of the clock (ghost)
    hashed      \* per name key: passwords hashed in the window of the clock (ghost)

rateVars == <<rateClock, rateUp, rateRedis, memory, request, spent, hashed>>

NoWindow == [start |-> 0, count |-> 0]      \* the key does not exist
IdleRequest == [st |-> "idle", host |-> "none", name |-> NoName, reset |-> 0, retryAt |-> 0]

RateInit ==
    /\ rateClock = 1 /\ rateUp = TRUE
    /\ rateRedis = [k \in Keys |-> NoWindow]
    /\ memory = [k \in Keys |-> [count |-> 0, reset |-> 0]]
    /\ request = [r \in RateRequests |-> IdleRequest]
    /\ spent = [k \in Keys |-> 0] /\ hashed = [k \in NameKeys |-> 0]

-----------------------------------------------------------------------------
(* The two adapters.                                                            *)

WindowStart(t) == t - (t % WindowTicks)

(* Lua: a stored window other than the clock's counts as empty.                 *)
RedisCount(k) == IF rateRedis[k].start = WindowStart(rateClock) THEN rateRedis[k].count ELSE 0

RedisReset == WindowStart(rateClock) + WindowTicks

(* Mutant: the check looks at the count before the cost is added.               *)
RedisAllowsBefore(k, cost) == RedisCount(k) < Limit

RedisAllows(k, cost) == RedisCount(k) + cost <= Limit

(* HSET is executed for refused requests too; then the count does not change.   *)
RedisConsume(k, cost) ==
    rateRedis' = [rateRedis EXCEPT ![k] = [start |-> WindowStart(rateClock),
                                   count |-> RedisCount(k) + IF RedisAllows(k, cost) THEN cost ELSE 0]]

RateExpired(w) == w.reset <= rateClock

(* Every expired window is dropped first, then the key's window is created.     *)
MemoryWindow(k) ==
    IF RateExpired(memory[k]) THEN [count |-> 0, reset |-> (rateClock \div WindowTicks + 1) * WindowTicks]
    ELSE memory[k]

MemoryAllows(k, cost) == MemoryWindow(k).count + cost <= Limit

MemoryConsume(k, cost) ==
    memory' = [j \in Keys |->
                 IF j = k THEN [MemoryWindow(k) EXCEPT !.count = @ + IF MemoryAllows(k, cost) THEN cost ELSE 0]
                 ELSE IF RateExpired(memory[j]) THEN [count |-> 0, reset |-> 0] ELSE memory[j]]

(* RateLimiter.check for one key.                                               *)
Consume(k, cost) ==
    /\ rateUp
    /\ RedisConsume(k, cost) /\ MemoryConsume(k, cost)
    /\ spent' = [spent EXCEPT ![k] = @ + IF RedisAllows(k, cost) THEN cost ELSE 0]

(* max(1, ceil(reset_at - observed_at)), in seconds.                            *)
RetryAfter == (RedisReset - rateClock + Second - 1) \div Second

Limited(r) == [request[r] EXCEPT !.st = "limited", !.reset = RedisReset,
                                 !.retryAt = rateClock + RetryAfter * Second]

-----------------------------------------------------------------------------
(* The request.                                                                 *)

Arrive(r, h, n) ==
    /\ request[r].st = "idle"
    /\ request' = [request EXCEPT ![r] = [IdleRequest EXCEPT !.st = "host", !.host = h, !.name = n]]
    /\ UNCHANGED <<rateClock, rateUp, rateRedis, memory, spent, hashed>>

(* RateLimitMiddleware: the host pays 1.                                        *)
CheckHost(r) ==
    LET k == <<request[r].host>>
    IN  /\ request[r].st = "host"
        /\ Consume(k, 1)
        /\ request' = [request EXCEPT ![r] = IF RedisAllows(k, 1) THEN [@ EXCEPT !.st = "name"]
                                             ELSE Limited(r)]
        /\ UNCHANGED <<rateClock, rateUp, hashed>>

(* enforce_auth_username_rate_limit: host and name pay 2, before the hashing.   *)
CheckName(r) ==
    LET k == <<request[r].host, request[r].name>>
    IN  /\ request[r].st = "name" /\ request[r].name # NoName
        /\ Consume(k, NameCost)
        /\ request' = [request EXCEPT ![r] = IF RedisAllows(k, NameCost) THEN IdleRequest ELSE Limited(r)]
        /\ hashed' = [hashed EXCEPT ![k] = @ + IF RedisAllows(k, NameCost) THEN 1 ELSE 0]
        /\ UNCHANGED <<rateClock, rateUp>>

(* Without a user name nothing is charged; the route's validation answers 422.  *)
NoNameRejected(r) ==
    /\ request[r].st = "name" /\ request[r].name = NoName
    /\ request' = [request EXCEPT ![r] = IdleRequest]
    /\ UNCHANGED <<rateClock, rateUp, rateRedis, memory, spent, hashed>>

(* RateLimitUnavailable: both places answer 503 and the request ends.           *)
Unavailable(r) ==
    /\ ~rateUp /\ request[r].st \in {"host", "name"}
    /\ request' = [request EXCEPT ![r] = IdleRequest]
    /\ UNCHANGED <<rateClock, rateUp, rateRedis, memory, spent, hashed>>

(* The script ran but its answer was lost or timed out: charged, and still 503. *)
AnswerLost(r) ==
    /\ \/ request[r].st = "host" /\ Consume(<<request[r].host>>, 1)
       \/ request[r].st = "name" /\ request[r].name # NoName
          /\ Consume(<<request[r].host, request[r].name>>, NameCost)
    /\ request' = [request EXCEPT ![r] = IdleRequest]
    /\ UNCHANGED <<rateClock, rateUp, hashed>>

(* A client that obeys Retry-After sends the request again, or gives it up.     *)
Retry(r) ==
    /\ request[r].st = "limited" /\ rateClock >= request[r].retryAt
    /\ request' = [request EXCEPT ![r].st = "host", ![r].reset = 0, ![r].retryAt = 0]
    /\ UNCHANGED <<rateClock, rateUp, rateRedis, memory, spent, hashed>>

GiveUp(r) ==
    /\ request[r].st = "limited"
    /\ request' = [request EXCEPT ![r] = IdleRequest]
    /\ UNCHANGED <<rateClock, rateUp, rateRedis, memory, spent, hashed>>

RateTick ==
    /\ rateClock < MaxClock
    /\ rateClock' = rateClock + 1
    /\ LET rolls == (rateClock + 1) % WindowTicks = 0
       IN  /\ spent' = IF rolls THEN [k \in Keys |-> 0] ELSE spent
           /\ hashed' = IF rolls THEN [k \in NameKeys |-> 0] ELSE hashed
    /\ UNCHANGED <<rateUp, rateRedis, memory, request>>

RedisTurns == rateUp' = ~rateUp /\ UNCHANGED <<rateClock, rateRedis, memory, request, spent, hashed>>

RateNext ==
    \/ \E r \in RateRequests : \/ \E h \in Hosts, n \in RateUsers \cup {NoName} : Arrive(r, h, n)
                               \/ CheckHost(r) \/ CheckName(r) \/ NoNameRejected(r) \/ Unavailable(r)
                               \/ AnswerLost(r) \/ Retry(r) \/ GiveUp(r)
    \/ RateTick \/ RedisTurns

RateSpec == RateInit /\ [][RateNext]_rateVars

-----------------------------------------------------------------------------
(* No window admits more than the policy's limit for a host or for a host with  *)
(* a user name, however many requests are between their two checks.             *)
WindowCap == \A k \in Keys : spent[k] <= Limit

(* Passwords are hashed at most Limit/2 times per window for a host and name,   *)
(* and every hashing was paid for: an unavailable limiter never lets one by.    *)
HashingIsPaid == \A k \in NameKeys : /\ NameCost * hashed[k] <= Limit
                                     /\ NameCost * hashed[k] <= spent[k]

(* Retry-After is neither short nor long: a client that waits that long meets a *)
(* new window, and it waits less than a second more than needed.                *)
RetryAfterSuffices ==
    \A r \in RateRequests : request[r].st = "limited" =>
        /\ request[r].retryAt >= request[r].reset
        /\ request[r].retryAt < request[r].reset + Second

(* A window admits what the policy says, nothing is hashed unpaid, and a client *)
(* that waits as told is let in.                                                *)
LimiterIsExact == WindowCap /\ HashingIsPaid /\ RetryAfterSuffices

=============================================================================
