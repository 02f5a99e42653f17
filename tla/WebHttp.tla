------------------------------- MODULE WebHttp -------------------------------
(***************************************************************************)
(* The HTTP client behind custom tools (web_research/http.py and           *)
(* url_policy.py).  A request resolves its host in a daemon thread that    *)
(* holds one of a few slots, connects to the resolved addresses in turn,   *)
(* reads the answer and follows redirects.  Its reads block and a server   *)
(* that keeps sending restarts their timeout, so a watchdog thread shuts   *)
(* the socket down at the deadline or on cancellation.                     *)
(*                                                                         *)
(* A deadline that passes and a cancellation are events; both stay true    *)
(* for the rest of the request.  Wrapping the socket for TLS detaches the  *)
(* one that was connected: shutting the old one down has no effect.        *)
(***************************************************************************)
EXTENDS Naturals, FiniteSets, Sequences, Absence

CONSTANTS
  HttpCalls,     \* requests
  HttpUrls,      \* URLs: [host, secure]
  DnsSlots,      \* max_concurrency of SystemWebDnsResolver
  MaxRedirects,  \* max_redirects
  MaxPins,       \* max_resolved_addresses
  BodyLimit      \* max_response_bytes, in chunks

ASSUME HttpBounds == /\ DnsSlots \in Nat \ {0} /\ MaxRedirects \in Nat
                     /\ MaxPins \in Nat \ {0} /\ BodyLimit \in Nat

VARIABLES
  http,      \* the requests
  lookups,   \* the request each daemon lookup thread works for, and whether it ran
  dnsFree,   \* free slots of the resolver
  dnsClosed, \* the policy and its resolver are closed
  httpStopped    \* what a request's checkpoints see: {"deadline", "cancelled"}

httpVars == <<http, lookups, dnsFree, dnsClosed, httpStopped>>

Methods == {"GET", "POST"}
NoSocket == "none"

\* http: pc, the URLs requested so far (the last one is current), whether all of the
\* caller's headers are still sent, the addresses not yet tried, the TLS and timeout
\* failures seen, the socket the thread blocks on, the watchdog, what was read and
\* how the request ended.
IdleHttp == [pc |-> "idle", method |-> "GET", hops |-> <<>>, full |-> TRUE, pins |-> 0,
             failed |-> {}, sock |-> NoSocket, cut |-> FALSE, body |-> 0,
             watch |-> [at |-> "off", reason |-> None, sock |-> NoSocket],
             target |-> None, end |-> None]

HttpEnds == {"ok", "cancelled", "deadline", "timeout", "tls", "connection", "too_large",
         "invalid", "redirect_limit", "redirect_denied", "status", "policy"}

HttpInit ==
  /\ http = [c \in HttpCalls |-> IdleHttp]
  /\ lookups = [c \in HttpCalls |-> "none"]
  /\ dnsFree = DnsSlots /\ dnsClosed = FALSE
  /\ httpStopped = [c \in HttpCalls |-> {}]

HttpPut(c, r) == http' = [http EXCEPT ![c] = r]
HttpAt(c, pc) == http[c].pc = pc
CurrentUrl(c) == http[c].hops[Len(http[c].hops)]
Origin(u) == <<u.host, u.secure>>

\* _checkpoint: cancellation is looked at before the deadline.
StopReason(c) ==
  CASE "cancelled" \in httpStopped[c] -> "cancelled"
    [] "deadline" \in httpStopped[c]  -> "deadline"
    [] OTHER                      -> None

\* raise_if_tripped.
Tripped(c) == http[c].watch.reason

\* The request leaves by the exception e; _request's finally stops the watchdog and
\* closes the connection.
HttpEnded(c, e) == [http[c] EXCEPT !.pc = "done", !.end = e, !.sock = NoSocket,
                               !.watch = [@ EXCEPT !.at = IF @ = "off" THEN @ ELSE "stopped", !.sock = NoSocket]]

\* The exception handlers of _request.
HttpFailed(c, e) == HttpEnded(c, IF Tripped(c) # None THEN Tripped(c) ELSE e)

-----------------------------------------------------------------------------
(* The environment: deadlines, cancellation, shutdown.                       *)

HttpStops(c, why) ==
  /\ http[c].pc \notin {"idle", "done"} /\ why \notin httpStopped[c]
  /\ httpStopped' = [httpStopped EXCEPT ![c] = @ \cup {why}]
  /\ UNCHANGED <<http, lookups, dnsFree, dnsClosed>>

ClosePolicy == ~dnsClosed /\ dnsClosed' = TRUE /\ UNCHANGED <<http, lookups, dnsFree, httpStopped>>

-----------------------------------------------------------------------------
(* SafeWebHttpClient: a request and its redirects.                           *)

HttpBegin(c, m, u) ==
  /\ HttpAt(c, "idle")
  /\ HttpPut(c, [IdleHttp EXCEPT !.pc = "resolve", !.method = m, !.target = u])
  /\ UNCHANGED <<lookups, dnsFree, dnsClosed, httpStopped>>

\* The policy refuses the URL (its text, scheme, port or host), or is closed, or the
\* resolver has no slot left.
UrlRefused(c) == StopReason(c) = None /\ HttpPut(c, HttpEnded(c, "policy")) /\ UNCHANGED <<lookups, dnsFree>>

\* WebUrlPolicy.resolve and SystemWebDnsResolver.resolve up to the thread's start.
\* The thread of an earlier hop has ended, since this request waited for its result.
DnsResolve(c) ==
  /\ HttpAt(c, "resolve")
  /\ \/ StopReason(c) # None /\ HttpPut(c, HttpEnded(c, StopReason(c))) /\ UNCHANGED <<lookups, dnsFree>>
     \/ UrlRefused(c)
     \/ /\ StopReason(c) = None /\ ~dnsClosed /\ dnsFree > 0
        /\ dnsFree' = dnsFree - 1
        /\ lookups' = [lookups EXCEPT ![c] = "running"]
        /\ HttpPut(c, [http[c] EXCEPT !.pc = "resolving"])
  /\ UNCHANGED <<dnsClosed, httpStopped>>

\* lookup: getaddrinfo returns in its own time and the thread gives its slot back.
LookupEnds(c) ==
  /\ lookups[c] = "running"
  /\ lookups' = [lookups EXCEPT ![c] = "answered"]
  /\ dnsFree' = dnsFree + 1
  /\ UNCHANGED <<http, dnsClosed, httpStopped>>

\* The redirect rules of get and post, on the URL that was just resolved.
Downgrade(c) == CurrentUrl(c).secure /\ ~http[c].target.secure
HttpLeaves(c) == Origin(CurrentUrl(c)) # Origin(http[c].target)
RedirectRefused(c) == http[c].hops # <<>> /\ (Downgrade(c) \/ (http[c].method = "POST" /\ HttpLeaves(c)))

\* The loop's head: the next hop gets a watchdog of its own, and after a change of
\* origin only accept and user-agent are sent.
NextHop(c, n) ==
  [http[c] EXCEPT !.pc = "connect", !.hops = Append(@, http[c].target), !.pins = n,
                  !.full = @ /\ (http[c].hops = <<>> \/ ~HttpLeaves(c)),
                  !.failed = {}, !.body = 0, !.cut = FALSE,
                  !.watch = [at |-> "watching", reason |-> None, sock |-> NoSocket]]

\* A URL that was requested already ends the loop.
Revisits(c) == \E i \in DOMAIN http[c].hops : http[c].hops[i] = http[c].target

\* The lookup fails, or it answers with too many addresses or one that is not global.
\* A deadline is a TimeoutError of the resolver, so a policy error as well.
AddressRefused(c) == HttpPut(c, HttpEnded(c, "policy"))

\* The wait for the lookup ends by its answer, by a timeout or by cancellation.
DnsResolved(c) ==
  /\ HttpAt(c, "resolving")
  /\ \/ "cancelled" \in httpStopped[c] /\ HttpPut(c, HttpEnded(c, "cancelled"))
     \/ AddressRefused(c)
     \/ /\ lookups[c] = "answered" /\ "cancelled" \notin httpStopped[c]
        /\ \E n \in 1 .. MaxPins :
             HttpPut(c, IF RedirectRefused(c) /\ (http[c].method = "POST" \/ StopReason(c) = None)
                    THEN HttpEnded(c, "redirect_denied")
                    ELSE IF StopReason(c) # None THEN HttpEnded(c, StopReason(c))
                    ELSE IF Revisits(c) THEN HttpEnded(c, "redirect_limit")
                    ELSE NextHop(c, n))
  /\ UNCHANGED <<lookups, dnsFree, dnsClosed, httpStopped>>

-----------------------------------------------------------------------------
(* _PinnedConnection.connect and the watchdog's hand-over.                   *)

\* track_socket: the watchdog is told of the socket; if it has fired already the
\* socket is shut down here and the request ends.
Tracked(c, r, s) ==
  IF Tripped(c) # None THEN HttpEnded(c, Tripped(c))
  ELSE [r EXCEPT !.sock = s, !.watch.sock = s]

\* What becomes of a failed address: the next one is tried, unless the watchdog has
\* fired, or it was the last.
NextPin(c, why) ==
  LET failed == http[c].failed \cup {why}
      rest == http[c].pins - 1
  IN IF Tripped(c) # None THEN HttpEnded(c, Tripped(c))
     ELSE IF rest > 0 THEN [http[c] EXCEPT !.pc = "connect", !.pins = rest, !.failed = failed, !.sock = NoSocket]
     ELSE HttpEnded(c, CASE "tls" \in failed -> "tls"
                     [] "timeout" \in failed -> IF "deadline" \in httpStopped[c] THEN "deadline" ELSE "timeout"
                     [] OTHER -> "connection")

\* The next address, with the time that remains.
HttpConnect(c) ==
  /\ HttpAt(c, "connect")
  /\ HttpPut(c, IF StopReason(c) # None THEN HttpEnded(c, StopReason(c)) ELSE [http[c] EXCEPT !.pc = "connecting"])
  /\ UNCHANGED <<lookups, dnsFree, dnsClosed, httpStopped>>

\* The connector blocks for at most that time.
HttpConnected(c) ==
  /\ HttpAt(c, "connecting")
  /\ \/ HttpPut(c, Tracked(c, [http[c] EXCEPT !.pc = "wrap"], "raw"))
     \/ \E why \in {"timeout", "os"} : HttpPut(c, NextPin(c, why))
  /\ UNCHANGED <<lookups, dnsFree, dnsClosed, httpStopped>>

\* verify_peer refuses the peer: a WebUrlPolicyError is a ValueError, which _request
\* reports as a failed connection.
PeerRefused(c) ==
  /\ http[c].pc \in {"wrap", "handshake"} /\ HttpPut(c, HttpFailed(c, "connection"))
  /\ UNCHANGED <<lookups, dnsFree, dnsClosed, httpStopped>>

\* Faulty variant of Wrap: the wrapped socket is not handed to the watchdog.
WrapUntracked(c) ==
  /\ HttpAt(c, "wrap")
  /\ HttpPut(c, IF StopReason(c) # None THEN HttpEnded(c, StopReason(c))
            ELSE IF ~CurrentUrl(c).secure THEN [http[c] EXCEPT !.pc = "answer"]
            ELSE [http[c] EXCEPT !.pc = "handshake", !.sock = "tls"])
  /\ UNCHANGED <<lookups, dnsFree, dnsClosed, httpStopped>>

\* http goes on; for https the socket is wrapped and tracked anew.
Wrap(c) ==
  /\ HttpAt(c, "wrap")
  /\ HttpPut(c, IF StopReason(c) # None THEN HttpEnded(c, StopReason(c))
            ELSE IF ~CurrentUrl(c).secure THEN [http[c] EXCEPT !.pc = "answer"]
            ELSE Tracked(c, [http[c] EXCEPT !.pc = "handshake"], "tls"))
  /\ UNCHANGED <<lookups, dnsFree, dnsClosed, httpStopped>>

\* do_handshake returns, or fails; with its socket shut down it fails.
Handshake(c) ==
  /\ HttpAt(c, "handshake")
  /\ \/ ~http[c].cut /\ HttpPut(c, IF StopReason(c) # None THEN HttpEnded(c, StopReason(c))
                               ELSE [http[c] EXCEPT !.pc = "answer"])
     \/ \E why \in {"tls", "timeout", "os"} : HttpPut(c, NextPin(c, why))
  /\ UNCHANGED <<lookups, dnsFree, dnsClosed, httpStopped>>

-----------------------------------------------------------------------------
(* _request and _read_body.                                                  *)

TimeoutFailure(c) == IF "deadline" \in httpStopped[c] THEN "deadline" ELSE "timeout"

\* The status line and headers: a redirect or another status is not read further; a
\* 2xx answer is, when its headers, type and length are acceptable.
HttpAnswer(c, status) ==
  /\ HttpAt(c, "answer")
  /\ \/ ~http[c].cut /\ status = "2xx" /\ HttpPut(c, [http[c] EXCEPT !.pc = "read"])
     \/ ~http[c].cut /\ status # "2xx" /\ HttpPut(c, [http[c] EXCEPT !.pc = status])
     \/ StopReason(c) # None /\ HttpPut(c, HttpEnded(c, StopReason(c)))
     \/ \E e \in {"invalid", "too_large", "connection", TimeoutFailure(c)} : HttpPut(c, HttpFailed(c, e))
  /\ UNCHANGED <<lookups, dnsFree, dnsClosed, httpStopped>>

\* A chunk: the checkpoint comes first, the limits after it.
ReadChunk(c) ==
  /\ HttpAt(c, "read")
  /\ HttpPut(c, IF StopReason(c) # None THEN HttpFailed(c, StopReason(c))
            ELSE IF http[c].body = BodyLimit THEN HttpFailed(c, "too_large")
            ELSE [http[c] EXCEPT !.body = @ + 1])
  /\ UNCHANGED <<lookups, dnsFree, dnsClosed, httpStopped>>

ReadFails(c) ==
  /\ HttpAt(c, "read") /\ \E e \in {"invalid", "connection", TimeoutFailure(c)} : HttpPut(c, HttpFailed(c, e))
  /\ UNCHANGED <<lookups, dnsFree, dnsClosed, httpStopped>>

\* A read on a socket that was shut down returns b"", as the end of the body does.
ReadEnd(c) ==
  /\ HttpAt(c, "read") /\ HttpPut(c, [http[c] EXCEPT !.pc = "2xx"])
  /\ UNCHANGED <<lookups, dnsFree, dnsClosed, httpStopped>>

\* Faulty variant of Delivers: what was read is taken as it is.
DeliversUnasked(c) == TRUE

\* After the body: raise_if_tripped and the last checkpoint.
Delivers(c) == Tripped(c) = None /\ StopReason(c) = None

MayRedirect(c) == Len(http[c].hops) - 1 < MaxRedirects

\* The client's part of a hop: a redirect is resolved like a first URL (post follows
\* 307 and 308 only), another status is an error.
HttpConclude(c, location) ==
  /\ http[c].pc \in {"2xx", "302", "307", "5xx"}
  /\ LET status == http[c].pc
         closed == [http[c] EXCEPT !.sock = NoSocket, !.cut = FALSE,
                                   !.watch = [at |-> "stopped", reason |-> None, sock |-> NoSocket]]
     IN HttpPut(c, CASE ~Delivers(c)    -> HttpEnded(c, IF Tripped(c) # None THEN Tripped(c) ELSE StopReason(c))
                 [] status = "2xx"  -> HttpEnded(c, "ok")
                 [] status = "5xx"  -> HttpEnded(c, "status")
                 [] ~MayRedirect(c) -> HttpEnded(c, "redirect_limit")
                 [] status = "302" /\ http[c].method = "POST" -> HttpEnded(c, "redirect_denied")
                 [] OTHER -> [closed EXCEPT !.pc = "resolve", !.target = location])
  /\ UNCHANGED <<lookups, dnsFree, dnsClosed, httpStopped>>

-----------------------------------------------------------------------------
(* _RequestWatchdog._watch, one thread per hop.                              *)

\* _interrupt, under the lock: the reason, and the socket to shut down.
WatchdogFires(c) ==
  /\ http[c].watch.at = "watching" /\ StopReason(c) # None
  /\ HttpPut(c, [http[c] EXCEPT !.watch.at = "shutting", !.watch.reason = StopReason(c)])
  /\ UNCHANGED <<lookups, dnsFree, dnsClosed, httpStopped>>

\* _shutdown, after the lock: of the socket that was registered, which need not be
\* the one the request uses by now.
WatchdogShuts(c) ==
  /\ http[c].watch.at = "shutting"
  /\ HttpPut(c, [http[c] EXCEPT !.watch.at = "stopped",
                            !.cut = @ \/ (http[c].watch.sock # NoSocket /\ http[c].watch.sock = http[c].sock)])
  /\ UNCHANGED <<lookups, dnsFree, dnsClosed, httpStopped>>

-----------------------------------------------------------------------------
HttpStep(c) ==
  \/ \E m \in Methods, u \in HttpUrls : HttpBegin(c, m, u)
  \/ DnsResolve(c) \/ DnsResolved(c) \/ HttpConnect(c) \/ HttpConnected(c) \/ PeerRefused(c) \/ Wrap(c) \/ Handshake(c)
  \/ \E s \in {"2xx", "302", "307", "5xx"} : HttpAnswer(c, s)
  \/ ReadChunk(c) \/ ReadFails(c) \/ ReadEnd(c)
  \/ \E u \in HttpUrls : HttpConclude(c, u)

HttpNext ==
  \/ \E c \in HttpCalls : \/ HttpStep(c) \/ LookupEnds(c) \/ WatchdogFires(c) \/ WatchdogShuts(c)
                          \/ \E why \in {"deadline", "cancelled"} : HttpStops(c, why)
  \/ ClosePolicy

HttpSpec == HttpInit /\ [][HttpNext]_httpVars

\* What a thread does without waiting for a server: the resolver and the connector
\* have timeouts of their own, and a read returns once its socket is shut down.
HttpPrompt(c) ==
  \/ DnsResolve(c) \/ DnsResolved(c) \/ HttpConnect(c) \/ HttpConnected(c) \/ Wrap(c)
  \/ \E u \in HttpUrls : HttpConclude(c, u)
  \/ http[c].cut /\ (Handshake(c) \/ HttpAnswer(c, "2xx") \/ ReadEnd(c))

\* Threads run, the clock reaches the deadline; nothing is assumed of any server.
HttpFairness ==
  \A c \in HttpCalls : /\ WF_httpVars(HttpPrompt(c)) /\ WF_httpVars(WatchdogFires(c)) /\ WF_httpVars(WatchdogShuts(c))
                        /\ WF_httpVars(HttpStops(c, "deadline"))

-----------------------------------------------------------------------------
\* Type invariant: how requests end, what sockets, watchdogs and lookups can be.
HttpTypeOK ==
  /\ \A c \in HttpCalls : /\ http[c].end \in HttpEnds \cup {None} /\ http[c].sock \in {NoSocket, "raw", "tls"}
                           /\ http[c].watch.reason \in {None, "deadline", "cancelled"}
  /\ lookups \in [HttpCalls -> {"none", "running", "answered"}]
  /\ dnsFree \in 0 .. DnsSlots

\* Every slot of the resolver is free or held by a running lookup thread, also when
\* requests give up on their lookups or the policy is closed under them: a slot that
\* was lost would never come back (SystemWebDnsResolver.resolve).
DnsSlotsExact == dnsFree + Cardinality({c \in HttpCalls : lookups[c] = "running"}) = DnsSlots

\* A request whose socket the watchdog shut down says why: the end of file that the
\* read then sees is neither a complete body nor a failed connection
\* (_request, raise_if_tripped).
InterruptIsTold ==
  \A c \in HttpCalls : HttpAt(c, "done") /\ Tripped(c) # None => http[c].end \in {"deadline", "cancelled"}

\* Redirects end: no URL is requested twice in a request, at most max_redirects are
\* followed, and https is never left (SafeWebHttpClient.get, post).
RedirectChain ==
  \A c \in HttpCalls : LET h == http[c].hops IN
    /\ Len(h) <= MaxRedirects + 1
    /\ \A i, j \in DOMAIN h : i < j => h[i] # h[j] /\ (h[i].secure => h[j].secure)

\* The caller's own headers go to the origin it named, and the body of a POST too,
\* however often the request is redirected, back to that origin included.
HeadersStayHome ==
  \A c \in HttpCalls : LET h == http[c].hops IN
    h # <<>> /\ (http[c].full \/ http[c].method = "POST") =>
      \A i \in DOMAIN h : Origin(h[i]) = Origin(h[1])

\* A request neither leaks a resolver slot, nor hides an interruption, nor follows
\* redirects for ever, nor takes the caller's headers to another origin.
HttpIsSound == HttpTypeOK /\ DnsSlotsExact /\ InterruptIsTold /\ RedirectChain /\ HeadersStayHome

\* Every request ends, although a server may keep it reading for ever: the watchdog
\* reaches whichever socket it blocks on, through connects and the hand-over to TLS.
HttpCallEnds == \A c \in HttpCalls : http[c].pc # "idle" ~> http[c].pc = "done"
=============================================================================
