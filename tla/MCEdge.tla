------------------------------- MODULE MCEdge -------------------------------
(* The components between a Run and its user: event publication and SSE       *)
(* delivery, the execution's event pumps, the page's view of a Run, sessions   *)
(* and the refresh-token ledger, login rate limits, the journal of a Thread,   *)
(* and the administrators' tool and skill profiles with the resources of the   *)
(* runtime built from them.                                                    *)
(* A behaviour runs one of them and leaves the others at rest; part says which.*)
EXTENDS EventDelivery, EventPump, RunView, AuthSession, RateLimit,
        ThreadJournal, CapabilityControl, CapabilityResources

CONSTANTS Parts,        \* the components to run
          MaxLogouts    \* how often a user leaves all devices

\* Two users who share a browser on a network that loses nothing; one whose
\* requests get lost; one tab without Web Locks that is reloaded as well.
OneUser == {CHOOSE u \in LedgerUsers : TRUE}
Smooth == [locks |-> TRUE, fail |-> FALSE, reload |-> FALSE, tabs |-> Tabs, users |-> LedgerUsers]
Rough == [Smooth EXCEPT !.fail = TRUE, !.users = OneUser]
OneTab == [Rough EXCEPT !.locks = FALSE, !.reload = TRUE, !.tabs = {CHOOSE t \in Tabs : TRUE}]
MCEnvironments == {Smooth, Rough, OneTab}
MCLossy == {[Smooth EXCEPT !.fail = TRUE]}

VARIABLE part

\* Components at rest: not started or finished, with nothing left to do.
PumpRest ==
  /\ pumpStatus = "running" /\ paused = FALSE /\ reason = None
  /\ pumpPhase = "ended" /\ outcome = "failed"
  /\ emitted = 0 /\ ran = {} /\ content = <<>> /\ thread = None
  /\ queue = [k \in Pumps |-> <<>>] /\ pump = [k \in Pumps |-> [IdlePump EXCEPT !.pc = "done"]]
  /\ err = FALSE
  /\ batcher = [pc |-> "done", queue |-> <<>>, chunks |-> <<>>, batch |-> <<>>, closing |-> FALSE]
  /\ journal = <<>> /\ audits = {} /\ strays = {}
ViewRest ==
  /\ viewStatus = "succeeded" /\ log = <<"run.created">> /\ view = InitialView /\ viewStream = Off
  /\ cancel = NoCancel /\ resume = NoResume /\ replay = NoReplay /\ load = NoLoad
  /\ bubble = [st |-> "creating", text |-> << >>]
  /\ breaks = 0 /\ loads = 0

MCInit ==
  /\ part \in Parts
  /\ DeliveryInit /\ AuthInit /\ RateInit
  /\ JournalInit /\ ControlInit /\ ResInit
  /\ part = "auth" \/ env = CHOOSE e \in Environments : TRUE
  /\ IF part = "pump" THEN PumpInit ELSE PumpRest
  /\ IF part = "view" THEN ViewInit ELSE ViewRest

OnlyPart(p) ==
  /\ part = p /\ UNCHANGED part
  /\ IF p = "delivery" THEN TRUE ELSE UNCHANGED deliveryVars
  /\ IF p = "pump" THEN TRUE ELSE UNCHANGED pumpVars
  /\ IF p = "view" THEN TRUE ELSE UNCHANGED viewVars
  /\ IF p = "auth" THEN TRUE ELSE UNCHANGED <<browserVars, replayed, env>>
  /\ IF p \in {"auth", "ledger"} THEN TRUE ELSE UNCHANGED ledgerVars
  /\ IF p = "rate" THEN TRUE ELSE UNCHANGED rateVars
  /\ IF p = "journal" THEN TRUE ELSE UNCHANGED journalVars
  /\ IF p = "control" THEN TRUE ELSE UNCHANGED controlVars
  /\ IF p = "resources" THEN TRUE ELSE UNCHANGED resVars

MCNext ==
  \/ OnlyPart("delivery") /\ DeliveryNext
  \/ OnlyPart("pump") /\ PumpNext
  \/ OnlyPart("view") /\ ViewNext
  \/ OnlyPart("ledger") /\ LedgerNext
  \/ OnlyPart("auth") /\ AuthNext
  \/ OnlyPart("rate") /\ RateNext
  \/ OnlyPart("journal") /\ JournalNext
  \/ OnlyPart("control") /\ ControlNext
  \/ OnlyPart("resources") /\ ResNext

MCvars == <<part, deliveryVars, pumpVars, viewVars, authVars, rateVars,
            journalVars, controlVars, resVars>>
MCSpec == MCInit /\ [][MCNext]_MCvars

\* The fairness each component justifies.
MCFairSpec == MCSpec /\ DeliveryFairness /\ PumpFairness /\ ViewFairness /\ AuthFairness

\* Users never meet in the ledger, so one is enough there; the capability control
\* restarts with its built-in skills and one request, and
\* skills that are created are not edited; a browser's third token is one that its
\* tabs get by signing in and refreshing only, on a network that loses nothing.
\* Where requests get lost, one tab signs out and the other calls the API.
Bounds ==
  /\ part = "auth" /\ issued > 2 =>
       ~env.fail /\ ~cleared
       /\ \A t \in Tabs : logout[t] = NoLogout /\ ~pending[t] /\ refresh[t].phase # "lock"
  /\ part = "auth" /\ env.fail /\ env.locks =>
       LET first == CHOOSE t \in Tabs : TRUE IN
       /\ \A t \in Tabs \ {first} : logout[t] = NoLogout
       /\ api[first] = NoCall
  /\ \A u \in LedgerUsers : logouts[u] <= (IF u \in OneUser THEN MaxLogouts ELSE 0)
  /\ \A k \in ControlSkills \ Builtins : skill[k] # None => skill[k].version = 1 /\ skill[k].enabled
  /\ restarts > 0 => /\ \A k \in ControlSkills \ Builtins : skill[k] = None
                     /\ \E a \in ControlAdmins : \A b \in ControlAdmins \ {a} : controlReq[b] = ControlIdle
  /\ part = "ledger" => \A h \in Handlers : handler[h].user \in OneUser \cup {None}

\* What is on its way to the user arrives: outboxes drain, streams and executions
\* end, the page sees the end of the Run it follows, and tabs agree on the session.
EdgeSettles ==
  OutboxDrains /\ DeliveryStreamEnds /\ ExecutionEnds /\ FollowedRunEnds /\ TabsSettle
=============================================================================
