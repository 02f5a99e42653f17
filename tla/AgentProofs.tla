----------------------------- MODULE AgentProofs ----------------------------
(***************************************************************************)
(* What holds of the tool gate for every number of calls and permits, of   *)
(* the tool policy for every set of tools, Skills and grants, and of the   *)
(* resources of the capability runtime for every number of Runs and of     *)
(* replacements.                                                           *)
(***************************************************************************)
EXTENDS ToolGate, ToolPolicy, CapabilityResources, FiniteSetTheorems, TLAPS

(* The gate *)

\* The calls whose permit is out.
Holding == {c \in GateCalls : gateCaller[c] = "acquired" \/ gateTask[c] \notin {"none", "over"}}

\* A permit is out for exactly the calls in Holding, and a call has no task before
\* it has submitted one: so it cannot hold two permits, or lose one by submitting.
GateInv ==
    /\ gateCaller \in [GateCalls -> CallerStates]
    /\ gateTask \in [GateCalls -> GateTaskStates]
    /\ permits \in Nat
    /\ permits = MaxConcurrency - Cardinality(Holding)
    /\ \A c \in GateCalls : gateCaller[c] \in {"idle", "waiting", "acquired"} => gateTask[c] = "none"

\* A step of call c moves its permit only.
LEMMA OneHolder ==
  ASSUME GateInv, NEW c \in GateCalls,
         gateCaller' \in [GateCalls -> CallerStates], gateTask' \in [GateCalls -> GateTaskStates],
         \A d \in GateCalls \ {c} : gateCaller'[d] = gateCaller[d] /\ gateTask'[d] = gateTask[d]
  PROVE  /\ IsFiniteSet(Holding) /\ Cardinality(Holding) \in Nat
         /\ (c \in Holding /\ c \in Holding') => Cardinality(Holding') = Cardinality(Holding)
         /\ (c \notin Holding /\ c \notin Holding') => Cardinality(Holding') = Cardinality(Holding)
         /\ (c \notin Holding /\ c \in Holding') => Cardinality(Holding') = Cardinality(Holding) + 1
         /\ (c \in Holding /\ c \notin Holding') => Cardinality(Holding') = Cardinality(Holding) - 1
<1>1. IsFiniteSet(Holding)
  BY GateAssumption, FS_Subset DEF Holding
<1>2. Cardinality(Holding) \in Nat
  BY <1>1, FS_CardinalityType
<1>3. \A d \in GateCalls \ {c} : d \in Holding <=> d \in Holding'
  BY DEF Holding
<1>4. Holding \subseteq GateCalls /\ Holding' \subseteq GateCalls
  BY DEF Holding
<1>5. (c \in Holding <=> c \in Holding') => Holding' = Holding
  BY <1>3, <1>4
<1>6. (c \notin Holding /\ c \in Holding') => Holding' = Holding \cup {c}
  BY <1>3, <1>4
<1>7. (c \in Holding /\ c \notin Holding') => Holding' = Holding \ {c}
  BY <1>3, <1>4
<1>8. c \notin Holding => Cardinality(Holding \cup {c}) = Cardinality(Holding) + 1
  BY <1>1, FS_AddElement
<1>9. c \in Holding => Cardinality(Holding \ {c}) = Cardinality(Holding) - 1
  BY <1>1, FS_RemoveElement
<1> QED
  BY <1>1, <1>2, <1>5, <1>6, <1>7, <1>8, <1>9

\* What a step of the gate does to the call that takes it.
LEMMA GateStepKeepsInv ==
  ASSUME GateInv, NEW c \in GateCalls,
         GateCall(c) \/ Step(c) \/ End(c) \/ GateTimeout(c) \/ Abandon(c, "stopped")
  PROVE  GateInv'
<1>1. /\ gateCaller \in [GateCalls -> CallerStates] /\ gateTask \in [GateCalls -> GateTaskStates]
      /\ permits \in Nat
      /\ gateCaller[c] \in {"idle", "waiting", "acquired"} => gateTask[c] = "none"
  BY DEF GateInv
<1> DEFINE Typed == gateCaller' \in [GateCalls -> CallerStates] /\ gateTask' \in [GateCalls -> GateTaskStates]
           Alone == \A d \in GateCalls \ {c} : gateCaller'[d] = gateCaller[d] /\ gateTask'[d] = gateTask[d]
           Fresh == gateCaller'[c] \in {"idle", "waiting", "acquired"} => gateTask'[c] = "none"
           Was == gateCaller[c] = "acquired" \/ gateTask[c] \notin {"none", "over"}
           Is == gateCaller'[c] = "acquired" \/ gateTask'[c] \notin {"none", "over"}
           Keeps == permits' = permits /\ (Was <=> Is)
           Takes == permits > 0 /\ permits' = permits - 1 /\ ~Was /\ Is
           Gives == permits' = permits + 1 /\ Was /\ ~Is
<1>2. ASSUME Typed, Alone, Fresh, Keeps \/ Takes \/ Gives PROVE GateInv'
  <2>0. (c \in Holding <=> Was) /\ (c \in Holding' <=> Is)
    BY DEF Holding
  <2>1. /\ permits' \in Nat
        /\ permits' = MaxConcurrency - Cardinality(Holding')
    BY <1>1, <1>2, <2>0, OneHolder, GateAssumption DEF GateInv
  <2>2. \A d \in GateCalls : gateCaller'[d] \in {"idle", "waiting", "acquired"} => gateTask'[d] = "none"
    BY <1>2 DEF GateInv
  <2> QED
    BY <1>2, <2>1, <2>2 DEF GateInv
<1>4. CASE Acquire(c)
  <2>1. Typed /\ Alone
    BY <1>1, <1>4 DEF Acquire, Caller, CallerStates
  <2>2. Fresh /\ (Keeps \/ Takes \/ Gives)
    BY <1>1, <1>4 DEF Acquire, Caller, CallerStates
  <2> QED
    BY <1>2, <2>1, <2>2
<1>5. CASE WaitTimesOut(c)
  <2>1. Typed /\ Alone
    BY <1>1, <1>5 DEF WaitTimesOut, Caller, CallerStates
  <2>2. Fresh /\ (Keeps \/ Takes \/ Gives)
    BY <1>1, <1>5 DEF WaitTimesOut, Caller, CallerStates
  <2> QED
    BY <1>2, <2>1, <2>2
<1>6. CASE Submit(c)
  <2>1. Typed /\ Alone
    BY <1>1, <1>6 DEF Submit, Caller, GateTask, CallerStates, GateTaskStates
  <2>2. Fresh /\ (Keeps \/ Takes \/ Gives)
    BY <1>1, <1>6 DEF Submit, Caller, GateTask, CallerStates, GateTaskStates
  <2> QED
    BY <1>2, <2>1, <2>2
<1>7. CASE SubmitFails(c)
  <2>1. Typed /\ Alone
    BY <1>1, <1>7 DEF SubmitFails, Caller, CallerStates
  <2>2. Fresh /\ (Keeps \/ Takes \/ Gives)
    BY <1>1, <1>7 DEF SubmitFails, Caller, CallerStates
  <2> QED
    BY <1>2, <2>1, <2>2
<1>8. CASE GateTake(c)
  <2>1. Typed /\ Alone
    BY <1>1, <1>8 DEF GateTake, GateTask, GateTaskStates
  <2>2. Fresh /\ (Keeps \/ Takes \/ Gives)
    BY <1>1, <1>8 DEF GateTake, GateTask, GateTaskStates
  <2> QED
    BY <1>2, <2>1, <2>2
<1>9. CASE End(c)
  <2>1. Typed /\ Alone
    BY <1>1, <1>9 DEF End, Unwound, Caller, GateTask, CallerStates, GateTaskStates
  <2>2. Fresh /\ (Keeps \/ Takes \/ Gives)
    BY <1>1, <1>9 DEF End, Unwound, Caller, GateTask, CallerStates, GateTaskStates
  <2> QED
    BY <1>2, <2>1, <2>2
<1>10. CASE GateReceive(c)
  <2>1. Typed /\ Alone
    BY <1>1, <1>10 DEF GateReceive, Caller, CallerStates
  <2>2. Fresh /\ (Keeps \/ Takes \/ Gives)
    BY <1>1, <1>10 DEF GateReceive, Caller, CallerStates
  <2> QED
    BY <1>2, <2>1, <2>2
<1>11. CASE Callback(c)
  <2>1. Typed /\ Alone
    BY <1>1, <1>11 DEF Callback, GateTask, GateTaskStates
  <2>2. Fresh /\ (Keeps \/ Takes \/ Gives)
    BY <1>1, <1>11 DEF Callback, GateTask, GateTaskStates
  <2> QED
    BY <1>2, <2>1, <2>2
<1>12. ASSUME NEW s \in {"timeout", "stopped"}, Abandon(c, s) PROVE GateInv'
  <2>1. Typed /\ Alone
    BY <1>1, <1>12 DEF Abandon, Caller, GateTask, CallerStates, GateTaskStates
  <2>2. Fresh /\ (Keeps \/ Takes \/ Gives)
    BY <1>1, <1>12 DEF Abandon, Caller, GateTask, CallerStates, GateTaskStates
  <2> QED
    BY <1>2, <2>1, <2>2
<1>13. CASE StopWaiting(c)
  <2>1. Typed /\ Alone
    BY <1>1, <1>13 DEF StopWaiting, Caller, CallerStates
  <2>2. Fresh /\ (Keeps \/ Takes \/ Gives)
    BY <1>1, <1>13 DEF StopWaiting, Caller, CallerStates
  <2> QED
    BY <1>2, <2>1, <2>2
<1>14. CASE GateCall(c)
  <2>1. Typed /\ Alone
    BY <1>1, <1>14 DEF GateCall, Caller, CallerStates
  <2>2. Fresh /\ (Keeps \/ Takes \/ Gives)
    BY <1>1, <1>14 DEF GateCall, Caller, CallerStates
  <2> QED
    BY <1>2, <2>1, <2>2
<1> QED
  BY <1>4, <1>5, <1>6, <1>7, <1>8, <1>9, <1>10, <1>11, <1>12, <1>13, <1>14 DEF Step, GateTimeout

LEMMA GateInvariant == GateSpec => []GateInv
<1>1. GateInit => GateInv
  <2> SUFFICES ASSUME GateInit PROVE GateInv
    OBVIOUS
  <2>1. Holding = {}
    BY DEF GateInit, Holding
  <2>2. Cardinality(Holding) = 0
    BY <2>1, FS_EmptySet
  <2> QED
    BY <2>2, GateAssumption DEF GateInit, GateInv, CallerStates, GateTaskStates
<1>2. GateInv /\ [GateNext]_gateVars => GateInv'
  <2> SUFFICES ASSUME GateInv, [GateNext]_gateVars PROVE GateInv'
    OBVIOUS
  <2>1. CASE UNCHANGED gateVars
    BY <2>1 DEF GateInv, Holding, gateVars
  <2> QED
    BY <2>1, GateStepKeepsInv DEF GateNext
<1> QED
  BY <1>1, <1>2, PTL DEF GateSpec

\* Every permit is where the code of _govern_base_tool put it: no path out of a call,
\* timed out, cancelled or refused by the pool, loses one or gives one back twice.
THEOREM PermitsExact == GateSpec => []PermitsAreExact
<1>1. GateInv => PermitsAreExact
  BY DEF GateInv, Holding, PermitsAreExact
<1> QED
  BY <1>1, GateInvariant, PTL

\* The BoundedSemaphore of a tool is never released beyond its bound.
THEOREM GateTyped == GateSpec => []GateTypeOK
<1>1. GateInv => GateTypeOK
  <2> SUFFICES ASSUME GateInv PROVE GateTypeOK
    OBVIOUS
  <2>1. Cardinality(Holding) \in Nat
    BY GateAssumption, FS_Subset, FS_CardinalityType DEF Holding
  <2> QED
    BY <2>1, GateAssumption DEF GateInv, GateTypeOK
<1> QED
  BY <1>1, GateInvariant, PTL

-----------------------------------------------------------------------------
(* The policy *)

CallRecords ==
    [pc : {"new", "describing", "asking", "judging", "running", "denied"},
     tool : PolicyTools \cup {None},
     desc : {Descriptor[t] : t \in PolicyTools} \cup {None},
     skill : PolicySkills \cup {None}]

\* What the deterministic provider lets through.
Safe(r) ==
    /\ r.desc # None
    /\ r.desc.group \notin HardDeny
    /\ (r.desc.approval \/ r.desc.group \in ApprovalGroups) => r.tool \in granted
    /\ r.desc.network = "private-data" =>
         policyAdmin /\ r.skill = "sql-assistant" /\ r.tool \in SqlTools

\* What a call has read stays true: its descriptor is that of its tool, and a Skill
\* it has read is the active one for good, since describe_skill narrows a session
\* once.  So what made a call run is still so while the tool runs.
PolicyInv ==
    /\ exec \subseteq PolicyAuthorized
    /\ policyActive \in PolicySkills \cup {None} /\ applying \in PolicySkills \cup {None}
    /\ applying # None => policyActive = None
    /\ provider \in Decisions \cup {None, "raises"}
    /\ policyCall \in [Calls -> CallRecords]
    /\ \A c \in Calls :
         /\ policyCall[c].pc # "new" => policyCall[c].tool \in PolicyTools
         /\ policyCall[c].pc = "new" => policyCall[c].desc = None
         /\ policyCall[c].desc # None => policyCall[c].desc = Descriptor[policyCall[c].tool]
         /\ policyCall[c].skill # None => policyCall[c].skill = policyActive
         /\ policyCall[c].pc = "running" => Safe(policyCall[c])

\* An additional provider never makes a call run that the deterministic one holds back.
LEMMA ProviderOnlyNarrows ==
  ASSUME NEW r, provider \in Decisions \cup {None, "raises"}, Evaluate(r) = "ALLOW"
  PROVE  Decide(r) = "ALLOW"
<1>1. Decide(r) \in {"ALLOW", "DENY", "REQUIRE_APPROVAL"} \cup {CheckSql(r)}
  BY DEF Decide
<1> QED
  BY PolicyAssumption DEF Evaluate, Decisions

\* What the deterministic provider allows is none of the three things it is there to stop.
LEMMA AllowedIsSafe ==
  ASSUME NEW r, Decide(r) = "ALLOW"
  PROVE  Safe(r)
<1>1. "DENY" # "ALLOW" /\ "REQUIRE_APPROVAL" # "ALLOW" /\ None # "DENY"
  BY PolicyAssumption DEF Decisions
<1>2. PolicyComplete(r) /\ r.desc.group \notin HardDeny
  BY <1>1 DEF Decide
<1>3. CheckSql(r) \in {None, "DENY"}
  BY DEF CheckSql
<1>4. CheckSql(r) = None
  BY <1>1, <1>2, <1>3 DEF Decide
<1>5. (r.desc.approval \/ r.desc.group \in ApprovalGroups) => Approved(r)
  BY <1>1, <1>2, <1>4 DEF Decide
<1>6. r.desc.network = "private-data" =>
        policyAdmin /\ r.skill = "sql-assistant" /\ r.tool \in SqlTools
  BY <1>1, <1>4 DEF CheckSql
<1> QED
  BY <1>2, <1>5, <1>6 DEF Safe, PolicyComplete, Approved

\* A call that goes on leaves the others and the session alone.
LEMMA CallStepKeepsInv ==
  ASSUME PolicyInv, NEW c \in Calls, NEW rec \in CallRecords, PolicyGoto(c, rec), SessionUnchanged,
         rec.pc # "new", rec.tool \in PolicyTools,
         rec.desc # None => rec.desc = Descriptor[rec.tool],
         rec.skill # None => rec.skill = policyActive,
         rec.pc = "running" => Safe(rec)
  PROVE  PolicyInv'
<1>1. policyCall' \in [Calls -> CallRecords] /\ policyCall'[c] = rec
  BY DEF PolicyGoto, PolicyInv
<1>2. \A d \in Calls \ {c} : policyCall'[d] = policyCall[d]
  BY DEF PolicyGoto, PolicyInv
<1>3. PolicyAuthorized' = PolicyAuthorized
  BY DEF PolicyAuthorized, SessionUnchanged
<1>4. \A d \in Calls : policyCall'[d].pc = "running" => Safe(policyCall[d])'
  <2>1. rec.pc = "running" => Safe(policyCall[c])'
    BY <1>1 DEF Safe, SessionUnchanged
  <2>2. \A d \in Calls \ {c} : policyCall[d].pc = "running" => Safe(policyCall[d])'
    BY <1>2 DEF Safe, SessionUnchanged, PolicyInv
  <2> QED
    BY <1>1, <1>2, <2>1, <2>2
<1>5. \A d \in Calls :
         /\ policyCall'[d].pc # "new" => policyCall'[d].tool \in PolicyTools
         /\ policyCall'[d].pc = "new" => policyCall'[d].desc = None
         /\ policyCall'[d].desc # None => policyCall'[d].desc = Descriptor[policyCall'[d].tool]
         /\ policyCall'[d].skill # None => policyCall'[d].skill = policyActive
  BY <1>1, <1>2 DEF PolicyInv
<1> QED
  BY <1>1, <1>3, <1>4, <1>5 DEF PolicyInv, SessionUnchanged

LEMMA CheckKeepsInv ==
  ASSUME PolicyInv, NEW c \in Calls,
         CheckAllowed(c) \/ ReadDescriptor(c) \/ ReadSkill(c) \/ Judge(c)
  PROVE  PolicyInv'
<1>1. PICK x \in CallRecords : x = policyCall[c]
  BY DEF PolicyInv
<1>2. /\ x.pc # "new" => x.tool \in PolicyTools
      /\ x.desc # None => x.desc = Descriptor[x.tool]
      /\ x.skill # None => x.skill = policyActive
      /\ policyActive \in PolicySkills \cup {None}
      /\ provider \in Decisions \cup {None, "raises"}
  BY <1>1 DEF PolicyInv
<1>3. CASE CheckAllowed(c)
  <2>1. PICK t \in PolicyTools :
          PolicyGoto(c, [x EXCEPT !.tool = t, !.pc = IF t \in exec THEN "describing" ELSE "denied"])
    BY <1>1, <1>3 DEF CheckAllowed
  <2> DEFINE y == [x EXCEPT !.tool = t, !.pc = IF t \in exec THEN "describing" ELSE "denied"]
  <2>2. y \in CallRecords /\ y.tool = t /\ y.desc = x.desc /\ y.skill = x.skill
        /\ y.pc \in {"describing", "denied"}
    BY DEF CallRecords
  <2>3. x.desc = None
    BY <1>1, <1>3 DEF CheckAllowed, At, PolicyInv
  <2> HIDE DEF y
  <2> QED
    BY <1>2, <1>3, <2>1, <2>2, <2>3, CallStepKeepsInv DEF CheckAllowed, y
<1>4. CASE ReadDescriptor(c)
  <2> DEFINE y == [x EXCEPT !.pc = "asking", !.desc = IF x.tool \in exec THEN Descriptor[x.tool] ELSE None]
  <2>1. x.pc = "describing" /\ PolicyGoto(c, y) /\ SessionUnchanged
    BY <1>1, <1>4 DEF ReadDescriptor, At
  <2>2. y.pc = "asking" /\ y.tool = x.tool /\ y.skill = x.skill /\ y.desc \in {Descriptor[x.tool], None}
    BY DEF CallRecords
  <2>3. y \in CallRecords
    BY <1>2, <2>1 DEF CallRecords
  <2> HIDE DEF y
  <2> QED
    BY <1>2, <2>1, <2>2, <2>3, CallStepKeepsInv
<1>5. CASE ReadSkill(c)
  <2> DEFINE y == [x EXCEPT !.pc = "judging", !.skill = policyActive]
  <2>1. x.pc = "asking" /\ PolicyGoto(c, y) /\ SessionUnchanged
    BY <1>1, <1>5 DEF ReadSkill, At
  <2>2. y.pc = "judging" /\ y.tool = x.tool /\ y.skill = policyActive /\ y.desc = x.desc
    BY DEF CallRecords
  <2>3. y \in CallRecords
    BY <1>2 DEF CallRecords
  <2> HIDE DEF y
  <2> QED
    BY <1>2, <2>1, <2>2, <2>3, CallStepKeepsInv
<1>6. CASE Judge(c)
  <2> DEFINE y == [x EXCEPT !.pc = IF Evaluate(x) = "ALLOW" THEN "running" ELSE "denied"]
  <2>1. x.pc = "judging" /\ PolicyGoto(c, y) /\ SessionUnchanged
    BY <1>1, <1>6 DEF Judge, At
  <2>2. y.tool = x.tool /\ y.skill = x.skill /\ y.desc = x.desc /\ y \in CallRecords
    BY DEF CallRecords
  <2>3. y.pc \in {"running", "denied"} /\ (y.pc = "running" => Evaluate(x) = "ALLOW")
    BY DEF CallRecords
  <2> HIDE DEF y
  <2>4. y.pc = "running" => Safe(x)
    BY <1>2, <2>3, ProviderOnlyNarrows, AllowedIsSafe
  <2>5. Safe(x) => Safe(y)
    BY <2>2 DEF Safe
  <2> QED
    BY <1>2, <2>1, <2>2, <2>3, <2>4, <2>5, CallStepKeepsInv
<1> QED
  BY <1>3, <1>4, <1>5, <1>6

LEMMA PolicyInvariant == PolicySpec => []PolicyInv
<1>1. PolicyInit => PolicyInv
  <2> SUFFICES ASSUME PolicyInit PROVE PolicyInv
    OBVIOUS
  <2>1. NoPolicyCall \in CallRecords
    BY DEF NoPolicyCall, CallRecords
  <2>2. NoPolicyCall.pc = "new" /\ NoPolicyCall.desc = None /\ NoPolicyCall.skill = None
    BY DEF NoPolicyCall
  <2> QED
    BY <2>1, <2>2, PolicyAssumption DEF PolicyInit, PolicyInv
<1>2. PolicyInv /\ [PolicyNext]_policyVars => PolicyInv'
  <2> SUFFICES ASSUME PolicyInv, [PolicyNext]_policyVars PROVE PolicyInv'
    OBVIOUS
  <2>1. CASE UNCHANGED policyVars
    BY <2>1 DEF PolicyInv, PolicyAuthorized, Safe, policyVars
  <2>2. ASSUME NEW s \in PolicySkills, ApplyScope(s) PROVE PolicyInv'
    BY <2>2 DEF ApplyScope, PolicyInv, PolicyAuthorized, Safe
  <2>3. CASE Activate
    BY <2>3 DEF Activate, PolicyInv, PolicyAuthorized, Safe
  <2>4. CASE Judged
    BY <2>1, <2>4 DEF Judged
  <2> QED
    BY <2>1, <2>2, <2>3, <2>4, CheckKeepsInv DEF PolicyNext
<1> QED
  BY <1>1, <1>2, PTL DEF PolicySpec

\* Whatever describe_skill does in its own thread between the reads of
\* ToolPolicyMiddleware._deny, and whatever the additional provider answers: a tool
\* that runs is no hard-denied one, reads private data in the administrator's SQL
\* Skill only, and has its Run's grant if it needs approval.
THEOREM OnlyAllowedRunsHolds == PolicySpec => []OnlyAllowedRuns
<1>1. PolicyInv => OnlyAllowedRuns
  <2> SUFFICES ASSUME PolicyInv PROVE OnlyAllowedRuns
    OBVIOUS
  <2>1. PolicyTypeOK
    BY DEF PolicyInv, PolicyTypeOK, CallRecords
  <2>2. ASSUME NEW t \in RunningTools
        PROVE  /\ Descriptor[t].group \notin HardDeny
               /\ (Descriptor[t].approval \/ Descriptor[t].group \in ApprovalGroups) => t \in granted
               /\ Descriptor[t].network = "private-data" =>
                    policyAdmin /\ policyActive = "sql-assistant" /\ t \in SqlTools
    <3>1. PICK c \in Calls : policyCall[c].pc = "running" /\ t = policyCall[c].tool
      BY DEF RunningTools, At
    <3>2. Safe(policyCall[c]) /\ (policyCall[c].skill # None => policyCall[c].skill = policyActive)
      BY <3>1 DEF PolicyInv
    <3>3. policyCall[c].desc = Descriptor[t]
      BY <3>1, <3>2 DEF PolicyInv, Safe
    <3>4. "sql-assistant" # None
      BY PolicyAssumption
    <3> QED
      BY <3>1, <3>2, <3>3, <3>4 DEF Safe
  <2> QED
    BY <2>1, <2>2 DEF OnlyAllowedRuns, HardDenyStands, PrivateDataIsSql, ApprovalNeedsGrant
<1> QED
  BY <1>1, PolicyInvariant, PTL

-----------------------------------------------------------------------------
(* The resources of the capability runtime *)

(* The inductive invariant.  Leases are exactly the working Runs'; resources     *)
(* that were never built are not retired; what close_runtime took out, and what  *)
(* a last release is about to close, was built and is not in use.                *)

LeasesAreWorkers ==
    \A r \in Resources, x \in Runs : x \in leases[r] <=> resRun[x] = "working" /\ on[x] = r

UnbuiltNotRetired == \A r \in Resources : st[r] = "none" => ~retired[r]

LeavingIsOut == leaving # None => leaving # resActive /\ st[leaving] # "none"

ClosersOwnRetired == \A x \in Runs : resRun[x] = "closing" => retired[on[x]] /\ st[on[x]] # "none"

Links == LeasesAreWorkers /\ UnbuiltNotRetired /\ LeavingIsOut /\ ClosersOwnRetired

ResourceInv == ResourceTypeOK /\ Links /\ WorkingIsOpen /\ ActiveIsOpen /\ NothingLeaks

-----------------------------------------------------------------------------
(* The initial state: nothing is built and nobody holds anything.                *)
LEMMA ResourcesInitial == ResInit => ResourceInv
BY NoneIsNeither DEF ResInit, ResourceInv, ResourceTypeOK, Links, LeasesAreWorkers, UnbuiltNotRetired, LeavingIsOut,
       ClosersOwnRetired, WorkingIsOpen, ActiveIsOpen, NothingLeaks

(* close on resources that are not in use (control_service.py, close): whoever   *)
(* calls it, working Runs keep open resources and the runtime in use stays open. *)
LEMMA CloseKeeps ==
    ASSUME ResourceInv, NEW r \in Resources, r # resActive, st[r] # "none", ResClose(r), UNCHANGED <<leases, resActive>>
    PROVE  /\ st' \in [Resources -> {"none", "started", "closed"}]
           /\ retired' \in [Resources -> BOOLEAN]
           /\ UnbuiltNotRetired' /\ ActiveIsOpen'
           /\ \A q \in Resources : st[q] # "none" => st'[q] # "none"
           /\ \A q \in Resources : leases[q] # {} => st'[q] = st[q]
           /\ \A q \in Resources : st'[q] = "started" => st[q] = "started"
           /\ \A q \in Resources : retired[q] => retired'[q]
           /\ st'[r] = "started" => leases[r] # {} /\ retired'[r]
<1> USE DEF ResourceInv, ResourceTypeOK, ResClose, Closable
<1>1. /\ st' \in [Resources -> {"none", "started", "closed"}]
      /\ retired' \in [Resources -> BOOLEAN]
  OBVIOUS
<1>2. \A q \in Resources : q # r => st'[q] = st[q] /\ retired'[q] = retired[q]
  OBVIOUS
<1>3. /\ retired'[r] = TRUE
      /\ leases[r] = {} => st'[r] = "closed"
      /\ leases[r] # {} => st'[r] = st[r]
  OBVIOUS
<1>4. leases[r] # {} => st[r] = "started"
  BY DEF Links, LeasesAreWorkers, WorkingIsOpen
<1>5. UnbuiltNotRetired'
  BY <1>1, <1>2, <1>3 DEF Links, UnbuiltNotRetired
<1>6. ActiveIsOpen'
  BY <1>1, <1>2 DEF ActiveIsOpen
<1> QED BY <1>1, <1>2, <1>3, <1>4, <1>5, <1>6

-----------------------------------------------------------------------------
(* One lemma per action.                                                         *)

LEMMA AcquireKeeps == ASSUME ResourceInv, NEW x \in Runs, ResAcquire(x) PROVE ResourceInv'
<1> USE DEF ResourceInv, ResAcquire
<1>1. resActive \in Resources
  BY DEF ResourceTypeOK
<1>2. ResourceTypeOK'
  BY <1>1 DEF ResourceTypeOK
<1>3. /\ \A y \in Runs : y # x => resRun'[y] = resRun[y] /\ on'[y] = on[y]
      /\ resRun'[x] = "working" /\ on'[x] = resActive
      /\ \A r \in Resources : leases'[r] = IF r = resActive THEN leases[r] \cup {x} ELSE leases[r]
  BY <1>1 DEF ResourceTypeOK
<1>4. LeasesAreWorkers'
  BY <1>1, <1>3 DEF Links, LeasesAreWorkers
<1>5. Links'
  BY <1>3, <1>4 DEF Links, UnbuiltNotRetired, LeavingIsOut, ClosersOwnRetired
<1>6. WorkingIsOpen'
  BY <1>3 DEF WorkingIsOpen
<1>7. ActiveIsOpen'
  BY DEF ActiveIsOpen
<1>8. NothingLeaks'
  BY <1>3 DEF NothingLeaks
<1> QED BY <1>2, <1>5, <1>6, <1>7, <1>8

LEMMA ReleaseKeeps == ASSUME ResourceInv, NEW x \in Runs, ResRelease(x) PROVE ResourceInv'
<1> USE DEF ResourceInv, ResRelease
<1>1. on[x] \in Resources
  BY DEF ResourceTypeOK
<1> DEFINE last == retired[on[x]] /\ leases[on[x]] = {x}
<1>2. /\ \A y \in Runs : y # x => resRun'[y] = resRun[y] /\ on'[y] = on[y]
      /\ last => resRun'[x] = "closing" /\ on'[x] = on[x]
      /\ ~last => resRun'[x] = "idle" /\ on'[x] = None
      /\ \A r \in Resources : leases'[r] = IF r = on[x] THEN leases[r] \ {x} ELSE leases[r]
  BY <1>1 DEF ResourceTypeOK
<1>3. ResourceTypeOK'
  BY <1>1, <1>2 DEF ResourceTypeOK
<1>4. LeasesAreWorkers'
  BY <1>1, <1>2 DEF Links, LeasesAreWorkers
<1>5. ClosersOwnRetired'
  BY <1>1, <1>2 DEF Links, ClosersOwnRetired, WorkingIsOpen
<1>6. Links'
  BY <1>4, <1>5 DEF Links, UnbuiltNotRetired, LeavingIsOut
<1>7. WorkingIsOpen'
  BY <1>2 DEF WorkingIsOpen
<1>8. ActiveIsOpen'
  BY DEF ActiveIsOpen
<1>9. NothingLeaks'
  <2> SUFFICES ASSUME NEW r \in Resources, st'[r] = "started", r # resActive'
               PROVE  \/ leases'[r] # {} /\ (retired'[r] \/ leaving' = r)
                      \/ leaving' = r
                      \/ \E y \in Runs : resRun'[y] = "closing" /\ on'[y] = r
    BY DEF NothingLeaks
  <2>1. CASE r # on[x]
    BY <1>2, <2>1 DEF NothingLeaks
  <2>2. CASE r = on[x] /\ leaving = r
    BY <2>2
  <2>3. CASE r = on[x] /\ leaving # r /\ \E y \in Runs : resRun[y] = "closing" /\ on[y] = r
    BY <1>2, <2>3
  <2>4. CASE r = on[x] /\ leaving # r /\ leases[r] # {} /\ retired[r]
    <3>1. x \in leases[r]
      BY <2>4 DEF Links, LeasesAreWorkers
    <3>2. CASE leases[r] = {x}
      BY <1>2, <2>4, <3>2
    <3>3. CASE leases[r] # {x}
      BY <1>2, <2>4, <3>1, <3>3
    <3> QED BY <3>2, <3>3
  <2> QED BY <2>1, <2>2, <2>3, <2>4 DEF NothingLeaks
<1> QED BY <1>3, <1>6, <1>7, <1>8, <1>9

LEMMA ReleaseClosesKeeps == ASSUME ResourceInv, NEW x \in Runs, ReleaseCloses(x) PROVE ResourceInv'
<1> USE DEF ResourceInv
<1> DEFINE r == on[x]
<1>1. r \in Resources /\ retired[r] /\ st[r] # "none" /\ r # resActive
  BY NoneIsNeither DEF ReleaseCloses, ResourceTypeOK, Links, ClosersOwnRetired, ActiveIsOpen
<1>2. ResClose(r) /\ UNCHANGED <<leases, resActive, leaving>>
  BY DEF ReleaseCloses
<1>3. /\ st' \in [Resources -> {"none", "started", "closed"}]
      /\ retired' \in [Resources -> BOOLEAN]
      /\ UnbuiltNotRetired' /\ ActiveIsOpen'
      /\ \A q \in Resources : st[q] # "none" => st'[q] # "none"
      /\ \A q \in Resources : leases[q] # {} => st'[q] = st[q]
      /\ \A q \in Resources : st'[q] = "started" => st[q] = "started"
      /\ \A q \in Resources : retired[q] => retired'[q]
      /\ st'[r] = "started" => leases[r] # {} /\ retired'[r]
  BY <1>1, <1>2, CloseKeeps
<1>4. /\ \A y \in Runs : y # x => resRun'[y] = resRun[y] /\ on'[y] = on[y]
      /\ resRun'[x] = "idle" /\ on'[x] = None
      /\ resRun[x] = "closing"
  BY DEF ReleaseCloses, ResourceTypeOK
<1>5. ResourceTypeOK'
  BY <1>2, <1>3, <1>4 DEF ResourceTypeOK, ReleaseCloses
<1>6. Links'
  <2>1. LeasesAreWorkers'
    BY <1>2, <1>4 DEF Links, LeasesAreWorkers
  <2>2. LeavingIsOut'
    BY <1>2, <1>3 DEF Links, LeavingIsOut, ResourceTypeOK
  <2>3. ClosersOwnRetired'
    BY <1>3, <1>4 DEF Links, ClosersOwnRetired, ResourceTypeOK
  <2> QED BY <1>3, <2>1, <2>2, <2>3 DEF Links
<1>7. WorkingIsOpen'
  BY <1>3, <1>4 DEF WorkingIsOpen, Links, LeasesAreWorkers, ResourceTypeOK
<1>8. NothingLeaks'
  BY <1>1, <1>2, <1>3, <1>4 DEF NothingLeaks
<1> QED BY <1>3, <1>5, <1>6, <1>7, <1>8

LEMMA TakeOutKeeps == ASSUME ResourceInv, TakeOut PROVE ResourceInv'
BY NoneIsNeither DEF ResourceInv, TakeOut, ResourceTypeOK, Links, LeasesAreWorkers, UnbuiltNotRetired, LeavingIsOut,
       ClosersOwnRetired, WorkingIsOpen, ActiveIsOpen, NothingLeaks

LEMMA CloseTakenOutKeeps == ASSUME ResourceInv, CloseTakenOut PROVE ResourceInv'
<1> USE DEF ResourceInv
<1> DEFINE r == leaving
<1>1. r \in Resources /\ st[r] # "none" /\ r # resActive
  BY DEF CloseTakenOut, ResourceTypeOK, Links, LeavingIsOut
<1>2. ResClose(r) /\ leaving' = None /\ UNCHANGED <<leases, resActive, resRun, on>>
  BY DEF CloseTakenOut
<1>3. /\ st' \in [Resources -> {"none", "started", "closed"}]
      /\ retired' \in [Resources -> BOOLEAN]
      /\ UnbuiltNotRetired' /\ ActiveIsOpen'
      /\ \A q \in Resources : st[q] # "none" => st'[q] # "none"
      /\ \A q \in Resources : leases[q] # {} => st'[q] = st[q]
      /\ \A q \in Resources : st'[q] = "started" => st[q] = "started"
      /\ \A q \in Resources : retired[q] => retired'[q]
      /\ st'[r] = "started" => leases[r] # {} /\ retired'[r]
  BY <1>1, <1>2, CloseKeeps
<1>4. ResourceTypeOK'
  BY <1>2, <1>3 DEF ResourceTypeOK
<1>5. Links'
  <2>1. LeasesAreWorkers'
    BY <1>2 DEF Links, LeasesAreWorkers
  <2>2. LeavingIsOut'
    BY <1>2 DEF LeavingIsOut
  <2>3. ClosersOwnRetired'
    BY <1>2, <1>3 DEF Links, ClosersOwnRetired, ResourceTypeOK
  <2> QED BY <1>3, <2>1, <2>2, <2>3 DEF Links
<1>6. WorkingIsOpen'
  BY <1>2, <1>3 DEF WorkingIsOpen, Links, LeasesAreWorkers, ResourceTypeOK
<1>7. NothingLeaks'
  BY <1>1, <1>2, <1>3 DEF NothingLeaks
<1> QED BY <1>3, <1>4, <1>5, <1>6, <1>7

LEMMA ApplyKeeps == ASSUME ResourceInv, NEW r \in Resources, Apply(r) PROVE ResourceInv'
<1> USE DEF ResourceInv, Apply
<1>1. resActive # r /\ resActive \in Resources \cup {None} /\ resActive' = r
  BY NoneIsNeither DEF ActiveIsOpen, ResourceTypeOK
<1>2. CASE resActive = None
  <2>1. /\ \A q \in Resources : q # r => st'[q] = st[q]
        /\ st'[r] = "started" /\ UNCHANGED retired
    BY <1>2 DEF ResourceTypeOK
  <2>2. ResourceTypeOK'
    BY <1>2 DEF ResourceTypeOK
  <2>3. Links'
    <3>1. LeasesAreWorkers' /\ UnbuiltNotRetired'
      BY <2>1 DEF Links, LeasesAreWorkers, UnbuiltNotRetired
    <3>2. LeavingIsOut'
      BY <1>1, <2>1 DEF Links, LeavingIsOut, ResourceTypeOK
    <3>3. ClosersOwnRetired'
      BY <2>1 DEF Links, ClosersOwnRetired, ResourceTypeOK
    <3> QED BY <3>1, <3>2, <3>3 DEF Links
  <2>4. WorkingIsOpen' /\ ActiveIsOpen'
    BY <1>1, <2>1 DEF Links, UnbuiltNotRetired, WorkingIsOpen, ActiveIsOpen, ResourceTypeOK
  <2>5. NothingLeaks'
    BY <1>1, <1>2, <2>1, NoneIsNeither DEF NothingLeaks
  <2> QED BY <2>2, <2>3, <2>4, <2>5
<1>3. CASE resActive # None
  <2>1. /\ resActive \in Resources
        /\ \A q \in Resources : q # r /\ q # resActive => st'[q] = st[q] /\ retired'[q] = retired[q]
        /\ st'[r] = "started" /\ retired'[r] = retired[r] /\ retired'[resActive] = TRUE
        /\ st'[resActive] = IF leases[resActive] = {} THEN "closed" ELSE st[resActive]
    BY <1>1, <1>3 DEF ResourceTypeOK, Closable
  <2>2. ResourceTypeOK'
    <3>1. retired' \in [Resources -> BOOLEAN]
      BY <1>3 DEF ResourceTypeOK
    <3>2. st' \in [Resources -> {"none", "started", "closed"}]
      BY <1>3 DEF ResourceTypeOK
    <3> QED BY <1>1, <3>1, <3>2 DEF ResourceTypeOK
  <2>3. Links'
    <3>1. LeasesAreWorkers' /\ UnbuiltNotRetired'
      BY <2>1 DEF Links, LeasesAreWorkers, UnbuiltNotRetired, ActiveIsOpen
    <3>2. LeavingIsOut'
      BY <1>1, <2>1 DEF Links, LeavingIsOut, ResourceTypeOK
    <3>3. ClosersOwnRetired'
      BY <2>1 DEF Links, ClosersOwnRetired, ActiveIsOpen, ResourceTypeOK
    <3> QED BY <3>1, <3>2, <3>3 DEF Links
  <2>4. WorkingIsOpen'
    BY <1>1, <2>1 DEF Links, LeasesAreWorkers, WorkingIsOpen, ResourceTypeOK
  <2>5. ActiveIsOpen'
    BY <1>1, <2>1 DEF Links, UnbuiltNotRetired, ActiveIsOpen
  <2>6. NothingLeaks'
    BY <1>1, <2>1 DEF NothingLeaks
  <2> QED BY <2>2, <2>3, <2>4, <2>5, <2>6
<1> QED BY <1>2, <1>3

LEMMA ApplyFailsKeeps == ASSUME ResourceInv, NEW r \in Resources, ApplyFails(r) PROVE ResourceInv'
<1> USE DEF ResourceInv, ApplyFails
<1>1. /\ \A q \in Resources : q # r => st'[q] = st[q]
      /\ st[r] = "none" /\ st'[r] = "closed"
  BY DEF ResourceTypeOK
<1>2. ResourceTypeOK'
  BY DEF ResourceTypeOK
<1>3. Links'
  BY <1>1 DEF Links, LeasesAreWorkers, UnbuiltNotRetired, LeavingIsOut, ClosersOwnRetired, ResourceTypeOK
<1>4. WorkingIsOpen' /\ ActiveIsOpen' /\ NothingLeaks'
  BY <1>1 DEF WorkingIsOpen, ActiveIsOpen, NothingLeaks, ResourceTypeOK
<1> QED BY <1>2, <1>3, <1>4

-----------------------------------------------------------------------------
(* The inductive invariant holds in every behaviour of the control service.      *)
LEMMA ResourcesInvariant == ResourceSpec => []ResourceInv
<1>1. ResourceInv /\ [ResNext]_resVars => ResourceInv'
  <2> SUFFICES ASSUME ResourceInv, [ResNext]_resVars PROVE ResourceInv'
    OBVIOUS
  <2>1. CASE ResNext
    BY <2>1, AcquireKeeps, ReleaseKeeps, ReleaseClosesKeeps, ApplyKeeps, ApplyFailsKeeps, TakeOutKeeps,
       CloseTakenOutKeeps DEF ResNext
  <2>2. CASE UNCHANGED resVars
    BY <2>2 DEF resVars, ResourceInv, ResourceTypeOK, Links, LeasesAreWorkers, UnbuiltNotRetired, LeavingIsOut,
       ClosersOwnRetired, WorkingIsOpen, ActiveIsOpen, NothingLeaks
  <2> QED BY <2>1, <2>2
<1> QED BY <1>1, ResourcesInitial, PTL DEF ResourceSpec

(* Type correctness, for any Runs and any number of runtime replacements.        *)
THEOREM ResourcesTyped == ResourceSpec => []ResourceTypeOK
<1>1. ResourceInv => ResourceTypeOK
  BY DEF ResourceInv
<1> QED BY <1>1, ResourcesInvariant, PTL

(* A Run's resources stay open from acquire_factory to its release.              *)
THEOREM WorkersKeepResources == ResourceSpec => []WorkingIsOpen
<1>1. ResourceInv => WorkingIsOpen
  BY DEF ResourceInv
<1> QED BY <1>1, ResourcesInvariant, PTL

(* acquire_factory never meets a closed or retired runtime.                      *)
THEOREM ActiveStaysOpen == ResourceSpec => []ActiveIsOpen
<1>1. ResourceInv => ActiveIsOpen
  BY DEF ResourceInv
<1> QED BY <1>1, ResourcesInvariant, PTL

(* Resources out of use are closed, or somebody is going to close them.          *)
THEOREM ResourcesNeverLeak == ResourceSpec => []NothingLeaks
<1>1. ResourceInv => NothingLeaks
  BY DEF ResourceInv
<1> QED BY <1>1, ResourcesInvariant, PTL

(* Resources are open while a Run or the control service uses them, and          *)
(* somebody closes them after the last use.                                      *)
THEOREM ResourcesAreSafeHolds == ResourceSpec => []ResourcesAreSafe
<1>1. WorkingIsOpen /\ ActiveIsOpen /\ NothingLeaks => ResourcesAreSafe
  BY DEF ResourcesAreSafe
<1> QED BY <1>1, WorkersKeepResources, ActiveStaysOpen, ResourcesNeverLeak, PTL

=============================================================================
