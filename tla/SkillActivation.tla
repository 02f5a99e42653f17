--------------------------- MODULE SkillActivation ---------------------------
(***************************************************************************)
(* Which Skill a Run works under and which tools that leaves it: the       *)
(* durable pin of the Run row, and in every worker that executes the Run a *)
(* ToolSession and a SkillActivationSession over the registries of that    *)
(* moment.                                                                 *)
(*                                                                         *)
(* Activation takes a lock of the session only: the scope of the tools is  *)
(* set first, the pin is written by a fenced transaction, and then the     *)
(* Skill is active.  Tool calls of one model turn run side by side, so     *)
(* several activations and a search may be under way at once.              *)
(***************************************************************************)
EXTENDS Absence, Integers, FiniteSets

CONSTANTS
  SkillWorkers,
  SkillNames,
  SkillToolNames,
  SkillNeeds,          \* the tools an administrator's role is required for
  Deferred,       \* tools that are shown after a search only
  MaxRevision,    \* bound: revisions of the Skill definitions
  MaxFence,       \* bound: claims of the Run
  MaxFaults,      \* bound: transactions that fail for no reason of the Run
  SkillToolsOf      \* allowed_tools of a Skill in a revision

ASSUME SkillAssumption ==
  /\ SkillNeeds \subseteq SkillToolNames /\ Deferred \subseteq SkillToolNames
  /\ MaxRevision \in Nat \ {0} /\ MaxFence \in Nat /\ MaxFaults \in Nat
  /\ SkillToolsOf \in [SkillNames -> [1..MaxRevision -> SUBSET SkillToolNames]]
  /\ None \notin SkillNames \cup SkillWorkers

\* How an activation came about; "describe" is the tool describe_skill.
Sources == {"slash", "router", "describe"}

Pins == [skill : SkillNames, revision : 1..MaxRevision, source : Sources]

VARIABLES
  skillRun,       \* row of the Run: fence, owner and pin
  revision,  \* the revision the capability store holds
  skillAdmin,     \* whether the user has the administrator's role
  session,   \* per worker
  faults     \* transactions that failed so far

skillVars == <<skillRun, revision, skillAdmin, session, faults>>

NoSession ==
  [pc |-> "off", fence |-> 0, revision |-> 1, authorized |-> {}, scope |-> {},
   exec |-> {}, active |-> None, queued |-> {}, doing |-> None]

SkillInit ==
  /\ skillRun = [fence |-> 0, owner |-> None, pin |-> None]
  /\ revision = 1
  /\ skillAdmin \in BOOLEAN
  /\ session = [w \in SkillWorkers |-> NoSession]
  /\ faults = 0

-----------------------------------------------------------------------------
(* ToolRegistry.bind and ToolSession *)

\* authorize, for the role of the moment and the ceiling of the caller.
SkillAuthorized(ceiling) == {t \in ceiling : t \in SkillNeeds => skillAdmin}

Bound(ceiling) ==
  [NoSession EXCEPT !.authorized = SkillAuthorized(ceiling), !.scope = SkillAuthorized(ceiling),
                    !.exec = SkillAuthorized(ceiling) \ Deferred]

\* apply_skill
Applied(s, tools) ==
  [s EXCEPT !.scope = s.authorized \cap tools, !.exec = s.authorized \cap tools]

\* search: the deferred tools of the scope that match, found being the matches.
Revealed(s, found) == [s EXCEPT !.exec = @ \cup (found \cap s.scope \cap Deferred)]

-----------------------------------------------------------------------------
(* SkillActivationSession *)

Goal(s, skill, source) == [skill |-> skill, revision |-> s.revision, source |-> source]

\* activate, up to on_tools_changed: refused when another Skill is active, a
\* repetition when it is this one.  At most one activation holds the lock.
Begun(s, skill, source) ==
  IF s.active # None THEN s
  ELSE [Applied(s, SkillToolsOf[skill][s.revision]) EXCEPT !.doing = Goal(s, skill, source)]

\* activate, after on_activate returned or raised.
Finished(s, ok) == [s EXCEPT !.doing = None, !.active = IF ok THEN s.doing ELSE @]

-----------------------------------------------------------------------------
(* The Run's row *)

\* Faulty variant of Owns: the fence is not compared.
OwnsNamed(w) == TRUE

Owns(w) == skillRun.owner = w /\ skillRun.fence = session[w].fence

\* pin_skill_activation: the first pin, or the same one again.
MayPin(w, goal) == Owns(w) /\ skillRun.pin \in {None, goal}

\* A transaction that commits, that is refused, that fails, or whose commit is
\* answered by an error.
PinCommits(w, goal) ==
  /\ MayPin(w, goal)
  /\ skillRun' = [skillRun EXCEPT !.pin = goal]
  /\ session' = [session EXCEPT ![w] = Finished(@, TRUE)]
  /\ UNCHANGED faults

\* What is left of a session when an activation raises: the tool call fails, or
\* the execution does while the runtime is being built.
Raised(s) == [Finished(s, FALSE) EXCEPT !.pc = IF s.pc = "building" THEN "off" ELSE s.pc]

PinRefused(w, goal) ==
  /\ ~MayPin(w, goal)
  /\ session' = [session EXCEPT ![w] = Raised(@)]
  /\ UNCHANGED <<skillRun, faults>>

PinFails(w, goal) ==
  /\ faults < MaxFaults
  /\ faults' = faults + 1
  /\ \/ UNCHANGED skillRun
     \/ MayPin(w, goal) /\ skillRun' = [skillRun EXCEPT !.pin = goal]
  /\ session' = [session EXCEPT ![w] = Raised(@)]

\* on_activate with the lock held.
Persist(w) ==
  /\ session[w].doing # None
  /\ \/ PinCommits(w, session[w].doing)
     \/ PinRefused(w, session[w].doing)
     \/ PinFails(w, session[w].doing)
  /\ UNCHANGED <<revision, skillAdmin>>

-----------------------------------------------------------------------------
(* An execution of the Run *)

\* A worker claims the Run, or takes it over, and builds a runtime from the
\* pin it reads: with all tools, or none when it writes up a resumed answer.
Execute(w) ==
  /\ session[w].pc = "off" /\ skillRun.fence < MaxFence
  /\ skillRun' = [skillRun EXCEPT !.fence = @ + 1, !.owner = w]
  /\ \E ceiling \in {SkillToolNames, {}} :
       LET new == [Bound(ceiling) EXCEPT !.pc = "building", !.fence = skillRun.fence + 1,
                                         !.revision = revision]
       IN session' = [session EXCEPT ![w] =
            IF skillRun.pin = None THEN new
            ELSE IF skillRun.pin.revision # revision THEN NoSession
            ELSE Begun(new, skillRun.pin.skill, skillRun.pin.source)]
  /\ UNCHANGED <<revision, skillAdmin, faults>>

\* The routed Skill of the text, then the slash command; or neither.
Choose(w) ==
  /\ session[w].pc = "building" /\ session[w].doing = None /\ session[w].active = None
  /\ \E skill \in SkillNames, source \in {"slash", "router"} :
       session' = [session EXCEPT ![w] = Begun(@, skill, source)]
  /\ UNCHANGED <<skillRun, revision, skillAdmin, faults>>

StartGraph(w) ==
  /\ session[w].pc = "building" /\ session[w].doing = None
  /\ session' = [session EXCEPT ![w].pc = "on"]
  /\ UNCHANGED <<skillRun, revision, skillAdmin, faults>>

\* The model calls describe_skill, once or in parallel: the gate looks at the
\* tools now, the activation waits for the lock.
CallDescribe(w) ==
  /\ session[w].pc = "on" /\ "describe" \in session[w].exec
  /\ \E skill \in SkillNames \ session[w].queued :
       session' = [session EXCEPT ![w].queued = @ \cup {skill}]
  /\ UNCHANGED <<skillRun, revision, skillAdmin, faults>>

Describe(w) ==
  /\ session[w].pc = "on" /\ session[w].doing = None
  /\ \E skill \in session[w].queued :
       session' = [session EXCEPT ![w] =
         [Begun(@, skill, "describe") EXCEPT !.queued = @ \ {skill}]]
  /\ UNCHANGED <<skillRun, revision, skillAdmin, faults>>

\* tool_search takes the lock of the ToolSession, not that of the activation.
SearchTools(w) ==
  /\ session[w].pc = "on"
  /\ \E t \in Deferred : session' = [session EXCEPT ![w] = Revealed(@, {t})]
  /\ UNCHANGED <<skillRun, revision, skillAdmin, faults>>

\* The execution ends; a worker that lost the Run ends as well, later.
SkillLeave(w) ==
  /\ session[w].pc # "off" /\ session[w].doing = None
  /\ session' = [session EXCEPT ![w] = NoSession]
  /\ UNCHANGED <<skillRun, revision, skillAdmin, faults>>

\* The capability control plane publishes a revision.
Publish ==
  /\ revision < MaxRevision
  /\ revision' = revision + 1
  /\ UNCHANGED <<skillRun, skillAdmin, session, faults>>

ChangeRole == skillAdmin' = ~skillAdmin /\ UNCHANGED <<skillRun, revision, session, faults>>

SkillNext ==
  \/ \E w \in SkillWorkers : Execute(w) \/ Choose(w) \/ StartGraph(w) \/ CallDescribe(w)
                        \/ Describe(w) \/ SearchTools(w) \/ Persist(w) \/ SkillLeave(w)
  \/ Publish \/ ChangeRole

SkillSpec == SkillInit /\ [][SkillNext]_skillVars

-----------------------------------------------------------------------------
(* Properties *)

\* The state is well formed; a session has no more than one activation under
\* way, and none next to an active Skill.
SkillTypeOK ==
  /\ skillRun.pin \in Pins \cup {None} /\ skillRun.owner \in SkillWorkers \cup {None}
  /\ \A w \in SkillWorkers :
       /\ session[w].pc \in {"off", "building", "on"}
       /\ session[w].exec \subseteq SkillToolNames
       /\ session[w].doing = None \/ session[w].active = None

\* A Skill that shapes an execution is the Skill the row says: its revision and
\* its source too, in every worker, also one that has lost the Run.
ActiveIsPinned == \A w \in SkillWorkers : session[w].active # None => skillRun.pin = session[w].active

\* An active Skill leaves the tools it lists and the Run was authorized for; no
\* search brings another one back.
SkillConfines ==
  \A w \in SkillWorkers : session[w].active # None =>
    session[w].exec \subseteq
      (session[w].authorized \cap SkillToolsOf[session[w].active.skill][session[w].active.revision])

\* Unless a transaction failed, the worker that holds a pinned Run works under
\* the pinned Skill as soon as no activation is under way: after a takeover, a
\* restart or a resumed answer as before.
OwnerFollowsPin ==
  (faults = 0 /\ skillRun.pin # None) =>
    \A w \in SkillWorkers : (session[w].pc = "on" /\ Owns(w) /\ session[w].doing = None)
                         => session[w].active = skillRun.pin

\* The Skill of a Run is the one pinned in its row, in every worker, through
\* takeovers, restarts and lost replies, and it confines the tools.
SkillFollowsPin == SkillTypeOK /\ ActiveIsPinned /\ SkillConfines /\ OwnerFollowsPin

==============================================================================
