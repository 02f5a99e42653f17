------------------------------ MODULE ToolPolicy ------------------------------
(***************************************************************************)
(* The decision before every tool call: ToolPolicyMiddleware._deny asks the *)
(* ToolSession, collects a ToolGuardrailRequest and has ToolGuardrail       *)
(* judge it.  The request is collected read by read while describe_skill,   *)
(* a tool call of the same turn, narrows the session in another thread.     *)
(***************************************************************************)
EXTENDS Absence, Integers, FiniteSets

CONSTANTS
  Calls,       \* tool calls of one model turn
  PolicyTools,       \* names of the registered tools
  Descriptor,  \* of a tool: group, network, scope, approval
  PolicyToolsOf,  \* allowed_tools of a Skill
  Directives   \* what an additional policy provider may answer; None if there is none

PolicySkills == DOMAIN PolicyToolsOf

HardDeny == {"shell", "code", "process", "network-private", "high-risk"}
ApprovalGroups == {"file-write", "sandbox-execution"}
KnownGroups == HardDeny \cup ApprovalGroups
               \cup {"knowledge", "weather", "registry-control", "sql", "web-research"}
SqlTools == {"sql_query", "sql_schema"}

Decisions == {"ALLOW", "DENY", "REQUIRE_APPROVAL"}

ASSUME PolicyAssumption ==
  /\ \A t \in PolicyTools : Descriptor[t].approval \in BOOLEAN
  /\ Directives \subseteq Decisions \cup {None, "raises"}
  /\ HardDeny \cap ApprovalGroups = {}
  /\ None \notin Decisions \cup PolicySkills \cup {"raises", "sql-assistant"}

VARIABLES
  policyAdmin,     \* the role of the user in the Run's snapshot
  granted,   \* tool names of the Run's approval grant
  provider,  \* what the additional provider answers
  exec,      \* executable and visible names of the ToolSession
  policyActive,    \* the active Skill
  applying,  \* the Skill whose scope is set and which is not yet active
  policyCall       \* per call: where its check is, and what it read

policyVars == <<policyAdmin, granted, provider, exec, policyActive, applying, policyCall>>

\* authorize: the grant decides about tools that need approval.
PolicyAuthorized == {t \in PolicyTools : Descriptor[t].approval => t \in granted}

NoPolicyCall == [pc |-> "new", tool |-> None, desc |-> None, skill |-> None]

PolicyInit ==
  /\ policyAdmin \in BOOLEAN
  /\ granted \in SUBSET {t \in PolicyTools : Descriptor[t].approval}
  /\ provider \in Directives
  /\ exec = PolicyAuthorized
  /\ policyActive = None /\ applying = None
  /\ policyCall = [c \in Calls |-> NoPolicyCall]

-----------------------------------------------------------------------------
(* DeterministicToolGuardrailProvider.decide, for a request r *)

PolicyComplete(r) == r.desc # None

\* _check_sql: private data only for the read-only SQL tools, in their Skill.
CheckSql(r) ==
  IF r.desc.group # "sql" /\ r.tool \notin SqlTools
  THEN IF r.desc.network = "private-data" THEN "DENY" ELSE None
  ELSE IF /\ r.desc.group = "sql" /\ r.skill = "sql-assistant" /\ r.desc.network = "private-data"
          /\ policyAdmin /\ r.tool \in SqlTools /\ r.desc.scope = "private-data-read"
  THEN None ELSE "DENY"

\* Faulty variant of Approved: administrators need no grant.
ApprovedByRole(r) == policyAdmin

\* is_tool_approved
Approved(r) == r.tool \in granted

Decide(r) ==
  IF ~PolicyComplete(r) \/ r.desc.group \notin KnownGroups \/ r.desc.group \in HardDeny THEN "DENY"
  ELSE IF CheckSql(r) # None THEN CheckSql(r)
  ELSE IF (r.desc.approval \/ r.desc.group \in ApprovalGroups) /\ ~Approved(r)
  THEN "REQUIRE_APPROVAL" ELSE "ALLOW"

\* ToolGuardrail.evaluate: the provider is asked unless the base denies, and
\* it counts when the base allows or when it denies.
Evaluate(r) ==
  LET base == Decide(r)
  IN IF base = "DENY" \/ provider = None THEN base
     ELSE IF provider = "raises" THEN "DENY"
     ELSE IF base = "ALLOW" \/ provider = "DENY" THEN provider
     ELSE base

-----------------------------------------------------------------------------
(* ToolPolicyMiddleware._deny *)

At(c, pc) == policyCall[c].pc = pc

PolicyGoto(c, rec) == policyCall' = [policyCall EXCEPT ![c] = rec]

SessionUnchanged == UNCHANGED <<policyAdmin, granted, provider, exec, policyActive, applying>>

\* The model may name any tool, shown to it or not.
CheckAllowed(c) ==
  /\ At(c, "new")
  /\ \E t \in PolicyTools :
       PolicyGoto(c, [policyCall[c] EXCEPT !.tool = t, !.pc = IF t \in exec THEN "describing" ELSE "denied"])
  /\ SessionUnchanged

\* tool_descriptor describes visible tools only.
ReadDescriptor(c) ==
  /\ At(c, "describing")
  /\ PolicyGoto(c, [policyCall[c] EXCEPT !.pc = "asking",
                             !.desc = IF policyCall[c].tool \in exec THEN Descriptor[policyCall[c].tool] ELSE None])
  /\ SessionUnchanged

ReadSkill(c) ==
  /\ At(c, "asking")
  /\ PolicyGoto(c, [policyCall[c] EXCEPT !.pc = "judging", !.skill = policyActive])
  /\ SessionUnchanged

Judge(c) ==
  /\ At(c, "judging")
  /\ PolicyGoto(c, [policyCall[c] EXCEPT !.pc = IF Evaluate(policyCall[c]) = "ALLOW" THEN "running" ELSE "denied"])
  /\ SessionUnchanged

-----------------------------------------------------------------------------
(* describe_skill, in a thread of its own *)

ApplyScope(s) ==
  /\ policyActive = None /\ applying = None
  /\ applying' = s
  /\ exec' = PolicyAuthorized \cap PolicyToolsOf[s]
  /\ UNCHANGED <<policyAdmin, granted, provider, policyActive, policyCall>>

Activate ==
  /\ applying # None
  /\ policyActive' = applying /\ applying' = None
  /\ UNCHANGED <<policyAdmin, granted, provider, exec, policyCall>>

Judged == (\A c \in Calls : policyCall[c].pc \in {"running", "denied"}) /\ policyActive # None /\ UNCHANGED policyVars

PolicyNext ==
  \/ \E c \in Calls : CheckAllowed(c) \/ ReadDescriptor(c) \/ ReadSkill(c) \/ Judge(c)
  \/ \E s \in PolicySkills : ApplyScope(s)
  \/ Activate
  \/ Judged

PolicySpec == PolicyInit /\ [][PolicyNext]_policyVars

-----------------------------------------------------------------------------
(* Properties *)

\* Every check is where the code can be; a call that has read a descriptor has
\* read that of its tool.
PolicyTypeOK ==
  /\ exec \subseteq PolicyAuthorized
  /\ \A c \in Calls :
       /\ policyCall[c].pc \in {"new", "describing", "asking", "judging", "running", "denied"}
       /\ policyCall[c].desc # None => policyCall[c].desc = Descriptor[policyCall[c].tool]
       /\ policyCall[c].skill \in PolicySkills \cup {None}

RunningTools == {policyCall[c].tool : c \in {x \in Calls : At(x, "running")}}

\* A tool of a hard-deny group never runs, whatever was granted, whichever Skill
\* is active and whatever another provider says.
HardDenyStands == \A t \in RunningTools : Descriptor[t].group \notin HardDeny

\* Private data is read by an administrator's Run in the SQL Skill, through the
\* read-only tools; the Skill is still the active one when the tool runs.
PrivateDataIsSql ==
  \A t \in RunningTools : Descriptor[t].network = "private-data" =>
    policyAdmin /\ policyActive = "sql-assistant" /\ t \in SqlTools

\* What needs approval runs with the Run's own grant only; another provider can
\* take an approval away but not give one.
ApprovalNeedsGrant ==
  \A t \in RunningTools :
    (Descriptor[t].approval \/ Descriptor[t].group \in ApprovalGroups) => t \in granted

\* A running tool is one that policy allows at that moment, although it was
\* judged before a Skill was activated or another provider was asked.
OnlyAllowedRuns == PolicyTypeOK /\ HardDenyStands /\ PrivateDataIsSql /\ ApprovalNeedsGrant

===============================================================================
