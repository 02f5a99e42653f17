--------------------------- MODULE CapabilityControl ---------------------------
(* The persistent capability control plane (backend/capabilities/control_*.py):   *)
(* administrators save Skills and custom HTTP Tools, each request validating      *)
(* against one read of the tables, writing in a later transaction and then        *)
(* rebuilding the runtime of its process from the tables.                         *)
EXTENDS Absence, Naturals, FiniteSets

CONSTANTS
    ControlTools,          \* names of custom tools
    ControlSkills,         \* names of skills
    Builtins,       \* the skills that ensure_defaults inserts
    ControlAdmins,         \* concurrent requests
    ControlMaxVersion,     \* bound on the version of a row
    MaxRestarts     \* bound on process restarts

ASSUME CapabilityBounds == /\ Builtins \subseteq ControlSkills
                           /\ ControlMaxVersion \in Nat \ {0} /\ MaxRestarts \in Nat

VARIABLES
    tool,       \* per name: row of capability_http_tool_profiles, or None
    skill,      \* per name: row of capability_skill_profiles, or None
    controlActive,     \* _active_runtime: the registries, or None
    controlLock,       \* holder of _apply_lock
    controlReq,        \* per request: where it is
    restarts

controlVars == <<tool, skill, controlActive, controlLock, controlReq, restarts>>

ControlIdle == [op |-> "idle"]
Live(rows) == {n \in DOMAIN rows : rows[n] # None}

(* ensure_defaults: a missing built-in is inserted, an existing row is kept.      *)
BuiltinRow == [tools |-> {}, enabled |-> TRUE, version |-> 1]
WithDefaults(rows) == [s \in ControlSkills |-> IF s \in Builtins /\ rows[s] = None THEN BuiltinRow ELSE rows[s]]

(* The registries built from the rows: the enabled tools and the enabled skills.  *)
ToolRegistry(rows) == {[name |-> t, version |-> rows[t].version] : t \in {u \in Live(rows) : rows[u].enabled}}
SkillRegistry(rows) == {[name |-> s, version |-> rows[s].version, tools |-> rows[s].tools] :
                            s \in {u \in Live(rows) : rows[u].enabled}}
ControlNames(registry) == {x.name : x \in registry}

(* SkillRegistry.from_definitions refuses a reference to an unknown tool.         *)
Resolves(skills, tools) == \A s \in skills : s.tools \subseteq ControlNames(tools)

Buildable == Resolves(SkillRegistry(skill), ToolRegistry(tool))

ControlInit ==
    /\ tool = [t \in ControlTools |-> None]
    /\ skill = WithDefaults([s \in ControlSkills |-> None])
    /\ controlActive = [tools |-> {}, skills |-> SkillRegistry(skill)]
    /\ controlLock = None /\ controlReq = [a \in ControlAdmins |-> ControlIdle] /\ restarts = 0

Up == controlActive # None
Becomes(a, r) == controlReq' = [controlReq EXCEPT ![a] = r]
Saved == [op |-> "saved"]

-----------------------------------------------------------------------------
(* Skills: validate, then write.  A refused request leaves everything alone.      *)

(* _validate_skill_tools, on the rows as they are when they are listed.           *)
ValidTools(ts, on) == ts \subseteq Live(tool) /\ (on => \A t \in ts : tool[t].enabled)

CheckCreateSkill(a, s, ts, on) ==
    /\ Up /\ controlReq[a] = ControlIdle /\ ValidTools(ts, on)
    /\ Becomes(a, [op |-> "createSkill", name |-> s, row |-> [tools |-> ts, enabled |-> on, version |-> 1]])
    /\ UNCHANGED <<tool, skill, controlActive, controlLock, restarts>>

(* update_skill reads the version here and writes its successor later.            *)
CheckUpdateSkill(a, s, ts, on) ==
    /\ Up /\ controlReq[a] = ControlIdle /\ skill[s] # None /\ ValidTools(ts, on)
    /\ skill[s].version < ControlMaxVersion
    /\ Becomes(a, [op |-> "updateSkill", name |-> s,
                   row |-> [tools |-> ts, enabled |-> on, version |-> skill[s].version + 1]])
    /\ UNCHANGED <<tool, skill, controlActive, controlLock, restarts>>

WriteSkill(a) ==
    LET r == controlReq[a]
        possible == IF r.op = "createSkill" THEN skill[r.name] = None ELSE skill[r.name] # None
    IN  /\ r.op \in {"createSkill", "updateSkill"}
        /\ skill' = IF possible THEN [skill EXCEPT ![r.name] = r.row] ELSE skill
        /\ Becomes(a, IF possible THEN Saved ELSE ControlIdle)
        /\ UNCHANGED <<tool, controlActive, controlLock, restarts>>

DeleteSkill(a, s) ==
    /\ Up /\ controlReq[a] = ControlIdle /\ skill[s] # None /\ s \notin Builtins
    /\ skill' = [skill EXCEPT ![s] = None]
    /\ Becomes(a, Saved)
    /\ UNCHANGED <<tool, controlActive, controlLock, restarts>>

-----------------------------------------------------------------------------
(* Tools.                                                                         *)

Referencing(t) == {s \in Live(skill) : t \in skill[s].tools}

CreateTool(a, t, on) ==
    /\ Up /\ controlReq[a] = ControlIdle /\ tool[t] = None
    /\ tool' = [tool EXCEPT ![t] = [enabled |-> on, version |-> 1]]
    /\ Becomes(a, Saved)
    /\ UNCHANGED <<skill, controlActive, controlLock, restarts>>

(* Disabling is refused while an enabled skill refers to the tool.                *)
CheckUpdateTool(a, t, on) ==
    /\ Up /\ controlReq[a] = ControlIdle /\ tool[t] # None /\ tool[t].version < ControlMaxVersion
    /\ tool[t].enabled /\ ~on => \A s \in Referencing(t) : ~skill[s].enabled
    /\ Becomes(a, [op |-> "updateTool", name |-> t, row |-> [enabled |-> on, version |-> tool[t].version + 1]])
    /\ UNCHANGED <<tool, skill, controlActive, controlLock, restarts>>

(* Deleting is refused while any skill refers to the tool.                        *)
CheckDeleteTool(a, t) ==
    /\ Up /\ controlReq[a] = ControlIdle /\ tool[t] # None /\ Referencing(t) = {}
    /\ Becomes(a, [op |-> "deleteTool", name |-> t, row |-> None])
    /\ UNCHANGED <<tool, skill, controlActive, controlLock, restarts>>

WriteTool(a) ==
    LET r == controlReq[a]
    IN  /\ r.op \in {"updateTool", "deleteTool"}
        /\ tool' = IF tool[r.name] = None THEN tool ELSE [tool EXCEPT ![r.name] = r.row]
        /\ Becomes(a, IF tool[r.name] = None THEN ControlIdle ELSE Saved)
        /\ UNCHANGED <<skill, controlActive, controlLock, restarts>>

-----------------------------------------------------------------------------
(* apply_runtime: build under the lock from two reads, then replace the runtime.  *)

(* Mutant: the tables are read before the lock is taken.                          *)
ApplyToolsUnlocked(a) ==
    /\ controlReq[a] = Saved
    /\ Becomes(a, [op |-> "building", tools |-> ToolRegistry(tool)])
    /\ UNCHANGED <<tool, skill, controlActive, controlLock, restarts>>

ApplyTools(a) ==
    /\ controlReq[a] = Saved /\ controlLock = None
    /\ controlLock' = a
    /\ Becomes(a, [op |-> "building", tools |-> ToolRegistry(tool)])
    /\ UNCHANGED <<tool, skill, controlActive, restarts>>

ApplySkills(a) ==
    /\ controlReq[a].op = "building"
    /\ controlActive' = IF Resolves(SkillRegistry(skill), controlReq[a].tools)
                 THEN [tools |-> controlReq[a].tools, skills |-> SkillRegistry(skill)]
                 ELSE controlActive                          \* the request fails, the runtime stays
    /\ controlLock' = None /\ Becomes(a, ControlIdle)
    /\ UNCHANGED <<tool, skill, restarts>>

(* The process ends, and its requests with it; then it starts from the tables.    *)
ControlCrash ==
    /\ Up /\ restarts < MaxRestarts
    /\ restarts' = restarts + 1
    /\ controlActive' = None /\ controlLock' = None /\ controlReq' = [a \in ControlAdmins |-> ControlIdle]
    /\ UNCHANGED <<tool, skill>>

ControlStart ==
    /\ ~Up
    /\ skill' = WithDefaults(skill)
    /\ Resolves(SkillRegistry(skill'), ToolRegistry(tool))
    /\ controlActive' = [tools |-> ToolRegistry(tool), skills |-> SkillRegistry(skill')]
    /\ UNCHANGED <<tool, controlLock, controlReq, restarts>>

ControlNext ==
    \/ \E a \in ControlAdmins :
         \/ \E s \in ControlSkills, ts \in SUBSET ControlTools, on \in BOOLEAN :
               CheckCreateSkill(a, s, ts, on) \/ CheckUpdateSkill(a, s, ts, on)
         \/ \E s \in ControlSkills : DeleteSkill(a, s)
         \/ \E t \in ControlTools, on \in BOOLEAN : CreateTool(a, t, on) \/ CheckUpdateTool(a, t, on)
         \/ \E t \in ControlTools : CheckDeleteTool(a, t)
         \/ WriteSkill(a) \/ WriteTool(a) \/ ApplyTools(a) \/ ApplySkills(a)
    \/ ControlCrash \/ ControlStart

CapabilitySpec == ControlInit /\ [][ControlNext]_controlVars

-----------------------------------------------------------------------------
(* A runtime in use never has a skill that refers to a tool it does not have,     *)
(* although the two tables are read one after the other.                          *)
ActiveResolves == Up => \A s \in controlActive.skills : \A t \in s.tools : \E u \in controlActive.tools : u.name = t

(* What was saved is in effect once the requests have been answered: the runtime  *)
(* is the one the tables describe, unless they describe none.                     *)
SavedIsActive ==
    Up /\ (\A a \in ControlAdmins : controlReq[a] = ControlIdle) /\ Buildable =>
        controlActive = [tools |-> ToolRegistry(tool), skills |-> SkillRegistry(skill)]

(* The runtime in use is consistent, and is the saved one when all is quiet.      *)
RuntimeIsSaved == ActiveResolves /\ SavedIsActive

=============================================================================
