----------------------------- MODULE MCRunStore -----------------------------
(* The run tables on two scopes: Runs of a Thread that follow each other, and   *)
(* one Run through its HITL rounds with its Skill.                              *)
EXTENDS RunStore, TLC

CONSTANTS Scopes,       \* the scopes to check
          FewEvents     \* journal length of a scope with several Runs

VARIABLE scope

\* Keys are interchangeable, so a request has its own.
OwnKey == CHOOSE f \in [RunIds -> Keys] : \A r, q \in RunIds : f[r] = f[q] => r = q

\* A finished run has two events beyond the bound.
InScope ==
  /\ \A r \in RunIds : run[r].key \in {None, OwnKey[r]}
  /\ \/ scope = "single" /\ \A r \in RunIds \ {1} : run[r].status = "absent"
     \/ /\ scope = "several"
        /\ \A r \in RunIds :
             /\ Len(events[r]) <= FewEvents + (IF run[r].status \in TerminalStatuses THEN 2 ELSE 0)
             /\ Len(checkpoints[r]) < 2 /\ run[r].skill = None

MCInit == scope \in Scopes /\ Init
MCNext == Next /\ UNCHANGED scope
MCSpec == MCInit /\ [][MCNext]_<<storeVars, scope>>

Symmetry == Permutations(Workers) \cup Permutations(Skills) \cup Permutations(Threads)
=============================================================================
