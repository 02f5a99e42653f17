------------------------------ MODULE RunState ------------------------------
(***************************************************************************)
(* The status alphabet of a durable Run and the transition table of        *)
(* backend/runs/state.py.  "absent" is a run id that no row has yet.       *)
(***************************************************************************)

QueuedStatus == {"queued"}

ActiveStatuses == {"pending", "running", "waiting_input", "cancelling"}

TerminalStatuses == {"succeeded", "failed", "cancelled"}

RunStatuses == QueuedStatus \cup ActiveStatuses \cup TerminalStatuses

\* ALLOWED_TRANSITIONS: terminal statuses have no successor.
AllowedTransitions(status) ==
  CASE status = "queued"        -> {"pending", "cancelled"}
    [] status = "pending"       -> {"running", "cancelling", "cancelled", "failed"}
    [] status = "running"       -> {"waiting_input", "cancelling", "succeeded",
                                    "failed", "cancelled"}
    [] status = "waiting_input" -> {"pending", "running", "cancelling",
                                    "cancelled", "failed"}
    [] status = "cancelling"    -> {"cancelled", "failed"}
    [] OTHER                    -> {}

CanTransition(current, target) ==
  current = target \/ target \in AllowedTransitions(current)

MultitaskStrategies == {"reject", "enqueue", "cancel_previous"}
=============================================================================
