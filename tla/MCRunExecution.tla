--------------------------- MODULE MCRunExecution ---------------------------
(* RunExecution with one executor that stays (w1) and, in the settings that     *)
(* need one, a second that crashes or is shut down.                             *)
EXTENDS RunExecution

CONSTANTS w1, w2

Calm == [crashing |-> {}, closing |-> {}, dispatching |-> {w1}, rounds |-> 0, requests |-> 0]

MCCancel == [Calm EXCEPT !.crashing = {w2}, !.requests = 1]
MCRounds == [Calm EXCEPT !.crashing = {w2}, !.rounds = 1]
MCClose == [Calm EXCEPT !.closing = {w2}]
MCRecovery == {MCCancel, MCRounds, MCClose}
MCQueue == {Calm}
MCAlone == {[Calm EXCEPT !.rounds = 1, !.requests = 1]}
=============================================================================
