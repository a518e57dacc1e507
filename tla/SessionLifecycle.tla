-------------------------- MODULE SessionLifecycle --------------------------
(***************************************************************************)
(* The frozen session state machine of core/session.py and the control     *)
(* matrix of dispatcher/contracts.py.  Everything here is a constant-level *)
(* definition: the modules that hold session records build on it.          *)
(***************************************************************************)

SessionState == { "pending", "running", "pausing", "paused", "canceling",
                  "completed", "failed", "canceled", "refused", "interrupted" }

TERMINAL_STATES == { "completed", "failed", "canceled", "refused" }

is_terminal(state) == state \in TERMINAL_STATES

\* Every edge may also end the session once its invocation has started.
LEGAL_TRANSITIONS ==
    [ state \in SessionState |->
        CASE state = "pending"     -> { "running", "canceling", "failed" }
          [] state = "running"     -> { "pausing", "canceling" } \cup TERMINAL_STATES
          [] state = "pausing"     -> { "paused", "canceling" } \cup TERMINAL_STATES
          [] state = "paused"      -> { "pending", "canceling" }
          [] state = "canceling"   -> TERMINAL_STATES
          [] state = "interrupted" -> { "pending", "canceling" }
          [] OTHER                 -> {} ]

\* Mutant: the table is not consulted.
AnyTransition(current, requested) == requested \in SessionState

\* require_transition raises IllegalTransition exactly when this is FALSE.
Legal(current, requested) == requested \in LEGAL_TRANSITIONS[current]

\* control_decision, one predicate for each ControlAction that is ACCEPTED.
PauseAccepted(state, supports_pause) == supports_pause /\ state = "running"

ResumeAccepted(state) == state \in { "paused", "interrupted" }

CancelAccepted(state) == state \in SessionState \ (TERMINAL_STATES \cup { "canceling" })
=============================================================================
