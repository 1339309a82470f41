---------------------------- MODULE DraftStatus ----------------------------
(***************************************************************************)
(* The lifecycle of a draft in version 1 (noema_mail_core/status.py): six  *)
(* states and the only edges between them.  Every module that changes a    *)
(* status does it through CanTransition, as the code does it through       *)
(* status.transition.                                                      *)
(***************************************************************************)

Statuses == {"new", "staged", "synced_to_gmx", "modified", "invalidated", "failed"}

\* States a crash may leave behind; fail_incomplete resolves them.
Incomplete == {"new", "staged"}

\* States without an outgoing edge.
Terminal == {"modified", "invalidated", "failed"}

\* _ALLOWED_TRANSITIONS; transition() raises for every other pair.
CanTransition(current, target) ==
    \/ current = "new" /\ target \in {"staged", "invalidated", "failed"}
    \/ current = "staged" /\ target \in {"synced_to_gmx", "invalidated", "failed"}
    \/ current = "synced_to_gmx" /\ target \in {"modified", "invalidated", "failed"}
=============================================================================
