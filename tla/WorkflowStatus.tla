--------------------------- MODULE WorkflowStatus ---------------------------
(***************************************************************************)
(* What a workflow execution promises to the rest of the system: the life  *)
(* of WorkflowExecution.status alone.  It leaves `pending` once, moves     *)
(* between running and awaiting_approval, and ends once.  WorkflowEngine   *)
(* implements it; RunLifecycle, which projects the status to the parent    *)
(* run and request, relies on nothing else.                                *)
(***************************************************************************)
VARIABLE status

Open == {"running", "awaiting_approval"}
Finished == {"succeeded", "failed"}
Ended == Finished \union {"cancelled"}

Init == status = "pending"

(* WorkflowService.start: the entry node may already be the end. *)
Start == status = "pending" /\ status' \in Open \union Finished

(* A task, lease or approval transition. *)
Advance == status \in Open /\ status' \in Open \union Finished

Cancel == status \in Open /\ status' = "cancelled"

Next == Start \/ Advance \/ Cancel

Spec == Init /\ [][Next]_status
=============================================================================
