----------------------------- MODULE RunPolicy -----------------------------
(***************************************************************************)
(* What the lifecycle promises those who send one request for a run at a   *)
(* time: each accepted request is one indivisible change of the run's      *)
(* status and of its approvals.  RunLifecycle implements this              *)
(* specification when no two requests on one run overlap, whatever fails   *)
(* between their calls and whatever goes on at other runs.                 *)
(***************************************************************************)
EXTENDS Integers

CONSTANTS Run, NoRun, MaxApprovals

VARIABLES status, approvals

vars == <<status, approvals>>

ApprovalId == 1..MaxApprovals

Init ==
  /\ status = [r \in Run |-> "absent"]
  /\ approvals = [a \in ApprovalId |-> [run |-> NoRun, status |-> "absent"]]

ApprovalsOf(r) == {a \in ApprovalId : approvals[a].run = r}

Newest(r, a) == a \in ApprovalsOf(r) /\ \A b \in ApprovalsOf(r) : b <= a

Cleared(r) ==
  ApprovalsOf(r) = {} \/ \E a \in ApprovalId : Newest(r, a) /\ approvals[a].status = "approved"

Undecided(r) == \E a \in ApprovalsOf(r) : approvals[a].status = "pending"

Open(r) == status[r] \in {"pending", "running", "waiting_approval", "interrupted"}

Become(r, s) == status' = [status EXCEPT ![r] = s] /\ UNCHANGED approvals

Create(r)    == status[r] = "absent" /\ Become(r, "pending")
Resume(r)    == Open(r) /\ Cleared(r) /\ Become(r, "running")
Interrupt(r) == Open(r) /\ Become(r, "interrupted")
Cancel(r)    == Open(r) /\ Become(r, "canceled")
Retry(r)     == (Open(r) \/ status[r] = "failed") /\ Become(r, "pending")

Request(r, a) ==
  /\ Open(r)
  /\ ~Undecided(r)
  /\ approvals[a].status = "absent" /\ \A b \in ApprovalsOf(r) : b < a
  /\ approvals' = [approvals EXCEPT ![a] = [run |-> r, status |-> "pending"]]
  /\ status' = [status EXCEPT ![r] = "waiting_approval"]

Decide(a, verdict) ==
  /\ approvals[a].status = "pending"
  /\ approvals' = [approvals EXCEPT ![a].status = verdict]
  /\ UNCHANGED status

Next ==
  \/ \E r \in Run :
       \/ Create(r) \/ Resume(r) \/ Interrupt(r) \/ Cancel(r) \/ Retry(r)
       \/ \E a \in ApprovalId : Request(r, a)
  \/ \E a \in ApprovalId, verdict \in {"approved", "denied"} : Decide(a, verdict)

Spec == Init /\ [][Next]_vars
=============================================================================
