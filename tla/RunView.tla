------------------------------ MODULE RunView ------------------------------
(***************************************************************************)
(* One reader beside the requests of RunLifecycle: get_run_view, which     *)
(* reads a run, its checkpoints, its approvals and its audit rows through  *)
(* four connections, and the controls the product page offers for what it  *)
(* was shown.                                                              *)
(*                                                                         *)
(* The bounds are those of RunLifecycle; views may follow one another.     *)
(***************************************************************************)
EXTENDS RunLifecycle

VARIABLE view   \* what the reads have returned, and history of their moments

NoView == [run |-> NoRun, reads |-> 0, status |-> "absent", checkpoints |-> {},
           approval |-> "none", rows |-> 0, known |-> 0, busy |-> {}]

viewVars == <<vars, view>>

ViewInit == Init /\ view = NoView

-----------------------------------------------------------------------------
(* The order of the reads.                                                 *)
ReadsSwapped == <<"trail", "checkpoints", "approvals", "run">>
Reads == <<"run", "checkpoints", "approvals", "trail">>

InFlight == {job[w].req : w \in {v \in Worker : pc[v] # "idle"}}

LatestStatus(r) ==
  IF ApprovalsOf(r) = {} THEN "none" ELSE approvals[CHOOSE a \in ApprovalsOf(r) : Latest(r, a)].status

(* What a read of the table adds to the view v of run r.  The first `known` *)
(* commits were there when the run was read; the requests of `busy` had not *)
(* returned when their evidence was.                                        *)
Seeing(table, r, v) ==
  CASE table = "run"         -> [v EXCEPT !.status = status[r], !.known = Len(commits)]
    [] table = "checkpoints" -> [v EXCEPT !.checkpoints = {p \in checkpoints : p.run = r},
                                          !.busy = @ \cup InFlight]
    [] table = "approvals"   -> [v EXCEPT !.approval = LatestStatus(r)]
    [] table = "trail"       -> [v EXCEPT !.rows = Len(trail), !.busy = @ \cup InFlight]

(* The first read raises NotFoundError for a run that does not exist.      *)
BeginView(r) ==
  /\ view = NoView /\ status[r] # "absent"
  /\ view' = [Seeing(Reads[1], r, NoView) EXCEPT !.run = r, !.reads = 1]
  /\ UNCHANGED vars

ContinueView ==
  /\ view.reads \in 1..(Len(Reads) - 1)
  /\ view' = [Seeing(Reads[view.reads + 1], view.run, view) EXCEPT !.reads = @ + 1]
  /\ UNCHANGED vars

Shown == view.reads = Len(Reads)

(* A view is judged as it is shown, and gives way to the next one when the *)
(* requests go on; the process takes a view it was reading along.          *)
GoOn(step) == step /\ view' = IF Shown THEN NoView ELSE view

ViewNext ==
  \/ \E w \in Worker : GoOn(Start(w)) \/ GoOn(Proceed(w)) \/ GoOn(Fail(w))
  \/ Crash /\ view' = NoView
  \/ \E r \in Run : BeginView(r)
  \/ ContinueView

ViewSpec == ViewInit /\ [][ViewNext]_viewVars /\ \A w \in Worker : WF_viewVars(GoOn(Proceed(w)))

-----------------------------------------------------------------------------
(* The controls of the page, for an administrator: what syncRunControls    *)
(* enables for a shown status s and the status a of the last approval.     *)
EnabledIgnoringApproval(op, s, a) ==
  CASE op = "resume_run"       -> s \notin {"running", "completed", "failed", "canceled"}
    [] op = "interrupt_run"    -> s \notin {"interrupted", "completed", "failed", "canceled"}
    [] op = "retry_run"        -> s \notin {"running", "completed"}
    [] op = "cancel_run"       -> s \notin {"canceled", "completed"}
    [] op = "request_approval" -> s \notin {"completed", "canceled"} /\ a # "pending"
    [] op = "decide_approval"  -> a = "pending"
Enabled(op, s, a) ==
  CASE op = "resume_run"       -> /\ s \notin {"running", "completed", "failed", "canceled"}
                                  /\ a \in {"none", "approved"}
    [] op = "interrupt_run"    -> s \notin {"interrupted", "completed", "failed", "canceled"}
    [] op = "retry_run"        -> s \notin {"running", "completed"}
    [] op = "cancel_run"       -> s \notin {"canceled", "completed"}
    [] op = "request_approval" -> s \notin {"completed", "canceled"} /\ a # "pending"
    [] op = "decide_approval"  -> a = "pending"

(* The service would let the request through, as the tables are now.       *)
Accepted(op, r) ==
  CASE op \in StatusOp         -> /\ status[r] \notin Refused(op)
                                  /\ op = "resume_run" => Cleared(r)
    [] op = "request_approval" -> status[r] \notin Refused(op) /\ ~HasPending(r)
    [] op = "decide_approval"  -> HasPending(r)

-----------------------------------------------------------------------------
(* A view never shows a change without its evidence: the checkpoint and    *)
(* every audit row of a change that the run's status already reflected are *)
(* among the rows shown, unless the request that made it had not returned  *)
(* by then, or was cut short.                                              *)
ViewEvidenced ==
  Shown => \A k \in 1..view.known :
    LET c == commits[k] IN
    \/ c.run # view.run
    \/ c.req \in view.busy \cup aborted
    \/ /\ c.op \in Checkpointed => \E p \in view.checkpoints : p.req = c.req /\ p.type = c.op
       /\ \A e \in DOMAIN EventsOf(c.op) :
            \E i \in 1..view.rows : trail[i].req = c.req /\ trail[i].event = EventsOf(c.op)[e]

(* Page and service agree: what a view offers, the service accepts, for as *)
(* long as nothing has been committed since the view's first read.  The    *)
(* page offers to retry a canceled run, and that alone is refused.         *)
ControlsAccepted ==
  Shown /\ view.known = Len(commits) =>
    \A op \in Op \ {"create_run"} :
      Enabled(op, view.status, view.approval) =>
        Accepted(op, view.run) \/ (op = "retry_run" /\ view.status = "canceled")
=============================================================================
