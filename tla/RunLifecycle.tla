---------------------------- MODULE RunLifecycle ----------------------------
(***************************************************************************)
(* The operator-driven lifecycle of runs: the OrchestrationService and the *)
(* PolicyService over one SQLite gateway.                                  *)
(*                                                                         *)
(* The HTTP handlers are synchronous functions that the web framework runs *)
(* on a pool of threads (Worker).  A service method is a straight sequence *)
(* of gateway calls and every gateway call opens a connection of its own   *)
(* and commits on its own (storage/db.py:25-35).  A step of this module is *)
(* one such call together with the local computation up to the next one,   *)
(* so two requests interleave exactly where the code lets them, and a      *)
(* request may be cut short between any two of its calls.                  *)
(*                                                                         *)
(* Bounds: MaxRequests, MaxApprovals and MaxFaults cap the requests        *)
(* admitted, the approvals stamped and the failures injected.              *)
(***************************************************************************)
EXTENDS Timestamps, Sequences

CONSTANTS Worker,        \* the threads that serve requests
          Run,           \* the identifiers of runs
          NoRun,         \* the run of an idle worker and of an absent approval
          MaxRequests, MaxApprovals, MaxFaults

ASSUME NoRunAssumption == NoRun \notin Run
ASSUME BoundAssumption == MaxRequests \in Nat /\ MaxApprovals \in Nat /\ MaxFaults \in Nat

RunStatus == {"pending", "running", "waiting_approval", "interrupted",
              "completed", "failed", "canceled"}

ApprovalStatus == {"pending", "approved", "denied"}
Verdict == {"approved", "denied"}

StatusOp == {"resume_run", "interrupt_run", "retry_run", "cancel_run"}
Op == StatusOp \cup {"create_run", "request_approval", "decide_approval"}

(* An approval is named by the tick of its created_at.                     *)
ApprovalId == 1..MaxApprovals

VARIABLES
  \* tables of the database
  status,       \* runs.status, "absent" before the row exists
  approvals,    \* rows of approvals
  checkpoints,  \* rows of checkpoints, each naming the request that wrote it
  trail,        \* rows of audit_events in the order of their inserts
  \* the threads
  pc, job,
  \* counters of the bounds; the clocks that stamp approvals and audit rows,
  \* two because no query compares stamps of two tables
  issued, stamped, clock, faults,
  \* history: what was committed, in order, and which requests were cut short
  commits, aborted

database == <<status, approvals, checkpoints, trail>>
threads  == <<pc, job>>
vars == <<status, approvals, checkpoints, trail, pc, job,
          issued, stamped, clock, faults, commits, aborted>>

NoJob == [req |-> 0, op |-> "none", run |-> NoRun, approval |-> 0,
          verdict |-> "none", seen |-> "absent", at |-> 0]
NoApproval == [run |-> NoRun, status |-> "absent"]

Init ==
  /\ status = [r \in Run |-> "absent"]
  /\ approvals = [a \in ApprovalId |-> NoApproval]
  /\ checkpoints = {}
  /\ trail = <<>>
  /\ pc = [w \in Worker |-> "idle"]
  /\ job = [w \in Worker |-> NoJob]
  /\ issued = 0 /\ stamped = 0 /\ clock = 0 /\ faults = 0
  /\ commits = <<>>
  /\ aborted = {}

-----------------------------------------------------------------------------
(* What each service method refuses, writes and records.                   *)

(* A definition named after the one that follows it, with Seeded or another *)
(* word after the name, is a plausible slip in it that a property of this   *)
(* module must notice.                                                      *)
RefusedSeeded(op) ==
  IF op = "retry_run" THEN {"completed"} ELSE {"canceled", "completed", "failed"}

(* The statuses in which a method raises ConflictError.  A retry is let    *)
(* through on a failed run.                                                *)
Refused(op) ==
  IF op = "retry_run" THEN {"canceled", "completed"}
                      ELSE {"canceled", "completed", "failed"}

(* The status a method writes.                                             *)
Target(op) ==
  CASE op = "create_run"       -> "pending"
    [] op = "resume_run"       -> "running"
    [] op = "interrupt_run"    -> "interrupted"
    [] op = "retry_run"        -> "pending"
    [] op = "cancel_run"       -> "canceled"
    [] op = "request_approval" -> "waiting_approval"

(* The audit events a method records, in order.                            *)
EventsOf(op) ==
  CASE op = "create_run"       -> <<"run.created">>
    [] op = "resume_run"       -> <<"run.resumed">>
    [] op = "interrupt_run"    -> <<"run.interrupted">>
    [] op = "retry_run"        -> <<"run.retried">>
    [] op = "cancel_run"       -> <<"run.canceled">>
    [] op = "request_approval" -> <<"run.waiting_approval", "approval.requested">>
    [] op = "decide_approval"  -> <<"approval.decided">>

(* The methods that write a checkpoint before they record their event.     *)
Checkpointed == StatusOp \cup {"create_run"}

ApprovalsOf(r) == {a \in ApprovalId : approvals[a].run = r}

LatestSeeded(r, a) == a \in ApprovalsOf(r) /\ \A b \in ApprovalsOf(r) : a <= b

(* The last row of list_approvals_for_run, ORDER BY the text created_at.   *)
Latest(r, a) ==
  a \in ApprovalsOf(r) /\ \A b \in ApprovalsOf(r) : TextRank(b) <= TextRank(a)

(* assert_resume_allowed: no approval at all, or the latest one approved.  *)
Cleared(r) ==
  \/ ApprovalsOf(r) = {}
  \/ \E a \in ApprovalId : Latest(r, a) /\ approvals[a].status = "approved"

HasPending(r) == \E a \in ApprovalId : Latest(r, a) /\ approvals[a].status = "pending"

-----------------------------------------------------------------------------
(* Admission, progress and end of a request.                               *)

NewJob(op, r, a, verdict, seen) ==
  [req |-> issued + 1, op |-> op, run |-> r, approval |-> a, verdict |-> verdict,
   seen |-> seen, at |-> 0]

Admit(w, next, j) ==
  /\ pc[w] = "idle"
  /\ issued < MaxRequests
  /\ issued' = issued + 1
  /\ pc' = [pc EXCEPT ![w] = next]
  /\ job' = [job EXCEPT ![w] = j]

Goto(w, next) == pc' = [pc EXCEPT ![w] = next]

Finish(w) ==
  /\ pc' = [pc EXCEPT ![w] = "idle"]
  /\ job' = [job EXCEPT ![w] = NoJob]

(* The requests in progress on the other threads.                          *)
Others(w) == {job[v].req : v \in {u \in Worker \ {w} : pc[u] # "idle"}}

Commit(w, from) ==
  commits' = Append(commits, [req |-> job'[w].req, op |-> job'[w].op, run |-> job'[w].run,
                              from |-> from, beside |-> Others(w)])

InsertRunSeeded(r) == status[r] = "absent" /\ status' = [status EXCEPT ![r] = "created"]

(* The gateway's INSERT of a run, whose identifier is new.                 *)
InsertRun(r) ==
  /\ status[r] = "absent"
  /\ status' = [status EXCEPT ![r] = Target("create_run")]

(* POST /runs: the row is inserted before anything is read.                *)
CreateRun(w, r) ==
  /\ Admit(w, "checkpoint", NewJob("create_run", r, 0, "none", "absent"))
  /\ InsertRun(r)
  /\ Commit(w, "absent")
  /\ UNCHANGED <<approvals, checkpoints, trail, stamped, clock, faults, aborted>>

(* The first call of the other run methods reads the run and raises        *)
(* NotFoundError or ConflictError; a refused request has no further step.  *)
ReadRun(w, op, r, next) ==
  /\ status[r] \notin Refused(op) \cup {"absent"}
  /\ Admit(w, next, NewJob(op, r, 0, "none", IF op = "resume_run" THEN status[r] ELSE "absent"))
  /\ UNCHANGED <<database, stamped, clock, faults, commits, aborted>>

ResumeRun(w, r)       == ReadRun(w, "resume_run", r, "gate")
InterruptRun(w, r)    == ReadRun(w, "interrupt_run", r, "update")
RetryRun(w, r)        == ReadRun(w, "retry_run", r, "update")
CancelRun(w, r)       == ReadRun(w, "cancel_run", r, "update")
RequestApproval(w, r) == ReadRun(w, "request_approval", r, "list_approvals")

DecideApprovalSeeded(w, a, verdict) ==
  /\ approvals[a].status # "absent"
  /\ Admit(w, "decide", NewJob("decide_approval", approvals[a].run, a, verdict, "absent"))
  /\ UNCHANGED <<database, stamped, clock, faults, commits, aborted>>

(* PolicyService.decide_approval: the gateway reads the row in one         *)
(* connection and refuses one that is not pending.                         *)
DecideApproval(w, a, verdict) ==
  /\ approvals[a].status = "pending"
  /\ Admit(w, "decide", NewJob("decide_approval", approvals[a].run, a, verdict, "absent"))
  /\ UNCHANGED <<database, stamped, clock, faults, commits, aborted>>

AssertResumeAllowedSeeded(w) ==
  /\ pc[w] = "gate"
  /\ IF HasPending(job[w].run) THEN Finish(w) ELSE Goto(w, "update") /\ UNCHANGED job
  /\ UNCHANGED <<database, issued, stamped, clock, faults, commits, aborted>>

AssertResumeAllowedRecorded(w) ==
  /\ pc[w] = "gate"
  /\ Goto(w, IF Cleared(job[w].run) THEN "update" ELSE "audit")
  /\ UNCHANGED <<database, job, issued, stamped, clock, faults, commits, aborted>>

(* resume_run asks the policy evaluator after it has read the run.         *)
AssertResumeAllowed(w) ==
  /\ pc[w] = "gate"
  /\ IF Cleared(job[w].run) THEN Goto(w, "update") /\ UNCHANGED job ELSE Finish(w)
  /\ UNCHANGED <<database, issued, stamped, clock, faults, commits, aborted>>

CheckNonePendingSeeded(w) ==
  /\ pc[w] = "list_approvals"
  /\ Goto(w, "stamp")
  /\ UNCHANGED <<database, job, issued, stamped, clock, faults, commits, aborted>>

(* request_approval refuses when the latest approval is pending.           *)
CheckNonePending(w) ==
  /\ pc[w] = "list_approvals"
  /\ IF HasPending(job[w].run) THEN Finish(w) ELSE Goto(w, "stamp") /\ UNCHANGED job
  /\ UNCHANGED <<database, issued, stamped, clock, faults, commits, aborted>>

(* The gateway re-reads the run, draws the approval's identifier and its   *)
(* created_at, and only then opens its transaction.                        *)
StampApproval(w) ==
  /\ pc[w] = "stamp"
  /\ stamped < MaxApprovals
  /\ stamped' = stamped + 1
  /\ job' = [job EXCEPT ![w].approval = stamped + 1]
  /\ Goto(w, "mark_waiting")
  /\ UNCHANGED <<database, issued, clock, faults, commits, aborted>>

MarkRunWaitingSeeded(w) ==
  LET r == job[w].run IN
  /\ pc[w] = "mark_waiting"
  /\ approvals' = [approvals EXCEPT ![job[w].approval] = [run |-> r, status |-> "pending"]]
  /\ Goto(w, "audit")
  /\ UNCHANGED job
  /\ Commit(w, status[r])
  /\ UNCHANGED <<status, checkpoints, trail, issued, stamped, clock, faults, aborted>>

(* One transaction: the run waits and the approval row exists.             *)
MarkRunWaiting(w) ==
  LET r == job[w].run IN
  /\ pc[w] = "mark_waiting"
  /\ status' = [status EXCEPT ![r] = "waiting_approval"]
  /\ approvals' = [approvals EXCEPT ![job[w].approval] = [run |-> r, status |-> "pending"]]
  /\ Goto(w, "audit")
  /\ UNCHANGED job
  /\ Commit(w, status[r])
  /\ UNCHANGED <<checkpoints, trail, issued, stamped, clock, faults, aborted>>

(* update_run_status overwrites whatever status the row has by now.        *)
UpdateRunStatus(w) ==
  LET r == job[w].run IN
  /\ pc[w] = "update"
  /\ status' = [status EXCEPT ![r] = Target(job[w].op)]
  /\ Goto(w, "checkpoint")
  /\ UNCHANGED job
  /\ Commit(w, status[r])
  /\ UNCHANGED <<approvals, checkpoints, trail, issued, stamped, clock, faults, aborted>>

(* The UPDATE of decide_approval, in a second connection, unconditional.   *)
WriteDecision(w) ==
  /\ pc[w] = "decide"
  /\ approvals' = [approvals EXCEPT ![job[w].approval].status = job[w].verdict]
  /\ Goto(w, "audit")
  /\ UNCHANGED job
  /\ Commit(w, approvals[job[w].approval].status)
  /\ UNCHANGED <<status, checkpoints, trail, issued, stamped, clock, faults, aborted>>

AppendCheckpointSkipped(w) ==
  /\ pc[w] = "checkpoint"
  /\ Goto(w, "audit")
  /\ UNCHANGED <<job, database, issued, stamped, clock, faults, commits, aborted>>
AppendCheckpointReturns(w) ==
  /\ pc[w] = "checkpoint"
  /\ checkpoints' = checkpoints \cup {[req |-> job[w].req, run |-> job[w].run, type |-> job[w].op]}
  /\ Finish(w)
  /\ UNCHANGED <<status, approvals, trail, issued, stamped, clock, faults, commits, aborted>>

AppendCheckpoint(w) ==
  /\ pc[w] = "checkpoint"
  /\ checkpoints' = checkpoints \cup {[req |-> job[w].req, run |-> job[w].run, type |-> job[w].op]}
  /\ Goto(w, "audit")
  /\ UNCHANGED <<job, status, approvals, trail, issued, stamped, clock, faults, commits, aborted>>

StampAuditOnce(w) ==
  /\ pc[w] \in {"audit", "audit_again"}
  /\ clock' = IF job[w].at = 0 THEN clock + 1 ELSE clock
  /\ job' = [job EXCEPT ![w].at = clock']
  /\ Goto(w, IF pc[w] = "audit" THEN "insert" ELSE "insert_again")
  /\ UNCHANGED <<database, issued, stamped, faults, commits, aborted>>

(* AuditService.record, append_event: created_at is drawn before the       *)
(* connection of the INSERT is opened.                                     *)
StampAudit(w) ==
  /\ pc[w] \in {"audit", "audit_again"}
  /\ clock' = clock + 1
  /\ job' = [job EXCEPT ![w].at = clock + 1]
  /\ Goto(w, IF pc[w] = "audit" THEN "insert" ELSE "insert_again")
  /\ UNCHANGED <<database, issued, stamped, faults, commits, aborted>>

Row(w, k) == [req |-> job[w].req, run |-> job[w].run, event |-> EventsOf(job[w].op)[k],
              from |-> job[w].seen, at |-> job[w].at]

RecordAuditSeeded(w) ==
  /\ pc[w] = "insert"
  /\ trail' = Append(trail, Row(w, 1))
  /\ Finish(w)
  /\ UNCHANGED <<status, approvals, checkpoints, issued, stamped, clock, faults, commits, aborted>>

(* The INSERT of a method's first event, and of its second.                *)
RecordAudit(w) ==
  /\ pc[w] = "insert"
  /\ trail' = Append(trail, Row(w, 1))
  /\ IF Len(EventsOf(job[w].op)) > 1 THEN Goto(w, "audit_again") /\ UNCHANGED job ELSE Finish(w)
  /\ UNCHANGED <<status, approvals, checkpoints, issued, stamped, clock, faults, commits, aborted>>

RecordSecondAudit(w) ==
  /\ pc[w] = "insert_again"
  /\ trail' = Append(trail, Row(w, 2))
  /\ Finish(w)
  /\ UNCHANGED <<status, approvals, checkpoints, issued, stamped, clock, faults, commits, aborted>>

(* A gateway call raises (a locked database, a full disk): nothing of it   *)
(* is committed, the exception leaves the method, no later call is made.   *)
(* Drawing an audit stamp is no such call.                                 *)
Fail(w) ==
  /\ pc[w] \notin {"idle", "audit", "audit_again"}
  /\ faults < MaxFaults
  /\ faults' = faults + 1
  /\ aborted' = aborted \cup {job[w].req}
  /\ Finish(w)
  /\ UNCHANGED <<database, issued, stamped, clock, commits>>

(* The process dies and restarts: the tables stay, every request is lost.  *)
Crash ==
  /\ faults < MaxFaults
  /\ \E w \in Worker : pc[w] # "idle"
  /\ faults' = faults + 1
  /\ aborted' = aborted \cup {job[w].req : w \in {v \in Worker : pc[v] # "idle"}}
  /\ pc' = [w \in Worker |-> "idle"]
  /\ job' = [w \in Worker |-> NoJob]
  /\ UNCHANGED <<database, issued, stamped, clock, commits>>

-----------------------------------------------------------------------------
Start(w) ==
  \/ \E r \in Run : \/ CreateRun(w, r)
                    \/ ResumeRun(w, r)
                    \/ InterruptRun(w, r)
                    \/ RetryRun(w, r)
                    \/ CancelRun(w, r)
                    \/ RequestApproval(w, r)
  \/ \E a \in ApprovalId, v \in Verdict : DecideApproval(w, a, v)

(* A request in progress runs on: these are the steps of a live thread.    *)
Proceed(w) ==
  \/ AssertResumeAllowed(w)
  \/ CheckNonePending(w)
  \/ StampApproval(w)
  \/ MarkRunWaiting(w)
  \/ UpdateRunStatus(w)
  \/ WriteDecision(w)
  \/ AppendCheckpoint(w)
  \/ StampAudit(w)
  \/ RecordAudit(w)
  \/ RecordSecondAudit(w)

Next ==
  \/ \E w \in Worker : Start(w) \/ Proceed(w) \/ Fail(w)
  \/ Crash

Spec == Init /\ [][Next]_vars

(* A thread that has entered a method keeps executing it; nothing obliges  *)
(* an operator to send a request.                                          *)
FairSpec == Spec /\ \A w \in Worker : WF_vars(Proceed(w))
-----------------------------------------------------------------------------
(* Type invariant.                                                         *)

Pc == {"idle", "gate", "update", "list_approvals", "stamp", "mark_waiting",
       "decide", "checkpoint", "audit", "insert", "audit_again", "insert_again"}
Event == {"run.created", "run.resumed", "run.interrupted", "run.retried", "run.canceled",
          "run.waiting_approval", "approval.requested", "approval.decided"}
Status == RunStatus \cup {"absent"}
Job == [req : Nat, op : Op \cup {"none"}, run : Run \cup {NoRun}, approval : 0..MaxApprovals,
        verdict : Verdict \cup {"none"}, seen : Status, at : Nat]
CommitRow == [req : Nat, op : Op, run : Run, from : Status \cup ApprovalStatus,
              beside : SUBSET Nat]
TrailRow == [req : Nat, run : Run, event : Event, from : Status, at : Nat]

(* Every table, thread and counter holds what its column or field may      *)
(* hold: the enumerations of orchestration/models.py and policy/models.py. *)
TypeOK ==
  /\ status \in [Run -> Status]
  /\ approvals \in [ApprovalId -> [run : Run \cup {NoRun}, status : ApprovalStatus \cup {"absent"}]]
  /\ checkpoints \subseteq [req : Nat, run : Run, type : Op]
  /\ trail \in Seq(TrailRow)
  /\ pc \in [Worker -> Pc]
  /\ job \in [Worker -> Job]
  /\ issued \in Nat /\ stamped \in 0..MaxApprovals /\ clock \in Nat /\ faults \in Nat
  /\ commits \in Seq(CommitRow)
  /\ aborted \subseteq Nat

-----------------------------------------------------------------------------
(* Evidence: the audit trail and the checkpoints against what was          *)
(* committed.  These hold for any number of concurrent requests.           *)

HasCheckpoint(c) == \E p \in checkpoints : p.req = c.req /\ p.run = c.run /\ p.type = c.op

(* All that the method which committed c still owes the trail is there.    *)
Evidenced(c) ==
  /\ \A k \in DOMAIN EventsOf(c.op) :
       \E i \in DOMAIN trail : trail[i].req = c.req /\ trail[i].event = EventsOf(c.op)[k]
  /\ c.op \in Checkpointed => HasCheckpoint(c)

(* No evidence without a cause: every audit row was recorded by a request  *)
(* that had changed the run it names by a method that records that event,  *)
(* and by then the change's checkpoint was on disk.                        *)
TrailBacked ==
  \A i \in DOMAIN trail :
    \E k \in DOMAIN commits :
      /\ commits[k].req = trail[i].req
      /\ commits[k].run = trail[i].run
      /\ \E n \in DOMAIN EventsOf(commits[k].op) : EventsOf(commits[k].op)[n] = trail[i].event
      /\ commits[k].op \in Checkpointed => HasCheckpoint(commits[k])

(* list_events_for_run, ORDER BY the text of created_at.                   *)
ListedBefore(i, j) == TextRank(trail[i].at) < TextRank(trail[j].at)

(* Row i was stamped on a whole second, and row j in the same second.      *)
HeldBack(i, j) ==
  /\ trail[i].at % Second = 0
  /\ trail[i].at \div Second = trail[j].at \div Second

(* Row i tells of something that was over before what row j tells of: it   *)
(* is the first row of the request that recorded j as its second, or its   *)
(* request had returned when that of row j made its change.                *)
Precedes(i, j) ==
  \/ /\ trail[i].req = trail[j].req
     /\ trail[i].event = "run.waiting_approval" /\ trail[j].event = "approval.requested"
  \/ \E k, l \in DOMAIN commits :
       /\ k < l
       /\ commits[k].req = trail[i].req /\ commits[l].req = trail[j].req
       /\ commits[k].req \notin commits[l].beside

(* A request records an event at most once and the second of its events    *)
(* only after the first; and the trail lists what was over before what     *)
(* came later, but for a row stamped on a whole second, which is listed    *)
(* behind the rest of that second.                                         *)
TrailOrdered ==
  \A i \in DOMAIN trail :
    /\ trail[i].event = "approval.requested" =>
         \E j \in DOMAIN trail : trail[j].req = trail[i].req /\ trail[j].event = "run.waiting_approval"
    /\ \A j \in DOMAIN trail :
         /\ trail[i].req = trail[j].req /\ trail[i].event = trail[j].event => i = j
         /\ Precedes(i, j) => ListedBefore(i, j) \/ HeldBack(i, j)

(* A committed change lacks its evidence only while the request that made  *)
(* it is still running or when that request was cut short: there is no     *)
(* third way to lose an audit row.                                         *)
GapAccounted ==
  \A k \in DOMAIN commits :
    \/ Evidenced(commits[k])
    \/ commits[k].req \in aborted
    \/ \E w \in Worker : job[w].req = commits[k].req

(* The status an audit event announces.                                    *)
Announces(event) ==
  CASE event \in {"run.created", "run.retried"} -> "pending"
    [] event = "run.resumed"          -> "running"
    [] event = "run.interrupted"      -> "interrupted"
    [] event = "run.canceled"         -> "canceled"
    [] event = "run.waiting_approval" -> "waiting_approval"
    [] OTHER                          -> "none"

LastChange(r, k) ==
  /\ k \in DOMAIN commits /\ commits[k].run = r /\ commits[k].op # "decide_approval"
  /\ \A j \in DOMAIN commits :
       commits[j].run = r /\ commits[j].op # "decide_approval" => j <= k

Tells(r, i) == i \in DOMAIN trail /\ trail[i].run = r /\ Announces(trail[i].event) # "none"

(* Of the rows listed for r that announce a status, i is the last.         *)
LastWord(r, i) == Tells(r, i) /\ \A j \in DOMAIN trail : Tells(r, j) => ~ListedBefore(i, j)

(* The run of change k was changed by another request while the one that   *)
(* made k was at work.                                                     *)
Overtaken(k) ==
  \E j \in 1..(k - 1) : commits[j].run = commits[k].run /\ commits[k].req \in commits[j].beside

(* Replaying the trail as it is listed gives the status of a run once its  *)
(* last change has its evidence, gaps left by earlier changes              *)
(* notwithstanding.  The last word belongs to another change only when     *)
(* that one's request was at work beside the last change, or its row was   *)
(* stamped on a whole second.  And the from_status of a run.resumed row is *)
(* the status its UPDATE replaced unless the resume was overtaken.         *)
ReplayMatches ==
  /\ \A r \in Run : \A k \in DOMAIN commits : LastChange(r, k) /\ Evidenced(commits[k]) =>
       \A i \in DOMAIN trail : LastWord(r, i) =>
         \/ Announces(trail[i].event) = status[r]
         \/ trail[i].req \in commits[k].beside
         \/ \E j \in DOMAIN trail : trail[j].req = commits[k].req /\ HeldBack(i, j)
  /\ \A i \in DOMAIN trail : trail[i].event = "run.resumed" =>
       \E k \in DOMAIN commits :
         /\ commits[k].req = trail[i].req
         /\ commits[k].from = trail[i].from \/ Overtaken(k)

(* A thread that is not cut short gets to the end of its evidence: again   *)
(* and again every change so far has all of it or was made by a request    *)
(* that was cut short.                                                     *)
EventuallyEvidenced ==
  []<>(\A k \in DOMAIN commits : commits[k].req \in aborted \/ Evidenced(commits[k]))

-----------------------------------------------------------------------------
(* Guards: what holds for concurrent requests in spite of the gap between  *)
(* a check and the write it admits.                                        *)

(* Worker w has read run r and may still write its status.                 *)
PastCheck(w, r) ==
  /\ job[w].run = r
  /\ pc[w] \in {"gate", "update", "list_approvals", "stamp", "mark_waiting"}

Settled(r) == status[r] = "canceled" /\ \A w \in Worker : ~PastCheck(w, r)

(* Cancellation is final once the requests that had read the run before it *)
(* have drained: nothing that starts later gets past its check.            *)
CanceledSettled == [][\A r \in Run : Settled(r) => Settled(r)']_vars

(* Run r is not running, its latest approval is not an approved one, and   *)
(* no resume has got past the gate.                                        *)
Barred(r) ==
  /\ ~Cleared(r)
  /\ status[r] # "running"
  /\ \A w \in Worker : ~(job[w].run = r /\ job[w].op = "resume_run" /\ pc[w] = "update")

NewlyApproved(r) ==
  \E a \in ApprovalsOf(r) : approvals[a].status # "approved" /\ approvals'[a].status = "approved"

(* Only an approval opens the gate: retries, interruptions, further        *)
(* requests for approval and denials, in any interleaving, leave a barred  *)
(* run barred.                                                             *)
GateHolds == [][\A r \in Run : Barred(r) => Barred(r)' \/ NewlyApproved(r)]_vars

(* Approval a is decided, and no thread has read it as pending and is      *)
(* about to write a decision of its own.                                   *)
Decided(a) ==
  /\ approvals[a].status \in Verdict
  /\ \A w \in Worker : ~(pc[w] = "decide" /\ job[w].approval = a)

(* Once the decisions that crossed have drained, the one that was written  *)
(* last stands: no later one is taken, and nothing else touches the row.   *)
DecisionSettled ==
  [][\A a \in ApprovalId : Decided(a) => Decided(a)' /\ UNCHANGED approvals[a]]_vars

(* The latest approval of r is pending, and no thread has found none       *)
(* pending and is about to insert one.                                     *)
Asked(r) ==
  /\ HasPending(r)
  /\ \A w \in Worker : ~(job[w].run = r /\ pc[w] \in {"stamp", "mark_waiting"})

Answered(r) == \E a \in ApprovalsOf(r) : Latest(r, a) /\ approvals'[a].status \in Verdict

(* A run that waits for a decision gets no further approval until it has   *)
(* it: requests for one pile up only while they cross.                     *)
RequestSettled ==
  [][\A r \in Run : Asked(r) => UNCHANGED ApprovalsOf(r) /\ (Asked(r)' \/ Answered(r))]_vars

-----------------------------------------------------------------------------
(* What holds when requests on one run do not overlap, and only then.      *)

(* A running run has no approval or its latest one is approved.            *)
RunningImpliesCleared == \A r \in Run : status[r] = "running" => Cleared(r)

-----------------------------------------------------------------------------
(* Requests that do not overlap on a run implement the operations of       *)
(* RunPolicy: the tables are mapped to themselves, and the one step of a   *)
(* request that writes status or approvals is the operation.               *)
(* The order of approvals is there the order of their stamps, which the    *)
(* text keeps as long as none is stamped on a whole second.                *)
Policy == INSTANCE RunPolicy
ImplementsRunPolicy == Policy!Spec

-----------------------------------------------------------------------------
(* Requests in any number and any interleaving are a RunFeed: a change is  *)
(* what a request committed to a run, and it has its row when the request  *)
(* has recorded its first.                                                 *)
Feed == INSTANCE RunFeed
  WITH Change    <- Run \X (1..MaxRequests),
       changes   <- {<<commits[k].run, commits[k].req>> : k \in DOMAIN commits},
       rows      <- {<<trail[i].run, trail[i].req>> : i \in DOMAIN trail},
       abandoned <- Run \X aborted
ImplementsRunFeed == Feed!Spec
=============================================================================
