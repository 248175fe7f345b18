------------------------- MODULE RunLifecycleProofs -------------------------
(***************************************************************************)
(* Theorems about RunLifecycle and the views of RunView, for any set of    *)
(* workers and of runs, any bounds, interleaving and failures:             *)
(*   - types, and what the guards keep in spite of the gap between a check *)
(*     and its write;                                                      *)
(*   - what is told of the changes: the lifecycle is a RunFeed, and the    *)
(*     audit trail, in the order it is listed in, the checkpoints and the  *)
(*     views match what was committed;                                     *)
(*   - for requests that do not overlap on one run: the lifecycle is       *)
(*     RunPolicy.                                                          *)
(***************************************************************************)
EXTENDS RunView, TLAPS

(* Where the first and the second row of a request are recorded.           *)
First == {"audit", "insert"}
Again == {"audit_again", "insert_again"}

(* What the request of worker w carries at each of its steps.              *)
JobAt(w) ==
  /\ pc[w] = "idle" => job[w] = NoJob
  /\ pc[w] # "idle" => job[w].run \in Run /\ job[w].op \in Op /\ job[w].req \in 1..issued
  /\ pc[w] = "gate" => job[w].op = "resume_run"
  /\ pc[w] = "update" => job[w].op \in StatusOp
  /\ pc[w] \in {"list_approvals", "stamp", "mark_waiting", "audit_again", "insert_again"} =>
       job[w].op = "request_approval"
  /\ pc[w] = "mark_waiting" => job[w].approval \in ApprovalId
  /\ pc[w] = "decide" => /\ job[w].op = "decide_approval"
                         /\ job[w].approval \in ApprovalId
                         /\ job[w].verdict \in Verdict
                         /\ approvals[job[w].approval].status # "absent"
  /\ pc[w] = "checkpoint" => job[w].op \in Checkpointed

JobOK == \A w \in Worker : JobAt(w)

(* An approval row names a run exactly when it exists.                     *)
ApprovalsOK == \A a \in ApprovalId : approvals[a].status # "absent" <=> approvals[a].run \in Run

StateInv == TypeOK /\ JobOK /\ ApprovalsOK

LEMMA NoJobType == NoJob \in Job
  BY BoundAssumption DEF NoJob, Job, Status, RunStatus

(* A step leaves the requests of the other workers as they were.           *)
LEMMA OtherJobs ==
  ASSUME StateInv, NEW w \in Worker, NEW v \in Worker, v # w,
         pc'[v] = pc[v], job'[v] = job[v], issued' \in {issued, issued + 1},
         \A a \in ApprovalId : approvals[a].status # "absent" => approvals'[a].status # "absent"
  PROVE  JobAt(v)'
<1>1. JobAt(v) /\ issued \in Nat
  BY DEF StateInv, JobOK, JobAt, TypeOK
<1> QED
  BY <1>1 DEF JobAt

(* The shape of a step of worker w, and what is left to show for JobOK.    *)
LEMMA JobStep ==
  ASSUME StateInv, NEW w \in Worker, NEW p, NEW j,
         pc' = [pc EXCEPT ![w] = p], job' = [job EXCEPT ![w] = j],
         issued' \in {issued, issued + 1},
         \A a \in ApprovalId : approvals[a].status # "absent" => approvals'[a].status # "absent",
         pc'[w] = p /\ job'[w] = j => JobAt(w)'
  PROVE  JobOK'
<1>1. pc'[w] = p /\ job'[w] = j
  BY DEF StateInv, TypeOK
<1>2. ASSUME NEW v \in Worker, v # w PROVE pc'[v] = pc[v] /\ job'[v] = job[v]
  BY <1>2 DEF StateInv, TypeOK
<1>3. ASSUME NEW v \in Worker PROVE JobAt(v)'
  <2>1. CASE v = w
    BY <1>1, <2>1
  <2>2. CASE v # w
    BY <1>2, <2>2, OtherJobs
  <2> QED
    BY <2>1, <2>2
<1> QED
  BY <1>3 DEF JobOK

LEMMA FinishJob ==
  ASSUME StateInv, NEW w \in Worker, Finish(w), issued' = issued, UNCHANGED approvals
  PROVE  JobOK'
<1>1. pc'[w] = "idle" /\ job'[w] = NoJob => JobAt(w)'
  BY DEF JobAt
<1> QED
  BY <1>1, JobStep DEF Finish

LEMMA GotoJob ==
  ASSUME StateInv, NEW w \in Worker, NEW next, next # "idle", pc[w] # "idle", Goto(w, next),
         UNCHANGED <<job, issued>>,
         \A a \in ApprovalId : approvals[a].status # "absent" => approvals'[a].status # "absent",
         next \notin {"gate", "mark_waiting", "decide"},
         next = "update" => job[w].op \in StatusOp,
         next \in {"list_approvals", "stamp", "audit_again", "insert_again"} => job[w].op = "request_approval",
         next = "checkpoint" => job[w].op \in Checkpointed
  PROVE  JobOK'
<1>1. job' = [job EXCEPT ![w] = job[w]]
  BY DEF StateInv, TypeOK
<1>2. pc'[w] = next /\ job'[w] = job[w] => JobAt(w)'
  BY DEF JobAt, StateInv, JobOK
<1> QED
  BY <1>1, <1>2, JobStep DEF Goto

LEMMA InitState == Init => StateInv
<1> SUFFICES ASSUME Init PROVE StateInv
  OBVIOUS
<1>1. TypeOK
  BY NoJobType, BoundAssumption DEF Init, TypeOK, Status, NoApproval, Pc
<1>2. JobOK
  BY DEF Init, JobOK, JobAt
<1>3. ApprovalsOK
  BY NoRunAssumption DEF Init, ApprovalsOK, NoApproval
<1> QED
  BY <1>1, <1>2, <1>3 DEF StateInv

LEMMA OthersType ==
  ASSUME StateInv, NEW w \in Worker
  PROVE  Others(w) \in SUBSET Nat
BY DEF Others, StateInv, TypeOK, Job

LEMMA ReadRunState ==
  ASSUME StateInv, NEW w \in Worker, NEW op \in StatusOp \cup {"request_approval"},
         NEW r \in Run, NEW next \in {"gate", "update", "list_approvals"},
         next = "gate" => op = "resume_run", next = "update" => op \in StatusOp,
         next = "list_approvals" => op = "request_approval", ReadRun(w, op, r, next)
  PROVE  StateInv'
<1> DEFINE j == NewJob(op, r, 0, "none", IF op = "resume_run" THEN status[r] ELSE "absent")
<1>1. j \in Job /\ j.req = issued + 1 /\ j.op = op /\ j.run = r
  BY BoundAssumption DEF StateInv, NewJob, Job, TypeOK, Op, Status
<1>a. pc' = [pc EXCEPT ![w] = next] /\ job' = [job EXCEPT ![w] = j] /\ issued' = issued + 1
  BY DEF ReadRun, Admit
<1>b. UNCHANGED <<status, approvals, checkpoints, trail, stamped, clock, faults, commits, aborted>>
  BY DEF ReadRun, database
<1> HIDE DEF j
<1>2. TypeOK'
  BY <1>1, <1>a, <1>b DEF StateInv, TypeOK, Pc
<1>3. JobOK'
  <2>1. pc'[w] = next /\ job'[w] = j => JobAt(w)'
    BY <1>1, <1>a DEF JobAt, Op, StatusOp, StateInv, TypeOK
  <2> QED
    BY <2>1, <1>a, <1>b, JobStep
<1>4. ApprovalsOK'
  BY <1>b DEF StateInv, ApprovalsOK
<1> QED
  BY <1>2, <1>3, <1>4 DEF StateInv

LEMMA CreateRunState ==
  ASSUME StateInv, NEW w \in Worker, NEW r \in Run, CreateRun(w, r)
  PROVE  StateInv'
<1> DEFINE j == NewJob("create_run", r, 0, "none", "absent")
           c == [req |-> j.req, op |-> j.op, run |-> j.run, from |-> "absent",
                 beside |-> Others(w)]
<1>1. j \in Job /\ j.req = issued + 1 /\ j.op = "create_run" /\ j.run = r
  BY BoundAssumption DEF StateInv, NewJob, Job, TypeOK, Op, Status
<1>2. c \in CommitRow
  BY <1>1, OthersType DEF CommitRow, StateInv, TypeOK, Op, Status
<1>3. job' = [job EXCEPT ![w] = j] /\ pc' = [pc EXCEPT ![w] = "checkpoint"] /\ issued' = issued + 1
  BY DEF CreateRun, Admit
<1>4. job'[w] = j
  BY <1>3 DEF StateInv, TypeOK
<1>5. commits' = Append(commits, c)
  BY <1>4 DEF CreateRun, Commit
<1>6. status' = [status EXCEPT ![r] = "pending"]
  BY DEF CreateRun, InsertRun, Target
<1>7. UNCHANGED <<approvals, checkpoints, trail, stamped, clock, faults, aborted>>
  BY DEF CreateRun
<1> HIDE DEF j, c
<1>8. TypeOK'
  BY <1>1, <1>2, <1>3, <1>5, <1>6, <1>7 DEF StateInv, TypeOK, Pc, Status, RunStatus
<1>9. JobOK'
  <2>1. pc'[w] = "checkpoint" /\ job'[w] = j => JobAt(w)'
    BY <1>1, <1>3 DEF JobAt, Op, Checkpointed, StateInv, TypeOK
  <2> QED
    BY <2>1, <1>3, <1>7, JobStep
<1>10. ApprovalsOK'
  BY <1>7 DEF StateInv, ApprovalsOK
<1> QED
  BY <1>8, <1>9, <1>10 DEF StateInv

LEMMA DecideApprovalState ==
  ASSUME StateInv, NEW w \in Worker, NEW a \in ApprovalId, NEW v \in Verdict,
         DecideApproval(w, a, v)
  PROVE  StateInv'
<1> DEFINE j == NewJob("decide_approval", approvals[a].run, a, v, "absent")
<1>1. approvals[a].run \in Run
  BY DEF StateInv, ApprovalsOK, DecideApproval
<1>2. /\ j \in Job /\ j.req = issued + 1 /\ j.op = "decide_approval"
      /\ j.run \in Run /\ j.approval = a /\ j.verdict = v
  BY <1>1, BoundAssumption DEF StateInv, NewJob, Job, TypeOK, Op, Status, ApprovalId
<1>3. job' = [job EXCEPT ![w] = j] /\ pc' = [pc EXCEPT ![w] = "decide"] /\ issued' = issued + 1
  BY DEF DecideApproval, Admit
<1>4. UNCHANGED <<status, approvals, checkpoints, trail, stamped, clock, faults, commits, aborted>>
  BY DEF DecideApproval, database
<1>5. approvals[a].status # "absent"
  BY DEF DecideApproval
<1> HIDE DEF j
<1>6. TypeOK'
  BY <1>2, <1>3, <1>4 DEF StateInv, TypeOK, Pc
<1>7. JobOK'
  <2>1. pc'[w] = "decide" /\ job'[w] = j => JobAt(w)'
    BY <1>2, <1>3, <1>4, <1>5 DEF JobAt, Op, StateInv, TypeOK
  <2> QED
    BY <2>1, <1>3, <1>4, JobStep
<1>8. ApprovalsOK'
  BY <1>4 DEF StateInv, ApprovalsOK
<1> QED
  BY <1>6, <1>7, <1>8 DEF StateInv

(* The steps that end a request or only move it on.                        *)
LEMMA ChecksState ==
  ASSUME StateInv, NEW w \in Worker, AssertResumeAllowed(w) \/ CheckNonePending(w)
  PROVE  StateInv'
<1>1. UNCHANGED <<status, approvals, checkpoints, trail, issued, stamped, clock, faults, commits, aborted>>
  BY DEF AssertResumeAllowed, CheckNonePending, database
<1>2. \/ Finish(w)
      \/ pc[w] = "gate" /\ Goto(w, "update") /\ UNCHANGED job
      \/ pc[w] = "list_approvals" /\ Goto(w, "stamp") /\ UNCHANGED job
  BY DEF AssertResumeAllowed, CheckNonePending
<1>3. TypeOK'
  BY <1>1, <1>2, NoJobType DEF StateInv, TypeOK, Finish, Goto, Pc
<1>4. JobOK'
  <2>1. CASE Finish(w)
    BY <2>1, <1>1, FinishJob
  <2>2. CASE pc[w] = "gate" /\ Goto(w, "update") /\ UNCHANGED job
    BY <2>2, <1>1, GotoJob DEF StateInv, JobOK, JobAt, StatusOp
  <2>3. CASE pc[w] = "list_approvals" /\ Goto(w, "stamp") /\ UNCHANGED job
    BY <2>3, <1>1, GotoJob DEF StateInv, JobOK, JobAt
  <2> QED
    BY <1>2, <2>1, <2>2, <2>3
<1>5. ApprovalsOK'
  BY <1>1 DEF StateInv, ApprovalsOK
<1> QED
  BY <1>3, <1>4, <1>5 DEF StateInv

LEMMA StampState ==
  ASSUME StateInv, NEW w \in Worker, StampApproval(w)
  PROVE  StateInv'
<1>1. stamped + 1 \in ApprovalId
  BY BoundAssumption DEF StateInv, TypeOK, StampApproval, ApprovalId
<1> DEFINE j == [job[w] EXCEPT !.approval = stamped + 1]
<1>5. job[w] \in Job /\ job[w].run \in Run /\ job[w].op = "request_approval" /\ job[w].req \in 1..issued
  BY DEF StateInv, JobOK, JobAt, TypeOK, StampApproval
<1>6. /\ j \in Job /\ j.run = job[w].run /\ j.op = job[w].op /\ j.req = job[w].req
      /\ j.approval = stamped + 1
  BY <1>1, <1>5, BoundAssumption DEF Job, ApprovalId
<1>7. /\ pc' = [pc EXCEPT ![w] = "mark_waiting"] /\ job' = [job EXCEPT ![w] = j]
      /\ stamped' = stamped + 1
      /\ UNCHANGED <<status, approvals, checkpoints, trail, issued, clock, faults, commits, aborted>>
  BY DEF StampApproval, database, Goto
<1> HIDE DEF j
<1>2. TypeOK'
  BY <1>1, <1>6, <1>7, BoundAssumption DEF StateInv, TypeOK, Pc, ApprovalId
<1>3. JobOK'
  <2>1. pc'[w] = "mark_waiting" /\ job'[w] = j => JobAt(w)'
    BY <1>1, <1>5, <1>6, <1>7 DEF JobAt, Op
  <2> QED
    BY <2>1, <1>7, JobStep
<1>4. ApprovalsOK'
  BY DEF StateInv, ApprovalsOK, StampApproval, database
<1> QED
  BY <1>2, <1>3, <1>4 DEF StateInv

LEMMA StampAuditState ==
  ASSUME StateInv, NEW w \in Worker, StampAudit(w)
  PROVE  StateInv'
<1> DEFINE j == [job[w] EXCEPT !.at = clock + 1]
           p == IF pc[w] = "audit" THEN "insert" ELSE "insert_again"
<1>1. /\ job[w] \in Job /\ job[w].run \in Run /\ job[w].op \in Op /\ job[w].req \in 1..issued
      /\ clock \in Nat /\ pc[w] \in {"audit", "audit_again"}
      /\ pc[w] = "audit_again" => job[w].op = "request_approval"
  BY DEF StateInv, JobOK, JobAt, TypeOK, StampAudit, Again
<1>2. j \in Job /\ j.run = job[w].run /\ j.op = job[w].op /\ j.req = job[w].req
  BY <1>1 DEF Job
<1>3. /\ pc' = [pc EXCEPT ![w] = p] /\ job' = [job EXCEPT ![w] = j] /\ clock' = clock + 1
      /\ UNCHANGED <<status, approvals, checkpoints, trail, issued, stamped, faults, commits, aborted>>
  BY DEF StampAudit, database, Goto
<1>4. p \in {"insert", "insert_again"} /\ (p = "insert_again" => pc[w] = "audit_again")
  BY <1>1
<1> HIDE DEF j, p
<1>5. TypeOK'
  BY <1>1, <1>2, <1>3, <1>4 DEF StateInv, TypeOK, Pc
<1>6. JobOK'
  <2>1. pc'[w] = p /\ job'[w] = j => JobAt(w)'
    BY <1>1, <1>2, <1>3, <1>4 DEF JobAt, Again
  <2> QED
    BY <1>3, <2>1, JobStep
<1>7. ApprovalsOK'
  BY <1>3 DEF StateInv, ApprovalsOK
<1> QED
  BY <1>5, <1>6, <1>7 DEF StateInv

LEMMA MarkRunWaitingState ==
  ASSUME StateInv, NEW w \in Worker, MarkRunWaiting(w)
  PROVE  StateInv'
<1> DEFINE r == job[w].run
           c == [req |-> job[w].req, op |-> job[w].op, run |-> r, from |-> status[r],
                 beside |-> Others(w)]
<1>1. r \in Run /\ job[w].approval \in ApprovalId /\ job[w].op = "request_approval"
  BY DEF StateInv, JobOK, JobAt, MarkRunWaiting
<1>2. c \in CommitRow
  BY <1>1, OthersType DEF CommitRow, StateInv, TypeOK, Job, Op
<1>3. commits' = Append(commits, c)
  BY DEF MarkRunWaiting, Commit
<1>4. /\ status' = [status EXCEPT ![r] = "waiting_approval"]
      /\ approvals' = [approvals EXCEPT ![job[w].approval] = [run |-> r, status |-> "pending"]]
      /\ pc' = [pc EXCEPT ![w] = "audit"]
      /\ UNCHANGED <<job, checkpoints, trail, issued, stamped, clock, faults, aborted>>
  BY DEF MarkRunWaiting, Goto
<1> HIDE DEF c
<1>5. TypeOK'
  BY <1>1, <1>2, <1>3, <1>4 DEF StateInv, TypeOK, Pc, Status, RunStatus, ApprovalStatus
<1>6. JobOK'
  <2>1. pc[w] # "idle" /\ Goto(w, "audit")
    BY DEF MarkRunWaiting
  <2>2. \A a \in ApprovalId : approvals[a].status # "absent" => approvals'[a].status # "absent"
    BY <1>1, <1>4 DEF StateInv, TypeOK
  <2> QED
    BY <1>4, <2>1, <2>2, GotoJob
<1>7. ApprovalsOK'
  BY <1>1, <1>4 DEF StateInv, TypeOK, ApprovalsOK
<1> QED
  BY <1>5, <1>6, <1>7 DEF StateInv

LEMMA UpdateRunStatusState ==
  ASSUME StateInv, NEW w \in Worker, UpdateRunStatus(w)
  PROVE  StateInv'
<1> DEFINE r == job[w].run
           c == [req |-> job[w].req, op |-> job[w].op, run |-> r, from |-> status[r],
                 beside |-> Others(w)]
<1>1. r \in Run /\ job[w].op \in StatusOp
  BY DEF StateInv, JobOK, JobAt, UpdateRunStatus
<1>2. c \in CommitRow
  BY <1>1, OthersType DEF CommitRow, StateInv, TypeOK, Job, Op
<1>3. commits' = Append(commits, c)
  BY DEF UpdateRunStatus, Commit
<1>4. /\ status' = [status EXCEPT ![r] = Target(job[w].op)]
      /\ pc' = [pc EXCEPT ![w] = "checkpoint"]
      /\ UNCHANGED <<job, approvals, checkpoints, trail, issued, stamped, clock, faults, aborted>>
  BY DEF UpdateRunStatus, Goto
<1>5. Target(job[w].op) \in Status
  BY <1>1 DEF StatusOp, Target, Status, RunStatus
<1> HIDE DEF c
<1>6. TypeOK'
  BY <1>1, <1>2, <1>3, <1>4, <1>5 DEF StateInv, TypeOK, Pc
<1>7. JobOK'
  <2>1. pc[w] # "idle" /\ Goto(w, "checkpoint") /\ job[w].op \in Checkpointed
    BY <1>1 DEF UpdateRunStatus, Checkpointed
  <2> QED
    BY <1>4, <2>1, GotoJob
<1>8. ApprovalsOK'
  BY <1>4 DEF StateInv, ApprovalsOK
<1> QED
  BY <1>6, <1>7, <1>8 DEF StateInv

LEMMA WriteDecisionState ==
  ASSUME StateInv, NEW w \in Worker, WriteDecision(w)
  PROVE  StateInv'
<1> DEFINE a == job[w].approval
           c == [req |-> job[w].req, op |-> job[w].op, run |-> job[w].run,
                 from |-> approvals[a].status, beside |-> Others(w)]
<1>1. /\ job[w].run \in Run /\ a \in ApprovalId /\ job[w].op = "decide_approval"
      /\ job[w].verdict \in Verdict /\ approvals[a].status # "absent"
  BY DEF StateInv, JobOK, JobAt, WriteDecision
<1>2. c \in CommitRow
  BY <1>1, OthersType DEF CommitRow, StateInv, TypeOK, Job, Op
<1>3. commits' = Append(commits, c)
  BY DEF WriteDecision, Commit
<1>4. /\ approvals' = [approvals EXCEPT ![a].status = job[w].verdict]
      /\ pc' = [pc EXCEPT ![w] = "audit"]
      /\ UNCHANGED <<job, status, checkpoints, trail, issued, stamped, clock, faults, aborted>>
  BY DEF WriteDecision, Goto
<1> HIDE DEF c
<1>8. approvals' \in [ApprovalId -> [run : Run \cup {NoRun}, status : ApprovalStatus \cup {"absent"}]]
  BY <1>1, <1>4 DEF StateInv, TypeOK, Verdict, ApprovalStatus
<1>5. TypeOK'
  BY <1>2, <1>3, <1>4, <1>8 DEF StateInv, TypeOK, Pc
<1>6. JobOK'
  <2>1. pc[w] # "idle" /\ Goto(w, "audit")
    BY DEF WriteDecision
  <2>2. \A b \in ApprovalId : approvals[b].status # "absent" => approvals'[b].status # "absent"
    BY <1>1, <1>4 DEF StateInv, TypeOK, Verdict
  <2> QED
    BY <1>4, <2>1, <2>2, GotoJob
<1>7. ApprovalsOK'
  BY <1>1, <1>4 DEF StateInv, TypeOK, ApprovalsOK, Verdict
<1> QED
  BY <1>5, <1>6, <1>7 DEF StateInv

LEMMA AppendCheckpointState ==
  ASSUME StateInv, NEW w \in Worker, AppendCheckpoint(w)
  PROVE  StateInv'
<1>1. job[w].run \in Run /\ job[w].op \in Op /\ job[w].req \in Nat
  BY DEF StateInv, JobOK, JobAt, AppendCheckpoint, TypeOK, Job
<1>2. TypeOK'
  BY <1>1 DEF StateInv, TypeOK, AppendCheckpoint, Goto, Pc
<1>3. JobOK'
  BY GotoJob DEF AppendCheckpoint
<1>4. ApprovalsOK'
  BY DEF StateInv, ApprovalsOK, AppendCheckpoint
<1> QED
  BY <1>2, <1>3, <1>4 DEF StateInv

(* What the methods record: two events for a request for approval, one for *)
(* every other method.                                                     *)
LEMMA EventsOfType ==
  ASSUME NEW op \in Op
  PROVE  /\ EventsOf(op)[1] \in Event
         /\ DOMAIN EventsOf(op) = IF op = "request_approval" THEN 1..2 ELSE 1..1
         /\ Len(EventsOf(op)) = IF op = "request_approval" THEN 2 ELSE 1
         /\ op = "request_approval" => EventsOf(op)[2] \in Event
         /\ Len(EventsOf(op)) > 1 => op = "request_approval"
  BY DEF Op, StatusOp, EventsOf, Event

LEMMA RecordState ==
  ASSUME StateInv, NEW w \in Worker, RecordAudit(w) \/ RecordSecondAudit(w)
  PROVE  StateInv'
<1> DEFINE k == IF pc[w] = "insert" THEN 1 ELSE 2
<1>1. /\ job[w].run \in Run /\ job[w].op \in Op /\ job[w].req \in Nat /\ job[w].seen \in Status
      /\ job[w].at \in Nat
  BY DEF StateInv, JobOK, JobAt, RecordAudit, RecordSecondAudit, TypeOK, Job
<1>2. pc[w] = "insert_again" => job[w].op = "request_approval"
  BY DEF StateInv, JobOK, JobAt, Again
<1>3. Row(w, k) \in TrailRow
  BY <1>1, <1>2, EventsOfType DEF Row, TrailRow, RecordAudit, RecordSecondAudit
<1>4. trail' = Append(trail, Row(w, k))
  BY DEF RecordAudit, RecordSecondAudit
<1>5. UNCHANGED <<status, approvals, checkpoints, issued, stamped, clock, faults, commits, aborted>>
  BY DEF RecordAudit, RecordSecondAudit
<1>6. \/ Finish(w)
      \/ job[w].op = "request_approval" /\ Goto(w, "audit_again") /\ UNCHANGED job
  <2>1. Len(EventsOf(job[w].op)) > 1 => job[w].op = "request_approval"
    BY <1>1, EventsOfType
  <2> QED
    BY <2>1 DEF RecordAudit, RecordSecondAudit
<1> HIDE DEF k
<1>7. TypeOK'
  <2>1. trail' \in Seq(TrailRow)
    BY <1>3, <1>4 DEF StateInv, TypeOK
  <2>2. pc' \in [Worker -> Pc] /\ job' \in [Worker -> Job]
    BY <1>6, NoJobType DEF StateInv, TypeOK, Finish, Goto, Pc
  <2> QED
    BY <1>5, <2>1, <2>2 DEF StateInv, TypeOK
<1>8. pc[w] \in {"insert", "insert_again"}
  BY DEF RecordAudit, RecordSecondAudit
<1>9. JobOK'
  BY <1>5, <1>6, <1>8, FinishJob, GotoJob DEF Again
<1>10. ApprovalsOK'
  BY <1>5 DEF StateInv, ApprovalsOK
<1> QED
  BY <1>7, <1>9, <1>10 DEF StateInv

LEMMA FailState ==
  ASSUME StateInv, NEW w \in Worker, Fail(w)
  PROVE  StateInv'
<1>4. job[w].req \in Nat
  BY DEF StateInv, TypeOK, Job
<1>5. aborted' \subseteq Nat /\ faults' \in Nat
  <2>1. aborted \subseteq Nat /\ faults \in Nat
    BY DEF StateInv, TypeOK
  <2>2. faults' = faults + 1 /\ aborted' = aborted \cup {job[w].req}
    BY DEF Fail
  <2>3. aborted' \subseteq Nat
    BY <1>4, <2>1, <2>2
  <2> QED
    BY <2>1, <2>2, <2>3
<1>6. pc' \in [Worker -> Pc] /\ job' \in [Worker -> Job]
  BY NoJobType DEF StateInv, TypeOK, Fail, Finish, Pc
<1>1. TypeOK'
  BY <1>5, <1>6 DEF StateInv, TypeOK, Fail, database
<1>2. JobOK'
  BY FinishJob DEF Fail, database
<1>3. ApprovalsOK'
  BY DEF StateInv, ApprovalsOK, Fail, database
<1> QED
  BY <1>1, <1>2, <1>3 DEF StateInv

LEMMA CrashState == StateInv /\ Crash => StateInv'
<1> SUFFICES ASSUME StateInv, Crash PROVE StateInv'
  OBVIOUS
<1>4. \A w \in Worker : job[w].req \in Nat
  BY DEF StateInv, TypeOK, Job
<1>5. aborted' \subseteq Nat /\ faults' \in Nat
  <2>1. aborted \subseteq Nat /\ faults \in Nat
    BY DEF StateInv, TypeOK
  <2>2. faults' = faults + 1 /\ aborted' = aborted \cup {job[w].req : w \in {v \in Worker : pc[v] # "idle"}}
    BY DEF Crash
  <2>3. aborted' \subseteq Nat
    BY <1>4, <2>1, <2>2
  <2> QED
    BY <2>1, <2>2, <2>3
<1>6. pc' \in [Worker -> Pc] /\ job' \in [Worker -> Job]
  BY NoJobType DEF Crash, Pc
<1>1. TypeOK'
  BY <1>5, <1>6 DEF StateInv, TypeOK, Crash, database
<1>2. JobOK'
  BY DEF JobOK, JobAt, Crash, database
<1>3. ApprovalsOK'
  BY DEF StateInv, ApprovalsOK, Crash, database
<1> QED
  BY <1>1, <1>2, <1>3 DEF StateInv

LEMMA StateStep == StateInv /\ [Next]_vars => StateInv'
<1> SUFFICES ASSUME StateInv, [Next]_vars PROVE StateInv'
  OBVIOUS
<1>1. ASSUME NEW w \in Worker, NEW r \in Run, CreateRun(w, r) PROVE StateInv'
  BY <1>1, CreateRunState
<1>2. ASSUME NEW w \in Worker, NEW r \in Run, ResumeRun(w, r) PROVE StateInv'
  BY <1>2, ReadRunState DEF ResumeRun, StatusOp
<1>3. ASSUME NEW w \in Worker, NEW r \in Run, InterruptRun(w, r) PROVE StateInv'
  BY <1>3, ReadRunState DEF InterruptRun, StatusOp
<1>4. ASSUME NEW w \in Worker, NEW r \in Run, RetryRun(w, r) PROVE StateInv'
  BY <1>4, ReadRunState DEF RetryRun, StatusOp
<1>5. ASSUME NEW w \in Worker, NEW r \in Run, CancelRun(w, r) PROVE StateInv'
  BY <1>5, ReadRunState DEF CancelRun, StatusOp
<1>6. ASSUME NEW w \in Worker, NEW r \in Run, RequestApproval(w, r) PROVE StateInv'
  BY <1>6, ReadRunState DEF RequestApproval
<1>7. ASSUME NEW w \in Worker, NEW a \in ApprovalId, NEW v \in Verdict, DecideApproval(w, a, v)
      PROVE StateInv'
  BY <1>7, DecideApprovalState
<1>8. ASSUME NEW w \in Worker, Proceed(w) PROVE StateInv'
  BY <1>8, ChecksState, StampState, MarkRunWaitingState, UpdateRunStatusState,
     WriteDecisionState, AppendCheckpointState, StampAuditState, RecordState DEF Proceed
<1>9. ASSUME NEW w \in Worker, Fail(w) PROVE StateInv'
  BY <1>9, FailState
<1>10. CASE Crash
  BY <1>10, CrashState
<1>11. CASE UNCHANGED vars
  BY <1>11 DEF vars, StateInv, TypeOK, JobOK, JobAt, ApprovalsOK
<1> QED
  BY <1>1, <1>2, <1>3, <1>4, <1>5, <1>6, <1>7, <1>8, <1>9, <1>10, <1>11 DEF Next, Start

LEMMA StateInvariant == Spec => []StateInv
<1>1. Init => StateInv
  BY InitState
<1>2. StateInv /\ [Next]_vars => StateInv'
  BY StateStep
<1> QED
  BY <1>1, <1>2, PTL DEF Spec

(* Type correctness of the whole system: the rows, threads and counters    *)
(* of every reachable state stay within the enumerations of the code.      *)
THEOREM TypeCorrect == Spec => []TypeOK
<1>1. StateInv => TypeOK
  BY DEF StateInv
<1> QED
  BY <1>1, StateInvariant, PTL

-----------------------------------------------------------------------------
(* CanceledSettled and GateHolds.                                          *)

(* A step that starts, moves or ends the request of one worker without     *)
(* letting it past the check on r keeps r settled.                         *)
LEMMA SettledStep ==
  ASSUME StateInv, NEW w \in Worker, NEW p, NEW j, NEW r \in Run,
         pc' = [pc EXCEPT ![w] = p], job' = [job EXCEPT ![w] = j],
         status'[r] = status[r],
         \/ p \notin {"gate", "update", "list_approvals", "stamp", "mark_waiting"}
         \/ j.run # r,
         Settled(r)
  PROVE  Settled(r)'
<1>1. pc'[w] = p /\ job'[w] = j
  BY DEF StateInv, TypeOK
<1>2. ASSUME NEW v \in Worker, v # w PROVE pc'[v] = pc[v] /\ job'[v] = job[v]
  BY <1>2 DEF StateInv, TypeOK
<1>3. ASSUME NEW v \in Worker PROVE ~PastCheck(v, r)'
  <2>1. CASE v = w
    BY <1>1, <2>1 DEF PastCheck
  <2>2. CASE v # w
    BY <1>2, <2>2 DEF PastCheck, Settled
  <2> QED
    BY <2>1, <2>2
<1> QED
  BY <1>3 DEF Settled

LEMMA SettledRead ==
  ASSUME StateInv, NEW w \in Worker, NEW op \in StatusOp \cup {"request_approval"},
         NEW q \in Run, NEW next, ReadRun(w, op, q, next), NEW r \in Run, Settled(r)
  PROVE  Settled(r)'
<1>1. q # r
  BY DEF ReadRun, Refused, Settled
<1>2. status' = status
  BY DEF ReadRun, database
<1> DEFINE j == NewJob(op, q, 0, "none", IF op = "resume_run" THEN status[q] ELSE "absent")
<1>3. pc' = [pc EXCEPT ![w] = next] /\ job' = [job EXCEPT ![w] = j]
  BY DEF ReadRun, Admit
<1>4. j.run # r
  BY <1>1 DEF NewJob
<1> HIDE DEF j
<1> QED
  BY <1>2, <1>3, <1>4, SettledStep

LEMMA SettledStart ==
  ASSUME StateInv, NEW w \in Worker, Start(w), NEW r \in Run, Settled(r)
  PROVE  Settled(r)'
<1>1. ASSUME NEW q \in Run, CreateRun(w, q) PROVE Settled(r)'
  <2> DEFINE j == NewJob("create_run", q, 0, "none", "absent")
  <2>1. q # r
    BY <1>1 DEF CreateRun, InsertRun, Settled
  <2>2. status'[r] = status[r]
    BY <1>1, <2>1 DEF CreateRun, InsertRun, StateInv, TypeOK
  <2>3. pc' = [pc EXCEPT ![w] = "checkpoint"] /\ job' = [job EXCEPT ![w] = j]
    BY <1>1 DEF CreateRun, Admit
  <2> HIDE DEF j
  <2> QED
    BY <2>2, <2>3, SettledStep
<1>2. ASSUME NEW a \in ApprovalId, NEW v \in Verdict, DecideApproval(w, a, v) PROVE Settled(r)'
  <2> DEFINE j == NewJob("decide_approval", approvals[a].run, a, v, "absent")
  <2>1. status' = status
    BY <1>2 DEF DecideApproval, database
  <2>2. pc' = [pc EXCEPT ![w] = "decide"] /\ job' = [job EXCEPT ![w] = j]
    BY <1>2 DEF DecideApproval, Admit
  <2> HIDE DEF j
  <2> QED
    BY <2>1, <2>2, SettledStep
<1> QED
  BY <1>1, <1>2, SettledRead
  DEF Start, ResumeRun, InterruptRun, RetryRun, CancelRun, RequestApproval, StatusOp

(* A worker that is past the check on a run works on another run than the  *)
(* settled one; a worker that is not only moves towards its evidence.      *)
LEMMA SettledProceed ==
  ASSUME StateInv, NEW w \in Worker, Proceed(w) \/ Fail(w), NEW r \in Run, Settled(r)
  PROVE  Settled(r)'
<1> DEFINE early == {"gate", "update", "list_approvals", "stamp", "mark_waiting"}
<1>1. pc[w] \in early => job[w].run # r
  BY DEF Settled, PastCheck
<1>2. job' = [job EXCEPT ![w] = job'[w]] /\ pc' = [pc EXCEPT ![w] = pc'[w]]
  BY DEF Proceed, AssertResumeAllowed, CheckNonePending, StampApproval, MarkRunWaiting,
     UpdateRunStatus, WriteDecision, AppendCheckpoint, StampAudit, RecordAudit, RecordSecondAudit, Fail,
     Goto, Finish, StateInv, TypeOK
<1>3. \/ pc'[w] \notin early
      \/ pc[w] \in early /\ job'[w].run = job[w].run
  BY DEF Proceed, AssertResumeAllowed, CheckNonePending, StampApproval, MarkRunWaiting,
     UpdateRunStatus, WriteDecision, AppendCheckpoint, StampAudit, RecordAudit, RecordSecondAudit, Fail,
     Goto, Finish, StateInv, TypeOK, Job
<1>4. status'[r] = status[r]
  <2>1. CASE MarkRunWaiting(w) \/ UpdateRunStatus(w)
    BY <1>1, <2>1 DEF MarkRunWaiting, UpdateRunStatus, StateInv, TypeOK
  <2>2. CASE UNCHANGED status
    BY <2>2
  <2> QED
    BY <2>1, <2>2 DEF Proceed, AssertResumeAllowed, CheckNonePending, StampApproval,
       WriteDecision, AppendCheckpoint, StampAudit, RecordAudit, RecordSecondAudit, Fail, database
<1> QED
  BY <1>1, <1>2, <1>3, <1>4, SettledStep

LEMMA SettledNext ==
  StateInv /\ [Next]_vars => \A r \in Run : Settled(r) => Settled(r)'
<1> SUFFICES ASSUME StateInv, [Next]_vars, NEW r \in Run, Settled(r) PROVE Settled(r)'
  OBVIOUS
<1>1. CASE Crash
  BY <1>1 DEF Crash, database, Settled, PastCheck
<1>2. CASE UNCHANGED vars
  BY <1>2 DEF vars, Settled, PastCheck
<1> QED
  BY <1>1, <1>2, SettledStart, SettledProceed DEF Next

(* A canceled run on which no request is past its check stays canceled,    *)
(* and no later request gets past its check: Refused in every method that  *)
(* reads the run.                                                          *)
THEOREM CancellationSettles == Spec => CanceledSettled
<1>1. StateInv /\ [Next]_vars => [\A r \in Run : Settled(r) => Settled(r)']_vars
  BY SettledNext
<1> QED
  BY <1>1, StateInvariant, PTL DEF Spec, CanceledSettled

-----------------------------------------------------------------------------
(* Approval identifiers are fresh: an approval about to be inserted is     *)
(* stamped, has no row yet and belongs to one request.                     *)
FreshInv ==
  /\ \A a \in ApprovalId : approvals[a].status # "absent" => a <= stamped
  /\ \A w \in Worker : pc[w] = "mark_waiting" =>
       job[w].approval <= stamped /\ approvals[job[w].approval].status = "absent"
  /\ \A w, v \in Worker :
       pc[w] = "mark_waiting" /\ pc[v] = "mark_waiting" /\ job[w].approval = job[v].approval
       => w = v

LEMMA FreshFrame ==
  ASSUME FreshInv, UNCHANGED <<approvals, stamped>>,
         \A v \in Worker : pc'[v] = "mark_waiting" =>
           pc[v] = "mark_waiting" /\ job'[v].approval = job[v].approval
  PROVE  FreshInv'
  BY DEF FreshInv

LEMMA FreshStart ==
  ASSUME StateInv, FreshInv, NEW w \in Worker, Start(w)
  PROVE  FreshInv'
<1>1. UNCHANGED <<approvals, stamped>>
  BY DEF Start, CreateRun, ResumeRun, InterruptRun, RetryRun, CancelRun, RequestApproval,
     ReadRun, DecideApproval, database
<1>2. \E p \in {"checkpoint", "gate", "update", "list_approvals", "decide"} :
        pc' = [pc EXCEPT ![w] = p]
  BY DEF Start, CreateRun, ResumeRun, InterruptRun, RetryRun, CancelRun, RequestApproval,
     ReadRun, DecideApproval, Admit
<1>3. \E j : job' = [job EXCEPT ![w] = j]
  BY DEF Start, CreateRun, ResumeRun, InterruptRun, RetryRun, CancelRun, RequestApproval,
     ReadRun, DecideApproval, Admit
<1>4. ASSUME NEW v \in Worker, pc'[v] = "mark_waiting"
      PROVE  pc[v] = "mark_waiting" /\ job'[v].approval = job[v].approval
  BY <1>2, <1>3, <1>4 DEF StateInv, TypeOK
<1> QED
  BY <1>1, <1>4, FreshFrame

LEMMA FreshProceed ==
  ASSUME StateInv, FreshInv, NEW w \in Worker, Proceed(w) \/ Fail(w)
  PROVE  FreshInv'
<1>1. CASE StampApproval(w)
  <2>1. /\ pc' = [pc EXCEPT ![w] = "mark_waiting"] /\ stamped' = stamped + 1
        /\ approvals' = approvals /\ job' = [job EXCEPT ![w].approval = stamped + 1]
        /\ stamped \in Nat /\ stamped + 1 \in ApprovalId
    BY <1>1, BoundAssumption DEF StampApproval, Goto, database, StateInv, TypeOK, ApprovalId
  <2>2. job'[w].approval = stamped + 1 /\ pc'[w] = "mark_waiting"
    BY <2>1 DEF StateInv, TypeOK, Job
  <2>3. ASSUME NEW v \in Worker, v # w PROVE pc'[v] = pc[v] /\ job'[v] = job[v]
    BY <2>1, <2>3 DEF StateInv, TypeOK
  <2>4. approvals[stamped + 1].status = "absent"
    BY <2>1 DEF FreshInv
  <2>5. ASSUME NEW v \in Worker, pc'[v] = "mark_waiting", v # w
        PROVE  job'[v].approval \in ApprovalId /\ job'[v].approval <= stamped
    BY <2>3, <2>5 DEF FreshInv, StateInv, JobOK, JobAt
  <2>6. \A a \in ApprovalId : approvals'[a].status # "absent" => a <= stamped'
    BY <2>1 DEF FreshInv, ApprovalId
  <2>7. ASSUME NEW v \in Worker, pc'[v] = "mark_waiting"
        PROVE  job'[v].approval <= stamped' /\ approvals'[job'[v].approval].status = "absent"
    <3>1. CASE v = w
      BY <3>1, <2>1, <2>2, <2>4
    <3>2. CASE v # w
      BY <3>2, <2>1, <2>3, <2>5, <2>7 DEF FreshInv, ApprovalId
    <3> QED
      BY <3>1, <3>2
  <2>8. ASSUME NEW u \in Worker, NEW v \in Worker, pc'[u] = "mark_waiting",
               pc'[v] = "mark_waiting", job'[u].approval = job'[v].approval
        PROVE  u = v
    <3>1. CASE u # w /\ v # w
      BY <3>1, <2>3, <2>8 DEF FreshInv
    <3>2. CASE u = w /\ v # w
      BY <3>2, <2>1, <2>2, <2>5, <2>8 DEF ApprovalId
    <3>3. CASE u # w /\ v = w
      BY <3>3, <2>1, <2>2, <2>5, <2>8 DEF ApprovalId
    <3> QED
      BY <3>1, <3>2, <3>3
  <2> QED
    BY <2>6, <2>7, <2>8 DEF FreshInv
<1>2. CASE MarkRunWaiting(w)
  <2> DEFINE b == job[w].approval
  <2>1. /\ pc' = [pc EXCEPT ![w] = "audit"] /\ pc[w] = "mark_waiting"
        /\ approvals' = [approvals EXCEPT ![b] = [run |-> job[w].run, status |-> "pending"]]
        /\ UNCHANGED <<job, stamped>>
    BY <1>2 DEF MarkRunWaiting, Goto
  <2>2. b \in ApprovalId /\ b <= stamped
    BY <2>1 DEF FreshInv, StateInv, JobOK, JobAt
  <2>3. \A a \in ApprovalId : a # b => approvals'[a] = approvals[a]
    BY <2>1, <2>2 DEF StateInv, TypeOK
  <2>4. \A a \in ApprovalId : approvals'[a].status # "absent" => a <= stamped'
    BY <2>1, <2>2, <2>3 DEF FreshInv
  <2>5. ASSUME NEW v \in Worker, pc'[v] = "mark_waiting"
        PROVE  v # w /\ pc[v] = "mark_waiting" /\ job[v].approval \in ApprovalId /\ job[v].approval # b
    BY <2>1, <2>5 DEF FreshInv, StateInv, TypeOK, JobOK, JobAt
  <2> QED
    BY <2>1, <2>3, <2>4, <2>5 DEF FreshInv
<1>3. CASE WriteDecision(w)
  <2> DEFINE b == job[w].approval
  <2>1. /\ pc' = [pc EXCEPT ![w] = "audit"] /\ UNCHANGED <<job, stamped>>
        /\ approvals' = [approvals EXCEPT ![b].status = job[w].verdict]
        /\ b \in ApprovalId /\ approvals[b].status # "absent" /\ job[w].verdict \in Verdict
    BY <1>3 DEF WriteDecision, Goto, StateInv, JobOK, JobAt
  <2>2. \A a \in ApprovalId : approvals'[a].status # "absent" <=> approvals[a].status # "absent"
    BY <2>1 DEF StateInv, TypeOK, Verdict
  <2>3. ASSUME NEW v \in Worker, pc'[v] = "mark_waiting" PROVE pc[v] = "mark_waiting"
    BY <2>1, <2>3 DEF StateInv, TypeOK
  <2>4. \A v \in Worker : pc[v] = "mark_waiting" => job[v].approval \in ApprovalId
    BY DEF StateInv, JobOK, JobAt
  <2> QED
    BY <2>1, <2>2, <2>3, <2>4 DEF FreshInv
<1>4. CASE ~StampApproval(w) /\ ~MarkRunWaiting(w) /\ ~WriteDecision(w)
  <2>1. UNCHANGED <<approvals, stamped>>
    BY <1>4 DEF Proceed, AssertResumeAllowed, CheckNonePending, UpdateRunStatus,
       AppendCheckpoint, StampAudit, RecordAudit, RecordSecondAudit, Fail, database
  <2>2. \E p \in Pc : p # "mark_waiting" /\ pc' = [pc EXCEPT ![w] = p]
    BY <1>4 DEF Proceed, AssertResumeAllowed, CheckNonePending, UpdateRunStatus,
       AppendCheckpoint, StampAudit, RecordAudit, RecordSecondAudit, Fail, Goto, Finish, Pc
  <2>3. \E j : job' = [job EXCEPT ![w] = j]
    <3>1. job = [job EXCEPT ![w] = job[w]]
      BY DEF StateInv, TypeOK
    <3> QED
      BY <1>4, <3>1 DEF Proceed, AssertResumeAllowed, CheckNonePending, UpdateRunStatus,
         AppendCheckpoint, StampAudit, RecordAudit, RecordSecondAudit, Fail, Finish
  <2>4. ASSUME NEW v \in Worker, pc'[v] = "mark_waiting"
        PROVE  pc[v] = "mark_waiting" /\ job'[v].approval = job[v].approval
    BY <2>2, <2>3, <2>4 DEF StateInv, TypeOK
  <2> QED
    BY <2>1, <2>4, FreshFrame
<1> QED
  BY <1>1, <1>2, <1>3, <1>4

LEMMA FreshStep == StateInv /\ FreshInv /\ [Next]_vars => FreshInv'
<1> SUFFICES ASSUME StateInv, FreshInv, [Next]_vars PROVE FreshInv'
  OBVIOUS
<1>1. CASE Crash
  BY <1>1, FreshFrame DEF Crash, database
<1>2. CASE UNCHANGED vars
  BY <1>2, FreshFrame DEF vars
<1> QED
  BY <1>1, <1>2, FreshStart, FreshProceed DEF Next

LEMMA FreshInvariant == Spec => []FreshInv
<1>1. Init => FreshInv
  BY DEF Init, FreshInv, NoApproval
<1> QED
  BY <1>1, FreshStep, StateInvariant, PTL DEF Spec

-----------------------------------------------------------------------------
(* No resume of r is past the gate.                                        *)
NoneThrough(r) ==
  \A w \in Worker : ~(job[w].run = r /\ job[w].op = "resume_run" /\ pc[w] = "update")

(* A step that leaves the approvals alone keeps r barred unless it lets a  *)
(* resume of r through or makes r run.                                     *)
LEMMA BarredFrame ==
  ASSUME NEW r \in Run, Barred(r), approvals' = approvals, status'[r] # "running", NoneThrough(r)'
  PROVE  Barred(r)'
  BY DEF Barred, Cleared, Latest, ApprovalsOf, NoneThrough

LEMMA ThroughStep ==
  ASSUME StateInv, NEW w \in Worker, NEW p, NEW j, NEW r \in Run,
         pc' = [pc EXCEPT ![w] = p], job' = [job EXCEPT ![w] = j],
         p # "update" \/ j.run # r \/ j.op # "resume_run", NoneThrough(r)
  PROVE  NoneThrough(r)'
<1>1. pc'[w] = p /\ job'[w] = j
  BY DEF StateInv, TypeOK
<1>2. ASSUME NEW v \in Worker, v # w PROVE pc'[v] = pc[v] /\ job'[v] = job[v]
  BY <1>2 DEF StateInv, TypeOK
<1> QED
  BY <1>1, <1>2 DEF NoneThrough

LEMMA BarredStart ==
  ASSUME StateInv, NEW w \in Worker, Start(w), NEW r \in Run, Barred(r)
  PROVE  Barred(r)'
<1>1. NoneThrough(r)
  BY DEF Barred, NoneThrough
<1>2. ASSUME NEW q \in Run, CreateRun(w, q) PROVE Barred(r)'
  <2> DEFINE j == NewJob("create_run", q, 0, "none", "absent")
  <2>1. approvals' = approvals /\ status' = [status EXCEPT ![q] = "pending"]
        /\ pc' = [pc EXCEPT ![w] = "checkpoint"] /\ job' = [job EXCEPT ![w] = j]
    BY <1>2 DEF CreateRun, InsertRun, Admit, Target
  <2>2. status'[r] # "running"
    BY <2>1 DEF StateInv, TypeOK, Barred
  <2> HIDE DEF j
  <2>3. NoneThrough(r)'
    BY <1>1, <2>1, ThroughStep
  <2> QED
    BY <2>1, <2>2, <2>3, BarredFrame
<1>3. ASSUME NEW a \in ApprovalId, NEW v \in Verdict, DecideApproval(w, a, v) PROVE Barred(r)'
  <2> DEFINE j == NewJob("decide_approval", approvals[a].run, a, v, "absent")
  <2>1. approvals' = approvals /\ status' = status
        /\ pc' = [pc EXCEPT ![w] = "decide"] /\ job' = [job EXCEPT ![w] = j]
    BY <1>3 DEF DecideApproval, Admit, database
  <2> HIDE DEF j
  <2>2. NoneThrough(r)'
    BY <1>1, <2>1, ThroughStep
  <2> QED
    BY <2>1, <2>2, BarredFrame DEF Barred
<1>4. ASSUME NEW q \in Run, NEW op \in StatusOp \cup {"request_approval"},
             NEW next \in {"gate", "update", "list_approvals"},
             next = "update" => op # "resume_run", ReadRun(w, op, q, next)
      PROVE  Barred(r)'
  <2> DEFINE j == NewJob(op, q, 0, "none", IF op = "resume_run" THEN status[q] ELSE "absent")
  <2>1. approvals' = approvals /\ status' = status
        /\ pc' = [pc EXCEPT ![w] = next] /\ job' = [job EXCEPT ![w] = j]
    BY <1>4 DEF ReadRun, Admit, database
  <2>2. j.op = op
    BY DEF NewJob
  <2> HIDE DEF j
  <2>3. NoneThrough(r)'
    BY <1>1, <1>4, <2>1, <2>2, ThroughStep
  <2> QED
    BY <2>1, <2>3, BarredFrame DEF Barred
<1> QED
  BY <1>2, <1>3, <1>4
  DEF Start, ResumeRun, InterruptRun, RetryRun, CancelRun, RequestApproval, StatusOp

LEMMA BarredProceed ==
  ASSUME StateInv, FreshInv, NEW w \in Worker, Proceed(w) \/ Fail(w), NEW r \in Run, Barred(r)
  PROVE  Barred(r)' \/ NewlyApproved(r)
<1>1. NoneThrough(r)
  BY DEF Barred, NoneThrough
<1>2. job' = [job EXCEPT ![w] = job'[w]] /\ pc' = [pc EXCEPT ![w] = pc'[w]]
  BY DEF Proceed, AssertResumeAllowed, CheckNonePending, StampApproval, MarkRunWaiting,
     UpdateRunStatus, WriteDecision, AppendCheckpoint, StampAudit, RecordAudit, RecordSecondAudit, Fail,
     Goto, Finish, StateInv, TypeOK
<1>3. \/ pc'[w] # "update"
      \/ pc[w] = "gate" /\ Cleared(job[w].run) /\ job' = job
  BY DEF Proceed, AssertResumeAllowed, CheckNonePending, StampApproval, MarkRunWaiting,
     UpdateRunStatus, WriteDecision, AppendCheckpoint, StampAudit, RecordAudit, RecordSecondAudit, Fail,
     Goto, Finish, StateInv, TypeOK
<1>4. NoneThrough(r)'
  <2>1. pc'[w] # "update" \/ job'[w].run # r
    BY <1>3 DEF Barred
  <2> QED
    BY <1>1, <1>2, <2>1, ThroughStep
<1>5. CASE MarkRunWaiting(w)
  <2> DEFINE b == job[w].approval
             q == job[w].run
  <2>1. /\ approvals' = [approvals EXCEPT ![b] = [run |-> q, status |-> "pending"]]
        /\ status' = [status EXCEPT ![q] = "waiting_approval"] /\ pc[w] = "mark_waiting"
    BY <1>5 DEF MarkRunWaiting
  <2>2. b \in ApprovalId /\ q \in Run /\ approvals[b].status = "absent" /\ approvals[b].run \notin Run
    BY <2>1 DEF StateInv, JobOK, JobAt, FreshInv, ApprovalsOK
  <2>3. approvals'[b] = [run |-> q, status |-> "pending"]
        /\ \A a \in ApprovalId : a # b => approvals'[a] = approvals[a]
    BY <2>1, <2>2 DEF StateInv, TypeOK
  <2>4. b \notin ApprovalsOf(r) /\ ApprovalsOf(r) # {}
    BY <2>2 DEF ApprovalsOf, Barred, Cleared
  <2>5. ApprovalsOf(r) \subseteq ApprovalsOf(r)'
        /\ \A a \in ApprovalsOf(r)' : a # b => a \in ApprovalsOf(r)
    BY <2>3, <2>4 DEF ApprovalsOf
  <2>6. ~Cleared(r)'
    <3>1. ASSUME NEW a \in ApprovalId, Latest(r, a)', approvals'[a].status = "approved" PROVE FALSE
      <4>1. a # b
        BY <2>3, <3>1
      <4>2. Latest(r, a) /\ approvals[a].status = "approved"
        BY <2>3, <2>5, <3>1, <4>1 DEF Latest
      <4> QED
        BY <4>2 DEF Barred, Cleared
    <3> QED
      BY <2>4, <2>5, <3>1 DEF Cleared
  <2>7. status'[r] # "running"
    BY <2>1, <2>2 DEF StateInv, TypeOK, Barred
  <2> QED
    BY <1>4, <2>6, <2>7 DEF Barred, NoneThrough
<1>6. CASE WriteDecision(w)
  <2> DEFINE b == job[w].approval
             v == job[w].verdict
  <2>1. /\ approvals' = [approvals EXCEPT ![b].status = v] /\ status' = status
        /\ b \in ApprovalId /\ v \in Verdict /\ approvals[b].status # "absent"
    BY <1>6 DEF WriteDecision, StateInv, JobOK, JobAt
  <2>2. /\ approvals'[b].status = v
        /\ \A a \in ApprovalId : /\ approvals'[a].run = approvals[a].run
                                 /\ a # b => approvals'[a] = approvals[a]
    BY <2>1 DEF StateInv, TypeOK
  <2>3. ApprovalsOf(r)' = ApprovalsOf(r)
    BY <2>2 DEF ApprovalsOf
  <2>4. ASSUME ~NewlyApproved(r) PROVE ~Cleared(r)'
    <3>1. ASSUME NEW a \in ApprovalId, Latest(r, a)', approvals'[a].status = "approved" PROVE FALSE
      <4>1. Latest(r, a)
        BY <2>3, <3>1 DEF Latest
      <4>2. approvals[a].status = "approved"
        BY <2>4, <3>1, <4>1 DEF NewlyApproved, Latest
      <4> QED
        BY <4>1, <4>2 DEF Barred, Cleared
    <3> QED
      BY <2>3, <3>1 DEF Cleared, Barred
  <2> QED
    BY <1>4, <2>1, <2>4 DEF Barred, NoneThrough
<1>7. CASE UpdateRunStatus(w)
  <2>1. /\ status' = [status EXCEPT ![job[w].run] = Target(job[w].op)] /\ approvals' = approvals
        /\ pc[w] = "update" /\ job[w].op \in StatusOp /\ job[w].run \in Run
    BY <1>7 DEF UpdateRunStatus, StateInv, JobOK, JobAt
  <2>2. job[w].run = r => Target(job[w].op) # "running"
    BY <1>1, <2>1 DEF NoneThrough, StatusOp, Target
  <2>3. status'[r] # "running"
    BY <2>1, <2>2 DEF StateInv, TypeOK, Barred
  <2> QED
    BY <1>4, <2>1, <2>3, BarredFrame
<1>8. CASE UNCHANGED <<status, approvals>>
  BY <1>4, <1>8, BarredFrame DEF Barred
<1> QED
  BY <1>5, <1>6, <1>7, <1>8 DEF Proceed, AssertResumeAllowed, CheckNonePending, StampApproval,
     AppendCheckpoint, StampAudit, RecordAudit, RecordSecondAudit, Fail, database

LEMMA BarredNext ==
  StateInv /\ FreshInv /\ [Next]_vars =>
    \A r \in Run : Barred(r) => Barred(r)' \/ NewlyApproved(r)
<1> SUFFICES ASSUME StateInv, FreshInv, [Next]_vars, NEW r \in Run, Barred(r)
             PROVE  Barred(r)' \/ NewlyApproved(r)
  OBVIOUS
<1>1. CASE Crash
  BY <1>1, BarredFrame DEF Crash, database, Barred, NoneThrough
<1>2. CASE UNCHANGED vars
  BY <1>2, BarredFrame DEF vars, Barred, NoneThrough
<1> QED
  BY <1>1, <1>2, BarredStart, BarredProceed DEF Next

(* Whatever the interleaving and whatever fails, a run whose latest        *)
(* approval is pending or denied, with no resume already through the gate, *)
(* starts running again only after one of its approvals is approved.       *)
THEOREM OnlyApprovalOpensGate == Spec => GateHolds
<1>1. StateInv /\ FreshInv /\ [Next]_vars =>
        [\A r \in Run : Barred(r) => Barred(r)' \/ NewlyApproved(r)]_vars
  BY BarredNext
<1> QED
  BY <1>1, StateInvariant, FreshInvariant, PTL DEF Spec, GateHolds

-----------------------------------------------------------------------------
(* DecisionSettled and RequestSettled.                                     *)

(* The shape of every step of one worker.                                  *)
LEMMA WorkerStep ==
  ASSUME StateInv, NEW w \in Worker, Start(w) \/ Proceed(w) \/ Fail(w)
  PROVE  /\ pc' = [pc EXCEPT ![w] = pc'[w]]
         /\ job' = [job EXCEPT ![w] = job'[w]]
         /\ \A v \in Worker : v # w => pc'[v] = pc[v] /\ job'[v] = job[v]
<1>1. pc' = [pc EXCEPT ![w] = pc'[w]] /\ job' = [job EXCEPT ![w] = job'[w]]
  <2>1. CASE Start(w)
    BY <2>1 DEF Start, CreateRun, ResumeRun, InterruptRun, RetryRun, CancelRun, RequestApproval,
       ReadRun, DecideApproval, Admit, StateInv, TypeOK
  <2>2. CASE Proceed(w) \/ Fail(w)
    BY <2>2 DEF Proceed, AssertResumeAllowed, CheckNonePending, StampApproval, MarkRunWaiting,
       UpdateRunStatus, WriteDecision, AppendCheckpoint, StampAudit, RecordAudit, RecordSecondAudit, Fail,
       Goto, Finish, StateInv, TypeOK
  <2> QED
    BY <2>1, <2>2
<1> QED
  BY <1>1 DEF StateInv, TypeOK

(* What a step does to the approvals: nothing, a new row, or a decision.   *)
LEMMA ApprovalsStep ==
  ASSUME StateInv, NEW w \in Worker, Start(w) \/ Proceed(w) \/ Fail(w)
  PROVE  \/ approvals' = approvals
         \/ MarkRunWaiting(w)
         \/ WriteDecision(w)
BY DEF Start, CreateRun, ResumeRun, InterruptRun, RetryRun, CancelRun, RequestApproval,
   ReadRun, DecideApproval, Proceed, AssertResumeAllowed, CheckNonePending, StampApproval,
   UpdateRunStatus, AppendCheckpoint, StampAudit, RecordAudit, RecordSecondAudit, Fail, database

(* What a step does to the status of runs: it creates one, has one wait    *)
(* for the approval it inserts, or writes what its method writes.          *)
LEMMA StatusStep ==
  ASSUME StateInv, NEW w \in Worker, Start(w) \/ Proceed(w) \/ Fail(w)
  PROVE  \/ status' = status
         \/ \E r \in Run : CreateRun(w, r)
         \/ MarkRunWaiting(w)
         \/ UpdateRunStatus(w)
BY DEF Start, ResumeRun, InterruptRun, RetryRun, CancelRun, RequestApproval,
   ReadRun, DecideApproval, Proceed, AssertResumeAllowed, CheckNonePending, StampApproval,
   WriteDecision, AppendCheckpoint, StampAudit, RecordAudit, RecordSecondAudit, Fail, database

(* The row inserted is new, and the others stay.                           *)
LEMMA InsertedRow ==
  ASSUME StateInv, FreshInv, NEW w \in Worker, MarkRunWaiting(w)
  PROVE  LET b == job[w].approval IN
         /\ b \in ApprovalId /\ pc[w] = "mark_waiting" /\ job[w].run \in Run
         /\ approvals[b].status = "absent" /\ approvals[b].run \notin Run
         /\ approvals'[b] = [run |-> job[w].run, status |-> "pending"]
         /\ \A a \in ApprovalId : a # b => approvals'[a] = approvals[a]
BY DEF MarkRunWaiting, StateInv, TypeOK, JobOK, JobAt, FreshInv, ApprovalsOK

(* A decision changes the status of the row it was asked for.              *)
LEMMA DecidedRow ==
  ASSUME StateInv, NEW w \in Worker, WriteDecision(w)
  PROVE  LET b == job[w].approval IN
         /\ b \in ApprovalId /\ pc[w] = "decide"
         /\ approvals'[b].status \in Verdict
         /\ \A a \in ApprovalId : /\ approvals'[a].run = approvals[a].run
                                  /\ a # b => approvals'[a] = approvals[a]
BY DEF WriteDecision, StateInv, TypeOK, JobOK, JobAt

LEMMA DecidedNext ==
  ASSUME StateInv, FreshInv, [Next]_vars, NEW a \in ApprovalId, Decided(a)
  PROVE  Decided(a)' /\ UNCHANGED approvals[a]
<1>1. CASE Crash
  BY <1>1 DEF Crash, database, Decided
<1>2. CASE UNCHANGED vars
  BY <1>2 DEF vars, Decided
<1>3. ASSUME NEW w \in Worker, Start(w) \/ Proceed(w) \/ Fail(w)
      PROVE  Decided(a)' /\ UNCHANGED approvals[a]
  <2>1. ~(pc'[w] = "decide" /\ job'[w].approval = a)
    <3>1. CASE Start(w)
      <4>1. ASSUME NEW b \in ApprovalId, NEW v \in Verdict, DecideApproval(w, b, v)
            PROVE  job'[w].approval # a
        BY <4>1 DEF DecideApproval, Admit, NewJob, Decided, Verdict, StateInv, TypeOK
      <4>2. CASE \A b \in ApprovalId, v \in Verdict : ~DecideApproval(w, b, v)
        BY <3>1, <4>2 DEF Start, CreateRun, ResumeRun, InterruptRun, RetryRun, CancelRun,
           RequestApproval, ReadRun, Admit, StateInv, TypeOK
      <4> QED
        BY <4>1, <4>2
    <3>2. CASE Proceed(w) \/ Fail(w)
      BY <3>2 DEF Proceed, AssertResumeAllowed, CheckNonePending, StampApproval, MarkRunWaiting,
         UpdateRunStatus, WriteDecision, AppendCheckpoint, StampAudit, RecordAudit, RecordSecondAudit, Fail,
         Goto, Finish, StateInv, TypeOK
    <3> QED
      BY <1>3, <3>1, <3>2
  <2>2. approvals'[a] = approvals[a]
    <3>1. CASE MarkRunWaiting(w)
      BY <3>1, InsertedRow DEF Decided, Verdict
    <3>2. CASE WriteDecision(w)
      BY <3>2, DecidedRow DEF Decided
    <3> QED
      BY <1>3, <3>1, <3>2, ApprovalsStep
  <2> QED
    BY <1>3, <2>1, <2>2, WorkerStep DEF Decided
<1> QED
  BY <1>1, <1>2, <1>3 DEF Next

(* A decision that no other decision of the same approval has crossed, or  *)
(* that was written after them all, is never changed again.                *)
THEOREM DecisionsStand == Spec => DecisionSettled
<1>1. StateInv /\ FreshInv /\ [Next]_vars =>
        [\A a \in ApprovalId : Decided(a) => Decided(a)' /\ UNCHANGED approvals[a]]_vars
  BY DecidedNext
<1> QED
  BY <1>1, StateInvariant, FreshInvariant, PTL DEF Spec, DecisionSettled

-----------------------------------------------------------------------------
(* A step that leaves the rows of r and their statuses alone, and lets no  *)
(* request for approval of r past its check, keeps r asked.                *)
LEMMA AskedFrame ==
  ASSUME StateInv, NEW r \in Run, Asked(r), NEW w \in Worker,
         \A v \in Worker : v # w => pc'[v] = pc[v] /\ job'[v] = job[v],
         job'[w].run # r \/ pc'[w] \notin {"stamp", "mark_waiting"},
         ApprovalsOf(r)' = ApprovalsOf(r), HasPending(r)'
  PROVE  Asked(r)'
BY DEF Asked

LEMMA PendingFrame ==
  ASSUME NEW r \in Run, HasPending(r), ApprovalsOf(r)' = ApprovalsOf(r),
         \A a \in ApprovalsOf(r) : approvals'[a].status = approvals[a].status
  PROVE  HasPending(r)'
BY DEF HasPending, Latest

(* Past the check for r there is only a request that found none pending.   *)
LEMMA AskedThrough ==
  ASSUME StateInv, NEW r \in Run, Asked(r), NEW w \in Worker, Start(w) \/ Proceed(w) \/ Fail(w)
  PROVE  job'[w].run # r \/ pc'[w] \notin {"stamp", "mark_waiting"}
<1>1. CASE Start(w)
  BY <1>1 DEF Start, CreateRun, ResumeRun, InterruptRun, RetryRun, CancelRun, RequestApproval,
     ReadRun, DecideApproval, Admit, StateInv, TypeOK
<1>2. CASE CheckNonePending(w)
  BY <1>2 DEF CheckNonePending, Asked, Finish, Goto, StateInv, TypeOK
<1>3. CASE StampApproval(w)
  BY <1>3 DEF StampApproval, Asked, Goto, StateInv, TypeOK, Job
<1>4. CASE Proceed(w) /\ ~CheckNonePending(w) /\ ~StampApproval(w)
  BY <1>4 DEF Proceed, AssertResumeAllowed, MarkRunWaiting, UpdateRunStatus, WriteDecision,
     AppendCheckpoint, StampAudit, RecordAudit, RecordSecondAudit, Goto, Finish, StateInv, TypeOK
<1>5. CASE Fail(w)
  BY <1>5 DEF Fail, Finish, StateInv, TypeOK
<1> QED
  BY <1>1, <1>2, <1>3, <1>4, <1>5

LEMMA AskedNext ==
  ASSUME StateInv, FreshInv, [Next]_vars, NEW r \in Run, Asked(r)
  PROVE  UNCHANGED ApprovalsOf(r) /\ (Asked(r)' \/ Answered(r))
<1>1. CASE Crash
  BY <1>1 DEF Crash, database, Asked, HasPending, Latest, ApprovalsOf
<1>2. CASE UNCHANGED vars
  BY <1>2 DEF vars, Asked, HasPending, Latest, ApprovalsOf
<1>3. ASSUME NEW w \in Worker, Start(w) \/ Proceed(w) \/ Fail(w)
      PROVE  UNCHANGED ApprovalsOf(r) /\ (Asked(r)' \/ Answered(r))
  <2>1. \A v \in Worker : v # w => pc'[v] = pc[v] /\ job'[v] = job[v]
    BY <1>3, WorkerStep
  <2>2. job'[w].run # r \/ pc'[w] \notin {"stamp", "mark_waiting"}
    BY <1>3, AskedThrough
  <2>3. HasPending(r)
    BY DEF Asked
  <2>4. CASE approvals' = approvals
    <3>1. ApprovalsOf(r)' = ApprovalsOf(r)
      BY <2>4 DEF ApprovalsOf
    <3> QED
      BY <2>1, <2>2, <2>3, <2>4, <3>1, PendingFrame, AskedFrame
  <2>5. CASE MarkRunWaiting(w)
    <3>1. job[w].run # r
      BY <2>5 DEF MarkRunWaiting, Asked
    <3>2. ApprovalsOf(r)' = ApprovalsOf(r)
          /\ \A a \in ApprovalsOf(r) : approvals'[a] = approvals[a]
      <4> DEFINE b == job[w].approval
      <4>1. /\ b \in ApprovalId /\ approvals[b].run # r /\ approvals'[b].run # r
            /\ \A a \in ApprovalId : a # b => approvals'[a] = approvals[a]
        <5>1. /\ b \in ApprovalId /\ approvals[b].run \notin Run
              /\ approvals'[b] = [run |-> job[w].run, status |-> "pending"]
              /\ \A a \in ApprovalId : a # b => approvals'[a] = approvals[a]
          BY <2>5, InsertedRow
        <5> QED
          BY <3>1, <5>1
      <4> HIDE DEF b
      <4> QED
        BY <4>1 DEF ApprovalsOf
    <3> QED
      BY <2>1, <2>2, <2>3, <3>2, PendingFrame, AskedFrame
  <2>6. CASE WriteDecision(w)
    <3> DEFINE b == job[w].approval
    <3>1. ApprovalsOf(r)' = ApprovalsOf(r)
      BY <2>6, DecidedRow DEF ApprovalsOf
    <3>2. PICK a \in ApprovalId : Latest(r, a) /\ approvals[a].status = "pending"
      BY <2>3 DEF HasPending
    <3>3. CASE a = b
      <4>1. approvals'[a].status \in Verdict /\ a \in ApprovalsOf(r) /\ Latest(r, a)
        BY <2>6, <3>2, <3>3, DecidedRow DEF Latest
      <4> QED
        BY <3>1, <4>1 DEF Answered
    <3>4. CASE a # b
      <4>1. Latest(r, a)' /\ approvals'[a].status = "pending"
        BY <2>6, <3>1, <3>2, <3>4, DecidedRow DEF Latest
      <4>2. HasPending(r)'
        BY <4>1 DEF HasPending
      <4> QED
        BY <2>1, <2>2, <3>1, <4>2, AskedFrame
    <3> QED
      BY <3>3, <3>4
  <2> QED
    BY <1>3, <2>4, <2>5, <2>6, ApprovalsStep
<1> QED
  BY <1>1, <1>2, <1>3 DEF Next

(* While a run waits for a decision, and no request for approval is past   *)
(* its check, none is added: requests pile up only while they cross.       *)
THEOREM RequestsWait == Spec => RequestSettled
<1>1. StateInv /\ FreshInv /\ [Next]_vars =>
        [\A r \in Run : Asked(r) => UNCHANGED ApprovalsOf(r) /\ (Asked(r)' \/ Answered(r))]_vars
  BY AskedNext
<1> QED
  BY <1>1, StateInvariant, FreshInvariant, PTL DEF Spec, RequestSettled

-----------------------------------------------------------------------------
(* The feed.  The mapped variables.                                        *)
Changes == {<<commits[k].run, commits[k].req>> : k \in DOMAIN commits}
Rows == {<<trail[i].run, trail[i].req>> : i \in DOMAIN trail}
Abandoned == Run \X aborted

Before == {"gate", "update", "list_approvals", "stamp", "mark_waiting", "decide"}

(* A request has changed its run once it is past its commit, and not       *)
(* before; it has no row until it records one; it is not cut short.        *)
FeedAt(w) ==
  /\ job[w].req \notin aborted
  /\ \A q \in Run : pc[w] \in Before => <<q, job[w].req>> \notin Changes
  /\ pc[w] \notin Before => <<job[w].run, job[w].req>> \in Changes
  /\ \A q \in Run : pc[w] \notin Again => <<q, job[w].req>> \notin Rows
  /\ pc[w] \in Again => <<job[w].run, job[w].req>> \in Rows

(* Requests are numbered as they are admitted, one number to a worker.     *)
FeedInv ==
  /\ issued \in 0..MaxRequests
  /\ aborted \subseteq 1..issued
  /\ \A q \in Run, n \in Nat : <<q, n>> \in Changes \cup Rows => n \in 1..issued
  /\ \A v, w \in Worker : pc[v] # "idle" /\ pc[w] # "idle" /\ job[v].req = job[w].req => v = w
  /\ \A w \in Worker : pc[w] # "idle" => FeedAt(w)

LEMMA CommitAdds ==
  ASSUME StateInv, NEW c \in CommitRow, commits' = Append(commits, c)
  PROVE  Changes' = Changes \cup {<<c.run, c.req>>}
<1>1. /\ Len(commits) \in Nat
      /\ DOMAIN commits = 1..Len(commits)
      /\ DOMAIN commits' = 1..(Len(commits) + 1)
      /\ \A k \in DOMAIN commits : commits'[k] = commits[k]
      /\ commits'[Len(commits) + 1] = c
  BY DEF StateInv, TypeOK
<1> QED
  BY <1>1 DEF Changes

LEMMA RowAdds ==
  ASSUME StateInv, NEW t \in TrailRow, trail' = Append(trail, t)
  PROVE  Rows' = Rows \cup {<<t.run, t.req>>}
<1>1. /\ Len(trail) \in Nat
      /\ DOMAIN trail = 1..Len(trail)
      /\ DOMAIN trail' = 1..(Len(trail) + 1)
      /\ \A k \in DOMAIN trail : trail'[k] = trail[k]
      /\ trail'[Len(trail) + 1] = t
  BY DEF StateInv, TypeOK
<1> QED
  BY <1>1 DEF Rows

(* A step of worker w, whose request has number n, adds nothing to the     *)
(* feed but under that number.                                             *)
LEMMA FeedStep ==
  ASSUME StateInv, FeedInv, NEW w \in Worker, NEW n \in Nat, Start(w) \/ Proceed(w) \/ Fail(w),
         \/ issued' = issued /\ pc[w] # "idle" /\ n = job[w].req
         \/ issued' = issued + 1 /\ issued < MaxRequests /\ n = issued + 1,
         pc'[w] # "idle" => job'[w].req = n /\ FeedAt(w)',
         aborted' \subseteq aborted \cup {n},
         \A q \in Run, m \in Nat : <<q, m>> \in Changes' => <<q, m>> \in Changes \/ m = n,
         \A q \in Run, m \in Nat : <<q, m>> \in Rows' => <<q, m>> \in Rows \/ m = n,
         Changes \subseteq Changes', Rows \subseteq Rows'
  PROVE  FeedInv'
<1>1. /\ issued \in Nat /\ issued' \in 0..MaxRequests /\ issued <= issued'
      /\ n \in 1..issued' /\ \A m \in 1..issued : m \in 1..issued'
  <2>1. pc[w] # "idle" => job[w].req \in 1..issued
    BY DEF StateInv, JobOK, JobAt
  <2> QED
    BY <2>1, BoundAssumption DEF FeedInv
<1>2. ASSUME NEW v \in Worker, v # w, pc[v] # "idle"
      PROVE  job[v].req # n /\ job[v].run \in Run /\ job[v].req \in Nat
  BY <1>1, <1>2 DEF FeedInv, StateInv, JobOK, JobAt
<1>3. \A v \in Worker : v # w => pc'[v] = pc[v] /\ job'[v] = job[v]
  BY WorkerStep
<1>4. ASSUME NEW v \in Worker, v # w, pc'[v] # "idle" PROVE FeedAt(v)'
  <2>1. FeedAt(v) /\ pc[v] # "idle" /\ pc'[v] = pc[v] /\ job'[v] = job[v]
    BY <1>3, <1>4 DEF FeedInv
  <2>2. job[v].req # n /\ job[v].run \in Run /\ job[v].req \in Nat
    BY <1>2, <1>4, <2>1
  <2>3. job[v].req \notin aborted'
    BY <2>1, <2>2 DEF FeedAt
  <2>4. \A q \in Run : /\ <<q, job[v].req>> \in Changes' <=> <<q, job[v].req>> \in Changes
                       /\ <<q, job[v].req>> \in Rows' <=> <<q, job[v].req>> \in Rows
    BY <2>2
  <2> QED
    BY <2>1, <2>2, <2>3, <2>4 DEF FeedAt
<1>5. aborted' \subseteq 1..issued'
  BY <1>1 DEF FeedInv
<1>6. \A q \in Run, m \in Nat : <<q, m>> \in Changes' \cup Rows' => m \in 1..issued'
  BY <1>1 DEF FeedInv
<1>7. ASSUME NEW u \in Worker, NEW v \in Worker, pc'[u] # "idle", pc'[v] # "idle",
             job'[u].req = job'[v].req
      PROVE  u = v
  BY <1>2, <1>3, <1>7 DEF FeedInv
<1>8. \A v \in Worker : pc'[v] # "idle" => FeedAt(v)'
  BY <1>4
<1> QED
  BY <1>1, <1>5, <1>6, <1>7, <1>8 DEF FeedInv

-----------------------------------------------------------------------------
(* The steps of the feed, in terms of the mapped variables.                *)
FeedMakes(c) == /\ c \in Run \X (1..MaxRequests)
                /\ c \notin Changes \cup Abandoned
                /\ Changes' = Changes \cup {c}
                /\ Rows' = Rows /\ Abandoned' = Abandoned
FeedRecords(c) == /\ c \in Run \X (1..MaxRequests)
                  /\ c \in Changes \ (Rows \cup Abandoned)
                  /\ Rows' = Rows \cup {c}
                  /\ Changes' = Changes /\ Abandoned' = Abandoned
FeedAbandons(C) == /\ C \subseteq Run \X (1..MaxRequests)
                   /\ Abandoned' = Abandoned \cup C
                   /\ Changes' = Changes /\ Rows' = Rows
FeedStutters == Changes' = Changes /\ Rows' = Rows /\ Abandoned' = Abandoned

LEMMA FeedMaps ==
  ASSUME \/ \E c : FeedMakes(c) \/ FeedRecords(c)
         \/ \E C : FeedAbandons(C)
         \/ FeedStutters
  PROVE  [Feed!Next]_(Feed!vars)
<1>1. ASSUME NEW c, FeedMakes(c) PROVE Feed!Next
  BY <1>1 DEF FeedMakes, Feed!Next, Feed!Make, Changes, Rows, Abandoned
<1>2. ASSUME NEW c, FeedRecords(c) PROVE Feed!Next
  BY <1>2 DEF FeedRecords, Feed!Next, Feed!Record, Changes, Rows, Abandoned
<1>3. ASSUME NEW C, FeedAbandons(C) PROVE Feed!Next
  BY <1>3 DEF FeedAbandons, Feed!Next, Feed!Abandon, Changes, Rows, Abandoned
<1>4. CASE FeedStutters
  BY <1>4 DEF FeedStutters, Feed!vars, Changes, Rows, Abandoned
<1> QED
  BY <1>1, <1>2, <1>3, <1>4

LEMMA SameFeed ==
  /\ UNCHANGED commits => Changes' = Changes
  /\ UNCHANGED trail => Rows' = Rows
  /\ UNCHANGED aborted => Abandoned' = Abandoned
BY DEF Changes, Rows, Abandoned

-----------------------------------------------------------------------------
(* A request that only reads has changed nothing yet.                      *)
LEMMA FeedRead ==
  ASSUME StateInv, FeedInv, NEW w \in Worker, Start(w), pc'[w] \in Before,
         job'[w].req = issued + 1, issued < MaxRequests, issued' = issued + 1,
         UNCHANGED <<commits, trail, aborted>>
  PROVE  FeedInv' /\ FeedStutters
<1>1. FeedStutters
  BY SameFeed DEF FeedStutters
<1>2. issued + 1 \in Nat /\ issued + 1 \notin 1..issued
  BY DEF FeedInv
<1>3. FeedAt(w)'
  BY <1>1, <1>2 DEF FeedAt, FeedInv, FeedStutters, Before, Again
<1> QED
  BY <1>1, <1>2, <1>3, FeedStep DEF FeedStutters

LEMMA FeedStart ==
  ASSUME StateInv, FeedInv, NEW w \in Worker, Start(w)
  PROVE  FeedInv' /\ [Feed!Next]_(Feed!vars)
<1>1. ASSUME NEW r \in Run, CreateRun(w, r) PROVE FeedInv' /\ \E c : FeedMakes(c)
  <2> DEFINE n == issued + 1
             c == [req |-> n, op |-> "create_run", run |-> r, from |-> "absent",
                   beside |-> Others(w)]
  <2>1. /\ pc'[w] = "checkpoint" /\ job'[w].req = n /\ job'[w].run = r /\ job'[w].op = "create_run"
        /\ issued' = n /\ issued < MaxRequests /\ UNCHANGED <<trail, aborted>>
    BY <1>1 DEF CreateRun, Admit, NewJob, StateInv, TypeOK
  <2>2. c \in CommitRow /\ commits' = Append(commits, c)
    BY <1>1, <2>1, OthersType DEF CreateRun, Commit, CommitRow, Op, StateInv, TypeOK, Status
  <2>3. Changes' = Changes \cup {<<r, n>>}
    BY <2>2, CommitAdds
  <2>4. Rows' = Rows /\ Abandoned' = Abandoned
    BY <2>1, SameFeed
  <2>5. n \in 1..MaxRequests /\ n \in Nat /\ n \notin 1..issued
    BY <2>1, BoundAssumption DEF FeedInv
  <2>6. FeedAt(w)'
    BY <2>1, <2>3, <2>4, <2>5 DEF FeedAt, FeedInv, Before, Again
  <2>7. \A q \in Run, m \in Nat : <<q, m>> \in Changes' => <<q, m>> \in Changes \/ m = n
    BY <2>3
  <2>8. FeedInv'
    BY <1>1, <2>1, <2>3, <2>4, <2>5, <2>6, <2>7, FeedStep DEF Start
  <2>9. <<r, n>> \notin Changes \cup Abandoned
    BY <2>5 DEF FeedInv, Abandoned
  <2>10. FeedMakes(<<r, n>>)
    BY <2>3, <2>4, <2>5, <2>9 DEF FeedMakes
  <2> QED
    BY <2>8, <2>10
<1>2. CASE \A r \in Run : ~CreateRun(w, r)
  <2>1. /\ pc'[w] \in Before /\ job'[w].req = issued + 1
        /\ issued < MaxRequests /\ issued' = issued + 1 /\ UNCHANGED <<commits, trail, aborted>>
    BY <1>2 DEF Start, ResumeRun, InterruptRun, RetryRun, CancelRun, RequestApproval, ReadRun,
       DecideApproval, Admit, NewJob, Before, database, StateInv, TypeOK
  <2> QED
    BY <2>1, FeedRead, FeedMaps
<1> QED
  BY <1>1, <1>2, FeedMaps

-----------------------------------------------------------------------------
(* The steps of a worker that leave the feed alone.                        *)
LEMMA FeedQuiet ==
  ASSUME StateInv, FeedInv, NEW w \in Worker, Proceed(w), pc[w] # "idle",
         UNCHANGED <<issued, commits, trail, aborted>>,
         pc'[w] # "idle" => job'[w].req = job[w].req /\ job'[w].run = job[w].run,
         \/ pc[w] \in Before /\ pc'[w] \in Before \cup {"idle"}
         \/ pc[w] = "checkpoint" /\ pc'[w] = "audit"
         \/ pc[w] = "audit" /\ pc'[w] = "insert"
         \/ pc[w] = "audit_again" /\ pc'[w] = "insert_again"
  PROVE  FeedInv' /\ FeedStutters
<1>1. FeedStutters
  BY SameFeed DEF FeedStutters
<1>2. FeedAt(w) /\ job[w].req \in Nat
  BY DEF FeedInv, StateInv, JobOK, JobAt
<1>3. pc'[w] # "idle" => FeedAt(w)'
  BY <1>1, <1>2 DEF FeedAt, FeedStutters, Before, Again
<1>4. /\ issued' = issued /\ aborted' = aborted /\ pc[w] # "idle"
      /\ Changes' = Changes /\ Rows' = Rows
      /\ pc'[w] # "idle" => job'[w].req = job[w].req
  BY <1>1 DEF FeedStutters
<1>5. FeedInv'
  <2> DEFINE n == job[w].req
  <2>1. n \in Nat
    BY <1>2
  <2>2. /\ pc'[w] # "idle" => job'[w].req = n /\ FeedAt(w)'
        /\ issued' = issued /\ pc[w] # "idle" /\ n = job[w].req
        /\ aborted' \subseteq aborted \cup {n}
    BY <1>3, <1>4
  <2> HIDE DEF n
  <2> QED
    BY <1>4, <2>1, <2>2, FeedStep
<1> QED
  BY <1>1, <1>5

(* The three commits.                                                      *)
LEMMA FeedCommit ==
  ASSUME StateInv, FeedInv, NEW w \in Worker,
         UpdateRunStatus(w) \/ MarkRunWaiting(w) \/ WriteDecision(w)
  PROVE  FeedInv' /\ \E c : FeedMakes(c)
<1> DEFINE n == job[w].req
           r == job[w].run
<1>1. /\ pc[w] \in Before /\ pc'[w] \in {"checkpoint", "audit"} /\ job' = job
      /\ UNCHANGED <<issued, trail, aborted>>
  BY DEF UpdateRunStatus, MarkRunWaiting, WriteDecision, Goto, Before, StateInv, TypeOK
<1>2. r \in Run /\ n \in 1..issued /\ n \in Nat /\ n \in 1..MaxRequests /\ job[w].op \in Op
  BY <1>1, BoundAssumption DEF StateInv, JobOK, JobAt, FeedInv, Before
<1>3. Changes' = Changes \cup {<<r, n>>}
  <2>1. \E f \in Status \cup ApprovalStatus :
          commits' = Append(commits, [req |-> n, op |-> job[w].op, run |-> r, from |-> f,
                                      beside |-> Others(w)])
    <3>1. \A q \in Run : status[q] \in Status
      BY DEF StateInv, TypeOK
    <3>2. CASE WriteDecision(w)
      <4>1. approvals[job[w].approval].status \in ApprovalStatus
        BY <3>2 DEF WriteDecision, StateInv, TypeOK, JobOK, JobAt
      <4> QED
        BY <3>2, <4>1, <1>1 DEF WriteDecision, Commit
    <3>3. CASE UpdateRunStatus(w) \/ MarkRunWaiting(w)
      BY <3>1, <3>3, <1>1, <1>2 DEF UpdateRunStatus, MarkRunWaiting, Commit
    <3> QED
      BY <3>2, <3>3
  <2>2. PICK f \in Status \cup ApprovalStatus :
          commits' = Append(commits, [req |-> n, op |-> job[w].op, run |-> r, from |-> f,
                                      beside |-> Others(w)])
    BY <2>1
  <2>3. [req |-> n, op |-> job[w].op, run |-> r, from |-> f, beside |-> Others(w)] \in CommitRow
    BY <1>2, OthersType DEF CommitRow
  <2> QED
    BY <2>2, <2>3, CommitAdds
<1>4. Rows' = Rows /\ Abandoned' = Abandoned
  BY <1>1, SameFeed
<1>5. FeedAt(w) /\ pc[w] # "idle"
  BY <1>1 DEF FeedInv, Before
<1>6. FeedAt(w)'
  BY <1>1, <1>2, <1>3, <1>4, <1>5 DEF FeedAt, Before, Again
<1>7. \A q \in Run, m \in Nat : <<q, m>> \in Changes' => <<q, m>> \in Changes \/ m = n
  BY <1>3
<1>8. FeedInv'
  BY <1>1, <1>2, <1>3, <1>4, <1>5, <1>6, <1>7, FeedStep DEF Proceed
<1>9. <<r, n>> \notin Changes \cup Abandoned
  BY <1>1, <1>2, <1>5 DEF FeedAt, Abandoned
<1>10. FeedMakes(<<r, n>>)
  BY <1>2, <1>3, <1>4, <1>9 DEF FeedMakes
<1> QED
  BY <1>8, <1>10

(* The first row of a request is new to the feed, the second is not.       *)
LEMMA FeedRow ==
  ASSUME StateInv, FeedInv, NEW w \in Worker, RecordAudit(w) \/ RecordSecondAudit(w)
  PROVE  FeedInv' /\ (FeedStutters \/ \E c : FeedRecords(c))
<1> DEFINE n == job[w].req
           r == job[w].run
           k == IF pc[w] = "insert" THEN 1 ELSE 2
<1>1. /\ pc[w] \in {"insert", "insert_again"} /\ pc[w] \notin Before
      /\ UNCHANGED <<issued, commits, aborted>>
      /\ trail' = Append(trail, Row(w, k))
  BY DEF RecordAudit, RecordSecondAudit, Before
<1>2. /\ r \in Run /\ n \in 1..issued /\ n \in Nat /\ n \in 1..MaxRequests
      /\ job[w].op \in Op /\ job[w].seen \in Status /\ job[w].at \in Nat
      /\ pc[w] = "insert_again" => job[w].op = "request_approval"
  BY <1>1, BoundAssumption DEF StateInv, JobOK, JobAt, FeedInv, TypeOK, Job, Again
<1>3. Row(w, k) \in TrailRow /\ Row(w, k).run = r /\ Row(w, k).req = n
  BY <1>1, <1>2, EventsOfType DEF Row, TrailRow
<1>4. Rows' = Rows \cup {<<r, n>>}
  <2> HIDE DEF k, n, r
  <2> QED
    BY <1>1, <1>3, RowAdds
<1>5. Changes' = Changes /\ Abandoned' = Abandoned
  BY <1>1, SameFeed
<1>6. FeedAt(w)
  BY <1>1 DEF FeedInv
<1>7. pc'[w] = "idle" \/ (pc'[w] = "audit_again" /\ job'[w] = job[w])
  BY DEF RecordAudit, RecordSecondAudit, Finish, Goto, StateInv, TypeOK
<1>8. pc'[w] # "idle" => job'[w].req = n /\ FeedAt(w)'
  BY <1>1, <1>2, <1>4, <1>5, <1>6, <1>7 DEF FeedAt, Before, Again
<1>9. \A q \in Run, m \in Nat : <<q, m>> \in Rows' => <<q, m>> \in Rows \/ m = n
  BY <1>4
<1>10. FeedInv'
  BY <1>1, <1>2, <1>4, <1>5, <1>8, <1>9, FeedStep DEF Proceed
<1>11. CASE pc[w] = "insert"
  <2>1. <<r, n>> \in Changes \ (Rows \cup Abandoned)
    BY <1>1, <1>2, <1>6, <1>11 DEF FeedAt, Abandoned, Again
  <2>2. FeedRecords(<<r, n>>)
    BY <1>2, <1>4, <1>5, <2>1 DEF FeedRecords
  <2> QED
    BY <1>10, <2>2
<1>12. CASE pc[w] = "insert_again"
  BY <1>4, <1>5, <1>6, <1>10, <1>12 DEF FeedAt, FeedStutters, Again
<1> QED
  BY <1>1, <1>11, <1>12

LEMMA FeedFail ==
  ASSUME StateInv, FeedInv, NEW w \in Worker, Fail(w)
  PROVE  FeedInv' /\ \E C : FeedAbandons(C)
<1> DEFINE n == job[w].req
<1>1. /\ pc[w] # "idle" /\ pc'[w] = "idle" /\ aborted' = aborted \cup {n}
      /\ UNCHANGED <<issued, commits, trail>>
  BY DEF Fail, Finish, database, StateInv, TypeOK
<1>2. n \in Nat /\ n \in 1..MaxRequests
  BY <1>1, BoundAssumption DEF StateInv, JobOK, JobAt, FeedInv
<1>3. Changes' = Changes /\ Rows' = Rows
  BY <1>1, SameFeed
<1>4. FeedInv'
  BY <1>1, <1>2, <1>3, FeedStep
<1>5. Abandoned' = Abandoned \cup (Run \X {n})
  BY <1>1 DEF Abandoned
<1>6. FeedAbandons(Run \X {n})
  BY <1>2, <1>3, <1>5 DEF FeedAbandons
<1> QED
  BY <1>4, <1>6

LEMMA FeedCrash ==
  ASSUME StateInv, FeedInv, Crash
  PROVE  FeedInv' /\ \E C : FeedAbandons(C)
<1> DEFINE D == {job[v].req : v \in {u \in Worker : pc[u] # "idle"}}
<1>1. /\ aborted' = aborted \cup D /\ UNCHANGED <<issued, commits, trail>>
      /\ \A v \in Worker : pc'[v] = "idle"
  BY DEF Crash, database
<1>2. D \subseteq 1..issued
  BY DEF StateInv, JobOK, JobAt
<1> HIDE DEF D
<1>3. D \subseteq 1..MaxRequests
  BY <1>2, BoundAssumption DEF FeedInv
<1>4. Changes' = Changes /\ Rows' = Rows
  BY <1>1, SameFeed
<1>5. FeedInv'
  BY <1>1, <1>2, <1>4 DEF FeedInv
<1>6. Abandoned' = Abandoned \cup (Run \X D)
  BY <1>1 DEF Abandoned
<1>7. FeedAbandons(Run \X D)
  BY <1>3, <1>4, <1>6 DEF FeedAbandons
<1> QED
  BY <1>5, <1>7

LEMMA FeedNext ==
  ASSUME StateInv, FeedInv, [Next]_vars
  PROVE  FeedInv' /\ [Feed!Next]_(Feed!vars)
<1>1. ASSUME NEW w \in Worker, Proceed(w) PROVE FeedInv' /\ [Feed!Next]_(Feed!vars)
  <2>1. CASE UpdateRunStatus(w) \/ MarkRunWaiting(w) \/ WriteDecision(w)
    BY <2>1, FeedCommit, FeedMaps
  <2>2. CASE RecordAudit(w) \/ RecordSecondAudit(w)
    BY <2>2, FeedRow, FeedMaps
  <2>3. CASE \/ AssertResumeAllowed(w) \/ CheckNonePending(w) \/ StampApproval(w)
             \/ AppendCheckpoint(w) \/ StampAudit(w)
    <3>1. /\ pc[w] # "idle" /\ UNCHANGED <<issued, commits, trail, aborted>>
          /\ pc'[w] # "idle" => job'[w].req = job[w].req /\ job'[w].run = job[w].run
          /\ \/ pc[w] \in Before /\ pc'[w] \in Before \cup {"idle"}
             \/ pc[w] = "checkpoint" /\ pc'[w] = "audit"
             \/ pc[w] = "audit" /\ pc'[w] = "insert"
             \/ pc[w] = "audit_again" /\ pc'[w] = "insert_again"
      BY <2>3 DEF AssertResumeAllowed, CheckNonePending, StampApproval, AppendCheckpoint, StampAudit,
         Goto, Finish, Before, database, StateInv, TypeOK, Job
    <3> QED
      BY <1>1, <3>1, FeedQuiet, FeedMaps
  <2> QED
    BY <1>1, <2>1, <2>2, <2>3 DEF Proceed
<1>2. ASSUME NEW w \in Worker, Start(w) PROVE FeedInv' /\ [Feed!Next]_(Feed!vars)
  BY <1>2, FeedStart
<1>3. ASSUME NEW w \in Worker, Fail(w) PROVE FeedInv' /\ [Feed!Next]_(Feed!vars)
  BY <1>3, FeedFail, FeedMaps
<1>4. CASE Crash
  BY <1>4, FeedCrash, FeedMaps
<1>5. CASE UNCHANGED vars
  <2>1. FeedStutters
    BY <1>5, SameFeed DEF vars, FeedStutters
  <2>2. FeedInv'
    BY <1>5, <2>1 DEF vars, FeedStutters, FeedInv, FeedAt
  <2> QED
    BY <2>1, <2>2, FeedMaps
<1> QED
  BY <1>1, <1>2, <1>3, <1>4, <1>5 DEF Next

LEMMA FeedInit == Init => FeedInv /\ Feed!Init
<1> SUFFICES ASSUME Init PROVE FeedInv /\ Feed!Init
  OBVIOUS
<1>1. Changes = {} /\ Rows = {} /\ Abandoned = {}
  BY DEF Init, Changes, Rows, Abandoned
<1>2. FeedInv
  BY <1>1, BoundAssumption DEF Init, FeedInv
<1> QED
  BY <1>1, <1>2 DEF Feed!Init, Changes, Rows, Abandoned

(* Whatever the interleaving and whatever fails, those who follow the runs *)
(* see a feed: every row tells of one change that was made before it, once *)
(* for each request, and never for a request that was cut short earlier.   *)
THEOREM RunsAreAFeed == Spec => ImplementsRunFeed
<1>1. Init => FeedInv /\ Feed!Init
  BY FeedInit
<1>2. StateInv /\ FeedInv /\ [Next]_vars => FeedInv' /\ [Feed!Next]_(Feed!vars)
  BY FeedNext
<1> QED
  BY <1>1, <1>2, StateInvariant, PTL DEF Spec, ImplementsRunFeed, Feed!Spec

-----------------------------------------------------------------------------
Made(c) == \E k \in DOMAIN commits : commits[k] = c
Kept(t) == \E i \in DOMAIN trail : trail[i] = t

(* Row t was recorded by the request that made c.                          *)
Backs(c, t) ==
  /\ Made(c) /\ c.req = t.req /\ c.run = t.run
  /\ \E n \in DOMAIN EventsOf(c.op) : EventsOf(c.op)[n] = t.event
  /\ c.op \in Checkpointed => HasCheckpoint(c)

Backed == \A t \in TrailRow : Kept(t) => \E c \in CommitRow : Backs(c, t)

Accounted ==
  \A c \in CommitRow : Made(c) =>
    \/ Evidenced(c)
    \/ c.req \in aborted
    \/ \E w \in Worker : job[w].req = c.req

(* What the request of a worker has left behind so far: a change from its  *)
(* commit on, and no other; the checkpoint before the first row; and only  *)
(* its first row before the second.                                        *)
EvidenceAt(w) ==
  /\ \A c \in CommitRow : Made(c) /\ c.req = job[w].req =>
       c.run = job[w].run /\ c.op = job[w].op /\ pc[w] \notin Before
  /\ pc[w] \notin Before => \E c \in CommitRow : Made(c) /\ c.req = job[w].req
  /\ pc[w] \in First /\ job[w].op \in Checkpointed =>
       \E p \in checkpoints : p.req = job[w].req /\ p.run = job[w].run /\ p.type = job[w].op
  /\ \A t \in TrailRow : Kept(t) /\ t.req = job[w].req =>
       pc[w] \in Again /\ t.event = "run.waiting_approval"
  /\ pc[w] \in Again =>
       \E t \in TrailRow : Kept(t) /\ t.req = job[w].req /\ t.event = "run.waiting_approval"

(* A request records an event once, and its second event after its first.  *)
RowsOnce ==
  \A i \in DOMAIN trail :
    /\ trail[i].event = "approval.requested" =>
         \E j \in DOMAIN trail : trail[j].req = trail[i].req /\ trail[j].event = "run.waiting_approval"
    /\ \A j \in DOMAIN trail : trail[i].req = trail[j].req /\ trail[i].event = trail[j].event => i = j

EvidenceInv ==
  /\ Backed
  /\ RowsOnce
  /\ Accounted
  /\ \A w \in Worker : pc[w] # "idle" => EvidenceAt(w)

(* The three invariants, said of rows instead of places.                   *)
LEMMA EvidenceMeans ==
  ASSUME StateInv
  PROVE  (Backed <=> TrailBacked) /\ (Accounted <=> GapAccounted)
<1>1. /\ \A k \in DOMAIN commits : commits[k] \in CommitRow
      /\ \A i \in DOMAIN trail : trail[i] \in TrailRow
  BY DEF StateInv, TypeOK
<1>2. Accounted <=> GapAccounted
  BY <1>1 DEF Accounted, GapAccounted, Made
<1>3. Backed <=> TrailBacked
  <2>1. ASSUME NEW t \in TrailRow, NEW k \in DOMAIN commits
        PROVE  Backs(commits[k], t) <=>
                 /\ commits[k].req = t.req
                 /\ commits[k].run = t.run
                 /\ \E n \in DOMAIN EventsOf(commits[k].op) : EventsOf(commits[k].op)[n] = t.event
                 /\ commits[k].op \in Checkpointed => HasCheckpoint(commits[k])
    BY DEF Backs, Made
  <2>2. \A t \in TrailRow : (\E c \in CommitRow : Backs(c, t))
                         <=> (\E k \in DOMAIN commits : Backs(commits[k], t))
    BY <1>1 DEF Backs, Made
  <2>3. TrailBacked <=> \A i \in DOMAIN trail : \E k \in DOMAIN commits : Backs(commits[k], trail[i])
    BY <1>1, <2>1 DEF TrailBacked
  <2>4. Backed <=> \A i \in DOMAIN trail : \E k \in DOMAIN commits : Backs(commits[k], trail[i])
    BY <1>1, <2>2 DEF Backed, Kept
  <2> QED
    BY <2>3, <2>4
<1> QED
  BY <1>2, <1>3

LEMMA MadeAdds ==
  ASSUME StateInv, NEW d \in CommitRow, commits' = Append(commits, d)
  PROVE  \A c \in CommitRow : Made(c)' <=> Made(c) \/ c = d
<1>1. /\ Len(commits) \in Nat
      /\ DOMAIN commits = 1..Len(commits)
      /\ DOMAIN commits' = 1..(Len(commits) + 1)
      /\ \A k \in DOMAIN commits : commits'[k] = commits[k]
      /\ commits'[Len(commits) + 1] = d
  BY DEF StateInv, TypeOK
<1> QED
  BY <1>1 DEF Made

LEMMA KeptAdds ==
  ASSUME StateInv, NEW u \in TrailRow, trail' = Append(trail, u)
  PROVE  \A t \in TrailRow : Kept(t)' <=> Kept(t) \/ t = u
<1>1. /\ Len(trail) \in Nat
      /\ DOMAIN trail = 1..Len(trail)
      /\ DOMAIN trail' = 1..(Len(trail) + 1)
      /\ \A k \in DOMAIN trail : trail'[k] = trail[k]
      /\ trail'[Len(trail) + 1] = u
  BY DEF StateInv, TypeOK
<1> QED
  BY <1>1 DEF Kept

LEMMA MadeNumbers ==
  ASSUME FeedInv, NEW c \in CommitRow, Made(c)
  PROVE  c.req \in 1..issued
<1>1. c.run \in Run /\ c.req \in Nat /\ <<c.run, c.req>> \in Changes
  BY DEF CommitRow, Changes, Made
<1> QED
  BY <1>1 DEF FeedInv

(* Evidence is never taken back.                                           *)
LEMMA EvidencedGrows ==
  ASSUME StateInv, NEW c \in CommitRow, Evidenced(c),
         trail' = trail \/ \E u \in TrailRow : trail' = Append(trail, u),
         checkpoints \subseteq checkpoints'
  PROVE  Evidenced(c)'
<1>1. /\ DOMAIN trail \subseteq DOMAIN trail'
      /\ \A i \in DOMAIN trail : trail'[i] = trail[i]
  <2>1. ASSUME NEW u \in TrailRow, trail' = Append(trail, u)
        PROVE  /\ Len(trail) \in Nat
               /\ DOMAIN trail = 1..Len(trail)
               /\ DOMAIN trail' = 1..(Len(trail) + 1)
               /\ \A i \in DOMAIN trail : trail'[i] = trail[i]
    BY <2>1 DEF StateInv, TypeOK
  <2> QED
    BY <2>1
<1> QED
  BY <1>1 DEF Evidenced, HasCheckpoint

(* A row of an event its request has not recorded keeps that so, if it     *)
(* comes after the one it has to follow.                                   *)
LEMMA OnceAdds ==
  ASSUME StateInv, RowsOnce, NEW u \in TrailRow, trail' = Append(trail, u),
         \A t \in TrailRow : Kept(t) /\ t.req = u.req => t.event # u.event,
         u.event = "approval.requested" =>
           \E t \in TrailRow : Kept(t) /\ t.req = u.req /\ t.event = "run.waiting_approval"
  PROVE  RowsOnce'
<1> DEFINE n == Len(trail) + 1
<1>1. /\ n \in Nat \ {0}
      /\ DOMAIN trail = 1..(n - 1)
      /\ DOMAIN trail' = 1..n
      /\ \A k \in 1..(n - 1) : trail'[k] = trail[k] /\ trail[k] \in TrailRow
      /\ trail'[n] = u
  BY DEF StateInv, TypeOK
<1> HIDE DEF n
<1>2. ASSUME NEW i \in 1..n, NEW j \in 1..n,
             trail'[i].req = trail'[j].req, trail'[i].event = trail'[j].event
      PROVE  i = j
  <2>1. \A k \in 1..(n - 1) : trail[k].req = u.req => trail[k].event # u.event
    BY <1>1 DEF Kept
  <2> QED
    BY <1>1, <1>2, <2>1 DEF RowsOnce
<1>3. ASSUME NEW i \in 1..n, trail'[i].event = "approval.requested"
      PROVE  \E j \in 1..n : /\ trail'[j].req = trail'[i].req
                            /\ trail'[j].event = "run.waiting_approval"
  <2>1. CASE i = n
    <3>1. PICK k \in 1..(n - 1) : trail[k].req = u.req /\ trail[k].event = "run.waiting_approval"
      BY <1>1, <1>3, <2>1 DEF Kept
    <3> QED
      BY <1>1, <2>1, <3>1
  <2>2. CASE i \in 1..(n - 1)
    <3>1. PICK j \in 1..(n - 1) : /\ trail[j].req = trail[i].req
                                  /\ trail[j].event = "run.waiting_approval"
      BY <1>1, <1>3, <2>2 DEF RowsOnce
    <3> QED
      BY <1>1, <2>2, <3>1
  <2> QED
    BY <1>1, <2>1, <2>2
<1> QED
  BY <1>1, <1>2, <1>3 DEF RowsOnce

LEMMA OnceSame ==
  ASSUME RowsOnce, UNCHANGED trail
  PROVE  RowsOnce'
BY DEF RowsOnce

-----------------------------------------------------------------------------
(* A step of worker w, whose request has number n, leaves everything of    *)
(* other numbers as it was.                                                *)
LEMMA EvidenceStep ==
  ASSUME StateInv, FeedInv, EvidenceInv, NEW w \in Worker, NEW n \in Nat,
         Start(w) \/ Proceed(w) \/ Fail(w),
         \/ pc[w] # "idle" /\ n = job[w].req
         \/ pc[w] = "idle" /\ n = issued + 1,
         trail' = trail \/ \E u \in TrailRow : trail' = Append(trail, u),
         checkpoints \subseteq checkpoints', aborted \subseteq aborted',
         \A c \in CommitRow : Made(c) => Made(c)',
         \A c \in CommitRow : Made(c)' => Made(c) \/ c.req = n,
         \A t \in TrailRow : Kept(t) => Kept(t)',
         \A t \in TrailRow : Kept(t)' => Kept(t) \/ (t.req = n /\ \E c \in CommitRow : Backs(c, t)'),
         RowsOnce',
         pc'[w] # "idle" => job'[w].req = n /\ EvidenceAt(w)',
         pc'[w] = "idle" => \/ n \in aborted'
                            \/ \A c \in CommitRow : Made(c)' /\ c.req = n => Evidenced(c)'
  PROVE  EvidenceInv'
<1>1. ASSUME NEW v \in Worker, v # w, pc[v] # "idle"
      PROVE  job[v].req # n /\ job[v].req \in Nat
  BY <1>1 DEF FeedInv, StateInv, JobOK, JobAt
<1>2. \A v \in Worker : v # w => pc'[v] = pc[v] /\ job'[v] = job[v]
  BY WorkerStep
<1>3. ASSUME NEW v \in Worker, pc'[v] # "idle" PROVE EvidenceAt(v)'
  <2>1. CASE v # w
    <3>1. EvidenceAt(v) /\ pc[v] # "idle" /\ pc'[v] = pc[v] /\ job'[v] = job[v]
      BY <1>2, <1>3, <2>1 DEF EvidenceInv
    <3>2. job[v].req # n
      BY <1>1, <2>1, <3>1
    <3> QED
      BY <3>1, <3>2 DEF EvidenceAt, First, Again
  <2> QED
    BY <1>3, <2>1
<1>4. Backed'
  <2>1. ASSUME NEW t \in TrailRow, NEW c \in CommitRow, Backs(c, t) PROVE Backs(c, t)'
    BY <2>1 DEF Backs, HasCheckpoint
  <2> QED
    BY <2>1 DEF EvidenceInv, Backed
<1>5. Accounted'
  <2> SUFFICES ASSUME NEW c \in CommitRow, Made(c)'
               PROVE  \/ Evidenced(c)'
                      \/ c.req \in aborted'
                      \/ \E v \in Worker : job'[v].req = c.req
    BY DEF Accounted
  <2>1. CASE c.req = n
    BY <2>1
  <2>2. CASE c.req # n
    <3>1. Made(c)
      BY <2>2
    <3>2. c.req \in 1..issued /\ issued \in Nat
      BY <3>1, MadeNumbers DEF FeedInv
    <3>3. CASE Evidenced(c)
      BY <3>3, EvidencedGrows
    <3>4. CASE c.req \in aborted
      BY <3>4
    <3>5. CASE \E v \in Worker : job[v].req = c.req
      <4>1. PICK v \in Worker : job[v].req = c.req
        BY <3>5
      <4>2. pc[v] # "idle"
        BY <3>2, <4>1 DEF StateInv, JobOK, JobAt, NoJob
      <4>3. v # w
        BY <2>2, <4>1, <4>2
      <4> QED
        BY <1>2, <4>1, <4>3
    <3> QED
      BY <3>1, <3>3, <3>4, <3>5 DEF EvidenceInv, Accounted
  <2> QED
    BY <2>1, <2>2
<1> QED
  BY <1>3, <1>4, <1>5 DEF EvidenceInv

-----------------------------------------------------------------------------
LEMMA SameEvidence ==
  /\ UNCHANGED commits => \A c : Made(c)' <=> Made(c)
  /\ UNCHANGED trail => \A t : Kept(t)' <=> Kept(t)
BY DEF Made, Kept

(* A request that is new has left nothing behind.                          *)
LEMMA NothingYet ==
  ASSUME StateInv, FeedInv
  PROVE  /\ \A c \in CommitRow : Made(c) => c.req # issued + 1
         /\ \A t \in TrailRow : Kept(t) => t.req # issued + 1
<1>1. ASSUME NEW c \in CommitRow, Made(c) PROVE c.req \in 1..issued
  BY <1>1, MadeNumbers
<1>2. ASSUME NEW t \in TrailRow, Kept(t) PROVE t.req \in 1..issued
  <2>1. t.run \in Run /\ t.req \in Nat /\ <<t.run, t.req>> \in Rows
    BY <1>2 DEF TrailRow, Rows, Kept
  <2> QED
    BY <2>1 DEF FeedInv
<1> QED
  BY <1>1, <1>2 DEF FeedInv

LEMMA EvidenceStart ==
  ASSUME StateInv, FeedInv, EvidenceInv, NEW w \in Worker, Start(w)
  PROVE  EvidenceInv'
<1> DEFINE n == issued + 1
<1>1. /\ pc[w] = "idle" /\ job'[w].req = n /\ n \in Nat
      /\ UNCHANGED <<trail, checkpoints, aborted>>
  BY DEF Start, CreateRun, ResumeRun, InterruptRun, RetryRun, CancelRun, RequestApproval,
     ReadRun, DecideApproval, Admit, NewJob, database, StateInv, TypeOK
<1>2. /\ \A t \in TrailRow : Kept(t)' <=> Kept(t)
      /\ RowsOnce'
  BY <1>1, SameEvidence, OnceSame DEF EvidenceInv
<1>3. CASE \A r \in Run : ~CreateRun(w, r)
  <2>1. pc'[w] \in Before /\ UNCHANGED commits
    BY <1>3 DEF Start, ResumeRun, InterruptRun, RetryRun, CancelRun, RequestApproval, ReadRun,
       DecideApproval, Admit, Before, StateInv, TypeOK
  <2>2. \A c \in CommitRow : Made(c)' <=> Made(c)
    BY <2>1, SameEvidence
  <2>3. EvidenceAt(w)'
    BY <1>1, <1>2, <2>1, <2>2, NothingYet DEF EvidenceAt, First, Again, Before
  <2> HIDE DEF n
  <2>4. pc'[w] # "idle"
    BY <2>1 DEF Before
  <2> QED
    BY <1>1, <1>2, <2>2, <2>3, <2>4, EvidenceStep DEF n
<1>4. ASSUME NEW r \in Run, CreateRun(w, r) PROVE EvidenceInv'
  <2> DEFINE d == [req |-> n, op |-> "create_run", run |-> r, from |-> "absent",
                   beside |-> Others(w)]
  <2>1. /\ pc'[w] = "checkpoint" /\ job'[w].run = r /\ job'[w].op = "create_run"
    BY <1>4 DEF CreateRun, Admit, NewJob, StateInv, TypeOK
  <2>2. d \in CommitRow /\ commits' = Append(commits, d)
    BY <1>1, <1>4, <2>1, OthersType DEF CreateRun, Commit, CommitRow, Op, StateInv, TypeOK, Status
  <2>3. \A c \in CommitRow : Made(c)' <=> Made(c) \/ c = d
    BY <2>2, MadeAdds
  <2>4. d.req = n /\ d.run = r /\ d.op = "create_run"
    OBVIOUS
  <2> HIDE DEF d
  <2>5. EvidenceAt(w)'
    BY <1>1, <1>2, <2>1, <2>2, <2>3, <2>4, NothingYet DEF EvidenceAt, First, Again, Before
  <2> QED
    BY <1>1, <1>2, <2>1, <2>3, <2>4, <2>5, EvidenceStep
<1> QED
  BY <1>3, <1>4

(* The steps that commit nothing and record nothing.                       *)
LEMMA EvidenceQuiet ==
  ASSUME StateInv, FeedInv, EvidenceInv, NEW w \in Worker, Proceed(w) \/ Fail(w), pc[w] # "idle",
         UNCHANGED <<commits, trail>>,
         checkpoints \subseteq checkpoints', aborted \subseteq aborted',
         pc'[w] # "idle" => job'[w].req = job[w].req /\ EvidenceAt(w)',
         pc'[w] = "idle" => job[w].req \in aborted' \/ pc[w] \in Before
  PROVE  EvidenceInv'
<1> DEFINE n == job[w].req
<1>1. n \in Nat /\ EvidenceAt(w)
  BY DEF StateInv, JobOK, JobAt, EvidenceInv
<1>2. /\ \A c \in CommitRow : Made(c)' <=> Made(c)
      /\ \A t \in TrailRow : Kept(t)' <=> Kept(t)
      /\ RowsOnce'
  BY SameEvidence, OnceSame DEF EvidenceInv
<1>3. pc[w] \in Before => \A c \in CommitRow : Made(c) => c.req # n
  BY <1>1 DEF EvidenceAt, First, Again
<1>4. pc'[w] = "idle" => \/ n \in aborted'
                         \/ \A c \in CommitRow : Made(c)' /\ c.req = n => Evidenced(c)'
  BY <1>2, <1>3
<1>5. pc[w] # "idle" /\ n = job[w].req
  OBVIOUS
<1>6. pc'[w] # "idle" => job'[w].req = n /\ EvidenceAt(w)'
  OBVIOUS
<1> HIDE DEF n
<1> QED
  BY <1>1, <1>2, <1>4, <1>5, <1>6, EvidenceStep

LEMMA EvidenceOther ==
  ASSUME StateInv, FeedInv, EvidenceInv, NEW w \in Worker,
         \/ AssertResumeAllowed(w) \/ CheckNonePending(w) \/ StampApproval(w)
         \/ AppendCheckpoint(w) \/ StampAudit(w)
  PROVE  EvidenceInv'
<1>1. /\ pc[w] # "idle" /\ UNCHANGED <<commits, trail, aborted>>
      /\ pc'[w] # "idle" => /\ job'[w].req = job[w].req
                            /\ job'[w].run = job[w].run
                            /\ job'[w].op = job[w].op
      /\ \/ /\ pc[w] \in Before /\ pc'[w] \in Before \cup {"idle"} /\ checkpoints' = checkpoints
         \/ /\ pc[w] = "checkpoint" /\ pc'[w] = "audit"
            /\ checkpoints' = checkpoints \cup
                 {[req |-> job[w].req, run |-> job[w].run, type |-> job[w].op]}
         \/ /\ pc[w] = "audit" /\ pc'[w] = "insert" /\ checkpoints' = checkpoints
         \/ /\ pc[w] = "audit_again" /\ pc'[w] = "insert_again" /\ checkpoints' = checkpoints
  BY DEF AssertResumeAllowed, CheckNonePending, StampApproval, AppendCheckpoint, StampAudit,
     Goto, Finish, Before, database, StateInv, TypeOK, Job
<1>2. EvidenceAt(w)
  BY <1>1 DEF EvidenceInv
<1>3. /\ \A c \in CommitRow : Made(c)' <=> Made(c)
      /\ \A t \in TrailRow : Kept(t)' <=> Kept(t)
  BY <1>1, SameEvidence
<1>4. ASSUME pc'[w] # "idle" PROVE EvidenceAt(w)'
  <2>1. CASE pc[w] = "checkpoint"
    <3> DEFINE p == [req |-> job[w].req, run |-> job[w].run, type |-> job[w].op]
    <3>1. p \in checkpoints' /\ p.req = job[w].req /\ p.run = job[w].run /\ p.type = job[w].op
      BY <1>1, <2>1 DEF Before
    <3> HIDE DEF p
    <3> QED
      BY <1>1, <1>2, <1>3, <1>4, <2>1, <3>1 DEF EvidenceAt, First, Again, Before
  <2>2. CASE pc[w] # "checkpoint"
    BY <1>1, <1>2, <1>3, <1>4, <2>2 DEF EvidenceAt, First, Again, Before
  <2> QED
    BY <2>1, <2>2
<1>5. /\ checkpoints \subseteq checkpoints' /\ aborted \subseteq aborted'
      /\ pc'[w] # "idle" => job'[w].req = job[w].req
      /\ pc'[w] = "idle" => pc[w] \in Before
  BY <1>1
<1> QED
  BY <1>1, <1>4, <1>5, EvidenceQuiet DEF Proceed

LEMMA EvidenceFail ==
  ASSUME StateInv, FeedInv, EvidenceInv, NEW w \in Worker, Fail(w)
  PROVE  EvidenceInv'
<1>1. /\ pc[w] # "idle" /\ pc'[w] = "idle" /\ aborted' = aborted \cup {job[w].req}
      /\ UNCHANGED <<commits, trail, checkpoints>>
  BY DEF Fail, Finish, database, StateInv, TypeOK
<1> QED
  BY <1>1, EvidenceQuiet

(* The three commits.                                                      *)
LEMMA EvidenceCommit ==
  ASSUME StateInv, FeedInv, EvidenceInv, NEW w \in Worker,
         UpdateRunStatus(w) \/ MarkRunWaiting(w) \/ WriteDecision(w)
  PROVE  EvidenceInv'
<1> DEFINE n == job[w].req
<1>1. /\ pc[w] \in Before /\ job' = job /\ UNCHANGED <<trail, checkpoints, aborted>>
      /\ \/ pc'[w] = "checkpoint"
         \/ pc'[w] = "audit" /\ job[w].op \notin Checkpointed
  BY DEF UpdateRunStatus, MarkRunWaiting, WriteDecision, Goto, Before, StateInv, TypeOK,
     JobOK, JobAt, Checkpointed, StatusOp
<1>2. job[w].run \in Run /\ n \in Nat /\ job[w].op \in Op /\ pc[w] # "idle"
  BY <1>1 DEF StateInv, JobOK, JobAt, Before
<1>3. PICK d \in CommitRow : /\ commits' = Append(commits, d)
                             /\ d.req = n /\ d.run = job[w].run /\ d.op = job[w].op
  <2>1. CASE WriteDecision(w)
    <3>1. approvals[job[w].approval].status \in ApprovalStatus
      BY <2>1 DEF WriteDecision, StateInv, TypeOK, JobOK, JobAt
    <3> DEFINE d == [req |-> n, op |-> job[w].op, run |-> job[w].run,
                     from |-> approvals[job[w].approval].status, beside |-> Others(w)]
    <3>2. d \in CommitRow
      BY <1>2, <3>1, OthersType DEF CommitRow
    <3> QED
      BY <1>1, <2>1, <3>2 DEF WriteDecision, Commit
  <2>2. CASE UpdateRunStatus(w) \/ MarkRunWaiting(w)
    <3> DEFINE d == [req |-> n, op |-> job[w].op, run |-> job[w].run, from |-> status[job[w].run],
                     beside |-> Others(w)]
    <3>1. d \in CommitRow
      BY <1>2, OthersType DEF CommitRow, StateInv, TypeOK
    <3> QED
      BY <1>1, <2>2, <3>1 DEF UpdateRunStatus, MarkRunWaiting, Commit
  <2> QED
    BY <2>1, <2>2
<1>4. \A c \in CommitRow : Made(c)' <=> Made(c) \/ c = d
  BY <1>3, MadeAdds
<1>5. /\ \A t \in TrailRow : Kept(t)' <=> Kept(t)
      /\ RowsOnce'
  BY <1>1, SameEvidence, OnceSame DEF EvidenceInv
<1>6. EvidenceAt(w)
  BY <1>2 DEF EvidenceInv
<1>7. EvidenceAt(w)'
  BY <1>1, <1>3, <1>4, <1>5, <1>6 DEF EvidenceAt, First, Again, Before
<1>8. Proceed(w) /\ job'[w].req = n /\ pc'[w] # "idle" /\ pc[w] # "idle" /\ n = job[w].req
  BY <1>1, <1>2 DEF Proceed
<1> HIDE DEF n
<1> QED
  BY <1>1, <1>2, <1>3, <1>4, <1>5, <1>7, <1>8, EvidenceStep

-----------------------------------------------------------------------------
(* The row a worker adds is backed by its change.                          *)
LEMMA RowBacked ==
  ASSUME StateInv, EvidenceInv, NEW w \in Worker, NEW k \in {1, 2},
         (RecordAudit(w) /\ k = 1) \/ (RecordSecondAudit(w) /\ k = 2)
  PROVE  /\ Row(w, k) \in TrailRow
         /\ Row(w, k).req = job[w].req
         /\ Row(w, k).event = EventsOf(job[w].op)[k]
         /\ trail' = Append(trail, Row(w, k))
         /\ \E c \in CommitRow : Backs(c, Row(w, k))
         /\ UNCHANGED <<commits, checkpoints, aborted>>
<1>1. /\ pc[w] \in {"insert", "insert_again"} /\ pc[w] \notin Before /\ pc[w] # "idle"
      /\ trail' = Append(trail, Row(w, k)) /\ UNCHANGED <<commits, checkpoints, aborted>>
      /\ k = 2 => pc[w] = "insert_again"
      /\ k = 1 => pc[w] = "insert"
  BY DEF RecordAudit, RecordSecondAudit, Before
<1>2. /\ job[w].run \in Run /\ job[w].req \in Nat /\ job[w].op \in Op /\ job[w].seen \in Status
      /\ job[w].at \in Nat
      /\ pc[w] = "insert_again" => job[w].op = "request_approval"
  BY <1>1 DEF StateInv, JobOK, JobAt, TypeOK, Job, Again
<1>3. k \in DOMAIN EventsOf(job[w].op) /\ EventsOf(job[w].op)[k] \in Event
  BY <1>1, <1>2, EventsOfType
<1>4. /\ Row(w, k) \in TrailRow
      /\ Row(w, k).req = job[w].req /\ Row(w, k).run = job[w].run
      /\ Row(w, k).event = EventsOf(job[w].op)[k]
  BY <1>2, <1>3 DEF Row, TrailRow
<1>5. EvidenceAt(w)
  BY <1>1 DEF EvidenceInv
<1>6. PICK c \in CommitRow : Made(c) /\ c.req = job[w].req
  BY <1>1, <1>5 DEF EvidenceAt, First, Again
<1>7. c.run = job[w].run /\ c.op = job[w].op
  BY <1>5, <1>6 DEF EvidenceAt, First, Again
<1>8. c.op \in Checkpointed => HasCheckpoint(c)
  BY <1>1, <1>2, <1>5, <1>6, <1>7 DEF EvidenceAt, First, Again, HasCheckpoint, Checkpointed, StatusOp
<1>9. Backs(c, Row(w, k))
  BY <1>3, <1>4, <1>6, <1>7, <1>8 DEF Backs
<1> QED
  BY <1>1, <1>4, <1>9

(* Afterwards the row is there, and everything else as before.             *)
LEMMA RowKept ==
  ASSUME StateInv, EvidenceInv, NEW w \in Worker, NEW k \in {1, 2},
         (RecordAudit(w) /\ k = 1) \/ (RecordSecondAudit(w) /\ k = 2)
  PROVE  /\ \A t \in TrailRow : Kept(t)' <=> Kept(t) \/ t = Row(w, k)
         /\ \A c \in CommitRow : Made(c)' <=> Made(c)
         /\ \A t \in TrailRow : t = Row(w, k) => \E c \in CommitRow : Backs(c, t)'
<1> DEFINE u == Row(w, k)
<1>1. /\ u \in TrailRow /\ trail' = Append(trail, u)
      /\ \E c \in CommitRow : Backs(c, u)
      /\ UNCHANGED <<commits, checkpoints, aborted>>
  BY RowBacked
<1> HIDE DEF u
<1>2. \A t \in TrailRow : Kept(t)' <=> Kept(t) \/ t = u
  BY <1>1, KeptAdds
<1>3. \A c \in CommitRow : Made(c)' <=> Made(c)
  BY <1>1, SameEvidence
<1>4. \A t \in TrailRow : t = u => \E c \in CommitRow : Backs(c, t)'
  <2>1. ASSUME NEW t \in TrailRow, NEW c \in CommitRow, Backs(c, t) PROVE Backs(c, t)'
    BY <1>1, <1>3, <2>1 DEF Backs, HasCheckpoint
  <2> QED
    BY <1>1, <2>1
<1> QED
  BY <1>2, <1>3, <1>4 DEF u

(* A request that has recorded all its events leaves its change evidenced. *)
LEMMA EvidenceRow ==
  ASSUME StateInv, FeedInv, EvidenceInv, NEW w \in Worker,
         RecordAudit(w) \/ RecordSecondAudit(w)
  PROVE  EvidenceInv'
<1> DEFINE n == job[w].req
           k == IF pc[w] = "insert" THEN 1 ELSE 2
           u == Row(w, k)
<1>1. /\ pc[w] \in {"insert", "insert_again"} /\ k \in {1, 2} /\ pc[w] # "idle"
      /\ (RecordAudit(w) /\ k = 1) \/ (RecordSecondAudit(w) /\ k = 2)
  BY DEF RecordAudit, RecordSecondAudit
<1>2. /\ n \in Nat /\ job[w].op \in Op /\ EvidenceAt(w)
      /\ pc[w] = "insert_again" => job[w].op = "request_approval"
  BY <1>1 DEF StateInv, JobOK, JobAt, EvidenceInv, Again
<1>3. /\ u \in TrailRow /\ u.req = n /\ u.event = EventsOf(job[w].op)[k]
      /\ trail' = Append(trail, u)
      /\ UNCHANGED <<commits, checkpoints, aborted>>
  BY <1>1, RowBacked
<1>4. /\ \A t \in TrailRow : Kept(t)' <=> Kept(t) \/ t = u
      /\ \A c \in CommitRow : Made(c)' <=> Made(c)
      /\ \A t \in TrailRow : t = u => \E c \in CommitRow : Backs(c, t)'
  BY <1>1, RowKept
<1>5. \/ pc'[w] = "audit_again" /\ job'[w] = job[w] /\ pc[w] = "insert"
         /\ job[w].op = "request_approval"
      \/ pc'[w] = "idle" /\ pc[w] = "insert" /\ job[w].op # "request_approval"
      \/ pc'[w] = "idle" /\ pc[w] = "insert_again" /\ job[w].op = "request_approval"
  BY <1>2, EventsOfType DEF RecordAudit, RecordSecondAudit, Finish, Goto, StateInv, TypeOK
<1>6. /\ pc[w] = "insert_again" => k = 2 /\ u.event = "approval.requested"
      /\ pc[w] = "insert" => k = 1 /\ u.event # "approval.requested"
      /\ pc[w] = "insert" /\ job[w].op = "request_approval" => u.event = "run.waiting_approval"
  BY <1>2, <1>3 DEF EventsOf, Op, StatusOp
<1>7. RowsOnce'
  <2>1. \A t \in TrailRow : Kept(t) /\ t.req = u.req => t.event # u.event
    BY <1>1, <1>2, <1>3, <1>6 DEF EvidenceAt, First, Again
  <2>2. u.event = "approval.requested" =>
          \E t \in TrailRow : Kept(t) /\ t.req = u.req /\ t.event = "run.waiting_approval"
    BY <1>1, <1>2, <1>3, <1>6 DEF EvidenceAt, First, Again
  <2> HIDE DEF u, k, n
  <2> QED
    BY <1>3, <2>1, <2>2, OnceAdds DEF EvidenceInv
<1> HIDE DEF u, k
<1>8. pc'[w] # "idle" => job'[w].req = n /\ EvidenceAt(w)'
  <2>1. CASE pc'[w] = "audit_again"
    <3>1. /\ job'[w] = job[w] /\ pc[w] = "insert" /\ job[w].op = "request_approval"
          /\ u.event = "run.waiting_approval"
      BY <1>5, <1>6, <2>1
    <3>2. \A t \in TrailRow : ~(Kept(t) /\ t.req = n)
      BY <1>2, <3>1 DEF EvidenceAt, First, Again
    <3>3. \E c \in CommitRow : Made(c) /\ c.req = n
      BY <1>2, <3>1 DEF EvidenceAt, First, Again, Before
    <3>4. \A c \in CommitRow : Made(c) /\ c.req = n => c.run = job[w].run /\ c.op = job[w].op
      BY <1>2 DEF EvidenceAt, First, Again
    <3> QED
      BY <1>3, <1>4, <2>1, <3>1, <3>2, <3>3, <3>4 DEF EvidenceAt, First, Again, Before
  <2> QED
    BY <1>5, <2>1
<1>9. ASSUME pc'[w] = "idle", NEW c \in CommitRow, Made(c), c.req = n PROVE Evidenced(c)'
  <2>1. c.op = job[w].op /\ c.run = job[w].run
    BY <1>2, <1>9 DEF EvidenceAt, First, Again
  <2>2. c.op \in Checkpointed => HasCheckpoint(c)'
    <3>1. c.op \in Checkpointed => pc[w] = "insert"
      BY <1>1, <1>2, <2>1 DEF Checkpointed, StatusOp
    <3>2. c.op \in Checkpointed => HasCheckpoint(c)
      BY <1>2, <1>9, <2>1, <3>1 DEF EvidenceAt, First, Again, HasCheckpoint
    <3> QED
      BY <1>3, <3>2 DEF HasCheckpoint
  <2>3. ASSUME NEW m \in DOMAIN EventsOf(c.op)
        PROVE  \E t \in TrailRow : Kept(t)' /\ t.req = n /\ t.event = EventsOf(c.op)[m]
    <3>1. CASE m = k
      BY <1>3, <1>4, <2>1, <3>1
    <3>2. CASE m # k
      <4>1. pc[w] = "insert_again" /\ m = 1 /\ job[w].op = "request_approval"
        BY <1>2, <1>5, <1>6, <1>9, <2>1, <2>3, <3>2, EventsOfType DEF k
      <4>2. EventsOf(c.op)[m] = "run.waiting_approval"
        BY <2>1, <4>1 DEF EventsOf
      <4>3. PICK t \in TrailRow : Kept(t) /\ t.req = n /\ t.event = "run.waiting_approval"
        BY <1>2, <4>1 DEF EvidenceAt, First, Again
      <4> QED
        BY <1>4, <4>2, <4>3
    <3> QED
      BY <3>1, <3>2
  <2>4. ASSUME NEW m \in DOMAIN EventsOf(c.op)
        PROVE  \E i \in DOMAIN trail' : /\ trail'[i].req = c.req
                                        /\ trail'[i].event = EventsOf(c.op)[m]
    BY <1>9, <2>3 DEF Kept
  <2> QED
    BY <2>2, <2>4 DEF Evidenced
<1>10. /\ \A c \in CommitRow : Made(c)' => Made(c) \/ c.req = n
       /\ \A t \in TrailRow : Kept(t)' => Kept(t) \/ (t.req = n /\ \E c \in CommitRow : Backs(c, t)')
       /\ pc'[w] = "idle" => \A c \in CommitRow : Made(c)' /\ c.req = n => Evidenced(c)'
  BY <1>3, <1>4, <1>9
<1>11. Proceed(w) /\ n = job[w].req
  BY DEF Proceed
<1> HIDE DEF n
<1> QED
  BY <1>1, <1>2, <1>3, <1>4, <1>7, <1>8, <1>10, <1>11, EvidenceStep

-----------------------------------------------------------------------------
LEMMA EvidenceCrash ==
  ASSUME StateInv, FeedInv, EvidenceInv, Crash
  PROVE  EvidenceInv'
<1>1. /\ UNCHANGED <<commits, trail, checkpoints>>
      /\ aborted' = aborted \cup {job[w].req : w \in {v \in Worker : pc[v] # "idle"}}
      /\ \A w \in Worker : pc'[w] = "idle"
  BY DEF Crash, database
<1>2. /\ \A c \in CommitRow : Made(c)' <=> Made(c)
      /\ \A t \in TrailRow : Kept(t)' <=> Kept(t)
      /\ RowsOnce'
  BY <1>1, SameEvidence, OnceSame DEF EvidenceInv
<1>3. Backed'
  <2>1. ASSUME NEW t \in TrailRow, NEW c \in CommitRow, Backs(c, t) PROVE Backs(c, t)'
    BY <1>1, <1>2, <2>1 DEF Backs, HasCheckpoint
  <2> QED
    BY <1>2, <2>1 DEF EvidenceInv, Backed
<1>4. Accounted'
  <2> SUFFICES ASSUME NEW c \in CommitRow, Made(c)'
               PROVE  Evidenced(c)' \/ c.req \in aborted'
    BY DEF Accounted
  <2>1. Made(c)
    BY <1>2
  <2>2. c.req \in 1..issued /\ issued \in Nat
    BY <2>1, MadeNumbers DEF FeedInv
  <2>3. CASE Evidenced(c)
    BY <1>1, <2>3, EvidencedGrows
  <2>4. CASE c.req \in aborted
    BY <1>1, <2>4
  <2>5. CASE \E w \in Worker : job[w].req = c.req
    <3>1. PICK w \in Worker : job[w].req = c.req
      BY <2>5
    <3>2. pc[w] # "idle"
      BY <2>2, <3>1 DEF StateInv, JobOK, JobAt, NoJob
    <3> QED
      BY <1>1, <3>1, <3>2
  <2> QED
    BY <2>1, <2>3, <2>4, <2>5 DEF EvidenceInv, Accounted
<1> QED
  BY <1>1, <1>2, <1>3, <1>4 DEF EvidenceInv

LEMMA EvidenceNext ==
  ASSUME StateInv, FeedInv, EvidenceInv, [Next]_vars
  PROVE  EvidenceInv'
<1>1. ASSUME NEW w \in Worker, Proceed(w) PROVE EvidenceInv'
  BY <1>1, EvidenceCommit, EvidenceRow, EvidenceOther DEF Proceed
<1>2. ASSUME NEW w \in Worker, Start(w) PROVE EvidenceInv'
  BY <1>2, EvidenceStart
<1>3. ASSUME NEW w \in Worker, Fail(w) PROVE EvidenceInv'
  BY <1>3, EvidenceFail
<1>4. CASE Crash
  BY <1>4, EvidenceCrash
<1>5. CASE UNCHANGED vars
  BY <1>5 DEF vars, EvidenceInv, Backed, Backs, RowsOnce, Accounted, EvidenceAt, First, Again, Made, Kept,
     Evidenced, HasCheckpoint
<1> QED
  BY <1>1, <1>2, <1>3, <1>4, <1>5 DEF Next

LEMMA EvidenceInit == Init => EvidenceInv
BY DEF Init, EvidenceInv, Backed, RowsOnce, Accounted, Made, Kept

LEMMA EvidenceInvariant == Spec => [](StateInv /\ EvidenceInv)
<1>1. Init => FeedInv
  BY FeedInit
<1>2. StateInv /\ FeedInv /\ [Next]_vars => FeedInv'
  BY FeedNext
<1> QED
  BY <1>1, <1>2, EvidenceInit, EvidenceNext, StateInvariant, PTL DEF Spec

(* No audit row without a committed change of its run, by the request that *)
(* recorded it, whose checkpoint was on disk before.                       *)
THEOREM RowsHaveCause == Spec => []TrailBacked
<1>1. StateInv /\ EvidenceInv => TrailBacked
  BY EvidenceMeans DEF EvidenceInv
<1> QED
  BY <1>1, EvidenceInvariant, PTL

(* A committed change without all its evidence is one whose request runs,  *)
(* or was cut short.                                                       *)
THEOREM GapsAccounted == Spec => []GapAccounted
<1>1. StateInv /\ EvidenceInv => GapAccounted
  BY EvidenceMeans DEF EvidenceInv
<1> QED
  BY <1>1, EvidenceInvariant, PTL

-----------------------------------------------------------------------------
(* TrailOrdered.                                                           *)

(* The request of change c had returned when change d was made.            *)
Past(c, d) ==
  \E k, l \in DOMAIN commits :
    k < l /\ commits[k] = c /\ commits[l] = d /\ c.req \notin d.beside

(* Row t tells of what was over before the change of request n, or of an   *)
(* earlier event of that request.                                          *)
Ahead(t, n) ==
  t.req = n \/ \E c, d \in CommitRow : Past(c, d) /\ c.req = t.req /\ d.req = n

(* Precedes, said of rows.                                                 *)
Follows(t, u) ==
  \/ t.req = u.req /\ t.event = "run.waiting_approval" /\ u.event = "approval.requested"
  \/ \E c, d \in CommitRow : Past(c, d) /\ c.req = t.req /\ d.req = u.req

(* What a request in progress has made is past nothing; and the stamp it   *)
(* has drawn is later than those of the rows that are ahead of it.         *)
OrderAt(w) ==
  /\ \A c, d \in CommitRow : Past(c, d) => c.req # job[w].req
  /\ pc[w] \in {"insert", "insert_again"} =>
       /\ job[w].at <= clock
       /\ \A t \in TrailRow : Kept(t) /\ Ahead(t, job[w].req) => t.at < job[w].at

OrderInv ==
  /\ \A t \in TrailRow : Kept(t) => t.at <= clock
  /\ \A t, u \in TrailRow : Kept(t) /\ Kept(u) /\ Follows(t, u) => t.at < u.at
  /\ \A w \in Worker : pc[w] # "idle" => OrderAt(w)

(* What is past is in the history.                                         *)
LEMMA PastMade ==
  ASSUME NEW c, NEW d, Past(c, d)
  PROVE  Made(c) /\ Made(d)
BY DEF Past, Made

LEMMA SamePast ==
  UNCHANGED commits => /\ \A c, d : Past(c, d)' <=> Past(c, d)
                       /\ \A t, n : Ahead(t, n)' <=> Ahead(t, n)
                       /\ \A t, u : Follows(t, u)' <=> Follows(t, u)
BY DEF Past, Ahead, Follows

(* A new change is past nothing.                                           *)
LEMMA PastAdds ==
  ASSUME StateInv, NEW e \in CommitRow, commits' = Append(commits, e),
         NEW c \in CommitRow, NEW d \in CommitRow, Past(c, d)'
  PROVE  Past(c, d) \/ (Made(c) /\ d = e /\ c.req \notin e.beside)
<1> DEFINE n == Len(commits) + 1
<1>1. /\ n \in Nat \ {0}
      /\ DOMAIN commits = 1..(n - 1)
      /\ DOMAIN commits' = 1..n
      /\ \A k \in 1..(n - 1) : commits'[k] = commits[k]
      /\ commits'[n] = e
  BY DEF StateInv, TypeOK
<1> HIDE DEF n
<1>2. PICK k \in 1..n, l \in 1..n :
        k < l /\ commits'[k] = c /\ commits'[l] = d /\ c.req \notin d.beside
  BY <1>1 DEF Past
<1>3. k \in 1..(n - 1) /\ commits[k] = c
  BY <1>1, <1>2
<1>4. CASE l = n
  BY <1>1, <1>2, <1>3, <1>4 DEF Made
<1>5. CASE l # n
  <2>1. l \in 1..(n - 1) /\ commits[l] = d
    BY <1>1, <1>2, <1>5
  <2> QED
    BY <1>1, <1>2, <1>3, <2>1 DEF Past
<1> QED
  BY <1>4, <1>5

(* A step of worker w that commits nothing and adds no row.                *)
LEMMA OrderQuiet ==
  ASSUME StateInv, OrderInv, UNCHANGED <<commits, trail>>, clock <= clock', clock' \in Nat,
         \A v \in Worker : pc'[v] # "idle" /\ ~OrderAt(v)' => pc'[v] = pc[v] /\ job'[v] = job[v]
  PROVE  OrderInv'
<1>1. /\ \A c, d : Past(c, d)' <=> Past(c, d)
      /\ \A t, n : Ahead(t, n)' <=> Ahead(t, n)
      /\ \A t, u : Follows(t, u)' <=> Follows(t, u)
      /\ \A t \in TrailRow : Kept(t)' <=> Kept(t)
  BY SamePast, SameEvidence
<1>2. /\ clock \in Nat /\ \A t \in TrailRow : t.at \in Nat
      /\ \A v \in Worker : job[v].at \in Nat
  BY DEF StateInv, TypeOK, TrailRow, Job
<1>3. ASSUME NEW v \in Worker, pc'[v] # "idle" PROVE OrderAt(v)'
  <2>1. CASE pc'[v] = pc[v] /\ job'[v] = job[v]
    <3>1. OrderAt(v)
      BY <1>3, <2>1 DEF OrderInv
    <3>2. pc[v] \in {"insert", "insert_again"} => job[v].at <= clock'
      BY <1>2, <3>1 DEF OrderAt
    <3> QED
      BY <1>1, <2>1, <3>1, <3>2 DEF OrderAt
  <2> QED
    BY <1>3, <2>1
<1>4. \A t \in TrailRow : Kept(t)' => t.at <= clock'
  BY <1>1, <1>2 DEF OrderInv
<1> QED
  BY <1>1, <1>3, <1>4 DEF OrderInv

LEMMA OrderMoves ==
  ASSUME StateInv, OrderInv, NEW w \in Worker,
         \/ AssertResumeAllowed(w) \/ CheckNonePending(w) \/ StampApproval(w)
         \/ AppendCheckpoint(w) \/ Fail(w)
  PROVE  OrderInv'
<1>1. /\ pc[w] # "idle" /\ UNCHANGED <<commits, trail, clock>>
      /\ pc'[w] # "idle" => job'[w].req = job[w].req /\ pc'[w] \notin {"insert", "insert_again"}
      /\ \A v \in Worker : v # w => pc'[v] = pc[v] /\ job'[v] = job[v]
  BY DEF AssertResumeAllowed, CheckNonePending, StampApproval, AppendCheckpoint, Fail,
     Goto, Finish, database, StateInv, TypeOK, Job
<1>2. pc'[w] # "idle" => OrderAt(w)'
  BY <1>1, SamePast DEF OrderInv, OrderAt
<1>3. clock' \in Nat /\ clock <= clock'
  BY <1>1 DEF StateInv, TypeOK
<1> QED
  BY <1>1, <1>2, <1>3, OrderQuiet

(* The stamp of a row is later than those of all rows there are.           *)
LEMMA OrderStamp ==
  ASSUME StateInv, OrderInv, NEW w \in Worker, StampAudit(w)
  PROVE  OrderInv'
<1>1. /\ pc[w] # "idle" /\ UNCHANGED <<commits, trail>> /\ clock' = clock + 1 /\ clock \in Nat
      /\ job'[w].req = job[w].req /\ job'[w].at = clock + 1
      /\ \A v \in Worker : v # w => pc'[v] = pc[v] /\ job'[v] = job[v]
  BY DEF StampAudit, Goto, database, StateInv, TypeOK, Job
<1>2. ASSUME NEW t \in TrailRow, Kept(t)' PROVE t.at < job'[w].at
  <2>1. Kept(t) /\ t.at \in Nat
    BY <1>1, <1>2, SameEvidence DEF TrailRow
  <2> QED
    BY <1>1, <2>1 DEF OrderInv
<1>3. \A c, d \in CommitRow : Past(c, d)' => c.req # job'[w].req
  BY <1>1, SamePast DEF OrderInv, OrderAt
<1>4. OrderAt(w)'
  <2>1. job'[w].at <= clock'
    BY <1>1
  <2> QED
    BY <1>2, <1>3, <2>1 DEF OrderAt
<1>5. clock' \in Nat /\ clock <= clock'
  BY <1>1
<1> QED
  BY <1>1, <1>4, <1>5, OrderQuiet

(* A row goes behind those that are ahead of it, and nothing that is there *)
(* has to follow it.                                                       *)
LEMMA OrderRow ==
  ASSUME StateInv, FeedInv, EvidenceInv, OrderInv, NEW w \in Worker,
         RecordAudit(w) \/ RecordSecondAudit(w)
  PROVE  OrderInv'
<1> DEFINE k == IF pc[w] = "insert" THEN 1 ELSE 2
           u == Row(w, k)
<1>1. /\ pc[w] \in {"insert", "insert_again"} /\ k \in {1, 2}
      /\ (RecordAudit(w) /\ k = 1) \/ (RecordSecondAudit(w) /\ k = 2)
      /\ clock' = clock
      /\ pc'[w] # "idle" => pc'[w] = "audit_again" /\ job'[w] = job[w]
  BY DEF RecordAudit, RecordSecondAudit, Finish, Goto, StateInv, TypeOK
<1>2. /\ u \in TrailRow /\ u.req = job[w].req /\ commits' = commits
      /\ \A t \in TrailRow : Kept(t)' <=> Kept(t) \/ t = u
  BY <1>1, RowBacked, RowKept
<1>3. u.at = job[w].at
  BY DEF Row
<1>4. pc[w] = "insert_again" => u.event = "approval.requested"
  <2>1. pc[w] = "insert_again" => job[w].op = "request_approval"
    BY DEF StateInv, JobOK, JobAt
  <2> QED
    BY <2>1 DEF Row, EventsOf
<1>5. OrderAt(w) /\ EvidenceAt(w)
  BY <1>1 DEF OrderInv, EvidenceInv
<1>6. \A v \in Worker : v # w => pc'[v] = pc[v] /\ job'[v] = job[v]
  BY WorkerStep DEF Proceed
<1>7. /\ \A c, d : Past(c, d)' <=> Past(c, d)
      /\ \A t, n : Ahead(t, n)' <=> Ahead(t, n)
      /\ \A s, t : Follows(s, t)' <=> Follows(s, t)
  BY <1>2, SamePast
<1> HIDE DEF u, k
<1>8. \A t \in TrailRow : Kept(t)' => t.at <= clock'
  BY <1>1, <1>2, <1>3, <1>5 DEF OrderInv, OrderAt
<1>9. ASSUME NEW s \in TrailRow, NEW t \in TrailRow, Kept(s)', Kept(t)', Follows(s, t)
      PROVE  s.at < t.at
  <2>1. CASE Kept(s) /\ Kept(t)
    BY <1>9, <2>1 DEF OrderInv
  <2>2. CASE Kept(s) /\ t = u
    <3>1. Ahead(s, job[w].req)
      BY <1>2, <1>9, <2>2 DEF Follows, Ahead
    <3> QED
      BY <1>1, <1>3, <1>5, <2>2, <3>1 DEF OrderAt
  <2>3. CASE s = u
    <3>1. ~\E c, d \in CommitRow : Past(c, d) /\ c.req = s.req /\ d.req = t.req
      BY <1>2, <1>5, <2>3 DEF OrderAt
    <3>2. /\ s.req = t.req /\ s.event = "run.waiting_approval" /\ t.event = "approval.requested"
      BY <1>9, <3>1 DEF Follows
    <3>3. t # u /\ Kept(t) /\ t.req = job[w].req
      BY <1>2, <1>9, <2>3, <3>2
    <3> QED
      BY <1>5, <3>2, <3>3 DEF EvidenceAt
  <2> QED
    BY <1>2, <1>9, <2>1, <2>2, <2>3
<1>10. ASSUME NEW v \in Worker, v # w, pc'[v] # "idle" PROVE OrderAt(v)'
  <2>1. pc'[v] = pc[v] /\ job'[v] = job[v] /\ OrderAt(v) /\ job[v].req # job[w].req
    BY <1>1, <1>6, <1>10 DEF OrderInv, FeedInv
  <2>2. ~Ahead(u, job[v].req)
    BY <1>2, <1>5, <2>1 DEF Ahead, OrderAt
  <2> QED
    BY <1>1, <1>2, <1>7, <2>1, <2>2 DEF OrderAt
<1>11. pc'[w] # "idle" => OrderAt(w)'
  BY <1>1, <1>5, <1>7 DEF OrderAt
<1> QED
  BY <1>7, <1>8, <1>9, <1>10, <1>11 DEF OrderInv

(* A change e by worker w, whose request has number n and no change or row *)
(* so far: everything made by a request that has returned is past it, and  *)
(* it has no row yet.                                                      *)
LEMMA OrderCommitted ==
  ASSUME StateInv, FeedInv, OrderInv, NEW w \in Worker, Start(w) \/ Proceed(w), NEW n \in Nat,
         NEW e \in CommitRow, commits' = Append(commits, e), e.req = n, e.beside = Others(w),
         UNCHANGED <<trail, clock>>,
         \A c \in CommitRow : Made(c) => c.req # n,
         \A t \in TrailRow : Kept(t) => t.req # n,
         \A v \in Worker : v # w /\ pc[v] # "idle" => job[v].req # n,
         job'[w].req = n, pc'[w] \notin {"insert", "insert_again"}
  PROVE  OrderInv'
<1>1. \A v \in Worker : v # w => pc'[v] = pc[v] /\ job'[v] = job[v]
  BY WorkerStep
<1>2. ASSUME NEW c \in CommitRow, NEW d \in CommitRow, Past(c, d)'
      PROVE  Past(c, d) \/ (Made(c) /\ d = e /\ c.req \notin e.beside)
  BY <1>2, PastAdds
<1>3. \A t \in TrailRow : Kept(t)' <=> Kept(t)
  BY SameEvidence
<1>4. ASSUME NEW v \in Worker, pc'[v] # "idle" PROVE OrderAt(v)'
  <2>1. CASE v = w
    <3>1. ASSUME NEW c \in CommitRow, NEW d \in CommitRow, Past(c, d)' PROVE c.req # n
      BY <1>2, <3>1, PastMade
    <3> QED
      BY <2>1, <3>1 DEF OrderAt
  <2>2. CASE v # w
    <3>1. /\ pc'[v] = pc[v] /\ job'[v] = job[v] /\ OrderAt(v) /\ job[v].req # n
          /\ job[v].req \in Others(w)
      BY <1>1, <1>4, <2>2 DEF OrderInv, Others
    <3>2. ASSUME NEW c \in CommitRow, NEW d \in CommitRow, Past(c, d)' PROVE c.req # job[v].req
      BY <1>2, <3>1, <3>2 DEF OrderAt
    <3>3. ASSUME NEW t \in TrailRow, Ahead(t, job[v].req)' PROVE Ahead(t, job[v].req)
      BY <1>2, <3>1, <3>3 DEF Ahead
    <3> QED
      BY <1>3, <3>1, <3>2, <3>3 DEF OrderAt
  <2> QED
    BY <2>1, <2>2
<1>5. ASSUME NEW t \in TrailRow, NEW u \in TrailRow, Kept(t), Kept(u), Follows(t, u)'
      PROVE  Follows(t, u)
  <2>1. u.req # n
    BY <1>5
  <2> QED
    BY <1>2, <1>5, <2>1 DEF Follows
<1> QED
  BY <1>3, <1>4, <1>5 DEF OrderInv

LEMMA OrderStart ==
  ASSUME StateInv, FeedInv, OrderInv, NEW w \in Worker, Start(w)
  PROVE  OrderInv'
<1> DEFINE n == issued + 1
<1>1. /\ pc[w] = "idle" /\ job'[w].req = n /\ n \in Nat /\ UNCHANGED <<trail, clock>>
      /\ pc'[w] \notin {"insert", "insert_again"}
  BY DEF Start, CreateRun, ResumeRun, InterruptRun, RetryRun, CancelRun, RequestApproval,
     ReadRun, DecideApproval, Admit, NewJob, database, StateInv, TypeOK
<1>2. /\ \A c \in CommitRow : Made(c) => c.req # n
      /\ \A t \in TrailRow : Kept(t) => t.req # n
  BY NothingYet
<1>3. CASE \A r \in Run : ~CreateRun(w, r)
  <2>1. UNCHANGED commits
    BY <1>3 DEF Start, ResumeRun, InterruptRun, RetryRun, CancelRun, RequestApproval, ReadRun,
       DecideApproval
  <2>2. OrderAt(w)'
    BY <1>1, <1>2, <2>1, SamePast, PastMade DEF OrderAt
  <2>3. \A v \in Worker : v # w => pc'[v] = pc[v] /\ job'[v] = job[v]
    BY WorkerStep
  <2>4. clock' \in Nat /\ clock <= clock'
    BY <1>1 DEF StateInv, TypeOK
  <2> QED
    BY <1>1, <2>1, <2>2, <2>3, <2>4, OrderQuiet
<1>4. ASSUME NEW r \in Run, CreateRun(w, r) PROVE OrderInv'
  <2> DEFINE e == [req |-> n, op |-> "create_run", run |-> r, from |-> "absent",
                   beside |-> Others(w)]
  <2>1. /\ job'[w].run = r /\ job'[w].op = "create_run"
    BY <1>4 DEF CreateRun, Admit, NewJob, StateInv, TypeOK
  <2>2. e \in CommitRow /\ commits' = Append(commits, e)
    BY <1>1, <1>4, <2>1, OthersType DEF CreateRun, Commit, CommitRow, Op, StateInv, TypeOK, Status
  <2>3. e.req = n /\ e.beside = Others(w)
    OBVIOUS
  <2>4. \A v \in Worker : v # w /\ pc[v] # "idle" => job[v].req # n
    BY DEF StateInv, JobOK, JobAt, TypeOK
  <2> HIDE DEF e, n
  <2> QED
    BY <1>1, <1>2, <2>2, <2>3, <2>4, OrderCommitted
<1> QED
  BY <1>3, <1>4

(* The commits of a request that has read its run, with what the others do *)
(* not need of them left out.                                              *)
LEMMA CommitShape ==
  ASSUME StateInv, FeedInv, EvidenceInv, NEW w \in Worker,
         UpdateRunStatus(w) \/ MarkRunWaiting(w) \/ WriteDecision(w)
  PROVE  /\ pc[w] \in Before /\ pc[w] # "idle" /\ job' = job /\ UNCHANGED <<trail, clock>>
         /\ pc'[w] \in {"checkpoint", "audit"}
         /\ job[w].op = "resume_run" => pc[w] = "update" /\ UpdateRunStatus(w)
         /\ \A c \in CommitRow : Made(c) => c.req # job[w].req
         /\ \A t \in TrailRow : Kept(t) => t.req # job[w].req
         /\ \E e \in CommitRow :
              /\ commits' = Append(commits, e)
              /\ e.req = job[w].req /\ e.run = job[w].run /\ e.op = job[w].op
              /\ e.beside = Others(w)
              /\ \/ e.op = "decide_approval" /\ status' = status
                 \/ e.op # "decide_approval" /\ status' = [status EXCEPT ![e.run] = Target(e.op)]
              /\ UpdateRunStatus(w) => e.from = status[job[w].run]
<1> DEFINE n == job[w].req
           r == job[w].run
<1>1. /\ pc[w] \in Before /\ pc[w] # "idle" /\ job' = job /\ UNCHANGED <<trail, clock>>
      /\ pc'[w] \in {"checkpoint", "audit"}
      /\ job[w].op = "resume_run" => pc[w] = "update" /\ UpdateRunStatus(w)
  BY DEF UpdateRunStatus, MarkRunWaiting, WriteDecision, Goto, Before, StateInv, TypeOK,
     JobOK, JobAt, StatusOp
<1>2. r \in Run /\ n \in Nat /\ job[w].op \in Op /\ EvidenceAt(w)
  BY <1>1 DEF StateInv, JobOK, JobAt, EvidenceInv
<1>3. CASE WriteDecision(w)
  <2>1. /\ approvals[job[w].approval].status \in ApprovalStatus
        /\ job[w].op = "decide_approval" /\ ~UpdateRunStatus(w)
    BY <1>3 DEF WriteDecision, UpdateRunStatus, StateInv, TypeOK, JobOK, JobAt
  <2> DEFINE e == [req |-> n, op |-> job[w].op, run |-> r,
                   from |-> approvals[job[w].approval].status, beside |-> Others(w)]
  <2>2. e \in CommitRow
    BY <1>2, <2>1, OthersType DEF CommitRow
  <2>3. commits' = Append(commits, e) /\ status' = status
    BY <1>1, <1>3 DEF WriteDecision, Commit
  <2>4. /\ e.req = n /\ e.run = r /\ e.op = job[w].op /\ e.beside = Others(w)
    OBVIOUS
  <2> HIDE DEF e
  <2> QED
    BY <1>1, <1>2, <2>1, <2>2, <2>3, <2>4 DEF EvidenceAt, Before, Again
<1>4. CASE UpdateRunStatus(w) \/ MarkRunWaiting(w)
  <2>1. /\ job[w].op # "decide_approval"
        /\ status' = [status EXCEPT ![r] = Target(job[w].op)]
    BY <1>4 DEF UpdateRunStatus, MarkRunWaiting, StateInv, JobOK, JobAt, StatusOp, Target
  <2> DEFINE e == [req |-> n, op |-> job[w].op, run |-> r, from |-> status[r],
                   beside |-> Others(w)]
  <2>2. e \in CommitRow
    BY <1>2, OthersType DEF CommitRow, StateInv, TypeOK
  <2>3. commits' = Append(commits, e)
    BY <1>1, <1>4 DEF UpdateRunStatus, MarkRunWaiting, Commit
  <2>4. /\ e.req = n /\ e.run = r /\ e.op = job[w].op /\ e.beside = Others(w) /\ e.from = status[r]
    OBVIOUS
  <2> HIDE DEF e
  <2> QED
    BY <1>1, <1>2, <2>1, <2>2, <2>3, <2>4 DEF EvidenceAt, Before, Again
<1> QED
  BY <1>3, <1>4

LEMMA OrderCommit ==
  ASSUME StateInv, FeedInv, EvidenceInv, OrderInv, NEW w \in Worker,
         UpdateRunStatus(w) \/ MarkRunWaiting(w) \/ WriteDecision(w)
  PROVE  OrderInv'
<1> DEFINE n == job[w].req
<1>1. /\ pc[w] # "idle" /\ job'[w].req = n /\ UNCHANGED <<trail, clock>>
      /\ pc'[w] \notin {"insert", "insert_again"}
      /\ \A c \in CommitRow : Made(c) => c.req # n
      /\ \A t \in TrailRow : Kept(t) => t.req # n
  BY CommitShape
<1>2. PICK e \in CommitRow : commits' = Append(commits, e) /\ e.req = n /\ e.beside = Others(w)
  BY CommitShape
<1>3. /\ n \in Nat
      /\ \A v \in Worker : v # w /\ pc[v] # "idle" => job[v].req # n
  BY <1>1 DEF StateInv, TypeOK, Job, FeedInv
<1> HIDE DEF n
<1> QED
  BY <1>1, <1>2, <1>3, OrderCommitted DEF Proceed

LEMMA OrderNext ==
  ASSUME StateInv, FeedInv, EvidenceInv, OrderInv, [Next]_vars
  PROVE  OrderInv'
<1>1. ASSUME NEW w \in Worker, Start(w) PROVE OrderInv'
  BY <1>1, OrderStart
<1>2. ASSUME NEW w \in Worker, Proceed(w) \/ Fail(w) PROVE OrderInv'
  BY <1>2, OrderMoves, OrderStamp, OrderRow, OrderCommit DEF Proceed
<1>3. CASE Crash \/ UNCHANGED vars
  <2>1. /\ UNCHANGED <<commits, trail, clock>>
        /\ \A w \in Worker : pc'[w] = "idle" \/ (pc'[w] = pc[w] /\ job'[w] = job[w])
    BY <1>3 DEF Crash, vars, database
  <2>2. clock' \in Nat /\ clock <= clock'
    BY <2>1 DEF StateInv, TypeOK
  <2> QED
    BY <2>1, <2>2, OrderQuiet
<1> QED
  BY <1>1, <1>2, <1>3 DEF Next

LEMMA OrderInvariant == Spec => []OrderInv
<1>1. Init => FeedInv
  BY FeedInit
<1>2. StateInv /\ FeedInv /\ [Next]_vars => FeedInv'
  BY FeedNext
<1>3. Init => OrderInv
  BY DEF Init, OrderInv, Kept
<1> QED
  BY <1>1, <1>2, <1>3, OrderNext, EvidenceInvariant, PTL DEF Spec

-----------------------------------------------------------------------------
(* Of two stamps the text keeps the order, unless the earlier one is on    *)
(* the whole second of the later.                                          *)
LEMMA TextHolds ==
  ASSUME NEW s \in Nat, NEW t \in Nat, s < t
  PROVE  TextRank(s) < TextRank(t) \/ (s % Second = 0 /\ s \div Second = t \div Second)
<1>1. Second \in Nat /\ Second > 0
  BY SecondAssumption
<1>2. TextRank(t) >= 2 * t
  BY <1>1 DEF TextRank
<1>3. CASE s % Second # 0
  BY <1>1, <1>2, <1>3 DEF TextRank
<1>4. CASE s % Second = 0 /\ t >= s + Second
  BY <1>1, <1>2, <1>4 DEF TextRank
<1>5. CASE s % Second = 0 /\ t < s + Second
  <2> DEFINE p == s \div Second
             q == t \div Second
  <2>1. /\ p \in Int /\ q \in Int
        /\ s = Second * p
        /\ Second * q <= t /\ t < Second * q + Second
    BY <1>1, <1>5
  <2>2. Second * p < Second * (q + 1) /\ Second * q < Second * (p + 1)
    BY <1>1, <1>5, <2>1
  <2> HIDE DEF p, q
  <2>3. p < q + 1 /\ q < p + 1
    BY <1>1, <2>1, <2>2
  <2> QED
    BY <1>5, <2>1, <2>3 DEF p, q
<1> QED
  BY <1>1, <1>3, <1>4, <1>5

(* A request records an event once and its second event after its first,   *)
(* and list_events_for_run, which sorts the text of the stamps, lists what *)
(* was over before something else ahead of it, but for a row stamped on a  *)
(* whole second, which is listed behind that second.  Whatever overlaps    *)
(* and whatever fails.                                                     *)
THEOREM RowsInOrder == Spec => []TrailOrdered
<1>1. ASSUME StateInv, EvidenceInv, OrderInv PROVE TrailOrdered
  <2>1. /\ \A i \in DOMAIN trail : trail[i] \in TrailRow /\ Kept(trail[i])
        /\ \A k \in DOMAIN commits : commits[k] \in CommitRow
    BY <1>1 DEF StateInv, TypeOK, Kept
  <2>2. ASSUME NEW i \in DOMAIN trail, NEW j \in DOMAIN trail, Precedes(i, j)
        PROVE  ListedBefore(i, j) \/ HeldBack(i, j)
    <3>1. Follows(trail[i], trail[j])
      BY <2>1, <2>2 DEF Precedes, Follows, Past
    <3>2. trail[i].at \in Nat /\ trail[j].at \in Nat /\ trail[i].at < trail[j].at
      BY <1>1, <2>1, <3>1 DEF OrderInv, TrailRow
    <3> QED
      BY <3>2, TextHolds DEF ListedBefore, HeldBack
  <2> QED
    BY <1>1, <2>2 DEF TrailOrdered, EvidenceInv, RowsOnce
<1> QED
  BY <1>1, EvidenceInvariant, OrderInvariant, PTL

-----------------------------------------------------------------------------
(* ViewEvidenced.                                                          *)

(* The reader's steps leave the lifecycle alone.                           *)
LEMMA ViewIsLifecycle == ViewSpec => Spec
<1>1. ViewInit => Init
  BY DEF ViewInit
<1>2. [ViewNext]_viewVars => [Next]_vars
  BY DEF ViewNext, viewVars, GoOn, BeginView, ContinueView, Next
<1> QED
  BY <1>1, <1>2, PTL DEF ViewSpec, Spec

Late(c) == c.run # view.run \/ c.req \in view.busy \cup aborted
CheckpointSeen(c) ==
  c.op \in Checkpointed => \E p \in view.checkpoints : p.req = c.req /\ p.type = c.op
RowsSeen(c) ==
  \A e \in DOMAIN EventsOf(c.op) :
    \E i \in 1..view.rows : trail[i].req = c.req /\ trail[i].event = EventsOf(c.op)[e]

Whole(v) == [run |-> v.run, reads |-> v.reads, status |-> v.status, checkpoints |-> v.checkpoints,
             approval |-> v.approval, rows |-> v.rows, known |-> v.known, busy |-> v.busy]

(* A view accounts for the changes it knows of, one read after the other.  *)
ViewInv ==
  /\ view = Whole(view)
  /\ view.reads \in 0..4
  /\ view.reads > 0 => view.known \in 0..Len(commits)
  /\ view.reads > 1 => \A k \in 1..view.known : Late(commits[k]) \/ CheckpointSeen(commits[k])
  /\ view.reads > 3 => /\ view.rows \in 0..Len(trail)
                       /\ \A k \in 1..view.known : Late(commits[k]) \/ RowsSeen(commits[k])

(* What was there to see when the evidence of change c is read.            *)
LEMMA SeenNow ==
  ASSUME StateInv, FeedInv, EvidenceInv, NEW k \in 1..Len(commits)
  PROVE  Evidenced(commits[k]) \/ commits[k].req \in InFlight \cup aborted
<1> DEFINE c == commits[k]
<1>1. c \in CommitRow /\ Made(c)
  BY DEF StateInv, TypeOK, Made
<1>2. c.req \in 1..issued /\ issued \in Nat
  BY <1>1, MadeNumbers DEF FeedInv
<1>3. \A w \in Worker : job[w].req = c.req => c.req \in InFlight
  BY <1>2 DEF InFlight, StateInv, JobOK, JobAt, NoJob
<1> QED
  BY <1>1, <1>3 DEF EvidenceInv, Accounted

LEMMA ReadsAre ==
  /\ Len(Reads) = 4
  /\ Reads[1] = "run" /\ Reads[2] = "checkpoints" /\ Reads[3] = "approvals" /\ Reads[4] = "trail"
BY DEF Reads

(* Each read adds what it found, and leaves what is in the view.           *)
LEMMA ReadAdds ==
  ASSUME ViewInv, ContinueView
  PROVE  /\ view' = Whole(view')
         /\ view.reads \in 1..3 /\ view'.reads = view.reads + 1
         /\ view'.run = view.run /\ view'.known = view.known /\ view'.status = view.status
         /\ view.busy \subseteq view'.busy
         /\ view.reads = 2 => view'.approval = LatestStatus(view.run)
         /\ view.reads # 2 => view'.approval = view.approval
         /\ view.reads = 1 => /\ view'.checkpoints = {p \in checkpoints : p.run = view.run}
                              /\ InFlight \subseteq view'.busy
         /\ view.reads # 1 => view'.checkpoints = view.checkpoints
         /\ view.reads = 3 => view'.rows = Len(trail) /\ InFlight \subseteq view'.busy
<1>1. /\ view.reads \in 1..3
      /\ view' = [Seeing(Reads[view.reads + 1], view.run, view) EXCEPT !.reads = @ + 1]
      /\ view = Whole(view)
  BY ReadsAre DEF ContinueView, ViewInv
<1>2. CASE view.reads = 1
  <2> DEFINE C == {p \in checkpoints : p.run = view.run}
  <2>0. Reads[view.reads + 1] = "checkpoints"
    BY <1>2, ReadsAre
  <2>1. view' = [[view EXCEPT !.checkpoints = C, !.busy = @ \cup InFlight] EXCEPT !.reads = @ + 1]
    BY <1>1, <2>0 DEF Seeing
  <2> HIDE DEF C
  <2>2. view'.checkpoints = C /\ view'.busy = view.busy \cup InFlight
    BY <1>1, <2>1 DEF Whole
  <2>3. /\ view' = Whole(view')
        /\ view'.reads = view.reads + 1 /\ view'.run = view.run /\ view'.known = view.known
        /\ view'.status = view.status /\ view'.approval = view.approval
    BY <1>1, <2>1 DEF Whole
  <2> QED
    BY <1>1, <1>2, <2>2, <2>3 DEF C
<1>3. CASE view.reads = 2
  <2>0. Reads[view.reads + 1] = "approvals"
    BY <1>3, ReadsAre
  <2>1. view' = [[view EXCEPT !.approval = LatestStatus(view.run)] EXCEPT !.reads = @ + 1]
    BY <1>1, <2>0 DEF Seeing
  <2>2. /\ view' = Whole(view')
        /\ view'.reads = view.reads + 1 /\ view'.run = view.run /\ view'.known = view.known
        /\ view'.checkpoints = view.checkpoints /\ view'.busy = view.busy
        /\ view'.status = view.status /\ view'.approval = LatestStatus(view.run)
    BY <1>1, <2>1 DEF Whole
  <2> QED
    BY <1>1, <1>3, <2>2
<1>4. CASE view.reads = 3
  <2>0. Reads[view.reads + 1] = "trail"
    BY <1>4, ReadsAre
  <2>1. view' = [[view EXCEPT !.rows = Len(trail), !.busy = @ \cup InFlight] EXCEPT !.reads = @ + 1]
    BY <1>1, <2>0 DEF Seeing
  <2>2. /\ view' = Whole(view')
        /\ view'.reads = view.reads + 1 /\ view'.run = view.run /\ view'.known = view.known
        /\ view'.checkpoints = view.checkpoints
        /\ view'.rows = Len(trail) /\ view'.busy = view.busy \cup InFlight
        /\ view'.status = view.status /\ view'.approval = view.approval
    BY <1>1, <2>1 DEF Whole
  <2> QED
    BY <1>1, <1>4, <2>2
<1> QED
  BY <1>1, <1>2, <1>3, <1>4

LEMMA BeginAdds ==
  ASSUME NEW r \in Run, BeginView(r)
  PROVE  /\ view' = Whole(view')
         /\ view'.reads = 1 /\ view'.known = Len(commits)
         /\ view'.run = r /\ view'.status = status[r]
<1>1. view' = [[NoView EXCEPT !.status = status[r], !.known = Len(commits)]
                 EXCEPT !.run = r, !.reads = 1]
  <2>1. view' = [Seeing("run", r, NoView) EXCEPT !.run = r, !.reads = 1]
    BY ReadsAre DEF BeginView
  <2> QED
    BY <2>1 DEF Seeing
<1> QED
  BY <1>1 DEF NoView, Whole

LEMMA ViewReadStep ==
  ASSUME StateInv, FeedInv, EvidenceInv, ViewInv, UNCHANGED vars,
         ContinueView \/ \E r \in Run : BeginView(r)
  PROVE  ViewInv'
<1>1. UNCHANGED <<commits, trail, aborted>> /\ Len(commits) \in Nat /\ Len(trail) \in Nat
  BY DEF vars, StateInv, TypeOK
<1>2. ASSUME NEW r \in Run, BeginView(r) PROVE ViewInv'
  BY <1>1, <1>2, BeginAdds DEF ViewInv, Whole
<1>3. CASE ContinueView
  <2>1. /\ view' = Whole(view')
        /\ view.reads \in 1..3 /\ view'.reads = view.reads + 1
        /\ view'.run = view.run /\ view'.known = view.known
        /\ view.busy \subseteq view'.busy
    BY <1>3, ReadAdds
  <2>2. /\ view.known \in 0..Len(commits)
        /\ \A k \in 1..view.known : k \in 1..Len(commits)
    BY <1>1, <2>1 DEF ViewInv
  <2>3. ASSUME NEW k \in 1..view.known, Late(commits[k]) PROVE Late(commits[k])'
    BY <1>1, <2>1, <2>3 DEF Late
  <2>4. ASSUME NEW k \in 1..view.known PROVE Late(commits[k])' \/ CheckpointSeen(commits[k])'
    <3>1. CASE view.reads = 1
      <4>1. /\ view'.checkpoints = {p \in checkpoints : p.run = view.run}
            /\ InFlight \subseteq view'.busy
        BY <1>3, <3>1, ReadAdds
      <4>2. Evidenced(commits[k]) \/ commits[k].req \in InFlight \cup aborted
        BY <2>2, SeenNow
      <4>3. CASE Evidenced(commits[k]) /\ commits[k].run = view.run
        BY <1>1, <4>1, <4>3 DEF Evidenced, HasCheckpoint, CheckpointSeen
      <4> QED
        BY <1>1, <2>1, <4>1, <4>2, <4>3 DEF Late
    <3>2. CASE view.reads # 1
      <4>1. view'.checkpoints = view.checkpoints /\ view.reads > 1
        BY <1>3, <2>1, <3>2, ReadAdds
      <4>2. Late(commits[k]) \/ CheckpointSeen(commits[k])
        BY <4>1 DEF ViewInv
      <4> QED
        BY <1>1, <2>3, <4>1, <4>2 DEF CheckpointSeen
    <3> QED
      BY <3>1, <3>2
  <2>5. ASSUME view.reads = 3, NEW k \in 1..view.known
        PROVE  Late(commits[k])' \/ RowsSeen(commits[k])'
    <3>1. view'.rows = Len(trail) /\ InFlight \subseteq view'.busy
      BY <1>3, <2>5, ReadAdds
    <3>2. Evidenced(commits[k]) \/ commits[k].req \in InFlight \cup aborted
      BY <2>2, SeenNow
    <3>3. CASE Evidenced(commits[k])
      <4>1. DOMAIN trail = 1..Len(trail)
        BY DEF StateInv, TypeOK
      <4> QED
        BY <1>1, <3>1, <3>3, <4>1 DEF Evidenced, RowsSeen
    <3> QED
      BY <1>1, <3>1, <3>2, <3>3 DEF Late
  <2>6. view.reads = 3 => view'.rows = Len(trail)
    BY <1>3, ReadAdds
  <2> QED
    BY <1>1, <2>1, <2>2, <2>4, <2>5, <2>6 DEF ViewInv
<1> QED
  BY <1>2, <1>3

(* What a step of the lifecycle does to what views are judged by.          *)
LEMMA HistoryGrows ==
  ASSUME StateInv, [Next]_vars
  PROVE  /\ Len(commits) \in Nat /\ Len(commits') \in Nat /\ Len(commits) <= Len(commits')
         /\ \A k \in 1..Len(commits) : commits'[k] = commits[k]
         /\ Len(trail) \in Nat /\ Len(trail') \in Nat /\ Len(trail) <= Len(trail')
         /\ \A i \in 1..Len(trail) : trail'[i] = trail[i]
         /\ aborted \subseteq aborted'
<1>1. /\ commits' = commits \/ \E c : commits' = Append(commits, c)
      /\ trail' = trail \/ \E t : trail' = Append(trail, t)
      /\ aborted \subseteq aborted'
  BY DEF Next, Start, CreateRun, ResumeRun, InterruptRun, RetryRun, CancelRun, RequestApproval,
     ReadRun, DecideApproval, Proceed, AssertResumeAllowed, CheckNonePending, StampApproval,
     MarkRunWaiting, UpdateRunStatus, WriteDecision, AppendCheckpoint, StampAudit, RecordAudit,
     RecordSecondAudit, Fail, Crash, Commit, database, vars
<1>2. commits' \in Seq(CommitRow) /\ trail' \in Seq(TrailRow)
  BY StateStep DEF StateInv, TypeOK
<1>3. /\ Len(commits) \in Nat /\ Len(commits') \in Nat /\ Len(commits) <= Len(commits')
      /\ \A k \in 1..Len(commits) : commits'[k] = commits[k]
  <2>1. commits \in Seq(CommitRow)
    BY DEF StateInv, TypeOK
  <2>2. CASE commits' = commits
    BY <2>1, <2>2
  <2>3. ASSUME NEW c, commits' = Append(commits, c)
        PROVE  /\ Len(commits) \in Nat /\ Len(commits') = Len(commits) + 1
               /\ \A k \in 1..Len(commits) : commits'[k] = commits[k]
    BY <2>1, <2>3
  <2> QED
    BY <1>1, <2>2, <2>3
<1>4. /\ Len(trail) \in Nat /\ Len(trail') \in Nat /\ Len(trail) <= Len(trail')
      /\ \A i \in 1..Len(trail) : trail'[i] = trail[i]
  BY <1>1, <1>2 DEF StateInv, TypeOK
<1> QED
  BY <1>1, <1>3, <1>4

LEMMA ViewNextStep ==
  ASSUME StateInv, FeedInv, EvidenceInv, ViewInv, [ViewNext]_viewVars
  PROVE  ViewInv'
<1>1. CASE UNCHANGED vars /\ (ContinueView \/ \E r \in Run : BeginView(r))
  BY <1>1, ViewReadStep
<1>2. CASE view' = NoView
  BY <1>2 DEF ViewInv, NoView, Whole
<1>3. CASE view' = view /\ [Next]_vars
  <2>1. /\ Len(commits) \in Nat /\ Len(commits') \in Nat /\ Len(commits) <= Len(commits')
        /\ \A k \in 1..Len(commits) : commits'[k] = commits[k]
        /\ Len(trail) \in Nat /\ Len(trail') \in Nat /\ Len(trail) <= Len(trail')
        /\ \A i \in 1..Len(trail) : trail'[i] = trail[i]
        /\ aborted \subseteq aborted'
    BY <1>3, HistoryGrows
  <2>2. view.reads > 0 => /\ view.known \in 0..Len(commits)
                          /\ \A k \in 1..view.known : commits'[k] = commits[k]
    BY <2>1 DEF ViewInv
  <2>3. view.reads > 3 => /\ view.rows \in 0..Len(trail)
                          /\ \A i \in 1..view.rows : trail'[i] = trail[i]
    BY <2>1 DEF ViewInv
  <2>4. ASSUME view.reads > 0, NEW k \in 1..view.known, Late(commits[k]) PROVE Late(commits[k])'
    BY <1>3, <2>1, <2>2, <2>4 DEF Late
  <2>5. ASSUME view.reads > 1, NEW k \in 1..view.known
        PROVE  Late(commits[k])' \/ CheckpointSeen(commits[k])'
    <3>1. Late(commits[k]) \/ CheckpointSeen(commits[k])
      BY <2>5 DEF ViewInv
    <3> QED
      BY <1>3, <2>2, <2>4, <2>5, <3>1 DEF CheckpointSeen, ViewInv
  <2>6. ASSUME view.reads > 3, NEW k \in 1..view.known
        PROVE  Late(commits[k])' \/ RowsSeen(commits[k])'
    <3>1. Late(commits[k]) \/ RowsSeen(commits[k])
      BY <2>6 DEF ViewInv
    <3>2. CASE Late(commits[k])
      BY <2>4, <2>6, <3>2 DEF ViewInv
    <3>3. CASE RowsSeen(commits[k])
      <4>1. /\ commits'[k] = commits[k] /\ view'.rows = view.rows
            /\ \A i \in 1..view.rows : trail'[i] = trail[i]
        BY <1>3, <2>2, <2>3, <2>6 DEF ViewInv
      <4> QED
        BY <3>3, <4>1 DEF RowsSeen
    <3> QED
      BY <3>1, <3>2, <3>3
  <2> QED
    BY <1>3, <2>1, <2>2, <2>3, <2>5, <2>6 DEF ViewInv
<1> QED
  BY <1>1, <1>2, <1>3 DEF ViewNext, viewVars, GoOn, BeginView, ContinueView, Next

LEMMA ViewInvariant == ViewSpec => [](StateInv /\ EvidenceInv /\ ViewInv)
<1>1. Init => FeedInv
  BY FeedInit
<1>2. StateInv /\ FeedInv /\ [Next]_vars => FeedInv'
  BY FeedNext
<1>3. ViewInit => ViewInv
  BY DEF ViewInit, ViewInv, NoView, Whole
<1> QED
  BY <1>1, <1>2, <1>3, ViewNextStep, ViewIsLifecycle, EvidenceInvariant, PTL DEF ViewSpec, Spec

(* However many requests overlap, fail or crash while a view is read, it   *)
(* shows every change of its run's status with the evidence that was due.  *)
THEOREM ViewsShowEvidence == ViewSpec => []ViewEvidenced
<1>1. ViewInv => ViewEvidenced
  <2> SUFFICES ASSUME ViewInv, Shown, NEW k \in 1..view.known
               PROVE  LET c == commits[k] IN
                      \/ Late(c)
                      \/ CheckpointSeen(c) /\ RowsSeen(c)
    BY DEF ViewEvidenced, Late, CheckpointSeen, RowsSeen
  <2>1. view.reads = 4
    BY ReadsAre DEF Shown
  <2> QED
    BY <2>1 DEF ViewInv
<1> QED
  BY <1>1, ViewInvariant, PTL

-----------------------------------------------------------------------------
(* ControlsAccepted.                                                       *)

(* A run with approvals has one whose text sorts after all the others, and *)
(* no method ends a run but cancel_run.                                    *)
LatestInv ==
  /\ \A r \in Run : ApprovalsOf(r) # {} => \E a \in ApprovalId : Latest(r, a)
  /\ \A r \in Run : status[r] \notin {"completed", "failed"}

(* No two ticks have the same text.                                        *)
LEMMA TextDistinct == \A a, b \in ApprovalId : TextRank(a) = TextRank(b) => a = b
<1>1. ASSUME NEW a \in ApprovalId, NEW b \in ApprovalId, TextRank(a) = TextRank(b) PROVE a = b
  <2>1. a \in Int /\ b \in Int /\ Second \in Int
    BY SecondAssumption DEF ApprovalId
  <2>2. /\ TextRank(a) = 2 * (a + Second) - 1 \/ TextRank(a) = 2 * a
        /\ TextRank(b) = 2 * (b + Second) - 1 \/ TextRank(b) = 2 * b
    BY DEF TextRank
  <2> QED
    BY <1>1, <2>1, <2>2
<1> QED
  BY <1>1

LEMMA TextOrdered ==
  \A a, b \in ApprovalId : /\ TextRank(a) \in Int
                           /\ TextRank(a) <= TextRank(b) \/ TextRank(b) <= TextRank(a)
<1>1. ASSUME NEW a \in ApprovalId PROVE TextRank(a) \in Int
  <2>1. a \in Int /\ Second \in Int
    BY SecondAssumption DEF ApprovalId
  <2> QED
    BY <2>1 DEF TextRank
<1> QED
  BY <1>1

LEMMA OneLatest ==
  ASSUME NEW r, NEW a, NEW b, Latest(r, a), Latest(r, b)
  PROVE  a = b
<1>1. /\ a \in ApprovalId /\ b \in ApprovalId
      /\ TextRank(a) <= TextRank(b) /\ TextRank(b) <= TextRank(a)
  BY DEF Latest, ApprovalsOf
<1>2. TextRank(a) = TextRank(b)
  BY <1>1, TextOrdered
<1> QED
  BY <1>1, <1>2, TextDistinct

LEMMA LatestInsert ==
  ASSUME StateInv, FreshInv, LatestInv, NEW w \in Worker, MarkRunWaiting(w),
         NEW r \in Run, ApprovalsOf(r)' # {}
  PROVE  \E a \in ApprovalId : Latest(r, a)'
<1> DEFINE b == job[w].approval
           q == job[w].run
<1>0. /\ b \in ApprovalId /\ q \in Run /\ approvals[b].run \notin Run
      /\ approvals'[b] = [run |-> q, status |-> "pending"]
      /\ \A a \in ApprovalId : a # b => approvals'[a] = approvals[a]
  BY InsertedRow
<1>5. b' = b
  BY DEF MarkRunWaiting
<1> HIDE DEF b, q
<1>1. /\ approvals'[b].run = q
      /\ b \notin ApprovalsOf(r)
      /\ \A a \in ApprovalId : a # b => (a \in ApprovalsOf(r)' <=> a \in ApprovalsOf(r))
      /\ b \in ApprovalsOf(r)' <=> r = q
  BY <1>0 DEF ApprovalsOf
<1>2. \A a : a \in ApprovalsOf(r) \cup ApprovalsOf(r)' => a \in ApprovalId
  BY DEF ApprovalsOf
<1>3. CASE ApprovalsOf(r) = {}
  <2>1. ApprovalsOf(r)' = {b}
    BY <1>1, <1>2, <1>3
  <2>2. \A c \in ApprovalsOf(r)' : TextRank(c) <= TextRank(b)
    BY <1>0, <2>1, TextOrdered
  <2>3. Latest(r, b)'
    BY <1>5, <2>1, <2>2 DEF Latest
  <2> QED
    BY <1>0, <1>5, <2>3 DEF Latest
<1>4. CASE ApprovalsOf(r) # {}
  <2>1. PICK a \in ApprovalId : Latest(r, a)
    BY <1>4 DEF LatestInv
  <2>2. a \in ApprovalsOf(r) /\ a # b /\ a \in ApprovalsOf(r)'
    BY <1>1, <2>1 DEF Latest
  <2>3. CASE b \notin ApprovalsOf(r)' \/ TextRank(b) <= TextRank(a)
    <3>1. \A c \in ApprovalsOf(r)' : TextRank(c) <= TextRank(a)
      BY <1>1, <1>2, <2>1, <2>3 DEF Latest
    <3> QED
      BY <2>1, <2>2, <3>1 DEF Latest
  <2>4. CASE b \in ApprovalsOf(r)' /\ TextRank(a) <= TextRank(b)
    <3>1. ASSUME NEW c \in ApprovalsOf(r)' PROVE TextRank(c) <= TextRank(b)
      <4>1. c = b \/ TextRank(c) <= TextRank(a)
        BY <1>1, <1>2, <2>1, <3>1 DEF Latest
      <4>2. TextRank(a) \in Int /\ TextRank(b) \in Int /\ TextRank(c) \in Int
        BY <1>0, <1>2, <2>1, <3>1, TextOrdered
      <4> QED
        BY <2>4, <4>1, <4>2
    <3> QED
      BY <1>0, <1>5, <2>4, <3>1 DEF Latest
  <2> QED
    BY <1>0, <2>1, <2>3, <2>4, TextOrdered
<1> QED
  BY <1>3, <1>4

LEMMA LatestStep ==
  ASSUME StateInv, FreshInv, LatestInv, [Next]_vars
  PROVE  LatestInv'
<1>1. CASE status' = status /\ \A a \in ApprovalId : approvals'[a].run = approvals[a].run
  <2>1. \A r : ApprovalsOf(r)' = ApprovalsOf(r)
    BY <1>1 DEF ApprovalsOf
  <2> QED
    BY <1>1, <2>1 DEF LatestInv, Latest
<1>2. CASE Crash \/ UNCHANGED vars
  BY <1>1, <1>2 DEF Crash, database, vars
<1>3. ASSUME NEW w \in Worker, Start(w) \/ Proceed(w) \/ Fail(w) PROVE LatestInv'
  <2>1. \A r \in Run : status'[r] \notin {"completed", "failed"}
    <3>1. ASSUME NEW q \in Run, CreateRun(w, q) PROVE status' = [status EXCEPT ![q] = "pending"]
      BY <3>1 DEF CreateRun, InsertRun, Target
    <3>2. CASE UpdateRunStatus(w)
      <4>1. /\ status' = [status EXCEPT ![job[w].run] = Target(job[w].op)]
            /\ Target(job[w].op) \notin {"completed", "failed"}
        BY <3>2 DEF UpdateRunStatus, StateInv, JobOK, JobAt, StatusOp, Target
      <4> QED
        BY <4>1 DEF LatestInv, StateInv, TypeOK
    <3>3. CASE MarkRunWaiting(w)
      BY <3>3 DEF MarkRunWaiting, LatestInv, StateInv, TypeOK
    <3> QED
      BY <1>3, <3>1, <3>2, <3>3, StatusStep DEF LatestInv, StateInv, TypeOK
  <2>2. CASE MarkRunWaiting(w)
    BY <2>1, <2>2, LatestInsert DEF LatestInv
  <2>3. CASE approvals' = approvals \/ WriteDecision(w)
    <3>1. \A a \in ApprovalId : approvals'[a].run = approvals[a].run
      BY <2>3, DecidedRow
    <3>2. \A r : ApprovalsOf(r)' = ApprovalsOf(r)
      BY <3>1 DEF ApprovalsOf
    <3> QED
      BY <2>1, <3>2 DEF LatestInv, Latest
  <2> QED
    BY <1>3, <2>2, <2>3, ApprovalsStep
<1> QED
  BY <1>2, <1>3 DEF Next

LEMMA LatestInvariant == Spec => [](StateInv /\ LatestInv)
<1>1. Init => LatestInv
  BY NoRunAssumption DEF Init, LatestInv, ApprovalsOf, NoApproval
<1> QED
  BY <1>1, LatestStep, StateInvariant, FreshInvariant, PTL DEF Spec

-----------------------------------------------------------------------------
(* A write to the runs or the approvals is a commit.                       *)
LEMMA WritesAreCommits ==
  ASSUME StateInv, [Next]_vars
  PROVE  \/ UNCHANGED <<status, approvals, commits>>
         \/ Len(commits') = Len(commits) + 1
<1>1. ASSUME NEW w \in Worker, Start(w) \/ Proceed(w) \/ Fail(w)
      PROVE  \/ UNCHANGED <<status, approvals, commits>>
             \/ \E d : commits' = Append(commits, d)
  BY <1>1 DEF Start, CreateRun, ResumeRun, InterruptRun, RetryRun, CancelRun, RequestApproval,
     ReadRun, DecideApproval, Proceed, AssertResumeAllowed, CheckNonePending, StampApproval,
     MarkRunWaiting, UpdateRunStatus, WriteDecision, AppendCheckpoint, StampAudit, RecordAudit,
     RecordSecondAudit, Fail, Commit, database
<1>2. CASE Crash \/ UNCHANGED vars
  BY <1>2 DEF Crash, vars, database
<1>3. ASSUME NEW d, commits' = Append(commits, d) PROVE Len(commits') = Len(commits) + 1
  BY <1>3 DEF StateInv, TypeOK
<1> QED
  BY <1>1, <1>2, <1>3 DEF Next

(* s is the status of the latest approval of r, "none" if there is none.   *)
LatestIs(r, s) ==
  IF ApprovalsOf(r) = {} THEN s = "none"
                         ELSE \E a \in ApprovalId : Latest(r, a) /\ approvals[a].status = s

LEMMA LatestRead ==
  ASSUME LatestInv, NEW r \in Run
  PROVE  LatestIs(r, LatestStatus(r))
<1>1. CASE ApprovalsOf(r) = {}
  BY <1>1 DEF LatestIs, LatestStatus
<1>2. CASE ApprovalsOf(r) # {}
  <2> DEFINE a == CHOOSE b \in ApprovalsOf(r) : Latest(r, b)
  <2>1. \E b \in ApprovalsOf(r) : Latest(r, b)
    BY <1>2 DEF LatestInv, Latest
  <2>2. a \in ApprovalsOf(r) /\ Latest(r, a)
    BY <2>1
  <2>3. LatestStatus(r) = approvals[a].status
    BY <1>2 DEF LatestStatus
  <2>4. a \in ApprovalId
    BY <2>2 DEF ApprovalsOf
  <2> HIDE DEF a
  <2> QED
    BY <1>2, <2>2, <2>3, <2>4 DEF LatestIs
<1> QED
  BY <1>1, <1>2

(* While nothing has been committed since the first read, what was read is *)
(* what the tables hold.                                                   *)
CurrentInv ==
  /\ view.reads > 0 => view.run \in Run
  /\ view.reads > 0 /\ view.known = Len(commits) =>
       status[view.run] # "absent" /\ view.status = status[view.run]
  /\ view.reads > 2 /\ view.known = Len(commits) => LatestIs(view.run, view.approval)

LEMMA CurrentStep ==
  ASSUME StateInv, LatestInv, ViewInv, CurrentInv, [ViewNext]_viewVars
  PROVE  CurrentInv'
<1>1. CASE UNCHANGED vars /\ (ContinueView \/ \E r \in Run : BeginView(r))
  <2>1. UNCHANGED <<status, approvals, commits>>
    BY <1>1 DEF vars
  <2>2. \A r, s : LatestIs(r, s)' <=> LatestIs(r, s)
    BY <2>1 DEF LatestIs, Latest, ApprovalsOf
  <2>3. ASSUME NEW r \in Run, BeginView(r) PROVE CurrentInv'
    <3>1. /\ view'.reads = 1 /\ view'.run = r /\ view'.status = status[r] /\ status[r] # "absent"
      BY <2>3, BeginAdds DEF BeginView
    <3> QED
      BY <2>1, <3>1 DEF CurrentInv
  <2>4. CASE ContinueView
    <3>1. /\ view.reads \in 1..3 /\ view'.reads = view.reads + 1
          /\ view'.run = view.run /\ view'.known = view.known /\ view'.status = view.status
          /\ view.reads = 2 => view'.approval = LatestStatus(view.run)
          /\ view.reads # 2 => view'.approval = view.approval
      BY <2>4, ReadAdds
    <3>2. view.run \in Run
      BY <3>1 DEF CurrentInv
    <3>3. view.reads = 2 => LatestIs(view.run, view.approval)'
      BY <2>2, <3>1, <3>2, LatestRead
    <3> QED
      BY <2>1, <2>2, <3>1, <3>2, <3>3 DEF CurrentInv
  <2> QED
    BY <1>1, <2>3, <2>4
<1>2. CASE view' = NoView
  BY <1>2 DEF CurrentInv, NoView
<1>3. CASE view' = view /\ [Next]_vars
  <2>1. view.reads > 0 => view.known \in 0..Len(commits)
    BY DEF ViewInv
  <2>2. CASE UNCHANGED <<status, approvals, commits>>
    <3>1. \A r, s : LatestIs(r, s)' <=> LatestIs(r, s)
      BY <2>2 DEF LatestIs, Latest, ApprovalsOf
    <3> QED
      BY <1>3, <2>2, <3>1 DEF CurrentInv
  <2>3. CASE Len(commits') = Len(commits) + 1
    <3>1. Len(commits) \in Nat /\ view.reads \in 0..4
      BY DEF StateInv, TypeOK, ViewInv
    <3>2. view'.reads > 0 => view'.known # Len(commits')
      BY <1>3, <2>1, <2>3, <3>1
    <3> QED
      BY <1>3, <3>1, <3>2 DEF CurrentInv
  <2> QED
    BY <1>3, <2>2, <2>3, WritesAreCommits
<1> QED
  BY <1>1, <1>2, <1>3 DEF ViewNext, viewVars, GoOn, BeginView, ContinueView, Next

LEMMA CurrentMeans ==
  ASSUME StateInv, LatestInv, ViewInv, CurrentInv
  PROVE  ControlsAccepted
<1> SUFFICES ASSUME Shown, view.known = Len(commits), NEW op \in Op \ {"create_run"},
                    Enabled(op, view.status, view.approval)
             PROVE  Accepted(op, view.run) \/ (op = "retry_run" /\ view.status = "canceled")
  BY DEF ControlsAccepted
<1> DEFINE r == view.run
           s == view.status
           a == view.approval
<1>1. view.reads = 4
  BY ReadsAre DEF Shown
<1>2. /\ r \in Run /\ s = status[r] /\ s # "absent" /\ s \notin {"completed", "failed"}
      /\ LatestIs(r, a)
  BY <1>1 DEF CurrentInv, LatestInv
<1>3. a \in {"none", "approved"} => Cleared(r)
  BY <1>2 DEF LatestIs, Cleared, StateInv, TypeOK, ApprovalStatus
<1>4. a = "pending" => HasPending(r)
  BY <1>2 DEF LatestIs, HasPending
<1>5. ASSUME HasPending(r) PROVE a = "pending"
  <2>1. PICK b \in ApprovalId : Latest(r, b) /\ approvals[b].status = "pending"
    BY <1>5 DEF HasPending
  <2>2. PICK c \in ApprovalId : Latest(r, c) /\ approvals[c].status = a
    BY <1>2, <2>1 DEF LatestIs, Latest
  <2>3. b = c
    BY <2>1, <2>2, OneLatest
  <2> QED
    BY <2>1, <2>2, <2>3
<1> HIDE DEF r, s, a
<1>6. CASE op \in StatusOp
  <2>1. Accepted(op, r) <=> status[r] \notin Refused(op) /\ (op = "resume_run" => Cleared(r))
    BY <1>6 DEF Accepted, StatusOp
  <2>2. Enabled(op, s, a)
    BY DEF s, a
  <2>3. op = "resume_run" => s \notin Refused(op) /\ a \in {"none", "approved"}
    BY <2>2 DEF Enabled, Refused
  <2>4. op = "interrupt_run" => s \notin Refused(op)
    BY <1>2, <2>2 DEF Enabled, Refused
  <2>5. op = "cancel_run" => s \notin Refused(op)
    BY <1>2, <2>2 DEF Enabled, Refused
  <2>6. op = "retry_run" => s \notin Refused(op) \/ s = "canceled"
    BY <1>2, <2>2 DEF Enabled, Refused
  <2>7. s \notin Refused(op) \/ (op = "retry_run" /\ s = "canceled")
    BY <1>6, <2>3, <2>4, <2>5, <2>6 DEF StatusOp
  <2> QED
    BY <1>2, <1>3, <2>1, <2>3, <2>7 DEF r, s
<1>7. CASE op = "request_approval"
  BY <1>2, <1>5, <1>7 DEF Enabled, Accepted, Refused, StatusOp, r, s, a
<1>8. CASE op = "decide_approval"
  BY <1>4, <1>8 DEF Enabled, Accepted, StatusOp, r, a
<1> QED
  BY <1>6, <1>7, <1>8 DEF Op

(* A view during which nothing is committed offers the operator only what  *)
(* the service would accept, a retry of a canceled run apart.              *)
THEOREM ControlsMatch == ViewSpec => []ControlsAccepted
<1>1. ViewInit => CurrentInv
  BY DEF ViewInit, CurrentInv, NoView
<1>2. StateInv /\ LatestInv /\ ViewInv /\ CurrentInv => ControlsAccepted
  BY CurrentMeans
<1> QED
  BY <1>1, <1>2, CurrentStep, ViewInvariant, ViewIsLifecycle, LatestInvariant, PTL DEF ViewSpec

-----------------------------------------------------------------------------
(* Requests on one run do not overlap: each run has one in progress at a   *)
(* time, on any thread.  Those on different runs interleave freely.        *)
NoOverlap == \A v, w \in Worker :
  pc[v] # "idle" /\ pc[w] # "idle" /\ job[v].run = job[w].run => v = w

(* A request takes its steps while every other one is on another run.      *)
LEMMA OthersElsewhere ==
  ASSUME StateInv, NoOverlap, NoOverlap', NEW w \in Worker, Start(w) \/ Proceed(w) \/ Fail(w),
         NEW v \in Worker, v # w, pc'[v] # "idle"
  PROVE  /\ pc'[v] = pc[v] /\ job'[v] = job[v] /\ job[v].run \in Run
         /\ Start(w) => job'[w].run # job[v].run
         /\ Proceed(w) \/ Fail(w) => job[w].run # job[v].run
<1>1. pc'[v] = pc[v] /\ job'[v] = job[v]
  BY DEF Start, CreateRun, ResumeRun, InterruptRun, RetryRun, CancelRun, RequestApproval,
     ReadRun, DecideApproval, Admit, Proceed, AssertResumeAllowed, CheckNonePending, StampApproval,
     MarkRunWaiting, UpdateRunStatus, WriteDecision, AppendCheckpoint, StampAudit, RecordAudit,
     RecordSecondAudit, Fail, Goto, Finish, StateInv, TypeOK
<1>2. ASSUME Start(w) PROVE job'[w].run # job[v].run
  <2>1. pc'[w] # "idle"
    BY <1>2 DEF Start, CreateRun, ResumeRun, InterruptRun, RetryRun, CancelRun, RequestApproval,
       ReadRun, DecideApproval, Admit, StateInv, TypeOK
  <2> QED
    BY <1>1, <2>1 DEF NoOverlap
<1>3. ASSUME Proceed(w) \/ Fail(w) PROVE job[w].run # job[v].run
  <2>1. pc[w] # "idle"
    BY <1>3 DEF Proceed, AssertResumeAllowed, CheckNonePending, StampApproval,
       MarkRunWaiting, UpdateRunStatus, WriteDecision, AppendCheckpoint, StampAudit, RecordAudit,
       RecordSecondAudit, Fail
  <2> QED
    BY <1>1, <2>1 DEF NoOverlap
<1>4. job[v].run \in Run
  BY <1>1 DEF StateInv, JobOK, JobAt
<1> QED
  BY <1>1, <1>2, <1>3, <1>4

(* What the request of w has checked still holds when it writes.           *)
CheckedAt(w) ==
  /\ pc[w] \in {"gate", "update", "list_approvals", "stamp", "mark_waiting"} =>
       status[job[w].run] \notin Refused(job[w].op) \cup {"absent"}
  /\ pc[w] \in {"gate", "update"} /\ job[w].op = "resume_run" => job[w].seen = status[job[w].run]
  /\ pc[w] = "update" /\ job[w].op = "resume_run" => Cleared(job[w].run)
  /\ pc[w] \in {"stamp", "mark_waiting"} => ~HasPending(job[w].run)
  /\ pc[w] = "decide" => /\ approvals[job[w].approval].status = "pending"
                         /\ approvals[job[w].approval].run = job[w].run

CheckedInv == \A w \in Worker : CheckedAt(w)

LEMMA TablesStay ==
  ASSUME UNCHANGED <<status, approvals>>
  PROVE  \A r : /\ Cleared(r)' <=> Cleared(r)
                /\ HasPending(r)' <=> HasPending(r)
                /\ ApprovalsOf(r)' = ApprovalsOf(r)
                /\ \A a : Latest(r, a)' <=> Latest(r, a)
BY DEF Cleared, HasPending, ApprovalsOf, Latest

LEMMA CheckedStart ==
  ASSUME StateInv, NEW w \in Worker, Start(w)
  PROVE  CheckedAt(w)'
<1>1. ASSUME NEW op, NEW r \in Run, NEW next, ReadRun(w, op, r, next),
             \/ next = "gate" /\ op = "resume_run"
             \/ next = "update" /\ op \in {"interrupt_run", "retry_run", "cancel_run"}
             \/ next = "list_approvals" /\ op = "request_approval"
      PROVE  CheckedAt(w)'
  <2>1. /\ pc'[w] = next /\ job'[w].run = r /\ job'[w].op = op
        /\ op = "resume_run" => job'[w].seen = status[r]
        /\ UNCHANGED <<status, approvals>> /\ status[r] \notin Refused(op) \cup {"absent"}
    BY <1>1 DEF ReadRun, Admit, NewJob, database, StateInv, TypeOK
  <2> QED
    BY <1>1, <2>1 DEF CheckedAt
<1>2. ASSUME NEW a \in ApprovalId, NEW v \in Verdict, DecideApproval(w, a, v) PROVE CheckedAt(w)'
  <2>1. /\ pc'[w] = "decide" /\ job'[w].approval = a /\ job'[w].run = approvals[a].run
        /\ UNCHANGED approvals /\ approvals[a].status = "pending"
    BY <1>2 DEF DecideApproval, Admit, NewJob, database, StateInv, TypeOK
  <2> QED
    BY <2>1 DEF CheckedAt
<1>3. ASSUME NEW r \in Run, CreateRun(w, r) PROVE CheckedAt(w)'
  <2>1. pc'[w] = "checkpoint"
    BY <1>3 DEF CreateRun, Admit, StateInv, TypeOK
  <2> QED
    BY <2>1 DEF CheckedAt
<1> QED
  BY <1>1, <1>2, <1>3 DEF Start, ResumeRun, InterruptRun, RetryRun, CancelRun, RequestApproval

LEMMA CheckedProceed ==
  ASSUME StateInv, NEW w \in Worker, CheckedAt(w), Proceed(w) \/ Fail(w)
  PROVE  CheckedAt(w)'
<1>1. CASE AssertResumeAllowed(w)
  <2>1. UNCHANGED <<status, approvals>> /\ pc[w] = "gate" /\ job[w].op = "resume_run"
    BY <1>1 DEF AssertResumeAllowed, database, StateInv, JobOK, JobAt
  <2>2. CASE Cleared(job[w].run)
    <3>1. pc'[w] = "update" /\ job'[w] = job[w]
      BY <1>1, <2>2 DEF AssertResumeAllowed, Goto, StateInv, TypeOK
    <3> QED
      BY <2>1, <2>2, <3>1, TablesStay DEF CheckedAt
  <2>3. CASE ~Cleared(job[w].run)
    <3>1. pc'[w] = "idle"
      BY <1>1, <2>3 DEF AssertResumeAllowed, Finish, StateInv, TypeOK
    <3> QED
      BY <3>1 DEF CheckedAt
  <2> QED
    BY <2>2, <2>3
<1>2. CASE CheckNonePending(w)
  <2>1. UNCHANGED <<status, approvals>> /\ pc[w] = "list_approvals"
    BY <1>2 DEF CheckNonePending, database
  <2>2. CASE ~HasPending(job[w].run)
    <3>1. pc'[w] = "stamp" /\ job'[w] = job[w]
      BY <1>2, <2>2 DEF CheckNonePending, Goto, StateInv, TypeOK
    <3> QED
      BY <2>1, <2>2, <3>1, TablesStay DEF CheckedAt
  <2>3. CASE HasPending(job[w].run)
    <3>1. pc'[w] = "idle"
      BY <1>2, <2>3 DEF CheckNonePending, Finish, StateInv, TypeOK
    <3> QED
      BY <3>1 DEF CheckedAt
  <2> QED
    BY <2>2, <2>3
<1>3. CASE StampApproval(w)
  <2>1. /\ UNCHANGED <<status, approvals>> /\ pc[w] = "stamp" /\ pc'[w] = "mark_waiting"
        /\ job'[w].run = job[w].run /\ job'[w].op = job[w].op
    BY <1>3 DEF StampApproval, Goto, database, StateInv, TypeOK, Job
  <2> QED
    BY <2>1, TablesStay DEF CheckedAt
<1>4. CASE \/ MarkRunWaiting(w) \/ UpdateRunStatus(w) \/ WriteDecision(w) \/ AppendCheckpoint(w)
           \/ StampAudit(w) \/ RecordAudit(w) \/ RecordSecondAudit(w) \/ Fail(w)
  <2>1. pc'[w] \in {"audit", "checkpoint", "insert", "audit_again", "insert_again", "idle"}
    BY <1>4 DEF MarkRunWaiting, UpdateRunStatus, WriteDecision, AppendCheckpoint, StampAudit, RecordAudit,
       RecordSecondAudit, Fail, Goto, Finish, StateInv, TypeOK
  <2> QED
    BY <2>1 DEF CheckedAt
<1> QED
  BY <1>1, <1>2, <1>3, <1>4 DEF Proceed

(* A step leaves the runs alone that its request is not about.             *)
LEMMA OtherRuns ==
  ASSUME StateInv, FreshInv, CheckedInv, NEW w \in Worker, Start(w) \/ Proceed(w) \/ Fail(w),
         NEW r \in Run,
         Start(w) => job'[w].run # r,
         Proceed(w) \/ Fail(w) => job[w].run # r
  PROVE  /\ status'[r] = status[r]
         /\ ApprovalsOf(r)' = ApprovalsOf(r)
         /\ \A a \in ApprovalsOf(r) : a \in ApprovalId /\ approvals'[a] = approvals[a]
<1>1. status'[r] = status[r]
  <2>1. ASSUME NEW q \in Run, CreateRun(w, q) PROVE q # r
    <3>1. Start(w) /\ job'[w].run = q
      BY <2>1 DEF Start, CreateRun, Admit, NewJob, StateInv, TypeOK
    <3> QED
      BY <3>1
  <2>2. MarkRunWaiting(w) \/ UpdateRunStatus(w) => Proceed(w)
    BY DEF Proceed
  <2> QED
    BY <2>1, <2>2, StatusStep DEF CreateRun, InsertRun, MarkRunWaiting, UpdateRunStatus, StateInv, TypeOK
<1>2. /\ ApprovalsOf(r)' = ApprovalsOf(r)
      /\ \A a \in ApprovalsOf(r) : a \in ApprovalId /\ approvals'[a] = approvals[a]
  <2>1. CASE approvals' = approvals
    BY <2>1 DEF ApprovalsOf
  <2>2. CASE MarkRunWaiting(w)
    <3> DEFINE b == job[w].approval
               q == job[w].run
    <3>1. /\ b \in ApprovalId /\ q \in Run /\ approvals[b].run \notin Run
          /\ approvals'[b] = [run |-> q, status |-> "pending"]
          /\ \A a \in ApprovalId : a # b => approvals'[a] = approvals[a]
      BY <2>2, InsertedRow
    <3>2. q # r
      BY <2>2 DEF Proceed
    <3> HIDE DEF b, q
    <3>3. approvals'[b].run = q
      BY <3>1
    <3> QED
      BY <3>1, <3>2, <3>3 DEF ApprovalsOf
  <2>3. CASE WriteDecision(w)
    <3> DEFINE b == job[w].approval
    <3>1. /\ b \in ApprovalId
          /\ \A a \in ApprovalId : /\ approvals'[a].run = approvals[a].run
                                   /\ a # b => approvals'[a] = approvals[a]
      BY <2>3, DecidedRow
    <3>2. approvals[b].run # r
      BY <2>3 DEF Proceed, WriteDecision, CheckedInv, CheckedAt
    <3> HIDE DEF b
    <3> QED
      BY <3>1, <3>2 DEF ApprovalsOf
  <2> QED
    BY <2>1, <2>2, <2>3, ApprovalsStep
<1> QED
  BY <1>1, <1>2

LEMMA CheckedOther ==
  ASSUME NoOverlap, NoOverlap', StateInv, FreshInv, CheckedInv,
         NEW w \in Worker, Start(w) \/ Proceed(w) \/ Fail(w), NEW v \in Worker, v # w
  PROVE  CheckedAt(v)'
<1>1. CASE pc'[v] = "idle"
  BY <1>1 DEF CheckedAt
<1>2. CASE pc'[v] # "idle"
  <2> DEFINE r == job[v].run
  <2>1. pc'[v] = pc[v] /\ job'[v] = job[v] /\ r \in Run /\ CheckedAt(v)
    BY <1>2, OthersElsewhere DEF CheckedInv
  <2>2. /\ status'[r] = status[r]
        /\ ApprovalsOf(r)' = ApprovalsOf(r)
        /\ \A a \in ApprovalsOf(r) : a \in ApprovalId /\ approvals'[a] = approvals[a]
    BY <1>2, OthersElsewhere, OtherRuns
  <2>3. r' = r
    BY <2>1
  <2>4. /\ Cleared(r) => Cleared(r)'
        /\ ~HasPending(r) => ~HasPending(r)'
    BY <2>2, <2>3 DEF Cleared, HasPending, Latest
  <2>5. pc[v] = "decide" => job[v].approval \in ApprovalsOf(r)
    BY <2>1 DEF CheckedAt, ApprovalsOf, StateInv, JobOK, JobAt
  <2> QED
    BY <2>1, <2>2, <2>3, <2>4, <2>5 DEF CheckedAt
<1> QED
  BY <1>1, <1>2

LEMMA CheckedNext ==
  ASSUME NoOverlap, NoOverlap', StateInv, FreshInv, CheckedInv, [Next]_vars
  PROVE  CheckedInv'
<1>1. CASE Crash
  BY <1>1 DEF Crash, CheckedInv, CheckedAt
<1>2. CASE UNCHANGED vars
  <2>1. UNCHANGED <<status, approvals, pc, job>>
    BY <1>2 DEF vars
  <2> QED
    BY <2>1, TablesStay DEF CheckedInv, CheckedAt
<1>3. ASSUME NEW w \in Worker, Start(w) \/ Proceed(w) \/ Fail(w) PROVE CheckedInv'
  <2>1. CheckedAt(w)'
    BY <1>3, CheckedStart, CheckedProceed DEF CheckedInv
  <2>2. \A v \in Worker : v # w => CheckedAt(v)'
    BY <1>3, CheckedOther
  <2> QED
    BY <2>1, <2>2 DEF CheckedInv
<1> QED
  BY <1>1, <1>2, <1>3 DEF Next

LEMMA CheckedInvariant == Spec /\ []NoOverlap => []CheckedInv
<1>1. Init => CheckedInv
  BY DEF Init, CheckedInv, CheckedAt
<1>2. NoOverlap /\ NoOverlap' /\ StateInv /\ FreshInv /\ CheckedInv /\ [Next]_vars => CheckedInv'
  BY CheckedNext
<1> QED
  BY <1>1, <1>2, StateInvariant, FreshInvariant, PTL DEF Spec

-----------------------------------------------------------------------------
(* RunningImpliesCleared.                                                  *)

LEMMA RunningStep ==
  ASSUME StateInv, FreshInv, CheckedInv, RunningImpliesCleared,
         NEW w \in Worker, Start(w) \/ Proceed(w) \/ Fail(w)
  PROVE  RunningImpliesCleared'
<1>1. ASSUME NEW q \in Run, CreateRun(w, q) PROVE RunningImpliesCleared'
  <2>1. status' = [status EXCEPT ![q] = "pending"] /\ approvals' = approvals
    BY <1>1 DEF CreateRun, InsertRun, Target
  <2>2. \A r \in Run : Cleared(r)' <=> Cleared(r)
    BY <2>1 DEF Cleared, Latest, ApprovalsOf
  <2> QED
    BY <2>1, <2>2 DEF RunningImpliesCleared, StateInv, TypeOK
<1>2. CASE UpdateRunStatus(w)
  <2>1. /\ status' = [status EXCEPT ![job[w].run] = Target(job[w].op)] /\ approvals' = approvals
        /\ pc[w] = "update" /\ job[w].op \in StatusOp /\ job[w].run \in Run
    BY <1>2 DEF UpdateRunStatus, StateInv, JobOK, JobAt
  <2>2. Target(job[w].op) = "running" => Cleared(job[w].run)
    BY <2>1 DEF StatusOp, Target, CheckedInv, CheckedAt
  <2>3. \A r \in Run : Cleared(r)' <=> Cleared(r)
    BY <2>1 DEF Cleared, Latest, ApprovalsOf
  <2> QED
    BY <2>1, <2>2, <2>3 DEF RunningImpliesCleared, StateInv, TypeOK
<1>3. CASE MarkRunWaiting(w)
  <2> DEFINE b == job[w].approval
             q == job[w].run
  <2>0. /\ b \in ApprovalId /\ q \in Run /\ approvals[b].run \notin Run
        /\ approvals'[b] = [run |-> q, status |-> "pending"]
        /\ \A a \in ApprovalId : a # b => approvals'[a] = approvals[a]
    BY <1>3, InsertedRow
  <2>1. /\ b \in ApprovalId /\ q \in Run /\ approvals[b].run \notin Run /\ approvals'[b].run = q
        /\ \A a \in ApprovalId : a # b => approvals'[a] = approvals[a]
    BY <2>0
  <2>2. status' = [status EXCEPT ![q] = "waiting_approval"]
    BY <1>3 DEF MarkRunWaiting
  <2> HIDE DEF b, q
  <2>3. ASSUME NEW r \in Run, r # q, Cleared(r) PROVE Cleared(r)'
    <3>1. ApprovalsOf(r)' = ApprovalsOf(r) /\ b \notin ApprovalsOf(r)
      BY <2>1, <2>3 DEF ApprovalsOf
    <3> QED
      BY <2>1, <2>3, <3>1 DEF Cleared, Latest
  <2> QED
    BY <2>1, <2>2, <2>3 DEF RunningImpliesCleared, StateInv, TypeOK
<1>4. CASE WriteDecision(w)
  <2> DEFINE b == job[w].approval
  <2>1. /\ b \in ApprovalId /\ approvals[b].status = "pending" /\ status' = status
        /\ \A a \in ApprovalId : /\ approvals'[a].run = approvals[a].run
                                 /\ a # b => approvals'[a] = approvals[a]
    BY <1>4, DecidedRow DEF CheckedInv, CheckedAt, WriteDecision
  <2> HIDE DEF b
  <2>2. ASSUME NEW r \in Run, Cleared(r) PROVE Cleared(r)'
    <3>1. ApprovalsOf(r)' = ApprovalsOf(r)
      BY <2>1 DEF ApprovalsOf
    <3> QED
      BY <2>1, <2>2, <3>1 DEF Cleared, Latest
  <2> QED
    BY <2>1, <2>2 DEF RunningImpliesCleared
<1>5. CASE status' = status /\ approvals' = approvals
  BY <1>5 DEF RunningImpliesCleared, Cleared, Latest, ApprovalsOf
<1> QED
  BY <1>1, <1>2, <1>3, <1>4, <1>5, StatusStep, ApprovalsStep

(* A run whose requests do not overlap is running only when it has no      *)
(* approval or its latest one is approved.                                 *)
THEOREM RunningIsCleared == Spec /\ []NoOverlap => []RunningImpliesCleared
<1>1. Init => RunningImpliesCleared
  BY DEF Init, RunningImpliesCleared
<1>2. StateInv /\ FreshInv /\ CheckedInv /\ RunningImpliesCleared /\ [Next]_vars => RunningImpliesCleared'
  <2> SUFFICES ASSUME StateInv, FreshInv, CheckedInv, RunningImpliesCleared, [Next]_vars
               PROVE  RunningImpliesCleared'
    OBVIOUS
  <2>1. CASE Crash \/ UNCHANGED vars
    BY <2>1 DEF Crash, database, vars, RunningImpliesCleared, Cleared, Latest, ApprovalsOf
  <2> QED
    BY <2>1, RunningStep DEF Next
<1> QED
  BY <1>1, <1>2, CheckedInvariant, StateInvariant, FreshInvariant, PTL DEF Spec

-----------------------------------------------------------------------------
(* ImplementsRunPolicy.                                                    *)

(* No approval was stamped on a whole second: their texts are then in the  *)
(* order of their stamps.                                                  *)
NoWholeSecond == \A a \in ApprovalId : approvals[a].status # "absent" => a % Second # 0

LEMMA TextKeepsOrder ==
  ASSUME NEW a \in ApprovalId, NEW b \in ApprovalId, a % Second # 0, b % Second # 0
  PROVE  TextRank(a) <= TextRank(b) <=> a <= b
<1>1. a \in Int /\ b \in Int
  BY DEF ApprovalId
<1>2. TextRank(a) = 2 * a /\ TextRank(b) = 2 * b
  BY DEF TextRank
<1> QED
  BY <1>1, <1>2

LEMMA LatestIsNewest ==
  ASSUME StateInv, NoWholeSecond, NEW r \in Run
  PROVE  Cleared(r) <=> Policy!Cleared(r)
<1>1. ApprovalsOf(r) = Policy!ApprovalsOf(r) /\ ApprovalsOf(r) \subseteq ApprovalId
  BY DEF ApprovalsOf, Policy!ApprovalsOf, ApprovalId, Policy!ApprovalId
<1>2. \A a \in ApprovalsOf(r) : a \in ApprovalId /\ a % Second # 0
  BY <1>1 DEF ApprovalsOf, StateInv, ApprovalsOK, NoWholeSecond
<1>3. \A a, b \in ApprovalsOf(r) : TextRank(b) <= TextRank(a) <=> b <= a
  BY <1>2, TextKeepsOrder
<1>4. \A a : Latest(r, a) <=> Policy!Newest(r, a)
  BY <1>1, <1>3 DEF Latest, Policy!Newest
<1> QED
  BY <1>1, <1>4 DEF Cleared, Policy!Cleared, ApprovalId, Policy!ApprovalId

(* A pending approval is the latest of its run, and the approval that is   *)
(* about to be inserted is newer than those its run has.                   *)
PendingLast ==
  /\ \A a \in ApprovalId : approvals[a].status = "pending" => Latest(approvals[a].run, a)
  /\ \A w \in Worker : pc[w] = "mark_waiting" =>
       \A a \in ApprovalsOf(job[w].run) : a < job[w].approval

(* No approval of r is pending when its latest one is not.                 *)
LEMMA NoneUndecided ==
  ASSUME StateInv, PendingLast, NEW r \in Run, ~HasPending(r)
  PROVE  ~Policy!Undecided(r)
BY DEF PendingLast, HasPending, Policy!Undecided, Policy!ApprovalsOf, ApprovalsOf, ApprovalId,
   Policy!ApprovalId

(* The inserted row is newer than the others of its run, of which none is  *)
(* pending.                                                                *)
LEMMA InsertedLast ==
  ASSUME StateInv, CheckedInv, PendingLast, NEW w \in Worker, MarkRunWaiting(w)
  PROVE  /\ ~HasPending(job[w].run)
         /\ \A a \in ApprovalsOf(job[w].run) : a < job[w].approval
BY DEF MarkRunWaiting, PendingLast, CheckedInv, CheckedAt

LEMMA PendingInsert ==
  ASSUME NoWholeSecond', StateInv, FreshInv, CheckedInv, PendingLast,
         NEW w \in Worker, MarkRunWaiting(w)
  PROVE  \A a \in ApprovalId : approvals'[a].status = "pending" => Latest(approvals[a].run, a)'
<1> DEFINE b == job[w].approval
           q == job[w].run
<1>1. /\ b \in ApprovalId /\ q \in Run /\ approvals[b].run \notin Run
      /\ approvals'[b] = [run |-> q, status |-> "pending"]
      /\ \A a \in ApprovalId : a # b => approvals'[a] = approvals[a]
  BY InsertedRow
<1>2. /\ ~HasPending(q)
      /\ \A a \in ApprovalsOf(q) : a < b
  BY InsertedLast
<1>5. b' = b /\ q' = q
  BY DEF MarkRunWaiting
<1> HIDE DEF b, q
<1>3. approvals'[b].run = q /\ approvals'[b].status = "pending"
  BY <1>1
<1>4. ASSUME NEW a \in ApprovalId, approvals'[a].status = "pending" PROVE Latest(approvals[a].run, a)'
  <2>1. CASE a = b
    <3>1. ASSUME NEW c \in ApprovalsOf(q)' PROVE TextRank(c) <= TextRank(b)
      <4>1. c \in ApprovalId /\ (c # b => approvals[c].run = q)
        BY <1>1, <1>5, <3>1 DEF ApprovalsOf
      <4>2. c # b => approvals[c].status # "absent"
        BY <1>1, <4>1 DEF StateInv, ApprovalsOK
      <4>3. c # b => c < b
        BY <1>2, <4>1 DEF ApprovalsOf
      <4>4. c \in Int /\ b \in Int
        BY <1>1, <4>1 DEF ApprovalId
      <4>5. c <= b
        BY <4>3, <4>4
      <4>6. approvals'[b].status # "absent" /\ approvals'[c].status # "absent"
        BY <1>1, <1>3, <4>1, <4>2
      <4>7. b % Second # 0 /\ c % Second # 0
        BY <1>1, <4>1, <4>6 DEF NoWholeSecond
      <4> QED
        BY <1>1, <4>1, <4>5, <4>7, TextKeepsOrder
    <3> QED
      BY <1>1, <1>3, <1>5, <2>1, <3>1 DEF Latest, ApprovalsOf
  <2>2. CASE a # b
    <3> DEFINE r == approvals[a].run
    <3>0. approvals'[a] = approvals[a] /\ approvals[a].status = "pending"
      BY <1>1, <1>4, <2>2
    <3>1. approvals'[a] = approvals[a] /\ Latest(r, a) /\ a \in ApprovalsOf(r) /\ r \in Run
      BY <3>0 DEF PendingLast, Latest, StateInv, ApprovalsOK
    <3>2. r # q
      BY <1>2, <3>0, <3>1 DEF HasPending
    <3>3. ApprovalsOf(r)' = ApprovalsOf(r)
      BY <1>1, <1>3, <3>1, <3>2 DEF ApprovalsOf
    <3> HIDE DEF r
    <3>4. Latest(r, a)'
      BY <3>1, <3>3 DEF Latest
    <3>5. approvals'[a].run = r
      BY <3>1 DEF r
    <3> QED
      BY <3>4, <3>5 DEF Latest, ApprovalsOf
  <2> QED
    BY <2>1, <2>2
<1> QED
  BY <1>4

LEMMA PendingStep ==
  ASSUME NoOverlap, NoOverlap', NoWholeSecond', StateInv, FreshInv, CheckedInv, PendingLast,
         NEW w \in Worker, Start(w) \/ Proceed(w) \/ Fail(w)
  PROVE  PendingLast'
<1>1. ASSUME NEW v \in Worker, pc'[v] = "mark_waiting", NEW a \in ApprovalsOf(job[v].run)'
      PROVE  a < job'[v].approval
  <2>1. CASE v = w
    <3>1. StampApproval(w)
      BY <1>1, <2>1 DEF Start, CreateRun, ResumeRun, InterruptRun, RetryRun, CancelRun,
         RequestApproval, ReadRun, DecideApproval, Admit, Proceed, AssertResumeAllowed,
         CheckNonePending, MarkRunWaiting, UpdateRunStatus, WriteDecision, AppendCheckpoint, StampAudit,
         RecordAudit, RecordSecondAudit, Fail, Goto, Finish, StateInv, TypeOK
    <3>2. /\ job'[w].approval = stamped + 1 /\ job'[w].run = job[w].run
          /\ approvals' = approvals /\ pc[w] = "stamp"
      BY <3>1 DEF StampApproval, database, StateInv, TypeOK, Job
    <3>3. a \in ApprovalId /\ approvals[a].run = job[w].run /\ job[w].run \in Run
      BY <1>1, <2>1, <3>2 DEF ApprovalsOf, StateInv, JobOK, JobAt
    <3>4. a <= stamped /\ a \in Int /\ stamped \in Int
      BY <3>3 DEF FreshInv, StateInv, ApprovalsOK, TypeOK, ApprovalId
    <3> QED
      BY <2>1, <3>2, <3>4
  <2>2. CASE v # w
    <3> DEFINE r == job[v].run
    <3>1. pc[v] = "mark_waiting" /\ job'[v] = job[v] /\ r \in Run
      BY <1>1, <2>2, OthersElsewhere
    <3>2. ApprovalsOf(r)' = ApprovalsOf(r)
      BY <1>1, <2>2, OthersElsewhere, OtherRuns
    <3> QED
      BY <1>1, <3>1, <3>2 DEF PendingLast
  <2> QED
    BY <2>1, <2>2
<1>2. \A a \in ApprovalId : approvals'[a].status = "pending" => Latest(approvals[a].run, a)'
  <2>1. CASE approvals' = approvals
    BY <2>1 DEF PendingLast, Latest, ApprovalsOf
  <2>2. CASE WriteDecision(w)
    <3> DEFINE b == job[w].approval
    <3>1. /\ b \in ApprovalId /\ approvals'[b].status \in Verdict
          /\ \A a \in ApprovalId : /\ approvals'[a].run = approvals[a].run
                                   /\ a # b => approvals'[a] = approvals[a]
      BY <2>2, DecidedRow
    <3> HIDE DEF b
    <3>2. ASSUME NEW a \in ApprovalId, approvals'[a].status = "pending"
          PROVE  Latest(approvals[a].run, a)'
      <4>1. a # b /\ approvals'[a] = approvals[a] /\ Latest(approvals[a].run, a)
        BY <3>1, <3>2 DEF PendingLast, Verdict
      <4>2. \A r : ApprovalsOf(r)' = ApprovalsOf(r)
        BY <3>1 DEF ApprovalsOf
      <4> QED
        BY <4>1, <4>2 DEF Latest
    <3> QED
      BY <3>2
  <2> QED
    BY <2>1, <2>2, PendingInsert, ApprovalsStep
<1> QED
  BY <1>1, <1>2 DEF PendingLast

-----------------------------------------------------------------------------
(* Each step of a request is an operation of RunPolicy, or changes neither *)
(* the status of a run nor an approval.                                    *)
LEMMA PolicyStep ==
  ASSUME NoWholeSecond, StateInv, FreshInv, CheckedInv, PendingLast,
         NEW w \in Worker, Start(w) \/ Proceed(w) \/ Fail(w)
  PROVE  [Policy!Next]_(Policy!vars)
<1>1. ASSUME NEW r \in Run, CreateRun(w, r) PROVE Policy!Next
  <2>1. Policy!Create(r)
    BY <1>1 DEF CreateRun, InsertRun, Target, Policy!Create, Policy!Become
  <2> QED
    BY <2>1 DEF Policy!Next
<1>2. CASE UpdateRunStatus(w)
  <2> DEFINE r == job[w].run
  <2>1. /\ r \in Run /\ job[w].op \in StatusOp /\ pc[w] = "update"
        /\ Policy!Become(r, Target(job[w].op))
        /\ status[r] \in Status /\ status[r] \notin Refused(job[w].op) \cup {"absent"}
        /\ job[w].op = "resume_run" => Policy!Cleared(r)
    BY <1>2, LatestIsNewest DEF UpdateRunStatus, StateInv, TypeOK, JobOK, JobAt, CheckedInv, CheckedAt,
       Policy!Become
  <2>2. Policy!Resume(r) \/ Policy!Interrupt(r) \/ Policy!Cancel(r) \/ Policy!Retry(r)
    BY <2>1 DEF StatusOp, Target, Refused, Status, RunStatus, Policy!Open,
       Policy!Resume, Policy!Interrupt, Policy!Cancel, Policy!Retry
  <2> QED
    BY <2>1, <2>2 DEF Policy!Next
<1>3. CASE MarkRunWaiting(w)
  <2> DEFINE r == job[w].run
             b == job[w].approval
  <2>1. /\ r \in Run /\ b \in Policy!ApprovalId /\ job[w].op = "request_approval"
        /\ status[r] \in Status /\ status[r] \notin Refused(job[w].op) \cup {"absent"}
        /\ approvals' = [approvals EXCEPT ![b] = [run |-> r, status |-> "pending"]]
        /\ status' = [status EXCEPT ![r] = "waiting_approval"]
    BY <1>3 DEF MarkRunWaiting, StateInv, TypeOK, JobOK, JobAt, CheckedInv, CheckedAt, ApprovalId,
       Policy!ApprovalId
  <2>2. Policy!Open(r)
    BY <2>1 DEF Refused, Status, RunStatus, Policy!Open
  <2>3. ~Policy!Undecided(r)
    BY <1>3, <2>1, InsertedLast, NoneUndecided
  <2>4. approvals[b].status = "absent" /\ \A a \in Policy!ApprovalsOf(r) : a < b
    BY <1>3, InsertedLast, InsertedRow DEF ApprovalId, Policy!ApprovalId, ApprovalsOf, Policy!ApprovalsOf
  <2>5. Policy!Request(r, b)
    BY <2>1, <2>2, <2>3, <2>4 DEF Policy!Request
  <2> QED
    BY <2>1, <2>5 DEF Policy!Next
<1>4. CASE WriteDecision(w)
  <2> DEFINE b == job[w].approval
  <2>1. /\ b \in Policy!ApprovalId /\ job[w].verdict \in {"approved", "denied"}
        /\ approvals[b].status = "pending" /\ status' = status
        /\ approvals' = [approvals EXCEPT ![b].status = job[w].verdict]
    BY <1>4 DEF WriteDecision, StateInv, JobOK, JobAt, CheckedInv, CheckedAt, Verdict, ApprovalId,
       Policy!ApprovalId
  <2>2. Policy!Decide(b, job[w].verdict)
    BY <2>1 DEF Policy!Decide
  <2> QED
    BY <2>1, <2>2 DEF Policy!Next
<1>5. CASE status' = status /\ approvals' = approvals
  BY <1>5 DEF Policy!vars
<1> QED
  BY <1>1, <1>2, <1>3, <1>4, <1>5, StatusStep, ApprovalsStep

(* Requests that do not overlap on one run, whatever fails between their   *)
(* calls and whatever goes on at the other runs, are the indivisible       *)
(* operations of RunPolicy on the same two tables, as long as no approval  *)
(* is stamped on a whole second.                                           *)
THEOREM SerialIsPolicy ==
  Spec /\ []NoOverlap /\ []NoWholeSecond => ImplementsRunPolicy
<1>1. Init => PendingLast /\ Policy!Init
  BY DEF Init, PendingLast, Policy!Init, NoApproval, ApprovalId, Policy!ApprovalId
<1>2. NoOverlap /\ NoOverlap' /\ NoWholeSecond /\ NoWholeSecond' /\ StateInv /\ FreshInv
        /\ CheckedInv /\ PendingLast /\ [Next]_vars =>
        PendingLast' /\ [Policy!Next]_(Policy!vars)
  <2> SUFFICES ASSUME NoOverlap, NoOverlap', NoWholeSecond, NoWholeSecond', StateInv, FreshInv, CheckedInv, PendingLast, [Next]_vars
               PROVE  PendingLast' /\ [Policy!Next]_(Policy!vars)
    OBVIOUS
  <2>1. CASE Crash
    <3>1. PendingLast'
      BY <2>1 DEF Crash, database, PendingLast, Latest, ApprovalsOf
    <3> QED
      BY <2>1, <3>1 DEF Crash, database, Policy!vars
  <2>2. CASE UNCHANGED vars
    BY <2>2 DEF vars, PendingLast, Latest, ApprovalsOf, Policy!vars
  <2> QED
    BY <2>1, <2>2, PendingStep, PolicyStep DEF Next
<1> QED
  BY <1>1, <1>2, StateInvariant, FreshInvariant, CheckedInvariant, PTL
  DEF Spec, ImplementsRunPolicy, Policy!Spec

-----------------------------------------------------------------------------
(* ReplayMatches.                                                          *)

(* The status of a run is what its last change wrote.                      *)
StatusIsLast == \A r \in Run : \A k \in DOMAIN commits :
  LastChange(r, k) => status[r] = Target(commits[k].op)

(* A request changes once.                                                 *)
CommitsOnce == \A j, k \in DOMAIN commits : commits[j].req = commits[k].req => j = k

(* Run r was changed while request n was at work.                          *)
Passed(n, r) == \E j \in DOMAIN commits : commits[j].run = r /\ n \in commits[j].beside

(* The commit of request n replaced status s, or another change had come   *)
(* between.                                                                *)
Replaced(n, s) ==
  \E k \in DOMAIN commits : commits[k].req = n /\ (commits[k].from = s \/ Overtaken(k))

(* What a resume has read is the status of its run, unless that was        *)
(* changed since; and then it is what its commit replaced.                 *)
ReplayAt(w) ==
  job[w].op = "resume_run" =>
    /\ pc[w] \in {"gate", "update"} =>
         job[w].seen = status[job[w].run] \/ Passed(job[w].req, job[w].run)
    /\ pc[w] \in {"checkpoint", "audit", "insert"} => Replaced(job[w].req, job[w].seen)

ReplayInv ==
  /\ StatusIsLast
  /\ CommitsOnce
  /\ \A w \in Worker : pc[w] # "idle" => ReplayAt(w)
  /\ \A i \in DOMAIN trail : trail[i].event = "run.resumed" => Replaced(trail[i].req, trail[i].from)

LEMMA CommitAppended ==
  ASSUME StateInv, NEW d \in CommitRow, commits' = Append(commits, d)
  PROVE  /\ Len(commits) \in Nat
         /\ DOMAIN commits = 1..Len(commits)
         /\ DOMAIN commits' = 1..(Len(commits) + 1)
         /\ \A k \in DOMAIN commits : commits'[k] = commits[k] /\ commits[k] \in CommitRow
         /\ commits'[Len(commits) + 1] = d
BY DEF StateInv, TypeOK

LEMMA SameHistory ==
  UNCHANGED commits => \A n, s : /\ Replaced(n, s)' <=> Replaced(n, s)
                                 /\ Passed(n, s)' <=> Passed(n, s)
BY DEF Replaced, Passed, Overtaken

(* What has been replaced or passed stays so.                              *)
LEMMA HistoryStays ==
  ASSUME StateInv, NEW d \in CommitRow, commits' = Append(commits, d)
  PROVE  \A n, s : /\ Replaced(n, s) => Replaced(n, s)'
                   /\ Passed(n, s) => Passed(n, s)'
<1>1. /\ DOMAIN commits \subseteq DOMAIN commits'
      /\ \A k \in DOMAIN commits : commits'[k] = commits[k]
      /\ \A k \in DOMAIN commits : \A j \in 1..(k - 1) : j \in DOMAIN commits
  BY CommitAppended
<1>2. ASSUME NEW k \in DOMAIN commits, Overtaken(k) PROVE Overtaken(k)'
  BY <1>1, <1>2 DEF Overtaken
<1>3. ASSUME NEW n, NEW s, Replaced(n, s) PROVE Replaced(n, s)'
  BY <1>1, <1>2, <1>3 DEF Replaced
<1>4. ASSUME NEW n, NEW s, Passed(n, s) PROVE Passed(n, s)'
  BY <1>1, <1>4 DEF Passed
<1> QED
  BY <1>3, <1>4

(* A change by a request that has made none, which writes the status its   *)
(* method writes, or none.                                                 *)
LEMMA ReplayCommitted ==
  ASSUME StateInv, StatusIsLast, CommitsOnce, NEW d \in CommitRow, commits' = Append(commits, d),
         \A c \in CommitRow : Made(c) => c.req # d.req,
         \/ d.op = "decide_approval" /\ status' = status
         \/ d.op # "decide_approval" /\ status' = [status EXCEPT ![d.run] = Target(d.op)]
  PROVE  StatusIsLast' /\ CommitsOnce'
<1> DEFINE n == Len(commits) + 1
<1>1. /\ n \in Nat \ {0}
      /\ DOMAIN commits = 1..(n - 1)
      /\ DOMAIN commits' = 1..n
      /\ \A k \in 1..(n - 1) : commits'[k] = commits[k] /\ commits[k].req # d.req
      /\ commits'[n] = d /\ d.run \in Run
  BY CommitAppended DEF CommitRow, Made
<1> HIDE DEF n
<1>2. CommitsOnce'
  <2>1. ASSUME NEW j \in 1..n, NEW k \in 1..n, commits'[j].req = commits'[k].req
        PROVE  j = k
    <3>1. (j \in 1..(n - 1) \/ j = n) /\ (k \in 1..(n - 1) \/ k = n)
      BY <1>1
    <3> QED
      BY <1>1, <2>1, <3>1 DEF CommitsOnce
  <2> QED
    BY <1>1, <2>1 DEF CommitsOnce
<1>3. ASSUME NEW r \in Run, NEW k \in 1..n, LastChange(r, k)'
      PROVE  status'[r] = Target(commits'[k].op)
  <2>1. CASE k = n
    BY <1>1, <1>3, <2>1 DEF LastChange, StateInv, TypeOK
  <2>2. CASE k # n
    <3>1. k \in 1..(n - 1) /\ ~(n <= k)
      BY <1>1, <2>2
    <3>2. d.run # r \/ d.op = "decide_approval"
      BY <1>1, <1>3, <3>1 DEF LastChange
    <3>3. LastChange(r, k)
      BY <1>1, <1>3, <3>1 DEF LastChange
    <3>4. status'[r] = status[r]
      BY <1>1, <3>2 DEF StateInv, TypeOK
    <3> QED
      BY <1>1, <3>1, <3>3, <3>4 DEF StatusIsLast
  <2> QED
    BY <2>1, <2>2
<1> QED
  BY <1>1, <1>2, <1>3 DEF StatusIsLast

(* What a resume has read stays the status of its run, or its run is       *)
(* passed, when another worker changes something.                          *)
LEMMA ReplayBeside ==
  ASSUME StateInv, NEW w \in Worker, NEW v \in Worker, v # w, pc[v] # "idle", ReplayAt(v),
         pc'[v] = pc[v], job'[v] = job[v],
         NEW d \in CommitRow, commits' = Append(commits, d), d.beside = Others(w),
         \/ d.op = "decide_approval" /\ status' = status
         \/ d.op # "decide_approval" /\ status' = [status EXCEPT ![d.run] = Target(d.op)]
  PROVE  ReplayAt(v)'
<1>1. \A n, s : /\ Replaced(n, s) => Replaced(n, s)'
                /\ Passed(n, s) => Passed(n, s)'
  BY HistoryStays
<1>2. status'[job[v].run] = status[job[v].run] \/ d.run = job[v].run
  BY DEF StateInv, TypeOK, JobOK, JobAt
<1>3. d.run = job[v].run => Passed(job[v].req, job[v].run)'
  <2>1. job[v].req \in d.beside
    BY DEF Others
  <2>2. Len(commits) + 1 \in DOMAIN commits' /\ commits'[Len(commits) + 1] = d
    BY CommitAppended
  <2> QED
    BY <2>1, <2>2 DEF Passed
<1> QED
  BY <1>1, <1>2, <1>3 DEF ReplayAt

(* A step of worker w that commits and records nothing.                    *)
LEMMA ReplayQuiet ==
  ASSUME StateInv, ReplayInv, UNCHANGED <<commits, trail, status>>,
         \A v \in Worker : pc'[v] # "idle" /\ ~ReplayAt(v)' => pc'[v] = pc[v] /\ job'[v] = job[v]
  PROVE  ReplayInv'
<1>1. \A n, s : /\ Replaced(n, s)' <=> Replaced(n, s)
                /\ Passed(n, s)' <=> Passed(n, s)
  BY SameHistory
<1>2. StatusIsLast' /\ CommitsOnce'
  BY DEF ReplayInv, StatusIsLast, LastChange, CommitsOnce
<1>3. ASSUME NEW v \in Worker, pc'[v] # "idle" PROVE ReplayAt(v)'
  BY <1>1, <1>3 DEF ReplayInv, ReplayAt
<1> QED
  BY <1>1, <1>2, <1>3 DEF ReplayInv

LEMMA ReplayOther ==
  ASSUME StateInv, ReplayInv, NEW w \in Worker,
         \/ AssertResumeAllowed(w) \/ CheckNonePending(w) \/ StampApproval(w)
         \/ AppendCheckpoint(w) \/ StampAudit(w) \/ Fail(w)
  PROVE  ReplayInv'
<1>1. /\ pc[w] # "idle" /\ UNCHANGED <<commits, trail, status>>
      /\ pc'[w] # "idle" => /\ job'[w].req = job[w].req
                            /\ job'[w].op = job[w].op
                            /\ job'[w].run = job[w].run
                            /\ job'[w].seen = job[w].seen
      /\ pc'[w] \in {"gate", "update"} => pc[w] = "gate"
      /\ pc'[w] \in {"checkpoint", "audit", "insert"} => pc[w] \in {"checkpoint", "audit"}
      /\ \A v \in Worker : v # w => pc'[v] = pc[v] /\ job'[v] = job[v]
  BY DEF AssertResumeAllowed, CheckNonePending, StampApproval, AppendCheckpoint, StampAudit, Fail,
     Goto, Finish, database, StateInv, TypeOK, Job
<1>2. pc'[w] # "idle" => ReplayAt(w)'
  BY <1>1, SameHistory DEF ReplayInv, ReplayAt
<1> QED
  BY <1>1, <1>2, ReplayQuiet

LEMMA ReplayStart ==
  ASSUME StateInv, FeedInv, ReplayInv, NEW w \in Worker, Start(w)
  PROVE  ReplayInv'
<1>1. \A v \in Worker : v # w => pc'[v] = pc[v] /\ job'[v] = job[v]
  BY WorkerStep
<1>2. CASE \A r \in Run : ~CreateRun(w, r)
  <2>1. UNCHANGED <<commits, trail, status>>
    BY <1>2 DEF Start, ResumeRun, InterruptRun, RetryRun, CancelRun, RequestApproval, ReadRun,
       DecideApproval, database
  <2>2. /\ pc'[w] \in Before
        /\ job'[w].op = "resume_run" => job'[w].seen = status[job'[w].run]
    BY <1>2 DEF Start, ResumeRun, InterruptRun, RetryRun, CancelRun, RequestApproval, ReadRun,
       DecideApproval, Admit, NewJob, Before, StateInv, TypeOK
  <2>3. ReplayAt(w)'
    BY <2>1, <2>2 DEF ReplayAt, Before
  <2> QED
    BY <1>1, <2>1, <2>3, ReplayQuiet
<1>3. ASSUME NEW r \in Run, CreateRun(w, r) PROVE ReplayInv'
  <2> DEFINE d == [req |-> issued + 1, op |-> "create_run", run |-> r, from |-> "absent",
                   beside |-> Others(w)]
  <2>1. /\ job'[w].req = issued + 1 /\ job'[w].run = r /\ job'[w].op = "create_run"
        /\ issued + 1 \in Nat /\ UNCHANGED trail
    BY <1>3 DEF CreateRun, Admit, NewJob, StateInv, TypeOK
  <2>2. d \in CommitRow /\ commits' = Append(commits, d)
    BY <1>3, <2>1, OthersType DEF CreateRun, Commit, CommitRow, Op, StateInv, TypeOK, Status
  <2>3. status' = [status EXCEPT ![r] = Target("create_run")]
    BY <1>3 DEF CreateRun, InsertRun
  <2>4. d.req = issued + 1 /\ d.op = "create_run" /\ d.run = r /\ d.beside = Others(w)
    OBVIOUS
  <2> HIDE DEF d
  <2>5. StatusIsLast' /\ CommitsOnce'
    BY <2>2, <2>3, <2>4, NothingYet, ReplayCommitted DEF ReplayInv
  <2>6. ASSUME NEW v \in Worker, pc'[v] # "idle" PROVE ReplayAt(v)'
    <3>1. CASE v = w
      BY <2>1, <3>1 DEF ReplayAt
    <3>2. CASE v # w
      BY <1>1, <2>2, <2>3, <2>4, <2>6, <3>2, ReplayBeside DEF ReplayInv
    <3> QED
      BY <3>1, <3>2
  <2>7. \A n, s : Replaced(n, s) => Replaced(n, s)'
    BY <2>2, HistoryStays
  <2> QED
    BY <2>1, <2>5, <2>6, <2>7 DEF ReplayInv
<1> QED
  BY <1>2, <1>3

(* A resume replaces what it read, or was overtaken.                       *)
LEMMA ReplayCommit ==
  ASSUME StateInv, FeedInv, EvidenceInv, ReplayInv, NEW w \in Worker,
         UpdateRunStatus(w) \/ MarkRunWaiting(w) \/ WriteDecision(w)
  PROVE  ReplayInv'
<1>1. /\ pc[w] # "idle" /\ job' = job /\ UNCHANGED trail
      /\ pc'[w] \in {"checkpoint", "audit"}
      /\ job[w].op = "resume_run" => pc[w] = "update" /\ UpdateRunStatus(w)
      /\ \A c \in CommitRow : Made(c) => c.req # job[w].req
  BY CommitShape
<1>2. PICK d \in CommitRow :
        /\ commits' = Append(commits, d)
        /\ d.req = job[w].req /\ d.run = job[w].run /\ d.op = job[w].op
        /\ d.beside = Others(w)
        /\ \/ d.op = "decide_approval" /\ status' = status
           \/ d.op # "decide_approval" /\ status' = [status EXCEPT ![d.run] = Target(d.op)]
        /\ UpdateRunStatus(w) => d.from = status[job[w].run]
  BY CommitShape
<1>3. StatusIsLast' /\ CommitsOnce'
  BY <1>1, <1>2, ReplayCommitted DEF ReplayInv
<1>4. \A n, s : Replaced(n, s) => Replaced(n, s)'
  BY <1>2, HistoryStays
<1>5. ASSUME job[w].op = "resume_run" PROVE Replaced(job[w].req, job[w].seen)'
  <2>1. PICK n \in Nat : /\ n \in DOMAIN commits' /\ commits'[n] = d
                         /\ \A j \in DOMAIN commits :
                              j \in 1..(n - 1) /\ commits'[j] = commits[j]
    <3>1. /\ Len(commits) \in Nat /\ DOMAIN commits = 1..Len(commits)
          /\ DOMAIN commits' = 1..(Len(commits) + 1)
          /\ \A k \in DOMAIN commits : commits'[k] = commits[k]
          /\ commits'[Len(commits) + 1] = d
      BY <1>2, CommitAppended
    <3> QED
      BY <3>1
  <2>2. d.from = job[w].seen \/ Passed(job[w].req, job[w].run)
    BY <1>1, <1>2, <1>5 DEF ReplayInv, ReplayAt
  <2>3. Passed(job[w].req, job[w].run) => Overtaken(n)'
    BY <1>2, <2>1 DEF Passed, Overtaken
  <2> QED
    BY <1>1, <1>2, <2>1, <2>2, <2>3 DEF Replaced
<1>6. ASSUME NEW v \in Worker, pc'[v] # "idle" PROVE ReplayAt(v)'
  <2>1. CASE v = w
    BY <1>1, <1>5, <2>1 DEF ReplayAt
  <2>2. CASE v # w
    <3>1. pc'[v] = pc[v] /\ job'[v] = job[v]
      BY <2>2, WorkerStep DEF Proceed
    <3> QED
      BY <1>2, <1>6, <2>2, <3>1, ReplayBeside DEF ReplayInv
  <2> QED
    BY <2>1, <2>2
<1> QED
  BY <1>1, <1>3, <1>4, <1>6 DEF ReplayInv

LEMMA ReplayRow ==
  ASSUME StateInv, EvidenceInv, ReplayInv, NEW w \in Worker,
         RecordAudit(w) \/ RecordSecondAudit(w)
  PROVE  ReplayInv'
<1> DEFINE k == IF pc[w] = "insert" THEN 1 ELSE 2
           u == Row(w, k)
<1>1. /\ pc[w] \in {"insert", "insert_again"} /\ k \in {1, 2}
      /\ (RecordAudit(w) /\ k = 1) \/ (RecordSecondAudit(w) /\ k = 2)
      /\ UNCHANGED <<commits, status>>
      /\ pc'[w] \in {"idle", "audit_again"}
      /\ \A v \in Worker : v # w => pc'[v] = pc[v] /\ job'[v] = job[v]
  BY DEF RecordAudit, RecordSecondAudit, Finish, Goto, StateInv, TypeOK
<1>2. u \in TrailRow /\ trail' = Append(trail, u) /\ u.event = EventsOf(job[w].op)[k]
  BY <1>1, RowBacked
<1>3. u.req = job[w].req /\ u.from = job[w].seen
  BY DEF Row
<1>4. u.event = "run.resumed" => job[w].op = "resume_run" /\ pc[w] = "insert"
  <2>1. job[w].op \in Op /\ (pc[w] = "insert_again" => job[w].op = "request_approval")
    BY <1>1 DEF StateInv, JobOK, JobAt
  <2> QED
    BY <1>1, <1>2, <2>1 DEF EventsOf, Op, StatusOp
<1>5. u.event = "run.resumed" => Replaced(u.req, u.from)
  BY <1>3, <1>4 DEF ReplayInv, ReplayAt
<1> HIDE DEF u, k
<1>6. \A n, s : /\ Replaced(n, s)' <=> Replaced(n, s)
                /\ Passed(n, s)' <=> Passed(n, s)
  BY <1>1, SameHistory
<1>7. ASSUME NEW i \in DOMAIN trail', trail'[i].event = "run.resumed"
      PROVE  Replaced(trail'[i].req, trail'[i].from)
  <2>1. /\ \A j \in DOMAIN trail : trail'[j] = trail[j]
        /\ \A j \in DOMAIN trail' : j \in DOMAIN trail \/ trail'[j] = u
    BY <1>2 DEF StateInv, TypeOK
  <2> QED
    BY <1>5, <1>7, <2>1 DEF ReplayInv
<1>8. StatusIsLast' /\ CommitsOnce'
  BY <1>1 DEF ReplayInv, StatusIsLast, LastChange, CommitsOnce
<1>9. ASSUME NEW v \in Worker, pc'[v] # "idle" PROVE ReplayAt(v)'
  BY <1>1, <1>6, <1>9 DEF ReplayInv, ReplayAt
<1> QED
  BY <1>6, <1>7, <1>8, <1>9 DEF ReplayInv

LEMMA ReplayNext ==
  ASSUME StateInv, FeedInv, EvidenceInv, ReplayInv, [Next]_vars
  PROVE  ReplayInv'
<1>1. ASSUME NEW w \in Worker, Start(w) \/ Proceed(w) \/ Fail(w) PROVE ReplayInv'
  BY <1>1, ReplayStart, ReplayCommit, ReplayRow, ReplayOther DEF Proceed
<1>2. CASE Crash \/ UNCHANGED vars
  <2>1. /\ UNCHANGED <<commits, trail, status>>
        /\ \A w \in Worker : pc'[w] = "idle" \/ (pc'[w] = pc[w] /\ job'[w] = job[w])
    BY <1>2 DEF Crash, vars, database
  <2> QED
    BY <2>1, ReplayQuiet
<1> QED
  BY <1>1, <1>2 DEF Next

-----------------------------------------------------------------------------
(* The first event of a change of status announces it, and no other does.  *)
LEMMA FirstAnnounces ==
  ASSUME NEW op \in Op, NEW n \in DOMAIN EventsOf(op)
  PROVE  /\ op = "decide_approval" => Announces(EventsOf(op)[n]) = "none"
         /\ op # "decide_approval" => /\ 1 \in DOMAIN EventsOf(op)
                                      /\ Announces(EventsOf(op)[1]) = Target(op)
                                      /\ Target(op) # "none"
                                      /\ n # 1 => Announces(EventsOf(op)[n]) = "none"
BY DEF Op, StatusOp, EventsOf, Announces, Target

(* The last word is the row of the last change; or it is that of a change  *)
(* made beside it; or else that row was to be listed ahead, and was held   *)
(* back.                                                                   *)
LEMMA ReplayMeans ==
  ASSUME StateInv, TrailBacked, TrailOrdered, ReplayInv
  PROVE  ReplayMatches
<1>1. \A k \in DOMAIN commits : k \in Int /\ commits[k].op \in Op
  <2>1. commits \in Seq(CommitRow)
    BY DEF StateInv, TypeOK
  <2>2. DOMAIN commits = 1..Len(commits) /\ \A k \in DOMAIN commits : commits[k] \in CommitRow
    BY <2>1
  <2>3. \A c \in CommitRow : c.op \in Op
    BY DEF CommitRow
  <2> QED
    BY <2>2, <2>3
<1>2. ASSUME NEW r \in Run, NEW k \in DOMAIN commits, LastChange(r, k), Evidenced(commits[k]),
             NEW i \in DOMAIN trail, LastWord(r, i)
      PROVE  \/ Announces(trail[i].event) = status[r]
             \/ trail[i].req \in commits[k].beside
             \/ \E j \in DOMAIN trail : trail[j].req = commits[k].req /\ HeldBack(i, j)
  <2> DEFINE c == commits[k]
  <2>1. /\ c.op \in Op /\ c.op # "decide_approval" /\ c.run = r
        /\ status[r] = Target(c.op)
    BY <1>1, <1>2 DEF LastChange, ReplayInv, StatusIsLast
  <2>2. /\ 1 \in DOMAIN EventsOf(c.op) /\ Announces(EventsOf(c.op)[1]) = Target(c.op)
        /\ Target(c.op) # "none"
    <3>1. 1 \in DOMAIN EventsOf(c.op)
      BY <2>1, EventsOfType
    <3> QED
      BY <2>1, <3>1, FirstAnnounces
  <2>3. PICK j \in DOMAIN trail : trail[j].req = c.req /\ trail[j].event = EventsOf(c.op)[1]
    BY <1>2, <2>2 DEF Evidenced
  <2>4. Tells(r, j)
    <3>1. PICK m \in DOMAIN commits : commits[m].req = trail[j].req /\ commits[m].run = trail[j].run
      BY DEF TrailBacked
    <3>2. m = k
      BY <2>3, <3>1 DEF ReplayInv, CommitsOnce
    <3> QED
      BY <2>1, <2>2, <2>3, <3>1, <3>2 DEF Tells
  <2>5. ~ListedBefore(i, j) /\ trail[i].run = r /\ Announces(trail[i].event) # "none"
    BY <1>2, <2>4 DEF LastWord, Tells
  <2>6. PICK m \in DOMAIN commits :
          /\ commits[m].req = trail[i].req /\ commits[m].run = r
          /\ \E n \in DOMAIN EventsOf(commits[m].op) : EventsOf(commits[m].op)[n] = trail[i].event
    BY <2>5 DEF TrailBacked
  <2>7. PICK n \in DOMAIN EventsOf(commits[m].op) : EventsOf(commits[m].op)[n] = trail[i].event
    BY <2>6
  <2>8. commits[m].op # "decide_approval" /\ n = 1
    BY <1>1, <2>5, <2>7, FirstAnnounces
  <2>9. m <= k
    BY <1>2, <2>6, <2>8 DEF LastChange
  <2>10. CASE m = k
    BY <2>1, <2>2, <2>7, <2>8, <2>10
  <2>11. CASE m # k /\ commits[m].req \notin c.beside
    <3>1. m < k
      BY <1>1, <2>9, <2>11
    <3>2. Precedes(i, j)
      BY <2>3, <2>6, <2>11, <3>1 DEF Precedes
    <3> QED
      BY <2>3, <2>5, <3>2 DEF TrailOrdered
  <2>12. CASE commits[m].req \in c.beside
    BY <2>6, <2>12
  <2> QED
    BY <2>10, <2>11, <2>12
<1>3. \A i \in DOMAIN trail : trail[i].event = "run.resumed" =>
        \E k \in DOMAIN commits :
          commits[k].req = trail[i].req /\ (commits[k].from = trail[i].from \/ Overtaken(k))
  BY DEF ReplayInv, Replaced
<1> QED
  BY <1>2, <1>3 DEF ReplayMatches

(* Whatever overlaps, fails or crashes: once the last change of a run has  *)
(* its evidence, the last word of the trail, in the order of the query, is *)
(* the status of the run, or was recorded by a request at work beside that *)
(* change, or is held back by its whole second.  And a run.resumed row     *)
(* names the status its UPDATE replaced, unless the resume was overtaken.  *)
THEOREM TrailReplays == Spec => []ReplayMatches
<1>1. Init => FeedInv
  BY FeedInit
<1>2. StateInv /\ FeedInv /\ [Next]_vars => FeedInv'
  BY FeedNext
<1>3. Init => ReplayInv
  BY DEF Init, ReplayInv, StatusIsLast, LastChange, CommitsOnce
<1>4. StateInv /\ FeedInv /\ EvidenceInv /\ ReplayInv /\ [Next]_vars => ReplayInv'
  BY ReplayNext
<1>5. StateInv /\ TrailBacked /\ TrailOrdered /\ ReplayInv => ReplayMatches
  BY ReplayMeans
<1> QED
  BY <1>1, <1>2, <1>3, <1>4, <1>5, EvidenceInvariant, RowsHaveCause, RowsInOrder, PTL DEF Spec
=============================================================================
