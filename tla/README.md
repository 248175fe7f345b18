# A verification project for AgentKinetics

AgentKinetics is a local-first control plane for agent runs: a FastAPI application over a
handful of services and one SQLite file. Operators create runs, resume, interrupt, retry and
cancel them, ask for approvals and decide them; every change is meant to leave a checkpoint
and an audit event, and browsers follow the audit trail through a server-sent-event stream.

This directory holds TLA+ models of that code, the TLC runs that check them, and TLAPS proofs.

## 1. Inventory

| Part | State it keeps | Operations | What is hard about it |
| --- | --- | --- | --- |
| Run orchestration (`orchestration/`) | `runs.status`, checkpoints | create, resume, interrupt, retry, cancel, request approval, view, list | check-then-write across connections, evidence written after the change |
| Approval policy (`policy/`) | `approvals` | decide, resume gate | two deciders, gate read before the write it admits |
| Audit (`audit/`) | `audit_events` | record, timeline, recent, find by operation | order of stamps against order of commits |
| Tools (`tools/`) | the audit events it records | execute (idempotent by operation id) | duplicate and retried calls, crash between effect and record |
| Memory (`memory/`) | `memories` | upsert, list | upserts that cross, identity kept, the order of the list |
| Stamps (`shared/time.py`) | none | draw a stamp, write it as text | the tables sort the text, which is not always the order of time |
| Identity (`identity/`) | tenants, users, sessions | ensure tenant, create user, sign in, require principal, sign out | check-then-create, expiry and revocation while a request runs |
| Rate limiter (`shared/rate_limit.py`) | per-key deques | is_allowed, reset | clock read outside the lock, window edges |
| HTTP surface (`interfaces/api.py`) | stream tickets, limiters | handlers, stream loop | handlers run on a thread pool, the stream runs on the event loop |
| Browser client (`interfaces/product_ui.py`) | session token, event source, `localStorage`, selected run, its view, queue | async handlers: restore, sign in, sign out, act, load | replies that arrive out of order, two streams, reconnects, a reload in between |
| Command line, start-up (`interfaces/cli.py`, `bootstrap.py`) | none | build the container, create a user, print a view | processes that start on one empty database |
| SQLite gateway (`storage/`) | all tables | one transaction per call | each call is its own connection and its own commit |

The parts interact by direct calls: a handler calls one service method, a service method makes
a straight sequence of gateway calls, and the gateway opens a connection, runs one transaction
and closes it (`storage/db.py:25-35`). Nothing holds a lock across two gateway calls. The
handlers are synchronous functions, so FastAPI runs them on a pool of threads, and two requests
interleave at every gateway call. A raised `sqlite3` error leaves the method at that call and
the earlier calls stay committed. The stream of `GET /events/stream` is the exception: it is a
coroutine of the event loop that reads the audit table once a second. The page is single-threaded,
but each of its handlers awaits replies, so other handlers run in between.

What makes each part correct, in a sentence:

- **Runs**: every committed change has its checkpoint and its audit row, a canceled run stays
  canceled, and a run whose latest approval is not an approved one does not run.
- **Approvals**: at most one pending per run, each decided once.
- **Audit stream**: rows are sent in order, none twice, and none is lost without a reason.
- **Memory**: a key has one identifier for all who store it, and a later store is never undone.
- **Tools**: all answers of one operation id agree, and its effect happens once.
- **Identity**: one tenant, one user of a name, no user without an administrator after the first,
  no token without a recorded sign-in, a sign-out ends the work of a session.
- **Rate limiter**: never more than the limit in a window, and no refusal below it.
- **Browser**: a session ends only when it should and comes back after a reload; each stream the
  page opened is one it can close; the inspector shows the run that was asked for, and catches up,
  and so does the queue; a view shows no change without its evidence and offers what will be accepted.

The components, modelled or not, are listed in `PROJECT.json`, with every hazard at its line.

## 2. Modules

| Module | Models | Composed with | Proofs |
| --- | --- | --- | --- |
| `RunLifecycle` | `OrchestrationService`, `PolicyService` and the gateway calls they make | `Timestamps`; implements `RunPolicy` and `RunFeed` | `RunLifecycleProofs` |
| `RunPolicy` | abstract: each accepted request is one indivisible change | | |
| `RunFeed` | abstract: a change is made, and then has its row or is abandoned | | |
| `RunView` | `get_run_view` and the controls of the page | extends `RunLifecycle` | `RunLifecycleProofs` |
| `AuditStream` | `append_event` and the stream's loop | `Timestamps` | `AuditStreamProofs` |
| `ToolExecution` | `ToolService.execute` | | `ToolExecutionProofs` |
| `Identity` | tenant, users, sessions, from start-up to sign-out | | `IdentityProofs` |
| `Memory` | `MemoryService` and its upsert | `Timestamps` | `MemoryProofs` |
| `RateLimiter` | `SlidingWindowRateLimiter` for one key | | `RateLimiterProofs` |
| `BrowserSession` | the page's session and stream against the server's sessions and tickets | | `BrowserProofs` |
| `RunInspector` | the inspector and the queue of the page against the server's reads | its server is `RunFeed` | `RunInspectorProofs` |
| `Timestamps` | the order of the text of two stamps | | |

`MCRunLifecycle`, `MCToolExecution`, `MCIdentity`, `MCRateLimiter` and `MCMemory` add the symmetry
sets that TLC uses; the other modules are run as they are. `TypeOK` is a run's invariant in
`RunLifecycle`, `AuditStream` and `ToolExecution`; those of `Identity` and `Memory` are part of their
inductive invariants. A definition named after another one with a word behind it (`StampAuditOnce`,
`OnLogoutKeeps`, ...) is a plausible slip in that definition which some property must notice.

### Timestamps

The tables hold stamps as ISO text and the queries sort the text. `isoformat` leaves out a fraction
of zero, so a stamp on a whole second ends in `:05Z` where the others read `:05.123Z`, and `Z` sorts
after the point: the text of a whole second comes after all of its second. A stamp is its tick of
the clock, `Second` ticks make a second, and `TextRank` is the place of a tick's text among all texts.
Every `ORDER BY` of a stamp is by `TextRank`, every history by ticks; only `RunInspector`, which has no
stamps, lets a changed run come anywhere in the list instead.

### RunLifecycle

A `Worker` is a thread of the pool; `pc` and `job` say where it is in a service method and what
it has read. One action is one gateway call with the local code up to the next call:
`ReadRun` (the status check of resume, interrupt, retry, cancel, request), `AssertResumeAllowed`,
`UpdateRunStatus`, `AppendCheckpoint`, `RecordAudit`, `RecordSecondAudit`; for an approval
`CheckNonePending`, `StampApproval`, `MarkRunWaiting`; for a decision `DecideApproval`,
`WriteDecision`. `StampAudit` is a step of its own before each audit insert, as `append_event` draws
`created_at` before it opens its connection: stamps and inserts may cross. `Fail` is a call that
raises, `Crash` the end of the process: both leave what was committed. The tables are `status`,
`approvals`, `checkpoints` and `trail`; `commits` and `aborted` are history, and a commit remembers in
`beside` which requests were at work when it was made. The statuses `completed` and `failed` are in the enumeration and in the
guards, but nothing in the code ever sets them. Actors, tenants, reasons and payloads are left
out: no guard of the code depends on them in these methods.

An approval is named by the tick of its `created_at`, and `Latest` is the last row by `TextRank`, as in
`list_approvals_for_run`. The rows of `trail` are in the order of their inserts, which no query returns:
`ListedBefore` is the order of `list_events_for_run`, by the text of the stamp. What the properties
claim of that order is what the code gives. `TrailOrdered`: what was over before something else
began to change anything is listed ahead of it (`Precedes`), except for a row stamped on a whole
second, which comes behind the rest of its second (`HeldBack`). `ReplayMatches`: the row listed last
tells the status of the run, unless that row's request was at work beside the run's last change or
the row was held back; and the `from_status` of a `run.resumed` row is the status its update replaced,
unless another change came between its read and its update (`Overtaken`).

### RunPolicy and RunFeed

Two promises of `RunLifecycle`, for two readers. `RunPolicy` is for the operator: as long as
requests on one run do not overlap, each one is a single change of `status` and `approvals` with the
guards of the code taken at once. It orders approvals by time, so it is implemented as long as no
approval is stamped on a whole second. `RunFeed` is for those who follow runs from outside, and
holds for any interleaving: a change is made once and keeps its place, and afterwards gets its row
or is abandoned by a request that was cut short. `RunInspector` has `RunFeed` for its server, so
what it shows of the page rests on nothing of a run that `RunLifecycle` does not do.

### RunView

`RunLifecycle` with a reader. `BeginView` and `ContinueView` are the four connections of `get_run_view` in
their order (`Reads`), each of which may find the tables changed since the last. A finished view is
judged (`Shown`) and makes way for another one as requests go on. `known` is how many changes the run's
status could reflect, and `busy` the requests that had not returned when their evidence was read.
`Enabled` is what `syncRunControls` offers an administrator for a view, `Accepted` what the service
would do with the request.

### Memory

`BeginUpsert` draws stamp and identifier, `Upsert` is the transaction with its `ON CONFLICT` and the
columns it reads back, `UpsertFails` a transaction that raises. `ListMemories` is the rows of the query
and `ListedBefore` its `ORDER BY`: rows that tie in it may come in either order.
The history `before` says which stores had committed when another one began: only of those can a
caller know.

### AuditStream

`Stamp` and `Insert` are the two halves of `append_event`; `Connect` seeds the cursor, `Poll` reads
the newest `Limit` rows and takes what follows the cursor (`_events_after_cursor`), `Send` yields one
row, `Disconnect` ends the coroutine at any point. Stamps are unique and grow; keepalive comments
are left out. `delivered` spans all connections of the client.

### ToolExecution

`Lookup`, the handler (`HandlerReturns`, `HandlerRaises`) and `Record` are the three steps of
`execute`; the unique index on `operation_id` is the guard of `Record`. A stored output that is no
object (`Malformed`) refuses the calls that find it in `Lookup`. A handler is external code:
its n-th run outputs n and counts as an effect. `CutShort` is a failure after the effect; `cuts` counts
the effects of calls that ended without a row, cut short or refused by the unique index.

### Identity

A `Worker` is a thread of the server or a process of the command line, with its own start-up
(`BuildContainer`, `InsertTenant`). `AdmitCreation` is `require_admin_or_bootstrap` and the limiter,
`CommandCreate` the command; both continue with `FindUser` and `InsertUser`. A sign-in is
`Authenticate`, `InsertSession`, `RecordAttempt`; a sign-out `Logout`, `Revoke`; every other handler
`Use`, `Work`. A password is right or wrong, hashing is left out, a limiter may refuse at any time,
and the audit rows of refusals of a kind are one row without names. A sign-out and the row of a
refused attempt are the whole of what those handlers write.

### RateLimiter

`ReadClock` and `Decide` are the parts of `is_allowed` before and under the lock; `MaxLag` bounds how
far the clock moves in between. `Decide` evicts from the left and stops at the first stamp that is
not before the cutoff, as the deque is in the order of the decisions, not of the stamps.

### BrowserSession

`calls` are the requests the page has sent and not handled, each with the session it was sent with
and, once served, its reply: `Serve` and `ServeLogin` are the server's side, `OnLogin`, `OnRestore`,
`OnWork`, `OnLogout` and `OnTicket` the code after each `await`. `streams[i]` is the `EventSource` made
from the ticket of request i: `Accept` is the handler that takes the ticket, `Drop` a connection
that breaks and is made again by the browser with the same ticket, `OnAuth` the `auth` event.
`admitted` counts the connections a ticket opened, `lapsed` holds the tickets that expired first, and
`MaxOut` bounds the requests out at once.
`Reload` forgets everything but `localStorage` (`stored`). `Lose` is a request or a reply that the
network loses, `Expire` and `ExpireTicket` time passing.

### RunInspector

A change is a run and a number; `changes`, `rows` and `abandoned` are those of `RunFeed`. `loads` are the
calls of `get_run_view` from `loadRun` to `renderRun`: `ReadRun` and `ReadTrail` are two of its connections,
`OnLoad` renders, and asks for the queue. `lists` are the calls of `list_runs`: `ReadRuns`, `OnList`.
The list returns the `QueueLimit` runs that come first (the page asks for `?limit=8`), by the text of
`updated_at`: `ahead` is that order, and a change puts its run anywhere in it (`Make`), since the stamp is
drawn before the transaction and a whole second sorts behind. A run yet to be created comes last.
`Choose`, `Act`/`ServeAct`/`OnAct` and `OnEvent` are what leads to a load; `SignIn`, `OnEvent` and
`OnLoad` to a list. A sign-in may replace a session, several actions may be out at once, and the reply
of one that changed its run may be lost (`ActFails`). `GoLive` is the stream's start at the newest row.
`CutShort` is a request that ends between its change and its row, which nobody is told of. `missed`,
`behind` and `overlap` are history: they record the named ways in which the page loses a row or a reply,
and forget them when it next asks for the run with no other one loading, or for the list. So the
properties do not merely exempt those races: they say that each harms the page only until then, and
a reload that failed to mend it would violate them. Sessions here are only present or
absent; how they come and go is in `BrowserSession`. `Quiet` says that nothing is left to do: no reply is
out, every row has been heard, every change has its row or is abandoned.

## 3. Runs

Every passing run explores its whole state space. `CHECK_DEADLOCK FALSE` is set everywhere, because
the bounds on requests, rows and calls end every behaviour; the code itself waits for more.

| Run | Bounds | Shows |
| --- | --- | --- |
| `run_concurrent` | 2 threads, 1 run, 4 requests, 3 approvals, 2 ticks to the second, 1 failure | evidence is never without cause, listed out of order or missing unaccounted for (`TrailBacked`, `TrailOrdered`, `GapAccounted`); the trail as listed replays, but for requests side by side and whole seconds (`ReplayMatches`); cancellations, decisions and requests for approval stand once what crossed them has drained (`CanceledSettled`, `DecisionSettled`, `RequestSettled`); only an approval opens the gate (`GateHolds`); all of it is a `RunFeed` |
| `run_views` | 1 thread and a reader, 5 requests, 2 approvals, 1 failure | requests that do not overlap are the atomic operations of `RunPolicy`; a view shows no change without its evidence (`ViewEvidenced`) and offers what is accepted (`ControlsAccepted`); under fairness a change gets its evidence unless its request is cut short (`EventuallyEvidenced`) |
| `stream_races` | 2 writers, window of 2, 5 rows, 2 connections, 3 ticks to the second | order and no duplicates across connections; the named ways to lose a row and no other (`LossAccounted`); every other row is sent while the stream stays open (`EventuallyDelivered`) |
| `tool_races` | 3 callers, 2 ids, 5 calls, 2 failures | answers agree; a rerun only by a caller that looked before the row; every effect is a row, a call in its last step or a call that was cut short (`EffectsAccounted`) |
| `limiter_races` | 3 threads, limit 2, window 3, suspension up to 2 | the limit over the window less the suspension (`LimitWithinLag`); no refusal without cause |
| `identity_races` | 2 workers, 1 name, 2 sessions, 1 failure | `OneTenant`, `UsernamesUnique`, `SignInsRecorded`; a revoked session starts no more work (`RevokedDrains`) and a creation without an administrator is one let through before the first user appeared (`BootstrapDrains`) |
| `memory_races` | 3 threads, 2 keys, 5 stores, 3 ticks to the second, 1 failure | one identifier for all who store a key (`IdentityKept`); a store is never undone by an earlier one (`NeverRevived`); the list is in order but for crossed stores and whole seconds (`ListedNewestFirst`) |
| `browser_races` | 2 sessions, 6 requests, 3 out at once, 1 fault, 1 reload | a ticket opens one connection; streams are tracked unless two ticket requests crossed (`OpenStreamsTracked`); a page loses a valid session only for a named cause (`SignOutAccounted`); a reload resumes the stored session (`ReloadResumes`); a sign-out ends, whatever its reply (`SignOutSettles`) |
| `inspector_races` | 2 runs, a queue of 1, 1 change each, 3 choices (sign-ins and actions included), 2 lists out at once, 1 fault | loads that do not overlap show the run chosen last; with nothing left to do, inspector and queue have caught up and are blank without a session, unless one of the named races hurt them and nothing was asked for since (`CatchesUp`, `QueueCatchesUp`) |

Why these bounds are enough to be interesting: every race in the code is between two requests, and
two threads (three for the limiter and for memory, where a third comes between two others) with one
request more than the race needs leave room for what happens after it. One run, one key, one tenant
are enough where none of the code relates two of them; a second run or key appears where they share
a table's order or where the page must tell them apart. Three approvals let two that crossed be
followed by one that did not. One failure at any call covers each way a single request can be cut
short; the effect of a second one on another request is the same, which the proofs, unbounded in all
of this, confirm for the theorems listed below. An applied sign-in costs the page three requests
(login, ticket, queue), so six let it apply a second session, ask for a second ticket while the
first is out and open two streams. A queue of 1 for two runs overflows whenever both exist, as a
queue of 8 does with the ninth. Two cases take one step more than TLC can afford, and are left to the
theorems: an answered sign-out of another session (seven requests), and two actions of the page out
at once (four choices). `Second` is small where stamps on a whole second
matter, so that some fall on one, and 4 in `run_views`, where none of two approvals does, as the
refinement of `RunPolicy` says. The window of the stream is 2 so that it overflows with 5 rows. In `run_views` a view may begin and continue between any two steps of a request,
and the next one begins where it likes, so one reader stands for any number.

**Fairness.** `RunLifecycle` and `RunView`: a thread that has entered a method keeps executing it; a
reader need not. `AuditStream`: the event loop keeps resuming an open stream. `BrowserSession`: the
server answers and the page's handlers run when a reply has arrived. Nothing obliges an operator to
send a request, a writer to append, a client to reconnect, or a fault to happen or not. `RunInspector`
says what holds whenever nothing is left to do, which needs no fairness; `Identity`, `ToolExecution`,
`Memory` and `RateLimiter` state no liveness.

### Disagreements found

Three runs expect a violation. Each checks a sentence of the repository's docs, comments or tests,
and TLC finds what the code does instead. `PROJECT.json` quotes the sentence and the line.

| Run | What happens |
| --- | --- |
| `resumed_past_request` | a resume past the gate commits after a request for approval: running, with a pending approval |
| `two_first_users` | two creations on an empty database are both admitted without an administrator |
| `restore_clears` | the answer to a good session lookup raises (`syncMetrics` does not exist) and clears the session |

Other behaviours are what the exceptions in the properties stand for; they contradict no sentence of
the repository, and dropping the exception, or giving `RunViews.cfg` two workers, shows each of them:

- a retry, resume or interrupt that read the run before its cancellation committed overwrites it;
  two overlapping requests leave two pending approvals; two overlapping decisions of one approval are
  both accepted (`RunViews.cfg`, two workers); two changes side by side have their rows listed in the
  other order, and a resume names a status that was replaced before its update (`ReplayMatches`);
- a row stamped on a whole second is listed behind later ones of that second, even the first row of
  a request for approval behind its second one (`TrailOrdered`, `ReplayMatches`);
- the approval taken for the latest is not the one inserted last when one of them was stamped on a
  whole second (`ImplementsRunPolicy` with three approvals, seven requests and `Second = 2`), and a list of
  memories keeps such a row in front of newer ones (`ListedNewestFirst`);
- the page offers to retry a canceled run, which the service refuses (`ControlsAccepted`);
- a failure after the status commit leaves a change that no row records (`GapAccounted`);
- two overlapping calls of one operation id both run the handler (`RerunOnlyOverlapping`);
- a thread suspended before the lock lets one request too many into a window (`LimitWithinLag`);
- of two ticket requests that cross, the page keeps only the stream of the last reply, and the other
  stays live after a sign-out (`OpenStreamsTracked`);
- a stream that reconnects with its used ticket, or one of another session that is still open, signs
  a valid session out, and so does a refused request of another session (`SignOutAccounted`);
- a row that arrives while its run is being loaded is ignored, and the older view stays (`CatchesUp`);
- a load or a list answered after the sign-out is shown on the signed-out page, and an older list
  that overtakes a newer one stays (`CatchesUp`, `QueueCatchesUp`);
- what happens between the reading of the list after a sign-in and the start of the stream reaches
  neither, and a change whose request was cut short is told to nobody (`QueueCatchesUp`); yet it moves
  its run in the queue, and may so bring back or push out a run.

## 4. Proofs

The theorems hold for every value of the constants: any number of threads, runs, rows, keys,
sessions, reloads and failures. They assume only what the `ASSUME`s of the modules say (bounds are
natural numbers, a second has a tick, `NoRun` is no run, the window is positive, the callers of a
tool and the runs are finitely many, which only `EffectsBalance` and `QueueInv` need). `PROJECT.json` lists them with the
property each one states. Two theorems are about behaviours in which requests on one run do not
overlap, `[]NoOverlap`: a run has one request in progress at a time, on whichever thread; requests
on different runs interleave freely, and what fails or crashes between two calls is as free as ever.
Without it what they say is false, as `resumed_past_request` shows for the first of them. The other,
`SerialIsPolicy`, besides assumes `[]NoWholeSecond`, that no approval is stamped on a whole
second: without it the text of an earlier approval can sort last.

- **RunLifecycleProofs.** `TypeCorrect` needs more than types: `StateInv` adds that the place a
  worker has reached belongs to the method of its job (`JobOK`) and that an approval row names a run
  exactly when it exists (`ApprovalsOK`). `CancellationSettles`, `OnlyApprovalOpensGate`,
  `DecisionsStand` and `RequestsWait` are action properties: under `StateInv` each action either
  cannot touch a settled or barred run or approval, or is one of the named exceptions. Those about
  approvals need `FreshInv` besides: the identifier a worker has stamped has no row yet and no other
  worker holds it, so that the insertion of an approval never rewrites one that exists. They hold
  for any order of the stamps: where a whole second puts another approval last, that one is the
  latest for the guard as well.
- **RunLifecycleProofs, evidence and views.** `RunsAreAFeed` is the refinement: the initial states
  map to initial states, and every action maps to one of `RunFeed`'s or to a stutter. `FeedInv`
  numbers the requests, one number to a worker: a request has changed its run exactly when its
  worker is past its commit, it has no row before that, and it is not among those cut short while it
  runs. Without it a commit could map to a change that was made already, or a row to a change that
  was abandoned. `EvidenceInv` says of every worker what its request has left behind so far, its
  change from the commit on, the checkpoint before the first row, the first row before the second,
  and of every change that it is backed by what it owes, by a worker that still holds its number, or
  by an abort. `TrailBacked` and `GapAccounted` follow. For `TrailOrdered`, `OrderInv` says that the stamps
  of two rows are in the order in which what they tell of was over: nothing is over before the
  change of a request at work, and the stamp it has drawn is later than those of all rows ahead of
  it. `TextHolds` turns that into the order of the query, but for a whole second, so
  `RowsInOrder` holds however requests overlap. `TrailReplays` does too: by `ReplayInv` the status of a
  run is what its last change set, and what a resume has read is the status of its run until another
  request changes that, which overtakes the resume from then on; the row listed last is then of the
  last change, of a request beside it, or held back, since a change not beside it was over before.
  `ViewInv` carries the evidence
  through the four connections of a view: each read takes over what was due when it was made
  (`Late`, `CheckpointSeen`, `RowsSeen`), so `ViewEvidenced` holds however many requests commit in
  between. `ControlsMatch` needs two more facts. `LatestInv`: a run with approvals has a latest one,
  because no two ticks have the same text (`TextDistinct`), and no method completes or fails a run.
  `CurrentInv`: as long as nothing has been committed since the view began, what its reads returned
  is what the tables hold. A decision commits without touching a status, so it is the count of
  commits, not a comparison of statuses, that says whether a view is current.
- **RunLifecycleProofs, requests that do not overlap on one run.** `CheckedInv` closes the gap
  between a check and its write: what a request has checked (the status, the gate, that nothing is
  pending, that the approval is undecided) still holds when it writes, since every other worker is
  idle or on another run (`OthersElsewhere`), whose steps leave this run's row and approvals alone
  (`OtherRuns`). `RunningIsCleared` follows with it. For `SerialIsPolicy` the write has to be
  enabled in `RunPolicy`, whose guards are stronger: a request for approval needs that no approval
  of the run is pending, where the code looks only at the latest one. `PendingLast` supplies it: a
  pending approval is the latest of its run, and the one about to be inserted is newer than those
  its run has; those of other runs may well be inserted out of the order of their stamps.
  `LatestIsNewest` carries the gate over: on stamps that are not on a whole second the order of
  texts is that of time.
- **AuditStreamProofs.** `StreamTypes` is type correctness. `OrderInv`: what was sent is in order
  and at most the cursor, what is pending is beyond it, and the cursor names a row. The lemma
  `TakenIsNewer` shows that a poll takes only rows beyond the cursor even when the cursor has left
  the window, by counting (`FewerNewer`): rows before a cursor outside the window are outside it
  too. `SeedIsNewest` is the corresponding fact about the connection. `ReadInv` relates `readHigh`
  to the cursor and carries `LossAccounted` through.
- **ToolExecutionProofs.** `ToolTypes` is type correctness. `ToolInv` adds to the two properties
  that a caller about to record holds an output (`Holding`); the guard of `Record` keeps a row from
  changing, and the insert of a row marks every caller between its lookup and its record as crossed.
  `EffectsBalance` counts: the effects are the row if there is one, the callers about to record and
  the calls cut short. It needs finitely many callers, so that the set of those about to record has
  a cardinality which each step changes by at most one.
- **IdentityProofs.** `IInv` joins the type invariant, the three invariants of the tables and
  `Carried`: what a request carries from one connection to the next is still true when it uses it
  (the user it found exists, the session it records is its own, the session it works for is one that
  was handed out). It is needed because `RecordAttempt` and `InsertSession` act on what was read
  before; it is inductive because tables only grow (`Grows`). `SignOutDrains` is an action property
  over it: a worker reaches `work` for a session only through a check that a revoked session fails.
  `BootstrapCloses` says the same of the bootstrap: once a user exists, `AdmitCreation` admits
  nobody new without an administrator, so what remains are the creations already past it.
- **RateLimiterProofs.** `LimiterInv`: the bucket is a tail of what was allowed, of at most `Limit`
  stamps, and what is no longer in it was older than the window when it was evicted (`TailInv`); a
  thread that decides is at most `MaxLag` behind the clock (`LagInv`), so a stamp is at most
  `MaxLag` before those decided ahead of it (`OrderInv`). `LimitKept` then counts: the stamps of a
  stretch that a decision adds to lie in the tail it kept. `RefusalsHaveCause` counts the other way:
  a refusal saw `Limit` stamps, the first of them in the window, and none of those behind it is
  older by more than `MaxLag`.
- **MemoryProofs.** `StoreInv`: a store belongs to one thread until it commits, so a committed one
  never commits again, and what `before` remembers had committed. With `IdentityInv`, that every
  record handed out agrees with the row of its key, it carries `OneIdentity` and
  `OverwritesInOrder`. `NewestFirst` is about the list: by `StampInv` a row carries the stamp of the
  store its content is from, later than those of all stores that had committed when that one began,
  and by `TextAgainstTime` the text of an earlier stamp sorts in front of a later one only on a
  whole second and within that second.
- **BrowserProofs.** The page's handlers are many and alike, so they are first brought to four
  shapes (`PageShape`): a session is applied, cleared, given its stream, or left alone, with some
  requests handled and others sent (`ExchangeCalls`). `BrowserInv` has three parts: a ticket is
  there from the answer to its request to its first use (`SpentInv`); unless two crossed, one ticket
  is asked for at a time and with no stream open (`TrackedInv`); and `ReloadResumes`, which is
  inductive by itself. `SignOutsAccounted` is an action property that needs two more: what was refused
  is of a session that ended (`KnownInv`), and the ticket of a stream that waits for its connection, or
  of a reply that brings one, is still there unless it was used, expired, or is of a session that
  ended (`TicketInv`, `Excused`).
- **RunInspectorProofs.** `CatchesUp` speaks of a page with nothing left to do; what is inductive is
  why it will catch up. `ViewInv`: for every row the page has heard, the view of its run has it, or
  a load is out that is not overtaken and will show it (`LoadTells`), and after each load still out
  that could render without it comes one that has it. `QueueInv` says the same of the lists, for
  every run: what they show of it covers all that was heard of it, or they do not show it, and
  then it was changed since, or enough runs come before it or were changed (`Covers`). That is stable
  because a change moves only its own run, which has news from then on until the page hears of it
  and asks again (`MovesOn`, `CoversStays`), and counting the runs ahead needs `Runs` finite. The
  second half is needed because replies may be rendered in any order: without it the last reply to
  arrive could put back an older view. `ReadInv` keeps a view, and a load on its way to be one, from
  holding rows of another run or rows that do not exist, `SignedOutInv` says that a page without a
  session has nothing on its way that could come to be shown, and `ChosenInv` that of loads that
  never overlapped at most one is out, for the run asked for last. With `Quiet`, nothing is out, so
  what was promised is shown. `RemovedOne` and its companions say what taking a reply out of those
  on their way does to their order.

Only model-checked: the liveness properties (`EventuallyEvidenced`, `EventuallyDelivered`,
`SignOutSettles`), as fairness is outside this prover's reach; every invariant and every action
property of the passing runs is stated by a theorem. The meaning of `Quiet` is left to TLC as well:
on the 3,845,336 states of `inspector_races`, with a list allowed to be out, `Quiet` is exactly the
absence of any step that the page, the network or a request at work could take, which is a statement
about `ENABLED`. Nothing here is proved by induction over data; where a proof needs to count it does
so through cardinalities.

## 5. Not modelled

- The workflow engine and the file artifacts keep no state that the program reads back, logging has
  none at all, and the service ports are signatures.
- `create_approval` of the gateway is called by nothing; the conversions of rows to records are
  straight copies of columns.
- Of the HTTP surface: the mapping of errors to status codes, the checks of payloads and the health
  check. Of the page: its forms, the counters of its first view and its rendering. Of the schema: what
  is not a key, an index or a foreign key that a guard rests on.
- The text of identifiers and passwords. Identifiers are unique, and a password is right or wrong.
- Two equal stamps: a stamp has microseconds, and each tick of the models is drawn once.
- SQLite below its connections: a transaction is taken as serializable, and a commit as surviving a
  crash.

## 6. Plan

Done, modelling: the lifecycle with its two abstract specifications, its views and controls; the
stream, tools, the limiter, identity, memory, the order of stamps; the page's session and stream,
its inspector and queue, over the feed the lifecycle implements. Done, proofs: types and safety of
the lifecycle, its refinements of the feed and, for requests that do not overlap on a run, of the
policy, its trail, its evidence, views and controls; the stream, tools, the limiter, identity,
memory and its list; the page's session, inspector and queue.

Next:

1. Weaken what `SerialIsPolicy` assumes of the clock: whole seconds matter only within a run, and only
   next to another approval of the same second.
2. A page with two tabs on one `localStorage`, whose sessions the code lets overwrite each other.
