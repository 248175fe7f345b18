---------------------------- MODULE RunInspector ----------------------------
(***************************************************************************)
(* What the product page shows of the runs: the inspector, which is the    *)
(* view of one run, and the queue, which lists the QueueLimit runs that    *)
(* come first by the text of updated_at.  The inspector is loaded when the *)
(* operator chooses a run, after an action, and whenever the stream tells  *)
(* of the run that is selected; the queue is loaded after a sign-in, after *)
(* a run, and whenever the stream tells of anything.  The page renders a   *)
(* reply whatever has happened since it asked.                             *)
(*                                                                         *)
(* The server is a RunFeed, which RunLifecycle implements, with the reads  *)
(* of get_run_view and list_runs beside it.  Tickets and lost sessions are *)
(* in BrowserSession, rows the stream loses in AuditStream: here a page is *)
(* signed in or not, and an open stream tells of every row that comes.     *)
(*                                                                         *)
(* Bounds: MaxChanges of a run, MaxChoices of the operator (to sign in, to *)
(* look at a run, to act on it), MaxLists requests for the queue out at    *)
(* once, MaxFaults loads that fail, actions whose reply is lost, or        *)
(* requests cut short after a change.                                      *)
(***************************************************************************)
EXTENDS Integers, SequencesExt

CONSTANTS Runs, NoRun, QueueLimit, MaxChanges, MaxChoices, MaxLists, MaxFaults

ASSUME InspectorBounds ==
  /\ {QueueLimit, MaxChanges, MaxChoices, MaxLists, MaxFaults} \subseteq Nat
  /\ NoRun \notin Runs
ASSUME RunsFinite == IsFiniteSet(Runs)

VARIABLES
  \* server
  changes, rows, abandoned,
  ahead,      \* <<q, r>> if q is listed before r: runs.updated_at, as text
  \* page
  session,    \* state.sessionToken is set
  live,       \* the stream is open
  heard,      \* rows that are no news to the page
  selected,   \* state.selectedRunId
  view,       \* state.runView: what the server's reads saw
  queue,      \* the changes that the statuses of the queue reflect
  loads,      \* requests for a view, from loadRun to renderRun, as asked
  lists,      \* requests for the queue, from loadRuns to renderRuns, as asked
  acting,     \* requests for an action: of which run, and how far they are
  choices, faults,
  \* history
  chosen,     \* the run the operator asked for last
  overlap,    \* two loads were out at once, or one failed: see ChosenIsShown
  missed,     \* why the inspector may stay behind: see CatchesUp
  behind      \* why the queue may stay behind: see QueueCatchesUp

feed == <<changes, rows, abandoned, ahead>>
link == <<session, live>>
requests == <<loads, lists>>
shown == <<selected, view, queue>>
counters == <<choices, faults>>
history == <<chosen, overlap, missed, behind>>
vars == <<feed, link, heard, shown, requests, acting, counters, history>>

NoView == [run |-> NoRun, changes |-> {}, rows |-> {}]

(* The ways to list the runs; one yet to be created comes last.            *)
Orders ==
  {o \in SUBSET (Runs \X Runs) :
     /\ \A q, r \in Runs : <<q, r>> \in o <=> q # r /\ <<r, q>> \notin o
     /\ \A q, r, t \in Runs : <<q, r>> \in o /\ <<r, t>> \in o => <<q, t>> \in o}

Feed == INSTANCE RunFeed WITH Change <- Runs \X (1..MaxChanges)

Init ==
  /\ Feed!Init /\ ahead \in Orders /\ heard = {}
  /\ session = FALSE /\ live = FALSE
  /\ selected = NoRun /\ view = NoView /\ queue = {}
  /\ loads = <<>> /\ lists = <<>> /\ acting = <<>>
  /\ choices = 0 /\ faults = 0
  /\ chosen = NoRun /\ overlap = FALSE /\ missed = FALSE /\ behind = FALSE

-----------------------------------------------------------------------------
Of(r, C) == {c \in C : c[1] = r}

(* loadRun of r, and loadRuns, sent after the requests out: what was       *)
(* missed before no longer matters, if no other run is loading.            *)
AskRun(r, crossed) ==
  /\ loads' = Append(loads, [run |-> r, at |-> "asked", changes |-> {}, rows |-> {}, old |-> FALSE])
  /\ overlap' = (crossed \/ loads # <<>>)
  /\ missed' = (missed /\ \E i \in DOMAIN loads : loads[i].run # r)
AskList ==
  /\ Len(lists) < MaxLists
  /\ lists' = Append(lists, [at |-> "asked", changes |-> {}, old |-> FALSE])
  /\ behind' = FALSE

(* The reply to the i-th of out is handled: those asked before it are old. *)
Handled(out, i) ==
  RemoveAt([j \in DOMAIN out |-> [out[j] EXCEPT !.old = @ \/ j < i]], i)

(* The stream a page asks for begins at the newest row: the earlier rows   *)
(* are no news to it, and are missed by the run that is shown or loading.  *)
SkipRows ==
  /\ heard' = rows
  /\ missed' = (missed \/ \E r \in Runs : /\ Of(r, heard) # Of(r, rows)
                                          /\ \/ view.run = r
                                             \/ \E i \in DOMAIN loads : loads[i].run = r)

(* applySession, over no session or another one, whose stream it closes,   *)
(* and loadRuns.                                                           *)
SignIn ==
  /\ session' = TRUE /\ live' = FALSE
  /\ choices < MaxChoices /\ choices' = choices + 1
  /\ SkipRows
  /\ AskList
  /\ UNCHANGED <<feed, shown, loads, acting, faults, chosen, overlap>>

(* events_stream answers.                                                  *)
GoLive ==
  /\ session /\ ~live /\ live' = TRUE
  /\ SkipRows
  /\ behind' = (behind \/ heard # rows)
  /\ UNCHANGED <<feed, session, shown, requests, acting, counters, chosen, overlap>>

(* clearSession, with closeEventStream, renderRuns and resetInspector; the *)
(* requests of the session stay out.                                       *)
ClearSession(out, listsOut) ==
  /\ session' = FALSE /\ live' = FALSE
  /\ selected' = NoRun /\ view' = NoView /\ queue' = {} /\ chosen' = NoRun
  /\ loads' = out /\ lists' = listsOut
  /\ overlap' = (out # <<>>) /\ missed' = (out # <<>>) /\ behind' = (listsOut # <<>>)

(* The operator signs out, or a request of the page's is refused.          *)
SignOut ==
  /\ session /\ ClearSession(loads, lists)
  /\ UNCHANGED <<feed, heard, acting, counters>>

(* A run of the queue, the selected run again, or one just created.        *)
Choose(r) ==
  /\ session /\ choices < MaxChoices /\ choices' = choices + 1
  /\ AskRun(r, FALSE) /\ chosen' = r
  /\ UNCHANGED <<feed, link, heard, shown, lists, acting, faults, behind>>

(* submitRunAction, for the run that is selected now ...                   *)
Act ==
  /\ session /\ selected # NoRun
  /\ choices < MaxChoices /\ choices' = choices + 1
  /\ acting' = Append(acting, [run |-> selected, at |-> "sent", change |-> {}])
  /\ UNCHANGED <<feed, link, heard, shown, requests, faults, history>>

(* A change stamps its run, which is listed elsewhere then: not always     *)
(* first, for the stamp is drawn before the transaction and one of a whole *)
(* second sorts after those that follow it.                                *)
Without(r, o) == {p \in o : r \notin {p[1], p[2]}}
Make(r, c) == /\ c \in Of(r, Runs \X (1..MaxChanges))
              /\ \A k \in 1..(c[2] - 1) : <<r, k>> \in changes
              /\ Feed!Make(c)
              /\ ahead' \in Orders /\ Without(r, ahead') = Without(r, ahead)

(* ... answered when the change has its row, or the request was cut short, *)
(* or nothing was changed ...                                              *)
ServeAct(i) ==
  /\ acting[i].at = "sent"
  /\ \/ \E c \in Runs \X (1..MaxChanges) :
          /\ Make(acting[i].run, c)
          /\ acting' = [acting EXCEPT ![i].at = "made", ![i].change = {c}]
     \/ acting' = [acting EXCEPT ![i].at = "refused"] /\ UNCHANGED feed
  /\ UNCHANGED <<link, heard, shown, requests, counters, history>>

(* ... and then the run that is selected then is loaded.  A refusal is     *)
(* shown, and one for want of a session clears it.                         *)
OnAct(i) ==
  /\ acting' = RemoveAt(acting, i)
  /\ \/ /\ acting[i].at = "made" /\ acting[i].change \subseteq rows
        /\ IF session /\ selected # NoRun THEN AskRun(selected, overlap)
                                           ELSE UNCHANGED <<loads, overlap, missed>>
        /\ UNCHANGED <<link, shown, lists, chosen, behind>>
     \/ /\ \/ acting[i].at = "refused"
           \/ acting[i].at = "made" /\ acting[i].change \subseteq abandoned
        /\ UNCHANGED <<link, shown, requests, history>>
     \/ acting[i].at = "refused" /\ ClearSession(loads, lists)
  /\ UNCHANGED <<feed, heard, counters>>

(* The reply to an action that has changed its run is lost.                *)
ActFails(i) ==
  /\ acting[i].at = "made"
  /\ faults < MaxFaults /\ faults' = faults + 1
  /\ acting' = RemoveAt(acting, i)
  /\ UNCHANGED <<feed, link, heard, shown, requests, choices, history>>

OnEventQueueOnly(c) ==
  /\ live /\ c \in rows \ heard
  /\ heard' = heard \cup {c}
  /\ AskList
  /\ UNCHANGED <<feed, link, shown, loads, acting, counters, chosen, overlap, missed>>

(* The event is of the run that is selected, or of another one, which may  *)
(* be on its way.                                                          *)
Reload(r) ==
  \/ selected = r /\ AskRun(r, overlap)
  \/ /\ selected # r
     /\ missed' = (missed \/ \E i \in DOMAIN loads : loads[i].run = r)
     /\ UNCHANGED <<loads, overlap>>

OnEventSelectedOnly(c) ==
  /\ live /\ c \in rows \ heard
  /\ heard' = heard \cup {c}
  /\ Reload(c[1])
  /\ UNCHANGED <<feed, link, shown, lists, acting, counters, chosen, behind>>

(* handleLiveEvent: the queue is loaded, and the run if it is selected.    *)
OnEvent(c) ==
  /\ live /\ c \in rows \ heard
  /\ heard' = heard \cup {c}
  /\ AskList
  /\ Reload(c[1])
  /\ UNCHANGED <<feed, link, shown, acting, counters, chosen>>

OnLoadKeepsSelection(i) ==
  /\ loads[i].at = "replied"
  /\ view' = [run |-> loads[i].run, changes |-> loads[i].changes, rows |-> loads[i].rows]
  /\ selected' = IF selected = NoRun THEN loads[i].run ELSE selected
  /\ loads' = Handled(loads, i)
  /\ missed' = (missed \/ loads[i].old)
  /\ IF session THEN AskList /\ UNCHANGED queue
                ELSE queue' = {} /\ UNCHANGED <<lists, behind>>
  /\ UNCHANGED <<feed, link, heard, acting, counters, chosen, overlap>>

(* renderRun: the reply becomes the view and its run the selected one;     *)
(* then loadRuns, which empties the queue of a page without a session.     *)
OnLoad(i) ==
  /\ loads[i].at = "replied"
  /\ view' = [run |-> loads[i].run, changes |-> loads[i].changes, rows |-> loads[i].rows]
  /\ selected' = loads[i].run
  /\ loads' = Handled(loads, i)
  /\ missed' = (missed \/ loads[i].old)
  /\ IF session THEN AskList /\ UNCHANGED queue
                ELSE queue' = {} /\ UNCHANGED <<lists, behind>>
  /\ UNCHANGED <<feed, link, heard, acting, counters, chosen, overlap>>

(* renderRuns.                                                             *)
OnList(i) ==
  /\ lists[i].at = "replied"
  /\ queue' = lists[i].changes
  /\ lists' = Handled(lists, i)
  /\ behind' = (behind \/ lists[i].old)
  /\ UNCHANGED <<feed, link, heard, selected, view, loads, acting, counters, chosen, overlap, missed>>

(* A load fails: the view stays, or the session is cleared for a 401.      *)
LoadFails(i) ==
  /\ faults < MaxFaults /\ faults' = faults + 1
  /\ \/ /\ loads' = Handled(loads, i) /\ missed' = TRUE /\ overlap' = TRUE
        /\ UNCHANGED <<link, shown, lists, chosen, behind>>
     \/ ClearSession(RemoveAt(loads, i), lists)
  /\ UNCHANGED <<feed, heard, acting, choices>>

ListFails(i) ==
  /\ faults < MaxFaults /\ faults' = faults + 1
  /\ \/ /\ lists' = Handled(lists, i) /\ behind' = TRUE
        /\ UNCHANGED <<link, shown, loads, chosen, overlap, missed>>
     \/ ClearSession(loads, RemoveAt(lists, i))
  /\ UNCHANGED <<feed, heard, acting, choices>>

-----------------------------------------------------------------------------
page == <<link, heard, shown, acting, choices, history>>

(* Requests of others: a change, its row, or its end without one.          *)
Change(r) == \E c \in Runs \X (1..MaxChanges) : Make(r, c) /\ UNCHANGED <<page, requests, faults>>
Record(c) == Feed!Record(c) /\ UNCHANGED <<ahead, page, requests, faults>>
CutShort(c) ==
  /\ c \in changes \ (rows \cup abandoned)
  /\ faults < MaxFaults /\ faults' = faults + 1
  /\ Feed!Abandon({c})
  /\ UNCHANGED <<ahead, page, requests>>

(* get_run_view: the run is read, and then its audit rows.                 *)
ReadRun(i) ==
  /\ loads[i].at = "asked"
  /\ loads' = [loads EXCEPT ![i].at = "read", ![i].changes = Of(loads[i].run, changes)]
  /\ UNCHANGED <<feed, lists, page, faults>>
ReadTrail(i) ==
  /\ loads[i].at = "read"
  /\ loads' = [loads EXCEPT ![i].at = "replied", ![i].rows = Of(loads[i].run, rows)]
  /\ UNCHANGED <<feed, lists, page, faults>>

(* list_runs: one read of the runs that come first.                        *)
Ahead(r, C) == {q \in Runs : <<q, r>> \in ahead \/ Of(q, C) # {}}
NewestAscending(r) == Cardinality({q \in Runs : <<r, q>> \in ahead}) < QueueLimit
Newest(r) == Cardinality(Ahead(r, {})) < QueueLimit

ReadRuns(i) ==
  /\ lists[i].at = "asked"
  /\ lists' = [lists EXCEPT ![i].at = "replied", ![i].changes = {c \in changes : Newest(c[1])}]
  /\ UNCHANGED <<feed, loads, page, faults>>

-----------------------------------------------------------------------------
Loading(i) == ReadRun(i) \/ ReadTrail(i) \/ OnLoad(i)
Listing(i) == ReadRuns(i) \/ OnList(i)

(* What happens without anybody asking for more: the server ends what it   *)
(* has begun, the page handles what has arrived, and a page that is signed *)
(* in gets its stream.                                                     *)
Proceed ==
  \/ GoLive
  \/ \E i \in DOMAIN acting : ServeAct(i) \/ OnAct(i)
  \/ \E c \in Runs \X (1..MaxChanges) : OnEvent(c) \/ Record(c)
  \/ \E i \in DOMAIN loads : Loading(i)
  \/ \E i \in DOMAIN lists : Listing(i)

Next ==
  \/ Proceed
  \/ SignIn \/ SignOut \/ Act
  \/ \E r \in Runs : Choose(r) \/ Change(r)
  \/ \E c \in Runs \X (1..MaxChanges) : CutShort(c)
  \/ \E i \in DOMAIN acting : ActFails(i)
  \/ \E i \in DOMAIN loads : LoadFails(i)
  \/ \E i \in DOMAIN lists : ListFails(i)

Spec == Init /\ [][Next]_vars

-----------------------------------------------------------------------------
(* Changes nobody is told of: their requests ended without a row.          *)
Unsaid == abandoned \ rows

(* Nothing is left to do: no request is out, the page has its stream and   *)
(* has heard all of it, and every change has its row or is abandoned.      *)
Quiet ==
  /\ loads = <<>> /\ lists = <<>> /\ acting = <<>>
  /\ session => live /\ rows \subseteq heard
  /\ changes \subseteq rows \cup abandoned

Current ==
  IF session
  THEN view = NoView \/ (/\ Of(view.run, changes) \ Unsaid \subseteq view.changes
                         /\ view.rows = Of(view.run, rows))
  ELSE view = NoView /\ selected = NoRun

(* Whenever nothing is left to do, the inspector has caught up with the    *)
(* server, but for changes that nobody is told of, and shows no run to a   *)
(* page without a session; unless a load failed, an overtaken reply was    *)
(* rendered, loads were out at the last sign-out, or rows went by while    *)
(* the page was loading the run, and no run was asked for since with no    *)
(* other one loading: the next look at a run, or the next event of the one *)
(* that is selected, mends what such a race has broken.                    *)
CatchesUp == Quiet => Current \/ missed

(* Every run is in the queue as it was last told of, or is not there and   *)
(* enough runs come before it; a change nobody is told of moves its run,   *)
(* which may then be listed in its old place.                              *)
QueueCurrent ==
  IF session
  THEN \A r \in Runs :
         \/ Of(r, changes) \ Unsaid \subseteq queue
         \/ /\ Of(r, queue) = {}
            /\ Of(r, Unsaid) # {} \/ Cardinality(Ahead(r, Unsaid)) >= QueueLimit
  ELSE queue = {}

(* Whenever nothing is left to do, the queue has caught up, whichever run  *)
(* is selected; unless a list failed, an overtaken one was rendered, lists *)
(* were out at the last sign-out, or rows went by between a sign-in and    *)
(* the stream, and no list was asked for since: the next event of any run  *)
(* mends the queue.                                                        *)
QueueCatchesUp == Quiet => QueueCurrent \/ behind

(* The inspector ends at the run the operator asked for last, if nothing   *)
(* was loading when that one was asked for, and since then loads have not  *)
(* overlapped and none has failed.                                         *)
ChosenIsShown ==
  session /\ loads = <<>> /\ chosen # NoRun /\ ~overlap =>
    selected = chosen /\ view.run = chosen
=============================================================================
