---------------------------- MODULE AuditStream ----------------------------
(***************************************************************************)
(* The live audit stream: the coroutine behind GET /events/stream polls    *)
(* the newest rows of audit_events once a second and sends those that      *)
(* follow its cursor, while the request threads append rows.               *)
(*                                                                         *)
(* append_event draws created_at before it opens its connection, so rows   *)
(* become visible in another order than the one they are sorted by, and    *)
(* the sort is by the text of created_at.  Rows are named by the rank of   *)
(* that text, no two the same; all belong to the tenant of the stream.     *)
(* The keepalive comments, which carry no event, are left out.             *)
(*                                                                         *)
(* Bounds: MaxEvents rows, MaxConnects connections.                        *)
(***************************************************************************)
EXTENDS Timestamps, Sequences, FiniteSets

CONSTANTS Writer,      \* threads inside append_event
          Limit,       \* rows a poll reads (50 in the code)
          MaxEvents, MaxConnects

ASSUME LimitAssumption == Limit \in Nat \ {0}
ASSUME StreamBounds == MaxEvents \in Nat /\ MaxConnects \in Nat

VARIABLES
  clock,      \* the last tick at which a stamp was drawn
  stamp,      \* the stamp each writer holds, 0 outside append_event
  events,     \* the committed rows
  link,       \* "closed", or "open" while the coroutine runs
  cursor,     \* id of the last event sent or seeded, 0 for None
  pending,    \* what is left of the batch being sent
  delivered,  \* everything sent, over all connections
  connects,
  \* history of the current connection
  before,     \* rows there when it opened
  readHigh,   \* newest row read so far
  late,       \* rows inserted behind a newer row already read
  overflow    \* rows pushed out of the window between two polls

vars == <<clock, stamp, events, link, cursor, pending, delivered, connects,
          before, readHigh, late, overflow>>
stream == <<link, cursor, pending, delivered, connects>>

Stamps == 1..RankBound(MaxEvents)

Init ==
  /\ clock = 0
  /\ stamp = [w \in Writer |-> 0]
  /\ events = {}
  /\ link = "closed" /\ cursor = 0 /\ pending = {}
  /\ delivered = <<>> /\ connects = 0
  /\ before = {} /\ readHigh = 0 /\ late = {} /\ overflow = {}

(* The newest of E, 0 when there is none.                                  *)
IsNewest(e, E) == e \in E \cup {0} /\ \A f \in E : f <= e

(* ORDER BY created_at DESC LIMIT Limit, reversed: the newest rows.        *)
Window(E) == {e \in E : Cardinality({f \in E : f > e}) < Limit}

(* _events_after_cursor: what follows the cursor in the window, the whole  *)
(* window when the cursor is None or has left it.                          *)
AfterCursorInclusive(W, c) == IF c \in W THEN {e \in W : e >= c} ELSE W
AfterCursorOrNothing(W, c) == IF c \in W THEN {e \in W : e > c} ELSE {}
AfterCursor(W, c) == IF c \in W THEN {e \in W : e > c} ELSE W

-----------------------------------------------------------------------------
(* append_event: created_at is drawn, then the row is inserted.            *)
Stamp(w) ==
  /\ stamp[w] = 0
  /\ clock < MaxEvents
  /\ clock' = clock + 1
  /\ stamp' = [stamp EXCEPT ![w] = TextRank(clock + 1)]
  /\ UNCHANGED <<events, stream, before, readHigh, late, overflow>>

InsertUnstamped(w) ==
  /\ events' = events \cup {stamp[w]}
  /\ UNCHANGED <<clock, stamp, stream, before, readHigh, late, overflow>>

Insert(w) ==
  /\ stamp[w] # 0
  /\ events' = events \cup {stamp[w]}
  /\ late' = IF stamp[w] < readHigh THEN late \cup {stamp[w]} ELSE late
  /\ stamp' = [stamp EXCEPT ![w] = 0]
  /\ UNCHANGED <<clock, stream, before, readHigh, overflow>>

(* The insert fails: the stamp is never seen.                              *)
InsertFails(w) ==
  /\ stamp[w] # 0
  /\ stamp' = [stamp EXCEPT ![w] = 0]
  /\ UNCHANGED <<clock, events, stream, before, readHigh, late, overflow>>

(* The handler seeds the cursor with the newest row, or None.              *)
Connect ==
  /\ link = "closed"
  /\ connects < MaxConnects
  /\ connects' = connects + 1
  /\ link' = "open"
  /\ \E e \in Stamps \cup {0} :
       /\ IsNewest(e, Window(events))
       /\ cursor' = e
       /\ readHigh' = e
  /\ pending' = {}
  /\ before' = events /\ late' = {} /\ overflow' = {}
  /\ UNCHANGED <<clock, stamp, events, delivered>>

(* One turn of the loop: read the window, take what follows the cursor.    *)
Poll ==
  /\ link = "open" /\ pending = {}
  /\ pending' = AfterCursor(Window(events), cursor)
  /\ \E e \in Stamps \cup {0} : IsNewest(e, events \cup {readHigh}) /\ readHigh' = e
  /\ overflow' = overflow \cup {e \in events : e > readHigh /\ e \notin Window(events)}
  /\ UNCHANGED <<clock, stamp, events, link, cursor, delivered, connects, before, late>>

(* The batch is sent oldest first; the cursor moves before the yield.      *)
Send ==
  /\ link = "open"
  /\ \E e \in pending :
       /\ \A f \in pending : e <= f
       /\ cursor' = e
       /\ pending' = pending \ {e}
       /\ delivered' = Append(delivered, e)
  /\ UNCHANGED <<clock, stamp, events, link, connects, before, readHigh, late, overflow>>

(* The client goes away or a read raises: the coroutine ends where it is,  *)
(* what was left of the batch with it.                                     *)
Disconnect ==
  /\ link = "open"
  /\ link' = "closed"
  /\ pending' = {}
  /\ UNCHANGED <<clock, stamp, events, cursor, delivered, connects, before, readHigh, late, overflow>>

Next ==
  \/ \E w \in Writer : Stamp(w) \/ Insert(w) \/ InsertFails(w)
  \/ Connect \/ Poll \/ Send \/ Disconnect

Spec == Init /\ [][Next]_vars

(* The event loop keeps resuming an open stream.                           *)
FairSpec == Spec /\ WF_vars(Poll) /\ WF_vars(Send)

-----------------------------------------------------------------------------
(* Rows, stamps held and the cursor are stamps; a connection is counted.   *)
TypeOK ==
  /\ clock \in 0..MaxEvents
  /\ stamp \in [Writer -> Stamps \cup {0}]
  /\ events \subseteq Stamps
  /\ link \in {"closed", "open"}
  /\ cursor \in Stamps \cup {0}
  /\ pending \subseteq Stamps
  /\ delivered \in Seq(Stamps)
  /\ connects \in Nat

(* Over all the connections of a client, however rows become visible and   *)
(* however far the stream falls behind, events are sent in the order of    *)
(* their stamps and none is sent twice.                                    *)
DeliveredInOrder ==
  \A i, j \in DOMAIN delivered : i < j => delivered[i] < delivered[j]

Sent(e) == \E i \in DOMAIN delivered : delivered[i] = e

(* An open stream misses a row only in one of three ways: the row was      *)
(* there when it connected, the row was inserted behind a newer row that   *)
(* had already been read, or more than Limit rows came between two polls.  *)
LossAccounted ==
  link = "open" =>
    \A e \in events :
      \/ Sent(e) \/ e \in pending \/ e > readHigh
      \/ e \in before \/ e \in late \/ e \in overflow

(* Whatever is appended while the stream is open is sent unless it closes, *)
(* the row comes late or a poll finds it gone: a cursor that has left the  *)
(* window delays the stream but never stalls it.                           *)
EventuallyDelivered ==
  \A e \in Stamps :
    (link = "open" /\ e \in events /\ e \notin before)
      ~> (Sent(e) \/ link = "closed" \/ e \in late \/ e \in overflow)
=============================================================================
