------------------------- MODULE RunInspectorProofs -------------------------
(***************************************************************************)
(* The inspector and the queue of the product page follow the server, for  *)
(* any runs, changes, choices and faults and any order of replies and live *)
(* events, unless one of the races RunInspector names lost them something. *)
(***************************************************************************)
EXTENDS RunInspector, FiniteSetTheorems, TLAPS

Changes == Runs \X (1..MaxChanges)
Load == [run : Runs, at : {"asked", "read", "replied"}, changes : SUBSET Changes,
         rows : SUBSET Changes, old : BOOLEAN]
List == [at : {"asked", "replied"}, changes : SUBSET Changes, old : BOOLEAN]
View == [run : Runs \cup {NoRun}, changes : SUBSET Changes, rows : SUBSET Changes]

(* Rows are of changes, the page hears of rows, it streams only with a     *)
(* session, and the run it shows is the one it has selected.               *)
PageInv ==
  /\ heard \subseteq rows /\ rows \subseteq changes /\ changes \subseteq Changes
  /\ {session, live, overlap, missed, behind} \subseteq BOOLEAN
  /\ live => session
  /\ loads \in Seq(Load) /\ lists \in Seq(List)
  /\ view \in View /\ selected = view.run
  /\ view.run = NoRun => view = NoView
  /\ faults \in Nat

(* A view, shown or on its way, has no rows but those of its run.          *)
ReadInv ==
  /\ view.rows \subseteq Of(view.run, rows)
  /\ \A i \in DOMAIN loads : loads[i].rows \subseteq Of(loads[i].run, rows)

(* A page without a session asks for no run, has nothing to show, and      *)
(* nothing on its way that could come to be shown.                         *)
SignedOutInv ==
  ~session => /\ chosen = NoRun
              /\ missed \/ (loads = <<>> /\ view = NoView)
              /\ behind \/ (lists = <<>> /\ queue = {})

(* A reply that will be rendered last of those out now, or in its place,   *)
(* and in which the change c will be seen with its row.                    *)
LoadTells(l, c) ==
  /\ ~l.old /\ l.run = c[1]
  /\ l.at = "asked" \/ c \in l.changes
  /\ l.at # "replied" \/ c \in l.rows

(* The changes K show all that was heard of r, or nothing of it, and then  *)
(* r was changed since, or enough runs come before it or were changed.     *)
Covers(K, r) ==
  \/ Of(r, heard) \subseteq K
  \/ /\ Of(r, K) = {}
     /\ \/ Of(r, changes \ heard) # {}
        \/ Cardinality(Ahead(r, changes \ heard)) >= QueueLimit
ListTells(l, r) == ~l.old /\ (l.at = "asked" \/ Covers(l.changes, r))

(* Whatever the page has heard of the run it shows is in what it shows, or *)
(* a reply comes after; and what it has heard of a run it will show is in  *)
(* that reply or in one that comes after.                                  *)
ViewFollows(c) ==
  /\ view.run = c[1] => \/ c \in view.changes /\ c \in view.rows
                        \/ \E j \in DOMAIN loads : ~loads[j].old
  /\ \A i \in DOMAIN loads : ~loads[i].old /\ loads[i].run = c[1] =>
       \E j \in DOMAIN loads : j >= i /\ LoadTells(loads[j], c)
ViewInv == session /\ ~missed => \A c \in heard : ViewFollows(c)

QueueFollows(r) ==
  /\ Covers(queue, r) \/ \E j \in DOMAIN lists : ListTells(lists[j], r)
  /\ \A i \in DOMAIN lists : ~lists[i].old =>
       \E j \in DOMAIN lists : j >= i /\ ListTells(lists[j], r)
QueueInv == session /\ ~behind => \A r \in Runs : QueueFollows(r)

(* Loads that did not overlap: the one that is out, or else the view, is   *)
(* of the run asked for last.                                              *)
ChosenInv ==
  /\ ~overlap => Len(loads) <= 1
  /\ session /\ chosen # NoRun /\ ~overlap =>
       IF loads = <<>> THEN view.run = chosen ELSE loads[1].run = chosen

InspectorInv == PageInv /\ ReadInv /\ SignedOutInv /\ ViewInv /\ QueueInv /\ ChosenInv

-----------------------------------------------------------------------------
(* Requests that are out: one more is sent, one is answered, one is gone.  *)

LEMMA RemovedOne ==
  ASSUME NEW S, NEW out \in Seq(S), NEW i \in DOMAIN out
  PROVE  /\ RemoveAt(out, i) \in Seq(S)
         /\ Len(RemoveAt(out, i)) = Len(out) - 1
         /\ \A j \in 1..(Len(out) - 1) :
              RemoveAt(out, i)[j] = IF j < i THEN out[j] ELSE out[j + 1]
<1>1. Len(out) \in Nat /\ i \in 1..Len(out) /\ \A j \in 1..Len(out) : out[j] \in S
  OBVIOUS
<1> DEFINE front == SubSeq(out, 1, i - 1)
           back == SubSeq(out, i + 1, Len(out))
<1>2. /\ front \in Seq(S) /\ Len(front) = i - 1
      /\ \A j \in 1..(i - 1) : front[j] = out[j]
  BY <1>1
<1>3. /\ back \in Seq(S) /\ Len(back) = Len(out) - i
      /\ \A j \in 1..(Len(out) - i) : back[j] = out[i + j]
  BY <1>1
<1>4. RemoveAt(out, i) = front \o back
  BY DEF RemoveAt
<1> HIDE DEF front, back
<1>5. front \o back \in Seq(S) /\ Len(front \o back) = Len(out) - 1
  BY <1>1, <1>2, <1>3
<1>6. ASSUME NEW j \in 1..(Len(out) - 1)
      PROVE  (front \o back)[j] = IF j < i THEN out[j] ELSE out[j + 1]
  <2>1. CASE j < i
    BY <1>1, <1>2, <1>3, <2>1
  <2>2. CASE ~(j < i)
    <3>1. j - (i - 1) \in 1..(Len(out) - i) /\ i + (j - (i - 1)) = j + 1
      BY <1>1, <2>2
    <3>2. j \in 1..(Len(front) + Len(back)) /\ j > Len(front)
      BY <1>1, <1>2, <1>3, <2>2
    <3>3. (front \o back)[j] = back[j - Len(front)]
      BY <1>2, <1>3, <3>2
    <3> QED
      BY <1>2, <1>3, <2>2, <3>1, <3>3
  <2> QED
    BY <2>1, <2>2
<1> QED
  BY <1>4, <1>5, <1>6

(* Requests whose being overtaken is recorded in the field old.            *)
Aging(S) ==
  \A r \in S : /\ r.old \in BOOLEAN
               /\ [r EXCEPT !.old = TRUE] \in S /\ [r EXCEPT !.old = TRUE].old = TRUE
               /\ [r EXCEPT !.old = r.old] = r

LEMMA HandledOne ==
  ASSUME NEW S, Aging(S), NEW out \in Seq(S), NEW i \in DOMAIN out
  PROVE  /\ Handled(out, i) \in Seq(S)
         /\ Len(Handled(out, i)) = Len(out) - 1
         /\ \A j \in 1..(Len(out) - 1) :
              Handled(out, i)[j] = IF j < i THEN [out[j] EXCEPT !.old = TRUE] ELSE out[j + 1]
<1> DEFINE aged == [j \in DOMAIN out |-> [out[j] EXCEPT !.old = @ \/ j < i]]
<1>1. Len(out) \in Nat /\ DOMAIN out = 1..Len(out) /\ i \in 1..Len(out)
  OBVIOUS
<1>2. ASSUME NEW j \in 1..Len(out)
      PROVE  /\ aged[j] = IF j < i THEN [out[j] EXCEPT !.old = TRUE] ELSE out[j]
             /\ aged[j] \in S
  <2>1. out[j] \in S /\ aged[j] = [out[j] EXCEPT !.old = out[j].old \/ j < i]
    BY <1>1
  <2>2. /\ out[j].old \in BOOLEAN
        /\ [out[j] EXCEPT !.old = TRUE] \in S
        /\ [out[j] EXCEPT !.old = out[j].old] = out[j]
    BY <2>1 DEF Aging
  <2>3. CASE j < i
    <3>1. (out[j].old \/ j < i) = TRUE
      BY <2>3
    <3> QED
      BY <2>1, <2>2, <2>3, <3>1
  <2>4. CASE ~(j < i)
    <3>1. (out[j].old \/ j < i) = out[j].old
      BY <2>2, <2>4
    <3> QED
      BY <2>1, <2>2, <2>4, <3>1
  <2> QED
    BY <2>3, <2>4
<1>3. aged \in Seq(S) /\ Len(aged) = Len(out)
  <2>1. aged \in [1..Len(out) -> S]
    BY <1>1, <1>2
  <2> QED
    BY <1>1, <2>1
<1>4. Handled(out, i) = RemoveAt(aged, i)
  BY DEF Handled
<1> HIDE DEF aged
<1>5. i \in DOMAIN aged
  BY <1>1, <1>3
<1>6. /\ RemoveAt(aged, i) \in Seq(S)
      /\ Len(RemoveAt(aged, i)) = Len(out) - 1
      /\ \A j \in 1..(Len(out) - 1) :
           RemoveAt(aged, i)[j] = IF j < i THEN aged[j] ELSE aged[j + 1]
  BY <1>3, <1>5, RemovedOne
<1>7. ASSUME NEW j \in 1..(Len(out) - 1)
      PROVE  Handled(out, i)[j] = IF j < i THEN [out[j] EXCEPT !.old = TRUE] ELSE out[j + 1]
  <2>1. j \in 1..Len(out) /\ j + 1 \in 1..Len(out) /\ (j < i \/ ~(j + 1 < i))
    BY <1>1
  <2> QED
    BY <1>2, <1>4, <1>6, <2>1
<1> QED
  BY <1>4, <1>6, <1>7

LEMMA LoadsAge == Aging(Load) /\ Aging(List)
BY DEF Aging, Load, List

NewLoad(r) == [run |-> r, at |-> "asked", changes |-> {}, rows |-> {}, old |-> FALSE]
NewList == [at |-> "asked", changes |-> {}, old |-> FALSE]

(* A load of r is sent after those that are out.                           *)
LoadSent(r) ==
  /\ loads' \in Seq(Load) /\ Len(loads') = Len(loads) + 1
  /\ \A j \in DOMAIN loads : j \in DOMAIN loads' /\ loads'[j] = loads[j]
  /\ loads'[Len(loads) + 1] = NewLoad(r)

LEMMA AskedRun ==
  ASSUME PageInv, NEW r \in Runs, NEW crossed, AskRun(r, crossed)
  PROVE  /\ LoadSent(r) /\ overlap' = (crossed \/ loads # <<>>)
         /\ missed' = (missed /\ \E i \in DOMAIN loads : loads[i].run # r)
<1>1. loads \in Seq(Load) /\ NewLoad(r) \in Load
  BY DEF PageInv, NewLoad, Load
<1>2. loads' = Append(loads, NewLoad(r))
  BY DEF AskRun, NewLoad
<1> HIDE DEF NewLoad
<1>3. /\ loads' \in Seq(Load) /\ Len(loads') = Len(loads) + 1
      /\ \A j \in DOMAIN loads : j \in DOMAIN loads' /\ loads'[j] = loads[j]
      /\ loads'[Len(loads) + 1] = NewLoad(r)
  BY <1>1, <1>2
<1> QED
  BY <1>3 DEF AskRun, LoadSent

(* The queue is asked for, after the lists that are out.                   *)
ListSent ==
  /\ lists' \in Seq(List) /\ Len(lists') = Len(lists) + 1
  /\ \A j \in DOMAIN lists : j \in DOMAIN lists' /\ lists'[j] = lists[j]
  /\ lists'[Len(lists) + 1] = NewList

LEMMA AskedList ==
  ASSUME PageInv, AskList
  PROVE  ListSent
<1>1. lists \in Seq(List) /\ NewList \in List
  BY DEF PageInv, NewList, List
<1>2. lists' = Append(lists, NewList)
  BY DEF AskList, NewList
<1> HIDE DEF NewList
<1> QED
  BY <1>1, <1>2 DEF ListSent

(* The i-th load that is out is answered, or gone.                         *)
LoadGone(i) ==
  /\ i \in 1..Len(loads)
  /\ loads' \in Seq(Load) /\ Len(loads') = Len(loads) - 1
  /\ \A j \in DOMAIN loads' : IF j < i THEN loads'[j] = [loads[j] EXCEPT !.old = TRUE]
                                       ELSE loads'[j] = loads[j + 1]

LEMMA HandledLoad ==
  ASSUME PageInv, NEW i \in DOMAIN loads, loads' = Handled(loads, i)
  PROVE  LoadGone(i)
<1>1. loads \in Seq(Load)
  BY DEF PageInv
<1>2. /\ loads' \in Seq(Load) /\ Len(loads') = Len(loads) - 1
      /\ \A j \in 1..(Len(loads) - 1) :
           loads'[j] = IF j < i THEN [loads[j] EXCEPT !.old = TRUE] ELSE loads[j + 1]
  BY <1>1, LoadsAge, HandledOne
<1>3. i \in 1..Len(loads) /\ DOMAIN loads' = 1..(Len(loads) - 1)
  BY <1>1, <1>2
<1> QED
  BY <1>2, <1>3, Zenon DEF LoadGone

ListGone(i) ==
  /\ i \in 1..Len(lists)
  /\ lists' \in Seq(List) /\ Len(lists') = Len(lists) - 1
  /\ \A j \in DOMAIN lists' : IF j < i THEN lists'[j] = [lists[j] EXCEPT !.old = TRUE]
                                       ELSE lists'[j] = lists[j + 1]

LEMMA HandledList ==
  ASSUME PageInv, NEW i \in DOMAIN lists, lists' = Handled(lists, i)
  PROVE  ListGone(i)
<1>1. lists \in Seq(List)
  BY DEF PageInv
<1>2. /\ lists' \in Seq(List) /\ Len(lists') = Len(lists) - 1
      /\ \A j \in 1..(Len(lists) - 1) :
           lists'[j] = IF j < i THEN [lists[j] EXCEPT !.old = TRUE] ELSE lists[j + 1]
  BY <1>1, LoadsAge, HandledOne
<1>3. i \in 1..Len(lists) /\ DOMAIN lists' = 1..(Len(lists) - 1)
  BY <1>1, <1>2
<1> QED
  BY <1>2, <1>3, Zenon DEF ListGone

(* The i-th load that is out has become l.                                 *)
LoadRead(i, l) ==
  /\ i \in 1..Len(loads) /\ l \in Load
  /\ loads' \in Seq(Load) /\ Len(loads') = Len(loads)
  /\ \A j \in DOMAIN loads : loads'[j] = IF j = i THEN l ELSE loads[j]
ListRead(i, l) ==
  /\ i \in 1..Len(lists) /\ l \in List
  /\ lists' \in Seq(List) /\ Len(lists') = Len(lists)
  /\ \A j \in DOMAIN lists : lists'[j] = IF j = i THEN l ELSE lists[j]

-----------------------------------------------------------------------------
(* ViewInv, under what happens to the loads.                               *)

(* Nothing of the runs that are shown or out is heard.                     *)
LEMMA ViewKept ==
  ASSUME ViewInv, loads' = loads, view' = view, session' /\ ~missed' => session /\ ~missed,
         \A c \in heard' : \/ c \in heard
                           \/ view.run # c[1] /\ \A i \in DOMAIN loads : loads[i].run # c[1]
  PROVE  ViewInv'
<1> SUFFICES ASSUME session', ~missed', NEW c \in heard' PROVE ViewFollows(c)'
  BY DEF ViewInv
<1>1. CASE c \in heard
  BY <1>1 DEF ViewInv, ViewFollows
<1>2. CASE view.run # c[1] /\ \A i \in DOMAIN loads : loads[i].run # c[1]
  BY <1>2 DEF ViewFollows
<1> QED
  BY <1>1, <1>2

(* A load that has just been sent will tell of all that was heard of its   *)
(* run.                                                                    *)
LEMMA ViewSent ==
  ASSUME PageInv, ViewInv, NEW r \in Runs, LoadSent(r), view' = view,
         session' => session,
         ~missed' => ~missed \/ \A i \in DOMAIN loads : loads[i].run = r,
         \A c \in heard' : c \in heard \/ c[1] = r
  PROVE  ViewInv'
<1> SUFFICES ASSUME session', ~missed', NEW c \in heard' PROVE ViewFollows(c)'
  BY DEF ViewInv
<1> DEFINE n == Len(loads) + 1
<1>1. /\ Len(loads) \in Nat /\ DOMAIN loads = 1..Len(loads)
      /\ DOMAIN loads' = 1..n /\ n \in DOMAIN loads'
      /\ \A j \in DOMAIN loads : j \in DOMAIN loads' /\ loads'[j] = loads[j]
      /\ loads'[n] = NewLoad(r)
  BY DEF PageInv, LoadSent
<1>2. \A i \in DOMAIN loads' : i <= n /\ (i = n \/ i \in DOMAIN loads)
  BY <1>1
<1> HIDE DEF n
<1>3. ~loads'[n].old /\ loads'[n].run = r
  BY <1>1 DEF NewLoad
<1>4. CASE c[1] = r
  <2>1. LoadTells(loads'[n], c)
    BY <1>1, <1>4 DEF LoadTells, NewLoad
  <2>2. \A i \in DOMAIN loads' : n >= i
    BY <1>1, <1>2
  <2> QED
    BY <1>1, <1>3, <2>1, <2>2 DEF ViewFollows
<1>5. CASE c \in heard /\ c[1] # r
  <2>1. ASSUME NEW i \in DOMAIN loads', ~loads'[i].old, loads'[i].run = c[1]
        PROVE  \E j \in DOMAIN loads' : j >= i /\ LoadTells(loads'[j], c)
    <3>1. i \in DOMAIN loads /\ loads[i] = loads'[i]
      BY <1>1, <1>2, <1>3, <1>5, <2>1
    <3>2. ViewFollows(c)
      BY <1>5, <2>1, <3>1 DEF ViewInv
    <3> QED
      BY <1>1, <2>1, <3>1, <3>2 DEF ViewFollows
  <2> QED
    BY <1>1, <1>3, <2>1 DEF ViewFollows
<1> QED
  BY <1>4, <1>5

(* A reply that was not overtaken is rendered: what it does not tell of is *)
(* told by one that comes after.                                           *)
LEMMA ViewRendered ==
  ASSUME PageInv, ViewInv, NEW i, LoadGone(i), loads[i].at = "replied",
         view' = [run |-> loads[i].run, changes |-> loads[i].changes, rows |-> loads[i].rows],
         missed' = (missed \/ loads[i].old), session' = session, heard' = heard
  PROVE  ViewInv'
<1> SUFFICES ASSUME session', ~missed', NEW c \in heard' PROVE ViewFollows(c)'
  BY DEF ViewInv
<1>1. /\ Len(loads) \in Nat /\ DOMAIN loads = 1..Len(loads) /\ i \in DOMAIN loads
      /\ DOMAIN loads' = 1..(Len(loads) - 1)
      /\ \A j \in DOMAIN loads : loads[j] \in Load
  BY DEF PageInv, LoadGone
<1>2. ~loads[i].old /\ ~missed
  BY <1>1
<1>3. ViewFollows(c)
  BY <1>2 DEF ViewInv
<1>4. ASSUME NEW k \in DOMAIN loads, k > i
      PROVE  k - 1 \in DOMAIN loads' /\ k - 1 >= i /\ loads'[k - 1] = loads[k]
  <2>1. k - 1 \in DOMAIN loads' /\ ~(k - 1 < i) /\ k - 1 + 1 = k /\ k - 1 >= i
    BY <1>1, <1>4
  <2> QED
    BY <2>1 DEF LoadGone
<1>5. view'.run = c[1] => \/ c \in view'.changes /\ c \in view'.rows
                          \/ \E j \in DOMAIN loads' : ~loads'[j].old
  <2> SUFFICES ASSUME loads[i].run = c[1]
               PROVE  \/ c \in loads[i].changes /\ c \in loads[i].rows
                      \/ \E j \in DOMAIN loads' : ~loads'[j].old
    OBVIOUS
  <2>1. PICK k \in DOMAIN loads : k >= i /\ LoadTells(loads[k], c)
    BY <1>1, <1>2, <1>3 DEF ViewFollows
  <2>2. CASE k = i
    BY <2>1, <2>2 DEF LoadTells
  <2>3. CASE k > i
    BY <1>4, <2>1, <2>3 DEF LoadTells
  <2> QED
    BY <1>1, <2>1, <2>2, <2>3
<1>6. ASSUME NEW j \in DOMAIN loads', ~loads'[j].old, loads'[j].run = c[1]
      PROVE  \E k \in DOMAIN loads' : k >= j /\ LoadTells(loads'[k], c)
  <2>1. ~(j < i)
    <3>1. ASSUME j < i PROVE FALSE
      <4>1. j \in DOMAIN loads /\ loads'[j] = [loads[j] EXCEPT !.old = TRUE]
        BY <1>1, <3>1 DEF LoadGone
      <4>2. [loads[j] EXCEPT !.old = TRUE].old = TRUE
        BY <1>1, <4>1 DEF Load
      <4> QED
        BY <1>6, <4>1, <4>2
    <3> QED
      BY <3>1
  <2>2. j + 1 \in DOMAIN loads /\ loads'[j] = loads[j + 1] /\ j + 1 > i
    BY <1>1, <2>1 DEF LoadGone
  <2>3. PICK k \in DOMAIN loads : k >= j + 1 /\ LoadTells(loads[k], c)
    BY <1>3, <1>6, <2>2 DEF ViewFollows
  <2>4. k > i /\ k - 1 >= j
    BY <1>1, <2>2, <2>3
  <2> QED
    BY <1>4, <2>3, <2>4
<1> QED
  BY <1>5, <1>6 DEF ViewFollows

(* A load reads the server: it tells of no less than before.               *)
LEMMA ViewReads ==
  ASSUME PageInv, ViewInv, NEW i, NEW l, LoadRead(i, l), l.run = loads[i].run, l.old = loads[i].old,
         \A c \in heard : LoadTells(loads[i], c) => LoadTells(l, c),
         UNCHANGED <<view, session, missed, heard>>
  PROVE  ViewInv'
<1> SUFFICES ASSUME session, ~missed, NEW c \in heard PROVE ViewFollows(c)'
  BY DEF ViewInv
<1>1. /\ DOMAIN loads' = DOMAIN loads /\ i \in DOMAIN loads
      /\ \A j \in DOMAIN loads : loads'[j] = IF j = i THEN l ELSE loads[j]
  BY DEF PageInv, LoadRead
<1>2. ViewFollows(c)
  BY DEF ViewInv
<1>3. \A j \in DOMAIN loads : /\ loads'[j].run = loads[j].run /\ loads'[j].old = loads[j].old
                              /\ LoadTells(loads[j], c) => LoadTells(loads'[j], c)
  BY <1>1
<1> QED
  BY <1>1, <1>2, <1>3 DEF ViewFollows

-----------------------------------------------------------------------------
(* QueueInv, under what happens to the lists.                              *)

(* The server moves on: a run that no longer comes before another one, or  *)
(* that other one, has a change nobody has heard of.                       *)
MovesOn ==
  /\ heard' = heard /\ changes \subseteq changes'
  /\ \A q, r \in Runs :
       <<q, r>> \in ahead => \/ <<q, r>> \in ahead'
                            \/ Of(q, changes' \ heard) # {} \/ Of(r, changes' \ heard) # {}

(* If enough runs come before another one, so do they when more of them    *)
(* may have been changed.                                                  *)
LEMMA MoreAhead ==
  ASSUME NEW A, NEW B, A \subseteq B, B \subseteq Runs, Cardinality(A) >= QueueLimit
  PROVE  Cardinality(B) >= QueueLimit
<1>1. IsFiniteSet(B)
  BY RunsFinite, FS_Subset
<1>2. Cardinality(A) <= Cardinality(B) /\ Cardinality(A) \in Nat /\ Cardinality(B) \in Nat
  BY <1>1, FS_Subset, FS_CardinalityType
<1> QED
  BY <1>2, InspectorBounds

LEMMA CoversStays ==
  ASSUME MovesOn, NEW K, NEW r \in Runs, Covers(K, r)
  PROVE  Covers(K, r)'
<1>1. CASE Of(r, heard) \subseteq K
  BY <1>1 DEF Covers, MovesOn, Of
<1>2. CASE Of(r, K) = {} /\ Of(r, changes' \ heard) # {}
  BY <1>2 DEF Covers, MovesOn, Of
<1>3. CASE /\ Of(r, K) = {} /\ Of(r, changes' \ heard) = {}
           /\ Cardinality(Ahead(r, changes \ heard)) >= QueueLimit
  <2> DEFINE A == Ahead(r, changes \ heard)
             B == Ahead(r, changes \ heard)'
  <2>1. A \subseteq B
    BY <1>3 DEF MovesOn, Ahead, Of
  <2>2. B \subseteq Runs
    BY DEF Ahead
  <2>3. Cardinality(A) >= QueueLimit
    BY <1>3
  <2> HIDE DEF A, B
  <2>4. Cardinality(B) >= QueueLimit
    BY <2>1, <2>2, <2>3, MoreAhead
  <2> QED
    BY <1>3, <2>4 DEF B, Covers, Of
<1>4. Of(r, changes \ heard) # {} => Of(r, changes' \ heard) # {}
  BY DEF MovesOn, Of
<1> QED
  BY <1>1, <1>2, <1>3, <1>4 DEF Covers

LEMMA QueueKept ==
  ASSUME QueueInv, lists' = lists,
         session' /\ ~behind' => session /\ ~behind /\ queue' = queue /\ MovesOn
  PROVE  QueueInv'
<1> SUFFICES ASSUME session', ~behind', NEW r \in Runs PROVE QueueFollows(r)'
  BY DEF QueueInv
<1>1. QueueFollows(r) /\ queue' = queue
  BY DEF QueueInv
<1>2. Covers(queue, r) => Covers(queue, r)'
  BY CoversStays
<1>3. ASSUME NEW j \in DOMAIN lists, ListTells(lists[j], r) PROVE ListTells(lists[j], r)'
  <2>1. Covers(lists[j].changes, r) => Covers(lists[j].changes, r)'
    BY CoversStays
  <2> QED
    BY <1>3, <2>1 DEF ListTells
<1> QED
  BY <1>1, <1>2, <1>3 DEF QueueFollows

(* So it does when no run is changed.                                      *)
LEMMA Unmoved ==
  ASSUME UNCHANGED <<changes, ahead, heard>>
  PROVE  MovesOn
BY DEF MovesOn

(* A list that has just been asked for will tell of all there is.          *)
LEMMA QueueSent ==
  ASSUME PageInv, ListSent
  PROVE  QueueInv'
<1> SUFFICES ASSUME NEW r \in Runs PROVE QueueFollows(r)'
  BY DEF QueueInv
<1> PICK n \in Nat : n = Len(lists) + 1
  BY DEF PageInv
<1>1. n \in DOMAIN lists' /\ \A i \in DOMAIN lists' : n >= i
  BY DEF PageInv, ListSent
<1>2. ListTells(lists[n], r)'
  BY DEF ListSent, ListTells, NewList
<1> QED
  BY <1>1, <1>2 DEF QueueFollows

(* Nothing changes in what the queue is measured by.                       *)
LEMMA Steady ==
  ASSUME UNCHANGED <<changes, ahead, heard>>
  PROVE  \A K, r : Covers(K, r)' <=> Covers(K, r)
BY DEF Covers, Ahead, Of

LEMMA QueueRendered ==
  ASSUME PageInv, QueueInv, NEW i, ListGone(i), lists[i].at = "replied",
         queue' = lists[i].changes, behind' = (behind \/ lists[i].old),
         session' = session, UNCHANGED <<changes, ahead, heard>>
  PROVE  QueueInv'
<1> SUFFICES ASSUME session', ~behind', NEW r \in Runs PROVE QueueFollows(r)'
  BY DEF QueueInv
<1>1. /\ Len(lists) \in Nat /\ DOMAIN lists = 1..Len(lists) /\ i \in DOMAIN lists
      /\ DOMAIN lists' = 1..(Len(lists) - 1)
      /\ \A j \in DOMAIN lists : lists[j] \in List
  BY DEF PageInv, ListGone
<1>2. ~lists[i].old /\ ~behind
  BY <1>1
<1>3. QueueFollows(r)
  BY <1>2 DEF QueueInv
<1>4. ASSUME NEW k \in DOMAIN lists, k > i
      PROVE  k - 1 \in DOMAIN lists' /\ k - 1 >= i /\ lists'[k - 1] = lists[k]
  <2>1. k - 1 \in DOMAIN lists' /\ ~(k - 1 < i) /\ k - 1 + 1 = k /\ k - 1 >= i
    BY <1>1, <1>4
  <2> QED
    BY <2>1 DEF ListGone
<1>5. Covers(queue', r) \/ \E j \in DOMAIN lists' : ListTells(lists'[j], r)
  <2>1. PICK k \in DOMAIN lists : k >= i /\ ListTells(lists[k], r)
    BY <1>1, <1>2, <1>3 DEF QueueFollows
  <2>2. CASE k = i
    BY <2>1, <2>2 DEF ListTells
  <2>3. CASE k > i
    BY <1>4, <2>1, <2>3
  <2> QED
    BY <1>1, <2>1, <2>2, <2>3
<1>6. ASSUME NEW j \in DOMAIN lists', ~lists'[j].old
      PROVE  \E k \in DOMAIN lists' : k >= j /\ ListTells(lists'[k], r)
  <2>1. ~(j < i)
    <3>1. ASSUME j < i PROVE FALSE
      <4>1. j \in DOMAIN lists /\ lists'[j] = [lists[j] EXCEPT !.old = TRUE]
        BY <1>1, <3>1 DEF ListGone
      <4>2. [lists[j] EXCEPT !.old = TRUE].old = TRUE
        BY <1>1, <4>1 DEF List
      <4> QED
        BY <1>6, <4>1, <4>2
    <3> QED
      BY <3>1
  <2>2. j + 1 \in DOMAIN lists /\ lists'[j] = lists[j + 1] /\ j + 1 > i
    BY <1>1, <2>1 DEF ListGone
  <2>3. PICK k \in DOMAIN lists : k >= j + 1 /\ ListTells(lists[k], r)
    BY <1>3, <1>6, <2>2 DEF QueueFollows
  <2>4. k > i /\ k - 1 >= j
    BY <1>1, <2>2, <2>3
  <2> QED
    BY <1>4, <2>3, <2>4
<1>7. \A K : Covers(K, r)' <=> Covers(K, r)
  BY Steady
<1> QED
  BY <1>5, <1>6, <1>7 DEF QueueFollows, ListTells

LEMMA QueueReads ==
  ASSUME PageInv, QueueInv, NEW i, NEW l, ListRead(i, l), l.old = lists[i].old,
         \A r \in Runs : ListTells(lists[i], r) => ListTells(l, r),
         UNCHANGED <<queue, session, behind, changes, ahead, heard>>
  PROVE  QueueInv'
<1> SUFFICES ASSUME session, ~behind, NEW r \in Runs PROVE QueueFollows(r)'
  BY DEF QueueInv
<1>1. /\ DOMAIN lists' = DOMAIN lists /\ i \in DOMAIN lists
      /\ \A j \in DOMAIN lists : lists'[j] = IF j = i THEN l ELSE lists[j]
  BY DEF PageInv, ListRead
<1>2. QueueFollows(r)
  BY DEF QueueInv
<1>3. \A j \in DOMAIN lists : /\ lists'[j].old = lists[j].old
                              /\ ListTells(lists[j], r) => ListTells(lists'[j], r)
  BY <1>1
<1>4. \A K : Covers(K, r)' <=> Covers(K, r)
  BY Steady
<1> QED
  BY <1>1, <1>2, <1>3, <1>4 DEF QueueFollows, ListTells

-----------------------------------------------------------------------------
(* Every action keeps the invariant.                                       *)

LEMMA InspectorInit == Init => InspectorInv
<1> SUFFICES ASSUME Init PROVE InspectorInv
  OBVIOUS
<1>1. view = NoView /\ loads = <<>> /\ lists = <<>> /\ rows = {} /\ changes = {}
  BY DEF Init, Feed!Init
<1>2. PageInv
  <2>1. heard = {} /\ session = FALSE /\ live = FALSE /\ selected = NoRun /\ faults = 0
    BY DEF Init
  <2>2. {session, live, overlap, missed, behind} \subseteq BOOLEAN
    BY DEF Init
  <2>3. NoView \in View /\ NoView.run = NoRun
    BY DEF NoView, View
  <2>4. <<>> \in Seq(Load) /\ <<>> \in Seq(List) /\ 0 \in Nat
    OBVIOUS
  <2> QED
    BY <1>1, <2>1, <2>2, <2>3, <2>4 DEF PageInv
<1>3. ReadInv /\ ChosenInv
  BY <1>1 DEF Init, ReadInv, ChosenInv, NoView, Of
<1>4. SignedOutInv /\ ViewInv /\ QueueInv
  BY DEF Init, SignedOutInv, ViewInv, QueueInv
<1> QED
  BY <1>2, <1>3, <1>4 DEF InspectorInv

(* The server moves on: the page and what is out stay as they are.         *)
LEMMA FeedKeeps ==
  ASSUME InspectorInv, changes \subseteq changes', rows \subseteq rows', rows' \subseteq changes',
         changes' \subseteq Changes, faults' \in Nat, MovesOn,
         UNCHANGED <<link, heard, shown, requests, history>>
  PROVE  InspectorInv'
<1>1. /\ heard' = heard /\ view' = view /\ selected' = selected /\ queue' = queue
      /\ session' = session /\ live' = live /\ loads' = loads /\ lists' = lists
      /\ chosen' = chosen /\ overlap' = overlap /\ missed' = missed /\ behind' = behind
  BY DEF link, shown, requests, history
<1>2. PageInv'
  BY <1>1 DEF InspectorInv, PageInv, NoView
<1>3. ReadInv'
  BY <1>1 DEF InspectorInv, ReadInv, Of
<1>4. SignedOutInv' /\ ChosenInv'
  BY <1>1 DEF InspectorInv, SignedOutInv, ChosenInv, NoView
<1>5. ViewInv' /\ QueueInv'
  BY <1>1, ViewKept, QueueKept DEF InspectorInv
<1> QED
  BY <1>2, <1>3, <1>4, <1>5 DEF InspectorInv

LEMMA MakeKeeps ==
  ASSUME InspectorInv, NEW r, NEW c \in Changes, Make(r, c), faults' = faults,
         UNCHANGED <<link, heard, shown, requests, history>>
  PROVE  InspectorInv'
<1>1. /\ changes' = changes \cup {c} /\ rows' = rows /\ c \notin changes /\ c[1] = r
      /\ Without(r, ahead') = Without(r, ahead) /\ heard' = heard
  BY DEF Make, Feed!Make, Of
<1>2. /\ faults \in Nat /\ rows \subseteq changes /\ changes \subseteq Changes
      /\ c \notin heard
  BY <1>1 DEF InspectorInv, PageInv
<1>3. Of(r, changes' \ heard) # {}
  BY <1>1, <1>2 DEF Of
<1>4. ASSUME NEW q, NEW t, <<q, t>> \in ahead, q # r, t # r PROVE <<q, t>> \in ahead'
  <2>1. <<q, t>> \in Without(r, ahead)
    BY <1>4 DEF Without
  <2> QED
    BY <1>1, <2>1 DEF Without
<1>5. MovesOn
  BY <1>1, <1>3, <1>4 DEF MovesOn
<1> QED
  BY <1>1, <1>2, <1>5, FeedKeeps

(* The session ends, with what is out of it or without one of them.        *)
LEMMA ClearKeeps ==
  ASSUME InspectorInv, NEW out \in Seq(Load), NEW listsOut \in Seq(List), ClearSession(out, listsOut),
         \A j \in DOMAIN out : \E k \in DOMAIN loads : out[j] = loads[k],
         faults' \in Nat, UNCHANGED <<feed, heard>>
  PROVE  InspectorInv'
<1>1. /\ session' = FALSE /\ live' = FALSE /\ selected' = NoRun /\ view' = NoView /\ queue' = {}
      /\ chosen' = NoRun /\ loads' = out /\ lists' = listsOut
      /\ overlap' = (out # <<>>) /\ missed' = (out # <<>>) /\ behind' = (listsOut # <<>>)
      /\ heard' = heard /\ rows' = rows /\ changes' = changes
  BY DEF ClearSession, feed
<1>2. NoView \in View /\ NoView.run = NoRun /\ NoView.rows = {}
  BY DEF NoView, View
<1>3. PageInv'
  <2>1. {session', live', overlap', missed', behind'} \subseteq BOOLEAN
    BY <1>1
  <2> QED
    BY <1>1, <1>2, <2>1 DEF InspectorInv, PageInv
<1>4. ReadInv'
  BY <1>1, <1>2 DEF InspectorInv, ReadInv
<1>5. SignedOutInv' /\ ViewInv' /\ QueueInv'
  BY <1>1 DEF SignedOutInv, ViewInv, QueueInv, NoView
<1>6. ChosenInv'
  <2>1. ~overlap' => Len(loads') <= 1
    <3>1. CASE out = <<>>
      BY <1>1, <3>1
    <3>2. CASE out # <<>>
      BY <1>1, <3>2
    <3> QED
      BY <3>1, <3>2
  <2> QED
    BY <1>1, <2>1 DEF ChosenInv
<1> QED
  BY <1>3, <1>4, <1>5, <1>6 DEF InspectorInv

(* Rows are skipped, but none of the run that is shown or loading.         *)
LEMMA ViewSkips ==
  ASSUME PageInv, ViewInv, SkipRows, loads' = loads, view' = view, session' /\ ~missed' => session
  PROVE  ViewInv'
<1>1. CASE missed'
  BY <1>1 DEF ViewInv
<1>2. CASE ~missed'
  <2>1. ASSUME NEW c \in heard', c \notin heard
        PROVE  view.run # c[1] /\ \A i \in DOMAIN loads : loads[i].run # c[1]
    <3>1. c[1] \in Runs /\ c \in Of(c[1], rows) /\ c \notin Of(c[1], heard)
      BY <2>1 DEF PageInv, Changes, Of, SkipRows
    <3> QED
      BY <1>2, <3>1 DEF SkipRows
  <2>2. ~missed
    BY <1>2 DEF SkipRows
  <2> QED
    BY <2>1, <2>2, ViewKept
<1> QED
  BY <1>1, <1>2

LEMMA SignInKeeps ==
  ASSUME InspectorInv, SignIn
  PROVE  InspectorInv'
<1>1. /\ session' = TRUE /\ live' = FALSE /\ heard' = rows /\ (~missed' => ~missed)
      /\ changes' = changes /\ rows' = rows /\ loads' = loads /\ faults' = faults
      /\ selected' = selected /\ view' = view /\ queue' = queue
      /\ chosen' = chosen /\ overlap' = overlap /\ behind' = FALSE
  BY DEF SignIn, AskList, SkipRows, feed, shown
<1>2. ListSent
  BY AskedList DEF SignIn, InspectorInv
<1>3. PageInv'
  <2>1. lists' \in Seq(List)
    BY <1>2 DEF ListSent
  <2>2. {session', live', overlap', missed', behind'} \subseteq BOOLEAN
    BY <1>1 DEF SignIn, SkipRows, InspectorInv, PageInv
  <2> QED
    BY <1>1, <2>1, <2>2 DEF InspectorInv, PageInv, NoView
<1>4. ReadInv' /\ SignedOutInv'
  BY <1>1 DEF InspectorInv, ReadInv, SignedOutInv
<1>5. ViewInv'
  <2>1. CASE session
    BY <1>1, <2>1, ViewSkips DEF SignIn, InspectorInv
  <2>2. CASE ~session
    <3> SUFFICES ASSUME ~missed', NEW c \in heard' PROVE ViewFollows(c)'
      BY DEF ViewInv
    <3>1. loads = <<>> /\ view.run = NoRun
      BY <1>1, <2>2 DEF InspectorInv, SignedOutInv, NoView
    <3>2. c[1] # NoRun
      BY <1>1, InspectorBounds DEF InspectorInv, PageInv, Changes
    <3>3. DOMAIN loads = {}
      BY <3>1
    <3> QED
      BY <1>1, <3>1, <3>2, <3>3 DEF ViewFollows
  <2> QED
    BY <2>1, <2>2
<1>6. QueueInv'
  BY <1>2, QueueSent DEF InspectorInv
<1>7. ChosenInv'
  <2>1. ~session => chosen = NoRun
    BY DEF InspectorInv, SignedOutInv
  <2> QED
    BY <1>1, <2>1 DEF InspectorInv, ChosenInv
<1> QED
  BY <1>3, <1>4, <1>5, <1>6, <1>7 DEF InspectorInv

LEMMA GoLiveKeeps ==
  ASSUME InspectorInv, GoLive
  PROVE  InspectorInv'
<1>1. /\ session /\ session' = session /\ live' = TRUE /\ heard' = rows
      /\ behind' = (behind \/ heard # rows)
      /\ changes' = changes /\ rows' = rows /\ loads' = loads /\ lists' = lists /\ faults' = faults
      /\ selected' = selected /\ view' = view /\ queue' = queue
      /\ chosen' = chosen /\ overlap' = overlap /\ ahead' = ahead /\ (~missed' => ~missed)
  BY DEF GoLive, SkipRows, feed, shown, requests, counters
<1>2. PageInv'
  <2>1. {session', live', overlap', missed', behind'} \subseteq BOOLEAN
    BY <1>1 DEF GoLive, SkipRows, InspectorInv, PageInv
  <2> QED
    BY <1>1, <2>1 DEF InspectorInv, PageInv, NoView
<1>3. ReadInv' /\ SignedOutInv' /\ ChosenInv'
  BY <1>1 DEF InspectorInv, ReadInv, SignedOutInv, ChosenInv
<1>4. ViewInv'
  BY <1>1, ViewSkips DEF GoLive, InspectorInv
<1>5. QueueInv'
  <2>1. session' /\ ~behind' => session /\ ~behind /\ queue' = queue /\ MovesOn
    BY <1>1, Unmoved
  <2> QED
    BY <1>1, <2>1, QueueKept DEF InspectorInv
<1> QED
  BY <1>2, <1>3, <1>4, <1>5 DEF InspectorInv

LEMMA ClearedAsIs ==
  ASSUME InspectorInv, ClearSession(loads, lists), faults' = faults, UNCHANGED <<feed, heard>>
  PROVE  InspectorInv'
<1>1. loads \in Seq(Load) /\ lists \in Seq(List) /\ faults \in Nat
  BY DEF InspectorInv, PageInv
<1> QED
  BY <1>1, ClearKeeps

(* A load of r is sent while the page shows what it did: by the operator,  *)
(* after an action or for a live event, which is then a row of r's.        *)
LEMMA AskedRunKeeps ==
  ASSUME InspectorInv, session, NEW r \in Runs, NEW crossed \in BOOLEAN, AskRun(r, crossed),
         \/ chosen' = r
         \/ chosen' = chosen /\ crossed = overlap /\ r = view.run,
         heard' \subseteq rows, \A c \in heard' : c \in heard \/ c[1] = r,
         lists' \in Seq(List), QueueInv', behind' \in BOOLEAN,
         UNCHANGED <<feed, link, shown, faults>>
  PROVE  InspectorInv'
<1>1. /\ session' = session /\ live' = live
      /\ changes' = changes /\ rows' = rows /\ faults' = faults
      /\ selected' = selected /\ view' = view /\ queue' = queue
  BY DEF feed, link, shown
<1>2. /\ LoadSent(r) /\ overlap' = (crossed \/ loads # <<>>)
      /\ missed' = (missed /\ \E i \in DOMAIN loads : loads[i].run # r)
  BY AskedRun DEF InspectorInv
<1>3. PageInv'
  <2>1. overlap' \in BOOLEAN /\ missed' \in BOOLEAN
    BY <1>2
  <2>2. loads' \in Seq(Load)
    BY <1>2 DEF LoadSent
  <2> QED
    BY <1>1, <2>1, <2>2 DEF InspectorInv, PageInv, NoView
<1>4. ReadInv'
  <2>1. ASSUME NEW i \in DOMAIN loads' PROVE loads'[i].rows \subseteq Of(loads'[i].run, rows)
    <3>1. CASE i \in DOMAIN loads
      <4>1. loads'[i] = loads[i]
        BY <1>2, <3>1 DEF LoadSent
      <4> QED
        BY <3>1, <4>1 DEF InspectorInv, ReadInv
    <3>2. CASE i = Len(loads) + 1
      <4>1. loads'[i].rows = {}
        BY <1>2, <3>2 DEF LoadSent, NewLoad
      <4> QED
        BY <4>1
    <3>3. i \in DOMAIN loads \/ i = Len(loads) + 1
      BY <1>2, <2>1 DEF InspectorInv, PageInv, LoadSent
    <3> QED
      BY <3>1, <3>2, <3>3
  <2> QED
    BY <1>1, <2>1 DEF InspectorInv, ReadInv
<1>5. SignedOutInv'
  BY <1>1 DEF SignedOutInv
<1>6. ViewInv'
  BY <1>1, <1>2, ViewSent DEF InspectorInv
<1>7. ChosenInv'
  <2>1. CASE loads = <<>>
    <3>1. Len(loads') = 1 /\ loads' # <<>> /\ loads'[1].run = r
      BY <1>2, <2>1 DEF LoadSent, NewLoad
    <3>2. overlap' = crossed
      BY <1>2, <2>1
    <3>3. session' /\ chosen' # NoRun /\ ~overlap' => r = chosen'
      BY <1>1, <2>1, <3>2 DEF InspectorInv, ChosenInv
    <3> QED
      BY <3>1, <3>3 DEF ChosenInv
  <2>2. CASE loads # <<>>
    BY <1>2, <2>2 DEF ChosenInv
  <2> QED
    BY <2>1, <2>2
<1> QED
  BY <1>3, <1>4, <1>5, <1>6, <1>7 DEF InspectorInv

LEMMA ChooseKeeps ==
  ASSUME InspectorInv, NEW r \in Runs, Choose(r)
  PROVE  InspectorInv'
<1>1. /\ session /\ AskRun(r, FALSE) /\ chosen' = r /\ faults' = faults /\ behind' = behind
      /\ UNCHANGED <<feed, link, heard, shown, lists>>
  BY DEF Choose
<1>2. queue' = queue /\ session' = session /\ MovesOn
  BY <1>1, Unmoved DEF shown, link, feed
<1>3. QueueInv'
  BY <1>1, <1>2, QueueKept DEF InspectorInv
<1>4. heard' \subseteq rows /\ lists' \in Seq(List) /\ behind' \in BOOLEAN
  BY <1>1 DEF InspectorInv, PageInv
<1>5. \A c \in heard' : c \in heard \/ c[1] = r
  BY <1>1
<1> QED
  BY <1>1, <1>3, <1>4, <1>5, AskedRunKeeps

LEMMA OnActKeeps ==
  ASSUME InspectorInv, NEW i, OnAct(i)
  PROVE  InspectorInv'
<1>1. UNCHANGED <<feed, heard>> /\ faults' = faults
  BY DEF OnAct, counters
<1>2. faults \in Nat /\ rows \subseteq changes /\ changes \subseteq Changes
  BY DEF InspectorInv, PageInv
<1>3. CASE UNCHANGED <<link, shown, requests, history>>
  <2>1. changes' = changes /\ rows' = rows /\ MovesOn
    BY <1>1, Unmoved DEF feed
  <2> QED
    BY <1>1, <1>2, <1>3, <2>1, FeedKeeps
<1>4. CASE /\ session /\ selected # NoRun /\ AskRun(selected, overlap)
           /\ UNCHANGED <<link, shown, lists, chosen, behind>>
  <2>1. selected \in Runs /\ selected = view.run
    BY <1>4 DEF InspectorInv, PageInv, View
  <2>2. queue' = queue /\ session' = session /\ MovesOn
    BY <1>1, <1>4, Unmoved DEF shown, link, feed
  <2>3. QueueInv'
    BY <1>1, <1>4, <2>2, QueueKept DEF InspectorInv
  <2>4. /\ heard' \subseteq rows /\ overlap \in BOOLEAN /\ lists' \in Seq(List)
        /\ behind' \in BOOLEAN
    BY <1>1, <1>4 DEF InspectorInv, PageInv
  <2>5. \A c \in heard' : c \in heard \/ c[1] = selected
    BY <1>1
  <2> QED
    BY <1>1, <1>4, <2>1, <2>3, <2>4, <2>5, AskedRunKeeps
<1>5. CASE ClearSession(loads, lists)
  BY <1>1, <1>5, ClearedAsIs
<1>6. \/ UNCHANGED <<link, shown, requests, history>>
      \/ /\ session /\ selected # NoRun /\ AskRun(selected, overlap)
         /\ UNCHANGED <<link, shown, lists, chosen, behind>>
      \/ ClearSession(loads, lists)
  BY DEF OnAct, requests, history
<1> QED
  BY <1>3, <1>4, <1>5, <1>6

LEMMA OnEventKeeps ==
  ASSUME InspectorInv, NEW c, OnEvent(c)
  PROVE  InspectorInv'
<1>1. /\ live /\ c \in rows \ heard /\ heard' = heard \cup {c} /\ AskList /\ Reload(c[1])
      /\ UNCHANGED <<feed, link, shown, chosen>> /\ faults' = faults /\ behind' = FALSE
  BY DEF OnEvent, AskList, counters
<1>2. /\ session' = session /\ live' = live /\ chosen' = chosen
      /\ changes' = changes /\ rows' = rows
      /\ selected' = selected /\ view' = view /\ queue' = queue
  BY <1>1 DEF feed, link, shown
<1>3. /\ session /\ c[1] \in Runs /\ selected = view.run
      /\ heard' \subseteq rows /\ overlap \in BOOLEAN /\ missed \in BOOLEAN
  BY <1>1 DEF InspectorInv, PageInv, Changes
<1>4. lists' \in Seq(List) /\ QueueInv'
  BY <1>1, AskedList, QueueSent DEF InspectorInv, ListSent
<1>5. CASE selected = c[1] /\ AskRun(c[1], overlap)
  <2>1. \A d \in heard' : d \in heard \/ d[1] = c[1]
    BY <1>1
  <2> QED
    BY <1>1, <1>3, <1>4, <1>5, <2>1, AskedRunKeeps
<1>6. CASE /\ selected # c[1]
           /\ missed' = (missed \/ \E i \in DOMAIN loads : loads[i].run = c[1])
           /\ UNCHANGED <<loads, overlap>>
  <2>1. PageInv'
    BY <1>1, <1>2, <1>3, <1>4, <1>6 DEF InspectorInv, PageInv, NoView
  <2>2. ReadInv' /\ SignedOutInv' /\ ChosenInv'
    BY <1>1, <1>2, <1>3, <1>6 DEF InspectorInv, ReadInv, SignedOutInv, ChosenInv
  <2>3. ViewInv'
    <3>1. CASE missed'
      BY <3>1 DEF ViewInv
    <3>2. CASE ~missed'
      <4>1. view.run # c[1] /\ \A i \in DOMAIN loads : loads[i].run # c[1]
        BY <1>3, <1>6, <3>2
      <4>2. \A d \in heard' : \/ d \in heard
                              \/ view.run # d[1] /\ \A i \in DOMAIN loads : loads[i].run # d[1]
        BY <1>1, <4>1
      <4>3. ~missed
        BY <1>6, <3>2
      <4> QED
        BY <1>2, <1>3, <1>6, <4>2, <4>3, ViewKept DEF InspectorInv
    <3> QED
      BY <3>1, <3>2
  <2> QED
    BY <1>4, <2>1, <2>2, <2>3 DEF InspectorInv
<1> QED
  BY <1>1, <1>5, <1>6 DEF Reload

(* What is out after one is answered was out before.                       *)
LEMMA GoneFrom ==
  ASSUME PageInv, NEW i, LoadGone(i), NEW j \in DOMAIN loads'
  PROVE  \E k \in DOMAIN loads : /\ loads'[j].run = loads[k].run
                                 /\ loads'[j].rows = loads[k].rows
<1>1. /\ j \in DOMAIN loads /\ j + 1 \in DOMAIN loads
      /\ IF j < i THEN loads'[j] = [loads[j] EXCEPT !.old = TRUE] ELSE loads'[j] = loads[j + 1]
  BY DEF PageInv, LoadGone
<1>2. /\ [loads[j] EXCEPT !.old = TRUE].run = loads[j].run
      /\ [loads[j] EXCEPT !.old = TRUE].rows = loads[j].rows
  BY <1>1 DEF PageInv, Load
<1>3. CASE j < i
  <2>1. loads'[j] = [loads[j] EXCEPT !.old = TRUE]
    BY <1>1, <1>3
  <2> QED
    BY <1>1, <1>2, <2>1
<1>4. CASE ~(j < i)
  BY <1>1, <1>4
<1> QED
  BY <1>3, <1>4

LEMMA OnLoadKeeps ==
  ASSUME InspectorInv, NEW i \in DOMAIN loads, OnLoad(i)
  PROVE  InspectorInv'
<1>1. /\ loads[i].at = "replied" /\ LoadGone(i)
      /\ view' = [run |-> loads[i].run, changes |-> loads[i].changes, rows |-> loads[i].rows]
      /\ selected' = loads[i].run
      /\ missed' = (missed \/ loads[i].old)
  BY HandledLoad DEF OnLoad, InspectorInv
<1>2. /\ session' = session /\ live' = live /\ heard' = heard
      /\ changes' = changes /\ rows' = rows
      /\ faults' = faults /\ chosen' = chosen /\ overlap' = overlap
  BY DEF OnLoad, feed, link, counters
<1>3. loads[i] \in Load /\ loads[i].run \in Runs /\ loads[i].run # NoRun
  <2>1. loads[i] \in Load
    BY DEF InspectorInv, PageInv
  <2> QED
    BY <2>1, InspectorBounds DEF Load
<1>4. \/ session /\ AskList /\ queue' = queue /\ behind' = FALSE
      \/ ~session /\ queue' = {} /\ lists' = lists /\ behind' = behind
  BY DEF OnLoad, AskList
<1>5. lists' \in Seq(List)
  BY <1>4, AskedList DEF InspectorInv, PageInv, ListSent
<1>6. PageInv'
  <2>1. {session', live', overlap', missed', behind'} \subseteq BOOLEAN
    BY <1>1, <1>2, <1>4 DEF InspectorInv, PageInv
  <2>2. loads' \in Seq(Load)
    BY <1>1 DEF LoadGone
  <2>3. view' \in View /\ view'.run = loads[i].run
    BY <1>1, <1>3 DEF View, Load
  <2> QED
    BY <1>1, <1>2, <1>3, <1>5, <2>1, <2>2, <2>3 DEF InspectorInv, PageInv
<1>7. ReadInv'
  <2>1. view'.rows \subseteq Of(view'.run, rows)
    BY <1>1 DEF InspectorInv, ReadInv
  <2>2. \A j \in DOMAIN loads' : loads'[j].rows \subseteq Of(loads'[j].run, rows)
    BY <1>1, GoneFrom DEF InspectorInv, ReadInv
  <2> QED
    BY <1>2, <2>1, <2>2 DEF ReadInv
<1>8. SignedOutInv'
  <2> SUFFICES ASSUME ~session PROVE SignedOutInv'
    BY <1>2 DEF SignedOutInv
  <2>1. loads # <<>>
    OBVIOUS
  <2>2. chosen = NoRun /\ missed /\ (behind \/ (lists = <<>> /\ queue = {}))
    BY <2>1 DEF InspectorInv, SignedOutInv
  <2> QED
    BY <1>1, <1>2, <1>4, <2>2 DEF SignedOutInv
<1>9. ViewInv'
  BY <1>1, <1>2, ViewRendered DEF InspectorInv
<1>10. QueueInv'
  <2>1. CASE session
    BY <1>4, <2>1, AskedList, QueueSent DEF InspectorInv
  <2>2. CASE ~session
    BY <1>2, <2>2 DEF QueueInv
  <2> QED
    BY <2>1, <2>2
<1>11. ChosenInv'
  <2>1. /\ Len(loads) \in Nat /\ DOMAIN loads = 1..Len(loads) /\ loads # <<>>
        /\ Len(loads') = Len(loads) - 1 /\ loads' \in Seq(Load)
    BY <1>1 DEF InspectorInv, PageInv, LoadGone
  <2>2. ~overlap => Len(loads) = 1 /\ i = 1 /\ loads' = <<>>
    BY <2>1 DEF InspectorInv, ChosenInv
  <2>3. ~overlap => Len(loads') <= 1
    BY <2>1, <2>2
  <2>4. session /\ chosen # NoRun /\ ~overlap => view'.run = chosen
    BY <1>1, <2>1, <2>2 DEF InspectorInv, ChosenInv
  <2> QED
    BY <1>2, <2>2, <2>3, <2>4 DEF ChosenInv
<1> QED
  BY <1>6, <1>7, <1>8, <1>9, <1>10, <1>11 DEF InspectorInv

(* Only the lists, the queue and the faults change.                        *)
LEMMA ListsKeep ==
  ASSUME InspectorInv, lists' \in Seq(List), behind' \in BOOLEAN, QueueInv',
         ~session => behind' \/ (lists' = <<>> /\ queue' = {}),
         faults' \in Nat,
         UNCHANGED <<feed, link, heard, selected, view, loads, chosen, overlap, missed>>
  PROVE  InspectorInv'
<1>1. /\ session' = session /\ live' = live /\ changes' = changes /\ rows' = rows
  BY DEF feed, link
<1>2. PageInv'
  BY <1>1 DEF InspectorInv, PageInv, NoView
<1>3. ReadInv' /\ SignedOutInv' /\ ChosenInv'
  BY <1>1 DEF InspectorInv, ReadInv, SignedOutInv, ChosenInv, NoView
<1>4. ViewInv'
  BY <1>1, ViewKept DEF InspectorInv
<1> QED
  BY <1>2, <1>3, <1>4 DEF InspectorInv

LEMMA OnListKeeps ==
  ASSUME InspectorInv, NEW i \in DOMAIN lists, OnList(i)
  PROVE  InspectorInv'
<1>1. /\ lists[i].at = "replied" /\ ListGone(i)
      /\ queue' = lists[i].changes /\ behind' = (behind \/ lists[i].old)
      /\ UNCHANGED <<feed, link, heard, selected, view, loads, chosen, overlap, missed>>
      /\ faults' = faults /\ session' = session /\ UNCHANGED <<changes, ahead, heard>>
  BY HandledList DEF OnList, InspectorInv, counters, link, feed
<1>2. QueueInv'
  BY <1>1, QueueRendered DEF InspectorInv
<1>3. lists[i].old \in BOOLEAN /\ behind \in BOOLEAN /\ faults \in Nat
  <2>1. lists[i] \in List /\ behind \in BOOLEAN /\ faults \in Nat
    BY DEF InspectorInv, PageInv
  <2> QED
    BY <2>1 DEF List
<1>4. ~session => behind
  <2>1. lists # <<>>
    OBVIOUS
  <2> QED
    BY <2>1 DEF InspectorInv, SignedOutInv
<1>5. behind' \in BOOLEAN /\ lists' \in Seq(List)
  BY <1>1, <1>3 DEF ListGone
<1> QED
  BY <1>1, <1>2, <1>3, <1>4, <1>5, ListsKeep

LEMMA LoadFailsKeeps ==
  ASSUME InspectorInv, NEW i \in DOMAIN loads, LoadFails(i)
  PROVE  InspectorInv'
<1>1. faults' = faults + 1 /\ faults' \in Nat /\ heard' = heard
      /\ UNCHANGED <<feed, heard>>
  BY DEF LoadFails, InspectorInv, PageInv
<1>2. CASE /\ loads' = Handled(loads, i) /\ missed' = TRUE /\ overlap' = TRUE
           /\ UNCHANGED <<link, shown, lists, chosen, behind>>
  <2>1. LoadGone(i)
    BY <1>2, HandledLoad DEF InspectorInv
  <2>2. /\ session' = session /\ live' = live /\ changes' = changes /\ rows' = rows
        /\ selected' = selected /\ view' = view /\ queue' = queue /\ lists' = lists
        /\ chosen' = chosen /\ behind' = behind /\ MovesOn
    BY <1>1, <1>2, Unmoved DEF feed, link, shown
  <2>3. PageInv'
    <3>1. loads' \in Seq(Load) /\ missed' \in BOOLEAN /\ overlap' \in BOOLEAN
      BY <1>2, <2>1 DEF LoadGone
    <3> QED
      BY <1>1, <2>2, <3>1 DEF InspectorInv, PageInv, NoView
  <2>4. ReadInv'
    <3>1. \A j \in DOMAIN loads' : loads'[j].rows \subseteq Of(loads'[j].run, rows)
      BY <2>1, GoneFrom DEF InspectorInv, ReadInv
    <3> QED
      BY <2>2, <3>1 DEF InspectorInv, ReadInv
  <2>5. SignedOutInv' /\ ViewInv'
    BY <1>2, <2>2 DEF InspectorInv, SignedOutInv, ViewInv
  <2>6. QueueInv'
    BY <1>1, <2>2, QueueKept DEF InspectorInv
  <2>7. ChosenInv'
    BY <1>2 DEF ChosenInv
  <2> QED
    BY <2>3, <2>4, <2>5, <2>6, <2>7 DEF InspectorInv
<1>3. CASE ClearSession(RemoveAt(loads, i), lists)
  <2>1. /\ RemoveAt(loads, i) \in Seq(Load)
        /\ Len(RemoveAt(loads, i)) = Len(loads) - 1
        /\ \A j \in 1..(Len(loads) - 1) :
             RemoveAt(loads, i)[j] = IF j < i THEN loads[j] ELSE loads[j + 1]
    BY RemovedOne DEF InspectorInv, PageInv
  <2> DEFINE out == RemoveAt(loads, i)
  <2>2. lists \in Seq(List) /\ Len(loads) \in Nat /\ DOMAIN loads = 1..Len(loads)
    BY DEF InspectorInv, PageInv
  <2>3. ASSUME NEW j \in DOMAIN out PROVE \E k \in DOMAIN loads : out[j] = loads[k]
    <3>1. j \in 1..(Len(loads) - 1)
      BY <2>1, <2>3
    <3>2. j \in DOMAIN loads /\ j + 1 \in DOMAIN loads
      BY <2>2, <3>1
    <3>3. out[j] = loads[j] \/ out[j] = loads[j + 1]
      BY <2>1, <3>1
    <3> QED
      BY <3>2, <3>3
  <2> HIDE DEF out
  <2>4. out \in Seq(Load) /\ ClearSession(out, lists)
    BY <1>3, <2>1 DEF out
  <2> QED
    BY <1>1, <2>2, <2>3, <2>4, ClearKeeps
<1> QED
  BY <1>2, <1>3 DEF LoadFails

LEMMA ListFailsKeeps ==
  ASSUME InspectorInv, NEW i \in DOMAIN lists, ListFails(i)
  PROVE  InspectorInv'
<1>1. faults' = faults + 1 /\ faults' \in Nat /\ UNCHANGED <<feed, heard>>
  BY DEF ListFails, InspectorInv, PageInv
<1>2. CASE /\ lists' = Handled(lists, i) /\ behind' = TRUE
           /\ UNCHANGED <<link, shown, loads, chosen, overlap, missed>>
  <2>1. lists' \in Seq(List)
    BY <1>2, HandledList DEF InspectorInv, ListGone
  <2>2. QueueInv'
    BY <1>2 DEF QueueInv
  <2>3. UNCHANGED <<feed, link, heard, selected, view, loads, chosen, overlap, missed>>
    BY <1>1, <1>2 DEF shown
  <2> QED
    BY <1>1, <1>2, <2>1, <2>2, <2>3, ListsKeep
<1>3. CASE ClearSession(loads, RemoveAt(lists, i))
  <2>1. RemoveAt(lists, i) \in Seq(List) /\ loads \in Seq(Load)
    BY RemovedOne DEF InspectorInv, PageInv
  <2> QED
    BY <1>1, <1>3, <2>1, ClearKeeps
<1> QED
  BY <1>2, <1>3 DEF ListFails

(* get_run_view and list_runs read the server as it is now.                *)
LEMMA ReadsKeep ==
  ASSUME InspectorInv, NEW i, NEW l, LoadRead(i, l), l.run = loads[i].run, l.old = loads[i].old,
         l.rows \subseteq Of(l.run, rows),
         \A c \in heard : LoadTells(loads[i], c) => LoadTells(l, c),
         UNCHANGED <<feed, lists, page, faults>>
  PROVE  InspectorInv'
<1>1. /\ session' = session /\ live' = live /\ heard' = heard /\ lists' = lists /\ faults' = faults
      /\ changes' = changes /\ rows' = rows
      /\ selected' = selected /\ view' = view /\ queue' = queue
      /\ chosen' = chosen /\ overlap' = overlap /\ missed' = missed /\ behind' = behind
      /\ MovesOn
  BY Unmoved DEF page, feed, link, shown, history
<1>2. /\ i \in DOMAIN loads /\ DOMAIN loads' = DOMAIN loads /\ loads' \in Seq(Load)
      /\ Len(loads') = Len(loads) /\ loads # <<>> /\ loads' # <<>>
      /\ \A j \in DOMAIN loads : loads'[j] = IF j = i THEN l ELSE loads[j]
  BY DEF InspectorInv, PageInv, LoadRead
<1>3. PageInv'
  BY <1>1, <1>2 DEF InspectorInv, PageInv, NoView
<1>4. ReadInv'
  BY <1>1, <1>2 DEF InspectorInv, ReadInv
<1>5. SignedOutInv'
  BY <1>1, <1>2 DEF InspectorInv, SignedOutInv
<1>6. ViewInv'
  BY <1>1, ViewReads DEF InspectorInv
<1>7. QueueInv'
  BY <1>1, QueueKept DEF InspectorInv
<1>8. ChosenInv'
  <2>1. 1 \in DOMAIN loads => loads'[1].run = loads[1].run
    BY <1>2
  <2>2. 1 \in DOMAIN loads
    BY <1>2 DEF InspectorInv, PageInv
  <2> QED
    BY <1>1, <1>2, <2>1, <2>2 DEF InspectorInv, ChosenInv
<1> QED
  BY <1>3, <1>4, <1>5, <1>6, <1>7, <1>8 DEF InspectorInv

LEMMA ReadRunKeeps ==
  ASSUME InspectorInv, NEW i \in DOMAIN loads, ReadRun(i)
  PROVE  InspectorInv'
<1> DEFINE l == [loads[i] EXCEPT !.at = "read", !.changes = Of(loads[i].run, changes)]
<1>1. loads[i] \in Load /\ loads \in Seq(Load) /\ i \in 1..Len(loads)
  BY DEF InspectorInv, PageInv
<1>2. /\ heard \subseteq changes /\ changes \subseteq Changes
  BY DEF InspectorInv, PageInv
<1>3. /\ l \in Load /\ l.run = loads[i].run /\ l.old = loads[i].old /\ l.rows = loads[i].rows
      /\ l.at = "read" /\ l.changes = Of(loads[i].run, changes)
  BY <1>1, <1>2 DEF Load, Of
<1>4. loads[i].at = "asked" /\ loads' = [loads EXCEPT ![i] = l]
  BY <1>1 DEF ReadRun
<1> HIDE DEF l
<1>5. LoadRead(i, l)
  BY <1>1, <1>3, <1>4 DEF LoadRead
<1>6. l.rows \subseteq Of(l.run, rows)
  BY <1>3 DEF InspectorInv, ReadInv
<1>7. ASSUME NEW c \in heard, LoadTells(loads[i], c) PROVE LoadTells(l, c)
  BY <1>2, <1>3, <1>7 DEF LoadTells, Of
<1> QED
  BY <1>3, <1>5, <1>6, <1>7, ReadsKeep DEF ReadRun

LEMMA ReadTrailKeeps ==
  ASSUME InspectorInv, NEW i \in DOMAIN loads, ReadTrail(i)
  PROVE  InspectorInv'
<1> DEFINE l == [loads[i] EXCEPT !.at = "replied", !.rows = Of(loads[i].run, rows)]
<1>1. loads[i] \in Load /\ loads \in Seq(Load) /\ i \in 1..Len(loads)
  BY DEF InspectorInv, PageInv
<1>2. heard \subseteq rows /\ rows \subseteq Changes
  BY DEF InspectorInv, PageInv
<1>3. /\ l \in Load /\ l.run = loads[i].run /\ l.old = loads[i].old
      /\ l.changes = loads[i].changes /\ l.at = "replied" /\ l.rows = Of(loads[i].run, rows)
  BY <1>1, <1>2 DEF Load, Of
<1>4. loads[i].at = "read" /\ loads' = [loads EXCEPT ![i] = l]
  BY <1>1 DEF ReadTrail
<1> HIDE DEF l
<1>5. LoadRead(i, l)
  BY <1>1, <1>3, <1>4 DEF LoadRead
<1>6. ASSUME NEW c \in heard, LoadTells(loads[i], c) PROVE LoadTells(l, c)
  BY <1>2, <1>3, <1>4, <1>6 DEF LoadTells, Of
<1> QED
  BY <1>3, <1>5, <1>6, ReadsKeep DEF ReadTrail

(* A list that is read now shows all that was heard of the runs it shows,  *)
(* and the others come after enough runs.                                  *)
LEMMA ReadCovers ==
  ASSUME heard \subseteq changes, NEW r \in Runs
  PROVE  Covers({c \in changes : Newest(c[1])}, r)
<1>1. CASE Newest(r)
  BY <1>1 DEF Covers, Of
<1>2. CASE ~Newest(r)
  <2> DEFINE A == Ahead(r, {})
             B == Ahead(r, changes \ heard)
  <2>1. A \subseteq B
    BY DEF Ahead, Of
  <2>2. A \subseteq Runs /\ B \subseteq Runs
    BY DEF Ahead
  <2>3. ~(Cardinality(A) < QueueLimit)
    BY <1>2 DEF Newest
  <2> HIDE DEF A, B
  <2>4. Cardinality(A) \in Nat /\ QueueLimit \in Nat
    BY <2>2, RunsFinite, FS_Subset, FS_CardinalityType, InspectorBounds
  <2>5. Cardinality(B) >= QueueLimit
    BY <2>1, <2>2, <2>3, <2>4, MoreAhead
  <2> QED
    BY <1>2, <2>5 DEF B, Covers, Of
<1> QED
  BY <1>1, <1>2

LEMMA ReadRunsKeeps ==
  ASSUME InspectorInv, NEW i \in DOMAIN lists, ReadRuns(i)
  PROVE  InspectorInv'
<1> DEFINE K == {c \in changes : Newest(c[1])}
           l == [lists[i] EXCEPT !.at = "replied", !.changes = K]
<1>1. lists[i] \in List /\ lists \in Seq(List) /\ i \in 1..Len(lists)
  BY DEF InspectorInv, PageInv
<1>2. heard \subseteq changes /\ changes \subseteq Changes
  BY DEF InspectorInv, PageInv
<1>3. l \in List /\ l.old = lists[i].old /\ l.changes = K
  <2>1. K \subseteq Changes
    BY <1>2
  <2> HIDE DEF K
  <2> QED
    BY <1>1, <2>1 DEF List
<1>4. lists' = [lists EXCEPT ![i] = l]
  BY <1>1 DEF ReadRuns
<1>k. \A r \in Runs : Covers(K, r)
  BY <1>2, ReadCovers
<1> HIDE DEF l, K
<1>5. ListRead(i, l)
  BY <1>1, <1>3, <1>4 DEF ListRead
<1>6. \A r \in Runs : ListTells(lists[i], r) => ListTells(l, r)
  BY <1>3, <1>k DEF ListTells
<1>7. /\ UNCHANGED <<feed, link, heard, selected, view, loads, chosen, overlap, missed>>
      /\ UNCHANGED <<queue, session, behind, changes, ahead, heard>> /\ faults' = faults
  BY DEF ReadRuns, page, shown, link, history, feed
<1>8. QueueInv'
  BY <1>3, <1>5, <1>6, <1>7, QueueReads DEF InspectorInv
<1>9. lists' \in Seq(List) /\ behind' \in BOOLEAN /\ faults' \in Nat
  BY <1>5, <1>7 DEF InspectorInv, PageInv, ListRead
<1>10. ~session => behind'
  <2>1. lists # <<>>
    OBVIOUS
  <2> QED
    BY <1>7, <2>1 DEF InspectorInv, SignedOutInv
<1> QED
  BY <1>7, <1>8, <1>9, <1>10, ListsKeep

LEMMA ProceedKeeps ==
  ASSUME InspectorInv, Proceed
  PROVE  InspectorInv'
<1>1. CASE GoLive
  BY <1>1, GoLiveKeeps
<1>2. ASSUME NEW i, ServeAct(i) PROVE InspectorInv'
  <2>1. ASSUME NEW c \in Changes, Make(acting[i].run, c) PROVE InspectorInv'
    <3>1. faults' = faults /\ UNCHANGED <<link, heard, shown, requests, history>>
      BY <1>2 DEF ServeAct, counters
    <3> QED
      BY <2>1, <3>1, MakeKeeps
  <2>2. CASE UNCHANGED feed
    <3>1. /\ changes' = changes /\ rows' = rows /\ faults' = faults
          /\ MovesOn /\ UNCHANGED <<link, heard, shown, requests, history>>
      BY <1>2, <2>2, Unmoved DEF ServeAct, counters, feed
    <3>2. faults \in Nat /\ rows \subseteq changes /\ changes \subseteq Changes
      BY DEF InspectorInv, PageInv
    <3> QED
      BY <3>1, <3>2, FeedKeeps
  <2> QED
    BY <1>2, <2>1, <2>2 DEF ServeAct, Changes
<1>3. ASSUME NEW i, OnAct(i) PROVE InspectorInv'
  BY <1>3, OnActKeeps
<1>4. ASSUME NEW c \in Changes, OnEvent(c) PROVE InspectorInv'
  BY <1>4, OnEventKeeps
<1>5. ASSUME NEW c \in Changes, Record(c) PROVE InspectorInv'
  <2>1. /\ c \in changes /\ rows' = rows \cup {c} /\ changes' = changes /\ faults' = faults
        /\ MovesOn /\ UNCHANGED <<link, heard, shown, requests, history>>
    BY <1>5, Unmoved DEF Record, Feed!Record, page
  <2>2. faults \in Nat /\ rows \subseteq changes /\ changes \subseteq Changes
    BY DEF InspectorInv, PageInv
  <2> QED
    BY <2>1, <2>2, FeedKeeps
<1>6. ASSUME NEW i \in DOMAIN loads, Loading(i) PROVE InspectorInv'
  BY <1>6, ReadRunKeeps, ReadTrailKeeps, OnLoadKeeps DEF Loading
<1>7. ASSUME NEW i \in DOMAIN lists, Listing(i) PROVE InspectorInv'
  BY <1>7, ReadRunsKeeps, OnListKeeps DEF Listing
<1> QED
  BY <1>1, <1>2, <1>3, <1>4, <1>5, <1>6, <1>7 DEF Proceed, Changes

LEMMA InspectorNext == InspectorInv /\ [Next]_vars => InspectorInv'
<1> SUFFICES ASSUME InspectorInv, [Next]_vars PROVE InspectorInv'
  OBVIOUS
<1>t. faults \in Nat /\ rows \subseteq changes /\ changes \subseteq Changes
  BY DEF InspectorInv, PageInv
<1>1. CASE Proceed
  BY <1>1, ProceedKeeps
<1>2. CASE SignIn
  BY <1>2, SignInKeeps
<1>3. CASE SignOut
  <2>1. ClearSession(loads, lists) /\ faults' = faults /\ UNCHANGED <<feed, heard>>
    BY <1>3 DEF SignOut, counters
  <2> QED
    BY <2>1, ClearedAsIs
<1>4. CASE Act
  <2>1. /\ changes' = changes /\ rows' = rows /\ faults' = faults
        /\ MovesOn /\ UNCHANGED <<link, heard, shown, requests, history>>
    BY <1>4, Unmoved DEF Act, feed
  <2> QED
    BY <1>t, <2>1, FeedKeeps
<1>5. ASSUME NEW r \in Runs, Choose(r) PROVE InspectorInv'
  BY <1>5, ChooseKeeps
<1>6. ASSUME NEW r \in Runs, Change(r) PROVE InspectorInv'
  <2>1. PICK c \in Changes : Make(r, c) /\ UNCHANGED <<page, requests, faults>>
    BY <1>6 DEF Change, Changes
  <2>2. faults' = faults /\ UNCHANGED <<link, heard, shown, requests, history>>
    BY <2>1 DEF page
  <2> QED
    BY <2>1, <2>2, MakeKeeps
<1>7. ASSUME NEW c \in Changes, CutShort(c) PROVE InspectorInv'
  <2>1. /\ changes' = changes /\ rows' = rows /\ faults' = faults + 1
        /\ MovesOn /\ UNCHANGED <<link, heard, shown, requests, history>>
    BY <1>7, Unmoved DEF CutShort, Feed!Abandon, page
  <2> QED
    BY <1>t, <2>1, FeedKeeps
<1>8. ASSUME NEW i \in DOMAIN loads, LoadFails(i) PROVE InspectorInv'
  BY <1>8, LoadFailsKeeps
<1>9. ASSUME NEW i \in DOMAIN lists, ListFails(i) PROVE InspectorInv'
  BY <1>9, ListFailsKeeps
<1>10. ASSUME NEW i, ActFails(i) PROVE InspectorInv'
  <2>1. /\ changes' = changes /\ rows' = rows /\ faults' = faults + 1
        /\ MovesOn /\ UNCHANGED <<link, heard, shown, requests, history>>
    BY <1>10, Unmoved DEF ActFails, feed
  <2> QED
    BY <1>t, <2>1, FeedKeeps
<1>11. CASE UNCHANGED vars
  <2>1. /\ changes' = changes /\ rows' = rows /\ faults' = faults
        /\ MovesOn /\ UNCHANGED <<link, heard, shown, requests, history>>
    BY <1>11, Unmoved DEF vars, feed, counters
  <2> QED
    BY <1>t, <2>1, FeedKeeps
<1> QED
  BY <1>1, <1>2, <1>3, <1>4, <1>5, <1>6, <1>7, <1>8, <1>9, <1>10, <1>11 DEF Next, Changes

(* Every reachable page and server satisfy the six parts of the invariant, *)
(* from which the three properties of the inspector follow.                *)
THEOREM InspectorInvariant == Spec => []InspectorInv
BY InspectorInit, InspectorNext, PTL DEF Spec

-----------------------------------------------------------------------------
(* For any runs, loads and events: a run chosen while nothing is loading   *)
(* ends in the inspector, unless loads overlap after it or one fails.      *)
THEOREM LastChosenShown == Spec => []ChosenIsShown
<1>1. InspectorInv => ChosenIsShown
  BY DEF InspectorInv, PageInv, ChosenInv, ChosenIsShown
<1> QED
  BY <1>1, InspectorInvariant, PTL

(* For any runs, loads and events: when nothing is left to do the          *)
(* inspector shows its run as the server has it, unless a load failed or   *)
(* was overtaken, was out at a sign-out, or rows went by while it was out, *)
(* and no run was asked for since with no other one loading.               *)
THEOREM InspectorFollows == Spec => []CatchesUp
<1>1. InspectorInv => CatchesUp
  <2> SUFFICES ASSUME InspectorInv, Quiet, ~missed PROVE Current
    BY DEF CatchesUp
  <2>1. CASE ~session
    BY <2>1 DEF InspectorInv, PageInv, SignedOutInv, Current, NoView
  <2>2. CASE session
    <3>1. /\ rows = heard /\ rows \subseteq changes /\ changes \subseteq rows \cup abandoned
          /\ DOMAIN loads = {}
      <4>1. rows \subseteq heard /\ changes \subseteq rows \cup abandoned /\ loads = <<>>
        BY <2>2 DEF Quiet
      <4>2. heard \subseteq rows /\ rows \subseteq changes
        BY DEF InspectorInv, PageInv
      <4> QED
        BY <4>1, <4>2
    <3>2. ASSUME NEW c \in Of(view.run, rows) PROVE c \in view.changes /\ c \in view.rows
      <4>1. c \in heard /\ c[1] = view.run
        BY <3>1, <3>2 DEF Of
      <4>2. ViewFollows(c)
        BY <2>2, <4>1 DEF InspectorInv, ViewInv
      <4> QED
        BY <3>1, <4>1, <4>2 DEF ViewFollows
    <3>3. view.rows = Of(view.run, rows)
      BY <3>2 DEF InspectorInv, ReadInv
    <3>4. ASSUME NEW c \in Of(view.run, changes) \ Unsaid PROVE c \in view.changes
      BY <3>1, <3>2, <3>4 DEF Of, Unsaid
    <3> QED
      BY <2>2, <3>3, <3>4 DEF Current
  <2> QED
    BY <2>1, <2>2
<1> QED
  BY <1>1, InspectorInvariant, PTL

(* For any runs, limit, lists and events: when nothing is left to do the   *)
(* queue shows every run as it was last told of, or not at all, and then   *)
(* enough runs come before it; unless a list failed, was overtaken or was  *)
(* out at a sign-out, or rows went by before the stream, and no list was   *)
(* asked for since.                                                        *)
THEOREM QueueFollowsServer == Spec => []QueueCatchesUp
<1>1. InspectorInv => QueueCatchesUp
  <2> SUFFICES ASSUME InspectorInv, Quiet, ~behind PROVE QueueCurrent
    BY DEF QueueCatchesUp
  <2>1. CASE ~session
    BY <2>1 DEF InspectorInv, SignedOutInv, QueueCurrent
  <2>2. CASE session
    <3>1. /\ rows = heard /\ rows \subseteq changes /\ changes \subseteq rows \cup abandoned
          /\ DOMAIN lists = {}
      <4>1. rows \subseteq heard /\ changes \subseteq rows \cup abandoned /\ lists = <<>>
        BY <2>2 DEF Quiet
      <4>2. rows = heard /\ rows \subseteq changes
        BY <4>1 DEF InspectorInv, PageInv
      <4>3. DOMAIN lists = {}
        BY <4>1
      <4> QED
        BY <4>1, <4>2, <4>3
    <3>2. changes \ heard \subseteq Unsaid
      BY <3>1 DEF Unsaid
    <3>3. ASSUME NEW r \in Runs
          PROVE  \/ Of(r, changes) \ Unsaid \subseteq queue
                 \/ /\ Of(r, queue) = {}
                    /\ Of(r, Unsaid) # {} \/ Cardinality(Ahead(r, Unsaid)) >= QueueLimit
      <4>1. Covers(queue, r)
        BY <2>2, <3>1 DEF InspectorInv, QueueInv, QueueFollows
      <4>2. CASE Of(r, heard) \subseteq queue
        <5>1. Of(r, changes) \ Unsaid \subseteq Of(r, heard)
          BY <3>2 DEF Of
        <5> QED
          BY <4>2, <5>1
      <4>3. CASE Of(r, queue) = {} /\ Of(r, changes \ heard) # {}
        BY <3>2, <4>3 DEF Of
      <4>4. CASE Of(r, queue) = {} /\ Cardinality(Ahead(r, changes \ heard)) >= QueueLimit
        <5> DEFINE A == Ahead(r, changes \ heard)
                   B == Ahead(r, Unsaid)
        <5>1. A \subseteq B
          BY <3>2 DEF Ahead, Of
        <5>2. B \subseteq Runs
          BY DEF Ahead
        <5>3. Cardinality(A) >= QueueLimit
          BY <4>4
        <5> HIDE DEF A, B
        <5>4. Cardinality(B) >= QueueLimit
          BY <5>1, <5>2, <5>3, MoreAhead
        <5> QED
          BY <4>4, <5>4 DEF B
      <4> QED
        BY <4>1, <4>2, <4>3, <4>4 DEF Covers
    <3> QED
      BY <2>2, <3>3 DEF QueueCurrent
  <2> QED
    BY <2>1, <2>2
<1> QED
  BY <1>1, InspectorInvariant, PTL
=============================================================================
