------------------------- MODULE AuditStreamProofs -------------------------
(***************************************************************************)
(* AuditStream sends in order and at most once, for any number of writers  *)
(* and any window.                                                         *)
(***************************************************************************)
EXTENDS AuditStream, FiniteSetTheorems, TLAPS

(* What is sent is behind the cursor, what is pending is ahead of it, and  *)
(* everything the stream has seen is a committed row.                      *)
OrderInv ==
  /\ DeliveredInOrder
  /\ pending \subseteq events
  /\ cursor # 0 => cursor \in events
  /\ \A i \in DOMAIN delivered : delivered[i] \in events /\ delivered[i] <= cursor
  /\ \A e \in pending : e > cursor

StreamInv == TypeOK /\ OrderInv

(* Every stamp a writer can draw is within the bound, which is a number.   *)
LEMMA RankIsStamp ==
  /\ RankBound(MaxEvents) \in Nat
  /\ Stamps \subseteq Nat
  /\ \A t \in 1..MaxEvents : TextRank(t) \in Stamps
<1>1. RankBound(MaxEvents) \in Nat
  BY StreamBounds, SecondAssumption DEF RankBound
<1>2. ASSUME NEW t \in 1..MaxEvents PROVE TextRank(t) \in Stamps
  <2>1. t \in Nat /\ t >= 1 /\ t <= MaxEvents /\ MaxEvents \in Nat
    BY StreamBounds
  <2>2. TextRank(t) = 2 * (t + Second) - 1 \/ TextRank(t) = 2 * t
    BY DEF TextRank
  <2> QED
    BY <2>1, <2>2, SecondAssumption DEF Stamps, RankBound
<1>3. Stamps \subseteq Nat
  BY <1>1 DEF Stamps
<1> QED
  BY <1>1, <1>2, <1>3

LEMMA FiniteStamps == ASSUME NEW E \in SUBSET Stamps PROVE IsFiniteSet(E)
<1>1. IsFiniteSet(Stamps)
  BY RankIsStamp, FS_Interval DEF Stamps
<1> QED
  BY <1>1, FS_Subset

(* A non-empty set of stamps has a newest one.                             *)
LEMMA HasNewest ==
  ASSUME NEW E \in SUBSET Stamps, E # {}
  PROVE  \E e \in E : \A f \in E : f <= e
<1> DEFINE R == OpToRel(<, Nat)
           D == {RankBound(MaxEvents) - e : e \in E}
<1>1. IsWellFoundedOn(R, Nat)
  BY NatLessThanWellFounded
<1>2. D \subseteq Nat /\ D # {}
  <2>1. \A e \in E : RankBound(MaxEvents) - e \in Nat
    BY RankIsStamp DEF Stamps
  <2> QED
    BY <2>1
<1>3. PICK x \in D : \A y \in D : <<y, x>> \notin R
  <2> HIDE DEF R, D
  <2> QED BY <1>1, <1>2, WFMin
<1>4. \A y \in D : ~(y < x)
  BY <1>2, <1>3 DEF OpToRel
<1>5. PICK e \in E : x = RankBound(MaxEvents) - e
  OBVIOUS
<1>6. ASSUME NEW f \in E PROVE f <= e
  <2>1. ~(RankBound(MaxEvents) - f < RankBound(MaxEvents) - e)
    BY <1>4, <1>5
  <2>2. f \in Nat /\ e \in Nat
    BY RankIsStamp
  <2> QED
    BY <2>1, <2>2, RankIsStamp
<1> QED
  BY <1>6

(* The rows newer than e: the newer e is, the fewer there are.             *)
LEMMA FewerNewer ==
  ASSUME NEW E \in SUBSET Stamps, NEW c \in Nat, NEW e \in Nat, e <= c
  PROVE  /\ Cardinality({f \in E : f > c}) \in Nat
         /\ Cardinality({f \in E : f > e}) \in Nat
         /\ Cardinality({f \in E : f > c}) <= Cardinality({f \in E : f > e})
<1> DEFINE C == {f \in E : f > c}
           D == {f \in E : f > e}
<1>1. IsFiniteSet(D)
  <2>1. D \in SUBSET Stamps
    OBVIOUS
  <2> HIDE DEF D
  <2> QED
    BY <2>1, FiniteStamps
<1>2. C \in SUBSET D
  <2>1. \A f \in E : f > c => f > e
    BY RankIsStamp
  <2> QED
    BY <2>1
<1>3. IsFiniteSet(C) /\ Cardinality(C) <= Cardinality(D)
  <2> HIDE DEF C, D
  <2> QED BY <1>1, <1>2, FS_Subset
<1> QED
  BY <1>1, <1>3, FS_CardinalityType

(* What a poll takes follows the cursor, even when the cursor has left the *)
(* window: then every row of the window is newer.                          *)
LEMMA TakenIsNewer ==
  ASSUME NEW E \in SUBSET Stamps, NEW c \in Stamps \cup {0}, c # 0 => c \in E,
         NEW e \in AfterCursor(Window(E), c)
  PROVE  e \in E /\ e > c
<1>1. e \in E /\ e \in Window(E)
  BY DEF AfterCursor, Window
<1>2. CASE c \in Window(E) \/ c = 0
  BY <1>1, <1>2, RankIsStamp DEF AfterCursor, Window
<1>3. CASE c \notin Window(E) /\ c # 0
  <2>1. c \in E /\ c \in Nat /\ e \in Nat
    BY <1>1, <1>3, RankIsStamp
  <2>2. ~(Cardinality({f \in E : f > c}) < Limit)
    BY <1>3, <2>1 DEF Window
  <2>3. Cardinality({f \in E : f > e}) < Limit
    BY <1>1 DEF Window
  <2>4. ASSUME e <= c PROVE FALSE
    <3>1. /\ Cardinality({f \in E : f > c}) \in Nat
          /\ Cardinality({f \in E : f > e}) \in Nat
          /\ Cardinality({f \in E : f > c}) <= Cardinality({f \in E : f > e})
      BY <2>1, <2>4, FewerNewer
    <3> QED
      BY <2>2, <2>3, <3>1, LimitAssumption
  <2> QED
    BY <1>1, <2>1, <2>4
<1> QED
  BY <1>2, <1>3

(* The newest row of the window is the newest row of the table.            *)
LEMMA SeedIsNewest ==
  ASSUME NEW E \in SUBSET Stamps, NEW n \in Stamps \cup {0}, IsNewest(n, Window(E))
  PROVE  IsNewest(n, E)
<1>1. n \in E \cup {0}
  BY DEF IsNewest, Window
<1>2. CASE E = {}
  BY <1>1, <1>2 DEF IsNewest
<1>3. CASE E # {}
  <2>1. PICK m \in E : \A f \in E : f <= m
    BY <1>3, HasNewest
  <2>2. {f \in E : f > m} = {}
    <3>1. \A f \in E : ~(f > m)
      BY <2>1, RankIsStamp
    <3> QED
      BY <3>1
  <2>3. m \in Window(E)
    <3>1. Cardinality({}) = 0
      BY FS_EmptySet
    <3>2. Cardinality({f \in E : f > m}) < Limit
      BY <2>2, <3>1, LimitAssumption
    <3> QED
      BY <3>2 DEF Window
  <2>4. \A f \in E : f <= n
    BY <2>1, <2>3, RankIsStamp DEF IsNewest
  <2> QED
    BY <1>1, <2>4 DEF IsNewest
<1> QED
  BY <1>2, <1>3

-----------------------------------------------------------------------------
LEMMA StreamInit == Init => StreamInv
BY StreamBounds DEF Init, StreamInv, TypeOK, OrderInv, DeliveredInOrder, Stamps

LEMMA StreamNext == StreamInv /\ [Next]_vars => StreamInv'
<1> SUFFICES ASSUME StreamInv, [Next]_vars PROVE StreamInv'
  OBVIOUS
<1> USE StreamBounds, RankIsStamp
<1>t. TypeOK /\ OrderInv
  BY DEF StreamInv
<1>1. ASSUME NEW w \in Writer, Stamp(w) PROVE StreamInv'
  BY <1>1, <1>t DEF Stamp, stream, StreamInv, TypeOK, OrderInv, DeliveredInOrder, Stamps
<1>2. ASSUME NEW w \in Writer, Insert(w) PROVE StreamInv'
  <2>1. stamp[w] \in Stamps
    BY <1>2, <1>t DEF Insert, TypeOK, Stamps
  <2>2. events' \subseteq Stamps
    BY <1>2, <1>t, <2>1 DEF Insert, TypeOK
  <2>3. stamp' \in [Writer -> Stamps \cup {0}]
    BY <1>2, <1>t DEF Insert, TypeOK
  <2>4. TypeOK'
    BY <1>2, <1>t, <2>2, <2>3 DEF Insert, stream, TypeOK
  <2>5. OrderInv'
    BY <1>2, <1>t DEF Insert, stream, OrderInv, DeliveredInOrder
  <2> QED
    BY <2>4, <2>5 DEF StreamInv
<1>3. ASSUME NEW w \in Writer, InsertFails(w) PROVE StreamInv'
  BY <1>3, <1>t DEF InsertFails, stream, StreamInv, TypeOK, OrderInv, DeliveredInOrder
<1>4. ASSUME Connect PROVE StreamInv'
  <2>1. PICK e \in Stamps \cup {0} : IsNewest(e, Window(events)) /\ cursor' = e
    BY <1>4 DEF Connect
  <2>2. IsNewest(cursor', events)
    BY <2>1, <1>t, SeedIsNewest DEF TypeOK
  <2>3. TypeOK'
    BY <1>4, <1>t, <2>1 DEF Connect, TypeOK
  <2>4. OrderInv'
    <3>1. DeliveredInOrder'
      BY <1>4, <1>t DEF Connect, OrderInv, DeliveredInOrder
    <3> QED
      BY <1>4, <1>t, <2>2, <3>1 DEF Connect, OrderInv, IsNewest
  <2> QED
    BY <2>3, <2>4 DEF StreamInv
<1>5. ASSUME Poll PROVE StreamInv'
  <2>1. \A e \in pending' : e \in events /\ e > cursor
    BY <1>5, <1>t, TakenIsNewer DEF Poll, TypeOK, OrderInv
  <2>2. TypeOK'
    BY <1>5, <1>t, <2>1 DEF Poll, TypeOK
  <2>3. OrderInv'
    BY <1>5, <1>t, <2>1 DEF Poll, OrderInv, DeliveredInOrder
  <2> QED
    BY <2>2, <2>3 DEF StreamInv
<1>6. ASSUME Send PROVE StreamInv'
  <2>1. PICK e \in pending : /\ \A f \in pending : e <= f
                            /\ cursor' = e
                            /\ pending' = pending \ {e}
                            /\ delivered' = Append(delivered, e)
    BY <1>6 DEF Send
  <2>2. e \in Stamps /\ e \in events /\ e > cursor
    BY <1>t DEF TypeOK, OrderInv
  <2>3. TypeOK'
    BY <1>6, <1>t, <2>1, <2>2 DEF Send, TypeOK, Stamps
  <2>4. /\ Len(delivered) \in Nat
        /\ DOMAIN delivered = 1..Len(delivered)
        /\ DOMAIN delivered' = 1..(Len(delivered) + 1)
        /\ \A i \in DOMAIN delivered : delivered'[i] = delivered[i]
        /\ delivered'[Len(delivered) + 1] = e
    BY <1>t, <2>1, <2>2 DEF TypeOK
  <2>5. \A i \in DOMAIN delivered : delivered[i] \in Stamps
    BY <1>t, <2>4 DEF TypeOK
  <2>6. \A i \in DOMAIN delivered : delivered[i] \in events /\ delivered[i] <= cursor
    BY <1>t DEF OrderInv
  <2>7. \A i \in DOMAIN delivered : delivered[i] < e
    BY <1>t, <2>2, <2>5, <2>6 DEF TypeOK, Stamps
  <2>8. DeliveredInOrder'
    BY <1>t, <2>4, <2>7 DEF OrderInv, DeliveredInOrder
  <2>9. \A i \in DOMAIN delivered' : delivered'[i] \in events /\ delivered'[i] <= e
    BY <2>2, <2>4, <2>5, <2>6, <2>7 DEF Stamps
  <2>10. \A f \in pending' : f > e
    BY <1>t, <2>1 DEF TypeOK, Stamps
  <2>11. OrderInv'
    BY <1>6, <1>t, <2>1, <2>2, <2>8, <2>9, <2>10 DEF Send, OrderInv
  <2> QED
    BY <2>3, <2>11 DEF StreamInv
<1>7. ASSUME Disconnect PROVE StreamInv'
  BY <1>7, <1>t DEF Disconnect, StreamInv, TypeOK, OrderInv, DeliveredInOrder
<1>8. CASE UNCHANGED vars
  BY <1>8, <1>t DEF vars, StreamInv, TypeOK, OrderInv, DeliveredInOrder
<1> QED
  BY <1>1, <1>2, <1>3, <1>4, <1>5, <1>6, <1>7, <1>8 DEF Next

(* The cursor, the batch and the rows of the stream keep their types: a    *)
(* cursor is always a stamp that was drawn, whatever the connections do.   *)
THEOREM StreamTypes == Spec => []TypeOK
<1>1. StreamInv => TypeOK
  BY DEF StreamInv
<1> QED
  BY <1>1, StreamInit, StreamNext, PTL DEF Spec

(* Whatever the writers do, however far the stream falls behind and        *)
(* however often it reconnects, events are sent in the order of their      *)
(* stamps and none twice.                                                  *)
THEOREM StreamInOrder == Spec => []DeliveredInOrder
<1>1. StreamInv => DeliveredInOrder
  BY DEF StreamInv, OrderInv
<1> QED
  BY <1>1, StreamInit, StreamNext, PTL DEF Spec

-----------------------------------------------------------------------------
(* While the stream is open, the cursor and the batch are not newer than   *)
(* what has been read, and what has been read is a committed row.          *)
ReadInv ==
  /\ readHigh \in Stamps \cup {0}
  /\ readHigh # 0 => readHigh \in events
  /\ link = "open" => cursor <= readHigh /\ \A e \in pending : e <= readHigh

LossInv == StreamInv /\ ReadInv /\ LossAccounted

LEMMA LossInit == Init => LossInv
<1>1. Init => ReadInv /\ LossAccounted
  BY StreamBounds DEF Init, ReadInv, LossAccounted
<1> QED
  BY <1>1, StreamInit DEF LossInv

LEMMA LossNext == LossInv /\ [Next]_vars => LossInv'
<1> SUFFICES ASSUME LossInv, [Next]_vars PROVE ReadInv' /\ LossAccounted'
  BY StreamNext DEF LossInv
<1> USE StreamBounds, RankIsStamp
<1>t. TypeOK /\ OrderInv /\ ReadInv /\ LossAccounted /\ StreamInv'
  BY StreamNext DEF LossInv, StreamInv
<1>1. ASSUME NEW w \in Writer, Stamp(w) PROVE ReadInv' /\ LossAccounted'
  BY <1>1, <1>t DEF Stamp, stream, ReadInv, LossAccounted, Sent
<1>2. ASSUME NEW w \in Writer, Insert(w) PROVE ReadInv' /\ LossAccounted'
  <2>1. ReadInv'
    BY <1>2, <1>t DEF Insert, stream, ReadInv
  <2>2. stamp[w] \in Stamps
    BY <1>2, <1>t DEF Insert, TypeOK, Stamps
  <2>3. stamp[w] \in events \/ stamp[w] > readHigh \/ stamp[w] < readHigh
    BY <1>t, <2>2 DEF ReadInv, Stamps
  <2>4. late \subseteq late' /\ (stamp[w] < readHigh => stamp[w] \in late')
    BY <1>2 DEF Insert
  <2>5. LossAccounted'
    BY <1>2, <1>t, <2>3, <2>4 DEF Insert, stream, LossAccounted, Sent
  <2> QED
    BY <2>1, <2>5
<1>3. ASSUME NEW w \in Writer, InsertFails(w) PROVE ReadInv' /\ LossAccounted'
  BY <1>3, <1>t DEF InsertFails, stream, ReadInv, LossAccounted, Sent
<1>4. ASSUME Connect PROVE ReadInv' /\ LossAccounted'
  <2>1. PICK e \in Stamps \cup {0} : /\ IsNewest(e, Window(events))
                                 /\ cursor' = e
                                 /\ readHigh' = e
    BY <1>4 DEF Connect
  <2>2. e # 0 => e \in events
    BY <2>1 DEF IsNewest, Window
  <2>3. ReadInv'
    BY <1>4, <2>1, <2>2 DEF Connect, ReadInv
  <2>4. LossAccounted'
    BY <1>4 DEF Connect, LossAccounted
  <2> QED
    BY <2>3, <2>4
<1>5. ASSUME Poll PROVE ReadInv' /\ LossAccounted'
  <2>1. PICK h \in Stamps \cup {0} : IsNewest(h, events \cup {readHigh}) /\ readHigh' = h
    BY <1>5 DEF Poll
  <2>2. \A e \in events \cup {readHigh} : e <= h
    BY <2>1 DEF IsNewest
  <2>3. h # 0 => h \in events
    BY <1>t, <2>1 DEF IsNewest, ReadInv
  <2>4. pending' = AfterCursor(Window(events), cursor) /\ pending' \subseteq events
    BY <1>5, <1>t DEF Poll, StreamInv, OrderInv
  <2>5. cursor <= h
    BY <1>5, <1>t, <2>2 DEF Poll, ReadInv, TypeOK
  <2>6. ReadInv'
    BY <1>5, <2>1, <2>2, <2>3, <2>4, <2>5 DEF Poll, ReadInv
  <2>7. ASSUME NEW e \in events, e > readHigh, e \in Window(events)
        PROVE  e \in pending'
    <3>1. e > cursor
      BY <1>5, <1>t, <2>7 DEF Poll, ReadInv, TypeOK, Stamps
    <3> QED
      BY <2>4, <2>7, <3>1 DEF AfterCursor
  <2>8. overflow \subseteq overflow'
        /\ \A e \in events : e > readHigh /\ e \notin Window(events) => e \in overflow'
    BY <1>5 DEF Poll
  <2>9. LossAccounted'
    BY <1>5, <1>t, <2>7, <2>8 DEF Poll, LossAccounted, Sent
  <2> QED
    BY <2>6, <2>9
<1>6. ASSUME Send PROVE ReadInv' /\ LossAccounted'
  <2>1. PICK e \in pending : /\ cursor' = e
                            /\ pending' = pending \ {e}
                            /\ delivered' = Append(delivered, e)
    BY <1>6 DEF Send
  <2>2. e \in Stamps /\ e <= readHigh
    BY <1>6, <1>t DEF Send, TypeOK, ReadInv
  <2>3. ReadInv'
    BY <1>6, <1>t, <2>1, <2>2 DEF Send, ReadInv
  <2>4. /\ DOMAIN delivered = 1..Len(delivered) /\ Len(delivered) \in Nat
        /\ DOMAIN delivered' = 1..(Len(delivered) + 1)
        /\ \A i \in DOMAIN delivered : delivered'[i] = delivered[i]
        /\ delivered'[Len(delivered) + 1] = e
    BY <1>t, <2>1, <2>2 DEF TypeOK
  <2>5. \A f \in events : Sent(f) \/ f = e => Sent(f)'
    BY <2>4 DEF Sent
  <2>6. LossAccounted'
    BY <1>6, <1>t, <2>1, <2>5 DEF Send, LossAccounted
  <2> QED
    BY <2>3, <2>6
<1>7. ASSUME Disconnect PROVE ReadInv' /\ LossAccounted'
  BY <1>7, <1>t DEF Disconnect, ReadInv, LossAccounted
<1>8. CASE UNCHANGED vars
  BY <1>8, <1>t DEF vars, ReadInv, LossAccounted, Sent
<1> QED
  BY <1>1, <1>2, <1>3, <1>4, <1>5, <1>6, <1>7, <1>8 DEF Next

(* The three ways a row can be missed by an open stream are the only ones. *)
THEOREM StreamLossAccounted == Spec => []LossAccounted
<1>1. LossInv => LossAccounted
  BY DEF LossInv
<1> QED
  BY <1>1, LossInit, LossNext, PTL DEF Spec
=============================================================================
