---------------------------- MODULE MemoryProofs ----------------------------
(***************************************************************************)
(* A key of the memory store has one identity, is overwritten in order and *)
(* listed in order, for any number of threads, keys and stores.            *)
(***************************************************************************)
EXTENDS Memory, TLAPS

CommittedStores == {c.store : c \in committed}

(* A store belongs to one thread until it commits, and what began before   *)
(* it had committed.                                                       *)
StoreInv ==
  /\ \A v, w \in Writer : call[v] # NoCall /\ call[w] # NoCall
                          /\ call[v].store = call[w].store => v = w
  /\ \A w \in Writer : call[w] # NoCall => call[w].store \notin CommittedStores
  /\ \A n \in Store : before[n] \subseteq CommittedStores

(* A record that was returned names the identity its row still has.        *)
IdentityInv ==
  \A a \in returned : /\ memories[a.key] # NoRow
                      /\ memories[a.key].id = a.id
                      /\ memories[a.key].created = a.created

MemoryInv == TypeOK /\ StoreInv /\ IdentityInv /\ NeverRevived

LEMMA IdentityFollows == IdentityInv => IdentityKept
BY DEF IdentityInv, IdentityKept

LEMMA MemoryInit == Init => MemoryInv
<1> SUFFICES ASSUME Init PROVE MemoryInv
  OBVIOUS
<1> USE MemoryBounds
<1>1. TypeOK
  BY DEF Init, TypeOK
<1>2. StoreInv /\ IdentityInv /\ NeverRevived
  BY DEF Init, StoreInv, IdentityInv, NeverRevived
<1> QED
  BY <1>1, <1>2 DEF MemoryInv

(* A store that begins is new, and remembers what had committed.           *)
LEMMA BeginKeeps ==
  ASSUME MemoryInv, NEW w \in Writer, NEW k \in Key, BeginUpsert(w, k)
  PROVE  MemoryInv'
<1> USE MemoryBounds
<1>t. TypeOK /\ StoreInv /\ IdentityInv /\ NeverRevived
  BY DEF MemoryInv
<1> DEFINE n == clock + 1
<1>1. /\ n \in Store /\ n \in 1..clock' /\ clock' \in 0..MaxStores /\ clock' = n
      /\ \A m \in 1..clock : m \in 1..clock' /\ m # n
  BY <1>t DEF BeginUpsert, TypeOK, Store
<1>2. /\ call' = [call EXCEPT ![w] = [store |-> n, key |-> k]]
      /\ before' = [before EXCEPT ![n] = CommittedStores]
      /\ UNCHANGED <<memories, faults, committed, returned>>
  BY DEF BeginUpsert, CommittedStores
<1>3. \A c \in committed : c.store \in 1..clock /\ c.store \in Store /\ c.key \in Key
  BY <1>t DEF TypeOK, Store
<1>4. CommittedStores \subseteq 1..clock /\ CommittedStores' = CommittedStores
  BY <1>2, <1>3 DEF CommittedStores
<1>5. \A v \in Writer : call[v] # NoCall => call[v].store \in 1..clock
  BY <1>t DEF TypeOK
<1>6. TypeOK'
  <2>1. call' \in [Writer -> {NoCall} \cup [store : 1..clock', key : Key]]
    BY <1>t, <1>1, <1>2 DEF TypeOK
  <2>2. before' \in [Store -> SUBSET Store]
    BY <1>t, <1>1, <1>2, <1>4 DEF TypeOK, Store
  <2>3. committed' \subseteq [store : 1..clock', key : Key]
    BY <1>t, <1>1, <1>2 DEF TypeOK
  <2> QED
    BY <1>t, <1>1, <1>2, <2>1, <2>2, <2>3 DEF TypeOK
<1>7. StoreInv'
  <2>1. ASSUME NEW v \in Writer, v # w PROVE call'[v] = call[v]
    BY <1>t, <1>2, <2>1 DEF TypeOK
  <2>2. call'[w] = [store |-> n, key |-> k] /\ call'[w].store = n
    BY <1>t, <1>2 DEF TypeOK
  <2>3. \A v \in Writer : v # w /\ call'[v] # NoCall => call'[v].store # n
    BY <1>1, <1>5, <2>1
  <2>4. \A u, v \in Writer : call'[u] # NoCall /\ call'[v] # NoCall
                             /\ call'[u].store = call'[v].store => u = v
    BY <1>t, <2>1, <2>2, <2>3 DEF StoreInv
  <2>5. \A v \in Writer : call'[v] # NoCall => call'[v].store \notin CommittedStores
    BY <1>t, <1>1, <1>4, <2>1, <2>2 DEF StoreInv
  <2>6. \A m \in Store : before'[m] \subseteq CommittedStores
    BY <1>t, <1>2 DEF StoreInv, TypeOK
  <2> QED
    BY <1>4, <2>4, <2>5, <2>6 DEF StoreInv
<1>8. IdentityInv' /\ NeverRevived'
  <2>1. IdentityInv'
    BY <1>t, <1>2 DEF IdentityInv
  <2>2. \A c \in committed : before'[c.store] = before[c.store]
    BY <1>t, <1>1, <1>2, <1>3 DEF TypeOK
  <2> QED
    BY <1>t, <1>2, <2>1, <2>2 DEF NeverRevived
<1> QED
  BY <1>6, <1>7, <1>8 DEF MemoryInv

(* The transaction: the store's content is new to every store that has     *)
(* begun, and the row keeps the identity it had.                           *)
LEMMA UpsertKeeps ==
  ASSUME MemoryInv, NEW w \in Writer, Upsert(w)
  PROVE  MemoryInv'
<1> USE MemoryBounds
<1>t. TypeOK /\ StoreInv /\ IdentityInv /\ NeverRevived
  BY DEF MemoryInv
<1> DEFINE k == call[w].key
           n == call[w].store
           row == IF memories[k] = NoRow THEN Inserted(n) ELSE Updated(memories[k], n)
           Rows == [id : Store, created : Store, content : Store, updated : Store]
<1>1. call[w] # NoCall /\ k \in Key /\ n \in 1..clock /\ n \in Store
  BY <1>t DEF Upsert, TypeOK, Store
<1>2. n \notin CommittedStores /\ \A m \in Store : n \notin before[m]
  BY <1>t, <1>1 DEF StoreInv
<1>3. /\ memories' = [memories EXCEPT ![k] = row]
      /\ committed' = committed \cup {[store |-> n, key |-> k]}
      /\ returned' = returned \cup {[key |-> k, id |-> row.id, created |-> row.created,
                                     content |-> n, updated |-> n]}
      /\ call' = [call EXCEPT ![w] = NoCall]
      /\ UNCHANGED <<clock, faults, before>>
  BY DEF Upsert
<1>4. /\ row \in Rows
      /\ row.content = n
      /\ memories[k] # NoRow => row.id = memories[k].id /\ row.created = memories[k].created
  <2>1. CASE memories[k] = NoRow
    BY <1>1, <2>1 DEF Inserted
  <2>2. CASE memories[k] # NoRow
    <3>1. memories[k] \in Rows
      BY <1>t, <1>1, <2>2 DEF TypeOK
    <3> QED
      BY <1>1, <2>2, <3>1 DEF Updated
  <2> QED
    BY <2>1, <2>2
<1>5. row # NoRow
  BY <1>4 DEF NoRow, Store
<1> HIDE DEF row
<1>6. /\ memories'[k] = row
      /\ \A j \in Key : j # k => memories'[j] = memories[j]
  BY <1>t, <1>1, <1>3 DEF TypeOK
<1>7. CommittedStores' = CommittedStores \cup {n}
  <2> DEFINE c == [store |-> n, key |-> k]
  <2>1. c.store = n /\ committed' = committed \cup {c}
    BY <1>3
  <2> HIDE DEF c, n
  <2> QED
    BY <2>1 DEF CommittedStores
<1>8. TypeOK'
  <2>1. call' \in [Writer -> {NoCall} \cup [store : 1..clock, key : Key]]
    BY <1>t, <1>3 DEF TypeOK
  <2>2. memories' \in [Key -> {NoRow} \cup Rows]
    BY <1>t, <1>3, <1>4 DEF TypeOK
  <2>3. committed' \subseteq [store : 1..clock, key : Key]
    BY <1>t, <1>1, <1>3 DEF TypeOK
  <2>4. returned' \subseteq [key : Key, id : Store, created : Store, content : Store, updated : Store]
    BY <1>t, <1>1, <1>3, <1>4 DEF TypeOK
  <2> QED
    BY <1>t, <1>3, <2>1, <2>2, <2>3, <2>4 DEF TypeOK
<1>9. StoreInv'
  <2>1. /\ call'[w] = NoCall
        /\ \A v \in Writer : v # w => call'[v] = call[v]
    BY <1>t, <1>3 DEF TypeOK
  <2>2. \A v \in Writer : v # w /\ call[v] # NoCall => call[v].store # n
    BY <1>t, <1>1 DEF StoreInv
  <2>3. \A v \in Writer : call'[v] # NoCall => call'[v].store \notin CommittedStores'
    BY <1>t, <1>7, <2>1, <2>2 DEF StoreInv
  <2> QED
    BY <1>t, <1>3, <1>7, <2>1, <2>3 DEF StoreInv
<1>10. IdentityInv'
  <2>1. ASSUME NEW a \in returned
        PROVE  /\ memories'[a.key] # NoRow
               /\ memories'[a.key].id = a.id
               /\ memories'[a.key].created = a.created
    <3>1. a.key \in Key
      BY <1>t DEF TypeOK
    <3>2. /\ memories[a.key] # NoRow
          /\ memories[a.key].id = a.id
          /\ memories[a.key].created = a.created
      BY <1>t DEF IdentityInv
    <3>3. CASE a.key = k
      BY <1>4, <1>5, <1>6, <3>2, <3>3
    <3>4. CASE a.key # k
      BY <1>6, <3>1, <3>2, <3>4
    <3> QED
      BY <3>3, <3>4
  <2>2. ASSUME NEW a \in returned', a \notin returned
        PROVE  a.key = k /\ a.id = row.id /\ a.created = row.created
    BY <1>3, <2>2
  <2> QED
    BY <1>5, <1>6, <2>1, <2>2 DEF IdentityInv
<1>11. NeverRevived'
  <2>1. ASSUME NEW c \in committed' PROVE memories'[c.key].content \notin before[c.store]
    <3>1. c.key \in Key /\ c.store \in Store
      BY <1>t, <1>1, <1>3 DEF TypeOK, Store
    <3>2. CASE c.key = k
      BY <1>2, <1>4, <1>6, <3>1, <3>2
    <3>3. CASE c.key # k
      <4>1. c \in committed
        BY <1>3, <3>3
      <4> QED
        BY <1>t, <1>6, <3>1, <3>3, <4>1 DEF NeverRevived
    <3> QED
      BY <3>2, <3>3
  <2> QED
    BY <1>3, <2>1 DEF NeverRevived
<1> QED
  BY <1>8, <1>9, <1>10, <1>11 DEF MemoryInv

LEMMA MemoryNext == MemoryInv /\ [Next]_vars => MemoryInv'
<1> SUFFICES ASSUME MemoryInv, [Next]_vars PROVE MemoryInv'
  OBVIOUS
<1> USE MemoryBounds
<1>1. ASSUME NEW w \in Writer, NEW k \in Key, BeginUpsert(w, k) PROVE MemoryInv'
  BY <1>1, BeginKeeps
<1>2. ASSUME NEW w \in Writer, Upsert(w) PROVE MemoryInv'
  BY <1>2, UpsertKeeps
<1>3. ASSUME NEW w \in Writer, UpsertFails(w) PROVE MemoryInv'
  <2>t. TypeOK /\ StoreInv /\ IdentityInv /\ NeverRevived
    BY DEF MemoryInv
  <2>1. TypeOK'
    BY <1>3, <2>t DEF UpsertFails, TypeOK
  <2>2. StoreInv'
    <3>1. \A v \in Writer : call'[v] # NoCall => call'[v] = call[v]
      BY <1>3, <2>t DEF UpsertFails, TypeOK
    <3> QED
      BY <1>3, <2>t, <3>1 DEF UpsertFails, StoreInv, CommittedStores
  <2>3. IdentityInv' /\ NeverRevived'
    BY <1>3, <2>t DEF UpsertFails, IdentityInv, NeverRevived
  <2> QED
    BY <2>1, <2>2, <2>3 DEF MemoryInv
<1>4. CASE UNCHANGED vars
  BY <1>4 DEF vars, MemoryInv, TypeOK, StoreInv, CommittedStores, IdentityInv, NeverRevived
<1> QED
  BY <1>1, <1>2, <1>3, <1>4 DEF Next

(* However many threads store a key at once, every one of them is told the *)
(* same identifier and created_at, and the row has them.                   *)
THEOREM OneIdentity == Spec => []IdentityKept
<1>1. MemoryInv => IdentityKept
  BY IdentityFollows DEF MemoryInv
<1> QED
  BY <1>1, MemoryInit, MemoryNext, PTL DEF Spec

(* The content an upsert found when it began never comes back after it.    *)
THEOREM OverwritesInOrder == Spec => []NeverRevived
<1>1. MemoryInv => NeverRevived
  BY DEF MemoryInv
<1> QED
  BY <1>1, MemoryInit, MemoryNext, PTL DEF Spec

-----------------------------------------------------------------------------
(* The order of the list.                                                  *)

(* What division by the seconds means.                                     *)
LEMMA WholeSecond ==
  ASSUME NEW t \in Int, NEW s \in Int, s > 0, t % s = 0
  PROVE  t = s * (t \div s)
BY SMTT(30)

LEMMA SecondOf ==
  ASSUME NEW t \in Int, NEW s \in Int, s > 0, NEW q \in Int, s * q <= t, t < s * q + s
  PROVE  q = t \div s
BY SMTT(30)

(* The text of an earlier stamp sorts after that of a later one only when  *)
(* it is that of a whole second, and within that second.                   *)
LEMMA TextAgainstTime ==
  ASSUME NEW t \in Nat, NEW u \in Nat, t < u, TextRank(t) >= TextRank(u)
  PROVE  t % Second = 0 /\ t \div Second = u \div Second
<1>1. Second \in Int /\ Second > 0
  BY SecondAssumption
<1>2. TextRank(u) \in Int /\ TextRank(u) >= 2 * u
  BY <1>1 DEF TextRank
<1>3. t % Second = 0
  BY <1>1, <1>2 DEF TextRank
<1>4. TextRank(t) = 2 * (t + Second) - 1
  BY <1>3 DEF TextRank
<1>5. u < t + Second
  BY <1>1, <1>2, <1>4
<1> DEFINE q == t \div Second
<1>6. q \in Int /\ t = Second * q
  BY <1>1, <1>3, WholeSecond
<1>7. q = u \div Second
  <2>1. Second * q <= u /\ u < Second * q + Second
    BY <1>1, <1>5, <1>6
  <2> HIDE DEF q
  <2> QED
    BY <1>1, <1>6, <2>1, SecondOf
<1> QED
  BY <1>3, <1>7

(* A row carries the stamp of the store its content is from, and a store   *)
(* began after those that had committed by then.                           *)
StampInv ==
  /\ \A k \in Key : memories[k] # NoRow => memories[k].updated = memories[k].content
  /\ \A n \in Store : \A m \in before[n] : m < n

LEMMA StampInit == Init => StampInv
BY DEF Init, StampInv

LEMMA StampNext == MemoryInv /\ StampInv /\ [Next]_vars => StampInv'
<1> SUFFICES ASSUME MemoryInv, StampInv, [Next]_vars PROVE StampInv'
  OBVIOUS
<1> USE MemoryBounds
<1>t. TypeOK
  BY DEF MemoryInv
<1>1. ASSUME NEW w \in Writer, NEW k \in Key, BeginUpsert(w, k) PROVE StampInv'
  <2> DEFINE n == clock + 1
  <2>1. before' = [before EXCEPT ![n] = CommittedStores] /\ memories' = memories
    BY <1>1 DEF BeginUpsert, CommittedStores
  <2>2. \A m \in CommittedStores : m < n
    BY <1>t DEF TypeOK, CommittedStores
  <2>3. \A i \in Store : before'[i] = before[i] \/ (i = n /\ before'[i] = CommittedStores)
    BY <1>t, <2>1 DEF TypeOK
  <2> HIDE DEF n
  <2> QED
    BY <2>1, <2>2, <2>3 DEF StampInv
<1>2. ASSUME NEW w \in Writer, Upsert(w) PROVE StampInv'
  <2> DEFINE k == call[w].key
             n == call[w].store
             row == IF memories[k] = NoRow THEN Inserted(n) ELSE Updated(memories[k], n)
  <2>1. memories' = [memories EXCEPT ![k] = row] /\ before' = before /\ k \in Key
    BY <1>2, <1>t DEF Upsert, TypeOK
  <2>2. row.updated = n /\ row.content = n
    <3>1. CASE memories[k] = NoRow
      BY <3>1 DEF Inserted
    <3>2. CASE memories[k] # NoRow
      <4>1. memories[k] \in [id : Store, created : Store, content : Store, updated : Store]
        BY <1>t, <2>1, <3>2 DEF TypeOK
      <4> QED
        BY <3>2, <4>1 DEF Updated
    <3> QED
      BY <3>1, <3>2
  <2> HIDE DEF row, k, n
  <2>3. \A j \in Key : memories'[j] = IF j = k THEN row ELSE memories[j]
    BY <1>t, <2>1 DEF TypeOK
  <2> QED
    BY <2>1, <2>2, <2>3 DEF StampInv
<1>3. ASSUME NEW w \in Writer, UpsertFails(w) PROVE StampInv'
  BY <1>3 DEF UpsertFails, StampInv
<1>4. CASE UNCHANGED vars
  BY <1>4 DEF vars, StampInv
<1> QED
  BY <1>1, <1>2, <1>3, <1>4 DEF Next

(* A row that had committed when the store of another began is listed in   *)
(* front of it only when it was written on a whole second, and then within *)
(* that second, however the upserts interleave.                            *)
THEOREM NewestFirst == Spec => []ListedNewestFirst
<1>1. MemoryInv /\ StampInv => ListedNewestFirst
  <2> SUFFICES ASSUME MemoryInv, StampInv, NEW a \in ListMemories, NEW b \in ListMemories,
                      ListedBefore(a, b), a.content \in before[b.content]
               PROVE  a.updated % Second = 0 /\ a.updated \div Second = b.updated \div Second
    BY DEF ListedNewestFirst
  <2>1. PICK k \in Key : a = memories[k] /\ memories[k] # NoRow
    BY DEF ListMemories
  <2>2. PICK l \in Key : b = memories[l] /\ memories[l] # NoRow
    BY DEF ListMemories
  <2>3. /\ a.updated \in Store /\ a.content = a.updated
        /\ b.updated \in Store /\ b.content = b.updated
    BY <2>1, <2>2 DEF MemoryInv, TypeOK, StampInv
  <2>4. a.updated < b.updated
    BY <2>3 DEF StampInv
  <2>5. a.updated \in Nat /\ b.updated \in Nat
    BY <2>3, MemoryBounds DEF Store
  <2> QED
    BY <2>4, <2>5, TextAgainstTime DEF ListedBefore
<1> QED
  BY <1>1, MemoryInit, MemoryNext, StampInit, StampNext, PTL DEF Spec
=============================================================================
