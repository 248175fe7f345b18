------------------------------- MODULE Memory -------------------------------
(***************************************************************************)
(* The memories of one scope: MemoryService.store_memory, a straight call  *)
(* of the gateway's upsert, and list_memories.  An upsert draws its stamp  *)
(* and a new identifier, and only then opens its connection; what follows  *)
(* is one transaction.  Threads interleave between the two.                *)
(*                                                                         *)
(* A store is named by the tick of its stamp, which also stands for the    *)
(* identifier it drew and for the content it carries.  Kind and name make  *)
(* the Key; the tenant, which the upsert writes once, is left out.         *)
(*                                                                         *)
(* Bounds: MaxStores upserts, MaxFaults failures.                          *)
(***************************************************************************)
EXTENDS Timestamps

CONSTANTS Writer, Key, MaxStores, MaxFaults

ASSUME MemoryBounds == MaxStores \in Nat /\ MaxFaults \in Nat

VARIABLES
  clock,     \* the last tick at which a stamp was drawn
  call,      \* what each thread is storing, NoCall outside upsert_memory
  memories,  \* the rows, by their unique key
  faults,
  \* history
  committed, \* the stores whose transaction committed, with their key
  returned,  \* the records the upserts returned, with their key
  before     \* for each store, the stores that had committed when it began

vars == <<clock, call, memories, faults, committed, returned, before>>

Store == 1..MaxStores
NoCall == [store |-> 0]
NoRow == [id |-> 0]

Init ==
  /\ clock = 0 /\ faults = 0
  /\ call = [w \in Writer |-> NoCall]
  /\ memories = [k \in Key |-> NoRow]
  /\ committed = {} /\ returned = {}
  /\ before = [n \in Store |-> {}]

(* utc_now and new_id, before the connection is opened.                    *)
BeginUpsert(w, k) ==
  /\ call[w] = NoCall
  /\ clock < MaxStores
  /\ clock' = clock + 1
  /\ call' = [call EXCEPT ![w] = [store |-> clock + 1, key |-> k]]
  /\ before' = [before EXCEPT ![clock + 1] = {c.store : c \in committed}]
  /\ UNCHANGED <<memories, faults, committed, returned>>

(* The row a store inserts, and the one it leaves where the key exists:    *)
(* identifier and created_at are kept.                                     *)
Inserted(n) == [id |-> n, created |-> n, content |-> n, updated |-> n]
UpdatedReplaced(row, n) == Inserted(n)
UpdatedContentOnly(row, n) == [row EXCEPT !.content = n]
UpdatedIgnored(row, n) == row
Updated(row, n) == [row EXCEPT !.content = n, !.updated = n]

(* INSERT ... ON CONFLICT DO UPDATE and the SELECT of id and created_at,   *)
(* in one transaction; the record returned is made of those two columns    *)
(* and of what the caller passed.                                          *)
Upsert(w) ==
  LET k == call[w].key
      n == call[w].store
      row == IF memories[k] = NoRow THEN Inserted(n) ELSE Updated(memories[k], n)
  IN
  /\ call[w] # NoCall
  /\ memories' = [memories EXCEPT ![k] = row]
  /\ committed' = committed \cup {[store |-> n, key |-> k]}
  /\ returned' = returned \cup {[key |-> k, id |-> row.id, created |-> row.created,
                                 content |-> n, updated |-> n]}
  /\ call' = [call EXCEPT ![w] = NoCall]
  /\ UNCHANGED <<clock, faults, before>>

(* The transaction raises (a locked database) and leaves nothing.          *)
UpsertFails(w) ==
  /\ call[w] # NoCall
  /\ faults < MaxFaults
  /\ faults' = faults + 1
  /\ call' = [call EXCEPT ![w] = NoCall]
  /\ UNCHANGED <<clock, memories, committed, returned, before>>

Next == \E w \in Writer : (\E k \in Key : BeginUpsert(w, k)) \/ Upsert(w) \/ UpsertFails(w)

Spec == Init /\ [][Next]_vars

(* list_memories: the rows of the scope, ORDER BY updated_at DESC.  Rows   *)
(* with the same text may come in either order.                            *)
ListedBefore(a, b) == TextRank(a.updated) >= TextRank(b.updated)
ListMemories == {memories[k] : k \in Key} \ {NoRow}

-----------------------------------------------------------------------------
(* Threads hold stores that were drawn, and rows and records are made of   *)
(* stores that committed.                                                  *)
TypeOK ==
  /\ clock \in 0..MaxStores /\ faults \in 0..MaxFaults
  /\ call \in [Writer -> {NoCall} \cup [store : 1..clock, key : Key]]
  /\ memories \in [Key -> {NoRow} \cup [id : Store, created : Store, content : Store, updated : Store]]
  /\ committed \subseteq [store : 1..clock, key : Key]
  /\ returned \subseteq [key : Key, id : Store, created : Store, content : Store, updated : Store]
  /\ before \in [Store -> SUBSET Store]

(* However many threads store a key for the first time at once, it has one *)
(* identifier and one created_at: every caller was told the same ones, and *)
(* the row still has them.                                                 *)
IdentityKept ==
  \A a, b \in returned : a.key = b.key =>
    /\ a.id = b.id /\ a.created = b.created
    /\ memories[a.key].id = a.id /\ memories[a.key].created = a.created

(* Of two upserts of a key that cross either may win, but a content that   *)
(* was there when a later upsert began never survives it: callers who wait *)
(* for their answer overwrite in order.                                    *)
NeverRevived ==
  \A c \in committed : memories[c.key].content \notin before[c.store]

(* The list puts what was stored last first, crossed upserts apart, but    *)
(* for a row written on a whole second: it stays in front of the rest of   *)
(* that second.                                                            *)
ListedNewestFirst ==
  \A a, b \in ListMemories :
    ListedBefore(a, b) => \/ a.content \notin before[b.content]
                          \/ /\ a.updated % Second = 0
                             /\ a.updated \div Second = b.updated \div Second
=============================================================================
