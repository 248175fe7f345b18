-------------------------- MODULE RateLimiterProofs --------------------------
(***************************************************************************)
(* The limiter keeps its limit and refuses nobody below it, for any limit, *)
(* any window, any number of threads and any length of suspension.         *)
(***************************************************************************)
EXTENDS RateLimiter, FiniteSetTheorems, SequenceTheorems, TLAPS

(* What is in the bucket is what was allowed last.                         *)
Evicted == Len(allowed) - Len(bucket)

TypeInv ==
  /\ clock \in 0..MaxTime
  /\ now \in [Thread -> Nat \cup {-1}]
  /\ bucket \in Seq(Nat) /\ allowed \in Seq(Nat)

(* A thread between its reading and its decision has not fallen behind by  *)
(* more than MaxLag.                                                       *)
LagInv == \A t \in Thread : now[t] # -1 => now[t] <= clock /\ clock <= now[t] + MaxLag

(* The bucket is a tail of what was allowed, and holds no more than the    *)
(* limit; what is no longer in it had left the window when it was evicted. *)
TailInv ==
  /\ Len(bucket) <= Len(allowed) /\ Len(bucket) <= Limit
  /\ \A i \in 1..Len(bucket) : bucket[i] = allowed[Evicted + i]
  /\ \A i \in 1..Evicted : allowed[i] < clock - Window

(* A stamp is at most MaxLag before those decided ahead of it.             *)
OrderInv ==
  /\ \A i \in 1..Len(allowed) : allowed[i] <= clock
  /\ \A i, j \in 1..Len(allowed) : i < j => allowed[i] <= allowed[j] + MaxLag

LimiterInv == TypeInv /\ LagInv /\ TailInv /\ OrderInv /\ LimitWithinLag

LEMMA NoneAllowed ==
  ASSUME NEW first, NEW last
  PROVE  LET none == <<>> IN
         Cardinality({i \in DOMAIN none : first <= none[i] /\ none[i] <= last}) = 0
<1> DEFINE none == <<>>
<1>1. {i \in DOMAIN none : first <= none[i] /\ none[i] <= last} = {}
  OBVIOUS
<1> QED
  BY <1>1, FS_EmptySet

LEMMA LimiterInit == Init => LimiterInv
<1> SUFFICES ASSUME Init PROVE LimiterInv
  OBVIOUS
<1> USE LimiterAssumption, LimiterBounds
<1>1. Len(bucket) = 0 /\ Len(allowed) = 0 /\ allowed = <<>>
  BY DEF Init
<1>2. TypeInv /\ LagInv /\ TailInv /\ OrderInv
  BY <1>1 DEF Init, TypeInv, LagInv, TailInv, OrderInv, Evicted
<1>3. LimitWithinLag
  <2> SUFFICES ASSUME NEW last \in 0..MaxTime
               PROVE  AllowedIn(last - Window + MaxLag, last) <= Limit
    BY DEF LimitWithinLag
  <2>1. {i \in DOMAIN allowed : last - Window + MaxLag <= allowed[i] /\ allowed[i] <= last} = {}
    BY <1>1
  <2> QED
    BY <2>1, FS_EmptySet DEF AllowedIn
<1> QED
  BY <1>2, <1>3 DEF LimiterInv

(* s is what was allowed after the first e, which have left the window.    *)
Kept(s, e) ==
  /\ s \in Seq(Nat) /\ e \in Nat /\ e + Len(s) = Len(allowed) /\ Len(s) <= Limit
  /\ \A i \in 1..Len(s) : s[i] = allowed[e + i]
  /\ \A i \in 1..e : allowed[i] < clock - Window

(* Under the lock: what the eviction leaves is a later tail, and begins in *)
(* the window.                                                             *)
LEMMA Keeps ==
  ASSUME LimiterInv, NEW t \in Thread, now[t] # -1, NEW k \in 0..Len(bucket), Evicts(k, now[t] - Window)
  PROVE  LET s == SubSeq(bucket, k + 1, Len(bucket)) IN
         /\ Kept(s, Evicted + k)
         /\ Len(s) > 0 => allowed[Evicted + k + 1] >= now[t] - Window
<1> DEFINE kept == SubSeq(bucket, k + 1, Len(bucket))
<1> USE LimiterAssumption, LimiterBounds
<1>t. TypeInv /\ LagInv /\ TailInv
  BY DEF LimiterInv
<1>1. /\ Len(bucket) \in Nat /\ Len(allowed) \in Nat /\ Evicted \in Nat /\ k \in Nat
      /\ clock \in Nat /\ now[t] \in Nat /\ now[t] <= clock
      /\ \A i \in 1..Len(bucket) : bucket[i] \in Nat
  <2>1. Len(bucket) \in Nat /\ Len(allowed) \in Nat /\ \A i \in 1..Len(bucket) : bucket[i] \in Nat
    BY <1>t DEF TypeInv
  <2>2. clock \in Nat /\ now[t] \in Nat /\ now[t] <= clock
    BY <1>t DEF TypeInv, LagInv
  <2>3. Evicted \in Nat /\ k \in Nat
    BY <1>t, <2>1 DEF TailInv, Evicted
  <2> QED
    BY <2>1, <2>2, <2>3
<1>2. /\ kept \in Seq(Nat) /\ Len(kept) = Len(bucket) - k
      /\ \A i \in 1..Len(kept) : kept[i] = bucket[k + i]
  <2>1. k + 1 \in Int /\ Len(bucket) \in Int /\ \A i \in (k + 1)..Len(bucket) : bucket[i] \in Nat
    BY <1>1
  <2>2. /\ kept \in Seq(Nat)
        /\ Len(kept) = IF k + 1 <= Len(bucket) THEN Len(bucket) - (k + 1) + 1 ELSE 0
        /\ \A i \in 1..(Len(bucket) - (k + 1) + 1) : kept[i] = bucket[k + 1 + i - 1]
    BY <2>1, SubSeqProperties
  <2> HIDE DEF kept
  <2>3. Len(kept) = Len(bucket) - k
    BY <1>1, <2>2
  <2>4. ASSUME NEW i \in 1..Len(kept) PROVE kept[i] = bucket[k + i]
    <3>1. i \in 1..(Len(bucket) - (k + 1) + 1) /\ k + 1 + i - 1 = k + i
      BY <1>1, <2>3
    <3> QED
      BY <2>2, <3>1
  <2> QED
    BY <2>2, <2>3, <2>4
<1> HIDE DEF kept
<1>3. \A i \in 1..Len(kept) : kept[i] = allowed[Evicted + k + i]
  <2> TAKE i \in 1..Len(kept)
  <2>1. k + i \in 1..Len(bucket) /\ Evicted + (k + i) = Evicted + k + i
    BY <1>1, <1>2
  <2> QED
    BY <1>t, <1>2, <2>1 DEF TailInv
<1>4. \A i \in 1..(Evicted + k) : allowed[i] < clock - Window
  <2> TAKE i \in 1..(Evicted + k)
  <2>1. CASE i <= Evicted
    BY <1>t, <1>1, <2>1 DEF TailInv
  <2>2. CASE i > Evicted
    <3>1. i - Evicted \in 1..k /\ i - Evicted \in 1..Len(bucket) /\ Evicted + (i - Evicted) = i
      BY <1>1, <2>2
    <3>2. bucket[i - Evicted] < now[t] - Window
      BY <3>1 DEF Evicts
    <3>3. bucket[i - Evicted] = allowed[i] /\ bucket[i - Evicted] \in Nat
      BY <1>t, <1>1, <3>1 DEF TailInv
    <3> QED
      BY <1>1, <3>2, <3>3
  <2> QED
    BY <1>1, <2>1, <2>2
<1>5. Len(kept) > 0 => allowed[Evicted + k + 1] >= now[t] - Window
  <2> SUFFICES ASSUME Len(kept) > 0 PROVE allowed[Evicted + k + 1] >= now[t] - Window
    OBVIOUS
  <2>1. k < Len(bucket) /\ k + 1 \in 1..Len(bucket) /\ Evicted + (k + 1) = Evicted + k + 1
    BY <1>1, <1>2
  <2> QED
    BY <1>t, <2>1 DEF Evicts, TailInv
<1>6. Evicted + k \in Nat /\ Evicted + k + Len(kept) = Len(allowed) /\ Len(kept) <= Limit
  <2>1. Evicted + Len(bucket) = Len(allowed) /\ Len(bucket) <= Limit
    BY <1>t, <1>1 DEF TailInv, Evicted
  <2>2. Len(kept) = Len(bucket) - k /\ k \in Nat /\ Evicted \in Nat /\ Len(bucket) \in Nat
    BY <1>1, <1>2
  <2>3. Limit \in Nat
    OBVIOUS
  <2> QED
    BY <2>1, <2>2, <2>3
<1> QED
  BY <1>2, <1>3, <1>4, <1>5, <1>6 DEF kept, Kept

-----------------------------------------------------------------------------
(* The bounds of what a thread holds while it decides.                     *)
LEMMA Holds ==
  ASSUME LimiterInv, NEW t \in Thread, now[t] # -1
  PROVE  /\ clock \in Nat /\ now[t] \in Nat /\ now[t] <= clock /\ clock <= now[t] + MaxLag
         /\ Len(allowed) \in Nat
         /\ \A i \in 1..Len(allowed) : allowed[i] \in Nat /\ allowed[i] <= clock
<1> USE LimiterBounds
<1>1. clock \in Nat /\ now[t] \in Nat /\ now[t] <= clock /\ clock <= now[t] + MaxLag
  BY DEF LimiterInv, TypeInv, LagInv
<1>2. Len(allowed) \in Nat /\ \A i \in 1..Len(allowed) : allowed[i] \in Nat
  BY DEF LimiterInv, TypeInv
<1> QED
  BY <1>1, <1>2 DEF LimiterInv, OrderInv

(* A decision that leaves s of the bucket ends the call of its thread.     *)
Ends(t) == now' = [now EXCEPT ![t] = -1] /\ clock' = clock

LEMMA EndKeeps ==
  ASSUME TypeInv, LagInv, NEW t \in Thread, Ends(t)
  PROVE  now' \in [Thread -> Nat \cup {-1}] /\ clock' \in 0..MaxTime /\ LagInv'
<1>1. \A u \in Thread : now'[u] = now[u] \/ now'[u] = -1
  BY DEF TypeInv, Ends
<1>2. LagInv'
  BY <1>1 DEF LagInv, Ends
<1> QED
  BY <1>2 DEF TypeInv, Ends

Allows(t, s) ==
  /\ Len(s) < Limit /\ Ends(t)
  /\ bucket' = Append(s, now[t]) /\ allowed' = Append(allowed, now[t])

LEMMA AllowKeeps ==
  ASSUME LimiterInv, NEW t \in Thread, now[t] # -1, NEW s, NEW e, Kept(s, e), Allows(t, s)
  PROVE  LimiterInv'
<1> USE LimiterAssumption, LimiterBounds
<1>n. PICK n \in Nat : n = now[t]
  BY Holds
<1>k. /\ s \in Seq(Nat) /\ e \in Nat /\ e + Len(s) = Len(allowed) /\ Len(s) < Limit /\ Len(s) \in Nat
      /\ \A i \in 1..Len(s) : s[i] = allowed[e + i]
      /\ \A i \in 1..e : allowed[i] < clock - Window
  BY DEF Kept, Allows
<1>c. /\ clock \in Nat /\ n <= clock /\ clock <= n + MaxLag /\ Len(allowed) \in Nat
      /\ \A i \in 1..Len(allowed) : allowed[i] \in Nat /\ allowed[i] <= clock
  BY <1>n, Holds
<1>b. /\ bucket' \in Seq(Nat) /\ Len(bucket') = Len(s) + 1
      /\ \A i \in 1..Len(s) : bucket'[i] = s[i]
      /\ bucket'[Len(s) + 1] = n
  BY <1>n, <1>k DEF Allows
<1>a. /\ allowed' \in Seq(Nat) /\ Len(allowed') = Len(allowed) + 1
      /\ \A i \in 1..Len(allowed) : allowed'[i] = allowed[i]
      /\ allowed'[Len(allowed) + 1] = n
  BY <1>n DEF Allows, LimiterInv, TypeInv
<1>l. /\ e \in Nat /\ Len(s) \in Nat /\ Len(allowed) \in Nat /\ e + Len(s) = Len(allowed)
      /\ Len(bucket') = Len(s) + 1 /\ Len(allowed') = Len(allowed) + 1
  BY <1>k, <1>c, <1>b, <1>a
<1>e. Evicted' = e /\ clock' = clock
  <2>1. clock' = clock
    BY DEF Allows, Ends
  <2> QED
    BY <1>l, <2>1 DEF Evicted
<1>1. TypeInv' /\ LagInv'
  BY <1>a, <1>b, EndKeeps DEF LimiterInv, TypeInv, Allows
<1>2. TailInv'
  <2>1. Len(bucket') <= Len(allowed') /\ Len(bucket') <= Limit
    BY <1>k, <1>b, <1>a
  <2>2. ASSUME NEW i \in 1..Len(bucket') PROVE bucket'[i] = allowed'[e + i]
    <3>1. CASE i = Len(s) + 1
      <4>1. e + i = Len(allowed) + 1
        BY <1>l, <3>1
      <4> QED
        BY <1>b, <1>a, <3>1, <4>1
    <3>2. CASE i \in 1..Len(s)
      <4>1. e + i \in 1..Len(allowed)
        BY <1>l, <3>2
      <4> QED
        BY <1>k, <1>b, <1>a, <3>2, <4>1
    <3> QED
      BY <1>k, <1>b, <3>1, <3>2
  <2>3. ASSUME NEW i \in 1..e PROVE allowed'[i] < clock' - Window
    <3>1. i \in 1..Len(allowed)
      BY <1>k, <1>c
    <3> QED
      BY <1>k, <1>a, <1>e, <3>1
  <2> QED
    BY <1>e, <2>1, <2>2, <2>3 DEF TailInv
<1>3. OrderInv'
  <2>1. ASSUME NEW i \in 1..Len(allowed') PROVE allowed'[i] <= clock'
    <3>1. CASE i \in 1..Len(allowed)
      BY <1>c, <1>a, <1>e, <3>1
    <3>2. CASE i = Len(allowed) + 1
      BY <1>c, <1>a, <1>e, <3>2
    <3> QED
      BY <1>l, <3>1, <3>2
  <2>2. ASSUME NEW i \in 1..Len(allowed'), NEW j \in 1..Len(allowed'), i < j
        PROVE  allowed'[i] <= allowed'[j] + MaxLag
    <3>1. i \in 1..Len(allowed) /\ allowed'[i] = allowed[i]
      BY <1>c, <1>a, <2>2
    <3>2. CASE j \in 1..Len(allowed)
      BY <1>a, <2>2, <3>1, <3>2 DEF LimiterInv, OrderInv
    <3>3. CASE j = Len(allowed) + 1
      BY <1>c, <1>a, <3>1, <3>3
    <3> QED
      BY <1>c, <1>a, <3>2, <3>3
  <2> QED
    BY <2>1, <2>2 DEF OrderInv
<1>4. ASSUME NEW last \in 0..MaxTime
      PROVE  AllowedIn(last - Window + MaxLag, last)' <= Limit
  <2> DEFINE first == last - Window + MaxLag
             New == {i \in DOMAIN allowed' : first <= allowed'[i] /\ allowed'[i] <= last}
  <2>d. DOMAIN allowed = 1..Len(allowed) /\ DOMAIN allowed' = 1..(Len(allowed) + 1)
    BY <1>a DEF LimiterInv, TypeInv
  <2>1. CASE ~(first <= n /\ n <= last)
    <3>1. New = {i \in DOMAIN allowed : first <= allowed[i] /\ allowed[i] <= last}
      BY <1>c, <1>a, <2>d, <2>1
    <3> QED
      BY <3>1 DEF LimiterInv, LimitWithinLag, AllowedIn
  <2>2. CASE first <= n /\ n <= last
    <3>1. ASSUME NEW i \in New PROVE i \in (e + 1)..(Len(allowed) + 1)
      <4>1. i \in 1..(Len(allowed) + 1) /\ first <= allowed'[i]
        BY <2>d
      <4>2. CASE i \in 1..e
        <5>1. i \in 1..Len(allowed)
          BY <1>k, <1>c, <4>2
        <5>2. allowed'[i] = allowed[i] /\ allowed[i] \in Nat /\ allowed[i] < clock - Window
          BY <1>k, <1>c, <1>a, <4>2, <5>1
        <5> QED
          BY <1>c, <2>2, <4>1, <5>2
      <4> QED
        BY <1>k, <1>c, <4>1, <4>2
    <3> HIDE DEF New
    <3>2. IsFiniteSet((e + 1)..(Len(allowed) + 1))
      BY <1>l, FS_Interval
    <3>3. Cardinality((e + 1)..(Len(allowed) + 1)) = Len(s) + 1
      <4>1. \A i, j \in Int : i <= j + 1 => Cardinality(i..j) = j - i + 1
        BY FS_Interval
      <4> QED
        BY <1>l, <4>1
    <3>4. Cardinality(New) <= Cardinality((e + 1)..(Len(allowed) + 1)) /\ Cardinality(New) \in Nat
      BY <3>1, <3>2, FS_Subset, FS_CardinalityType
    <3>5. Cardinality(New) <= Limit
      BY <1>k, <3>3, <3>4
    <3> QED
      BY <3>5 DEF AllowedIn, New
  <2> QED
    BY <2>1, <2>2
<1> QED
  BY <1>1, <1>2, <1>3, <1>4 DEF LimiterInv, LimitWithinLag

(* A decision that refuses it.                                             *)
Refuses(t, s) ==
  /\ Len(s) >= Limit /\ Ends(t)
  /\ bucket' = s /\ allowed' = allowed

LEMMA RefuseKeeps ==
  ASSUME LimiterInv, NEW t \in Thread, now[t] # -1, NEW s, NEW e, Kept(s, e), Refuses(t, s)
  PROVE  LimiterInv'
<1>k. /\ s \in Seq(Nat) /\ e \in Nat /\ e + Len(s) = Len(allowed) /\ Len(s) <= Limit
      /\ bucket' = s /\ allowed' = allowed /\ clock' = clock
  BY DEF Kept, Refuses, Ends
<1>e. Evicted' = e /\ Len(s) \in Nat /\ Len(allowed) \in Nat
  <2>1. Len(s) \in Nat
    BY <1>k
  <2> QED
    BY <1>k, <2>1 DEF Evicted
<1>1. TypeInv' /\ LagInv'
  BY <1>k, EndKeeps DEF LimiterInv, TypeInv, Refuses
<1>2. TailInv'
  <2>1. Len(bucket') <= Len(allowed') /\ Len(bucket') <= Limit
    BY <1>k, <1>e
  <2> QED
    BY <1>k, <1>e, <2>1 DEF TailInv, Kept
<1>3. OrderInv' /\ LimitWithinLag'
  BY <1>k DEF LimiterInv, OrderInv, LimitWithinLag, AllowedIn
<1> QED
  BY <1>1, <1>2, <1>3 DEF LimiterInv

LEMMA DecideSplits ==
  ASSUME LimiterInv, NEW t \in Thread, Decide(t)
  PROVE  /\ now[t] # -1
         /\ \E s, e : /\ Kept(s, e)
                      /\ Len(s) > 0 => allowed[e + 1] >= now[t] - Window
                      /\ Allows(t, s) \/ Refuses(t, s)
<1>1. PICK k \in 0..Len(bucket) :
        /\ Evicts(k, now[t] - Window)
        /\ LET s == SubSeq(bucket, k + 1, Len(bucket)) IN Allows(t, s) \/ Refuses(t, s)
  BY DEF Decide, Allows, Refuses, Ends
<1>2. now[t] # -1
  BY DEF Decide
<1> QED
  BY <1>1, <1>2, Keeps

-----------------------------------------------------------------------------
LEMMA LimiterNext == LimiterInv /\ [Next]_vars => LimiterInv'
<1> SUFFICES ASSUME LimiterInv, [Next]_vars PROVE LimiterInv'
  OBVIOUS
<1> USE LimiterAssumption, LimiterBounds
<1>0. CASE UNCHANGED vars
  BY <1>0 DEF vars, LimiterInv, TypeInv, LagInv, TailInv, Evicted, OrderInv, LimitWithinLag, AllowedIn
<1>1. CASE Tick
  <2>1. UNCHANGED <<now, bucket, allowed>> /\ clock' = clock + 1 /\ clock' \in 0..MaxTime /\ clock \in Nat
    BY <1>1 DEF Tick, LimiterInv, TypeInv
  <2>2. TypeInv'
    BY <2>1 DEF LimiterInv, TypeInv
  <2>3. LagInv'
    <3> SUFFICES ASSUME NEW t \in Thread, now[t] # -1
                 PROVE  now[t] <= clock' /\ clock' <= now[t] + MaxLag
      BY <2>1 DEF LagInv
    <3>1. now[t] \in Nat /\ now[t] <= clock /\ clock - now[t] < MaxLag
      BY <1>1 DEF Tick, LimiterInv, TypeInv, LagInv
    <3> QED
      BY <2>1, <3>1
  <2>4. \A i \in 1..Len(allowed) : allowed[i] \in Nat
    BY DEF LimiterInv, TypeInv
  <2>5. TailInv'
    <3>1. Evicted' = Evicted
      BY <2>1 DEF Evicted
    <3>2. ASSUME NEW i \in 1..Evicted PROVE allowed[i] < clock' - Window
      <4>1. Len(allowed) \in Nat /\ Len(bucket) \in Nat /\ Evicted \in Int /\ Evicted <= Len(allowed)
        BY DEF LimiterInv, TypeInv, Evicted
      <4>2. allowed[i] \in Nat /\ allowed[i] < clock - Window
        BY <2>4, <4>1 DEF LimiterInv, TailInv
      <4> QED
        BY <2>1, <4>2
    <3> QED
      BY <2>1, <3>1, <3>2 DEF LimiterInv, TailInv
  <2>6. OrderInv'
    BY <2>1, <2>4 DEF LimiterInv, OrderInv
  <2>7. LimitWithinLag'
    BY <2>1 DEF LimiterInv, LimitWithinLag, AllowedIn
  <2> QED
    BY <2>2, <2>3, <2>5, <2>6, <2>7 DEF LimiterInv
<1>2. CASE Reset
  <2>1. /\ bucket' = <<>> /\ allowed' = <<>> /\ UNCHANGED <<clock, now>>
    BY <1>2 DEF Reset
  <2>2. TypeInv' /\ LagInv' /\ TailInv' /\ OrderInv'
    BY <2>1 DEF LimiterInv, TypeInv, LagInv, TailInv, OrderInv, Evicted
  <2>3. LimitWithinLag'
    BY <2>1, NoneAllowed DEF LimitWithinLag, AllowedIn
  <2> QED
    BY <2>2, <2>3 DEF LimiterInv
<1>3. ASSUME NEW t \in Thread, ReadClock(t) PROVE LimiterInv'
  <2>1. UNCHANGED <<clock, bucket, allowed>> /\ now' = [now EXCEPT ![t] = clock]
    BY <1>3 DEF ReadClock
  <2>2. TypeInv' /\ LagInv'
    BY <2>1 DEF LimiterInv, TypeInv, LagInv
  <2>3. TailInv' /\ OrderInv' /\ LimitWithinLag'
    BY <2>1 DEF LimiterInv, TailInv, Evicted, OrderInv, LimitWithinLag, AllowedIn
  <2> QED
    BY <2>2, <2>3 DEF LimiterInv
<1>4. ASSUME NEW t \in Thread, Decide(t) PROVE LimiterInv'
  BY <1>4, DecideSplits, AllowKeeps, RefuseKeeps
<1> QED
  BY <1>0, <1>1, <1>2, <1>3, <1>4 DEF Next

LEMMA LimiterHolds == Spec => []LimiterInv
  BY LimiterInit, LimiterNext, PTL DEF Spec

(* is_allowed keeps its limit: for any limit, window and number of threads *)
(* a stretch of time as long as the window less the longest suspension has *)
(* at most Limit requests allowed.                                         *)
THEOREM LimitKept == Spec => []LimitWithinLag
<1>1. LimiterInv => LimitWithinLag
  BY DEF LimiterInv
<1> QED
  BY LimiterHolds, <1>1, PTL

-----------------------------------------------------------------------------
(* A call that ends and allows nothing is a refusal.                       *)
LEMMA RefusalHasCause ==
  ASSUME LimiterInv, [Next]_vars, NEW t \in Thread, now[t] # -1, now'[t] = -1, allowed' = allowed
  PROVE  AllowedIn(now[t] - Window - MaxLag, MaxTime) >= Limit
<1> USE LimiterAssumption, LimiterBounds
<1>1. Decide(t)
  <2>1. now[t] \in Nat /\ clock \in Nat /\ DOMAIN now = Thread
    BY DEF LimiterInv, TypeInv
  <2>2. now' # now
    OBVIOUS
  <2>3. ~Tick /\ ~Reset /\ ~UNCHANGED vars
    BY <2>2 DEF Tick, Reset, vars
  <2>4. \A u \in Thread : ~ReadClock(u)
    BY <2>1 DEF ReadClock
  <2>5. \A u \in Thread : Decide(u) => u = t
    BY <2>1 DEF Decide
  <2> QED
    BY <2>3, <2>4, <2>5 DEF Next
<1>2. PICK s, e : /\ Kept(s, e)
                  /\ Len(s) > 0 => allowed[e + 1] >= now[t] - Window
                  /\ Allows(t, s) \/ Refuses(t, s)
  BY <1>1, DecideSplits
<1>n. PICK n \in Nat : n = now[t]
  BY Holds
<1>3. Len(s) >= Limit
  <2>1. Len(Append(allowed, n)) # Len(allowed)
    BY DEF LimiterInv, TypeInv
  <2> QED
    BY <1>2, <1>n, <2>1 DEF Allows, Refuses
<1>4. Len(s) \in Nat /\ e \in Nat /\ e + Len(s) = Len(allowed) /\ Len(allowed) \in Nat
  BY <1>2, Holds DEF Kept
<1>5. allowed[e + 1] >= n - Window
  BY <1>2, <1>n, <1>3, <1>4
<1>6. /\ clock \in 0..MaxTime
      /\ \A i \in 1..Len(allowed) : allowed[i] \in Nat /\ allowed[i] <= clock
      /\ DOMAIN allowed = 1..Len(allowed)
  BY Holds DEF LimiterInv, TypeInv
<1> DEFINE In == {i \in DOMAIN allowed : n - Window - MaxLag <= allowed[i] /\ allowed[i] <= MaxTime}
<1>7. ASSUME NEW j \in (e + 1)..Len(allowed) PROVE j \in In
  <2>1. j \in 1..Len(allowed) /\ e + 1 \in 1..Len(allowed)
    BY <1>4
  <2>2. allowed[e + 1] <= allowed[j] + MaxLag
    <3>1. CASE j = e + 1
      BY <1>6, <2>1, <3>1
    <3>2. CASE e + 1 < j
      BY <2>1, <3>2 DEF LimiterInv, OrderInv
    <3> QED
      BY <1>4, <3>1, <3>2
  <2>3. allowed[j] \in Nat /\ allowed[j] <= clock /\ allowed[e + 1] \in Nat
    BY <1>6, <2>1
  <2> QED
    BY <1>5, <1>6, <2>1, <2>2, <2>3
<1> HIDE DEF In
<1>8. IsFiniteSet(In)
  <2>1. In \subseteq 1..Len(allowed) /\ IsFiniteSet(1..Len(allowed))
    BY <1>4, <1>6, FS_Interval DEF In
  <2> QED
    BY <2>1, FS_Subset
<1>9. Cardinality((e + 1)..Len(allowed)) = Len(s)
  <2>1. \A i, j \in Int : i <= j + 1 => Cardinality(i..j) = j - i + 1
    BY FS_Interval
  <2>2. /\ e + 1 \in Int /\ Len(allowed) \in Int /\ e + 1 <= Len(allowed) + 1
        /\ Len(allowed) - (e + 1) + 1 = Len(s)
    BY <1>4
  <2> QED
    BY <2>1, <2>2
<1>10. Cardinality(In) \in Nat /\ Len(s) <= Cardinality(In)
  BY <1>7, <1>8, <1>9, FS_Subset, FS_CardinalityType
<1>11. Cardinality(In) >= Limit
  BY <1>3, <1>4, <1>10
<1> QED
  BY <1>n, <1>11 DEF AllowedIn, In

(* is_allowed refuses nobody below the limit: however stamps are kept      *)
(* behind newer ones, Limit requests were allowed in the window and the    *)
(* longest suspension before it.                                           *)
THEOREM RefusalsHaveCause == Spec => RefusalJustified
<1>1. LimiterInv /\ [Next]_vars =>
        [\A t \in Thread :
           now[t] # -1 /\ now'[t] = -1 /\ allowed' = allowed =>
             AllowedIn(now[t] - Window - MaxLag, MaxTime) >= Limit]_vars
  BY RefusalHasCause
<1> QED
  BY LimiterHolds, <1>1, PTL DEF Spec, RefusalJustified
=============================================================================
