---------------------------- MODULE RateLimiter ----------------------------
(***************************************************************************)
(* SlidingWindowRateLimiter.is_allowed for one key: the clock is read      *)
(* before the lock is taken; the bucket is cleaned, counted and extended   *)
(* under it.  A thread may be suspended in between, so the stamps of the   *)
(* bucket need not be in order.  Keys share nothing but the lock.          *)
(*                                                                         *)
(* MaxLag bounds how far the clock moves while a thread is between its     *)
(* reading and its decision; 0 makes the two one instant.                  *)
(*                                                                         *)
(* Bounds: MaxTime ticks, MaxCalls calls.                                  *)
(***************************************************************************)
EXTENDS Integers, Sequences, FiniteSets

CONSTANTS Thread, Limit, Window, MaxLag, MaxTime, MaxCalls

ASSUME LimiterAssumption == Limit \in Nat \ {0} /\ Window \in Nat \ {0}
ASSUME LimiterBounds == MaxLag \in Nat /\ MaxTime \in Nat /\ MaxCalls \in Nat

VARIABLES
  clock,
  now,      \* what each thread read, -1 outside is_allowed
  bucket,   \* the stamps kept, in the order of the decisions
  calls,
  allowed   \* history: the stamps of all requests allowed since the last reset

vars == <<clock, now, bucket, calls, allowed>>

Init ==
  /\ clock = 0
  /\ now = [t \in Thread |-> -1]
  /\ bucket = <<>>
  /\ calls = 0
  /\ allowed = <<>>

-----------------------------------------------------------------------------
Tick ==
  /\ clock < MaxTime
  /\ \A t \in Thread : now[t] # -1 => clock - now[t] < MaxLag
  /\ clock' = clock + 1
  /\ UNCHANGED <<now, bucket, calls, allowed>>

ReadClock(t) ==
  /\ now[t] = -1 /\ calls < MaxCalls
  /\ calls' = calls + 1
  /\ now' = [now EXCEPT ![t] = clock]
  /\ UNCHANGED <<clock, bucket, allowed>>

(* The first k stamps are evicted: all before the cutoff, and the eviction *)
(* stops at the first that is not.                                         *)
EvictsEarly(k, cutoff) ==
  /\ \A i \in 1..k : bucket[i] <= cutoff + 1
  /\ k < Len(bucket) => bucket[k + 1] > cutoff + 1

EvictsNone(k, cutoff) == k = 0

Evicts(k, cutoff) ==
  /\ \A i \in 1..k : bucket[i] < cutoff
  /\ k < Len(bucket) => bucket[k + 1] >= cutoff

(* Under the lock: evict, count, then append or refuse.                    *)
Decide(t) ==
  /\ now[t] # -1
  /\ \E k \in 0..Len(bucket) :
       LET kept == SubSeq(bucket, k + 1, Len(bucket)) IN
       /\ Evicts(k, now[t] - Window)
       /\ \/ /\ Len(kept) < Limit
             /\ bucket' = Append(kept, now[t])
             /\ allowed' = Append(allowed, now[t])
          \/ /\ Len(kept) >= Limit
             /\ bucket' = kept
             /\ UNCHANGED allowed
  /\ now' = [now EXCEPT ![t] = -1]
  /\ UNCHANGED <<clock, calls>>

Reset ==
  /\ bucket' = <<>>
  /\ allowed' = <<>>
  /\ UNCHANGED <<clock, now, calls>>

Next == Tick \/ Reset \/ \E t \in Thread : ReadClock(t) \/ Decide(t)

Spec == Init /\ [][Next]_vars

-----------------------------------------------------------------------------
AllowedIn(first, last) ==
  Cardinality({i \in DOMAIN allowed : first <= allowed[i] /\ allowed[i] <= last})

(* However threads are suspended, any stretch of time as long as the       *)
(* window less the longest suspension has at most Limit requests allowed.  *)
LimitWithinLag ==
  \A last \in 0..MaxTime : AllowedIn(last - Window + MaxLag, last) <= Limit

(* A request is refused only when Limit requests were allowed in the       *)
(* window and the longest suspension before it: stamps kept alive behind a *)
(* newer one never refuse it for longer.                                   *)
RefusalJustified ==
  [][\A t \in Thread :
       now[t] # -1 /\ now'[t] = -1 /\ allowed' = allowed =>
         AllowedIn(now[t] - Window - MaxLag, MaxTime) >= Limit]_vars
=============================================================================
