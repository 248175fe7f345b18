------------------------ MODULE ToolExecutionProofs ------------------------
(***************************************************************************)
(* ToolExecution hands out one answer per operation id, and reruns a tool  *)
(* only for calls that overlap, for any callers, ids and tools.            *)
(***************************************************************************)
EXTENDS ToolExecution, FiniteSetTheorems, TLAPS

(* A caller about to record holds the output of a handler that ran.        *)
Holding == \A c \in Caller : pc[c] = "record" => made[c] # 0

ToolInv == TypeOK /\ Holding /\ AnswersAgree /\ RerunOnlyOverlapping

LEMMA ToolInit == Init => ToolInv
BY ToolBounds DEF Init, ToolInv, TypeOK, Holding, AnswersAgree, RerunOnlyOverlapping, Jobs

LEMMA ToolNext == ToolInv /\ [Next]_vars => ToolInv'
<1> SUFFICES ASSUME ToolInv, [Next]_vars PROVE ToolInv'
  OBVIOUS
<1> USE ToolBounds
<1>t. TypeOK /\ Holding /\ AnswersAgree /\ RerunOnlyOverlapping
  BY DEF ToolInv
<1>1. ASSUME NEW t \in Tool, Register(t) PROVE ToolInv'
  BY <1>1, <1>t DEF Register, ToolInv, TypeOK, Holding, AnswersAgree, RerunOnlyOverlapping
<1>2. ASSUME NEW c \in Caller, NEW o \in Op, NEW t \in Tool, Lookup(c, o, t) PROVE ToolInv'
  <2>1. TypeOK'
    BY <1>2, <1>t DEF Lookup, Start, Goto, TypeOK, Jobs
  <2>2. Holding' /\ AnswersAgree'
    BY <1>2, <1>t DEF Lookup, Start, Goto, TypeOK, Holding, AnswersAgree
  <2>3. RerunOnlyOverlapping'
    <3> SUFFICES ASSUME NEW d \in Caller, pc'[d] # "idle", rows'[job'[d].op] # 0
                 PROVE  job'[d].op \in crossed'[d]
      BY DEF RerunOnlyOverlapping
    <3>1. CASE d = c
      BY <1>2, <1>t, <3>1 DEF Lookup, Start, Goto, TypeOK
    <3>2. CASE d # c
      BY <1>2, <1>t, <3>2 DEF Lookup, Start, Goto, TypeOK, RerunOnlyOverlapping
    <3> QED
      BY <3>1, <3>2
  <2> QED
    BY <2>1, <2>2, <2>3 DEF ToolInv
<1>3. ASSUME NEW c \in Caller, NotRegistered(c) PROVE ToolInv'
  BY <1>3, <1>t DEF NotRegistered, Goto, ToolInv, TypeOK, Holding, AnswersAgree, RerunOnlyOverlapping
<1>4. ASSUME NEW c \in Caller, HandlerReturns(c) PROVE ToolInv'
  <2>1. job[c].op \in Op
    BY <1>t DEF TypeOK, Jobs
  <2>2. TypeOK'
    BY <1>4, <1>t, <2>1 DEF HandlerReturns, Goto, TypeOK
  <2>3. Holding' /\ AnswersAgree' /\ RerunOnlyOverlapping'
    BY <1>4, <1>t DEF HandlerReturns, Goto, TypeOK, Holding, AnswersAgree, RerunOnlyOverlapping
  <2> QED
    BY <2>2, <2>3 DEF ToolInv
<1>5. ASSUME NEW c \in Caller, HandlerRaises(c) PROVE ToolInv'
  <2>1. job[c].op \in Op
    BY <1>t DEF TypeOK, Jobs
  <2>2. TypeOK'
    BY <1>5, <1>t, <2>1 DEF HandlerRaises, Goto, TypeOK
  <2>3. Holding' /\ AnswersAgree' /\ RerunOnlyOverlapping'
    BY <1>5, <1>t DEF HandlerRaises, Goto, TypeOK, Holding, AnswersAgree, RerunOnlyOverlapping
  <2> QED
    BY <2>2, <2>3 DEF ToolInv
<1>6. ASSUME NEW c \in Caller, Record(c) PROVE ToolInv'
  <2>1. job[c].op \in Op /\ made[c] \in 0..ran
    BY <1>t DEF TypeOK, Jobs
  <2>2. CASE rows[job[c].op] = 0 /\ InsertRow(c)
    <3> DEFINE o == job[c].op
    <3>1. made[c] \in 1..ran
      BY <1>6, <1>t, <2>1 DEF Record, Holding, TypeOK
    <3>2. TypeOK'
      BY <1>6, <1>t, <2>1, <2>2, <3>1 DEF Record, InsertRow, Goto, TypeOK
    <3>3. Holding'
      BY <1>6, <1>t DEF Record, Goto, TypeOK, Holding
    <3>4. \A a \in answers : a[1] # o /\ a[1] \in Op
      BY <1>t, <2>2 DEF TypeOK, AnswersAgree
    <3>5. AnswersAgree'
      BY <1>t, <2>1, <2>2, <3>4 DEF InsertRow, TypeOK, AnswersAgree
    <3>6. RerunOnlyOverlapping'
      <4> SUFFICES ASSUME NEW d \in Caller, pc'[d] # "idle", rows'[job'[d].op] # 0
                   PROVE  job'[d].op \in crossed'[d]
        BY DEF RerunOnlyOverlapping
      <4>1. d # c /\ pc[d] # "idle" /\ job' = job /\ job[d].op \in Op
        BY <1>6, <1>t DEF Record, Goto, TypeOK, Jobs
      <4>2. CASE job[d].op = o
        BY <2>2, <4>1, <4>2 DEF InsertRow
      <4>3. CASE job[d].op # o
        BY <1>t, <2>2, <4>1, <4>3 DEF InsertRow, TypeOK, RerunOnlyOverlapping
      <4> QED
        BY <4>2, <4>3
    <3> QED
      BY <3>2, <3>3, <3>5, <3>6 DEF ToolInv
  <2>3. CASE cuts' = [cuts EXCEPT ![job[c].op] = @ + 1] /\ UNCHANGED <<rows, answers, crossed>>
    <3>1. TypeOK'
      BY <1>6, <1>t, <2>1, <2>3 DEF Record, Goto, TypeOK
    <3>2. Holding' /\ AnswersAgree' /\ RerunOnlyOverlapping'
      BY <1>6, <1>t, <2>3 DEF Record, Goto, TypeOK, Holding, AnswersAgree, RerunOnlyOverlapping
    <3> QED
      BY <3>1, <3>2 DEF ToolInv
  <2> QED
    BY <1>6, <2>2, <2>3 DEF Record
<1>7. ASSUME NEW c \in Caller, CutShort(c) PROVE ToolInv'
  <2>1. job[c].op \in Op
    BY <1>t DEF TypeOK, Jobs
  <2>2. TypeOK'
    BY <1>7, <1>t, <2>1 DEF CutShort, Goto, TypeOK
  <2>3. Holding' /\ AnswersAgree' /\ RerunOnlyOverlapping'
    BY <1>7, <1>t DEF CutShort, Goto, TypeOK, Holding, AnswersAgree, RerunOnlyOverlapping
  <2> QED
    BY <2>2, <2>3 DEF ToolInv
<1>8. CASE UNCHANGED vars
  BY <1>8, <1>t DEF vars, ToolInv, TypeOK, Holding, AnswersAgree, RerunOnlyOverlapping
<1> QED
  BY <1>1, <1>2, <1>3, <1>4, <1>5, <1>6, <1>7, <1>8 DEF Next

(* A row, a call and an answer keep their types: a recorded result is one  *)
(* a handler made, for any callers, ids and tools.                         *)
THEOREM ToolTypes == Spec => []TypeOK
<1>1. ToolInv => TypeOK
  BY DEF ToolInv
<1> QED
  BY <1>1, ToolInit, ToolNext, PTL DEF Spec

(* One answer per operation id, for good.                                  *)
THEOREM OneAnswer == Spec => []AnswersAgree
<1>1. ToolInv => AnswersAgree
  BY DEF ToolInv
<1> QED
  BY <1>1, ToolInit, ToolNext, PTL DEF Spec

(* A tool is run for a recorded operation only by a call that was already  *)
(* under way when the row was inserted.                                    *)
THEOREM RerunOverlaps == Spec => []RerunOnlyOverlapping
<1>1. ToolInv => RerunOnlyOverlapping
  BY DEF ToolInv
<1> QED
  BY <1>1, ToolInit, ToolNext, PTL DEF Spec

-----------------------------------------------------------------------------
(* A caller of o begins to record, or is done with it.                     *)
LEMMA RecordingGains ==
  ASSUME NEW o \in Op, NEW c \in Caller, c \notin Recording(o),
         Recording(o)' = Recording(o) \cup {c}
  PROVE  Cardinality(Recording(o))' = Cardinality(Recording(o)) + 1
<1>1. IsFiniteSet(Recording(o))
  BY CallersFinite, FS_Subset DEF Recording
<1> QED
  BY <1>1, FS_AddElement

LEMMA RecordingLoses ==
  ASSUME NEW o \in Op, NEW c \in Recording(o), Recording(o)' = Recording(o) \ {c}
  PROVE  Cardinality(Recording(o)) = Cardinality(Recording(o))' + 1
<1>1. IsFiniteSet(Recording(o))
  BY CallersFinite, FS_Subset DEF Recording
<1>2. Cardinality(Recording(o)) \in Nat
  BY <1>1, FS_CardinalityType
<1> QED
  BY <1>1, <1>2, FS_RemoveElement

LEMMA RecordingCount == ASSUME NEW o \in Op PROVE Cardinality(Recording(o)) \in Nat
<1>1. IsFiniteSet(Recording(o))
  BY CallersFinite, FS_Subset DEF Recording
<1> QED
  BY <1>1, FS_CardinalityType

Balanced(o) ==
  effects[o] = cuts[o] + Cardinality(Recording(o)) + (IF rows[o] = 0 THEN 0 ELSE 1)

LEMMA BalanceInit == Init => EffectsAccounted
<1> SUFFICES ASSUME Init, NEW o \in Op PROVE Balanced(o)
  BY DEF EffectsAccounted, Balanced
<1>1. Recording(o) = {}
  BY DEF Init, Recording
<1> QED
  BY <1>1, FS_EmptySet DEF Init, Balanced

LEMMA BalanceNext == ToolInv /\ EffectsAccounted /\ [Next]_vars => EffectsAccounted'
<1> SUFFICES ASSUME ToolInv, EffectsAccounted, [Next]_vars, NEW o \in Op PROVE Balanced(o)'
  BY DEF EffectsAccounted, Balanced
<1>t. TypeOK /\ Holding /\ Balanced(o)
  BY DEF ToolInv, EffectsAccounted, Balanced
<1>c. Cardinality(Recording(o)) \in Nat
  BY RecordingCount
<1>d. Cardinality(Recording(o))' \in Nat
  <2>1. IsFiniteSet(Recording(o)')
    BY CallersFinite, FS_Subset DEF Recording
  <2> QED
    BY <2>1, FS_CardinalityType
<1>n. effects[o] \in Nat /\ cuts[o] \in Nat
  BY <1>t DEF TypeOK
<1>1. CASE Recording(o)' = Recording(o) /\ UNCHANGED <<effects, cuts, rows>>
  BY <1>1, <1>t DEF Balanced
<1>2. ASSUME NEW c \in Caller, NEW p \in Op, NEW t \in Tool, Lookup(c, p, t) PROVE Balanced(o)'
  <2>1. Recording(o)' = Recording(o)
    BY <1>2, <1>t DEF Lookup, Start, Goto, TypeOK, Recording
  <2> QED
    BY <1>1, <1>2, <2>1 DEF Lookup, Start
<1>3. ASSUME NEW c \in Caller, NotRegistered(c) PROVE Balanced(o)'
  <2>1. Recording(o)' = Recording(o)
    BY <1>3, <1>t DEF NotRegistered, Goto, TypeOK, Recording
  <2> QED
    BY <1>1, <1>3, <2>1 DEF NotRegistered
<1>4. ASSUME NEW c \in Caller, HandlerReturns(c) PROVE Balanced(o)'
  <2>1. CASE job[c].op = o
    <3>1. c \notin Recording(o) /\ Recording(o)' = Recording(o) \cup {c}
      BY <1>4, <1>t, <2>1 DEF HandlerReturns, Goto, TypeOK, Recording
    <3>2. effects'[o] = effects[o] + 1 /\ cuts'[o] = cuts[o] /\ rows'[o] = rows[o]
      BY <1>4, <1>t, <2>1 DEF HandlerReturns, TypeOK
    <3>3. Cardinality(Recording(o))' = Cardinality(Recording(o)) + 1
      BY <3>1, RecordingGains
    <3> QED
      BY <1>t, <1>c, <1>d, <1>n, <3>2, <3>3 DEF Balanced
  <2>2. CASE job[c].op # o
    <3>1. Recording(o)' = Recording(o)
      BY <1>4, <1>t, <2>2 DEF HandlerReturns, Goto, TypeOK, Recording
    <3>2. effects'[o] = effects[o] /\ cuts'[o] = cuts[o] /\ rows'[o] = rows[o]
      BY <1>4, <1>t, <2>2 DEF HandlerReturns, TypeOK
    <3> QED
      BY <1>t, <3>1, <3>2 DEF Balanced
  <2> QED
    BY <2>1, <2>2
<1>5. ASSUME NEW c \in Caller, HandlerRaises(c) PROVE Balanced(o)'
  <2>1. Recording(o)' = Recording(o) /\ rows'[o] = rows[o]
    BY <1>5, <1>t DEF HandlerRaises, Goto, TypeOK, Recording
  <2>2. PICK n \in {0, 1} : /\ effects' = [effects EXCEPT ![job[c].op] = @ + n]
                            /\ cuts' = [cuts EXCEPT ![job[c].op] = @ + n]
    BY <1>5 DEF HandlerRaises
  <2>3. \/ effects'[o] = effects[o] + n /\ cuts'[o] = cuts[o] + n
        \/ effects'[o] = effects[o] /\ cuts'[o] = cuts[o]
    BY <1>t, <2>2 DEF TypeOK
  <2> QED
    BY <1>t, <1>c, <1>n, <2>1, <2>3 DEF Balanced
<1>6. ASSUME NEW c \in Caller, Record(c) \/ CutShort(c) PROVE Balanced(o)'
  <2>1. pc[c] = "record" /\ pc' = [pc EXCEPT ![c] = "idle"] /\ UNCHANGED <<job, effects>>
    BY <1>6 DEF Record, CutShort, Goto
  <2>2. CASE job[c].op = o
    <3>1. c \in Recording(o) /\ Recording(o)' = Recording(o) \ {c}
      BY <1>t, <2>1, <2>2 DEF TypeOK, Recording
    <3>2. Cardinality(Recording(o)) = Cardinality(Recording(o))' + 1
      BY <3>1, RecordingLoses
    <3>3. CASE cuts'[o] = cuts[o] + 1 /\ rows'[o] = rows[o]
      BY <1>t, <1>c, <1>d, <1>n, <2>1, <3>2, <3>3 DEF Balanced
    <3>4. CASE cuts'[o] = cuts[o] /\ rows[o] = 0 /\ rows'[o] = made[c]
      <4>1. rows'[o] # 0
        BY <1>t, <2>1, <3>4 DEF Holding
      <4> QED
        BY <1>t, <1>c, <1>d, <1>n, <2>1, <3>2, <3>4, <4>1 DEF Balanced
    <3>5. \/ cuts'[o] = cuts[o] + 1 /\ rows'[o] = rows[o]
          \/ cuts'[o] = cuts[o] /\ rows[o] = 0 /\ rows'[o] = made[c]
      BY <1>6, <1>t, <2>2 DEF Record, CutShort, InsertRow, TypeOK
    <3> QED
      BY <3>3, <3>4, <3>5
  <2>3. CASE job[c].op # o
    <3>1. Recording(o)' = Recording(o)
      BY <1>t, <2>1, <2>3 DEF TypeOK, Recording
    <3>2. cuts'[o] = cuts[o] /\ rows'[o] = rows[o]
      BY <1>6, <1>t, <2>3 DEF Record, CutShort, InsertRow, TypeOK
    <3> QED
      BY <1>t, <2>1, <3>1, <3>2 DEF Balanced
  <2> QED
    BY <2>2, <2>3
<1>7. ASSUME NEW t \in Tool, Register(t) PROVE Balanced(o)'
  BY <1>7, <1>1 DEF Register, Recording
<1>8. CASE UNCHANGED vars
  BY <1>8, <1>1 DEF vars, Recording
<1> QED
  BY <1>2, <1>3, <1>4, <1>5, <1>6, <1>7, <1>8 DEF Next

(* Every effect has the row, is about to be recorded, was cut short or was *)
(* refused: the balance of ToolService.execute for finitely many callers.  *)
THEOREM EffectsBalance == Spec => []EffectsAccounted
<1> QED
  BY ToolInit, ToolNext, BalanceInit, BalanceNext, PTL DEF Spec
=============================================================================
