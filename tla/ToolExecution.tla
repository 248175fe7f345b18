--------------------------- MODULE ToolExecution ---------------------------
(***************************************************************************)
(* ToolService.execute: the answer of an operation id is kept in the audit *)
(* row of that id, so that a repeated call replays it instead of running   *)
(* the tool again.  The lookup, the handler and the insert are three       *)
(* steps; only the insert is protected, by the unique index on             *)
(* operation_id.                                                           *)
(*                                                                         *)
(* A handler is external code: its n-th run has an effect on the world and *)
(* outputs n, so two runs of one operation never look alike.  Nothing      *)
(* holds it to its type: the outputs in Malformed are no JSON objects.     *)
(*                                                                         *)
(* Bounds: MaxRequests calls of execute, MaxFaults calls cut short.        *)
(***************************************************************************)
EXTENDS Integers, FiniteSets

CONSTANTS Caller, Op, Tool, Malformed, MaxRequests, MaxFaults

ASSUME ToolBounds == MaxRequests \in Nat /\ MaxFaults \in Nat
ASSUME CallersFinite == IsFiniteSet(Caller)

VARIABLES
  handlers,   \* registered tools
  rows,       \* the output in the audit row of each operation id, 0 for none
  pc, job,    \* where each caller is in execute, with which id and tool
  made,       \* the output a caller is about to record
  requests, ran, faults,
  \* history: what the world and the clients have seen
  effects,    \* per id, how often a handler had its effect
  answers,    \* the <<id, output>> returned
  cuts,       \* per id, the effects of calls that ended without a row
  crossed     \* per caller, the ids whose row appeared since it looked

vars == <<handlers, rows, pc, job, made, requests, ran, faults, effects, answers, cuts, crossed>>

Jobs == [op : Op, tool : Tool]

Init ==
  /\ handlers = {}
  /\ rows = [o \in Op |-> 0]
  /\ pc = [c \in Caller |-> "idle"]
  /\ job \in [Caller -> Jobs]
  /\ made = [c \in Caller |-> 0]
  /\ requests = 0 /\ ran = 0 /\ faults = 0
  /\ effects = [o \in Op |-> 0] /\ answers = {}
  /\ cuts = [o \in Op |-> 0] /\ crossed = [c \in Caller |-> {}]

\* job means nothing before the first call.
Goto(c, l) == pc' = [pc EXCEPT ![c] = l]

-----------------------------------------------------------------------------
Register(t) ==
  /\ handlers' = handlers \cup {t}
  /\ UNCHANGED <<rows, pc, job, made, requests, ran, faults, effects, answers, cuts, crossed>>

(* A call begins with find_by_operation_id.                                *)
Start(c, o, t) ==
  /\ pc[c] = "idle" /\ requests < MaxRequests
  /\ requests' = requests + 1
  /\ job' = [job EXCEPT ![c] = [op |-> o, tool |-> t]]
  /\ crossed' = [crossed EXCEPT ![c] = {}]
  /\ UNCHANGED <<handlers, rows, made, ran, faults, effects, cuts>>

LookupBlind(c, o, t) == Start(c, o, t) /\ Goto(c, "run") /\ UNCHANGED answers

(* A row answers the call, whatever tool it names, or the call is refused  *)
(* because what the row holds is no object.                                *)
Lookup(c, o, t) ==
  /\ Start(c, o, t)
  /\ \/ /\ rows[o] # 0 /\ rows[o] \notin Malformed
        /\ answers' = answers \cup {<<o, rows[o]>>} /\ UNCHANGED pc
     \/ rows[o] # 0 /\ rows[o] \in Malformed /\ UNCHANGED <<answers, pc>>
     \/ rows[o] = 0 /\ Goto(c, "run") /\ UNCHANGED answers

NotRegistered(c) ==
  /\ pc[c] = "run" /\ job[c].tool \notin handlers
  /\ Goto(c, "idle")
  /\ UNCHANGED <<handlers, rows, job, made, requests, ran, faults, effects, answers, cuts, crossed>>

HandlerReturnsUncounted(c) ==
  /\ pc[c] = "run" /\ job[c].tool \in handlers
  /\ made' = [made EXCEPT ![c] = ran + 1]
  /\ Goto(c, "record")
  /\ UNCHANGED <<handlers, rows, job, requests, ran, faults, effects, answers, cuts, crossed>>

HandlerReturns(c) ==
  /\ pc[c] = "run" /\ job[c].tool \in handlers
  /\ ran' = ran + 1
  /\ made' = [made EXCEPT ![c] = ran + 1]
  /\ effects' = [effects EXCEPT ![job[c].op] = @ + 1]
  /\ Goto(c, "record")
  /\ UNCHANGED <<handlers, rows, job, requests, faults, answers, cuts, crossed>>

(* The handler raises, before or after its effect.                         *)
HandlerRaises(c) ==
  /\ pc[c] = "run" /\ job[c].tool \in handlers /\ faults < MaxFaults
  /\ faults' = faults + 1
  /\ \E n \in {0, 1} :
       /\ effects' = [effects EXCEPT ![job[c].op] = @ + n]
       /\ cuts' = [cuts EXCEPT ![job[c].op] = @ + n]
  /\ Goto(c, "idle")
  /\ UNCHANGED <<handlers, rows, job, made, requests, ran, answers, crossed>>

(* append_event: the row is inserted, or the unique index refuses it and   *)
(* ConflictError is raised.                                                *)
InsertRow(c) ==
  LET o == job[c].op IN
  /\ rows' = [rows EXCEPT ![o] = made[c]]
  /\ answers' = answers \cup {<<o, made[c]>>}
  /\ crossed' = [d \in Caller |-> crossed[d] \cup {o}]

RecordOverwrites(c) ==
  /\ pc[c] = "record"
  /\ InsertRow(c)
  /\ Goto(c, "idle")
  /\ UNCHANGED <<handlers, job, made, requests, ran, faults, effects, cuts>>

RecordNothing(c) ==
  /\ pc[c] = "record"
  /\ Goto(c, "idle")
  /\ UNCHANGED <<handlers, rows, job, made, requests, ran, faults, effects, answers, cuts, crossed>>

Record(c) ==
  /\ pc[c] = "record"
  /\ \/ rows[job[c].op] = 0 /\ InsertRow(c)
        /\ UNCHANGED cuts
     \/ rows[job[c].op] # 0 /\ cuts' = [cuts EXCEPT ![job[c].op] = @ + 1]
        /\ UNCHANGED <<rows, answers, crossed>>
  /\ Goto(c, "idle")
  /\ UNCHANGED <<handlers, job, made, requests, ran, faults, effects>>

(* The insert fails (the run does not exist, the file is locked) or the    *)
(* process dies: the effect stays, the row is not there.                   *)
CutShort(c) ==
  /\ pc[c] = "record" /\ faults < MaxFaults
  /\ faults' = faults + 1
  /\ cuts' = [cuts EXCEPT ![job[c].op] = @ + 1]
  /\ Goto(c, "idle")
  /\ UNCHANGED <<handlers, rows, job, made, requests, ran, effects, answers, crossed>>

Next ==
  \/ \E t \in Tool : Register(t)
  \/ \E c \in Caller :
       \/ \E o \in Op, t \in Tool : Lookup(c, o, t)
       \/ NotRegistered(c) \/ HandlerReturns(c) \/ HandlerRaises(c)
       \/ Record(c) \/ CutShort(c)

Spec == Init /\ [][Next]_vars

-----------------------------------------------------------------------------
(* Rows and answers hold outputs that a handler has produced.              *)
TypeOK ==
  /\ handlers \subseteq Tool
  /\ rows \in [Op -> 0..ran]
  /\ pc \in [Caller -> {"idle", "run", "record"}]
  /\ job \in [Caller -> Jobs]
  /\ made \in [Caller -> 0..ran]
  /\ requests \in 0..MaxRequests /\ ran \in Nat /\ faults \in 0..MaxFaults
  /\ effects \in [Op -> Nat] /\ cuts \in [Op -> Nat]
  /\ answers \subseteq Op \X (1..ran)
  /\ crossed \in [Caller -> SUBSET Op]

(* Every answer ever returned for an operation id is the output in its     *)
(* row: calls that overlap, repeat or fail never hand out two answers.     *)
AnswersAgree == \A a \in answers : rows[a[1]] = a[2]

(* A handler runs for an id that has its row only on behalf of a caller    *)
(* that looked before the row was there: a later call replays.             *)
RerunOnlyOverlapping ==
  \A c \in Caller :
    pc[c] # "idle" /\ rows[job[c].op] # 0 => job[c].op \in crossed[c]

Recording(o) == {c \in Caller : pc[c] = "record" /\ job[c].op = o}

(* Of all the effects of an operation at most one has the row; every other *)
(* is of a call that is about to record, was cut short or was refused by   *)
(* the unique index: there is no other way to run a tool twice.            *)
EffectsAccounted ==
  \A o \in Op :
    effects[o] = cuts[o] + Cardinality(Recording(o)) + (IF rows[o] = 0 THEN 0 ELSE 1)
=============================================================================
