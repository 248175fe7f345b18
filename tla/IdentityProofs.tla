--------------------------- MODULE IdentityProofs ---------------------------
(***************************************************************************)
(* Proofs about Identity, for any workers, names and bounds.  The          *)
(* invariant IInv adds to the stated ones what a worker between two of its *)
(* connections still knows: users and sessions are never deleted, so the   *)
(* name it found is taken and the session it made or checked exists.       *)
(***************************************************************************)
EXTENDS Identity, TLAPS

Carried(w) ==
  /\ pc[w] \in {"find user", "insert user"} => job[w].name \in Names
  /\ pc[w] = "insert session" => Taken(job[w].name) /\ job[w].event = "auth.login_success"
  /\ pc[w] = "record" /\ job[w].event = "auth.login_success" =>
       /\ job[w].by \in 1..issued
       /\ job[w].name = user[job[w].by]
       /\ Taken(job[w].name)
  /\ pc[w] \in {"work", "revoke"} => job[w].by \in delivered

IInv ==
  /\ TypeOK /\ OneTenant /\ UsernamesUnique /\ SignInsRecorded
  /\ \A w \in Workers : Carried(w)

(* The jobs a request carries are jobs.                                    *)
LEMMA JobTyped ==
  ASSUME NEW n \in Names \cup {Nobody}, NEW r \in Role, NEW b \in Origins, NEW e \in Events
  PROVE  Job(n, r, b, e) \in Jobs
BY DEF Job, Jobs

LEMMA RequestsTyped ==
  /\ NoJob \in Jobs
  /\ \A n \in Names, r \in Role, b \in Origins : Creation(n, r, b) \in Jobs
  /\ \A n \in Names \cup {Nobody}, b \in Origins : SignIn(n, b) \in Jobs
  /\ \A e \in Events : Refusal(e) \in Jobs
  /\ \A b \in Origins : OnBehalf(b) \in Jobs
<1>1. Nobody \in Origins /\ "admin" \in Role /\ {"auth.login_failed", "auth.login_success"} \subseteq Events
  BY DEF Origins, Role, Events
<1>2. QED
  BY <1>1, JobTyped DEF NoJob, Creation, SignIn, Refusal, OnBehalf

(* A worker that begins something: the others go on with what they do.     *)
LEMMA Began ==
  ASSUME TypeOK, NEW w \in Workers, NEW place \in Places, NEW j \in Jobs, Begin(w, place, j)
  PROVE  /\ pc' \in [Workers -> Places] /\ job' \in [Workers -> Jobs]
         /\ pc'[w] = place /\ job'[w] = j
         /\ \A v \in Workers \ {w} : pc'[v] = pc[v] /\ job'[v] = job[v]
         /\ up' = up /\ faults' = faults
BY DEF TypeOK, Begin

LEMMA Went ==
  ASSUME TypeOK, NEW w \in Workers, NEW place \in Places, Goto(w, place)
  PROVE  /\ pc' \in [Workers -> Places] /\ job' = job
         /\ pc'[w] = place
         /\ \A v \in Workers \ {w} : pc'[v] = pc[v]
         /\ up' = up /\ faults' = faults
BY DEF TypeOK, Goto

(* Every step keeps rows, workers and jobs among those that exist.         *)
LEMMA TypeStep ==
  ASSUME TypeOK, \A w \in Workers : Carried(w), [Next]_vars
  PROVE  TypeOK'
<1> USE IdentityBounds
<1>p. {"idle", "insert tenant", "find user", "insert user", "insert session", "record",
       "revoke", "work"} \subseteq Places
  BY DEF Places
<1>e. {"auth.login_success", "auth.login_failed", "auth.login_blocked",
       "auth.user_creation_blocked"} \subseteq Events
  BY DEF Events
<1>o. Nobody \in Origins /\ CommandLine \in Origins /\ Sessions \subseteq Origins
  BY DEF Origins
<1>j. NoJob \in Jobs
  BY RequestsTyped
<1>f. \A w \in Workers : job[w] \in Jobs
  BY DEF TypeOK
<1>d. delivered \subseteq Sessions
  BY DEF TypeOK, Sessions
<1>1. ASSUME NEW w \in Workers, BuildContainer(w) PROVE TypeOK'
  BY <1>1, <1>p, Went DEF BuildContainer, TypeOK, tables
<1>2. ASSUME NEW w \in Workers, InsertTenant(w) PROVE TypeOK'
  BY <1>2, <1>p DEF InsertTenant, TypeOK
<1>3. ASSUME NEW w \in Workers, FindUser(w) PROVE TypeOK'
  BY <1>3, <1>p, <1>j, Began, Went DEF FindUser, Return, TypeOK, tables
<1>4. ASSUME NEW w \in Workers, InsertUser(w) PROVE TypeOK'
  <2>1. Row(w) \in [name : Names, role : Role, by : Origins]
    BY <1>4 DEF InsertUser, At, Row, TypeOK, Carried, Jobs
  <2>2. QED
    BY <1>4, <2>1, <1>p, <1>j, Began DEF InsertUser, Return, TypeOK
<1>5. ASSUME NEW w \in Workers, InsertSession(w) PROVE TypeOK'
  <2>n. job[w].name \in Names \cup {Nobody}
    BY <1>f DEF Jobs
  <2>i. issued \in 0..MaxSessions /\ issued < MaxSessions
    BY <1>5 DEF InsertSession, TypeOK
  <2>1. issued + 1 \in Sessions /\ issued + 1 \in 0..MaxSessions /\ 1..issued \subseteq 1..(issued + 1)
    BY <2>i DEF Sessions
  <2>2. SignIn(job[w].name, issued + 1) \in Jobs
    BY <2>1, <2>n, <1>o, RequestsTyped
  <2>3. pc' \in [Workers -> Places] /\ job' \in [Workers -> Jobs] /\ up' = up /\ faults' = faults
    BY <1>5, <2>2, <1>p, Began DEF InsertSession
  <2>4. user' \in [Sessions -> Names \cup {Nobody}] /\ issued' = issued + 1
    BY <1>5, <2>1, <2>n DEF InsertSession, TypeOK
  <2>5. QED
    BY <1>5, <2>1, <2>3, <2>4 DEF InsertSession, TypeOK
<1>6. ASSUME NEW w \in Workers, RecordAttempt(w) PROVE TypeOK'
  <2>1. job[w].event \in Events /\ job[w].name \in Names \cup {Nobody} /\ job[w].by \in Origins
    BY DEF TypeOK, Jobs
  <2>2. job[w].event = "auth.login_success" => job[w].by \in 1..issued
    BY <1>6 DEF RecordAttempt, At, Carried
  <2>3. pc' \in [Workers -> Places] /\ job' \in [Workers -> Jobs] /\ up' = up /\ faults' = faults
    BY <1>6, <1>p, <1>j, Began DEF RecordAttempt, Return
  <2>4. audit' \subseteq [event : Events, name : Names \cup {Nobody}, by : Origins]
    BY <1>6, <2>1 DEF RecordAttempt, TypeOK
  <2>5. delivered \subseteq delivered' /\ delivered' \subseteq 1..issued
    BY <1>6, <2>2 DEF RecordAttempt, TypeOK
  <2>6. QED
    BY <1>6, <2>3, <2>4, <2>5 DEF RecordAttempt, TypeOK
<1>7. ASSUME NEW w \in Workers, Revoke(w) PROVE TypeOK'
  <2>1. job[w].by \in delivered
    BY <1>7 DEF Revoke, At, Carried
  <2>2. QED
    BY <1>7, <2>1, <1>p, <1>j, Began DEF Revoke, Return, TypeOK
<1>8. ASSUME NEW w \in Workers, Work(w) PROVE TypeOK'
  <2>1. job[w].by \in Sessions
    BY <1>8, <1>d DEF Work, At, Carried
  <2>2. worked' \in [Sessions -> Nat]
    BY <1>8, <2>1 DEF Work, TypeOK
  <2>3. QED
    BY <1>8, <2>2, <1>p, <1>j, Began DEF Work, Return, TypeOK, tables
<1>9. ASSUME NEW w \in Workers, Fail(w) PROVE TypeOK'
  <2>1. pc' \in [Workers -> Places] /\ job' \in [Workers -> Jobs] /\ faults' \in 0..MaxFaults
    <3>1. faults' \in 0..MaxFaults
      BY <1>9 DEF Fail, TypeOK
    <3>2. QED
      BY <1>9, <3>1, <1>p, <1>j DEF Fail, TypeOK
  <2>2. up' \subseteq Workers
    BY <1>9 DEF Fail, TypeOK
  <2>3. QED
    BY <1>9, <2>1, <2>2 DEF Fail, TypeOK, tables
<1>10. ASSUME NEW w \in Workers, NEW n \in Names, Authenticate(w, n) PROVE TypeOK'
  <2>1. SignIn(n, Nobody) \in Jobs /\ \A e \in Events : Refusal(e) \in Jobs
    BY <1>o, RequestsTyped
  <2>2. pc' \in [Workers -> Places] /\ job' \in [Workers -> Jobs] /\ up' = up /\ faults' = faults
    BY <1>10, <2>1, <1>p, <1>e, Began DEF Authenticate
  <2>3. QED
    BY <1>10, <2>2 DEF Authenticate, TypeOK, tables
<1>11. ASSUME NEW w \in Workers, NEW n \in Names, NEW r \in Role, AdmitCreation(w, n, r)
       PROVE  TypeOK'
  <2>1. PICK by \in {Nobody} \cup Sessions :
          \/ Begin(w, "find user", Creation(n, r, by))
          \/ Begin(w, "record", Refusal("auth.user_creation_blocked"))
    BY <1>11 DEF AdmitCreation
  <2>2. Creation(n, r, by) \in Jobs /\ Refusal("auth.user_creation_blocked") \in Jobs
    BY <1>o, <1>e, RequestsTyped
  <2>3. QED
    BY <1>11, <2>1, <2>2, <1>p, Began DEF AdmitCreation, TypeOK, tables
<1>12. ASSUME NEW w \in Workers, NEW n \in Names, NEW r \in Role, CommandCreate(w, n, r)
       PROVE  TypeOK'
  <2>1. Creation(n, r, CommandLine) \in Jobs
    BY <1>o, RequestsTyped
  <2>2. QED
    BY <1>12, <2>1, <1>p, Began DEF CommandCreate, TypeOK, tables
<1>13. ASSUME NEW w \in Workers, NEW s \in Sessions, Logout(w, s) \/ Use(w, s) PROVE TypeOK'
  <2>1. OnBehalf(s) \in Jobs
    BY <1>o, RequestsTyped
  <2>2. QED
    BY <1>13, <2>1, <1>p, Began DEF Logout, Use, TypeOK, tables
<1>14. ASSUME NEW s \in Sessions, Expire(s) PROVE TypeOK'
  BY <1>14 DEF Expire, TypeOK
<1>15. CASE UNCHANGED vars
  BY <1>15 DEF vars, tables, TypeOK
<1>16. QED
  BY <1>1, <1>2, <1>3, <1>4, <1>5, <1>6, <1>7, <1>8, <1>9, <1>10, <1>11, <1>12, <1>13, <1>14,
     <1>15 DEF Next

(* Users, sessions, rows and tokens are there for good.                    *)
Grows ==
  /\ users \subseteq users' /\ audit \subseteq audit' /\ delivered \subseteq delivered'
  /\ 1..issued \subseteq 1..issued'
  /\ \A s \in 1..issued : user'[s] = user[s]

LEMMA RowsGrow ==
  ASSUME TypeOK, [Next]_vars
  PROVE  Grows
<1>1. ASSUME NEW w \in Workers, InsertSession(w) PROVE Grows
  <2>1. issued' = issued + 1 /\ user' = [user EXCEPT ![issued + 1] = job[w].name]
    BY <1>1 DEF InsertSession
  <2>i. issued \in 0..MaxSessions
    BY DEF TypeOK
  <2>2. 1..issued \subseteq 1..issued' /\ issued + 1 \notin 1..issued /\ issued <= MaxSessions
    BY <2>1, <2>i, IdentityBounds
  <2>3. 1..issued \subseteq Sessions
    BY <2>i, <2>2, IdentityBounds DEF Sessions
  <2>4. \A s \in 1..issued : user'[s] = user[s]
    BY <2>1, <2>2, <2>3 DEF TypeOK
  <2>5. QED
    BY <1>1, <2>2, <2>4 DEF InsertSession, Grows
<1>2. ASSUME NEW w \in Workers, InsertUser(w) \/ RecordAttempt(w) PROVE Grows
  BY <1>2 DEF InsertUser, RecordAttempt, Grows
<1>3. CASE UNCHANGED <<users, audit, delivered, issued, user>>
  BY <1>3 DEF Grows
<1>4. QED
  BY <1>1, <1>2, <1>3 DEF Next, vars, tables, BuildContainer, InsertTenant, FindUser, Revoke, Work, Fail,
     Authenticate, AdmitCreation, CommandCreate, Logout, Use, Expire

LEMMA TenantStep ==
  ASSUME OneTenant, [Next]_vars
  PROVE  OneTenant'
<1>1. ASSUME NEW w \in Workers, BuildContainer(w) PROVE OneTenant'
  BY <1>1 DEF BuildContainer, OneTenant, tables, Goto
<1>2. ASSUME NEW w \in Workers, InsertTenant(w) PROVE OneTenant'
  BY <1>2 DEF InsertTenant, OneTenant
<1>3. CASE tenants' = tenants /\ up' \subseteq up
  BY <1>3 DEF OneTenant
<1>4. QED
  BY <1>1, <1>2, <1>3 DEF Next, vars, tables, FindUser, InsertUser, InsertSession, RecordAttempt, Revoke,
     Work, Fail, Authenticate, AdmitCreation, CommandCreate, Logout, Use, Expire, Return, Begin, Goto

LEMMA NameStep ==
  ASSUME UsernamesUnique, [Next]_vars
  PROVE  UsernamesUnique'
<1>1. ASSUME NEW w \in Workers, InsertUser(w) PROVE UsernamesUnique'
  <2>1. Row(w).name = job[w].name
    BY DEF Row
  <2>2. CASE Taken(job[w].name)
    BY <1>1, <2>2 DEF InsertUser, UsernamesUnique
  <2>3. CASE ~Taken(job[w].name)
    <3>1. users' = users \cup {Row(w)} /\ \A u \in users : u.name # Row(w).name
      BY <1>1, <2>1, <2>3 DEF InsertUser, Taken
    <3>2. QED
      BY <3>1 DEF UsernamesUnique
  <2>4. QED
    BY <2>2, <2>3
<1>2. CASE users' = users
  BY <1>2 DEF UsernamesUnique
<1>3. QED
  BY <1>1, <1>2 DEF Next, vars, tables, BuildContainer, InsertTenant, FindUser, InsertSession,
     RecordAttempt, Revoke, Work, Fail, Authenticate, AdmitCreation, CommandCreate, Logout, Use, Expire

LEMMA RecordStep ==
  ASSUME TypeOK, SignInsRecorded, \A w \in Workers : Carried(w), [Next]_vars
  PROVE  SignInsRecorded'
<1>g. Grows /\ delivered \subseteq 1..issued
  BY RowsGrow DEF TypeOK
<1>1. ASSUME NEW w \in Workers, RecordAttempt(w) PROVE SignInsRecorded'
  <2> DEFINE row == [event |-> job[w].event, name |-> job[w].name, by |-> job[w].by]
  <2>1. /\ audit' = audit \cup {row}
        /\ delivered' \subseteq delivered \cup {job[w].by}
        /\ job[w].by \in delivered' \ delivered => job[w].event = "auth.login_success"
        /\ UNCHANGED <<users, issued, user>>
    BY <1>1 DEF RecordAttempt
  <2>2. job[w].event = "auth.login_success" =>
          job[w].by \in 1..issued /\ job[w].name = user[job[w].by] /\ Taken(job[w].name)
    BY <1>1 DEF RecordAttempt, At, Carried
  <2>3. ASSUME NEW s \in delivered'
        PROVE  [event |-> "auth.login_success", name |-> user'[s], by |-> s] \in audit'
    BY <2>1, <2>2 DEF SignInsRecorded
  <2>4. ASSUME NEW r \in audit', r.event = "auth.login_success"
        PROVE  r.by \in 1..issued' /\ r.name = user'[r.by] /\ Taken(r.name)'
    BY <2>1, <2>2, <2>4 DEF SignInsRecorded, Taken
  <2>5. QED
    BY <2>3, <2>4 DEF SignInsRecorded
<1>2. CASE audit' = audit /\ delivered' = delivered
  BY <1>2, <1>g DEF SignInsRecorded, Grows, Taken
<1>3. QED
  BY <1>1, <1>2 DEF Next, vars, tables, BuildContainer, InsertTenant, FindUser, InsertUser, InsertSession,
     Revoke, Work, Fail, Authenticate, AdmitCreation, CommandCreate, Logout, Use, Expire

(* What a worker carries from one connection to the next stays true while  *)
(* it waits, and is true when it is taken up.                              *)
LEMMA CarriedWaits ==
  ASSUME Grows, NEW v \in Workers, Carried(v), pc'[v] = pc[v], job'[v] = job[v]
  PROVE  Carried(v)'
BY DEF Grows, Carried, Taken

LEMMA CarriedIdle ==
  ASSUME NEW v \in Workers, pc'[v] \in {"idle", "insert tenant"}
  PROVE  Carried(v)'
BY DEF Carried

LEMMA CarriedBegun ==
  ASSUME TypeOK, Grows, NEW v \in Workers, Carried(v),
         NEW w \in Workers, NEW place \in Places, NEW j \in Jobs, Begin(w, place, j),
         place \in {"find user", "insert user"} => j.name \in Names,
         place = "insert session" => Taken(j.name) /\ j.event = "auth.login_success",
         place = "record" => j.event # "auth.login_success",
         place \in {"work", "revoke"} => j.by \in delivered
  PROVE  Carried(v)'
<1>1. /\ pc'[w] = place /\ job'[w] = j
      /\ v # w => pc'[v] = pc[v] /\ job'[v] = job[v]
  BY Began
<1>2. CASE v # w
  BY <1>1, <1>2, CarriedWaits
<1>3. CASE v = w
  <2>1. pc'[v] = place /\ job'[v] = j
    BY <1>1, <1>3
  <2>2. place \in {"find user", "insert user"} => job'[v].name \in Names
    BY <2>1
  <2>3. place = "insert session" => Taken(job[v].name)' /\ job'[v].event = "auth.login_success"
    BY <2>1 DEF Taken, Grows
  <2>4. place = "record" => job'[v].event # "auth.login_success"
    BY <2>1
  <2>5. place \in {"work", "revoke"} => job'[v].by \in delivered'
    BY <2>1 DEF Grows
  <2>6. QED
    BY <2>1, <2>2, <2>3, <2>4, <2>5 DEF Carried
<1>4. QED
  BY <1>2, <1>3

LEMMA CarriedStep ==
  ASSUME TypeOK, \A w \in Workers : Carried(w), [Next]_vars
  PROVE  \A v \in Workers : Carried(v)'
<1> SUFFICES ASSUME NEW v \in Workers PROVE Carried(v)'
  OBVIOUS
<1>g. Grows
  BY RowsGrow
<1>w. pc'[v] = pc[v] /\ job'[v] = job[v] => Carried(v)'
  BY <1>g, CarriedWaits
<1>p. {"idle", "insert tenant", "find user", "insert user", "insert session", "record",
       "revoke", "work"} \subseteq Places
  BY DEF Places
<1>o. Nobody \in Origins /\ CommandLine \in Origins /\ Sessions \subseteq Origins
  BY DEF Origins
<1>j. NoJob \in Jobs
  BY RequestsTyped
<1>1. ASSUME NEW w \in Workers, BuildContainer(w) \/ InsertTenant(w) \/ Fail(w) PROVE Carried(v)'
  BY <1>1, <1>w, CarriedIdle DEF BuildContainer, InsertTenant, Fail, Goto, TypeOK
<1>2. ASSUME NEW w \in Workers, FindUser(w) PROVE Carried(v)'
  <2>1. CASE v # w
    BY <1>2, <2>1, <1>w, <1>p, <1>j, Began, Went DEF FindUser, Return
  <2>2. CASE v = w /\ pc'[w] = "idle"
    BY <2>2, CarriedIdle
  <2>3. CASE v = w /\ pc'[w] # "idle"
    <3>1. pc'[v] = "insert user" /\ job'[v] = job[v]
      BY <1>2, <2>3, <1>p, <1>j, Began, Went DEF FindUser, Return
    <3>2. job[v].name \in Names
      BY <1>2, <2>3 DEF FindUser, At, Carried
    <3>3. QED
      BY <3>1, <3>2 DEF Carried
  <2>4. QED
    BY <2>1, <2>2, <2>3
<1>3. ASSUME NEW w \in Workers, InsertUser(w) \/ RecordAttempt(w) \/ Revoke(w) \/ Work(w)
      PROVE  Carried(v)'
  <2>1. Return(w)
    BY <1>3 DEF InsertUser, RecordAttempt, Revoke, Work
  <2>2. QED
    BY <2>1, <1>w, <1>p, <1>j, Began, CarriedIdle DEF Return
<1>4. ASSUME NEW w \in Workers, InsertSession(w) PROVE Carried(v)'
  <2>1. job[w].name \in Names \cup {Nobody} /\ issued \in 0..MaxSessions /\ issued < MaxSessions
    BY <1>4 DEF InsertSession, TypeOK, Jobs
  <2>2. issued + 1 \in Sessions /\ issued + 1 \in 1..(issued + 1)
    BY <2>1, IdentityBounds DEF Sessions
  <2>3. SignIn(job[w].name, issued + 1) \in Jobs
    BY <2>1, <2>2, <1>o, RequestsTyped
  <2>4. /\ pc'[w] = "record" /\ job'[w] = SignIn(job[w].name, issued + 1)
        /\ v # w => pc'[v] = pc[v] /\ job'[v] = job[v]
    BY <1>4, <2>3, <1>p, Began DEF InsertSession
  <2>5. CASE v # w
    BY <2>4, <2>5, <1>w
  <2>6. CASE v = w
    <3>1. job'[v].by = issued + 1 /\ job'[v].name = job[w].name
      BY <2>4, <2>6 DEF SignIn, Job
    <3>2. issued' = issued + 1 /\ user'[issued + 1] = job[w].name
      BY <1>4, <2>2 DEF InsertSession, TypeOK
    <3>3. Taken(job[v].name)'
      <4>1. Taken(job[w].name)
        BY <1>4 DEF InsertSession, At, Carried
      <4>2. QED
        BY <4>1, <3>1, <1>g DEF Grows, Taken
    <3>4. pc'[v] = "record"
      BY <2>4, <2>6
    <3>5. job'[v].by \in 1..issued' /\ job'[v].name = user'[job'[v].by]
      BY <3>1, <3>2, <2>2
    <3>6. QED
      BY <3>3, <3>4, <3>5 DEF Carried
  <2>7. QED
    BY <2>5, <2>6
<1>5. ASSUME NEW w \in Workers, NEW n \in Names, Authenticate(w, n) PROVE Carried(v)'
  <2>1. SignIn(n, Nobody) \in Jobs /\ \A e \in Events : Refusal(e) \in Jobs
    BY <1>o, RequestsTyped
  <2>2. ASSUME NEW e \in {"auth.login_blocked", "auth.login_failed"}, Begin(w, "record", Refusal(e))
        PROVE  Carried(v)'
    <3>1. Refusal(e) \in Jobs
      BY <2>1 DEF Events
    <3>2. Refusal(e).event # "auth.login_success"
      BY DEF Refusal, Job
    <3>3. QED
      BY <2>2, <3>1, <3>2, <1>g, <1>p, CarriedBegun
  <2>3. ASSUME Taken(n), Begin(w, "insert session", SignIn(n, Nobody)) PROVE Carried(v)'
    <3>1. SignIn(n, Nobody).name = n /\ SignIn(n, Nobody).event = "auth.login_success"
      BY DEF SignIn, Job
    <3>2. QED
      BY <2>1, <2>3, <3>1, <1>g, <1>p, CarriedBegun
  <2>4. QED
    BY <1>5, <2>2, <2>3 DEF Authenticate
<1>6. ASSUME NEW w \in Workers, NEW n \in Names, NEW r \in Role,
             AdmitCreation(w, n, r) \/ CommandCreate(w, n, r)
      PROVE  Carried(v)'
  <2>1. PICK by \in Origins :
          \/ Begin(w, "find user", Creation(n, r, by))
          \/ Begin(w, "record", Refusal("auth.user_creation_blocked"))
    BY <1>6, <1>o DEF AdmitCreation, CommandCreate
  <2>2. /\ Creation(n, r, by) \in Jobs /\ Creation(n, r, by).name = n
        /\ Refusal("auth.user_creation_blocked") \in Jobs
        /\ Refusal("auth.user_creation_blocked").event # "auth.login_success"
    BY RequestsTyped DEF Creation, Refusal, Job, Events
  <2>3. QED
    BY <2>1, <2>2, <1>g, <1>p, CarriedBegun
<1>7. ASSUME NEW w \in Workers, NEW s \in Sessions, Logout(w, s) \/ Use(w, s) PROVE Carried(v)'
  <2>1. OnBehalf(s) \in Jobs /\ OnBehalf(s).by = s
    BY <1>o, RequestsTyped DEF OnBehalf, Creation, Job
  <2>2. s \in delivered /\ (Begin(w, "revoke", OnBehalf(s)) \/ Begin(w, "work", OnBehalf(s)))
    BY <1>7 DEF Logout, Use, Valid
  <2>3. QED
    BY <2>1, <2>2, <1>g, <1>p, CarriedBegun
<1>8. CASE UNCHANGED <<pc, job>>
  BY <1>8, <1>w
<1>9. QED
  BY <1>1, <1>2, <1>3, <1>4, <1>5, <1>6, <1>7, <1>8 DEF Next, vars, Expire

LEMMA IdentityInit == Init => IInv
<1> SUFFICES ASSUME Init PROVE IInv
  OBVIOUS
<1>1. TypeOK
  BY RequestsTyped, IdentityBounds DEF Init, TypeOK, Places
<1>2. OneTenant /\ UsernamesUnique /\ SignInsRecorded
  BY DEF Init, OneTenant, UsernamesUnique, SignInsRecorded
<1>3. \A w \in Workers : Carried(w)
  BY DEF Init, Carried
<1>4. QED
  BY <1>1, <1>2, <1>3 DEF IInv

LEMMA IdentityStep == IInv /\ [Next]_vars => IInv'
BY TypeStep, TenantStep, NameStep, RecordStep, CarriedStep DEF IInv

LEMMA IdentityInvariant == Spec => []IInv
BY IdentityInit, IdentityStep, PTL DEF Spec

(* Rows, workers and jobs are always among those that exist.               *)
THEOREM IdentityTypes == Spec => []TypeOK
<1>1. IInv => TypeOK
  BY DEF IInv
<1>2. QED
  BY <1>1, IdentityInvariant, PTL

(* However many processes start at once (ensure_default_tenant), there is  *)
(* one tenant.                                                             *)
THEOREM TenantIsOne == Spec => []OneTenant
<1>1. IInv => OneTenant
  BY DEF IInv
<1>2. QED
  BY <1>1, IdentityInvariant, PTL

(* However many creations of a name overlap (create_local_user), there is  *)
(* one user of that name.                                                  *)
THEOREM OneUserPerName == Spec => []UsernamesUnique
<1>1. IInv => UsernamesUnique
  BY DEF IInv
<1>2. QED
  BY <1>1, IdentityInvariant, PTL

(* Every token a client has is the token of a recorded sign-in.            *)
THEOREM TokensRecorded == Spec => []SignInsRecorded
<1>1. IInv => SignInsRecorded
  BY DEF IInv
<1>2. QED
  BY <1>1, IdentityInvariant, PTL

(* A revoked session that no request is past the check of is never used    *)
(* again, whatever else is going on.                                       *)
LEMMA DrainStep ==
  ASSUME TypeOK, [Next]_vars, NEW s \in revoked, Past(s) = {}
  PROVE  Past(s)' = {} /\ worked'[s] = worked[s]
<1> DEFINE Drained == Past(s)' = {} /\ worked'[s] = worked[s]
<1>i. \A v \in Workers : ~(pc[v] = "work" /\ job[v].by = s)
  BY DEF Past
<1>p. {"idle", "insert tenant", "find user", "insert user", "insert session", "record",
       "revoke", "work"} \subseteq Places
  BY DEF Places
<1>1. ASSUME NEW w \in Workers, Work(w) PROVE Drained
  <2>1. job[w].by # s /\ Return(w)
    BY <1>1, <1>i DEF Work, At
  <2>2. worked'[s] = worked[s]
    BY <1>1, <2>1 DEF Work, TypeOK
  <2>3. pc'[w] # "work" /\ \A v \in Workers \ {w} : pc'[v] = pc[v] /\ job'[v] = job[v]
    BY <2>1, <1>p, RequestsTyped, Began DEF Return
  <2>4. QED
    BY <2>2, <2>3, <1>i DEF Past
<1>2. ASSUME NEW w \in Workers, NEW t \in Sessions, Use(w, t) PROVE Drained
  <2>1. t # s
    BY <1>2 DEF Use, Valid
  <2>2. OnBehalf(t) \in Jobs /\ OnBehalf(t).by = t
    BY RequestsTyped DEF OnBehalf, Creation, Job, Origins
  <2>3. job'[w].by # s /\ \A v \in Workers \ {w} : pc'[v] = pc[v] /\ job'[v] = job[v]
    BY <1>2, <2>1, <2>2, <1>p, Began DEF Use
  <2>4. worked' = worked
    BY <1>2 DEF Use
  <2>5. QED
    BY <2>3, <2>4, <1>i DEF Past
<1>3. ASSUME worked' = worked, \A v \in Workers : (pc'[v] = pc[v] /\ job'[v] = job[v]) \/ pc'[v] # "work"
      PROVE  Drained
  BY <1>3, <1>i DEF Past
<1>4. ASSUME NEW w \in Workers, InsertUser(w) \/ RecordAttempt(w) \/ Revoke(w) PROVE Drained
  <2>1. Return(w) /\ worked' = worked
    BY <1>4 DEF InsertUser, RecordAttempt, Revoke
  <2>2. \A v \in Workers : (pc'[v] = pc[v] /\ job'[v] = job[v]) \/ pc'[v] # "work"
    BY <2>1, <1>p, RequestsTyped, Began DEF Return
  <2>3. QED
    BY <2>1, <2>2, <1>3
<1>5. ASSUME NEW w \in Workers,
             BuildContainer(w) \/ InsertTenant(w) \/ FindUser(w) \/ InsertSession(w) \/ Fail(w)
      PROVE  Drained
  <2>1. worked' = worked
    BY <1>5 DEF BuildContainer, InsertTenant, FindUser, InsertSession, Fail, tables
  <2>2. \A v \in Workers : (pc'[v] = pc[v] /\ job'[v] = job[v]) \/ pc'[v] # "work"
    BY <1>5 DEF BuildContainer, InsertTenant, FindUser, InsertSession, Fail, TypeOK, Goto, Return, Begin
  <2>3. QED
    BY <2>1, <2>2, <1>3
<1>6. ASSUME NEW w \in Workers, NEW n \in Names,
             \/ Authenticate(w, n)
             \/ \E r \in Role : AdmitCreation(w, n, r) \/ CommandCreate(w, n, r)
      PROVE  Drained
  <2>1. worked' = worked
    BY <1>6 DEF Authenticate, AdmitCreation, CommandCreate
  <2>2. \A v \in Workers : (pc'[v] = pc[v] /\ job'[v] = job[v]) \/ pc'[v] # "work"
    BY <1>6 DEF Authenticate, AdmitCreation, CommandCreate, TypeOK, Begin
  <2>3. QED
    BY <2>1, <2>2, <1>3
<1>7. ASSUME NEW w \in Workers, NEW t \in Sessions, Logout(w, t) PROVE Drained
  <2>1. worked' = worked
    BY <1>7 DEF Logout
  <2>2. \A v \in Workers : (pc'[v] = pc[v] /\ job'[v] = job[v]) \/ pc'[v] # "work"
    BY <1>7 DEF Logout, TypeOK, Begin
  <2>3. QED
    BY <2>1, <2>2, <1>3
<1>8. CASE UNCHANGED <<pc, job, worked>>
  BY <1>8, <1>3
<1>9. QED
  BY <1>1, <1>2, <1>4, <1>5, <1>6, <1>7, <1>8 DEF Next, vars, Expire

(* Sign-out is final once the requests under way are done: the action      *)
(* property RevokedDrains for any workers, names and bounds.               *)
THEOREM SignOutDrains == Spec => RevokedDrains
<1>1. IInv /\ [Next]_vars =>
        [\A s \in revoked : Past(s) = {} => Past(s)' = {} /\ worked'[s] = worked[s]]_vars
  BY DrainStep DEF IInv
<1>2. QED
  BY <1>1, IdentityInvariant, PTL DEF Spec, RevokedDrains

-----------------------------------------------------------------------------
(* A worker that moves and leaves the users alone begins no creation for   *)
(* nobody.                                                                 *)
LEMMA NoneBegun ==
  ASSUME NEW w \in Workers, users' = users, Bootstrapping = {},
         \A v \in Workers \ {w} : pc'[v] = pc[v] /\ job'[v] = job[v],
         \/ pc'[w] \notin {"find user", "insert user"}
         \/ job'[w].by # Nobody
  PROVE  Bootstrapping' = {} /\ \A u \in users' \ users : u.by # Nobody
BY DEF Bootstrapping

(* Only a creation that found no users is admitted for nobody, and it      *)
(* stays so until it has inserted.                                         *)
LEMMA BootstrapStep ==
  ASSUME TypeOK, [Next]_vars, users # {}, Bootstrapping = {}
  PROVE  Bootstrapping' = {} /\ \A u \in users' \ users : u.by # Nobody
<1> DEFINE Drained == Bootstrapping' = {} /\ \A u \in users' \ users : u.by # Nobody
<1>n. \A v \in Workers : pc[v] \in {"find user", "insert user"} => job[v].by # Nobody
  BY DEF Bootstrapping
<1>1. ASSUME NEW w \in Workers, InsertUser(w) PROVE Drained
  <2>1. Row(w).by # Nobody
    BY <1>1, <1>n DEF InsertUser, At, Row
  <2>2. \A u \in users' \ users : u.by # Nobody
    BY <1>1, <2>1 DEF InsertUser
  <2>3. pc'[w] = "idle" /\ \A v \in Workers \ {w} : pc'[v] = pc[v] /\ job'[v] = job[v]
    BY <1>1 DEF InsertUser, Return, Begin, TypeOK
  <2> QED
    BY <2>2, <2>3, <1>n DEF Bootstrapping
<1>2. ASSUME NEW w \in Workers, NEW n \in Names, NEW r \in Role,
             AdmitCreation(w, n, r) \/ CommandCreate(w, n, r)
      PROVE  Drained
  <2>1. PICK place \in Places, j \in Jobs : Begin(w, place, j) /\ (place = "record" \/ j.by # Nobody)
    <3>1. CASE AdmitCreation(w, n, r)
      <4>1. PICK by \in Sessions : \/ Begin(w, "find user", Creation(n, r, by))
                                   \/ Begin(w, "record", Refusal("auth.user_creation_blocked"))
        BY <3>1 DEF AdmitCreation
      <4>2. Creation(n, r, by).by = by /\ by # Nobody
        BY IdentityBounds DEF Creation, Job, Sessions, Nobody
      <4>3. /\ Creation(n, r, by) \in Jobs
            /\ Refusal("auth.user_creation_blocked") \in Jobs
        BY RequestsTyped DEF Origins, Events
      <4> QED
        BY <4>1, <4>2, <4>3 DEF Places
    <3>2. CASE CommandCreate(w, n, r)
      <4>1. Begin(w, "find user", Creation(n, r, CommandLine))
        BY <3>2 DEF CommandCreate
      <4>2. Creation(n, r, CommandLine).by # Nobody
        BY DEF Creation, Job, CommandLine, Nobody
      <4>3. Creation(n, r, CommandLine) \in Jobs
        BY RequestsTyped DEF Origins
      <4> QED
        BY <4>1, <4>2, <4>3 DEF Places
    <3> QED
      BY <1>2, <3>1, <3>2
  <2>2. pc'[w] = place /\ job'[w] = j /\ users' = users
        /\ \A v \in Workers \ {w} : pc'[v] = pc[v] /\ job'[v] = job[v]
    BY <1>2, <2>1 DEF AdmitCreation, CommandCreate, Begin, TypeOK, tables
  <2> QED
    BY <2>1, <2>2, NoneBegun
<1>3. ASSUME NEW w \in Workers, FindUser(w) PROVE Drained
  <2>1. users' = users /\ job[w].by # Nobody
    BY <1>3, <1>n DEF FindUser, At, tables
  <2>2. pc'[w] = "idle" \/ job'[w] = job[w]
    BY <1>3 DEF FindUser, Return, Begin, Goto, TypeOK
  <2>3. \A v \in Workers \ {w} : pc'[v] = pc[v] /\ job'[v] = job[v]
    BY <1>3 DEF FindUser, Return, Begin, Goto, TypeOK
  <2> QED
    BY <2>1, <2>2, <2>3, NoneBegun
<1>4. ASSUME NEW w \in Workers,
             \/ BuildContainer(w) \/ InsertTenant(w) \/ InsertSession(w)
             \/ RecordAttempt(w) \/ Revoke(w) \/ Work(w) \/ Fail(w)
      PROVE  Drained
  <2>1. users' = users
    BY <1>4 DEF BuildContainer, InsertTenant, InsertSession, RecordAttempt, Revoke, Work, Fail, tables
  <2>2. pc'[w] \in {"idle", "insert tenant", "record"}
    BY <1>4 DEF BuildContainer, InsertTenant, InsertSession, RecordAttempt, Revoke, Work, Fail,
         Return, Begin, Goto, At, TypeOK
  <2>3. \A v \in Workers \ {w} : pc'[v] = pc[v] /\ job'[v] = job[v]
    BY <1>4 DEF BuildContainer, InsertTenant, InsertSession, RecordAttempt, Revoke, Work, Fail,
         Return, Begin, Goto, TypeOK
  <2> QED
    BY <2>1, <2>2, <2>3, NoneBegun
<1>5. ASSUME NEW w \in Workers,
             \/ \E n \in Names : Authenticate(w, n)
             \/ \E s \in Sessions : Logout(w, s) \/ Use(w, s)
      PROVE  Drained
  <2>1. users' = users
    BY <1>5 DEF Authenticate, Logout, Use, tables
  <2>2. pc'[w] \in {"record", "insert session", "revoke", "work"}
    BY <1>5 DEF Authenticate, Logout, Use, Begin, TypeOK
  <2>3. \A v \in Workers \ {w} : pc'[v] = pc[v] /\ job'[v] = job[v]
    BY <1>5 DEF Authenticate, Logout, Use, Begin, TypeOK
  <2> QED
    BY <2>1, <2>2, <2>3, NoneBegun
<1>6. CASE UNCHANGED <<users, pc, job>>
  BY <1>6, <1>n DEF Bootstrapping
<1> QED
  BY <1>1, <1>2, <1>3, <1>4, <1>5, <1>6 DEF Next, vars, tables, Expire

(* Bootstrap closes for good: the action property BootstrapDrains for any  *)
(* workers, names and bounds (require_admin_or_bootstrap).                 *)
THEOREM BootstrapCloses == Spec => BootstrapDrains
<1>1. IInv /\ [Next]_vars =>
        [users # {} /\ Bootstrapping = {} =>
           Bootstrapping' = {} /\ \A u \in users' \ users : u.by # Nobody]_vars
  BY BootstrapStep DEF IInv
<1>2. QED
  BY <1>1, IdentityInvariant, PTL DEF Spec, BootstrapDrains
=============================================================================
