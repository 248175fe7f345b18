------------------------------ MODULE Identity ------------------------------
(***************************************************************************)
(* The tenant, the users and the sessions, as the threads of the server    *)
(* and the processes of the command line create and use them over one      *)
(* database.  A worker is one of those; a step is one connection.          *)
(*                                                                         *)
(* A refusal that leaves nothing behind is no step.  A rate limiter may    *)
(* refuse whenever it is asked (its state is in RateLimiter), the audit    *)
(* rows of refused attempts of a kind are one row without names, and a     *)
(* session outlives the request that creates it.                           *)
(*                                                                         *)
(* Bounds: MaxSessions sessions, MaxWork uses of each, MaxFaults requests  *)
(* cut short.                                                              *)
(***************************************************************************)
EXTENDS Integers, FiniteSets

CONSTANTS Workers, Names, MaxSessions, MaxWork, MaxFaults

ASSUME IdentityBounds ==
  MaxSessions \in Nat /\ MaxWork \in Nat /\ MaxFaults \in Nat

VARIABLES
  \* database
  tenants,    \* the rows of the default name, by the worker that inserted them
  users,      \* the rows of users
  issued,     \* the number of sessions
  user,       \* the name of the user of each session
  revoked, expired,
  audit,      \* rows of audit_events about sign-in and users
  \* workers
  up,         \* the workers whose container is built
  pc, job,    \* where each worker is, and for whom
  faults,
  \* history
  delivered,  \* sessions whose token the client has got
  worked      \* per session, how often it was used

tables == <<tenants, users, issued, user, revoked, expired, audit>>
vars == <<tables, up, pc, job, faults, delivered, worked>>

Sessions == 1..MaxSessions
Role == {"admin", "operator"}

(* Who asks: nobody known, the command line, or a session.                 *)
Nobody == 0
CommandLine == -1
Origins == {Nobody, CommandLine} \cup Sessions

Events == {"auth.login_success", "auth.login_failed", "auth.login_blocked",
           "auth.user_creation_blocked"}
Places == {"idle", "insert tenant", "find user", "insert user",
           "insert session", "record", "revoke", "work"}
Jobs == [name : Names \cup {Nobody}, role : Role, by : Origins, event : Events]

Job(n, r, b, e) == [name |-> n, role |-> r, by |-> b, event |-> e]
Creation(n, r, b) == Job(n, r, b, "auth.login_failed")
SignIn(n, s) == Job(n, "admin", s, "auth.login_success")
Refusal(e) == Job(Nobody, "admin", Nobody, e)
OnBehalf(s) == Creation(Nobody, "admin", s)
NoJob == OnBehalf(Nobody)

Init ==
  /\ tenants = {} /\ users = {} /\ issued = 0
  /\ user = [s \in Sessions |-> Nobody]
  /\ revoked = {} /\ expired = {} /\ audit = {}
  /\ up = {} /\ faults = 0
  /\ pc = [w \in Workers |-> "idle"]
  /\ job = [w \in Workers |-> NoJob]
  /\ delivered = {} /\ worked = [s \in Sessions |-> 0]

-----------------------------------------------------------------------------
Free(w) == w \in up /\ pc[w] = "idle"
At(w, place) == pc[w] = place
Goto(w, place) == pc' = [pc EXCEPT ![w] = place] /\ UNCHANGED <<up, job, faults>>
Begin(w, place, j) ==
  /\ pc' = [pc EXCEPT ![w] = place] /\ job' = [job EXCEPT ![w] = j]
  /\ UNCHANGED <<up, faults>>
Return(w) == Begin(w, "idle", NoJob)

Taken(n) == \E u \in users : u.name = n

ValidUnlessExpired(s) == s \in delivered /\ s \notin expired

(* require_principal, for a token the client has.                          *)
Valid(s) == s \in delivered /\ s \notin revoked /\ s \notin expired

IsAdmin(s) == \E u \in users : u.name = user[s] /\ u.role = "admin"

-----------------------------------------------------------------------------
(* build_container, up to the lookup of ensure_default_tenant, which every *)
(* later call of it repeats with the tenant there.                         *)
BuildContainer(w) ==
  /\ w \notin up /\ At(w, "idle")
  /\ \/ /\ tenants # {} /\ up' = up \cup {w}
        /\ UNCHANGED <<tables, pc, job, faults, delivered, worked>>
     \/ /\ tenants = {} /\ Goto(w, "insert tenant")
        /\ UNCHANGED <<tables, delivered, worked>>

InsertTenantTwice(w) ==
  /\ At(w, "insert tenant")
  /\ tenants' = tenants \cup {w} /\ up' = up \cup {w}
  /\ pc' = [pc EXCEPT ![w] = "idle"]
  /\ UNCHANGED <<users, issued, user, revoked, expired, audit, job, faults, delivered, worked>>

(* The name is unique: the process that comes second does not start.       *)
InsertTenant(w) ==
  /\ At(w, "insert tenant")
  /\ pc' = [pc EXCEPT ![w] = "idle"]
  /\ \/ tenants = {} /\ tenants' = {w} /\ up' = up \cup {w}
     \/ tenants # {} /\ UNCHANGED <<tenants, up>>
  /\ UNCHANGED <<users, issued, user, revoked, expired, audit, job, faults, delivered, worked>>

(* POST /auth/local/users: require_admin_or_bootstrap, then the limiter of *)
(* all creations.                                                          *)
AdmitCreationUnasked(w, n, r) ==
  /\ Free(w)
  /\ Begin(w, "find user", Creation(n, r, Nobody))
  /\ UNCHANGED <<tables, delivered, worked>>

AdmitCreation(w, n, r) ==
  /\ Free(w)
  /\ \E by \in {Nobody} \cup Sessions :
       /\ IF users = {} THEN by = Nobody
          ELSE by \in Sessions /\ Valid(by) /\ IsAdmin(by)
       /\ \/ Begin(w, "find user", Creation(n, r, by))
          \/ Begin(w, "record", Refusal("auth.user_creation_blocked"))
  /\ UNCHANGED <<tables, delivered, worked>>

(* The create-user command: no limiter and nobody to ask.                  *)
CommandCreate(w, n, r) ==
  /\ Free(w)
  /\ Begin(w, "find user", Creation(n, r, CommandLine))
  /\ UNCHANGED <<tables, delivered, worked>>

(* create_local_user: a name that exists is a conflict; then the password  *)
(* is hashed and the row inserted.                                         *)
FindUser(w) ==
  /\ At(w, "find user")
  /\ IF Taken(job[w].name) THEN Return(w) ELSE Goto(w, "insert user")
  /\ UNCHANGED <<tables, delivered, worked>>

Row(w) == [name |-> job[w].name, role |-> job[w].role, by |-> job[w].by]

InsertUserTwice(w) ==
  /\ At(w, "insert user")
  /\ users' = users \cup {Row(w)}
  /\ Return(w)
  /\ UNCHANGED <<tenants, issued, user, revoked, expired, audit, delivered, worked>>

(* usernames are unique: a name that has appeared since is a conflict too. *)
InsertUser(w) ==
  /\ At(w, "insert user")
  /\ users' = IF Taken(job[w].name) THEN users ELSE users \cup {Row(w)}
  /\ Return(w)
  /\ UNCHANGED <<tenants, issued, user, revoked, expired, audit, delivered, worked>>

-----------------------------------------------------------------------------
(* POST /auth/local/sessions, up to the password.                          *)
Authenticate(w, n) ==
  /\ Free(w)
  /\ \/ \E e \in {"auth.login_blocked", "auth.login_failed"} : Begin(w, "record", Refusal(e))
     \/ /\ Taken(n)
        /\ Begin(w, "insert session", SignIn(n, Nobody))
  /\ UNCHANGED <<tables, delivered, worked>>

(* The session exists before the row that tells of it.                     *)
InsertSession(w) ==
  /\ At(w, "insert session") /\ issued < MaxSessions
  /\ issued' = issued + 1 /\ user' = [user EXCEPT ![issued + 1] = job[w].name]
  /\ Begin(w, "record", SignIn(job[w].name, issued + 1))
  /\ UNCHANGED <<tenants, users, revoked, expired, audit, delivered, worked>>

RecordNothing(w) ==
  /\ At(w, "record")
  /\ delivered' = IF job[w].event = "auth.login_success" THEN delivered \cup {job[w].by}
                  ELSE delivered
  /\ Return(w)
  /\ UNCHANGED <<tables, worked>>

(* The row of the attempt; a good one then returns the token.              *)
RecordAttempt(w) ==
  /\ At(w, "record")
  /\ audit' = audit \cup {[event |-> job[w].event, name |-> job[w].name, by |-> job[w].by]}
  /\ delivered' = IF job[w].event = "auth.login_success" THEN delivered \cup {job[w].by}
                  ELSE delivered
  /\ Return(w)
  /\ UNCHANGED <<tenants, users, issued, user, revoked, expired, worked>>

-----------------------------------------------------------------------------
(* POST /auth/session/logout: the session is checked, then revoked.        *)
Logout(w, s) ==
  /\ Free(w) /\ Valid(s)
  /\ Begin(w, "revoke", OnBehalf(s))
  /\ UNCHANGED <<tables, delivered, worked>>

Revoke(w) ==
  /\ At(w, "revoke")
  /\ revoked' = revoked \cup {job[w].by}
  /\ Return(w)
  /\ UNCHANGED <<tenants, users, issued, user, expired, audit, delivered, worked>>

(* Any other handler: the session is checked, then the work is done.       *)
Use(w, s) ==
  /\ Free(w) /\ Valid(s) /\ worked[s] < MaxWork
  /\ Begin(w, "work", OnBehalf(s))
  /\ UNCHANGED <<tables, delivered, worked>>

Work(w) ==
  /\ At(w, "work")
  /\ worked' = [worked EXCEPT ![job[w].by] = @ + 1]
  /\ Return(w)
  /\ UNCHANGED <<tables, delivered>>

Expire(s) ==
  /\ s \in delivered \ expired
  /\ expired' = expired \cup {s}
  /\ UNCHANGED <<tenants, users, issued, user, revoked, audit, up, pc, job, faults, delivered, worked>>

(* A connection raises, or the process ends, with what was done committed. *)
Fail(w) ==
  /\ faults < MaxFaults /\ faults' = faults + 1
  /\ ~At(w, "idle")
  /\ pc' = [pc EXCEPT ![w] = "idle"] /\ job' = [job EXCEPT ![w] = NoJob]
  /\ up' \in {up, up \ {w}}
  /\ UNCHANGED <<tables, delivered, worked>>

-----------------------------------------------------------------------------
Next ==
  \/ \E w \in Workers :
       \/ BuildContainer(w) \/ InsertTenant(w)
       \/ FindUser(w) \/ InsertUser(w)
       \/ InsertSession(w) \/ RecordAttempt(w) \/ Revoke(w) \/ Work(w) \/ Fail(w)
       \/ \E n \in Names :
            \/ Authenticate(w, n)
            \/ \E r \in Role : AdmitCreation(w, n, r) \/ CommandCreate(w, n, r)
       \/ \E s \in Sessions : Logout(w, s) \/ Use(w, s)
  \/ \E s \in Sessions : Expire(s)

Spec == Init /\ [][Next]_vars

-----------------------------------------------------------------------------
(* Rows, workers and jobs are ones that exist.                             *)
TypeOK ==
  /\ tenants \subseteq Workers /\ users \subseteq [name : Names, role : Role, by : Origins]
  /\ issued \in 0..MaxSessions /\ user \in [Sessions -> Names \cup {Nobody}]
  /\ revoked \subseteq delivered /\ expired \subseteq delivered
  /\ delivered \subseteq 1..issued
  /\ audit \subseteq [event : Events, name : Names \cup {Nobody}, by : Origins]
  /\ up \subseteq Workers /\ faults \in 0..MaxFaults
  /\ pc \in [Workers -> Places] /\ job \in [Workers -> Jobs]
  /\ worked \in [Sessions -> Nat]

(* However many processes start at once on an empty database, and wherever *)
(* they stop, there is one tenant, and there is one once any has started.  *)
OneTenant ==
  /\ \A v, w \in tenants : v = w
  /\ up # {} => tenants # {}

(* Two creations of one name that both looked before either inserted leave *)
(* one user.                                                               *)
UsernamesUnique == \A t, u \in users : t.name = u.name => t = u

(* A client has a token only after the row of its sign-in: whatever is cut *)
(* short, a session without its row is one that nobody can use.            *)
SignInsRecorded ==
  /\ \A s \in delivered :
       [event |-> "auth.login_success", name |-> user[s], by |-> s] \in audit
  /\ \A r \in audit : r.event = "auth.login_success" =>
       r.by \in 1..issued /\ r.name = user[r.by] /\ Taken(r.name)

Past(s) == {w \in Workers : pc[w] = "work" /\ job[w].by = s}

(* Once the requests that had passed the check when a session was revoked  *)
(* are done, the session does no more.                                     *)
RevokedDrains ==
  [][\A s \in revoked : Past(s) = {} => Past(s)' = {} /\ worked'[s] = worked[s]]_vars

Bootstrapping ==
  {w \in Workers : pc[w] \in {"find user", "insert user"} /\ job[w].by = Nobody}

(* Once there is a user and the creations that were admitted before it are *)
(* done, no user is created without an administrator or the command line.  *)
BootstrapDrains ==
  [][users # {} /\ Bootstrapping = {} =>
       Bootstrapping' = {} /\ \A u \in users' \ users : u.by # Nobody]_vars

(* The first user exists: another is created for an administrator or by    *)
(* the command line.                                                       *)
AdminOnlyAfterFirst ==
  [][users # {} => \A u \in users' \ users : u.by # Nobody]_vars
=============================================================================
