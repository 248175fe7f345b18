--------------------------- MODULE BrowserSession ---------------------------
(***************************************************************************)
(* The product page's session and live stream, against the server's        *)
(* sessions and stream tickets.  The page's handlers are asynchronous: a   *)
(* handler sends a request with the session of that moment, and what it    *)
(* does with the reply it does to the session of the moment of the reply.  *)
(*                                                                         *)
(* The kinds of Work are the requests for runs: an action, a run's view,   *)
(* the queue.  A stream has the id of its ticket request.                  *)
(*                                                                         *)
(* Bounds: MaxSessions sign-ins, MaxCalls requests, MaxOut of them not yet *)
(* handled at one time, MaxFaults lost replies, dropped connections and    *)
(* expired tickets and sessions, MaxReloads reloads.                       *)
(***************************************************************************)
EXTENDS Integers, Sequences, FiniteSets

CONSTANTS Operations,   \* the requests for runs made besides the ones after a sign-in
          MaxSessions, MaxCalls, MaxOut, MaxFaults, MaxReloads

ASSUME BrowserBounds ==
  {MaxSessions, MaxCalls, MaxOut, MaxFaults, MaxReloads} \subseteq Nat

VARIABLES
  token,      \* state.sessionToken, 0 for none
  stored,     \* the token in localStorage, 0 for none
  source,     \* state.eventSource, 0 for null
  loaded,     \* restoreSession has begun
  page,       \* the number of reloads
  calls,      \* requests sent and not yet handled
  made,       \* the number of requests sent
  streams,    \* what has become of each EventSource
  \* server
  valid,      \* sessions neither revoked nor expired
  issued,     \* the number of sessions created
  tickets,    \* the tickets in _sse_tickets
  faults,
  \* history
  owner,      \* the session each ticket was asked for
  admitted,   \* how many connections each ticket has opened
  lapsed,     \* the tickets that expired before a connection took them
  overlap     \* two ticket requests of this page were outstanding at once

browser == <<token, stored, source, loaded, page, streams>>
requests == <<calls, made, owner, overlap>>
server == <<valid, issued, tickets, faults>>
vars == <<browser, requests, server, admitted, lapsed>>

Sessions == 1..MaxSessions
Ids == 1..MaxCalls
Work == {"act", "view", "queue"}
ASSUME BrowserOperations == Operations \subseteq Work
Kinds == Work \cup {"login", "logout", "ticket", "restore"}
Open == {"connecting", "live", "rejected"}

Init ==
  /\ token = 0 /\ source = 0 /\ loaded = FALSE /\ page = 0
  /\ issued \in {0, 1} \cap 0..MaxSessions      \* a first visit, or a later one
  /\ stored = issued /\ valid \in SUBSET (1..issued)
  /\ calls = {} /\ made = 0
  /\ streams = [i \in Ids |-> "none"]
  /\ tickets = {} /\ faults = 0
  /\ owner = [i \in Ids |-> 0] /\ admitted = [i \in Ids |-> 0]
  /\ lapsed = {} /\ overlap = FALSE

-----------------------------------------------------------------------------
Mine == {c \in calls : c.page = page}
Waiting(kind) == {c \in Mine : c.kind = kind}

(* The requests `done` are handled, and one of each of kinds is sent.      *)
Exchange(done, kinds, t) ==
  /\ made + Len(kinds) <= MaxCalls
  /\ made' = made + Len(kinds)
  /\ calls' = (calls \ done) \cup
       {[id |-> made + k, kind |-> kinds[k], token |-> t, page |-> page, reply |-> "none"] :
          k \in 1..Len(kinds)}
  /\ IF \E k \in 1..Len(kinds) : kinds[k] = "ticket"
     THEN /\ owner' = [i \in Ids |-> IF i > made /\ i <= made' /\ kinds[i - made] = "ticket"
                                     THEN t ELSE owner[i]]
          /\ overlap' = (overlap \/ Waiting("ticket") # {})
     ELSE UNCHANGED <<owner, overlap>>
  /\ Cardinality(calls') <= MaxOut

CloseStreamForgets == source' = 0 /\ UNCHANGED streams

(* closeEventStream.                                                       *)
CloseStream ==
  /\ source' = 0
  /\ streams' = IF source = 0 THEN streams ELSE [streams EXCEPT ![source] = "closed"]

(* applySession: the session is persisted, the stream is closed and a      *)
(* ticket asked for; `then` is what the caller goes on to request.         *)
ApplySession(c, then) ==
  /\ token' = c.token /\ stored' = c.token
  /\ CloseStream
  /\ Exchange({c}, <<"ticket", then>>, c.token)

ClearSessionKeeps(done) ==
  /\ token' = 0
  /\ CloseStream
  /\ Exchange(done, <<>>, 0)
  /\ UNCHANGED stored

(* clearSession.                                                           *)
ClearSession(done) ==
  /\ token' = 0 /\ stored' = 0
  /\ CloseStream
  /\ Exchange(done, <<>>, 0)

Stay == UNCHANGED <<token, stored, source, streams>>
Ignore(done) == Exchange(done, <<>>, 0) /\ Stay

-----------------------------------------------------------------------------
(* The page is loaded: restoreSession, after the health check.             *)
Restore ==
  /\ ~loaded /\ loaded' = TRUE
  /\ \/ stored = 0 /\ ClearSession({})
     \/ /\ stored # 0
        /\ Exchange({}, <<"restore">>, stored)
        /\ Stay
  /\ UNCHANGED <<page, server, admitted, lapsed>>

SubmitLogin ==
  /\ Exchange({}, <<"login">>, 0)
  /\ UNCHANGED <<browser, server, admitted, lapsed>>

(* The operator's requests, and those a live event leads to.               *)
SubmitWork(kind) ==
  /\ token # 0
  /\ Exchange({}, <<kind>>, token)
  /\ UNCHANGED <<browser, server, admitted, lapsed>>

SignOut ==
  /\ token # 0
  /\ Exchange({}, <<"logout">>, token)
  /\ UNCHANGED <<browser, server, admitted, lapsed>>

Handled(c) == c \in Mine /\ c.reply # "none" /\ UNCHANGED <<loaded, page, server, admitted, lapsed>>

OnLogin(c) ==
  /\ Handled(c) /\ c.kind = "login"
  /\ \/ c.reply = "ok" /\ ApplySession(c, "queue")
     \/ c.reply # "ok" /\ Ignore({c})

(* Whatever the reply: after a good one the page calls syncMetrics, which  *)
(* is defined nowhere, and the handler of that error clears the session.   *)
OnRestore(c) ==
  /\ Handled(c) /\ c.kind = "restore"
  /\ ClearSession({c})

(* A 401 clears whatever session there is; after an action the selected    *)
(* run, if any, is loaded, and after a run the queue, given a session.     *)
OnWork(c) ==
  /\ Handled(c) /\ c.kind \in Work
  /\ \/ c.reply = "refused" /\ ClearSession({c})
     \/ /\ c.reply = "ok" /\ c.kind # "queue" /\ token # 0
        /\ Exchange({c}, IF c.kind = "act" THEN <<"view">> ELSE <<"queue">>, token)
        /\ Stay
     \/ /\ c.reply = "failed" \/ (c.reply = "ok" /\ (c.kind # "view" \/ token = 0))
        /\ Ignore({c})

OnLogoutKeeps(c) ==
  /\ Handled(c) /\ c.kind = "logout"
  /\ \/ c.reply # "failed" /\ ClearSession({c})
     \/ c.reply = "failed" /\ Ignore({c})

OnLogout(c) == Handled(c) /\ c.kind = "logout" /\ ClearSession({c})

(* The rest of openEventStream: the source is made and remembered.         *)
OnTicket(c) ==
  /\ Handled(c) /\ c.kind = "ticket"
  /\ \/ /\ c.reply = "ok"
        /\ source' = c.id
        /\ streams' = [streams EXCEPT ![c.id] = "connecting"]
        /\ Exchange({c}, <<>>, 0)
        /\ UNCHANGED <<token, stored>>
     \/ c.reply # "ok" /\ Ignore({c})

(* The "auth" event: the stream the page remembers is closed, which need   *)
(* not be the one that was refused; that one will connect again.           *)
OnAuth(i) ==
  /\ streams[i] = "rejected"
  /\ token' = 0 /\ stored' = 0 /\ source' = 0
  /\ streams' = [j \in Ids |-> IF j = source THEN "closed"
                               ELSE IF j = i THEN "connecting" ELSE streams[j]]
  /\ UNCHANGED <<loaded, page, requests, server, admitted, lapsed>>

(* A reload forgets everything but localStorage.                           *)
Reload ==
  /\ page < MaxReloads /\ page' = page + 1
  /\ token' = 0 /\ source' = 0 /\ loaded' = FALSE
  /\ streams' = [i \in Ids |-> IF streams[i] \in Open THEN "closed" ELSE streams[i]]
  /\ calls' = {c \in calls : c.reply = "none"} /\ overlap' = FALSE
  /\ UNCHANGED <<stored, made, owner, server, admitted, lapsed>>

-----------------------------------------------------------------------------
(* A reply to a page that was reloaded since is dropped.                   *)
Answer(c, r) ==
  /\ calls' = (calls \ {c}) \cup (IF c.page = page THEN {r} ELSE {})
  /\ UNCHANGED <<made, owner, overlap>>

ServeLogin(c) ==
  /\ c \in calls /\ c.reply = "none" /\ c.kind = "login"
  /\ \/ /\ issued < MaxSessions
        /\ issued' = issued + 1 /\ valid' = valid \cup {issued + 1}
        /\ Answer(c, [c EXCEPT !.reply = "ok", !.token = issued + 1])
     \/ Answer(c, [c EXCEPT !.reply = "failed"]) /\ UNCHANGED <<issued, valid>>
  /\ UNCHANGED <<browser, tickets, faults, admitted, lapsed>>

ServeForgetsTicket(c) ==
  /\ c \in calls /\ c.reply = "none" /\ c.kind # "login"
  /\ Answer(c, [c EXCEPT !.reply = IF c.token \in valid THEN "ok" ELSE "refused"])
  /\ valid' = IF c.kind = "logout" THEN valid \ {c.token} ELSE valid
  /\ UNCHANGED <<browser, tickets, issued, faults, admitted, lapsed>>

(* Every other request passes require_principal first.                     *)
Serve(c) ==
  /\ c \in calls /\ c.reply = "none" /\ c.kind # "login"
  /\ Answer(c, [c EXCEPT !.reply = IF c.token \in valid THEN "ok" ELSE "refused"])
  /\ valid' = IF c.kind = "logout" THEN valid \ {c.token} ELSE valid
  /\ tickets' = IF c.kind = "ticket" /\ c.token \in valid THEN tickets \cup {c.id} ELSE tickets
  /\ UNCHANGED <<browser, issued, faults, admitted, lapsed>>

(* GET /events/stream: the ticket is taken whatever comes of it.           *)
AcceptKeepsTicket(i) ==
  /\ streams[i] = "connecting"
  /\ IF i \in tickets /\ owner[i] \in valid
     THEN /\ streams' = [streams EXCEPT ![i] = "live"]
          /\ admitted' = [admitted EXCEPT ![i] = @ + 1]
     ELSE streams' = [streams EXCEPT ![i] = "rejected"] /\ UNCHANGED admitted
  /\ UNCHANGED <<token, stored, source, loaded, page, requests, server, lapsed>>

Accept(i) ==
  /\ streams[i] = "connecting"
  /\ tickets' = tickets \ {i}
  /\ IF i \in tickets /\ owner[i] \in valid
     THEN /\ streams' = [streams EXCEPT ![i] = "live"]
          /\ admitted' = [admitted EXCEPT ![i] = @ + 1]
     ELSE streams' = [streams EXCEPT ![i] = "rejected"] /\ UNCHANGED admitted
  /\ UNCHANGED <<token, stored, source, loaded, page, requests, valid, issued, faults, lapsed>>

Fault == faults < MaxFaults /\ faults' = faults + 1

Expire(s) ==
  /\ Fault
  /\ s \in valid /\ valid' = valid \ {s}
  /\ UNCHANGED <<browser, requests, issued, tickets, admitted, lapsed>>

(* The network or the server fails the request, before or after serving it.*)
Lose(c) ==
  /\ Fault
  /\ c \in Mine /\ c.reply # "failed"
  /\ Answer(c, [c EXCEPT !.reply = "failed"])
  /\ UNCHANGED <<browser, valid, issued, tickets, admitted, lapsed>>

(* The connection drops: the EventSource connects again by itself.         *)
Drop(i) ==
  /\ Fault
  /\ streams[i] = "live"
  /\ streams' = [streams EXCEPT ![i] = "connecting"]
  /\ UNCHANGED <<token, stored, source, loaded, page, requests, valid, issued, tickets, admitted,
                 lapsed>>

ExpireTicket(i) ==
  /\ Fault
  /\ i \in tickets /\ tickets' = tickets \ {i} /\ lapsed' = lapsed \cup {i}
  /\ UNCHANGED <<browser, requests, valid, issued, admitted>>

-----------------------------------------------------------------------------
Reply(c) == OnLogin(c) \/ OnRestore(c) \/ OnWork(c) \/ OnLogout(c) \/ OnTicket(c)

Next ==
  \/ Restore \/ SubmitLogin \/ SignOut \/ Reload
  \/ \E k \in Operations : SubmitWork(k)
  \/ \E c \in calls : Reply(c) \/ ServeLogin(c) \/ Serve(c) \/ Lose(c)
  \/ \E i \in Ids : OnAuth(i) \/ Accept(i) \/ Drop(i) \/ ExpireTicket(i)
  \/ \E s \in Sessions : Expire(s)

Spec == Init /\ [][Next]_vars

(* The server answers what it is asked and the page's event loop handles   *)
(* what has arrived.                                                       *)
FairSpec ==
  /\ Spec
  /\ WF_vars(\E c \in calls : ServeLogin(c) \/ Serve(c) \/ Reply(c))

-----------------------------------------------------------------------------
(* Unless two ticket requests of the page were ever out together, every    *)
(* open stream is the one the page remembers and can close.                *)
OpenStreamsTracked ==
  ~overlap => \A i \in Ids : streams[i] \in Open => i = source

(* A ticket opens one connection, however often its stream reconnects.     *)
TicketSpentOnce == \A i \in Ids : admitted[i] <= 1

(* localStorage holds the session the page shows, and another only while   *)
(* the page shows none and the stored one is still to be looked up.        *)
ReloadResumes ==
  stored # token => token = 0 /\ (~loaded \/ Waiting("restore") # {})

(* Why a page loses the session it shows: the session has ended; a sign-   *)
(* out, of whatever session, or the lookup of the stored one was answered; *)
(* a request of another session was refused; or a stream was refused that  *)
(* had been connected before, whose ticket expired first or which is       *)
(* another session's.                                                      *)
SignOutAccounted ==
  [][token # 0 /\ token' = 0 /\ page' = page =>
       \/ token \notin valid
       \/ \E c \in Mine \ calls' :
            c.kind \in {"logout", "restore"} \/ (c.reply = "refused" /\ c.token # token)
       \/ \E i \in Ids : /\ streams[i] = "rejected" /\ streams'[i] # "rejected"
                         /\ admitted[i] > 0 \/ i \in lapsed \/ owner[i] # token]_vars

(* A sign-out the page has sent ends with another session or none.         *)
SignOutSettles ==
  \A s \in Sessions :
    (token = s /\ \E c \in Waiting("logout") : c.token = s) ~> token # s

(* A stored session that is still valid when its lookup is answered is the *)
(* session of the page once the answer is handled.                         *)
SessionRestored ==
  [][\A c \in Waiting("restore") :
       /\ c.reply = "ok" /\ c.token \in valid /\ page' = page
       /\ \A d \in calls' : d.id # c.id
       => token' = c.token]_vars
=============================================================================
