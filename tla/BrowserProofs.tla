---------------------------- MODULE BrowserProofs ----------------------------
(***************************************************************************)
(* The page's session, its stream and its tickets, for any number of       *)
(* sessions, requests, faults and reloads.  The page's handlers are proved *)
(* about by their shape: which requests a handler has handled and sent,    *)
(* and whether it applies a session, clears one, opens a stream or leaves  *)
(* all of it as it is.                                                     *)
(***************************************************************************)
EXTENDS BrowserSession, TLAPS

Replies == {"none", "ok", "refused", "failed"}
Call == [id : Ids, kind : Kinds, token : Nat, page : Nat, reply : Replies]

TypeInv ==
  /\ {token, stored, source, page, issued} \subseteq Nat
  /\ made \in 0..MaxCalls
  /\ calls \subseteq Call
  /\ streams \in [Ids -> {"none", "closed"} \cup Open]
  /\ admitted \in [Ids -> Nat]
  /\ owner \in [Ids -> Nat]

(* A request is numbered when it is sent, and no two have one number.      *)
Numbered ==
  /\ \A c \in calls : c.id <= made /\ c.page <= page
  /\ \A c, d \in calls : c.id = d.id => c = d

CallInv == TypeInv /\ Numbered

(* What a handler does to the requests: some are handled, others sent.     *)
Exchanged(done, kinds, t) ==
  /\ made' \in 0..MaxCalls /\ made <= made' /\ page' = page
  /\ calls' \subseteq Call
  /\ calls \ done \subseteq calls'
  /\ \A c \in calls' : \/ c \in calls \ done
                       \/ /\ c.id > made /\ c.id <= made' /\ c.reply = "none"
                          /\ c.page = page /\ c.token = t
                          /\ \E k \in 1..Len(kinds) : c.id = made + k /\ c.kind = kinds[k]
  /\ \A k \in 1..Len(kinds) : \E c \in calls' : c.kind = kinds[k] /\ c.page = page
  /\ owner' \in [Ids -> Nat]
  /\ Numbered'

LEMMA ExchangeCalls ==
  ASSUME CallInv, NEW done \in SUBSET calls, NEW kinds \in Seq(Kinds), NEW t \in Nat,
         Exchange(done, kinds, t), page' = page
  PROVE  Exchanged(done, kinds, t)
<1> DEFINE new == {[id |-> made + k, kind |-> kinds[k], token |-> t, page |-> page, reply |-> "none"] :
                     k \in 1..Len(kinds)}
<1>1. Len(kinds) \in Nat /\ \A k \in 1..Len(kinds) : kinds[k] \in Kinds
  OBVIOUS
<1>2. made' = made + Len(kinds) /\ made' \in 0..MaxCalls /\ made <= made' /\ made \in Nat
  BY <1>1, BrowserBounds DEF Exchange, CallInv, TypeInv
<1>3. calls' = (calls \ done) \cup new
  BY DEF Exchange
<1> DEFINE sent(k) == [id |-> made + k, kind |-> kinds[k], token |-> t, page |-> page, reply |-> "none"]
<1>a. ASSUME NEW k \in 1..Len(kinds)
      PROVE  /\ sent(k) \in Call /\ sent(k) \in new
             /\ sent(k).id = made + k /\ sent(k).kind = kinds[k] /\ sent(k).reply = "none"
             /\ sent(k).page = page /\ sent(k).token = t
             /\ made + k > made /\ made + k <= made'
  <2>1. made + k > made /\ made + k <= made' /\ made + k \in Ids
    BY <1>1, <1>2, BrowserBounds DEF Ids
  <2>2. kinds[k] \in Kinds /\ page \in Nat
    BY <1>1 DEF CallInv, TypeInv
  <2>3. sent(k) \in new
    OBVIOUS
  <2>4. sent(k) \in Call
    BY <2>1, <2>2 DEF Call, Replies
  <2> QED
    BY <2>1, <2>3, <2>4
<1>b. \A c \in new : \E k \in 1..Len(kinds) : c = sent(k)
  OBVIOUS
<1> HIDE DEF new, sent
<1>4. \A c \in new : /\ c \in Call /\ c.id > made /\ c.id <= made' /\ c.reply = "none"
                     /\ c.page = page /\ c.token = t
                     /\ \E k \in 1..Len(kinds) : c.id = made + k /\ c.kind = kinds[k]
  BY <1>a, <1>b
<1>5. ASSUME NEW c \in new, NEW d \in new, c.id = d.id PROVE c = d
  <2>1. PICK k \in 1..Len(kinds) : c = sent(k)
    BY <1>b
  <2>2. PICK m \in 1..Len(kinds) : d = sent(m)
    BY <1>b
  <2>3. k = m
    BY <1>1, <1>2, <1>5, <1>a, <2>1, <2>2
  <2> QED
    BY <2>1, <2>2, <2>3
<1>6. \A k \in 1..Len(kinds) : \E c \in new : c.kind = kinds[k] /\ c.page = page
  BY <1>a
<1>7. owner' \in [Ids -> Nat]
  BY DEF Exchange, CallInv, TypeInv
<1>8. Numbered'
  <2>1. \A c \in calls \ done : c.id <= made /\ c.page <= page
    BY DEF CallInv, Numbered
  <2>2. \A c \in calls' : c.id <= made' /\ c.page <= page
    BY <1>2, <1>3, <1>4, <2>1 DEF CallInv, TypeInv, Call, Ids
  <2>3. \A c \in new, d \in calls \ done : c.id # d.id
    BY <1>2, <1>4, <2>1 DEF CallInv, TypeInv, Call, Ids
  <2>4. \A c, d \in calls \ done : c.id = d.id => c = d
    BY DEF CallInv, Numbered
  <2>5. \A c, d \in calls' : c.id = d.id => c = d
    BY <1>3, <1>5, <2>3, <2>4
  <2> QED
    BY <2>2, <2>5 DEF Numbered
<1> QED
  BY <1>2, <1>3, <1>4, <1>6, <1>7, <1>8 DEF CallInv, TypeInv, Exchanged

-----------------------------------------------------------------------------
(* The page's own steps: what they handle and send, and what becomes of    *)
(* the session and of the stream.                                          *)
PageStep ==
  \/ Restore \/ SubmitLogin \/ SignOut
  \/ \E k \in Operations : SubmitWork(k)
  \/ \E c \in calls : Reply(c)

Applied(done, kinds, t) ==
  /\ kinds = <<"ticket", "queue">> /\ CloseStream /\ token' = stored' /\ stored' = t
  /\ \E c \in Mine : /\ done = {c} /\ c.kind = "login" /\ c.reply = "ok" /\ t = c.token
Cleared(done, kinds) ==
  /\ kinds = <<>> /\ CloseStream /\ token' = 0 /\ stored' = 0
  /\ stored # 0 => \E c \in done : /\ c \in Mine
                                  /\ \/ c.kind \in {"restore", "logout"}
                                     \/ c.kind \in Work /\ c.reply = "refused"
Streaming(done, kinds) ==
  /\ kinds = <<>> /\ UNCHANGED <<token, stored, loaded>>
  /\ \E c \in Waiting("ticket") : /\ done = {c} /\ c.reply = "ok" /\ source' = c.id
                                  /\ streams' = [streams EXCEPT ![c.id] = "connecting"]
Staying(done, kinds, t) ==
  /\ UNCHANGED <<token, stored, source, streams>>
  /\ \A k \in 1..Len(kinds) : kinds[k] # "ticket" /\ (kinds[k] \in Work \cup {"logout"} => t = token)
  /\ \A c \in done : c.kind # "restore"
  /\ loaded' = loaded \/ kinds = <<"restore">>

Steps(done, kinds, t) ==
  /\ Exchange(done, kinds, t)
  /\ t \in {0, token, stored} \/ \E c \in calls : t = c.token
  /\ Applied(done, kinds, t) \/ Cleared(done, kinds) \/ Streaming(done, kinds) \/ Staying(done, kinds, t)

LEMMA OneKind ==
  ASSUME NEW k \in Kinds
  PROVE  <<k>> \in Seq(Kinds) /\ Len(<<k>>) = 1 /\ <<k>>[1] = k
OBVIOUS

LEMMA NoKind == <<>> \in Seq(Kinds) /\ Len(<<>>) = 0
OBVIOUS

LEMMA TwoKinds ==
  /\ <<"ticket", "queue">> \in Seq(Kinds)
  /\ Len(<<"ticket", "queue">>) = 2
  /\ <<"ticket", "queue">>[1] = "ticket" /\ <<"ticket", "queue">>[2] = "queue"
BY DEF Kinds, Work

LEMMA ClearingSteps ==
  ASSUME NEW done, ClearSession(done),
         \/ stored = 0
         \/ \E c \in done : /\ c \in Mine
                           /\ \/ c.kind \in {"restore", "logout"}
                              \/ c.kind \in Work /\ c.reply = "refused"
  PROVE  Steps(done, <<>>, 0)
BY DEF ClearSession, Steps, Cleared

LEMMA IgnoringSteps ==
  ASSUME NEW done, \A c \in done : c.kind # "restore", Ignore(done), loaded' = loaded
  PROVE  Steps(done, <<>>, 0)
<1>1. \A k \in 1..Len(<<>>) : <<>>[k] # "ticket" /\ (<<>>[k] \in Work \cup {"logout"} => 0 = token)
  BY NoKind
<1> QED
  BY <1>1 DEF Ignore, Stay, Steps, Staying

LEMMA SendingSteps ==
  ASSUME NEW done, \A c \in done : c.kind # "restore",
         NEW k \in Kinds \ {"ticket"}, NEW t \in {0, token, stored}, Exchange(done, <<k>>, t),
         k \in Work \cup {"logout"} => t = token,
         UNCHANGED <<token, stored, source, streams>>,
         loaded' = loaded \/ k = "restore"
  PROVE  Steps(done, <<k>>, t)
<1>1. \A j \in 1..Len(<<k>>) : <<k>>[j] # "ticket" /\ (<<k>>[j] \in Work \cup {"logout"} => t = token)
  BY OneKind
<1>2. loaded' = loaded \/ <<k>> = <<"restore">>
  OBVIOUS
<1>3. Staying(done, <<k>>, t)
  BY <1>1, <1>2 DEF Staying
<1> QED
  BY <1>3 DEF Steps

LEMMA PageShape ==
  ASSUME CallInv, PageStep
  PROVE  /\ UNCHANGED <<page, server, admitted, lapsed>>
         /\ \E done \in SUBSET calls, kinds \in Seq(Kinds), t \in Nat : Steps(done, kinds, t)
<1>0. UNCHANGED <<page, server, admitted, lapsed>>
  BY DEF PageStep, Restore, SubmitLogin, SignOut, SubmitWork, Reply, OnLogin, OnRestore, OnWork,
     OnLogout, OnTicket, Handled, browser
<1>a. /\ token \in Nat /\ stored \in Nat
      /\ \A c \in calls : c.token \in Nat
      /\ Operations \subseteq Kinds \ {"ticket", "restore"}
      /\ {"login", "logout", "view", "queue", "restore"} \subseteq Kinds \ {"ticket"}
  BY BrowserOperations DEF CallInv, TypeInv, Call, Kinds, Work
<1> DEFINE Goal == \E done \in SUBSET calls, kinds \in Seq(Kinds), t \in Nat : Steps(done, kinds, t)
<1> SUFFICES Goal
  BY <1>0
<1>b. ASSUME NEW done \in SUBSET calls, Steps(done, <<>>, 0) PROVE Goal
  BY <1>b, NoKind
<1>c. ASSUME NEW done \in SUBSET calls, NEW k \in Kinds, NEW t \in Nat, Steps(done, <<k>>, t) PROVE Goal
  BY <1>c, OneKind
<1>1. CASE Restore
  <2>1. CASE stored = 0 /\ ClearSession({})
    BY <2>1, <1>b, ClearingSteps
  <2>2. CASE Exchange({}, <<"restore">>, stored) /\ Stay
    <3>1. Steps({}, <<"restore">>, stored)
      BY <2>2, <1>a, SendingSteps DEF Stay, Work
    <3> QED
      BY <3>1, <1>a, <1>c
  <2> QED
    BY <1>1, <2>1, <2>2 DEF Restore
<1>2. CASE SubmitLogin
  <2>1. Steps({}, <<"login">>, 0)
    BY <1>2, <1>a, SendingSteps DEF SubmitLogin, browser, Work
  <2> QED
    BY <2>1, <1>a, <1>c
<1>3. CASE SignOut
  <2>1. Steps({}, <<"logout">>, token)
    BY <1>3, <1>a, SendingSteps DEF SignOut, browser
  <2> QED
    BY <2>1, <1>a, <1>c
<1>4. ASSUME NEW k \in Operations, SubmitWork(k) PROVE Goal
  <2>1. Steps({}, <<k>>, token)
    BY <1>4, <1>a, SendingSteps DEF SubmitWork, browser
  <2> QED
    BY <2>1, <1>a, <1>c
<1>5. ASSUME NEW c \in calls, OnLogin(c) PROVE Goal
  <2>1. c.kind # "restore" /\ loaded' = loaded
    BY <1>5 DEF OnLogin, Handled
  <2>2. CASE Ignore({c})
    BY <2>1, <2>2, <1>b, IgnoringSteps
  <2>3. CASE c.reply = "ok" /\ ApplySession(c, "queue")
    <3>1. c \in Mine /\ c.kind = "login"
      BY <1>5 DEF OnLogin, Handled
    <3>2. Applied({c}, <<"ticket", "queue">>, c.token)
      BY <2>3, <3>1 DEF ApplySession, Applied
    <3>3. Steps({c}, <<"ticket", "queue">>, c.token)
      BY <1>5, <2>3, <3>2 DEF ApplySession, Steps
    <3> QED
      BY <3>3, <1>a, TwoKinds
  <2> QED
    BY <1>5, <2>2, <2>3 DEF OnLogin
<1>6. ASSUME NEW c \in calls, OnRestore(c) \/ OnLogout(c) PROVE Goal
  <2>1. ClearSession({c}) /\ c \in Mine /\ c.kind \in {"restore", "logout"}
    BY <1>6 DEF OnRestore, OnLogout, Handled
  <2>2. Cleared({c}, <<>>)
    BY <2>1 DEF ClearSession, Cleared
  <2>3. Steps({c}, <<>>, 0)
    BY <2>1, <2>2 DEF ClearSession, Steps
  <2> QED
    BY <2>3, <1>b
<1>7. ASSUME NEW c \in calls, OnWork(c) PROVE Goal
  <2>1. c.kind # "restore" /\ loaded' = loaded
    BY <1>7 DEF OnWork, Handled, Work
  <2>2. CASE c.reply = "refused" /\ ClearSession({c})
    BY <1>7, <2>2, <1>b, ClearingSteps DEF OnWork, Handled
  <2>3. CASE Ignore({c})
    BY <2>1, <2>3, <1>b, IgnoringSteps
  <2>4. CASE Exchange({c}, IF c.kind = "act" THEN <<"view">> ELSE <<"queue">>, token) /\ Stay
    <3>1. CASE c.kind = "act"
      <4>1. Steps({c}, <<"view">>, token)
        BY <2>1, <2>4, <3>1, <1>a, SendingSteps DEF Stay
      <4> QED
        BY <4>1, <1>a, <1>c
    <3>2. CASE c.kind # "act"
      <4>1. Steps({c}, <<"queue">>, token)
        BY <2>1, <2>4, <3>2, <1>a, SendingSteps DEF Stay
      <4> QED
        BY <4>1, <1>a, <1>c
    <3> QED
      BY <3>1, <3>2
  <2> QED
    BY <1>7, <2>2, <2>3, <2>4 DEF OnWork
<1>8. ASSUME NEW c \in calls, OnTicket(c) PROVE Goal
  <2>1. c.kind = "ticket" /\ loaded' = loaded /\ c \in Waiting("ticket")
    BY <1>8 DEF OnTicket, Handled, Waiting
  <2>2. CASE Ignore({c})
    BY <2>1, <2>2, <1>b, IgnoringSteps
  <2>3. CASE /\ c.reply = "ok"
             /\ source' = c.id /\ streams' = [streams EXCEPT ![c.id] = "connecting"]
             /\ Exchange({c}, <<>>, 0) /\ UNCHANGED <<token, stored>>
    <3>1. Steps({c}, <<>>, 0)
      BY <2>1, <2>3 DEF Steps, Streaming
    <3> QED
      BY <3>1, <1>b
  <2> QED
    BY <1>8, <2>2, <2>3 DEF OnTicket
<1> QED
  BY <1>1, <1>2, <1>3, <1>4, <1>5, <1>6, <1>7, <1>8 DEF PageStep, Reply

-----------------------------------------------------------------------------
(* A ticket is there from the answer to its request to its first use.      *)
SpentInv ==
  /\ tickets \subseteq 1..made
  /\ TicketSpentOnce
  /\ \A i \in tickets : admitted[i] = 0
  /\ \A c \in calls : c.reply = "none" => c.id \notin tickets /\ admitted[c.id] = 0
  /\ \A i \in Ids : i > made => admitted[i] = 0

(* Unless two crossed, one ticket is asked for at a time, and with no      *)
(* stream open.                                                            *)
TrackedInv ==
  ~overlap => /\ \A i \in Ids : streams[i] \in Open => i = source
              /\ \A c, d \in Waiting("ticket") : c = d
              /\ Waiting("ticket") # {} => source = 0

BrowserInv == CallInv /\ SpentInv /\ TrackedInv /\ ReloadResumes

LEMMA StreamClosed ==
  ASSUME CallInv, CloseStream
  PROVE  /\ source' = 0
         /\ streams' \in [Ids -> {"none", "closed"} \cup Open]
         /\ \A i \in Ids : streams'[i] \in Open => streams[i] \in Open /\ i # source
<1>1. CASE source = 0
  BY <1>1 DEF CloseStream, CallInv, TypeInv, Ids
<1>2. CASE source # 0
  BY <1>2 DEF CloseStream, CallInv, TypeInv, Open
<1> QED
  BY <1>1, <1>2

(* The page's own steps.                                                   *)
LEMMA PageTypes ==
  ASSUME CallInv, UNCHANGED <<page, server, admitted, lapsed>>, NEW done \in SUBSET calls,
         NEW kinds \in Seq(Kinds), NEW t \in Nat, Steps(done, kinds, t)
  PROVE  TypeInv'
<1>x. Exchanged(done, kinds, t)
  BY ExchangeCalls DEF Steps
<1>1. /\ made' \in 0..MaxCalls /\ calls' \subseteq Call /\ owner' \in [Ids -> Nat]
  BY <1>x DEF Exchanged
<1>2. /\ {page', issued'} \subseteq Nat /\ admitted' \in [Ids -> Nat]
  BY DEF CallInv, TypeInv, server
<1>3. {token', stored', source'} \subseteq Nat /\ streams' \in [Ids -> {"none", "closed"} \cup Open]
  <2>1. CASE Applied(done, kinds, t) \/ Cleared(done, kinds)
    BY <2>1, StreamClosed DEF Applied, Cleared
  <2>2. CASE Streaming(done, kinds)
    <3>1. PICK c \in Waiting("ticket") : source' = c.id /\ streams' = [streams EXCEPT ![c.id] = "connecting"]
      BY <2>2 DEF Streaming
    <3>2. c.id \in Ids /\ c.id \in Nat
      BY BrowserBounds DEF Waiting, Mine, CallInv, TypeInv, Call, Ids
    <3> QED
      BY <2>2, <3>1, <3>2 DEF Streaming, CallInv, TypeInv, Open
  <2>3. CASE Staying(done, kinds, t)
    BY <2>3 DEF Staying, CallInv, TypeInv
  <2> QED
    BY <2>1, <2>2, <2>3 DEF Steps
<1> QED
  BY <1>1, <1>2, <1>3 DEF TypeInv

LEMMA PageSpends ==
  ASSUME CallInv, SpentInv, UNCHANGED <<page, server, admitted, lapsed>>, NEW done \in SUBSET calls,
         NEW kinds \in Seq(Kinds), NEW t \in Nat, Exchange(done, kinds, t)
  PROVE  SpentInv'
<1>x. Exchanged(done, kinds, t)
  BY ExchangeCalls
<1>1. /\ made' \in Nat /\ made \in Nat /\ made <= made'
      /\ \A c \in calls' : c.id \in Ids /\ (c \in calls \/ c.id > made)
  BY <1>x, BrowserBounds DEF Exchanged, CallInv, TypeInv, Call
<1>2. tickets' = tickets /\ admitted' = admitted
  BY DEF server
<1>3. \A i \in Ids : i \in Nat
  BY DEF Ids
<1> QED
  BY <1>1, <1>2, <1>3 DEF SpentInv, TicketSpentOnce

LEMMA PageTracks ==
  ASSUME CallInv, TrackedInv, UNCHANGED <<page, server, admitted, lapsed>>, NEW done \in SUBSET calls,
         NEW kinds \in Seq(Kinds), NEW t \in Nat, Steps(done, kinds, t)
  PROVE  TrackedInv'
<1>w. Exchanged(done, kinds, t)
  BY ExchangeCalls DEF Steps
<1>x. /\ Exchange(done, kinds, t) /\ Numbered' /\ calls \ done \subseteq calls'
      /\ \A c \in calls' : \/ c \in calls \ done
                           \/ \E k \in 1..Len(kinds) : c.id = made + k /\ c.kind = kinds[k]
      /\ page' = page
  BY <1>w DEF Exchanged, Steps
<1> SUFFICES ASSUME ~overlap'
             PROVE  /\ \A i \in Ids : streams'[i] \in Open => i = source'
                    /\ \A c, d \in Waiting("ticket")' : c = d
                    /\ Waiting("ticket")' # {} => source' = 0
  BY DEF TrackedInv
<1>0. ~overlap
  BY <1>x DEF Exchange
<1>1. CASE Applied(done, kinds, t)
  <2>1. kinds[1] = "ticket" /\ kinds[2] = "queue" /\ Len(kinds) = 2
    BY <1>1, TwoKinds DEF Applied
  <2>2. Waiting("ticket") = {}
    <3>1. \E k \in 1..Len(kinds) : kinds[k] = "ticket"
      BY <2>1
    <3> QED
      BY <1>x, <3>1 DEF Exchange
  <2>3. \A c \in Waiting("ticket")' : c.id = made + 1
    <3> TAKE c \in Waiting("ticket")'
    <3>1. c \in calls' /\ c.page = page /\ c.kind = "ticket"
      BY <1>x DEF Waiting, Mine
    <3>2. c \notin calls
      BY <2>2, <3>1 DEF Waiting, Mine
    <3>3. PICK k \in 1..Len(kinds) : c.id = made + k /\ c.kind = kinds[k]
      BY <1>x, <3>1, <3>2
    <3> QED
      BY <2>1, <3>1, <3>3
  <2>4. \A c, d \in Waiting("ticket")' : c = d
    BY <1>x, <2>3 DEF Numbered, Waiting, Mine
  <2>5. CloseStream
    BY <1>1 DEF Applied
  <2> QED
    BY <1>0, <2>4, <2>5, StreamClosed DEF TrackedInv
<1>2. ASSUME \A k \in 1..Len(kinds) : kinds[k] # "ticket"
      PROVE  Waiting("ticket")' \subseteq Waiting("ticket") \ done
  BY <1>x, <1>2 DEF Waiting, Mine
<1>3. CASE Cleared(done, kinds)
  <2>1. CloseStream /\ Waiting("ticket")' \subseteq Waiting("ticket")
    BY <1>2, <1>3, NoKind DEF Cleared
  <2> QED
    BY <1>0, <2>1, StreamClosed DEF TrackedInv
<1>4. CASE Streaming(done, kinds)
  <2>1. PICK c \in Waiting("ticket") : /\ done = {c} /\ source' = c.id
                                      /\ streams' = [streams EXCEPT ![c.id] = "connecting"]
    BY <1>4 DEF Streaming
  <2>2. Waiting("ticket")' \subseteq Waiting("ticket") \ done
    BY <1>2, <1>4, NoKind DEF Streaming
  <2>3. Waiting("ticket")' = {}
    BY <1>0, <2>1, <2>2 DEF TrackedInv
  <2>4. \A i \in Ids : streams[i] \notin Open
    BY <1>0, <2>1 DEF TrackedInv, Ids
  <2> QED
    BY <2>1, <2>3, <2>4 DEF CallInv, TypeInv
<1>5. CASE Staying(done, kinds, t)
  <2>1. Waiting("ticket")' \subseteq Waiting("ticket") /\ UNCHANGED <<source, streams>>
    BY <1>2, <1>5 DEF Staying
  <2> QED
    BY <1>0, <2>1 DEF TrackedInv
<1> QED
  BY <1>1, <1>3, <1>4, <1>5 DEF Steps

LEMMA PageResumes ==
  ASSUME CallInv, ReloadResumes, UNCHANGED <<page, server, admitted, lapsed>>, NEW done \in SUBSET calls,
         NEW kinds \in Seq(Kinds), NEW t \in Nat, Steps(done, kinds, t)
  PROVE  ReloadResumes'
<1>w. Exchanged(done, kinds, t)
  BY ExchangeCalls DEF Steps
<1>x. /\ calls \ done \subseteq calls' /\ page' = page
      /\ \A k \in 1..Len(kinds) : \E c \in calls' : c.kind = kinds[k] /\ c.page = page
  BY <1>w DEF Exchanged
<1>1. CASE Applied(done, kinds, t) \/ Cleared(done, kinds)
  BY <1>1 DEF Applied, Cleared, ReloadResumes
<1>2. ASSUME \A c \in done : c.kind # "restore"
      PROVE  Waiting("restore") # {} => Waiting("restore")' # {}
  <2>1. Waiting("restore") \subseteq Waiting("restore")'
    BY <1>x, <1>2 DEF Waiting, Mine
  <2> QED
    BY <2>1
<1>3. CASE Streaming(done, kinds)
  <2>1. \A c \in done : c.kind # "restore"
    BY <1>3 DEF Streaming, Waiting
  <2> QED
    BY <1>2, <1>3, <2>1 DEF Streaming, ReloadResumes
<1>4. CASE Staying(done, kinds, t)
  <2>1. CASE kinds = <<"restore">>
    <3>1. Len(kinds) = 1 /\ kinds[1] = "restore"
      BY <2>1
    <3>2. Waiting("restore")' # {}
      BY <1>x, <3>1 DEF Waiting, Mine
    <3> QED
      BY <1>4, <3>2 DEF Staying, ReloadResumes
  <2>2. CASE loaded' = loaded
    <3>1. \A c \in done : c.kind # "restore"
      BY <1>4 DEF Staying
    <3> QED
      BY <1>2, <1>4, <2>2, <3>1 DEF Staying, ReloadResumes
  <2> QED
    BY <1>4, <2>1, <2>2 DEF Staying
<1> QED
  BY <1>1, <1>3, <1>4 DEF Steps

LEMMA PageKeeps == ASSUME BrowserInv, PageStep PROVE BrowserInv'
<1>1. /\ CallInv /\ SpentInv /\ TrackedInv /\ ReloadResumes
  BY DEF BrowserInv
<1>2. UNCHANGED <<page, server, admitted, lapsed>>
  BY <1>1, PageShape
<1>3. PICK done \in SUBSET calls, kinds \in Seq(Kinds), t \in Nat : Steps(done, kinds, t)
  BY <1>1, PageShape
<1>4. Exchange(done, kinds, t) /\ Numbered'
  BY <1>1, <1>2, <1>3, ExchangeCalls DEF Steps, Exchanged
<1> QED
  BY <1>1, <1>2, <1>3, <1>4, PageTypes, PageSpends, PageTracks, PageResumes DEF BrowserInv, CallInv

-----------------------------------------------------------------------------
(* An answer gives its request a reply, or removes it.                     *)
LEMMA AnswerKeeps ==
  ASSUME BrowserInv, NEW c \in calls, NEW r \in Call, Answer(c, r), UNCHANGED browser,
         r.id = c.id, r.kind = c.kind, r.page = c.page, r.reply # "none"
  PROVE  /\ calls' \subseteq Call /\ Numbered' /\ TrackedInv' /\ ReloadResumes'
         /\ \A d \in calls' : d = r \/ (d \in calls /\ d.id # c.id)
<1>x. CallInv /\ TrackedInv /\ ReloadResumes
  BY DEF BrowserInv
<1>1. /\ \A d \in calls' : d = r \/ (d \in calls /\ d # c)
      /\ \A d \in calls : d # c => d \in calls'
      /\ c.page = page => r \in calls'
      /\ UNCHANGED <<token, stored, source, loaded, page, streams, made, overlap>>
  BY DEF Answer, browser
<1>2. \A d \in calls' : d = r \/ (d \in calls /\ d.id # c.id)
  BY <1>1, <1>x DEF CallInv, Numbered
<1>3. calls' \subseteq Call /\ Numbered'
  <2>1. \A d \in calls' : d.id <= made /\ d.page <= page
    BY <1>1, <1>x DEF CallInv, Numbered
  <2>2. \A d, e \in calls' : d.id = e.id => d = e
    BY <1>2, <1>x DEF CallInv, Numbered
  <2> QED
    BY <1>1, <1>x, <2>1, <2>2 DEF CallInv, TypeInv, Numbered
<1>4. TrackedInv'
  <2>1. \A d \in Waiting("ticket")' : \E e \in Waiting("ticket") : d.id = e.id
    BY <1>1 DEF Waiting, Mine
  <2>2. \A d, e \in Waiting("ticket")' : ~overlap => d.id = e.id
    BY <1>x, <2>1 DEF TrackedInv
  <2>3. \A d, e \in Waiting("ticket")' : ~overlap => d = e
    BY <1>3, <2>2 DEF Numbered, Waiting, Mine
  <2> QED
    BY <1>1, <1>x, <2>1, <2>3 DEF TrackedInv
<1>5. ReloadResumes'
  <2>1. Waiting("restore") # {} => Waiting("restore")' # {}
    BY <1>1 DEF Waiting, Mine
  <2> QED
    BY <1>1, <1>x, <2>1 DEF ReloadResumes
<1> QED
  BY <1>2, <1>3, <1>4, <1>5

LEMMA Answered ==
  ASSUME CallInv, NEW c \in calls, NEW reply \in Replies, NEW n \in Nat
  PROVE  /\ [c EXCEPT !.reply = reply] \in Call
         /\ [c EXCEPT !.reply = reply].id = c.id
         /\ [c EXCEPT !.reply = reply].kind = c.kind
         /\ [c EXCEPT !.reply = reply].page = c.page
         /\ [c EXCEPT !.reply = reply].reply = reply
         /\ [c EXCEPT !.reply = reply, !.token = n] \in Call
         /\ [c EXCEPT !.reply = reply, !.token = n].id = c.id
         /\ [c EXCEPT !.reply = reply, !.token = n].kind = c.kind
         /\ [c EXCEPT !.reply = reply, !.token = n].page = c.page
         /\ [c EXCEPT !.reply = reply, !.token = n].reply = reply
BY DEF CallInv, TypeInv, Call

LEMMA ServeLoginKeeps == ASSUME BrowserInv, NEW c \in calls, ServeLogin(c) PROVE BrowserInv'
<1>x. CallInv /\ SpentInv /\ c.id \in Ids /\ issued \in Nat /\ issued + 1 \in Nat
  BY DEF BrowserInv, CallInv, TypeInv, Call
<1>1. PICK r \in Call : /\ Answer(c, r) /\ r.id = c.id /\ r.kind = c.kind /\ r.page = c.page
                       /\ r.reply # "none"
  <2>1. CASE Answer(c, [c EXCEPT !.reply = "ok", !.token = issued + 1])
    BY <1>x, <2>1, Answered DEF Replies
  <2>2. CASE Answer(c, [c EXCEPT !.reply = "failed"])
    BY <1>x, <2>2, Answered, 0 \in Nat DEF Replies
  <2> QED
    BY <2>1, <2>2 DEF ServeLogin
<1>2. /\ calls' \subseteq Call /\ Numbered' /\ TrackedInv' /\ ReloadResumes'
      /\ \A d \in calls' : d = r \/ (d \in calls /\ d.id # c.id)
  BY <1>1, AnswerKeeps DEF ServeLogin
<1>3. /\ UNCHANGED <<token, stored, source, page, streams, made, owner, tickets, admitted>>
      /\ issued' \in Nat
  BY <1>x DEF ServeLogin, browser, Answer
<1>4. TypeInv'
  BY <1>x, <1>2, <1>3 DEF CallInv, TypeInv
<1>5. SpentInv'
  BY <1>x, <1>1, <1>2, <1>3 DEF SpentInv, TicketSpentOnce
<1> QED
  BY <1>2, <1>4, <1>5 DEF BrowserInv, CallInv

LEMMA ServeKeeps == ASSUME BrowserInv, NEW c \in calls, Serve(c) PROVE BrowserInv'
<1>x. CallInv /\ SpentInv /\ c.id \in Ids /\ c.id <= made
  BY DEF BrowserInv, CallInv, TypeInv, Call, Numbered
<1>1. PICK r \in Call : /\ Answer(c, r) /\ r.id = c.id /\ r.kind = c.kind /\ r.page = c.page
                       /\ r.reply # "none"
  <2> DEFINE reply == IF c.token \in valid THEN "ok" ELSE "refused"
  <2>1. reply \in Replies /\ reply # "none"
    BY DEF Replies
  <2>2. Answer(c, [c EXCEPT !.reply = reply])
    BY DEF Serve
  <2> HIDE DEF reply
  <2> QED
    BY <1>x, <2>1, <2>2, Answered, 0 \in Nat
<1>2. /\ calls' \subseteq Call /\ Numbered' /\ TrackedInv' /\ ReloadResumes'
      /\ \A d \in calls' : d = r \/ (d \in calls /\ d.id # c.id)
  BY <1>1, AnswerKeeps DEF Serve
<1>3. /\ UNCHANGED <<token, stored, source, page, streams, made, owner, issued, admitted>>
      /\ tickets \subseteq tickets' /\ tickets' \subseteq tickets \cup {c.id}
      /\ c.reply = "none"
  BY DEF Serve, browser, Answer
<1>4. TypeInv'
  BY <1>x, <1>2, <1>3 DEF CallInv, TypeInv
<1>5. SpentInv'
  <2>1. tickets' \subseteq 1..made'
    BY <1>x, <1>3 DEF SpentInv, Ids
  <2>2. \A i \in tickets' : admitted'[i] = 0
    BY <1>x, <1>3 DEF SpentInv
  <2>3. \A d \in calls' : d.reply = "none" => d.id \notin tickets' /\ admitted'[d.id] = 0
    BY <1>x, <1>1, <1>2, <1>3 DEF SpentInv
  <2> QED
    BY <1>x, <1>3, <2>1, <2>2, <2>3 DEF SpentInv, TicketSpentOnce
<1> QED
  BY <1>2, <1>4, <1>5 DEF BrowserInv, CallInv

LEMMA LoseKeeps == ASSUME BrowserInv, NEW c \in calls, Lose(c) PROVE BrowserInv'
<1>x. CallInv /\ SpentInv /\ c.id \in Ids
  BY DEF BrowserInv, CallInv, TypeInv, Call
<1>1. PICK r \in Call : /\ Answer(c, r) /\ r.id = c.id /\ r.kind = c.kind /\ r.page = c.page
                       /\ r.reply # "none"
  BY <1>x, Answered, 0 \in Nat DEF Replies, Lose
<1>2. /\ calls' \subseteq Call /\ Numbered' /\ TrackedInv' /\ ReloadResumes'
      /\ \A d \in calls' : d = r \/ (d \in calls /\ d.id # c.id)
  BY <1>1, AnswerKeeps DEF Lose
<1>3. UNCHANGED <<token, stored, source, page, streams, made, owner, tickets, issued, admitted>>
  BY DEF Lose, browser, Answer
<1>4. TypeInv'
  BY <1>x, <1>2, <1>3 DEF CallInv, TypeInv
<1>5. SpentInv'
  BY <1>x, <1>1, <1>2, <1>3 DEF SpentInv, TicketSpentOnce
<1> QED
  BY <1>2, <1>4, <1>5 DEF BrowserInv, CallInv

-----------------------------------------------------------------------------
(* The streams.                                                            *)

(* What changes the streams alone leaves the requests as they are.         *)
LEMMA OthersStay ==
  ASSUME BrowserInv, UNCHANGED <<token, stored, loaded, page, requests, issued>>
  PROVE  /\ calls' = calls /\ made' = made /\ overlap' = overlap
         /\ Numbered' /\ ReloadResumes'
         /\ \A kind : Waiting(kind)' = Waiting(kind)
BY DEF BrowserInv, CallInv, Numbered, ReloadResumes, Waiting, Mine, requests

LEMMA StreamStepTracks ==
  ASSUME BrowserInv, UNCHANGED <<source, overlap, calls, page>>,
         NEW i \in Ids, streams[i] \in Open,
         NEW to \in Open, streams' = [streams EXCEPT ![i] = to]
  PROVE  /\ TrackedInv'
         /\ streams' \in [Ids -> {"none", "closed"} \cup Open]
<1>1. TrackedInv /\ CallInv
  BY DEF BrowserInv
<1>2. /\ streams' \in [Ids -> {"none", "closed"} \cup Open]
      /\ \A j \in Ids : streams'[j] \in Open => streams[j] \in Open
  BY <1>1 DEF CallInv, TypeInv
<1>3. Waiting("ticket")' = Waiting("ticket")
  BY DEF Waiting, Mine
<1> QED
  BY <1>1, <1>2, <1>3 DEF TrackedInv

LEMMA AcceptKeeps == ASSUME BrowserInv, NEW i \in Ids, Accept(i) PROVE BrowserInv'
<1>x. CallInv /\ SpentInv
  BY DEF BrowserInv
<1>1. /\ UNCHANGED <<token, stored, source, loaded, page, requests, issued>>
      /\ tickets' = tickets \ {i} /\ streams[i] \in Open
      /\ \E to \in Open : streams' = [streams EXCEPT ![i] = to]
      /\ \/ admitted' = admitted
         \/ i \in tickets /\ admitted' = [admitted EXCEPT ![i] = @ + 1]
  BY DEF Accept, Open
<1>2. /\ calls' = calls /\ made' = made /\ overlap' = overlap /\ Numbered' /\ ReloadResumes'
  BY <1>1, OthersStay
<1>3. /\ TrackedInv' /\ streams' \in [Ids -> {"none", "closed"} \cup Open]
  BY <1>1, <1>2, StreamStepTracks
<1>4. TypeInv'
  <2>1. admitted' \in [Ids -> Nat]
    BY <1>x, <1>1 DEF CallInv, TypeInv
  <2> QED
    BY <1>x, <1>1, <1>2, <1>3, <2>1 DEF CallInv, TypeInv, requests
<1>5. SpentInv'
  <2>1. CASE admitted' = admitted
    BY <1>x, <1>1, <1>2, <2>1 DEF SpentInv, TicketSpentOnce
  <2>2. CASE i \in tickets /\ admitted' = [admitted EXCEPT ![i] = @ + 1]
    <3>1. /\ admitted'[i] = 1
          /\ \A j \in Ids : j # i => admitted'[j] = admitted[j]
      BY <1>x, <2>2 DEF CallInv, TypeInv, SpentInv
    <3>2. i \in 1..made /\ tickets \subseteq Ids /\ \A c \in calls : c.id \in Ids
      BY <1>x, <2>2, BrowserBounds DEF SpentInv, CallInv, TypeInv, Ids, Call
    <3>3. TicketSpentOnce'
      BY <1>x, <3>1 DEF SpentInv, TicketSpentOnce
    <3>4. \A c \in calls : c.reply = "none" => c.id # i
      BY <1>x, <2>2 DEF SpentInv
    <3>5. \A j \in Ids : j > made => j # i
      BY <1>x, <3>2 DEF CallInv, TypeInv, Ids
    <3>6. \A j \in tickets' : admitted'[j] = 0
      BY <1>x, <1>1, <3>1, <3>2 DEF SpentInv
    <3>7. \A c \in calls' : c.reply = "none" => c.id \notin tickets' /\ admitted'[c.id] = 0
      BY <1>x, <1>1, <1>2, <3>1, <3>2, <3>4 DEF SpentInv
    <3>8. \A j \in Ids : j > made' => admitted'[j] = 0
      BY <1>x, <1>2, <3>1, <3>5 DEF SpentInv
    <3> QED
      BY <1>x, <1>1, <1>2, <3>3, <3>6, <3>7, <3>8 DEF SpentInv
  <2> QED
    BY <1>1, <2>1, <2>2
<1> QED
  BY <1>2, <1>3, <1>4, <1>5 DEF BrowserInv, CallInv

LEMMA DropKeeps == ASSUME BrowserInv, NEW i \in Ids, Drop(i) PROVE BrowserInv'
<1>x. CallInv /\ SpentInv
  BY DEF BrowserInv
<1>1. /\ UNCHANGED <<token, stored, source, loaded, page, requests, issued, tickets, admitted>>
      /\ streams[i] \in Open /\ "connecting" \in Open
      /\ streams' = [streams EXCEPT ![i] = "connecting"]
  BY DEF Drop, Open
<1>2. /\ calls' = calls /\ made' = made /\ overlap' = overlap /\ Numbered' /\ ReloadResumes'
  BY <1>1, OthersStay
<1>3. /\ TrackedInv' /\ streams' \in [Ids -> {"none", "closed"} \cup Open]
  BY <1>1, <1>2, StreamStepTracks
<1>4. TypeInv' /\ SpentInv'
  BY <1>x, <1>1, <1>2, <1>3 DEF CallInv, TypeInv, SpentInv, TicketSpentOnce, requests
<1> QED
  BY <1>2, <1>3, <1>4 DEF BrowserInv, CallInv

LEMMA OnAuthKeeps == ASSUME BrowserInv, NEW i \in Ids, OnAuth(i) PROVE BrowserInv'
<1>x. CallInv /\ SpentInv /\ TrackedInv
  BY DEF BrowserInv
<1>1. /\ UNCHANGED <<page, calls, made, overlap, owner, issued, tickets, admitted>>
      /\ token' = 0 /\ stored' = 0 /\ source' = 0 /\ streams[i] \in Open
      /\ streams' = [j \in Ids |-> IF j = source THEN "closed"
                                  ELSE IF j = i THEN "connecting" ELSE streams[j]]
  BY DEF OnAuth, requests, server, Open
<1>2. TypeInv' /\ SpentInv' /\ Numbered' /\ ReloadResumes'
  BY <1>x, <1>1 DEF CallInv, TypeInv, SpentInv, TicketSpentOnce, Numbered, ReloadResumes, Open
<1>3. TrackedInv'
  <2>1. Waiting("ticket")' = Waiting("ticket")
    BY <1>1 DEF Waiting, Mine
  <2>2. ~overlap => \A j \in Ids : streams'[j] \notin Open
    BY <1>x, <1>1 DEF TrackedInv, Open
  <2> QED
    BY <1>x, <1>1, <2>1, <2>2 DEF TrackedInv
<1> QED
  BY <1>2, <1>3 DEF BrowserInv, CallInv

LEMMA ReloadKeeps == ASSUME BrowserInv, Reload PROVE BrowserInv'
<1>x. CallInv /\ SpentInv
  BY DEF BrowserInv
<1>1. /\ UNCHANGED <<stored, made, owner, issued, tickets, admitted>>
      /\ token' = 0 /\ source' = 0 /\ ~loaded' /\ page' = page + 1 /\ overlap' = FALSE
      /\ calls' \subseteq calls
      /\ streams' = [i \in Ids |-> IF streams[i] \in Open THEN "closed" ELSE streams[i]]
  BY DEF Reload, server
<1>2. TypeInv'
  BY <1>x, <1>1 DEF CallInv, TypeInv
<1>3. SpentInv' /\ ReloadResumes'
  BY <1>x, <1>1 DEF SpentInv, TicketSpentOnce, ReloadResumes
<1>4. page \in Nat /\ \A c \in calls : c.page \in Nat /\ c.page <= page
  BY <1>x DEF CallInv, TypeInv, Call, Numbered
<1>5. Numbered'
  BY <1>x, <1>1, <1>4 DEF CallInv, Numbered
<1>6. TrackedInv'
  <2>1. Waiting("ticket")' = {}
    BY <1>1, <1>4 DEF Waiting, Mine
  <2>2. \A i \in Ids : streams'[i] \notin Open
    BY <1>1 DEF Open
  <2> QED
    BY <2>1, <2>2 DEF TrackedInv
<1> QED
  BY <1>2, <1>3, <1>5, <1>6 DEF BrowserInv, CallInv

(* A session or a ticket that expires.                                     *)
LEMMA ExpiryKeeps ==
  ASSUME BrowserInv, UNCHANGED <<browser, requests, issued, admitted>>, tickets' \subseteq tickets
  PROVE  BrowserInv'
<1>x. CallInv /\ SpentInv /\ TrackedInv
  BY DEF BrowserInv
<1>1. UNCHANGED <<token, stored, source, loaded, page, streams, calls, made, owner, overlap>>
  BY DEF browser, requests
<1>2. /\ Numbered' /\ ReloadResumes' /\ Waiting("ticket")' = Waiting("ticket")
  BY <1>1, OthersStay
<1>3. TypeInv' /\ SpentInv'
  BY <1>x, <1>1 DEF CallInv, TypeInv, SpentInv, TicketSpentOnce
<1>4. TrackedInv'
  BY <1>x, <1>1, <1>2 DEF TrackedInv
<1> QED
  BY <1>2, <1>3, <1>4 DEF BrowserInv, CallInv

-----------------------------------------------------------------------------
LEMMA BrowserInit == Init => BrowserInv
<1> SUFFICES ASSUME Init PROVE BrowserInv
  OBVIOUS
<1> USE BrowserBounds
<1>1. TypeInv
  BY DEF Init, TypeInv, Call, Ids
<1>2. Numbered /\ SpentInv /\ ReloadResumes
  BY DEF Init, Numbered, SpentInv, TicketSpentOnce, ReloadResumes, Ids
<1>3. TrackedInv
  BY DEF Init, TrackedInv, Waiting, Mine, Open
<1> QED
  BY <1>1, <1>2, <1>3 DEF BrowserInv, CallInv

LEMMA BrowserNext == BrowserInv /\ [Next]_vars => BrowserInv'
<1> SUFFICES ASSUME BrowserInv, [Next]_vars PROVE BrowserInv'
  OBVIOUS
<1>1. CASE PageStep
  BY <1>1, PageKeeps
<1>2. CASE Reload
  BY <1>2, ReloadKeeps
<1>3. CASE \E c \in calls : ServeLogin(c) \/ Serve(c) \/ Lose(c)
  BY <1>3, ServeLoginKeeps, ServeKeeps, LoseKeeps
<1>4. CASE \E i \in Ids : OnAuth(i) \/ Accept(i) \/ Drop(i)
  BY <1>4, OnAuthKeeps, AcceptKeeps, DropKeeps
<1>5. ASSUME NEW i \in Ids, ExpireTicket(i) PROVE BrowserInv'
  BY <1>5, ExpiryKeeps DEF ExpireTicket
<1>6. ASSUME NEW s \in Sessions, Expire(s) PROVE BrowserInv'
  BY <1>6, ExpiryKeeps DEF Expire
<1>7. CASE UNCHANGED vars
  BY <1>7, ExpiryKeeps DEF vars, server
<1> QED
  BY <1>1, <1>2, <1>3, <1>4, <1>5, <1>6, <1>7 DEF Next, PageStep

LEMMA BrowserInvariant == Spec => []BrowserInv
BY BrowserInit, BrowserNext, PTL DEF Spec

(* However often a stream reconnects, whatever is lost, and however often  *)
(* the page is reloaded: a ticket opens one connection at most.            *)
THEOREM TicketsSpentOnce == Spec => []TicketSpentOnce
<1>1. BrowserInv => TicketSpentOnce
  BY DEF BrowserInv, SpentInv
<1> QED
  BY <1>1, BrowserInvariant, PTL

(* Every open stream is the one the page remembers, unless two requests    *)
(* for a ticket were out at once.                                          *)
THEOREM StreamsTracked == Spec => []OpenStreamsTracked
<1>1. BrowserInv => OpenStreamsTracked
  BY DEF BrowserInv, TrackedInv, OpenStreamsTracked
<1> QED
  BY <1>1, BrowserInvariant, PTL

(* localStorage and the page agree but for a lookup that is still due.     *)
THEOREM ReloadsResume == Spec => []ReloadResumes
<1>1. BrowserInv => ReloadResumes
  BY DEF BrowserInv
<1> QED
  BY <1>1, BrowserInvariant, PTL

-----------------------------------------------------------------------------
(* Why a session is lost.  Nothing names a session that was not issued,    *)
(* and what was refused is of a session that ended.                        *)
KnownInv ==
  /\ token <= issued /\ stored <= issued /\ valid \subseteq 1..issued
  /\ \A i \in Ids : owner[i] <= issued
  /\ \A c \in calls : /\ c.token <= issued
                      /\ c.reply = "refused" => c.token \notin valid
                      /\ c.kind = "login" /\ c.reply = "ok" => c.token # 0

(* The ways to be without a ticket.                                        *)
Excused(i) == admitted[i] > 0 \/ i \in lapsed \/ owner[i] \notin valid

(* A ticket is there to be taken, or there is a way it went.               *)
TicketInv ==
  /\ \A i \in Ids : /\ streams[i] \in Open => i <= made
                    /\ streams[i] = "connecting" => i \in tickets \/ Excused(i)
                    /\ streams[i] \in {"live", "rejected"} => Excused(i)
  /\ \A c \in calls : c.kind = "ticket" /\ c.reply = "ok" => c.id \in tickets \/ Excused(c.id)

SessionInv == BrowserInv /\ KnownInv /\ TicketInv

LEMMA OwnersKept ==
  ASSUME NEW done, NEW kinds, NEW t, Exchange(done, kinds, t),
         \A k \in 1..Len(kinds) : kinds[k] # "ticket"
  PROVE  owner' = owner
BY DEF Exchange

LEMMA TicketOwned ==
  ASSUME CallInv, NEW done, NEW t, Exchange(done, <<"ticket", "queue">>, t)
  PROVE  \A i \in Ids : /\ owner'[i] = owner[i] \/ owner'[i] = t
                        /\ i <= made => owner'[i] = owner[i]
<1> DEFINE kinds == <<"ticket", "queue">>
<1>1. \E k \in 1..Len(kinds) : kinds[k] = "ticket"
  BY TwoKinds
<1>2. owner' = [i \in Ids |-> IF i > made /\ i <= made' /\ kinds[i - made] = "ticket"
                              THEN t ELSE owner[i]]
  BY <1>1 DEF Exchange
<1>3. made \in Nat
  BY DEF CallInv, TypeInv
<1> HIDE DEF kinds
<1>4. \A i \in Ids : owner'[i] = owner[i] \/ owner'[i] = t
  BY <1>2
<1>5. \A i \in Ids : i <= made => owner'[i] = owner[i]
  BY <1>2, <1>3 DEF Ids
<1> QED
  BY <1>4, <1>5

LEMMA PageOwners ==
  ASSUME CallInv, NEW done \in SUBSET calls, NEW kinds \in Seq(Kinds), NEW t \in Nat,
         Steps(done, kinds, t)
  PROVE  \A i \in Ids : /\ owner'[i] = owner[i] \/ owner'[i] = t
                        /\ i <= made => owner'[i] = owner[i]
<1>1. CASE Applied(done, kinds, t)
  BY <1>1, TicketOwned DEF Steps, Applied
<1>2. CASE Cleared(done, kinds) \/ Streaming(done, kinds) \/ Staying(done, kinds, t)
  <2>1. \A k \in 1..Len(kinds) : kinds[k] # "ticket"
    BY <1>2, NoKind DEF Cleared, Streaming, Staying
  <2> QED
    BY <2>1, OwnersKept DEF Steps
<1> QED
  BY <1>1, <1>2 DEF Steps

LEMMA PageKnown ==
  ASSUME SessionInv, UNCHANGED <<page, server, admitted, lapsed>>, NEW done \in SUBSET calls,
         NEW kinds \in Seq(Kinds), NEW t \in Nat, Steps(done, kinds, t)
  PROVE  KnownInv'
<1>x. CallInv /\ KnownInv
  BY DEF SessionInv, BrowserInv
<1>w. Exchanged(done, kinds, t)
  BY <1>x, ExchangeCalls DEF Steps
<1>1. issued \in Nat /\ token \in Nat /\ stored \in Nat /\ issued' = issued /\ valid' = valid
  BY <1>x DEF CallInv, TypeInv, server
<1>2. t <= issued
  BY <1>x, <1>1 DEF Steps, KnownInv
<1>3. token' <= issued /\ stored' <= issued
  BY <1>x, <1>1, <1>2 DEF Steps, Applied, Cleared, Streaming, Staying, KnownInv
<1>4. \A c \in calls' : /\ c.token <= issued
                        /\ c.reply = "refused" => c.token \notin valid
                        /\ c.kind = "login" /\ c.reply = "ok" => c.token # 0
  BY <1>x, <1>w, <1>2 DEF Exchanged, KnownInv
<1>5. \A i \in Ids : owner'[i] <= issued
  BY <1>x, <1>2, PageOwners DEF KnownInv
<1> QED
  BY <1>x, <1>1, <1>3, <1>4, <1>5 DEF KnownInv

(* A handler leaves the tickets alone: it closes streams, or opens one for *)
(* the ticket it was answered.                                             *)
LEMMA PageTickets ==
  ASSUME SessionInv, UNCHANGED <<page, server, admitted, lapsed>>, NEW done \in SUBSET calls,
         NEW kinds \in Seq(Kinds), NEW t \in Nat, Steps(done, kinds, t)
  PROVE  TicketInv'
<1>x. CallInv /\ TicketInv
  BY DEF SessionInv, BrowserInv
<1>w. Exchanged(done, kinds, t)
  BY <1>x, ExchangeCalls DEF Steps
<1>1. /\ UNCHANGED <<valid, tickets, admitted, lapsed>>
      /\ made \in Nat /\ made' \in Nat /\ made <= made'
      /\ \A c \in calls : c.id \in Ids /\ c.id <= made
  BY <1>x, <1>w DEF server, CallInv, TypeInv, Numbered, Call, Exchanged, Ids
<1>2. \A i \in Ids : i <= made => (Excused(i)' <=> Excused(i))
  BY <1>x, <1>1, PageOwners DEF Excused
<1>3. \A c \in calls' : c.reply # "none" => c \in calls
  BY <1>w DEF Exchanged
<1>4. \A c \in calls' : c.kind = "ticket" /\ c.reply = "ok" => c.id \in tickets' \/ Excused(c.id)'
  BY <1>x, <1>1, <1>2, <1>3 DEF TicketInv
<1>5. \A i \in Ids : \/ streams'[i] = streams[i]
                     \/ streams'[i] = "closed"
                     \/ streams'[i] = "connecting" /\ i <= made /\ (i \in tickets \/ Excused(i))
  <2>1. CASE Applied(done, kinds, t) \/ Cleared(done, kinds)
    BY <1>x, <2>1 DEF Applied, Cleared, CloseStream, CallInv, TypeInv
  <2>2. CASE Streaming(done, kinds)
    <3>1. PICK c \in Waiting("ticket") : /\ c.reply = "ok"
                                        /\ streams' = [streams EXCEPT ![c.id] = "connecting"]
      BY <2>2 DEF Streaming
    <3>2. c \in calls /\ c.kind = "ticket"
      BY DEF Waiting, Mine
    <3> QED
      BY <1>x, <1>1, <3>1, <3>2 DEF CallInv, TypeInv, TicketInv
  <2>3. CASE Staying(done, kinds, t)
    BY <2>3 DEF Staying
  <2> QED
    BY <2>1, <2>2, <2>3 DEF Steps
<1>6. \A i \in Ids : /\ streams'[i] \in Open => i <= made'
                     /\ streams'[i] = "connecting" => i \in tickets' \/ Excused(i)'
                     /\ streams'[i] \in {"live", "rejected"} => Excused(i)'
  <2> TAKE i \in Ids
  <2>1. streams[i] \in Open => i <= made
    BY <1>x DEF TicketInv
  <2>2. i \in Nat
    BY DEF Ids
  <2>3. CASE streams'[i] = streams[i]
    BY <1>x, <1>1, <1>2, <2>1, <2>2, <2>3 DEF TicketInv, Open
  <2>4. CASE streams'[i] = "closed"
    BY <2>4 DEF Open
  <2>5. CASE streams'[i] = "connecting" /\ i <= made /\ (i \in tickets \/ Excused(i))
    BY <1>1, <1>2, <2>2, <2>5
  <2> QED
    BY <1>5, <2>3, <2>4, <2>5
<1> QED
  BY <1>4, <1>6 DEF TicketInv

LEMMA PageSessions == ASSUME SessionInv, PageStep PROVE KnownInv' /\ TicketInv'
<1>1. CallInv
  BY DEF SessionInv, BrowserInv
<1>2. UNCHANGED <<page, server, admitted, lapsed>>
  BY <1>1, PageShape
<1>3. PICK done \in SUBSET calls, kinds \in Seq(Kinds), t \in Nat : Steps(done, kinds, t)
  BY <1>1, PageShape
<1> QED
  BY <1>2, <1>3, PageKnown, PageTickets

(* What excuses a ticket does so for good.                                 *)
LEMMA StaysExcused ==
  ASSUME CallInv, KnownInv, owner' = owner, lapsed \subseteq lapsed',
         \A i \in Ids : admitted'[i] \in Nat /\ admitted[i] <= admitted'[i],
         \A s \in valid' : s \in valid \/ s > issued
  PROVE  \A i \in Ids : Excused(i) => Excused(i)'
<1> SUFFICES ASSUME NEW i \in Ids, Excused(i) PROVE Excused(i)'
  OBVIOUS
<1>1. /\ admitted[i] \in Nat /\ owner[i] \in Nat /\ issued \in Nat /\ owner[i] <= issued
  BY DEF CallInv, TypeInv, KnownInv
<1>2. CASE admitted[i] > 0
  BY <1>1, <1>2 DEF Excused
<1>3. CASE i \in lapsed
  BY <1>3 DEF Excused
<1>4. CASE owner[i] \notin valid
  BY <1>1, <1>4 DEF Excused
<1> QED
  BY <1>2, <1>3, <1>4 DEF Excused

(* The server's answers.                                                   *)
LEMMA AnswerTickets ==
  ASSUME SessionInv, NEW c \in calls, NEW r \in Call, Answer(c, r),
         UNCHANGED <<browser, admitted, lapsed>>,
         r.id = c.id, r.kind = "ticket" /\ r.reply = "ok" => r.id \in tickets',
         tickets \subseteq tickets', \A s \in valid' : s \in valid \/ s > issued
  PROVE  TicketInv'
<1>x. CallInv /\ KnownInv /\ TicketInv
  BY DEF SessionInv, BrowserInv
<1>1. /\ \A d \in calls' : d = r \/ d \in calls
      /\ UNCHANGED <<streams, owner, made>>
  BY DEF Answer, browser
<1>2. \A i \in Ids : admitted'[i] \in Nat /\ admitted[i] <= admitted'[i]
  BY <1>x DEF CallInv, TypeInv
<1>3. \A i \in Ids : Excused(i) => Excused(i)'
  BY <1>x, <1>1, <1>2, StaysExcused
<1>4. \A d \in calls : d.id \in Ids
  BY <1>x DEF CallInv, TypeInv, Call
<1> QED
  BY <1>x, <1>1, <1>3, <1>4 DEF TicketInv

LEMMA AnswerKnown ==
  ASSUME SessionInv, NEW c \in calls, NEW r \in Call, Answer(c, r), UNCHANGED browser,
         issued' \in Nat, issued <= issued', r.token <= issued',
         r.reply = "refused" => r.token \notin valid',
         r.kind = "login" /\ r.reply = "ok" => r.token # 0,
         valid' \subseteq 1..issued', \A s \in valid' : s \in valid \/ s > issued
  PROVE  KnownInv'
<1>x. CallInv /\ KnownInv
  BY DEF SessionInv, BrowserInv
<1>1. /\ \A d \in calls' : d = r \/ d \in calls
      /\ UNCHANGED <<token, stored, owner>>
  BY DEF Answer, browser
<1>2. token \in Nat /\ stored \in Nat /\ issued \in Nat /\ \A d \in calls : d.token \in Nat
  BY <1>x DEF CallInv, TypeInv, Call
<1>3. \A i \in Ids : owner[i] \in Nat
  BY <1>x DEF CallInv, TypeInv
<1>4. \A d \in calls : /\ d.token <= issued'
                       /\ d.reply = "refused" => d.token \notin valid'
                       /\ d.kind = "login" /\ d.reply = "ok" => d.token # 0
  BY <1>x, <1>2 DEF KnownInv
<1>5. token' <= issued' /\ stored' <= issued' /\ \A i \in Ids : owner'[i] <= issued'
  BY <1>x, <1>1, <1>2, <1>3 DEF KnownInv
<1> QED
  BY <1>1, <1>4, <1>5 DEF KnownInv

LEMMA ServeLoginSessions ==
  ASSUME SessionInv, NEW c \in calls, ServeLogin(c)
  PROVE  KnownInv' /\ TicketInv'
<1>x. CallInv /\ KnownInv /\ issued \in Nat /\ issued + 1 \in Nat /\ c.kind = "login"
  BY DEF SessionInv, BrowserInv, CallInv, TypeInv, ServeLogin
<1>0. /\ UNCHANGED <<browser, admitted, lapsed>> /\ tickets' = tickets
  BY DEF ServeLogin
<1>1. CASE /\ issued' = issued + 1 /\ valid' = valid \cup {issued + 1}
           /\ Answer(c, [c EXCEPT !.reply = "ok", !.token = issued + 1])
  <2> DEFINE r == [c EXCEPT !.reply = "ok", !.token = issued + 1]
  <2>1. /\ r \in Call /\ r.id = c.id /\ r.kind = c.kind /\ r.page = c.page /\ r.reply = "ok"
    BY <1>x DEF CallInv, TypeInv, Call, Replies
  <2>2. r.token = issued + 1
    BY <1>x DEF CallInv, TypeInv, Call
  <2>3. /\ \A s \in valid' : s \in valid \/ s > issued
        /\ valid' \subseteq 1..issued'
    BY <1>1, <1>x DEF KnownInv
  <2>4. Answer(c, r)
    BY <1>1
  <2> HIDE DEF r
  <2>5. TicketInv'
    BY <1>x, <1>0, <2>1, <2>3, <2>4, AnswerTickets
  <2>6. KnownInv'
    BY <1>x, <1>0, <1>1, <2>1, <2>2, <2>3, <2>4, AnswerKnown
  <2> QED
    BY <2>5, <2>6
<1>2. CASE /\ Answer(c, [c EXCEPT !.reply = "failed"]) /\ UNCHANGED <<issued, valid>>
  <2> DEFINE r == [c EXCEPT !.reply = "failed"]
  <2>1. /\ r \in Call /\ r.id = c.id /\ r.kind = c.kind /\ r.page = c.page /\ r.reply = "failed"
    BY <1>x, Answered, 0 \in Nat DEF Replies
  <2>2. r.token = c.token /\ c.token <= issued
    BY <1>x DEF CallInv, TypeInv, Call, KnownInv
  <2>3. Answer(c, r)
    BY <1>2
  <2> HIDE DEF r
  <2>4. TicketInv'
    BY <1>x, <1>0, <1>2, <2>1, <2>3, AnswerTickets
  <2>5. KnownInv'
    BY <1>x, <1>0, <1>2, <2>1, <2>2, <2>3, AnswerKnown DEF KnownInv
  <2> QED
    BY <2>4, <2>5
<1> QED
  BY <1>1, <1>2 DEF ServeLogin

LEMMA ServeSessions ==
  ASSUME SessionInv, NEW c \in calls, Serve(c)
  PROVE  KnownInv' /\ TicketInv'
<1>x. CallInv /\ KnownInv /\ issued \in Nat /\ c.kind # "login"
  BY DEF SessionInv, BrowserInv, CallInv, TypeInv, Serve
<1> DEFINE reply == IF c.token \in valid THEN "ok" ELSE "refused"
           r == [c EXCEPT !.reply = reply]
<1>0. /\ UNCHANGED <<browser, issued, admitted, lapsed>> /\ Answer(c, r)
      /\ valid' \subseteq valid /\ tickets \subseteq tickets'
      /\ c.kind = "ticket" /\ c.token \in valid => c.id \in tickets'
  BY DEF Serve
<1>1. reply \in Replies /\ (reply = "ok" <=> c.token \in valid) /\ (reply = "refused" => c.token \notin valid)
  BY DEF Replies
<1> HIDE DEF reply
<1>2. /\ r \in Call /\ r.id = c.id /\ r.kind = c.kind /\ r.page = c.page /\ r.reply = reply
  BY <1>x, <1>1, Answered, 0 \in Nat
<1>3. r.token = c.token /\ c.token <= issued
  BY <1>x DEF CallInv, TypeInv, Call, KnownInv
<1> HIDE DEF r
<1>4. TicketInv'
  BY <1>x, <1>0, <1>1, <1>2, <1>3, AnswerTickets
<1>5. KnownInv'
  <2>1. /\ issued' \in Nat /\ issued <= issued' /\ r.token <= issued' /\ r.kind # "login"
        /\ valid' \subseteq 1..issued' /\ \A s \in valid' : s \in valid
    BY <1>x, <1>0, <1>2, <1>3 DEF KnownInv
  <2>2. r.reply = "refused" => r.token \notin valid'
    BY <1>0, <1>1, <1>2, <1>3
  <2> QED
    BY <1>0, <1>2, <2>1, <2>2, AnswerKnown
<1> QED
  BY <1>4, <1>5

LEMMA LoseSessions ==
  ASSUME SessionInv, NEW c \in calls, Lose(c)
  PROVE  KnownInv' /\ TicketInv'
<1>x. CallInv /\ KnownInv /\ issued \in Nat
  BY DEF SessionInv, BrowserInv, CallInv, TypeInv
<1> DEFINE r == [c EXCEPT !.reply = "failed"]
<1>0. UNCHANGED <<browser, issued, valid, tickets, admitted, lapsed>> /\ Answer(c, r)
  BY DEF Lose, Fault
<1>1. /\ r \in Call /\ r.id = c.id /\ r.kind = c.kind /\ r.page = c.page /\ r.reply = "failed"
  BY <1>x, Answered, 0 \in Nat DEF Replies
<1>2. r.token = c.token /\ c.token <= issued
  BY <1>x DEF CallInv, TypeInv, Call, KnownInv
<1> HIDE DEF r
<1>3. KnownInv'
  BY <1>x, <1>0, <1>1, <1>2, AnswerKnown DEF KnownInv
<1>4. TicketInv'
  BY <1>0, <1>1, AnswerTickets
<1> QED
  BY <1>3, <1>4

(* The streams of a page, and time passing.                                *)
LEMMA KnownStays ==
  ASSUME SessionInv, UNCHANGED <<calls, owner, issued>>, valid' \subseteq valid,
         token' = token \/ token' = 0, stored' = stored \/ stored' = 0
  PROVE  KnownInv'
<1>1. KnownInv /\ issued \in Nat
  BY DEF SessionInv, BrowserInv, CallInv, TypeInv
<1>2. token' <= issued' /\ stored' <= issued'
  BY <1>1 DEF KnownInv
<1>3. valid' \subseteq 1..issued' /\ \A i \in Ids : owner'[i] <= issued'
  BY <1>1 DEF KnownInv
<1>4. \A c \in calls' : /\ c.token <= issued'
                        /\ c.reply = "refused" => c.token \notin valid'
                        /\ c.kind = "login" /\ c.reply = "ok" => c.token # 0
  BY <1>1 DEF KnownInv
<1> QED
  BY <1>2, <1>3, <1>4 DEF KnownInv

(* A ticket that goes is excused, and a stream is refused with an excuse.  *)
LEMMA TicketsStay ==
  ASSUME SessionInv, UNCHANGED <<owner, made, issued>>, calls' \subseteq calls,
         valid' \subseteq valid, lapsed \subseteq lapsed',
         \A i \in Ids : admitted'[i] \in Nat /\ admitted[i] <= admitted'[i],
         \A i \in tickets : i \in tickets' \/ Excused(i)',
         \A i \in Ids : \/ streams'[i] \in {streams[i], "closed"}
                        \/ streams[i] \in Open /\ Excused(i)'
  PROVE  TicketInv'
<1>x. CallInv /\ KnownInv /\ TicketInv
  BY DEF SessionInv, BrowserInv
<1>1. \A i \in Ids : Excused(i) => Excused(i)'
  BY <1>x, StaysExcused
<1>2. \A i \in Ids : i \in tickets \/ Excused(i) => i \in tickets' \/ Excused(i)'
  BY <1>1
<1>3. \A d \in calls : d.id \in Ids
  BY <1>x DEF CallInv, TypeInv, Call
<1>4. \A c \in calls' : c.kind = "ticket" /\ c.reply = "ok" => c.id \in tickets' \/ Excused(c.id)'
  BY <1>x, <1>2, <1>3 DEF TicketInv
<1>5. \A i \in Ids : /\ streams'[i] \in Open => i <= made'
                     /\ streams'[i] = "connecting" => i \in tickets' \/ Excused(i)'
                     /\ streams'[i] \in {"live", "rejected"} => Excused(i)'
  BY <1>x, <1>1, <1>2 DEF TicketInv, Open
<1> QED
  BY <1>4, <1>5 DEF TicketInv

LEMMA AcceptSessions ==
  ASSUME SessionInv, NEW i \in Ids, Accept(i)
  PROVE  KnownInv' /\ TicketInv'
<1>x. CallInv /\ KnownInv /\ TicketInv
  BY DEF SessionInv, BrowserInv
<1>1. /\ UNCHANGED <<token, stored, calls, owner, made, issued, valid, lapsed>>
      /\ tickets' = tickets \ {i} /\ streams[i] = "connecting"
  BY DEF Accept, requests
<1>2. \/ /\ i \in tickets /\ owner[i] \in valid /\ streams' = [streams EXCEPT ![i] = "live"]
         /\ admitted' = [admitted EXCEPT ![i] = @ + 1]
      \/ /\ ~(i \in tickets /\ owner[i] \in valid) /\ streams' = [streams EXCEPT ![i] = "rejected"]
         /\ admitted' = admitted
  BY DEF Accept
<1>3. KnownInv'
  BY <1>1, KnownStays
<1>4. \A j \in Ids : admitted'[j] \in Nat /\ admitted[j] <= admitted'[j]
  BY <1>x, <1>2 DEF CallInv, TypeInv
<1>5. Excused(i)'
  <2>1. CASE i \in tickets /\ owner[i] \in valid
    BY <1>x, <1>2, <2>1 DEF Excused, CallInv, TypeInv
  <2>2. CASE ~(i \in tickets /\ owner[i] \in valid)
    BY <1>x, <1>1, <1>2, <2>2 DEF Excused, TicketInv
  <2> QED
    BY <2>1, <2>2
<1>6. \A j \in tickets : j \in tickets' \/ Excused(j)'
  BY <1>1, <1>5
<1>7. \A j \in Ids : streams'[j] \in {streams[j], "closed"} \/ (streams[j] \in Open /\ Excused(j)')
  BY <1>x, <1>1, <1>2, <1>5 DEF CallInv, TypeInv, Open
<1>8. TicketInv'
  BY <1>1, <1>4, <1>6, <1>7, TicketsStay
<1> QED
  BY <1>3, <1>8

LEMMA OnAuthSessions ==
  ASSUME SessionInv, NEW i \in Ids, OnAuth(i)
  PROVE  KnownInv' /\ TicketInv'
<1>x. CallInv /\ KnownInv /\ TicketInv
  BY DEF SessionInv, BrowserInv
<1>1. /\ UNCHANGED <<calls, owner, made, issued, valid, tickets, admitted, lapsed>>
      /\ token' = 0 /\ stored' = 0 /\ streams[i] = "rejected"
      /\ streams' = [j \in Ids |-> IF j = source THEN "closed"
                                  ELSE IF j = i THEN "connecting" ELSE streams[j]]
  BY DEF OnAuth, requests, server
<1>2. KnownInv'
  BY <1>1, KnownStays
<1>3. \A j \in Ids : admitted'[j] \in Nat /\ admitted[j] <= admitted'[j]
  BY <1>x, <1>1 DEF CallInv, TypeInv
<1>4. Excused(i)'
  BY <1>x, <1>1 DEF TicketInv, Excused
<1>5. \A j \in Ids : streams'[j] \in {streams[j], "closed"} \/ (streams[j] \in Open /\ Excused(j)')
  BY <1>1, <1>4 DEF Open
<1>6. TicketInv'
  BY <1>1, <1>3, <1>5, TicketsStay
<1> QED
  BY <1>2, <1>6

LEMMA ReloadSessions ==
  ASSUME SessionInv, Reload
  PROVE  KnownInv' /\ TicketInv'
<1>x. CallInv /\ KnownInv /\ issued \in Nat
  BY DEF SessionInv, BrowserInv, CallInv, TypeInv
<1>1. /\ UNCHANGED <<stored, owner, made, issued, valid, tickets, admitted, lapsed>>
      /\ token' = 0 /\ calls' \subseteq calls
      /\ streams' = [i \in Ids |-> IF streams[i] \in Open THEN "closed" ELSE streams[i]]
  BY DEF Reload, server
<1>2. KnownInv'
  BY <1>x, <1>1 DEF KnownInv
<1>3. \A i \in Ids : admitted'[i] \in Nat /\ admitted[i] <= admitted'[i]
  BY <1>x, <1>1 DEF CallInv, TypeInv
<1>4. TicketInv'
  BY <1>1, <1>3, TicketsStay
<1> QED
  BY <1>2, <1>4

LEMMA QuietSessions ==
  ASSUME SessionInv, UNCHANGED <<token, stored, requests, issued, admitted>>, valid' \subseteq valid,
         lapsed \subseteq lapsed', \A i \in tickets : i \in tickets' \/ i \in lapsed',
         \A i \in Ids : streams'[i] = streams[i] \/ (streams[i] = "live" /\ streams'[i] = "connecting")
  PROVE  KnownInv' /\ TicketInv'
<1>x. CallInv /\ KnownInv /\ TicketInv
  BY DEF SessionInv, BrowserInv
<1>1. UNCHANGED <<calls, owner, made>>
  BY DEF requests
<1>2. KnownInv'
  BY <1>1, KnownStays
<1>3. \A i \in Ids : admitted'[i] \in Nat /\ admitted[i] <= admitted'[i]
  BY <1>x DEF CallInv, TypeInv
<1>4. \A i \in Ids : Excused(i) => Excused(i)'
  BY <1>x, <1>1, <1>3, StaysExcused
<1>5. \A i \in tickets : i \in tickets' \/ Excused(i)'
  BY DEF Excused
<1>6. \A i \in Ids : streams'[i] \in {streams[i], "closed"} \/ (streams[i] \in Open /\ Excused(i)')
  BY <1>x, <1>4 DEF TicketInv, Open
<1>7. TicketInv'
  BY <1>1, <1>3, <1>5, <1>6, TicketsStay
<1> QED
  BY <1>2, <1>7

-----------------------------------------------------------------------------
LEMMA SessionInit == Init => KnownInv /\ TicketInv
<1> SUFFICES ASSUME Init PROVE KnownInv /\ TicketInv
  OBVIOUS
<1>1. issued \in Nat /\ token = 0 /\ stored = issued /\ calls = {} /\ valid \subseteq 1..issued
  BY BrowserBounds DEF Init
<1>2. \A i \in Ids : owner[i] = 0 /\ streams[i] = "none"
  BY DEF Init
<1>3. KnownInv
  BY <1>1, <1>2 DEF KnownInv
<1>4. TicketInv
  BY <1>1, <1>2 DEF TicketInv, Open
<1> QED
  BY <1>3, <1>4

LEMMA SessionNext == SessionInv /\ [Next]_vars => SessionInv'
<1> SUFFICES ASSUME SessionInv, [Next]_vars PROVE SessionInv'
  OBVIOUS
<1>0. BrowserInv'
  BY BrowserNext DEF SessionInv
<1> SUFFICES KnownInv' /\ TicketInv'
  BY <1>0 DEF SessionInv
<1>1. CASE PageStep
  BY <1>1, PageSessions
<1>2. CASE Reload
  BY <1>2, ReloadSessions
<1>3. CASE \E c \in calls : ServeLogin(c) \/ Serve(c) \/ Lose(c)
  BY <1>3, ServeLoginSessions, ServeSessions, LoseSessions
<1>4. CASE \E i \in Ids : OnAuth(i) \/ Accept(i)
  BY <1>4, OnAuthSessions, AcceptSessions
<1>5. ASSUME NEW i \in Ids, Drop(i) PROVE KnownInv' /\ TicketInv'
  <2>1. \A j \in Ids : streams'[j] = streams[j] \/ (streams[j] = "live" /\ streams'[j] = "connecting")
    BY <1>5 DEF Drop, SessionInv, BrowserInv, CallInv, TypeInv
  <2> QED
    BY <1>5, <2>1, QuietSessions DEF Drop
<1>6. ASSUME NEW i \in Ids, ExpireTicket(i) PROVE KnownInv' /\ TicketInv'
  BY <1>6, QuietSessions DEF ExpireTicket, browser
<1>7. ASSUME NEW s \in Sessions, Expire(s) PROVE KnownInv' /\ TicketInv'
  BY <1>7, QuietSessions DEF Expire, browser
<1>8. CASE UNCHANGED vars
  BY <1>8, QuietSessions DEF vars, browser, server
<1> QED
  BY <1>1, <1>2, <1>3, <1>4, <1>5, <1>6, <1>7, <1>8 DEF Next, PageStep

LEMMA SessionInvariant == Spec => []SessionInv
<1>1. Init => SessionInv
  BY BrowserInit, SessionInit DEF SessionInv
<1> QED
  BY <1>1, SessionNext, PTL DEF Spec

(* A handler that clears the session.                                      *)
LEMMA PageSignsOut ==
  ASSUME SessionInv, PageStep, token # 0, token' = 0
  PROVE  \/ token \notin valid
         \/ \E c \in Mine \ calls' :
              c.kind \in {"logout", "restore"} \/ (c.reply = "refused" /\ c.token # token)
<1>1. CallInv /\ KnownInv /\ ReloadResumes
  BY DEF SessionInv, BrowserInv
<1>2. PICK done \in SUBSET calls, kinds \in Seq(Kinds), t \in Nat : Steps(done, kinds, t)
  BY <1>1, PageShape
<1>w. Exchanged(done, kinds, t)
  BY <1>1, <1>2, ExchangeCalls, PageShape DEF Steps
<1>3. CASE Applied(done, kinds, t)
  <2>1. PICK c \in Mine : c.kind = "login" /\ c.reply = "ok" /\ token' = c.token
    BY <1>3 DEF Applied
  <2> QED
    BY <1>1, <2>1 DEF KnownInv, Mine
<1>4. CASE Cleared(done, kinds)
  <2>1. stored # 0
    BY <1>1 DEF ReloadResumes
  <2>2. PICK c \in done : /\ c \in Mine
                         /\ \/ c.kind \in {"restore", "logout"}
                            \/ c.kind \in Work /\ c.reply = "refused"
    BY <1>4, <2>1 DEF Cleared
  <2>3. c \notin calls'
    <3>1. c.id <= made /\ c.id \in Nat /\ made \in Nat
      BY <1>1 DEF CallInv, TypeInv, Numbered, Call, Ids
    <3> QED
      BY <1>w, <3>1 DEF Exchanged
  <2>4. c.reply = "refused" => c.token \notin valid
    BY <1>1, <2>2 DEF KnownInv, Mine
  <2> QED
    BY <2>2, <2>3, <2>4
<1> QED
  BY <1>2, <1>3, <1>4 DEF Steps, Streaming, Staying

(* For any number of sessions, requests, faults and reloads: a page loses  *)
(* the session it shows only because the session ended, because of its own *)
(* sign-out or lookup, because a request of another session was refused,   *)
(* or because a stream was refused that had been connected before, whose   *)
(* ticket expired first or which is another session's.                     *)
THEOREM SignOutsAccounted == Spec => SignOutAccounted
<1> DEFINE Refused(i) == /\ streams[i] = "rejected" /\ streams'[i] # "rejected"
                         /\ admitted[i] > 0 \/ i \in lapsed \/ owner[i] # token
           Reason == \/ token \notin valid
                     \/ \E c \in Mine \ calls' :
                          c.kind \in {"logout", "restore"} \/ (c.reply = "refused" /\ c.token # token)
                     \/ \E i \in Ids : Refused(i)
<1>1. SessionInv /\ [Next]_vars => [token # 0 /\ token' = 0 /\ page' = page => Reason]_vars
  <2> SUFFICES ASSUME SessionInv, Next, token # 0, token' = 0, page' = page PROVE Reason
    OBVIOUS
  <2>1. CASE PageStep
    BY <2>1, PageSignsOut
  <2>2. CASE Reload
    <3>1. page \in Nat /\ page' = page + 1
      BY <2>2 DEF Reload, SessionInv, BrowserInv, CallInv, TypeInv
    <3> QED
      BY <3>1
  <2>3. CASE \E c \in calls : ServeLogin(c) \/ Serve(c) \/ Lose(c)
    BY <2>3 DEF ServeLogin, Serve, Lose, browser
  <2>4. CASE \E i \in Ids : Accept(i) \/ Drop(i) \/ ExpireTicket(i)
    BY <2>4 DEF Accept, Drop, ExpireTicket, browser
  <2>5. ASSUME NEW i \in Ids, OnAuth(i) PROVE Reason
    <3>1. streams[i] = "rejected" /\ streams'[i] # "rejected"
      BY <2>5 DEF OnAuth
    <3>2. Excused(i)
      BY <3>1 DEF SessionInv, TicketInv
    <3> QED
      BY <3>1, <3>2 DEF Excused
  <2>6. ASSUME NEW s \in Sessions, Expire(s) PROVE FALSE
    BY <2>6 DEF Expire, browser
  <2> QED
    BY <2>1, <2>2, <2>3, <2>4, <2>5, <2>6 DEF Next, PageStep
<1> QED
  BY <1>1, SessionInvariant, PTL DEF Spec, SignOutAccounted
=============================================================================
