------------------------ MODULE PlayerAdapter_proofs ------------------------
(* The player on top of the playback service, for any number of overlapping  *)
(* commands, requests and queues: types, and the two properties of what the  *)
(* engine is given.                                                          *)
EXTENDS PlayerAdapter, TLAPS

Places == {"free", "load", "check", "save", "answered", "refused", "failed"}
CallRecord == [at : Places, op : OtherOps, user : Users \cup {None}, id : Ids \cup {0},
               track : Tracks \cup {None}, front : BOOLEAN, base : Session \cup {None}]

\* What a request may be about to do: the base it saves over belongs to its
\* user, the track it saves is in the catalog, and App's never adds to a queue.
CallOK(k) ==
  /\ k \in CallRecord /\ (k.at # "free" => k.user \in Users)
  /\ k.at = "load" => k.id \in Ids /\ k.op # "create"
  /\ k.at \in {"check", "save"} /\ k.op # "create" =>
       /\ k.id \in Ids /\ k.base \in Session /\ k.base # None /\ k.base.user = k.user
       /\ k.base.track \in Catalog \cup {None}
       /\ k.op = "next" => k.base.queue # <<>>
       /\ k.user = App => k.base.queue = <<>> /\ k.op # "next"
  /\ k.at = "check" => k.op \in {"play", "next", "enqueue"}
  /\ k.at = "save" /\ k.op \in {"play", "next", "enqueue"} => k.track \in Catalog
  /\ k.at = "answered" /\ k.op = "create" => k.id \in Ids
  /\ k.at = "answered" /\ k.op \in {"play", "next"} => k.track \in Catalog
  /\ k.user = App /\ k.at # "free" =>
       k.op # "enqueue" /\ (k.op = "next" => k.at # "answered")
CallInv == \A c \in Calls : CallOK(call[c])

SessionOK(s) ==
  s # None => /\ s \in Session /\ s.track \in Catalog \cup {None}
              /\ s.user = App => s.queue = <<>>
SessionInv ==
  /\ \A i \in Ids : SessionOK(session[i])
  /\ DOMAIN session = Ids /\ session = [i \in Ids |-> session[i]]
  /\ made \in 0..MaxSessions /\ queued \in [Ids -> Nat] /\ disturbed \subseteq Ids
  /\ DOMAIN call = Calls /\ call = [c \in Calls |-> call[c]]

-----------------------------------------------------------------------------

LEMMA FreeIsOK == CallOK(Free)
BY DEF CallOK, Free, CallRecord, Places, OtherOps

\* A request as it leaves.
LEMMA SendIsOK ==
  ASSUME CallInv, SessionInv, NEW c \in Calls, NEW op \in OtherOps, NEW u \in Users, NEW i \in Ids \cup {0},
         NEW t \in Tracks \cup {None}, NEW front \in BOOLEAN,
         op = "create" \/ i \in Ids, u = App => op # "enqueue",
         Send(c, op, u, i, t, front)
  PROVE  CallInv' /\ DOMAIN call' = Calls /\ call' = [d \in Calls |-> call'[d]]
<1> DEFINE k == [at |-> IF op = "create" THEN "save" ELSE "load", op |-> op, user |-> u,
                 id |-> i, track |-> t, front |-> front, base |-> None]
<1>1. CallOK(k)
  BY DEF CallOK, CallRecord, Places, OtherOps
<1>2. call' = [call EXCEPT ![c] = k]
  BY DEF Send
<1> HIDE DEF k
<1> QED BY <1>1, <1>2 DEF CallInv, SessionInv

LEMMA ReleaseIsOK ==
  ASSUME CallInv, SessionInv, NEW c \in Calls, Release(c)
  PROVE  CallInv' /\ DOMAIN call' = Calls /\ call' = [d \in Calls |-> call'[d]]
BY FreeIsOK DEF Release, CallInv, SessionInv

\* What is saved is a session again, of the same user.
LEMMA UpdatedIsOK ==
  ASSUME NEW k, CallOK(k), k.at = "save", k.op # "create", NEW n \in Nat
  PROVE  Updated(k, <<n, k.track>>) \in Session /\ SessionOK(Updated(k, <<n, k.track>>))
<1> USE DEF CallOK, CallRecord, SessionOK, Session, OtherOps
<1> DEFINE e == <<n, k.track>>
           b == k.base
<1>1. /\ b \in Session /\ b.user = k.user /\ b.track \in Catalog \cup {None}
      /\ b.queue \in Seq(Nat \X Catalog)
  OBVIOUS
<1>2. CASE k.op = "play"
  BY <1>2, <1>1 DEF Updated, Played
<1>3. CASE k.op = "next"
  <2>1. Tail(b.queue) \in Seq(Nat \X Catalog)
    BY <1>1, <1>3
  <2> QED BY <1>1, <1>3, <2>1 DEF Updated, Played, Taken
<1>4. CASE k.op = "pause"
  BY <1>4, <1>1 DEF Updated
<1>5. CASE k.op = "enqueue"
  <2>1. k.user # App /\ e \in Nat \X Catalog /\ k.front \in BOOLEAN
    BY <1>5
  <2>2. <<e>> \o b.queue \in Seq(Nat \X Catalog) /\ Append(b.queue, e) \in Seq(Nat \X Catalog)
    BY <1>1, <2>1
  <2>3. CASE k.front
    <3>1. Updated(k, e) = [b EXCEPT !.queue = <<e>> \o b.queue]
      BY <1>5, <2>3 DEF Updated
    <3> QED BY <1>1, <2>1, <2>2, <3>1
  <2>4. CASE ~k.front
    <3>1. Updated(k, e) = [b EXCEPT !.queue = Append(b.queue, e)]
      BY <1>5, <2>4 DEF Updated
    <3> QED BY <1>1, <2>1, <2>2, <3>1
  <2> QED BY <2>1, <2>3, <2>4
<1>6. CASE k.op \notin {"play", "next", "pause", "enqueue"}
  BY <1>6, <1>1 DEF Updated
<1> QED BY <1>2, <1>3, <1>4, <1>5, <1>6

\* The service keeps sessions and requests as they should be.
LEMMA ServerStep ==
  ASSUME CallInv, SessionInv,
         \/ \E c \in Calls : Serve(c) \/ Break(c)
         \/ \E i \in Ids : Expire(i)
  PROVE  CallInv' /\ SessionInv'
<1> USE PlaybackAssumption DEF history, Ids
<1>t. /\ session = [i \in Ids |-> session[i]] /\ call = [c \in Calls |-> call[c]]
      /\ DOMAIN session = Ids /\ DOMAIN call = Calls
      /\ made \in 0..MaxSessions /\ queued \in [Ids -> Nat] /\ disturbed \subseteq Ids
  BY DEF SessionInv
<1>k. ASSUME NEW c \in Calls, NEW k, CallOK(k), call' = [call EXCEPT ![c] = k],
             UNCHANGED <<session, made, queued, disturbed>>
      PROVE  CallInv' /\ SessionInv'
  BY <1>t, <1>k DEF CallInv, SessionInv
<1>1. ASSUME NEW c \in Calls, Load(c) PROVE CallInv' /\ SessionInv'
  <2> DEFINE k == call[c]
             s == session[k.id]
             op == k.op
             sure == [k EXCEPT !.base = s,
                               !.track = IF op = "next" THEN Head(s.queue)[2] ELSE k.track,
                               !.at = IF op \in {"pause", "seek"} THEN "save" ELSE "check"]
  <2>1. /\ CallOK(k) /\ k.at = "load" /\ k.id \in Ids /\ op # "create" /\ SessionOK(s)
        /\ UNCHANGED <<session, made, queued, disturbed>>
    BY <1>1 DEF Load, CallInv, CallOK, SessionInv
  <2>2. \/ Reply(c, "refused")
        \/ op = "state" /\ Reply(c, "answered")
        \/ /\ Owned(s, k.user) /\ op # "state" /\ ~(op = "next" /\ s.queue = <<>>)
           /\ call' = [call EXCEPT ![c] = sure]
    BY <1>1, <1>t DEF Load
  <2>3. CASE Reply(c, "refused")
    <3>1. CallOK([k EXCEPT !.at = "refused", !.base = None])
      BY <2>1 DEF CallOK, CallRecord, Places
    <3>2. call' = [call EXCEPT ![c] = [k EXCEPT !.at = "refused", !.base = None]]
      BY <2>3, <1>t DEF Reply
    <3> HIDE DEF k
    <3> QED BY <1>k, <2>1, <3>1, <3>2
  <2>4. CASE op = "state" /\ Reply(c, "answered")
    <3>1. CallOK([k EXCEPT !.at = "answered", !.base = None])
      BY <2>1, <2>4 DEF CallOK, CallRecord, Places
    <3>2. call' = [call EXCEPT ![c] = [k EXCEPT !.at = "answered", !.base = None]]
      BY <2>4, <1>t DEF Reply
    <3> HIDE DEF k
    <3> QED BY <1>k, <2>1, <3>1, <3>2
  <2>5. CASE /\ Owned(s, k.user) /\ op # "state" /\ ~(op = "next" /\ s.queue = <<>>)
             /\ call' = [call EXCEPT ![c] = sure]
    <3>1. /\ s \in Session /\ s # None /\ s.user = k.user /\ s.track \in Catalog \cup {None}
          /\ s.user = App => s.queue = <<>>
          /\ k \in CallRecord
          /\ k.user = App => op # "next"
      BY <2>1, <2>5 DEF Owned, SessionOK, CallOK
    <3>2. op = "next" => Head(s.queue)[2] \in Tracks
      BY <2>5, <3>1 DEF Session
    <3>3. sure \in CallRecord
      <4> DEFINE t == IF op = "next" THEN Head(s.queue)[2] ELSE k.track
                 p == IF op \in {"pause", "seek"} THEN "save" ELSE "check"
      <4>0. k \in CallRecord /\ s \in Session
        BY <3>1
      <4>1. k.track \in Tracks \cup {None}
        BY ONLY <4>0 DEF CallRecord
      <4>2. t \in Tracks \cup {None}
        BY <3>2, <4>1
      <4>3. p \in Places
        BY DEF Places
      <4> HIDE DEF t, p, k
      <4>4. [k EXCEPT !.base = s, !.track = t, !.at = p] \in CallRecord
        BY ONLY <4>0, <4>2, <4>3 DEF CallRecord
      <4> QED BY <4>4 DEF t, p
    <3>4. CallOK(sure)
      <4>1. /\ sure.user = k.user /\ sure.op = op /\ sure.id = k.id /\ sure.base = s
            /\ sure.at = IF op \in {"pause", "seek"} THEN "save" ELSE "check"
        BY <3>1 DEF CallRecord
      <4>2. /\ op \in OtherOps \ {"create", "state"} /\ k.user \in Users
            /\ k.user = App => op # "enqueue"
        BY <2>1, <2>5, <3>1 DEF CallOK, CallRecord
      <4> HIDE DEF sure, k, s, op
      <4> QED BY <2>1, <2>5, <3>1, <3>3, <4>1, <4>2 DEF CallOK, OtherOps, op
    <3> HIDE DEF sure
    <3> QED BY <1>k, <2>1, <2>5, <3>4
  <2> QED BY <2>2, <2>3, <2>4, <2>5
<1>2. ASSUME NEW c \in Calls, CheckTrack(c) PROVE CallInv' /\ SessionInv'
  <2> DEFINE k == call[c]
  <2>1. /\ CallOK(k) /\ k.at = "check" /\ UNCHANGED <<session, made, queued, disturbed>>
        /\ \/ k.track \in Catalog /\ call' = [call EXCEPT ![c] = [k EXCEPT !.at = "save"]]
           \/ call' = [call EXCEPT ![c] = [k EXCEPT !.at = "refused", !.base = None]]
    BY <1>2, <1>t DEF CheckTrack, Step, Reply, CallInv
  <2>2. /\ k.track \in Catalog => CallOK([k EXCEPT !.at = "save"])
        /\ CallOK([k EXCEPT !.at = "refused", !.base = None])
    BY <2>1 DEF CallOK, CallRecord, Places
  <2> HIDE DEF k
  <2> QED BY <1>k, <2>1, <2>2
<1>3. ASSUME NEW c \in Calls, Create(c) PROVE CallInv' /\ SessionInv'
  <2> DEFINE k == call[c]
  <2>1. /\ CallOK(k) /\ k.at = "save" /\ k.op = "create" /\ made' = made + 1
        /\ made' \in 1..MaxSessions /\ UNCHANGED <<queued, disturbed>>
        /\ session' = [session EXCEPT ![made'] = Empty(k.user)]
        /\ call' = [call EXCEPT ![c] = [k EXCEPT !.at = "answered", !.id = made']]
    <3>1. CallOK(k)
      BY DEF CallInv
    <3>2. made' = made + 1 /\ made < MaxSessions
      BY <1>3 DEF Create
    <3>3. made' \in 1..MaxSessions
      BY <1>t, <3>2
    <3>4. call' = [call EXCEPT ![c] = [k EXCEPT !.at = "answered", !.id = made']]
      BY <1>3, <1>t DEF Create
    <3> QED BY <1>3, <3>1, <3>2, <3>3, <3>4 DEF Create
  <2>2. CallOK([k EXCEPT !.at = "answered", !.id = made'])
    BY <2>1 DEF CallOK, CallRecord, Places
  <2>3. SessionOK(Empty(k.user))
    BY <2>1 DEF CallOK, CallRecord, SessionOK, Session, Empty
  <2> HIDE DEF k
  <2>4. CallInv' /\ DOMAIN call' = Calls /\ call' = [d \in Calls |-> call'[d]]
    BY <1>t, <2>1, <2>2 DEF CallInv
  <2>5. /\ \A i \in Ids : SessionOK(session'[i])
        /\ session' = [i \in Ids |-> session'[i]] /\ DOMAIN session' = Ids
    BY <1>t, <2>1, <2>3 DEF SessionInv
  <2> QED BY <1>t, <2>1, <2>4, <2>5 DEF SessionInv
<1>4. ASSUME NEW c \in Calls, Save(c) PROVE CallInv' /\ SessionInv'
  <2> DEFINE k == call[c]
             n == queued[k.id] + 1
  <2>1. /\ CallOK(k) /\ k.at = "save" /\ k.op # "create" /\ k.id \in Ids /\ n \in Nat
        /\ session' = [session EXCEPT ![k.id] = Updated(k, <<n, k.track>>)]
        /\ made' = made
        /\ call' = [call EXCEPT ![c] = [k EXCEPT !.at = "answered", !.base = None]]
    <3>1. CallOK(k) /\ k.at = "save" /\ k.op # "create"
      BY <1>4 DEF Save, CallInv
    <3>2. k.id \in Ids
      BY <3>1 DEF CallOK
    <3>3. n \in Nat
      BY <3>2, <1>t
    <3>4. /\ session' = [session EXCEPT ![k.id] = Updated(k, <<n, k.track>>)]
          /\ made' = made /\ Reply(c, "answered")
      BY <1>4 DEF Save
    <3>5. call' = [call EXCEPT ![c] = [k EXCEPT !.at = "answered", !.base = None]]
      BY <1>t, <3>4 DEF Reply
    <3> QED BY <3>1, <3>2, <3>3, <3>4, <3>5
  <2>2. queued' \in [Ids -> Nat] /\ disturbed' \subseteq Ids
    BY <1>4, <1>t, <2>1 DEF Save
  <2>3. CallOK([k EXCEPT !.at = "answered", !.base = None])
    BY <2>1 DEF CallOK, CallRecord, Places
  <2>4. SessionOK(Updated(k, <<n, k.track>>))
    BY <2>1, UpdatedIsOK
  <2> HIDE DEF k, n
  <2>5. CallInv' /\ DOMAIN call' = Calls /\ call' = [d \in Calls |-> call'[d]]
    BY <1>t, <2>1, <2>3 DEF CallInv
  <2>6. /\ \A i \in Ids : SessionOK(session'[i])
        /\ session' = [i \in Ids |-> session'[i]] /\ DOMAIN session' = Ids
    BY <1>t, <2>1, <2>4 DEF SessionInv
  <2> QED BY <1>t, <2>1, <2>2, <2>5, <2>6 DEF SessionInv
<1>5. ASSUME NEW c \in Calls, Break(c) PROVE CallInv' /\ SessionInv'
  <2> DEFINE k == call[c]
  <2>1. /\ CallOK(k) /\ k.at # "free" /\ UNCHANGED <<session, made, queued, disturbed>>
        /\ call' = [call EXCEPT ![c] = [k EXCEPT !.at = "failed", !.base = None]]
    BY <1>5, <1>t DEF Break, Reply, CallInv
  <2>2. CallOK([k EXCEPT !.at = "failed", !.base = None])
    BY <2>1 DEF CallOK, CallRecord, Places
  <2> HIDE DEF k
  <2> QED BY <1>k, <2>1, <2>2
<1>6. ASSUME NEW i \in Ids, Expire(i) PROVE CallInv' /\ SessionInv'
  <2>1. /\ session' = [session EXCEPT ![i] = None]
        /\ UNCHANGED <<made, call, queued, disturbed>> /\ SessionOK(None)
    BY <1>6 DEF Expire, SessionOK
  <2>2. \A j \in Ids : SessionOK(session'[j])
    BY <1>t, <2>1 DEF SessionInv
  <2>3. session' = [j \in Ids |-> session'[j]] /\ DOMAIN session' = Ids
    BY <1>t, <2>1
  <2>4. CallInv'
    BY <2>1 DEF CallInv
  <2> QED BY <1>t, <2>1, <2>2, <2>3, <2>4 DEF SessionInv
<1> QED BY <1>1, <1>2, <1>3, <1>4, <1>5, <1>6 DEF Serve

-----------------------------------------------------------------------------
(* The app's side *)

\* The call a command waits for is its own and was made for its item.
TaskOK(t, k) ==
  /\ t \in [at : {"idle", "session", "resolve", "load", "playing", "prefetch", "dropping",
                   "sync"},
             how : {"play", "next"}, item : Catalog \cup {None}, res : Catalog \cup {None}]
  /\ t.at \in {"session", "resolve", "load"} => t.item \in Catalog
  /\ t.at = "session" /\ k # Free => k.user = App /\ k.op = "create" /\ k.at # "free"
  /\ t.at = "resolve" => /\ k.user = App /\ k.op = t.how /\ k.at # "free"
                         /\ t.how = "play" => k.track = t.item
  /\ t.at = "prefetch" => /\ k.user = App /\ k.op = "play" /\ k.at # "free"
                          /\ k.track = t.item
  /\ t.at \in {"load", "playing", "dropping"} => k = Free
  /\ t.at = "load" => t.res = t.item
TaskInv == \A c \in Calls : TaskOK(task[c], call[c])
PlayerInv ==
  /\ task = [c \in Calls |-> task[c]] /\ DOMAIN task = Calls
  /\ queue \in Queues \cup {<<>>} /\ index \in 0..(Len(queue) + 1)
  /\ sid \in Ids \cup {None} /\ warm \in Catalog \cup {None}
  /\ \A c \in Calls : task[c].at \in {"resolve", "load", "playing", "prefetch"} => sid \in Ids

\* Without an overlap the one command that loads is for the current item.
LoneLoader ==
  ~overlap /\ Current # None =>
    \A c \in Calls : Loading(c) => /\ task[c].item = Current
                                  /\ \A d \in Calls : Loading(d) => d = c

\* A prefetch that no command overtook is for the next item,
PrefetchInv ==
  ~outrun /\ Current # None =>
    \A c \in Calls : task[c].at = "prefetch" => task[c].item = NextItem

\* and the engine's list, once nothing loads, is the current item and then such
\* items only.
EngineInv ==
  /\ sources \in Seq(Catalog) /\ heard \in 0..Len(sources)
  /\ sources # <<>> => heard # 0
ListInv ==
  (\A c \in Calls : ~Loading(c)) /\ ~failed /\ ~overlap /\ Current # None
    => /\ sources # <<>> /\ sources[1] = Current
       /\ ~outrun => \A n \in 2..Len(sources) : sources[n] = NextItem

LEMMA QueuesAreSeqs ==
  ASSUME PlayerInv
  PROVE  /\ queue \in Seq(Catalog) /\ Len(queue) \in Nat /\ index \in Nat
         /\ \A i \in 1..Len(queue) : queue[i] \in Catalog
         /\ NextItem \in Catalog \cup {None} /\ (NextItem # None => index + 1 \in 1..Len(queue))
         /\ Current \in Catalog \cup {None} /\ index \in 0..(Len(queue) + 1)
<1>1. queue \in Seq(Catalog) /\ index \in 0..(Len(queue) + 1)
  <2>1. <<>> \in Seq(Catalog)
    OBVIOUS
  <2> QED BY <2>1, AdapterAssumption DEF PlayerInv
<1>2. Len(queue) \in Nat /\ \A i \in 1..Len(queue) : queue[i] \in Catalog
  BY <1>1
<1> QED BY <1>1, <1>2 DEF NextItem, Current

\* A request goes on without changing whose it is, what it asks and, unless
\* it takes it from the queue, for which track; it does not become free.
LEMMA RequestsKeepTheirOwner ==
  ASSUME CallInv, SessionInv, NEW d \in Calls,
         \/ \E c \in Calls : Serve(c) \/ Break(c)
         \/ \E i \in Ids : Expire(i)
  PROVE  \/ call'[d] = call[d]
         \/ /\ call[d].at # "free" /\ call'[d].at # "free"
            /\ call'[d].user = call[d].user /\ call'[d].op = call[d].op
            /\ call'[d].track = call[d].track \/ call[d].op = "next"
<1>t. /\ DOMAIN call = Calls /\ call = [c \in Calls |-> call[c]] /\ call[d] \in CallRecord
  BY DEF SessionInv, CallInv, CallOK
<1>1. ASSUME NEW c \in Calls, Load(c) \/ CheckTrack(c)
      PROVE  \/ call'[d] = call[d]
             \/ /\ call[d].at # "free" /\ call'[d].at # "free"
                /\ call'[d].user = call[d].user /\ call'[d].op = call[d].op
                /\ call'[d].track = call[d].track \/ call[d].op = "next"
  BY <1>1, <1>t DEF Load, CheckTrack, Reply, Step, CallRecord
<1>2. ASSUME NEW c \in Calls, Create(c) \/ Reply(c, "answered") \/ Reply(c, "failed"),
             call[c].at # "free"
      PROVE  \/ call'[d] = call[d]
             \/ /\ call[d].at # "free" /\ call'[d].at # "free"
                /\ call'[d].user = call[d].user /\ call'[d].op = call[d].op
                /\ call'[d].track = call[d].track \/ call[d].op = "next"
  BY <1>2, <1>t DEF Create, Reply, CallRecord
<1>3. ASSUME NEW i \in Ids, Expire(i) PROVE call' = call
  BY <1>3 DEF Expire
<1>4. ASSUME NEW c \in Calls, Save(c) \/ Break(c)
      PROVE  call[c].at # "free" /\ (Reply(c, "answered") \/ Reply(c, "failed"))
  BY <1>4 DEF Save, Break
<1>5. ASSUME NEW c \in Calls, Create(c) PROVE call[c].at # "free"
  BY <1>5 DEF Create
<1> QED BY <1>1, <1>2, <1>3, <1>4, <1>5 DEF Serve

\* A step of the app or of the other client, on the call c.
Starting(c) == \/ \E q \in Queues : \E i \in DOMAIN q : PlayFromQueue(c, q, i)
               \/ SkipNext(c) \/ SkipPrevious(c)
Quietly(c) == DropWarm(c) \/ \E q \in Queues \cup {<<>>} : PlayNothing(c, q)
Calling(c) == \/ AskSession(c) \/ AskTrack(c) \/ \E op \in {"pause", "seek"} : Sync(c, op)
Taking(c) == TakeSession(c) \/ TakeTrack(c) \/ TakePrefetch(c) \/ EndSync(c) \/ OtherDone(c)
Asking(c) == \E op \in OtherOps, i \in 0..made, t \in Tracks \cup {None}, front \in BOOLEAN :
               OtherAsks(c, op, i, t, front)

LEMMA Steps ==
  ASSUME Next
  PROVE  \/ World \/ EngineAdvances
         \/ \E c \in Calls : \/ Starting(c) \/ Calling(c) \/ Taking(c) \/ Asking(c)
                            \/ UseWarm(c) \/ LoadSource(c) \/ Prefetch(c) \/ Quietly(c)
BY Zenon DEF Next, Starting, Calling, Taking, Asking, Quietly

\* What the clients send is as it should be.
LEMMA CallStep ==
  ASSUME CallInv, SessionInv, TaskInv, PlayerInv, [Next]_vars
  PROVE  CallInv' /\ SessionInv'
<1> USE DEF server, history, player, engine, marks
<1>k. ASSUME UNCHANGED server PROVE CallInv' /\ SessionInv'
  BY <1>k DEF CallInv, SessionInv
<1>c. ASSUME UNCHANGED <<session, made, history>>, CallInv',
             DOMAIN call' = Calls, call' = [d \in Calls |-> call'[d]]
      PROVE  CallInv' /\ SessionInv'
  BY <1>c DEF SessionInv
<1>u. App \in Users /\ Other \in Users /\ App # Other /\ Catalog \subseteq Tracks
  BY AdapterAssumption, PlaybackAssumption
<1>0. CASE EngineAdvances \/ UNCHANGED vars
  BY <1>0, <1>k DEF vars, EngineAdvances
<1>1. CASE World
  BY <1>1, ServerStep DEF World
<1>2. ASSUME NEW c \in Calls, Starting(c) \/ UseWarm(c) \/ LoadSource(c) \/ Quietly(c)
      PROVE  CallInv' /\ SessionInv'
  BY <1>2, <1>k DEF Starting, PlayFromQueue, SkipNext, SkipPrevious, UseWarm, LoadSource,
     Quietly, DropWarm, PlayNothing
<1>3. ASSUME NEW c \in Calls, Taking(c) PROVE CallInv' /\ SessionInv'
  <2>1. Release(c) /\ UNCHANGED <<session, made, history>>
    BY <1>3 DEF Taking, TakeSession, TakeTrack, TakePrefetch, EndSync, OtherDone
  <2> QED BY <2>1, <1>c, ReleaseIsOK
<1>4. ASSUME NEW c \in Calls, Asking(c) PROVE CallInv' /\ SessionInv'
  <2>1. PICK op \in OtherOps, i \in 0..made, t \in Tracks \cup {None}, front \in BOOLEAN :
          OtherAsks(c, op, i, t, front)
    BY <1>4 DEF Asking
  <2>2. /\ Send(c, op, Other, i, t, front) /\ (i = 0) = (op = "create")
        /\ UNCHANGED <<session, made, history>>
    BY <2>1 DEF OtherAsks
  <2>3. i \in Ids \cup {0}
    BY PlaybackAssumption DEF SessionInv, Ids
  <2>4. op = "create" \/ i \in Ids
    BY <2>2, <2>3
  <2>5. CallInv' /\ DOMAIN call' = Calls /\ call' = [d \in Calls |-> call'[d]]
    BY <2>2, <2>3, <2>4, <1>u, SendIsOK
  <2> QED BY <2>2, <2>5, <1>c
<1>5. ASSUME NEW c \in Calls, AskSession(c) PROVE CallInv' /\ SessionInv'
  <2>1. Send(c, "create", App, 0, None, FALSE) /\ UNCHANGED <<session, made, history>>
    BY <1>5 DEF AskSession
  <2>2. CallInv' /\ DOMAIN call' = Calls /\ call' = [d \in Calls |-> call'[d]]
    BY <2>1, <1>u, SendIsOK DEF OtherOps
  <2> QED BY <2>1, <2>2, <1>c
<1>6. ASSUME NEW c \in Calls, AskTrack(c) PROVE CallInv' /\ SessionInv'
  <2> DEFINE t == IF task[c].how = "play" THEN task[c].item ELSE None
  <2>1. Send(c, task[c].how, App, sid, t, FALSE) /\ UNCHANGED <<session, made, history>>
    BY <1>6 DEF AskTrack
  <2>2. t \in Tracks \cup {None} /\ sid \in Ids /\ task[c].how \in {"play", "next"}
    BY <1>6, <1>u DEF AskTrack, PlayerInv, TaskInv, TaskOK
  <2> HIDE DEF t
  <2>3. CallInv' /\ DOMAIN call' = Calls /\ call' = [d \in Calls |-> call'[d]]
    BY <2>1, <2>2, <1>u, SendIsOK DEF OtherOps
  <2> QED BY <2>1, <2>3, <1>c
<1>7. ASSUME NEW c \in Calls, NEW op \in {"pause", "seek"}, Sync(c, op)
      PROVE  CallInv' /\ SessionInv'
  <2>1. Send(c, op, App, sid, None, FALSE) /\ UNCHANGED <<session, made, history>> /\ sid \in Ids
    BY <1>7 DEF Sync, PlayerInv
  <2>2. CallInv' /\ DOMAIN call' = Calls /\ call' = [d \in Calls |-> call'[d]]
    BY <2>1, <1>u, SendIsOK DEF OtherOps
  <2> QED BY <2>1, <2>2, <1>c
<1>8. ASSUME NEW c \in Calls, Prefetch(c) PROVE CallInv' /\ SessionInv'
  <2>1. CASE UNCHANGED call
    BY <2>1, <1>8, <1>k DEF Prefetch
  <2>2. CASE NextItem # None /\ Send(c, "play", App, sid, NextItem, FALSE)
    <3>1. UNCHANGED <<session, made, history>> /\ NextItem \in Tracks
      BY <2>2, <1>8, <1>u, QueuesAreSeqs DEF Prefetch
    <3>2. sid \in Ids
      BY <1>8 DEF Prefetch, PlayerInv
    <3>3. CallInv' /\ DOMAIN call' = Calls /\ call' = [d \in Calls |-> call'[d]]
      BY <2>2, <3>1, <3>2, <1>u, SendIsOK DEF OtherOps
    <3> QED BY <3>1, <3>3, <1>c
  <2> QED BY <1>8, <2>1, <2>2 DEF Prefetch
<1> QED BY <1>0, <1>1, <1>2, <1>3, <1>4, <1>5, <1>6, <1>7, <1>8, Steps DEF Calling

\* What a command waits for is what it asked for.
LEMMA TaskStep ==
  ASSUME CallInv, SessionInv, TaskInv, PlayerInv, [Next]_vars
  PROVE  TaskInv'
<1> USE DEF server, history, player, engine, marks
<1>t. /\ task = [c \in Calls |-> task[c]] /\ DOMAIN task = Calls
      /\ call = [c \in Calls |-> call[c]] /\ DOMAIN call = Calls
      /\ warm \in Catalog \cup {None}
  BY DEF PlayerInv, SessionInv
<1>k. ASSUME NEW c \in Calls, TaskOK(task'[c], call'[c]),
             \A d \in Calls : d # c => task'[d] = task[d] /\ call'[d] = call[d]
      PROVE  TaskInv'
  BY <1>k DEF TaskInv
<1>i. TaskOK(NoTask, Free) /\ \A k : TaskOK(NoTask, k)
  BY DEF TaskOK, NoTask
<1>s. ASSUME NEW c \in Calls, NEW op, NEW u, NEW i, NEW t, NEW f, Send(c, op, u, i, t, f)
      PROVE  /\ call[c].at = "free" /\ \A d \in Calls : d # c => call'[d] = call[d]
             /\ call'[c].at # "free" /\ call'[c].user = u /\ call'[c].op = op
             /\ call'[c].track = t
  BY <1>s, <1>t DEF Send
<1>r. ASSUME NEW c \in Calls, Release(c)
      PROVE  call'[c] = Free /\ \A d \in Calls : d # c => call'[d] = call[d]
  BY <1>r, <1>t DEF Release
<1>e. ASSUME NEW c \in Calls, TaskEnds(c)
      PROVE  task'[c] = NoTask /\ \A d \in Calls : d # c => task'[d] = task[d]
  BY <1>e, <1>t DEF TaskEnds
<1>0. CASE EngineAdvances \/ UNCHANGED vars
  BY <1>0 DEF vars, EngineAdvances, TaskInv
<1>1. CASE World
  <2>1. task' = task
    BY <1>1 DEF World
  <2> SUFFICES ASSUME NEW d \in Calls PROVE TaskOK(task[d], call'[d])
    BY <2>1 DEF TaskInv
  <2>2. \/ call'[d] = call[d]
        \/ /\ call[d].at # "free" /\ call'[d].at # "free"
           /\ call'[d].user = call[d].user /\ call'[d].op = call[d].op
           /\ call'[d].track = call[d].track \/ call[d].op = "next"
    BY <1>1, RequestsKeepTheirOwner DEF World
  <2>3. TaskOK(task[d], call[d])
    BY DEF TaskInv
  <2>4. Free.at = "free"
    BY DEF Free
  <2> QED BY <2>2, <2>3, <2>4 DEF TaskOK
<1>2. ASSUME NEW c \in Calls, Starting(c) PROVE TaskInv'
  <2>1. PICK how \in {"play", "next"}, item \in Catalog : StartLoading(c, how, item)
    <3>1. ASSUME NEW q \in Queues, NEW i \in DOMAIN q, PlayFromQueue(c, q, i)
          PROVE  q[i] \in Catalog /\ StartLoading(c, "play", q[i])
      BY <3>1, AdapterAssumption DEF PlayFromQueue
    <3>2. ASSUME SkipNext(c) PROVE NextItem \in Catalog /\ StartLoading(c, "next", NextItem)
      BY <3>2, QueuesAreSeqs DEF SkipNext
    <3>3. ASSUME SkipPrevious(c)
          PROVE  queue[index - 1] \in Catalog /\ StartLoading(c, "play", queue[index - 1])
      BY <3>3, QueuesAreSeqs DEF SkipPrevious, PlayerInv
    <3> QED BY <1>2, <3>1, <3>2, <3>3 DEF Starting
  <2>2. call[c] = Free /\ call' = call
    BY <1>2 DEF Starting, PlayFromQueue, SkipNext, SkipPrevious, Command
  <2>3. /\ task'[c] = [at |-> "session", how |-> how, item |-> item, res |-> None]
        /\ \A d \in Calls : d # c => task'[d] = task[d]
    BY <2>1, <1>t DEF StartLoading
  <2>4. TaskOK(task'[c], call'[c])
    BY <2>2, <2>3 DEF TaskOK
  <2> QED BY <1>k, <2>2, <2>3, <2>4
<1>3. ASSUME NEW c \in Calls, UseWarm(c) PROVE TaskInv'
  <2>1. /\ task[c].at = "session" /\ call[c] = Free /\ warm = task[c].item /\ call' = call
        /\ TaskOK(task[c], call[c]) /\ task' = [task EXCEPT ![c].at = "load", ![c].res = warm]
    BY <1>3 DEF UseWarm, IsWarm, TaskInv
  <2>2. TaskOK(task'[c], call'[c]) /\ \A d \in Calls : d # c => task'[d] = task[d]
    BY <2>1, <1>t DEF TaskOK
  <2> QED BY <1>k, <2>1, <2>2
<1>4. ASSUME NEW c \in Calls, LoadSource(c) PROVE TaskInv'
  <2>1. /\ task[c].at = "load" /\ TaskOK(task[c], call[c]) /\ call' = call
        /\ TaskGoes(c, "playing") \/ TaskEnds(c)
    BY <1>4 DEF LoadSource, GiveUp, TaskInv
  <2>2. CASE TaskGoes(c, "playing")
    BY <1>k, <1>t, <2>1, <2>2 DEF TaskGoes, TaskOK
  <2>3. CASE TaskEnds(c)
    BY <1>k, <1>e, <1>i, <2>1, <2>3
  <2> QED BY <2>1, <2>2, <2>3
<1>5. ASSUME NEW c \in Calls, Prefetch(c) PROVE TaskInv'
  <2>1. CASE TaskEnds(c) /\ UNCHANGED call
    BY <1>k, <1>e, <1>i, <2>1
  <2>2. CASE /\ Send(c, "play", App, sid, NextItem, FALSE)
             /\ task' = [task EXCEPT ![c].at = "prefetch", ![c].item = NextItem]
    <3>1. NextItem \in Catalog \cup {None} /\ TaskOK(task[c], call[c])
      BY QueuesAreSeqs DEF TaskInv
    <3>2. /\ task'[c] = [task[c] EXCEPT !.at = "prefetch", !.item = NextItem]
          /\ \A d \in Calls : d # c => task'[d] = task[d]
      BY <2>2, <1>t
    <3>3. /\ call'[c].user = App /\ call'[c].op = "play" /\ call'[c].at # "free"
          /\ call'[c].track = NextItem
          /\ \A d \in Calls : d # c => call'[d] = call[d]
      BY <2>2, <1>s
    <3>4. TaskOK(task'[c], call'[c])
      <4> HIDE DEF NextItem
      <4> QED BY <3>1, <3>2, <3>3 DEF TaskOK
    <3> QED BY <1>k, <3>2, <3>3, <3>4
  <2> QED BY <1>5, <2>1, <2>2 DEF Prefetch
<1>6. ASSUME NEW c \in Calls, AskSession(c) PROVE TaskInv'
  <2>1. /\ Send(c, "create", App, 0, None, FALSE) /\ task[c].at = "session" /\ task' = task
        /\ TaskOK(task[c], call[c])
    BY <1>6 DEF AskSession, TaskInv
  <2>2. TaskOK(task'[c], call'[c])
    BY <1>s, <2>1 DEF TaskOK
  <2> QED BY <1>k, <1>s, <2>1, <2>2
<1>7. ASSUME NEW c \in Calls, AskTrack(c) PROVE TaskInv'
  <2> DEFINE t == IF task[c].how = "play" THEN task[c].item ELSE None
  <2>1. /\ Send(c, task[c].how, App, sid, t, FALSE) /\ task[c].at = "session"
        /\ TaskGoes(c, "resolve") /\ TaskOK(task[c], call[c])
    BY <1>7 DEF AskTrack, TaskInv
  <2>2. /\ task'[c] = [task[c] EXCEPT !.at = "resolve"]
        /\ \A d \in Calls : d # c => task'[d] = task[d]
    BY <2>1, <1>t DEF TaskGoes
  <2>3. /\ call'[c].user = App /\ call'[c].op = task[c].how /\ call'[c].at # "free"
        /\ call'[c].track = t
        /\ \A d \in Calls : d # c => call'[d] = call[d]
    BY <1>s, <2>1
  <2>4. TaskOK(task'[c], call'[c])
    BY <2>1, <2>2, <2>3 DEF TaskOK
  <2> QED BY <1>k, <2>2, <2>3, <2>4
<1>8. ASSUME NEW c \in Calls, NEW op \in {"pause", "seek"}, Sync(c, op) PROVE TaskInv'
  <2>1. Send(c, op, App, sid, None, FALSE) /\ TaskGoes(c, "sync") /\ TaskOK(task[c], call[c])
    BY <1>8 DEF Sync, TaskInv
  <2>2. /\ task'[c] = [task[c] EXCEPT !.at = "sync"]
        /\ \A d \in Calls : d # c => task'[d] = task[d]
    BY <2>1, <1>t DEF TaskGoes
  <2>3. TaskOK(task'[c], call'[c])
    BY <2>1, <2>2 DEF TaskOK
  <2>4. \A d \in Calls : d # c => call'[d] = call[d]
    BY <2>1, <1>s
  <2> QED BY <1>k, <2>2, <2>3, <2>4
<1>9. ASSUME NEW c \in Calls, Asking(c) PROVE TaskInv'
  <2>1. PICK op \in OtherOps, i \in 0..made, t \in Tracks \cup {None}, front \in BOOLEAN :
          OtherAsks(c, op, i, t, front)
    BY <1>9 DEF Asking
  <2>2. Send(c, op, Other, i, t, front) /\ task' = task /\ task[c] = NoTask
    BY <2>1 DEF OtherAsks, Command
  <2> QED BY <1>k, <1>s, <1>i, <2>2
<1>10. ASSUME NEW c \in Calls, TakeSession(c) PROVE TaskInv'
  <2>1. Release(c) /\ task[c].at = "session" /\ TaskOK(task[c], call[c])
        /\ (task' = task \/ TaskEnds(c))
    BY <1>10 DEF TakeSession, GiveUp, TaskInv
  <2>2. TaskOK(task[c], Free)
    BY <2>1 DEF TaskOK
  <2> QED BY <1>k, <1>r, <1>e, <1>i, <2>1, <2>2
<1>11. ASSUME NEW c \in Calls, TakeTrack(c) PROVE TaskInv'
  <2>1. Release(c) /\ task[c].at = "resolve" /\ TaskOK(task[c], call[c]) /\ CallOK(call[c])
    BY <1>11 DEF TakeTrack, TaskInv, CallInv
  <2>2. CASE TaskEnds(c)
    BY <1>k, <1>r, <1>e, <1>i, <2>1, <2>2
  <2>3. CASE Answered(c) /\ task' = [task EXCEPT ![c].at = "load", ![c].res = call[c].track]
    <3>1. /\ call[c].user = App /\ call[c].op = task[c].how /\ task[c].how \in {"play", "next"}
          /\ task[c].how = "play" => call[c].track = task[c].item
      BY <2>1 DEF TaskOK
    <3>2. task[c].how # "next" /\ call[c].track \in Catalog
      BY <2>1, <2>3, <3>1 DEF CallOK, Answered
    <3>3. task'[c] = [task[c] EXCEPT !.at = "load", !.res = call[c].track]
          /\ \A d \in Calls : d # c => task'[d] = task[d]
      BY <2>3, <1>t
    <3>4. TaskOK(task'[c], Free)
      BY <2>1, <3>1, <3>2, <3>3 DEF TaskOK
    <3> QED BY <1>k, <1>r, <2>1, <3>3, <3>4
  <2> QED BY <1>11, <2>2, <2>3 DEF TakeTrack, GiveUp
<1>12. ASSUME NEW c \in Calls, TakePrefetch(c) \/ EndSync(c) PROVE TaskInv'
  <2>1. Release(c) /\ (TaskEnds(c) \/ TaskGoes(c, "dropping")) /\ TaskOK(task[c], call[c])
    BY <1>12 DEF TakePrefetch, EndSync, TaskInv
  <2>2. CASE TaskEnds(c)
    BY <1>k, <1>r, <1>e, <1>i, <2>1, <2>2
  <2>3. CASE TaskGoes(c, "dropping")
    <3>1. TaskOK(task'[c], Free) /\ \A d \in Calls : d # c => task'[d] = task[d]
      BY <1>t, <2>1, <2>3 DEF TaskGoes, TaskOK
    <3> QED BY <1>k, <1>r, <2>1, <3>1
  <2> QED BY <2>1, <2>2, <2>3
<1>13. ASSUME NEW c \in Calls, OtherDone(c) PROVE TaskInv'
  <2>1. /\ Release(c) /\ task' = task /\ call[c].user = Other /\ TaskOK(task[c], call[c])
        /\ call[c].at \in {"answered", "refused", "failed"}
    BY <1>13 DEF OtherDone, TaskInv, Answered, Lost
  <2>2. TaskOK(task[c], Free)
    BY <2>1, AdapterAssumption DEF TaskOK, Free
  <2> QED BY <1>k, <1>r, <2>1, <2>2
<1>14. ASSUME NEW c \in Calls, Quietly(c) PROVE TaskInv'
  <2>1. call' = call /\ (task' = task \/ TaskEnds(c))
    BY <1>14 DEF Quietly, DropWarm, PlayNothing
  <2>2. CASE task' = task
    BY <2>1, <2>2 DEF TaskInv
  <2>3. CASE TaskEnds(c)
    BY <1>k, <1>e, <1>i, <2>1, <2>3
  <2> QED BY <2>1, <2>2, <2>3
<1> QED BY <1>0, <1>1, <1>2, <1>3, <1>4, <1>5, <1>6, <1>7, <1>8, <1>9, <1>10, <1>11, <1>12,
           <1>13, <1>14, Steps DEF Calling, Taking

\* The player's own variables.
LEMMA PlayerStep ==
  ASSUME CallInv, SessionInv, TaskInv, PlayerInv, [Next]_vars
  PROVE  PlayerInv'
<1> USE DEF server, history, player, engine, marks
<1>t. task = [c \in Calls |-> task[c]] /\ DOMAIN task = Calls
  BY DEF PlayerInv
<1> DEFINE Held(p) == p \in {"resolve", "load", "playing", "prefetch"}
<1>k. ASSUME NEW c \in Calls, NEW x, task' = [task EXCEPT ![c] = x],
             Held(x.at) => sid' \in Ids, sid \in Ids => sid' \in Ids
      PROVE  /\ task' = [d \in Calls |-> task'[d]] /\ DOMAIN task' = Calls
             /\ \A d \in Calls : Held(task'[d].at) => sid' \in Ids
  BY <1>k, <1>t DEF PlayerInv
<1>p. ASSUME UNCHANGED <<queue, index, sid>>, warm' \in Catalog \cup {None},
             NEW c \in Calls, NEW x, task' = [task EXCEPT ![c] = x],
             Held(x.at) => sid \in Ids
      PROVE  PlayerInv'
  BY <1>k, <1>p DEF PlayerInv
<1>w. warm \in Catalog \cup {None}
  BY DEF PlayerInv
<1>n. ~Held(NoTask.at)
  BY DEF NoTask
<1>0. CASE EngineAdvances \/ UNCHANGED vars
  BY <1>0 DEF vars, EngineAdvances, PlayerInv
<1>1. CASE World
  BY <1>1 DEF World, PlayerInv
<1>2. ASSUME NEW c \in Calls, Starting(c) PROVE PlayerInv'
  <2>1. PICK how, item : StartLoading(c, how, item)
    BY <1>2 DEF Starting, PlayFromQueue, SkipNext, SkipPrevious
  <2> DEFINE x == [at |-> "session", how |-> how, item |-> item, res |-> None]
  <2>2. task' = [task EXCEPT ![c] = x] /\ ~Held(x.at) /\ UNCHANGED <<sid, warm>>
    BY <2>1, <1>2 DEF StartLoading, Starting, PlayFromQueue, SkipNext, SkipPrevious
  <2> HIDE DEF x
  <2>3. queue' \in Queues \cup {<<>>} /\ index' \in 0..(Len(queue') + 1)
    <3>1. ASSUME NEW q \in Queues, NEW i \in DOMAIN q, PlayFromQueue(c, q, i)
          PROVE  queue' \in Queues /\ index' \in 0..(Len(queue') + 1)
      BY <3>1, AdapterAssumption DEF PlayFromQueue
    <3>2. ASSUME SkipNext(c) PROVE queue' = queue /\ index' \in 0..(Len(queue') + 1)
      BY <3>2, QueuesAreSeqs DEF SkipNext
    <3>3. ASSUME SkipPrevious(c) PROVE queue' = queue /\ index' \in 0..(Len(queue') + 1)
      BY <3>3, QueuesAreSeqs DEF SkipPrevious, PlayerInv
    <3> QED BY <1>2, <3>1, <3>2, <3>3 DEF Starting, PlayerInv
  <2> QED BY <1>k, <2>2, <2>3, <1>w DEF PlayerInv
<1>3. ASSUME NEW c \in Calls, UseWarm(c) PROVE PlayerInv'
  <2> DEFINE x == [task[c] EXCEPT !.at = "load", !.res = warm]
  <2>1. /\ task' = [task EXCEPT ![c] = x] /\ UNCHANGED <<queue, index, sid>>
        /\ warm' = None /\ sid \in Ids
    BY <1>3, <1>t DEF UseWarm, PlayerInv
  <2> HIDE DEF x
  <2> QED BY <1>p, <1>w, <2>1
<1>4. ASSUME NEW c \in Calls, LoadSource(c) PROVE PlayerInv'
  <2>1. /\ task[c].at = "load" /\ UNCHANGED <<queue, index, sid, warm>>
        /\ sid \in Ids /\ task[c].res \in Catalog \cup {None}
    BY <1>4 DEF LoadSource, PlayerInv, TaskInv, TaskOK
  <2>2. PICK x : task' = [task EXCEPT ![c] = x]
    BY <1>4, <1>t DEF LoadSource, GiveUp, TaskGoes, TaskEnds
  <2> QED BY <1>p, <1>w, <2>1, <2>2
<1>5. ASSUME NEW c \in Calls, Prefetch(c) PROVE PlayerInv'
  <2>1. /\ task[c].at = "playing" /\ UNCHANGED <<queue, index, sid>>
        /\ sid \in Ids /\ (warm' = None \/ warm' = warm)
    BY <1>5 DEF Prefetch, PlayerInv
  <2>2. PICK x : task' = [task EXCEPT ![c] = x]
    <3>1. CASE TaskEnds(c)
      BY <3>1 DEF TaskEnds
    <3>2. CASE task' = [task EXCEPT ![c].at = "prefetch", ![c].item = NextItem]
      <4>1. task' = [task EXCEPT ![c] = [task[c] EXCEPT !.at = "prefetch", !.item = NextItem]]
        BY <3>2, <1>t
      <4> QED BY <4>1
    <3> QED BY <1>5, <3>1, <3>2 DEF Prefetch
  <2> QED BY <1>p, <1>w, <2>1, <2>2
<1>6. ASSUME NEW c \in Calls, AskSession(c) \/ Asking(c) \/ OtherDone(c) PROVE PlayerInv'
  <2>1. UNCHANGED <<player, task>>
    BY <1>6 DEF AskSession, Asking, OtherAsks, OtherDone
  <2> QED BY <2>1 DEF PlayerInv
<1>7. ASSUME NEW c \in Calls, AskTrack(c) PROVE PlayerInv'
  <2> DEFINE x == [task[c] EXCEPT !.at = "resolve"]
  <2>1. /\ task' = [task EXCEPT ![c] = x] /\ UNCHANGED player /\ sid \in Ids
    BY <1>7, <1>t DEF AskTrack, TaskGoes, PlayerInv
  <2> HIDE DEF x
  <2> QED BY <1>p, <1>w, <2>1
<1>8. ASSUME NEW c \in Calls, NEW op, Sync(c, op) PROVE PlayerInv'
  <2> DEFINE x == [task[c] EXCEPT !.at = "sync"]
  <2>1. /\ task' = [task EXCEPT ![c] = x] /\ UNCHANGED player /\ sid \in Ids
    BY <1>8, <1>t DEF Sync, TaskGoes, PlayerInv
  <2> HIDE DEF x
  <2> QED BY <1>p, <1>w, <2>1
<1>9. ASSUME NEW c \in Calls, EndSync(c) PROVE PlayerInv'
  <2>1. task' = [task EXCEPT ![c] = NoTask] /\ UNCHANGED player
    BY <1>9 DEF EndSync, TaskEnds
  <2> QED BY <1>p, <1>w, <1>n, <2>1
<1>10. ASSUME NEW c \in Calls, TakeSession(c) PROVE PlayerInv'
  <2>1. /\ UNCHANGED <<queue, index, warm>> /\ task[c].at = "session"
        /\ TaskOK(task[c], call[c]) /\ CallOK(call[c]) /\ call[c] # Free
    BY <1>10 DEF TakeSession, TaskInv, CallInv
  <2>2. CASE Answered(c) /\ sid' = call[c].id /\ task' = task
    <3>1. sid' \in Ids
      BY <2>1, <2>2 DEF TaskOK, CallOK, Answered
    <3> QED BY <2>1, <2>2, <3>1 DEF PlayerInv
  <2>3. CASE TaskEnds(c) /\ sid' = sid
    BY <1>p, <1>w, <1>n, <2>1, <2>3 DEF TaskEnds
  <2> QED BY <1>10, <2>2, <2>3 DEF TakeSession, GiveUp
<1>11. ASSUME NEW c \in Calls, TakeTrack(c) PROVE PlayerInv'
  <2>1. /\ UNCHANGED <<queue, index, sid>> /\ sid \in Ids
        /\ warm' = None \/ warm' = warm
    BY <1>11 DEF TakeTrack, PlayerInv
  <2>2. PICK x : task' = [task EXCEPT ![c] = x]
    BY <1>11, <1>t DEF TakeTrack, GiveUp, TaskEnds
  <2> QED BY <1>p, <1>w, <2>1, <2>2
<1>12. ASSUME NEW c \in Calls, TakePrefetch(c) PROVE PlayerInv'
  <2>1. /\ UNCHANGED <<queue, index, sid>> /\ TaskOK(task[c], call[c]) /\ CallOK(call[c])
        /\ task[c].at = "prefetch" /\ sid \in Ids
        /\ (Answered(c) /\ warm' = call[c].track) \/ warm' = None
    BY <1>12 DEF TakePrefetch, TaskInv, CallInv, PlayerInv
  <2>2. warm' \in Catalog \cup {None}
    BY <2>1 DEF TaskOK, CallOK, Answered
  <2>3. PICK x : task' = [task EXCEPT ![c] = x]
    BY <1>12, <1>t DEF TakePrefetch, TaskEnds, TaskGoes
  <2> QED BY <1>p, <2>1, <2>2, <2>3
<1>13. ASSUME NEW c \in Calls, DropWarm(c) PROVE PlayerInv'
  <2>1. /\ task' = [task EXCEPT ![c] = NoTask] /\ UNCHANGED <<queue, index, sid>>
        /\ warm' = None
    BY <1>13 DEF DropWarm, TaskEnds
  <2> QED BY <1>p, <1>n, <2>1
<1>14. ASSUME NEW c \in Calls, NEW q \in Queues \cup {<<>>}, PlayNothing(c, q) PROVE PlayerInv'
  <2>1. queue' = q /\ index' = Len(q) + 1 /\ UNCHANGED <<sid, warm, task>>
    BY <1>14 DEF PlayNothing
  <2>2. Len(q) \in Nat
    BY AdapterAssumption
  <2>3. queue' \in Queues \cup {<<>>} /\ index' \in 0..(Len(queue') + 1)
    BY <2>1, <2>2
  <2> QED BY <2>1, <2>3 DEF PlayerInv
<1> QED BY <1>0, <1>1, <1>2, <1>3, <1>4, <1>5, <1>6, <1>7, <1>8, <1>9, <1>10, <1>11, <1>12,
           <1>13, <1>14, Steps DEF Calling, Taking, Quietly

-----------------------------------------------------------------------------
(* What the engine is given.                                               *)

\* A task does not begin or stop loading, nor change the item it loads, and a
\* prefetch it begins is for the next item.
Loads(t) == t.at \in {"session", "resolve", "load"}
GoesOn(c) ==
  /\ \A d \in Calls : d # c => task'[d] = task[d]
  /\ Loads(task'[c]) <=> Loads(task[c])
  /\ Loads(task[c]) => task'[c].item = task[c].item
  /\ task'[c].at = "prefetch" => task'[c].item = NextItem

\* A command that starts is for the new current item.
StartsCurrent(c) ==
  /\ Loads(task'[c]) /\ task'[c].item = Current'
  /\ \A d \in Calls : d # c => task'[d] = task[d]
  /\ overlap' = \E d \in Calls : Loads(task[d])
  /\ outrun' = \E d \in Calls : task[d].at = "prefetch"

\* Each step starts a command, gives one up, gives its source to the engine,
\* goes on with one, clears the current item or does nothing of it.
LEMMA LoadingSteps ==
  ASSUME CallInv, SessionInv, TaskInv, PlayerInv, [Next]_vars
  PROVE  \/ \E c \in Calls :
              \/ StartsCurrent(c)
              \/ TaskEnds(c) /\ failed' /\ UNCHANGED <<queue, index, overlap, outrun>>
              \/ /\ task[c].at = "load" /\ Seed(task[c].item) /\ TaskGoes(c, "playing")
                 /\ UNCHANGED <<queue, index, failed, overlap, outrun>>
              \/ /\ GoesOn(c) /\ UNCHANGED <<queue, index, failed, overlap, outrun>>
                 /\ \/ sources' = sources
                    \/ task[c].at = "prefetch" /\ sources' = Append(sources, task[c].item)
         \/ Current' = None
         \/ UNCHANGED <<queue, index, failed, overlap, outrun, task, sources>>
<1> USE DEF server, history, player, engine, marks
<1>t. task = [c \in Calls |-> task[c]] /\ DOMAIN task = Calls
  BY DEF PlayerInv
<1>e. ASSUME NEW c \in Calls, TaskEnds(c), ~Loads(task[c]) PROVE GoesOn(c)
  BY <1>e, <1>t DEF TaskEnds, NoTask, GoesOn, Loads
<1>m. ASSUME NEW c \in Calls, NEW p, TaskGoes(c, p), Loads([at |-> p]) <=> Loads(task[c]), p # "prefetch"
      PROVE  GoesOn(c)
  <2>1. TaskOK(task[c], call[c])
    BY DEF TaskInv
  <2>2. task'[c].at = p /\ task'[c].item = task[c].item /\ \A d \in Calls : d # c => task'[d] = task[d]
    BY <1>m, <1>t, <2>1 DEF TaskGoes, TaskOK
  <2> QED BY <1>m, <2>2 DEF GoesOn, Loads
<1>1. ASSUME NEW c \in Calls, Starting(c) PROVE StartsCurrent(c)
  <2>1. PICK how, item : StartLoading(c, how, item) /\ item = Current'
    <3>1. ASSUME NEW q \in Queues, NEW i \in DOMAIN q, PlayFromQueue(c, q, i)
          PROVE  StartLoading(c, "play", q[i]) /\ q[i] = Current'
      <4>1. i \in 1..Len(q)
        BY AdapterAssumption
      <4> QED BY <3>1, <4>1 DEF PlayFromQueue, Current
    <3>2. ASSUME SkipNext(c)
          PROVE  StartLoading(c, "next", NextItem) /\ NextItem = Current'
      BY <3>2, QueuesAreSeqs DEF SkipNext, Current, NextItem
    <3>3. ASSUME SkipPrevious(c)
          PROVE  StartLoading(c, "play", queue[index - 1]) /\ queue[index - 1] = Current'
      BY <3>3, QueuesAreSeqs DEF SkipPrevious, Current
    <3> QED BY <1>1, <3>1, <3>2, <3>3 DEF Starting
  <2>2. /\ task'[c] = [at |-> "session", how |-> how, item |-> item, res |-> None]
        /\ \A d \in Calls : d # c => task'[d] = task[d]
    BY <2>1, <1>t DEF StartLoading
  <2>3. /\ overlap' = \E d \in Calls : Loads(task[d])
        /\ outrun' = \E d \in Calls : task[d].at = "prefetch"
    BY <2>1 DEF StartLoading, Loading, Loads
  <2> QED BY <2>1, <2>2, <2>3 DEF StartsCurrent, Loads
<1>2. ASSUME NEW c \in Calls, UseWarm(c)
      PROVE  GoesOn(c) /\ UNCHANGED <<queue, index, failed, overlap, outrun, sources>>
  <2>1. /\ task[c].at = "session" /\ UNCHANGED <<queue, index, failed, overlap, outrun, sources>>
        /\ task' = [task EXCEPT ![c].at = "load", ![c].res = warm] /\ TaskOK(task[c], call[c])
    BY <1>2 DEF UseWarm, TaskInv
  <2>2. /\ task'[c].at = "load" /\ task'[c].item = task[c].item
        /\ \A d \in Calls : d # c => task'[d] = task[d]
    BY <2>1, <1>t DEF TaskOK
  <2> QED BY <2>1, <2>2 DEF GoesOn, Loads
<1>3. ASSUME NEW c \in Calls, AskTrack(c)
      PROVE  GoesOn(c) /\ UNCHANGED <<queue, index, failed, overlap, outrun, sources>>
  BY <1>3, <1>m DEF AskTrack, Loads
<1>4. ASSUME NEW c \in Calls, NEW op, Sync(c, op)
      PROVE  GoesOn(c) /\ UNCHANGED <<queue, index, failed, overlap, outrun, sources>>
  BY <1>4, <1>m DEF Sync, Command, NoTask, Loads
<1>5. ASSUME NEW c \in Calls, Prefetch(c)
      PROVE  GoesOn(c) /\ UNCHANGED <<queue, index, failed, overlap, outrun, sources>>
  <2>1. /\ task[c].at = "playing" /\ UNCHANGED <<queue, index, failed, overlap, outrun, sources>>
        /\ TaskOK(task[c], call[c])
        /\ \/ TaskEnds(c)
           \/ task' = [task EXCEPT ![c].at = "prefetch", ![c].item = NextItem]
    BY <1>5 DEF Prefetch, TaskInv
  <2>2. CASE TaskEnds(c)
    BY <1>e, <2>1, <2>2 DEF Loads
  <2>3. CASE task' = [task EXCEPT ![c].at = "prefetch", ![c].item = NextItem]
    <3>1. /\ task'[c].at = "prefetch" /\ task'[c].item = NextItem
          /\ \A d \in Calls : d # c => task'[d] = task[d]
      BY <2>1, <2>3, <1>t DEF TaskOK
    <3> QED BY <2>1, <3>1 DEF GoesOn, Loads
  <2> QED BY <2>1, <2>2, <2>3
<1>6. ASSUME NEW c \in Calls, TakePrefetch(c)
      PROVE  /\ GoesOn(c) /\ UNCHANGED <<queue, index, failed, overlap, outrun>>
             /\ \/ sources' = sources
                \/ task[c].at = "prefetch" /\ sources' = Append(sources, task[c].item)
  <2>1. /\ task[c].at = "prefetch" /\ UNCHANGED <<queue, index, failed, overlap, outrun>>
        /\ call[c].track = task[c].item /\ (TaskEnds(c) \/ TaskGoes(c, "dropping"))
        /\ sources' = sources \/ SetNextSource(call[c].track)
    BY <1>6 DEF TakePrefetch, TaskInv, TaskOK
  <2>2. GoesOn(c)
    BY <1>e, <1>m, <2>1 DEF Loads
  <2> QED BY <2>1, <2>2 DEF SetNextSource
<1>7. ASSUME NEW c \in Calls, EndSync(c) \/ DropWarm(c)
      PROVE  GoesOn(c) /\ UNCHANGED <<queue, index, failed, overlap, outrun, sources>>
  BY <1>7, <1>e DEF EndSync, DropWarm, Loads
<1>8. ASSUME NEW c \in Calls, TakeSession(c)
      PROVE  \/ TaskEnds(c) /\ failed' /\ UNCHANGED <<queue, index, overlap, outrun>>
             \/ UNCHANGED <<queue, index, failed, overlap, outrun, task, sources>>
  BY <1>8 DEF TakeSession, GiveUp
<1>9. ASSUME NEW c \in Calls, TakeTrack(c)
      PROVE  \/ TaskEnds(c) /\ failed' /\ UNCHANGED <<queue, index, overlap, outrun>>
             \/ GoesOn(c) /\ UNCHANGED <<queue, index, failed, overlap, outrun, sources>>
  <2>1. /\ task[c].at = "resolve" /\ TaskOK(task[c], call[c])
        /\ UNCHANGED <<queue, index, overlap, outrun, sources>>
    BY <1>9 DEF TakeTrack, TaskInv
  <2>2. CASE GiveUp(c)
    BY <2>1, <2>2 DEF GiveUp
  <2>3. CASE /\ task' = [task EXCEPT ![c].at = "load", ![c].res = call[c].track]
             /\ failed' = failed
    <3>1. /\ task'[c].at = "load" /\ task'[c].item = task[c].item
          /\ \A d \in Calls : d # c => task'[d] = task[d]
      BY <2>1, <2>3, <1>t DEF TaskOK
    <3> QED BY <2>1, <2>3, <3>1 DEF GoesOn, Loads
  <2> QED BY <1>9, <2>2, <2>3 DEF TakeTrack
<1>10. ASSUME NEW c \in Calls, LoadSource(c)
       PROVE  \/ TaskEnds(c) /\ failed' /\ UNCHANGED <<queue, index, overlap, outrun>>
              \/ /\ task[c].at = "load" /\ Seed(task[c].item) /\ TaskGoes(c, "playing")
                 /\ UNCHANGED <<queue, index, failed, overlap, outrun>>
  <2>1. task[c].at = "load" /\ task[c].res = task[c].item
    BY <1>10 DEF LoadSource, TaskInv, TaskOK
  <2> QED BY <1>10, <2>1 DEF LoadSource, GiveUp
<1>11. ASSUME NEW c \in Calls, NEW q \in Queues \cup {<<>>}, PlayNothing(c, q) PROVE Current' = None
  <2>1. Len(q) \in Nat
    BY AdapterAssumption
  <2>2. queue' = q /\ index' = Len(q) + 1
    BY <1>11 DEF PlayNothing
  <2> QED BY <2>1, <2>2 DEF Current
<1>12. ASSUME NEW c \in Calls, AskSession(c) \/ Asking(c) \/ OtherDone(c)
       PROVE  UNCHANGED <<queue, index, failed, overlap, outrun, task, sources>>
  BY <1>12 DEF AskSession, Asking, OtherAsks, OtherDone
<1>13. ASSUME World \/ EngineAdvances \/ UNCHANGED vars
       PROVE  UNCHANGED <<queue, index, failed, overlap, outrun, task, sources>>
  BY <1>13 DEF World, EngineAdvances, vars
<1> HIDE DEF server, history, player, engine, marks
<1> QED BY <1>1, <1>2, <1>3, <1>4, <1>5, <1>6, <1>7, <1>8, <1>9, <1>10, <1>11, <1>12, <1>13,
           Steps DEF Calling, Taking, Quietly

\* One loader at a time is for the current item,
LEMMA LoaderStep ==
  ASSUME CallInv, SessionInv, TaskInv, PlayerInv, LoneLoader, [Next]_vars
  PROVE  LoneLoader'
<1>t. task = [c \in Calls |-> task[c]] /\ DOMAIN task = Calls
  BY DEF PlayerInv
<1>l. LoneLoader <=> (~overlap /\ Current # None =>
        \A c \in Calls : Loads(task[c]) => /\ task[c].item = Current
                                           /\ \A d \in Calls : Loads(task[d]) => d = c)
  BY DEF LoneLoader, Loading, Loads
<1> SUFFICES ASSUME ~overlap', Current' # None, NEW c \in Calls, Loads(task'[c])
             PROVE  task'[c].item = Current' /\ \A d \in Calls : Loads(task'[d]) => d = c
  BY DEF LoneLoader, Loading, Loads
<1>1. ASSUME NEW b \in Calls, StartsCurrent(b)
      PROVE  task'[c].item = Current' /\ \A d \in Calls : Loads(task'[d]) => d = c
  <2>1. \A d \in Calls : Loads(task'[d]) => d = b
    BY <1>1 DEF StartsCurrent
  <2> QED BY <1>1, <2>1 DEF StartsCurrent
<1>2. ASSUME UNCHANGED <<queue, index, overlap>>,
             \A d \in Calls : Loads(task'[d]) => Loads(task[d]) /\ task'[d].item = task[d].item
      PROVE  task'[c].item = Current' /\ \A d \in Calls : Loads(task'[d]) => d = c
  BY <1>2, <1>l DEF Current
<1>3. ASSUME NEW b \in Calls, TaskEnds(b) \/ TaskGoes(b, "playing") \/ GoesOn(b)
      PROVE  \A d \in Calls : Loads(task'[d]) => Loads(task[d]) /\ task'[d].item = task[d].item
  <2>1. CASE GoesOn(b)
    BY <2>1 DEF GoesOn
  <2>2. CASE TaskEnds(b)
    BY <2>2, <1>t DEF TaskEnds, NoTask, Loads
  <2>3. CASE TaskGoes(b, "playing")
    <3>1. TaskOK(task[b], call[b])
      BY DEF TaskInv
    <3>2. task'[b].at = "playing" /\ \A d \in Calls : d # b => task'[d] = task[d]
      BY <1>t, <2>3, <3>1 DEF TaskGoes, TaskOK
    <3> QED BY <3>2 DEF Loads
  <2> QED BY <1>3, <2>1, <2>2, <2>3
<1> QED BY <1>1, <1>2, <1>3, LoadingSteps

\* a prefetch that was not overtaken is for the next item,
LEMMA PrefetchStep ==
  ASSUME CallInv, SessionInv, TaskInv, PlayerInv, PrefetchInv, [Next]_vars
  PROVE  PrefetchInv'
<1>t. task = [c \in Calls |-> task[c]] /\ DOMAIN task = Calls
  BY DEF PlayerInv
<1> SUFFICES ASSUME ~outrun', Current' # None, NEW c \in Calls, task'[c].at = "prefetch"
             PROVE  task'[c].item = NextItem'
  BY DEF PrefetchInv
<1>1. ASSUME NEW b \in Calls, StartsCurrent(b) PROVE FALSE
  BY <1>1 DEF StartsCurrent, Loads
<1>2. ASSUME UNCHANGED <<queue, index, outrun>>, task'[c] = task[c] PROVE task'[c].item = NextItem'
  BY <1>2 DEF PrefetchInv, Current, NextItem
<1>3. ASSUME NEW b \in Calls, TaskEnds(b) \/ TaskGoes(b, "playing") PROVE task'[c] = task[c]
  <2>1. CASE TaskEnds(b)
    BY <2>1, <1>t DEF TaskEnds, NoTask
  <2>2. CASE TaskGoes(b, "playing")
    <3>1. TaskOK(task[b], call[b])
      BY DEF TaskInv
    <3>2. task'[b].at = "playing" /\ \A d \in Calls : d # b => task'[d] = task[d]
      BY <1>t, <2>2, <3>1 DEF TaskGoes, TaskOK
    <3> QED BY <3>2
  <2> QED BY <1>3, <2>1, <2>2
<1>4. ASSUME NEW b \in Calls, GoesOn(b), UNCHANGED <<queue, index, outrun>>
      PROVE  task'[c].item = NextItem'
  <2>1. CASE c = b
    BY <1>4, <2>1 DEF GoesOn, NextItem
  <2>2. CASE c # b
    BY <1>2, <1>4, <2>2 DEF GoesOn
  <2> QED BY <2>1, <2>2
<1> QED BY <1>1, <1>2, <1>3, <1>4, LoadingSteps

\* the engine's list is of tracks of the catalog, one of which it is at,
LEMMA EngineStep ==
  ASSUME CallInv, SessionInv, TaskInv, PlayerInv, EngineInv, [Next]_vars
  PROVE  EngineInv'
<1> USE DEF server, history, player, engine, marks
<1>0. CASE UNCHANGED engine
  BY <1>0 DEF EngineInv
<1>1. ASSUME NEW c \in Calls, LoadSource(c) PROVE EngineInv'
  <2>1. task[c].res \in Catalog
    BY <1>1 DEF LoadSource, TaskInv, TaskOK
  <2>2. CASE Seed(task[c].res)
    BY <2>1, <2>2 DEF Seed, EngineInv
  <2> QED BY <1>0, <1>1, <2>2 DEF LoadSource
<1>2. ASSUME NEW c \in Calls, TakePrefetch(c) PROVE EngineInv'
  <2>1. heard' = heard /\ (sources' = sources \/ (Answered(c) /\ SetNextSource(call[c].track)))
    BY <1>2 DEF TakePrefetch
  <2>2. ASSUME Answered(c) PROVE call[c].track \in Catalog
    BY <1>2, <2>2 DEF TakePrefetch, TaskInv, TaskOK, CallInv, CallOK, Answered
  <2>3. CASE Answered(c) /\ sources # <<>> /\ sources' = Append(sources, call[c].track)
    <3>1. sources' \in Seq(Catalog) /\ Len(sources') = Len(sources) + 1 /\ Len(sources) \in Nat
      BY <2>2, <2>3 DEF EngineInv
    <3> QED BY <2>1, <2>3, <3>1 DEF EngineInv
  <2> QED BY <1>0, <2>1, <2>3 DEF SetNextSource
<1>3. CASE EngineAdvances
  <2>1. heard < Len(sources) /\ heard' = heard + 1 /\ sources' = sources /\ Len(sources) \in Nat
    BY <1>3 DEF EngineAdvances, EngineInv
  <2> QED BY <2>1 DEF EngineInv
<1>4. ASSUME NEW c \in Calls, \/ Starting(c) \/ Calling(c) \/ Asking(c) \/ UseWarm(c) \/ Prefetch(c)
                              \/ Quietly(c) \/ TakeSession(c) \/ TakeTrack(c) \/ EndSync(c)
                              \/ OtherDone(c)
      PROVE  UNCHANGED engine
  BY <1>4 DEF Starting, PlayFromQueue, SkipNext, SkipPrevious, Calling, AskSession, AskTrack, Sync,
     Asking, OtherAsks, UseWarm, Prefetch, Quietly, DropWarm, PlayNothing, TakeSession, TakeTrack,
     EndSync, OtherDone
<1>5. CASE World \/ UNCHANGED vars
  BY <1>0, <1>5 DEF World, vars
<1> QED BY <1>0, <1>1, <1>2, <1>3, <1>4, <1>5, Steps DEF Taking

\* and follows the queue.
LEMMA ListStep ==
  ASSUME CallInv, SessionInv, TaskInv, PlayerInv, LoneLoader, PrefetchInv, EngineInv, ListInv,
         [Next]_vars
  PROVE  ListInv'
<1>t. task = [c \in Calls |-> task[c]] /\ DOMAIN task = Calls /\ Len(sources) \in Nat
  BY DEF PlayerInv, EngineInv
<1> SUFFICES ASSUME \A c \in Calls : ~Loads(task'[c]), ~failed', ~overlap', Current' # None
             PROVE  /\ sources' # <<>> /\ sources'[1] = Current'
                    /\ ~outrun' => \A n \in 2..Len(sources') : sources'[n] = NextItem'
  BY DEF ListInv, Loading, Loads
<1> DEFINE Follows == /\ sources' # <<>> /\ sources'[1] = Current'
                      /\ ~outrun' => \A n \in 2..Len(sources') : sources'[n] = NextItem'
<1>1. ASSUME NEW b \in Calls, StartsCurrent(b) PROVE FALSE
  BY <1>1 DEF StartsCurrent
<1>2. ASSUME UNCHANGED <<queue, index, failed, overlap, outrun>>, \A c \in Calls : ~Loads(task[c])
      PROVE  /\ sources # <<>> /\ sources[1] = Current
             /\ ~outrun => \A n \in 2..Len(sources) : sources[n] = NextItem
             /\ Current' = Current /\ NextItem' = NextItem /\ Current # None
  BY <1>2 DEF ListInv, Loading, Loads, Current, NextItem
<1>3. ASSUME NEW b \in Calls, task[b].at = "load", Seed(task[b].item),
             UNCHANGED <<queue, index, overlap>>
      PROVE  Follows
  <2>1. Current' = Current /\ task[b].item = Current
    BY <1>3 DEF LoneLoader, Loading, Current
  <2>2. sources' = <<Current'>>
    BY <1>3, <2>1 DEF Seed
  <2> QED BY <2>2
<1>4. ASSUME NEW b \in Calls, GoesOn(b), UNCHANGED <<queue, index, failed, overlap, outrun>>,
             \/ sources' = sources
             \/ task[b].at = "prefetch" /\ sources' = Append(sources, task[b].item)
      PROVE  Follows
  <2>1. \A c \in Calls : ~Loads(task[c])
    BY <1>4 DEF GoesOn
  <2>2. CASE sources' = sources
    BY <1>2, <1>4, <2>1, <2>2
  <2>3. CASE task[b].at = "prefetch" /\ sources' = Append(sources, task[b].item)
    <3>1. /\ sources' # <<>> /\ Len(sources') = Len(sources) + 1
          /\ sources'[Len(sources) + 1] = task[b].item
          /\ \A n \in 1..Len(sources) : sources'[n] = sources[n]
      BY <2>3 DEF EngineInv
    <3>2. 1 \in 1..Len(sources)
      BY <1>2, <1>4, <1>t, <2>1 DEF EngineInv
    <3>3. ~outrun => task[b].item = NextItem
      BY <1>2, <1>4, <2>1, <2>3 DEF PrefetchInv
    <3>4. \A n \in 2..Len(sources') : n \in 2..Len(sources) \/ n = Len(sources) + 1
      BY <1>t, <3>1
    <3>5. \A n \in 2..Len(sources) : n \in 1..Len(sources)
      BY <1>t
    <3> QED BY <1>2, <1>4, <2>1, <3>1, <3>2, <3>3, <3>4, <3>5
  <2> QED BY <1>4, <2>2, <2>3
<1>5. ASSUME UNCHANGED <<queue, index, failed, overlap, outrun, task, sources>> PROVE Follows
  BY <1>2, <1>5
<1> QED BY <1>1, <1>3, <1>4, <1>5, LoadingSteps

-----------------------------------------------------------------------------
(* The numbers of a session's queue entries *)

Entries(q) == q \in Seq(Nat \X Catalog)
Numbers(q) == {q[m][1] : m \in 1..Len(q)}
\* The entries waiting and those handed out are the first n, each once.
Conserved(q, h, n) ==
  /\ \A a, b \in 1..Len(q) : q[a][1] = q[b][1] => a = b
  /\ Numbers(q) \cap h = {} /\ Numbers(q) \cup h = 1..n

\* Entries are numbered by session; ids beyond the last session are untouched.
CountInv ==
  /\ handed = [i \in Ids |-> handed[i]] /\ DOMAIN handed = Ids
  /\ \A i \in Ids : i > made => session[i] = None /\ queued[i] = 0 /\ handed[i] = {}
  /\ \A c \in Calls : call[c].id <= made
  /\ sid \in Ids => sid <= made
  /\ \A i \in Ids \ disturbed :
       session[i] # None => Conserved(session[i].queue, handed[i], queued[i])

\* next takes the first entry,
LEMMA TakenConserves ==
  ASSUME NEW q, Entries(q), q # <<>>, NEW h, NEW n \in Nat, Conserved(q, h, n)
  PROVE  Conserved(Tail(q), h \cup {Head(q)[1]}, n)
<1> DEFINE r == Tail(q)
<1>1. /\ Len(q) \in Nat /\ Len(q) > 0 /\ Len(r) = Len(q) - 1 /\ Head(q) = q[1]
      /\ \A m \in 1..Len(r) : r[m] = q[m + 1]
  BY DEF Entries
<1> HIDE DEF r
<1>2. Numbers(q) = Numbers(r) \cup {q[1][1]}
  <2>1. ASSUME NEW m \in 1..Len(q), m # 1 PROVE q[m][1] \in Numbers(r)
    <3>1. m - 1 \in 1..Len(r) /\ r[m - 1] = q[m]
      BY <1>1, <2>1
    <3> QED BY <3>1 DEF Numbers
  <2>2. ASSUME NEW m \in 1..Len(r) PROVE r[m][1] \in Numbers(q)
    <3>1. m + 1 \in 1..Len(q) /\ r[m] = q[m + 1]
      BY <1>1
    <3> QED BY <3>1 DEF Numbers
  <2>3. q[1][1] \in Numbers(q)
    BY <1>1 DEF Numbers
  <2> QED BY <2>1, <2>2, <2>3 DEF Numbers
<1>3. q[1][1] \notin Numbers(r)
  <2> SUFFICES ASSUME NEW m \in 1..Len(r), r[m][1] = q[1][1] PROVE FALSE
    BY DEF Numbers
  <2>1. m + 1 \in 1..Len(q) /\ 1 \in 1..Len(q) /\ q[m + 1][1] = q[1][1] /\ m + 1 # 1
    BY <1>1
  <2> QED BY <2>1 DEF Conserved
<1>4. \A a, b \in 1..Len(r) : r[a][1] = r[b][1] => a = b
  <2> SUFFICES ASSUME NEW a \in 1..Len(r), NEW b \in 1..Len(r), r[a][1] = r[b][1] PROVE a = b
    OBVIOUS
  <2>1. a + 1 \in 1..Len(q) /\ b + 1 \in 1..Len(q) /\ q[a + 1][1] = q[b + 1][1]
    BY <1>1
  <2>2. a + 1 = b + 1
    BY <2>1 DEF Conserved
  <2> QED BY <2>2
<1>5. Conserved(r, h \cup {q[1][1]}, n)
  BY <1>2, <1>3, <1>4 DEF Conserved
<1> QED BY <1>1, <1>5 DEF r

\* and enqueue adds the one after the last ever added, in front
LEMMA PrependConserves ==
  ASSUME NEW q, Entries(q), NEW h, NEW n \in Nat, NEW t \in Catalog, Conserved(q, h, n)
  PROVE  Conserved(<< <<n + 1, t>> >> \o q, h, n + 1)
<1> DEFINE r == << <<n + 1, t>> >> \o q
<1>1. /\ Len(q) \in Nat /\ Len(r) = Len(q) + 1 /\ r[1][1] = n + 1
      /\ \A m \in 1..Len(q) : r[m + 1] = q[m]
  BY DEF Entries
<1> HIDE DEF r
<1>2. /\ \A m \in 1..Len(r) : m = 1 \/ (m - 1 \in 1..Len(q) /\ r[m] = q[m - 1])
      /\ 1 \in 1..Len(r) /\ \A m \in 1..Len(q) : m + 1 \in 1..Len(r)
  BY <1>1
<1>3. n + 1 \notin Numbers(q) /\ n + 1 \notin h
  BY DEF Conserved
<1>4. Numbers(r) = Numbers(q) \cup {n + 1}
  <2>1. ASSUME NEW m \in 1..Len(q) PROVE q[m][1] \in Numbers(r)
    BY <1>1, <1>2 DEF Numbers
  <2>2. ASSUME NEW m \in 1..Len(r) PROVE r[m][1] \in Numbers(q) \cup {n + 1}
    BY <1>1, <1>2 DEF Numbers
  <2>3. n + 1 \in Numbers(r)
    BY <1>1, <1>2 DEF Numbers
  <2> QED BY <2>1, <2>2, <2>3 DEF Numbers
<1>5. ASSUME NEW a \in 1..Len(r), NEW b \in 1..Len(r), r[a][1] = r[b][1] PROVE a = b
  <2>1. \A m \in 1..Len(q) : q[m][1] # n + 1
    BY <1>3 DEF Numbers
  <2>2. CASE a # 1 /\ b # 1
    <3>1. a - 1 \in 1..Len(q) /\ b - 1 \in 1..Len(q) /\ q[a - 1][1] = q[b - 1][1]
      BY <1>2, <1>5, <2>2
    <3>2. a - 1 = b - 1
      BY <3>1 DEF Conserved
    <3> QED BY <3>2
  <2>3. ASSUME NEW c \in 1..Len(r), c # 1 PROVE r[c][1] # n + 1
    BY <1>2, <2>1, <2>3
  <2>4. CASE a = 1 \/ b = 1
    BY <1>1, <1>5, <2>3, <2>4
  <2> QED BY <2>2, <2>4
<1>6. Conserved(r, h, n + 1)
  <2>1. Numbers(q) \cup h = 1..n /\ 1..(n + 1) = (1..n) \cup {n + 1}
    BY DEF Conserved
  <2> QED BY <1>3, <1>4, <1>5, <2>1 DEF Conserved
<1> QED BY <1>6 DEF r

\* or at the end.
LEMMA AppendConserves ==
  ASSUME NEW q, Entries(q), NEW h, NEW n \in Nat, NEW t \in Catalog, Conserved(q, h, n)
  PROVE  Conserved(Append(q, <<n + 1, t>>), h, n + 1)
<1> DEFINE r == Append(q, <<n + 1, t>>)
<1>1. /\ Len(q) \in Nat /\ Len(r) = Len(q) + 1 /\ r[Len(q) + 1][1] = n + 1
      /\ \A m \in 1..Len(q) : r[m] = q[m]
  BY DEF Entries
<1> HIDE DEF r
<1>2. 1..Len(r) = (1..Len(q)) \cup {Len(q) + 1}
  BY <1>1
<1>3. n + 1 \notin Numbers(q) /\ n + 1 \notin h
  BY DEF Conserved
<1>4. Numbers(r) = Numbers(q) \cup {n + 1}
  BY <1>1, <1>2 DEF Numbers
<1>5. ASSUME NEW a \in 1..Len(r), NEW b \in 1..Len(r), r[a][1] = r[b][1] PROVE a = b
  <2>1. \A m \in 1..Len(q) : q[m][1] # n + 1
    BY <1>3 DEF Numbers
  <2>2. a \in 1..Len(q) /\ b \in 1..Len(q) => a = b
    BY <1>1, <1>5 DEF Conserved
  <2> QED BY <1>1, <1>2, <1>5, <2>1, <2>2
<1>6. Conserved(r, h, n + 1)
  <2>1. Numbers(q) \cup h = 1..n /\ 1..(n + 1) = (1..n) \cup {n + 1}
    BY DEF Conserved
  <2> QED BY <1>3, <1>4, <1>5, <2>1 DEF Conserved
<1> QED BY <1>6 DEF r

\* Every step keeps the count, unless it saves over a change.
LEMMA CountStep ==
  ASSUME CallInv, SessionInv, TaskInv, PlayerInv, CountInv, [Next]_vars
  PROVE  CountInv'
<1> USE DEF server, history, player, engine, marks
<1>t. /\ session = [i \in Ids |-> session[i]] /\ call = [c \in Calls |-> call[c]]
      /\ DOMAIN session = Ids /\ DOMAIN call = Calls
      /\ made \in Nat /\ queued \in [Ids -> Nat] /\ Ids \subseteq Nat
  BY PlaybackAssumption DEF SessionInv, Ids
\* No session changes, nor the history.
<1>k. ASSUME UNCHANGED <<session, made, history>>, sid' = sid,
             \A c \in Calls : call'[c].id \in {call[c].id, 0} \/ call'[c].id <= made
      PROVE  CountInv'
  BY <1>k, <1>t DEF CountInv
<1>c. ASSUME NEW c \in Calls, NEW op, NEW u, NEW i, NEW t, NEW f, Send(c, op, u, i, t, f), i <= made
      PROVE  \A d \in Calls : call'[d].id \in {call[d].id, 0} \/ call'[d].id <= made
  BY <1>c, <1>t DEF Send
<1>0. CASE EngineAdvances \/ UNCHANGED vars
  BY <1>0, <1>k DEF vars, EngineAdvances
<1>1. ASSUME NEW c \in Calls, Starting(c) \/ UseWarm(c) \/ LoadSource(c) \/ Quietly(c) PROVE CountInv'
  BY <1>1, <1>k DEF Starting, PlayFromQueue, SkipNext, SkipPrevious, UseWarm, LoadSource,
     Quietly, DropWarm, PlayNothing
<1>2. ASSUME NEW c \in Calls, TakeTrack(c) \/ TakePrefetch(c) \/ EndSync(c) \/ OtherDone(c)
      PROVE  CountInv'
  <2>1. Release(c) /\ UNCHANGED <<session, made, history, sid>>
    BY <1>2 DEF TakeTrack, TakePrefetch, EndSync, OtherDone
  <2> QED BY <1>k, <1>t, <2>1 DEF Release, Free
<1>3. ASSUME NEW c \in Calls, TakeSession(c) PROVE CountInv'
  <2>1. /\ Release(c) /\ UNCHANGED <<session, made, history>>
        /\ sid' = sid \/ sid' = call[c].id
    BY <1>3 DEF TakeSession
  <2>2. sid' \in Ids => sid' <= made
    BY <2>1 DEF CountInv
  <2>3. \A d \in Calls : call'[d].id <= made
    BY <1>t, <2>1 DEF CountInv, Release, Free
  <2> QED BY <2>1, <2>2, <2>3 DEF CountInv
<1>4. ASSUME NEW c \in Calls, Calling(c) \/ Prefetch(c) \/ Asking(c) PROVE CountInv'
  <2>1. UNCHANGED <<session, made, history, sid>>
    BY <1>4 DEF Calling, AskSession, AskTrack, Sync, Prefetch, Asking, OtherAsks
  <2>2. sid \in Ids => sid <= made
    BY DEF CountInv
  <2>3. CASE UNCHANGED call
    BY <1>k, <2>1, <2>3
  <2>4. ASSUME NEW op, NEW u, NEW i, NEW t, NEW f, Send(c, op, u, i, t, f), i <= made
        PROVE  CountInv'
    BY <1>c, <1>k, <2>1, <2>4
  <2>5. CASE AskSession(c)
    <3>1. Send(c, "create", App, 0, None, FALSE) /\ 0 <= made
      <4>1. Send(c, "create", App, 0, None, FALSE)
        BY <2>5 DEF AskSession
      <4>2. 0 <= made
        BY <1>t
      <4> QED BY <4>1, <4>2
    <3> QED BY <2>4, <3>1
  <2>6. CASE AskTrack(c)
    BY <2>2, <2>4, <2>6 DEF AskTrack, PlayerInv
  <2>7. CASE \E op \in {"pause", "seek"} : Sync(c, op)
    BY <2>2, <2>4, <2>7 DEF Sync, PlayerInv
  <2>8. CASE Prefetch(c)
    <3>1. sid \in Ids
      BY <2>8 DEF Prefetch, PlayerInv
    <3> QED BY <2>2, <2>3, <2>4, <2>8, <3>1 DEF Prefetch
  <2>9. CASE Asking(c)
    <3>1. PICK op \in OtherOps, i \in 0..made, t \in Tracks \cup {None}, front \in BOOLEAN :
            OtherAsks(c, op, i, t, front)
      BY <2>9 DEF Asking
    <3> QED BY <1>t, <2>4, <3>1 DEF OtherAsks
  <2> QED BY <1>4, <2>5, <2>6, <2>7, <2>8, <2>9 DEF Calling
<1>5. ASSUME NEW c \in Calls, Load(c) \/ CheckTrack(c) \/ Break(c), sid' = sid PROVE CountInv'
  <2>1. UNCHANGED <<session, made, history>>
    BY <1>5 DEF Load, CheckTrack, Break
  <2>2. \A d \in Calls : call'[d].id = call[d].id
    <3>1. call[c] \in CallRecord
      BY DEF CallInv, CallOK
    <3>2. CASE Load(c)
      <4>1. PICK p, b, t :
              call' = [call EXCEPT ![c] = [call[c] EXCEPT !.at = p, !.base = b, !.track = t]]
        <5>1. ASSUME NEW p, Reply(c, p)
              PROVE  call' = [call EXCEPT ![c] = [call[c] EXCEPT !.at = p, !.base = None,
                                                                !.track = call[c].track]]
          BY <5>1, <1>t, <3>1 DEF Reply, CallRecord
        <5>2. CASE Reply(c, "refused") \/ Reply(c, "answered")
          BY <5>1, <5>2
        <5>3. CASE ~(Reply(c, "refused") \/ Reply(c, "answered"))
          <6> DEFINE s == session[call[c].id]
                     x == IF call[c].op = "next" THEN Head(s.queue)[2] ELSE call[c].track
                     y == IF call[c].op \in {"pause", "seek"} THEN "save" ELSE "check"
          <6>1. call' = [call EXCEPT ![c].base = s, ![c].track = x, ![c].at = y]
            BY <3>2, <5>3 DEF Load
          <6> HIDE DEF s, x, y
          <6>2. call' = [call EXCEPT ![c] = [call[c] EXCEPT !.at = y, !.base = s, !.track = x]]
            BY <6>1, <1>t, <3>1 DEF CallRecord
          <6> QED BY <6>2
        <5> QED BY <5>2, <5>3
      <4>2. call'[c].id = call[c].id /\ \A d \in Calls : d # c => call'[d] = call[d]
        BY <4>1, <1>t, <3>1 DEF CallRecord
      <4> QED BY <4>2
    <3>3. CASE CheckTrack(c)
      BY <3>3, <1>t, <3>1 DEF CheckTrack, Reply, Step, CallRecord
    <3>4. CASE Break(c)
      BY <3>4, <1>t, <3>1 DEF Break, Reply, CallRecord
    <3> QED BY <1>5, <3>2, <3>3, <3>4
  <2> QED BY <1>k, <1>5, <2>1, <2>2
<1>6. ASSUME NEW c \in Calls, Create(c), sid' = sid PROVE CountInv'
  <2>1. /\ made' = made + 1 /\ made' \in Ids /\ UNCHANGED <<queued, handed, disturbed>>
        /\ session' = [session EXCEPT ![made'] = Empty(call[c].user)]
        /\ call' = [call EXCEPT ![c].at = "answered", ![c].id = made']
    BY <1>6, PlaybackAssumption DEF Create, SessionInv, Ids
  <2>2. \A d \in Calls : call'[d].id <= made'
    <3>1. call[c] \in CallRecord
      BY DEF CallInv, CallOK
    <3>2. \A d \in Calls : call'[d].id = made' \/ call'[d].id = call[d].id
      BY <1>t, <2>1, <3>1 DEF CallRecord
    <3>3. \A d \in Calls : call[d].id \in Nat
      BY <1>t DEF CallInv, CallOK, CallRecord
    <3> QED BY <1>t, <2>1, <3>2, <3>3 DEF CountInv
  <2>3. Conserved(session'[made'].queue, handed'[made'], queued'[made'])
    <3>1. /\ session'[made'].queue = <<>> /\ handed'[made'] = {} /\ queued'[made'] = 0
      BY <1>t, <2>1 DEF CountInv, Empty
    <3>2. Len(<<>>) = 0
      OBVIOUS
    <3> QED BY <3>1, <3>2 DEF Conserved, Numbers
  <2>4. \A i \in Ids : i # made' => session'[i] = session[i]
    BY <1>t, <2>1
  <2>5. \A i \in Ids : i > made' => i > made /\ i # made'
    BY <1>t, <2>1
  <2>6. sid' \in Ids => sid' <= made'
    BY <1>6, <1>t, <2>1 DEF CountInv, PlayerInv
  <2>7. \A i \in Ids \ disturbed' :
          session'[i] # None => Conserved(session'[i].queue, handed'[i], queued'[i])
    BY <2>1, <2>3, <2>4 DEF CountInv
  <2> QED BY <2>1, <2>2, <2>4, <2>5, <2>6, <2>7 DEF CountInv
<1>7. ASSUME NEW c \in Calls, Save(c), sid' = sid PROVE CountInv'
  <2> DEFINE k == call[c]
             i == k.id
             n == queued[i]
             b == k.base
  <2>1. /\ k.at = "save" /\ k.op # "create" /\ CallOK(k) /\ i \in Ids /\ n \in Nat /\ i <= made
        /\ k \in CallRecord
    BY <1>7, <1>t DEF Save, CallInv, CallOK, CountInv
  <2>2. /\ session' = [session EXCEPT ![i] = Updated(k, <<n + 1, k.track>>)]
        /\ made' = made
        /\ queued' = IF k.op = "enqueue" THEN [queued EXCEPT ![i] = n + 1] ELSE queued
        /\ handed' = IF k.op = "next" THEN [handed EXCEPT ![i] = @ \cup {Head(b.queue)[1]}]
                     ELSE handed
        /\ disturbed' = IF session[i] = b THEN disturbed ELSE disturbed \cup {i}
        /\ call' = [call EXCEPT ![c].at = "answered", ![c].base = None]
    BY <1>7 DEF Save, Reply
  <2>3. \A d \in Calls : call'[d].id = call[d].id
    BY <1>t, <2>1, <2>2 DEF CallRecord
  <2>4. /\ handed' = [j \in Ids |-> handed'[j]] /\ DOMAIN handed' = Ids
        /\ \A j \in Ids \ {i} : session'[j] = session[j] /\ queued'[j] = queued[j]
                                /\ handed'[j] = handed[j]
    BY <1>t, <2>1, <2>2 DEF CountInv
  <2>5. \A j \in Ids : j > made' => j # i
    BY <1>t, <2>1, <2>2
  <2>6. ASSUME i \notin disturbed'
        PROVE  Conserved(session'[i].queue, handed'[i], queued'[i])
    <3>1. /\ session[i] = b /\ i \notin disturbed /\ b # None /\ b \in Session
          /\ k.op \in OtherOps /\ k.front \in BOOLEAN
      BY <2>1, <2>2, <2>6 DEF CallOK, CallRecord
    <3>2. Conserved(b.queue, handed[i], n) /\ Entries(b.queue)
      BY <2>1, <3>1 DEF CountInv, Session, Entries
    <3>3. session'[i] = Updated(k, <<n + 1, k.track>>)
      BY <1>t, <2>1, <2>2
    <3>4. CASE k.op \notin {"next", "enqueue"}
      <4>1. handed' = handed /\ queued' = queued
        BY <2>2, <3>4
      <4>2. session'[i].queue = b.queue
        BY <3>1, <3>3, <3>4, <2>1 DEF Updated, Played, Session, OtherOps
      <4> QED BY <3>2, <4>1, <4>2
    <3>5. CASE k.op = "next"
      <4>1. b.queue # <<>>
        BY <2>1, <3>5 DEF CallOK
      <4>2. session'[i].queue = Tail(b.queue)
        BY <3>1, <3>3, <3>5 DEF Updated, Played, Taken, Session
      <4>3. handed'[i] = handed[i] \cup {Head(b.queue)[1]} /\ queued'[i] = n
        BY <2>1, <2>2, <3>5 DEF CountInv
      <4> HIDE DEF k, i, n, b
      <4> QED BY <2>1, <3>2, <4>1, <4>2, <4>3, TakenConserves
    <3>6. CASE k.op = "enqueue"
      <4>1. k.track \in Catalog /\ queued'[i] = n + 1 /\ handed' = handed
        BY <1>t, <2>1, <2>2, <3>6 DEF CallOK
      <4>2. CASE k.front
        <5>1. session'[i].queue = << <<n + 1, k.track>> >> \o b.queue
          BY <3>1, <3>3, <3>6, <4>2 DEF Updated, Session
        <5> HIDE DEF k, i, n, b
        <5> QED BY <2>1, <3>2, <4>1, <5>1, PrependConserves
      <4>3. CASE ~k.front
        <5>1. session'[i].queue = Append(b.queue, <<n + 1, k.track>>)
          BY <3>1, <3>3, <3>6, <4>3 DEF Updated, Session
        <5> HIDE DEF k, i, n, b
        <5> QED BY <2>1, <3>2, <4>1, <5>1, AppendConserves
      <4> QED BY <3>1, <4>2, <4>3
    <3> QED BY <3>4, <3>5, <3>6
  <2>7. disturbed \subseteq disturbed'
    BY <2>2
  <2>8. /\ \A j \in Ids : j > made' => session'[j] = None /\ queued'[j] = 0 /\ handed'[j] = {}
        /\ \A d \in Calls : call'[d].id <= made'
        /\ sid' \in Ids => sid' <= made'
    <3> HIDE DEF k, i, n, b
    <3> QED BY <1>7, <2>2, <2>3, <2>4, <2>5 DEF CountInv
  <2>9. \A j \in Ids \ disturbed' :
          session'[j] # None => Conserved(session'[j].queue, handed'[j], queued'[j])
    <3> HIDE DEF k, i, n, b
    <3> QED BY <2>4, <2>6, <2>7 DEF CountInv
  <2> QED BY <2>4, <2>8, <2>9 DEF CountInv
<1>8. ASSUME NEW i \in Ids, Expire(i), sid' = sid PROVE CountInv'
  <2>1. /\ UNCHANGED <<made, call, history>>
        /\ \A j \in Ids : session'[j] = session[j] \/ session'[j] = None
    BY <1>8, <1>t DEF Expire
  <2> QED BY <1>8, <2>1 DEF CountInv
<1>9. CASE World
  BY <1>9, <1>5, <1>6, <1>7, <1>8 DEF World, Serve
<1> QED BY <1>0, <1>1, <1>2, <1>3, <1>4, <1>9, Steps DEF Taking

-----------------------------------------------------------------------------
(* Whose a session is.                                                     *)

\* A request that has loaded a session and may still save it.
Writes(k) == k.at \in {"check", "save"} /\ k.op # "create"

\* The session i, and every copy of it about to be saved, is the user u's.
OwnedBy(i, u) ==
  /\ i <= made /\ (session[i] # None => session[i].user = u)
  /\ \A c \in Calls : Writes(call[c]) /\ call[c].id = i => call[c].user = u

\* A session that was created has one owner, the others have no copies.
OwnerInv ==
  \A i \in Ids :
    \/ i <= made /\ \E u \in Users : OwnedBy(i, u)
    \/ i > made /\ session[i] = None /\ \A c \in Calls : Writes(call[c]) => call[c].id # i

\* No operation changes the user of the state it saves.
LEMMA UpdatedKeepsUser ==
  ASSUME NEW k, CallOK(k), Writes(k), NEW e
  PROVE  Updated(k, e).user = k.user
<1> USE DEF CallOK, CallRecord, Session, OtherOps, Writes
<1>1. k.base \in Session /\ k.base.user = k.user /\ k.op \in OtherOps /\ k.front \in BOOLEAN
  OBVIOUS
<1>2. CASE k.op = "play" \/ k.op = "next"
  BY <1>1, <1>2 DEF Updated, Played
<1>3. CASE k.op = "pause"
  BY <1>1, <1>3 DEF Updated
<1>4. CASE k.op = "enqueue" /\ k.front
  <2>1. Updated(k, e) = [k.base EXCEPT !.queue = <<e>> \o @]
    BY <1>4 DEF Updated
  <2> QED BY <1>1, <2>1
<1>5. CASE k.op = "enqueue" /\ ~k.front
  <2>1. Updated(k, e) = [k.base EXCEPT !.queue = Append(@, e)]
    BY <1>5 DEF Updated
  <2> QED BY <1>1, <2>1
<1>6. CASE k.op \notin {"play", "next", "pause", "enqueue"}
  BY <1>1, <1>6 DEF Updated
<1> QED BY <1>2, <1>3, <1>4, <1>5, <1>6

\* A request comes to save a session by loading one of its own user only.
LEMMA WritersStep ==
  ASSUME CallInv, SessionInv, [Next]_vars, NEW d \in Calls, Writes(call[d])'
  PROVE  \/ Writes(call[d]) /\ call'[d].id = call[d].id /\ call'[d].user = call[d].user
         \/ /\ call'[d].id \in Ids /\ session[call'[d].id] # None
            /\ session[call'[d].id].user = call'[d].user
<1> USE DEF server, history, player, engine, marks, Writes
<1>t. call = [c \in Calls |-> call[c]] /\ DOMAIN call = Calls
  BY DEF SessionInv
<1>r. \A c \in Calls : call[c] \in CallRecord
  BY DEF CallInv, CallOK
<1>0. CASE call' = call
  BY <1>0
<1>1. ASSUME NEW c \in Calls, Release(c) PROVE call'[d] = call[d]
  BY <1>1, <1>t DEF Release, Free
<1>2. ASSUME NEW c \in Calls, NEW op, NEW u, NEW i, NEW t, NEW front, Send(c, op, u, i, t, front)
      PROVE  call'[d] = call[d]
  <2> DEFINE k == [at |-> IF op = "create" THEN "save" ELSE "load", op |-> op, user |-> u,
                   id |-> i, track |-> t, front |-> front, base |-> None]
  <2>1. call' = [call EXCEPT ![c] = k]
    BY <1>2 DEF Send
  <2>2. ~Writes(k)
    OBVIOUS
  <2> HIDE DEF k
  <2> QED BY <2>1, <2>2, <1>t
<1>3. ASSUME NEW c \in Calls, NEW p \in {"refused", "failed", "answered"}, Reply(c, p)
      PROVE  call'[d] = call[d]
  BY <1>3, <1>t, <1>r DEF Reply, CallRecord
<1>4. ASSUME NEW c \in Calls, Load(c), call'[d] # call[d]
      PROVE  /\ call'[d].id \in Ids /\ session[call'[d].id] # None
             /\ session[call'[d].id].user = call'[d].user
  <2> DEFINE k == call[c]
             s == session[k.id]
             sure == [k EXCEPT !.base = s,
                               !.track = IF k.op = "next" THEN Head(s.queue)[2] ELSE k.track,
                               !.at = IF k.op \in {"pause", "seek"} THEN "save" ELSE "check"]
  <2>1. Owned(s, k.user) /\ call' = [call EXCEPT ![c] = sure] /\ k.id \in Ids
    <3>1. ~Reply(c, "refused") /\ ~Reply(c, "answered")
      BY <1>3, <1>4
    <3>2. k.id \in Ids
      BY <1>4 DEF Load, CallInv, CallOK
    <3> QED BY <1>4, <3>1, <3>2, <1>t DEF Load
  <2>2. sure.id = k.id /\ sure.user = k.user
    BY <1>r DEF CallRecord
  <2> HIDE DEF sure
  <2>3. d = c /\ call'[d] = sure
    BY <1>4, <2>1, <1>t
  <2> QED BY <2>1, <2>2, <2>3 DEF Owned
<1>5. ASSUME NEW c \in Calls, CheckTrack(c)
      PROVE  Writes(call[d]) /\ call'[d].id = call[d].id /\ call'[d].user = call[d].user
  <2>1. CASE Step(c, "save")
    BY <1>5, <2>1, <1>t, <1>r DEF Step, CheckTrack, CallRecord
  <2>2. CASE Reply(c, "refused")
    BY <2>2, <1>3
  <2> QED BY <1>5, <2>1, <2>2 DEF CheckTrack
<1>6. ASSUME NEW c \in Calls, Create(c) PROVE call'[d] = call[d]
  BY <1>6, <1>t, <1>r DEF Create, CallRecord
<1>7. ASSUME NEW c \in Calls, Save(c) \/ Break(c) PROVE call'[d] = call[d]
  BY <1>7, <1>3 DEF Save, Break
<1>8. \/ call' = call \/ \E c \in Calls : Release(c)
      \/ \E c \in Calls : \E op, u, i, t, front : Send(c, op, u, i, t, front)
      \/ \E c \in Calls : Serve(c) \/ Break(c)
  <2>1. CASE EngineAdvances \/ UNCHANGED vars
    BY <2>1 DEF vars, EngineAdvances
  <2>2. CASE World
    BY <2>2 DEF World, Expire
  <2>3. ASSUME NEW c \in Calls, Starting(c) \/ UseWarm(c) \/ LoadSource(c) \/ Quietly(c) PROVE call' = call
    BY <2>3 DEF Starting, PlayFromQueue, SkipNext, SkipPrevious, UseWarm, LoadSource,
     Quietly, DropWarm, PlayNothing
  <2>4. ASSUME NEW c \in Calls, Taking(c) PROVE Release(c)
    BY <2>4 DEF Taking, TakeSession, TakeTrack, TakePrefetch, EndSync, OtherDone
  <2>5. ASSUME NEW c \in Calls, Calling(c) \/ Asking(c) \/ Prefetch(c)
        PROVE  call' = call \/ \E op, u, i, t, front : Send(c, op, u, i, t, front)
    BY <2>5, Zenon DEF Calling, Asking, Prefetch, AskSession, AskTrack, Sync, OtherAsks
  <2> QED BY <2>1, <2>2, <2>3, <2>4, <2>5, Steps
<1> QED BY <1>0, <1>1, <1>2, <1>4, <1>5, <1>6, <1>7, <1>8 DEF Serve

\* A session appears under a new id, or is saved by a request that had it.
LEMMA SessionsStep ==
  ASSUME CallInv, SessionInv, [Next]_vars, NEW i \in Ids
  PROVE  /\ made' \in {made, made + 1}
         /\ \/ session'[i] = session[i] /\ made' = made
            \/ session'[i] = None /\ made' = made
            \/ \E c \in Calls : Writes(call[c]) /\ call[c].id = i /\ made' = made
                                /\ session'[i].user = call[c].user
            \/ made' = made + 1 /\ i # made' /\ session'[i] = session[i]
            \/ /\ made' = made + 1 /\ i = made'
               /\ \E u \in Users : session'[i].user = u
<1> USE DEF server, history, player, engine, marks
<1>t. session = [j \in Ids |-> session[j]] /\ DOMAIN session = Ids /\ made \in Nat
  BY PlaybackAssumption DEF SessionInv
<1>0. CASE UNCHANGED <<session, made>>
  BY <1>0
<1>1. ASSUME NEW c \in Calls, Create(c)
      PROVE  /\ made' = made + 1
             /\ \/ i # made' /\ session'[i] = session[i]
                \/ i = made' /\ \E u \in Users : session'[i].user = u
  <2>1. made' = made + 1 /\ session' = [session EXCEPT ![made'] = Empty(call[c].user)]
    BY <1>1 DEF Create
  <2>2. call[c].user \in Users
    BY <1>1 DEF Create, CallInv, CallOK
  <2>3. Empty(call[c].user).user = call[c].user
    BY DEF Empty
  <2> HIDE DEF Empty
  <2> QED BY <2>1, <2>2, <2>3, <1>t
<1>2. ASSUME NEW c \in Calls, Save(c)
      PROVE  /\ made' = made
             /\ session'[i] = session[i] \/ (Writes(call[c]) /\ call[c].id = i
                                             /\ session'[i].user = call[c].user)
  <2> DEFINE e == <<queued[call[c].id] + 1, call[c].track>>
  <2>1. /\ Writes(call[c]) /\ made' = made /\ CallOK(call[c])
        /\ session' = [session EXCEPT ![call[c].id] = Updated(call[c], e)]
    BY <1>2 DEF Save, Writes, CallInv
  <2>2. Updated(call[c], e).user = call[c].user
    BY <2>1, UpdatedKeepsUser
  <2> HIDE DEF e
  <2> QED BY <2>1, <2>2, <1>t
<1>3. ASSUME NEW j \in Ids, Expire(j)
      PROVE  made' = made /\ (session'[i] = session[i] \/ session'[i] = None)
  BY <1>3, <1>t DEF Expire
<1>4. \/ UNCHANGED <<session, made>>
      \/ \E c \in Calls : Create(c) \/ Save(c)
      \/ \E j \in Ids : Expire(j)
  <2>1. CASE EngineAdvances \/ UNCHANGED vars
    BY <2>1 DEF vars, EngineAdvances
  <2>2. CASE World
    BY <2>2 DEF World, Serve, Load, CheckTrack, Break
  <2>3. ASSUME NEW c \in Calls,
               \/ Starting(c) \/ UseWarm(c) \/ LoadSource(c) \/ Quietly(c) \/ Taking(c) \/ Calling(c)
               \/ Asking(c) \/ Prefetch(c)
        PROVE  UNCHANGED <<session, made>>
    BY <2>3 DEF Starting, PlayFromQueue, SkipNext, SkipPrevious, UseWarm, LoadSource,
     Quietly, DropWarm, PlayNothing,
       Taking, TakeSession, TakeTrack, TakePrefetch, EndSync, OtherDone,
       Calling, Asking, Prefetch, AskSession, AskTrack, Sync, OtherAsks
  <2> QED BY <2>1, <2>2, <2>3, Steps
<1> QED BY <1>0, <1>1, <1>2, <1>3, <1>4

\* Once a session is somebody's it stays so, expired or not.
LEMMA OwnedStep ==
  ASSUME CallInv, SessionInv, [Next]_vars, NEW i \in Ids, NEW u, OwnedBy(i, u)
  PROVE  OwnedBy(i, u)'
<1>1. made \in Nat /\ i \in Nat /\ i <= made
  BY PlaybackAssumption DEF SessionInv, Ids, OwnedBy
<1>2. i <= made' /\ (session'[i] # None => session'[i].user = u)
  BY <1>1, SessionsStep DEF OwnedBy
<1>3. ASSUME NEW c \in Calls, Writes(call[c])', call'[c].id = i PROVE call'[c].user = u
  BY <1>3, WritersStep DEF OwnedBy
<1> QED BY <1>2, <1>3 DEF OwnedBy, Writes

LEMMA OwnerStep ==
  ASSUME CallInv, SessionInv, OwnerInv, [Next]_vars
  PROVE  OwnerInv'
<1> SUFFICES ASSUME NEW i \in Ids
             PROVE  \/ i <= made' /\ \E u \in Users : OwnedBy(i, u)'
                    \/ /\ i > made' /\ session'[i] = None
                       /\ \A c \in Calls : Writes(call[c])' => call'[c].id # i
  BY DEF OwnerInv, Writes, OwnedBy
<1>t. made \in Nat /\ i \in Nat /\ made' \in {made, made + 1}
  BY PlaybackAssumption, SessionsStep DEF SessionInv, Ids
<1>1. CASE i <= made /\ \E u \in Users : OwnedBy(i, u)
  BY <1>1, <1>t, OwnedStep
<1>2. CASE i > made /\ session[i] = None /\ \A c \in Calls : Writes(call[c]) => call[c].id # i
  <2>1. ASSUME NEW c \in Calls, Writes(call[c])' PROVE call'[c].id # i
    BY <1>2, <2>1, WritersStep
  <2>2. CASE i > made'
    BY <1>2, <1>t, <2>1, <2>2, SessionsStep
  <2>3. CASE i <= made'
    <3>1. made' = made + 1 /\ i = made'
      BY <1>2, <1>t, <2>3
    <3>2. PICK u \in Users : session'[i].user = u
      BY <1>t, <3>1, SessionsStep
    <3> QED BY <2>1, <2>3, <3>2 DEF OwnedBy, Writes
  <2> QED BY <1>t, <2>2, <2>3
<1> QED BY <1>1, <1>2 DEF OwnerInv

-----------------------------------------------------------------------------

IInv == /\ CallInv /\ SessionInv /\ TaskInv /\ PlayerInv
        /\ LoneLoader /\ PrefetchInv /\ EngineInv /\ ListInv /\ CountInv
        /\ OwnerInv

LEMMA Inductive == Spec => []IInv
<1>1. Init => IInv
  <2> SUFFICES ASSUME Init PROVE IInv
    OBVIOUS
  <2> USE DEF Init, ServerInit
  <2>1. CallInv
    BY FreeIsOK DEF CallInv
  <2>2. SessionInv
    BY PlaybackAssumption DEF SessionInv, SessionOK
  <2>3. TaskInv
    BY DEF TaskInv, TaskOK, NoTask
  <2>4. PlayerInv
    BY DEF PlayerInv, NoTask
  <2>5. LoneLoader /\ PrefetchInv /\ EngineInv /\ ListInv
    <3>1. Current = None
      BY DEF Current
    <3> QED BY <3>1 DEF LoneLoader, PrefetchInv, EngineInv, ListInv, Loading, NoTask
  <2>6. CountInv
    BY PlaybackAssumption DEF CountInv, Free, Ids
  <2>7. OwnerInv
    BY PlaybackAssumption DEF OwnerInv, Writes, Free, Ids
  <2> QED BY <2>1, <2>2, <2>3, <2>4, <2>5, <2>6, <2>7 DEF IInv
<1>2. IInv /\ [Next]_vars => IInv'
  BY CallStep, TaskStep, PlayerStep, LoaderStep, PrefetchStep, EngineStep, ListStep, CountStep,
     OwnerStep DEF IInv
<1> QED BY <1>1, <1>2, PTL DEF Spec

\* Sessions, the queue, the index, the warm resolution and the engine's source
\* keep their types, and nothing outside the catalog is played or queued.
THEOREM PlayerTyped == Spec => []TypeOK
<1>1. IInv => TypeOK
  BY DEF IInv, TypeOK, SessionInv, SessionOK, PlayerInv, EngineInv, TaskInv, TaskOK
<1> QED BY <1>1, Inductive, PTL

\* Whatever the other clients queue, and however late a prefetch answers, a
\* command never loads another track than the one it announced.
THEOREM LoadsAsAsked == Spec => []LoadsWhatWasAsked
<1>1. IInv => LoadsWhatWasAsked
  BY DEF IInv, LoadsWhatWasAsked, TaskInv, TaskOK
<1> QED BY <1>1, Inductive, PTL

\* A command that met no other, overtook no prefetch and did not fail leaves
\* the engine at the item on the screen, and whatever it goes on to by itself
\* is the one after it (_loadAndPlay, _prefetchNext, setNextSource).
THEOREM HeardFollowsShown == Spec => []HeardIsShownOrNext
<1>1. EngineInv /\ ListInv => HeardIsShownOrNext
  <2> SUFFICES ASSUME EngineInv, ListInv, \A c \in Calls : ~Loading(c), ~failed, ~overlap,
                      Current # None
               PROVE  /\ heard \in 1..Len(sources) /\ sources[1] = Current
                      /\ ~outrun => sources[heard] \in {Current, NextItem}
    BY DEF HeardIsShownOrNext
  <2>1. heard \in 1..Len(sources) /\ sources[1] = Current /\ Len(sources) \in Nat
    BY DEF EngineInv, ListInv
  <2>2. heard = 1 \/ heard \in 2..Len(sources)
    BY <2>1
  <2> QED BY <2>1, <2>2 DEF ListInv
<1> QED BY <1>1, Inductive, PTL DEF IInv

\* Where no request saved over another's change, every entry queued waits once
\* or was handed out once.
THEOREM QueuesAreConserved == Spec => []QueueConserved
<1>1. CountInv /\ SessionInv => QueueConserved
  <2> SUFFICES ASSUME CountInv, SessionInv, NEW i \in Ids \ disturbed, session[i] # None
               PROVE  LET waiting == {session[i].queue[n][1] : n \in DOMAIN session[i].queue}
                      IN  waiting \cap handed[i] = {} /\ waiting \cup handed[i] = 1..queued[i]
    BY DEF QueueConserved
  <2>1. Conserved(session[i].queue, handed[i], queued[i])
    BY DEF CountInv
  <2>2. DOMAIN session[i].queue = 1..Len(session[i].queue)
    BY DEF SessionInv, SessionOK, Session
  <2> QED BY <2>1, <2>2 DEF Conserved, Numbers
<1> QED BY <1>1, Inductive, PTL DEF IInv

\* Whoever created a session keeps it: requests of others never get to save
\* it, and one that expired between a load and a save is brought back as the
\* same user's (getOwnedSession, StateStore.Save).
THEOREM SessionsKeepTheirOwner ==
  ASSUME NEW i \in Ids, NEW u \in Users
  PROVE  Spec => []((session[i] # None /\ session[i].user = u)
                      => [](session[i] # None => session[i].user = u))
<1>1. IInv /\ session[i] # None /\ session[i].user = u => OwnedBy(i, u)
  BY DEF IInv, OwnerInv, OwnedBy
<1>2. IInv /\ OwnedBy(i, u) /\ [Next]_vars => OwnedBy(i, u)'
  BY OwnedStep DEF IInv
<1>3. OwnedBy(i, u) => (session[i] # None => session[i].user = u)
  BY DEF OwnedBy
<1> QED BY <1>1, <1>2, <1>3, Inductive, PTL DEF Spec

\* While a request may still save, the session is its user's or has expired:
\* the check of the owner, made when it was loaded, is never out of date.
OwnerCheckLasts ==
  \A c \in Calls : Writes(call[c]) /\ session[call[c].id] # None
                     => session[call[c].id].user = call[c].user
THEOREM OwnerCheckHolds == Spec => []OwnerCheckLasts
<1>1. IInv => OwnerCheckLasts
  BY DEF IInv, CallInv, CallOK, OwnerInv, OwnedBy, Writes, OwnerCheckLasts
<1> QED BY <1>1, Inductive, PTL
-----------------------------------------------------------------------------
(* Where an error of a command comes from.                                 *)

\* Every skipNext found its track prefetched: none asks the server for the
\* next entry of the session's queue.
WarmSkips == \A c \in Calls : task[c].at = "resolve" => task[c].how # "next"

\* The app's sessions.
Mine == {i \in Ids : i <= made /\ session[i] # None /\ session[i].user = App}

\* A request of the app's, with these sessions, that the service has no reason
\* to refuse.
Welcome(k, mine) ==
  k.at # "free" /\ k.user = App =>
    /\ k.at \notin {"refused", "failed"} /\ k.op # "next"
    /\ k.op # "create" \/ k.at = "answered" => k.id \in mine
    /\ k.op = "play" => k.track \in Catalog

\* As long as nothing was lost, no session is missing and no command fails.
UnbrokenInv ==
  ~faulty =>
    /\ ~failed
    /\ \A i \in Ids : i <= made => session[i] # None
    /\ sid # None => sid \in Mine
    /\ \A c \in Calls : Welcome(call[c], Mine)

\* A session that nothing expires stays.
LEMMA SessionsStay ==
  ASSUME CallInv, SessionInv, [Next]_vars, UnbrokenInv, ~faulty'
  PROVE  /\ ~faulty
         /\ \A i \in Ids : i <= made' => session'[i] # None
<1> USE DEF server, history, player, engine, marks
<1>t. session = [j \in Ids |-> session[j]] /\ DOMAIN session = Ids /\ made \in Nat
  BY PlaybackAssumption DEF SessionInv
<1>n. None \notin Session
  BY AdapterAssumption
<1>f. ~faulty
  <2>1. CASE World \/ EngineAdvances \/ UNCHANGED vars
    BY <2>1 DEF World, EngineAdvances, vars
  <2>2. ASSUME NEW c \in Calls, Starting(c) \/ UseWarm(c) \/ LoadSource(c) \/ Quietly(c) PROVE ~faulty
    BY <2>2 DEF Starting, PlayFromQueue, SkipNext, SkipPrevious, UseWarm, LoadSource,
     Quietly, DropWarm, PlayNothing
  <2>3. ASSUME NEW c \in Calls, Taking(c) \/ Calling(c) \/ Asking(c) \/ Prefetch(c) PROVE ~faulty
    BY <2>3 DEF Taking, TakeSession, TakeTrack, TakePrefetch, EndSync, OtherDone,
       Calling, Asking, Prefetch, AskSession, AskTrack, Sync, OtherAsks
  <2> QED BY <2>1, <2>2, <2>3, Steps
<1>a. \A i \in Ids : i <= made => session[i] # None
  BY <1>f DEF UnbrokenInv
<1> SUFFICES ASSUME NEW i \in Ids, i <= made' PROVE session'[i] # None
  BY <1>f
<1>0. CASE UNCHANGED <<session, made>>
  BY <1>0, <1>a
<1>1. ASSUME NEW c \in Calls, Create(c) PROVE session'[i] # None
  <2>1. made' = made + 1 /\ session' = [session EXCEPT ![made'] = Empty(call[c].user)]
    BY <1>1 DEF Create
  <2>2. call[c].user \in Users
    BY <1>1 DEF Create, CallInv, CallOK
  <2>3. Empty(call[c].user) \in Session
    BY <2>2 DEF Empty, Session
  <2> HIDE DEF Empty
  <2>4. CASE i = made'
    BY <1>n, <1>t, <2>1, <2>3, <2>4
  <2>5. CASE i # made'
    <3>1. i <= made /\ session'[i] = session[i]
      BY <1>t, <2>1, <2>5 DEF Ids
    <3> QED BY <1>a, <3>1
  <2> QED BY <2>4, <2>5
<1>2. ASSUME NEW c \in Calls, Save(c) PROVE session'[i] # None
  <2> DEFINE n == queued[call[c].id] + 1
             e == <<n, call[c].track>>
  <2>1. /\ CallOK(call[c]) /\ call[c].at = "save" /\ call[c].op # "create" /\ made' = made
        /\ session' = [session EXCEPT ![call[c].id] = Updated(call[c], e)]
    BY <1>2 DEF Save, CallInv
  <2>2. n \in Nat
    BY <2>1 DEF CallOK, SessionInv
  <2> HIDE DEF n
  <2>3. Updated(call[c], e) \in Session
    BY <2>1, <2>2, UpdatedIsOK
  <2> HIDE DEF e
  <2> QED BY <1>a, <1>n, <1>t, <2>1, <2>3
<1>3. \/ UNCHANGED <<session, made>>
      \/ \E c \in Calls : Create(c) \/ Save(c)
  <2>1. CASE EngineAdvances \/ UNCHANGED vars
    BY <2>1 DEF vars, EngineAdvances
  <2>2. CASE World
    BY <2>2 DEF World, Serve, Load, CheckTrack
  <2>3. ASSUME NEW c \in Calls,
               \/ Starting(c) \/ UseWarm(c) \/ LoadSource(c) \/ Quietly(c) \/ Taking(c) \/ Calling(c)
               \/ Asking(c) \/ Prefetch(c)
        PROVE  UNCHANGED <<session, made>>
    BY <2>3 DEF Starting, PlayFromQueue, SkipNext, SkipPrevious, UseWarm, LoadSource,
     Quietly, DropWarm, PlayNothing,
       Taking, TakeSession, TakeTrack, TakePrefetch, EndSync, OtherDone,
       Calling, Asking, Prefetch, AskSession, AskTrack, Sync, OtherAsks
  <2> QED BY <2>1, <2>2, <2>3, Steps
<1> QED BY <1>0, <1>1, <1>2, <1>3

\* The app's sessions stay the app's.
LEMMA MineStays ==
  ASSUME CallInv, SessionInv, OwnerInv, [Next]_vars, UnbrokenInv, ~faulty', NEW i \in Mine
  PROVE  i \in Mine'
<1>1. i \in Ids /\ OwnedBy(i, App)
  BY DEF Mine, OwnerInv, OwnedBy
<1>2. OwnedBy(i, App)'
  BY <1>1, OwnedStep
<1>3. session'[i] # None
  BY <1>1, <1>2, SessionsStay DEF OwnedBy
<1> QED BY <1>1, <1>2, <1>3 DEF Mine, OwnedBy

\* The service refuses nothing the app asks.
LEMMA WelcomeIsServed ==
  ASSUME CallInv, SessionInv, OwnerInv, [Next]_vars, UnbrokenInv, ~faulty',
         NEW c \in Calls, Serve(c), NEW d \in Calls
  PROVE  Welcome(call[d], Mine)'
<1> USE DEF history
<1>t. /\ call = [x \in Calls |-> call[x]] /\ DOMAIN call = Calls
      /\ call[c] \in CallRecord /\ CallOK(call[c]) /\ made \in Nat
  BY PlaybackAssumption DEF SessionInv, CallInv, CallOK
<1>m. Mine \subseteq Mine'
  BY MineStays
<1>w. Welcome(call[d], Mine) /\ Welcome(call[c], Mine)
  BY SessionsStay DEF UnbrokenInv
<1>0. CASE call'[d] = call[d]
  BY <1>0, <1>m, <1>w DEF Welcome
<1>k. ASSUME NEW k, call' = [call EXCEPT ![c] = k], Welcome(k, Mine') PROVE Welcome(call[d], Mine)'
  <2>1. call'[d] = k \/ call'[d] = call[d]
    BY <1>k, <1>t
  <2> QED BY <1>0, <1>k, <2>1 DEF Welcome
<1>r. ASSUME call[c].user = App
      PROVE  /\ call[c].at = "load" => call[c].id \in Mine /\ call[c].op \notin {"next", "create"}
             /\ call[c].at = "check" => call[c].id \in Mine /\ call[c].op = "play"
                                        /\ call[c].track \in Catalog
  BY <1>r, <1>t, <1>w DEF Welcome, CallOK
<1>1. CASE Load(c)
  <2> DEFINE k == call[c]
             s == session[k.id]
             sure == [k EXCEPT !.base = s,
                               !.track = IF k.op = "next" THEN Head(s.queue)[2] ELSE k.track,
                               !.at = IF k.op \in {"pause", "seek"} THEN "save" ELSE "check"]
             over == [k EXCEPT !.at = "answered", !.base = None]
             no == [k EXCEPT !.at = "refused", !.base = None]
  <2>0. /\ k.at = "load"
        /\ \/ call' = [call EXCEPT ![c] = sure]
           \/ call' = [call EXCEPT ![c] = over]
           \/ call' = [call EXCEPT ![c] = no] /\ (Owned(s, k.user) => k.op = "next")
    <3>1. /\ Reply(c, "refused") => call' = [call EXCEPT ![c] = no]
          /\ Reply(c, "answered") => call' = [call EXCEPT ![c] = over]
      BY <1>t DEF Reply
    <3>2. \/ call' = [call EXCEPT ![c] = sure]
          \/ Reply(c, "answered")
          \/ Reply(c, "refused") /\ (Owned(s, k.user) => k.op = "next")
      BY <1>1, <1>t DEF Load
    <3>3. k.at = "load"
      BY <1>1 DEF Load
    <3> QED BY <3>1, <3>2, <3>3
  <2>1. CASE call' = [call EXCEPT ![c] = sure]
    <3>1. /\ sure.user = k.user /\ sure.op = k.op /\ sure.id = k.id
          /\ sure.at \in {"save", "check"} /\ (k.op # "next" => sure.track = k.track)
      BY <1>t DEF CallRecord
    <3> HIDE DEF sure
    <3>2. Welcome(sure, Mine')
      BY <1>m, <1>r, <1>t, <1>w, <2>0, <3>1 DEF Welcome
    <3> QED BY <1>k, <2>1, <3>2
  <2>2. CASE call' = [call EXCEPT ![c] = over]
    <3>1. /\ over.user = k.user /\ over.op = k.op /\ over.id = k.id
          /\ over.at = "answered" /\ over.track = k.track
      BY <1>t DEF CallRecord
    <3> HIDE DEF over
    <3>2. Welcome(over, Mine')
      BY <1>m, <1>r, <1>t, <1>w, <2>0, <3>1 DEF Welcome
    <3> QED BY <1>k, <2>2, <3>2
  <2>3. CASE call' = [call EXCEPT ![c] = no] /\ (Owned(s, k.user) => k.op = "next")
    <3>1. k.user # App
      BY <1>r, <2>0, <2>3 DEF Owned, Mine
    <3>2. no.user = k.user
      BY <1>t DEF CallRecord
    <3> HIDE DEF no
    <3>3. Welcome(no, Mine')
      BY <3>1, <3>2 DEF Welcome
    <3> QED BY <1>k, <2>3, <3>3
  <2> QED BY <2>0, <2>1, <2>2, <2>3
<1>2. CASE CheckTrack(c)
  <2> DEFINE k == call[c]
             on == [k EXCEPT !.at = "save"]
             no == [k EXCEPT !.at = "refused", !.base = None]
  <2>0. /\ k.at = "check"
        /\ \/ call' = [call EXCEPT ![c] = on]
           \/ call' = [call EXCEPT ![c] = no] /\ k.track \notin Catalog
    BY <1>2, <1>t DEF CheckTrack, Step, Reply
  <2>1. CASE call' = [call EXCEPT ![c] = on]
    <3>1. on.user = k.user /\ on.op = k.op /\ on.id = k.id /\ on.at = "save" /\ on.track = k.track
      BY <1>t DEF CallRecord
    <3> HIDE DEF on
    <3>2. Welcome(on, Mine')
      BY <1>m, <1>r, <1>t, <1>w, <2>0, <3>1 DEF Welcome
    <3> QED BY <1>k, <2>1, <3>2
  <2>2. CASE call' = [call EXCEPT ![c] = no] /\ k.track \notin Catalog
    <3>1. k.user # App /\ no.user = k.user
      BY <1>r, <1>t, <2>0, <2>2 DEF CallRecord
    <3> HIDE DEF no
    <3>2. Welcome(no, Mine')
      BY <3>1 DEF Welcome
    <3> QED BY <1>k, <2>2, <3>2
  <2> QED BY <2>0, <2>1, <2>2
<1>3. CASE Create(c)
  <2> DEFINE k == call[c]
             new == [k EXCEPT !.at = "answered", !.id = made']
  <2>1. /\ k.op = "create" /\ made' = made + 1 /\ made < MaxSessions
        /\ session' = [session EXCEPT ![made'] = Empty(k.user)]
    BY <1>3 DEF Create
  <2>2. new.user = k.user /\ new.op = "create" /\ new.at = "answered" /\ new.id = made'
    BY <1>t, <2>1 DEF CallRecord
  <2>3. made' \in Ids /\ made' <= made' /\ session'[made'] # None /\ session'[made'].user = k.user
    <3>1. made' \in Ids /\ made' <= made'
      BY <1>t, <2>1, PlaybackAssumption DEF Ids
    <3>2. session'[made'] = Empty(k.user)
      BY <2>1, <3>1 DEF SessionInv
    <3>3. session'[made'] # None
      BY <3>1, SessionsStay
    <3> QED BY <3>1, <3>2, <3>3 DEF Empty
  <2>4. call' = [call EXCEPT ![c] = new]
    BY <1>3, <1>t DEF Create
  <2> HIDE DEF new, k
  <2>5. Welcome(new, Mine')
    <3>1. k.user = App => made' \in Mine'
      BY <2>3 DEF Mine
    <3> QED BY <2>2, <3>1 DEF Welcome
  <2> QED BY <1>k, <2>4, <2>5
<1>4. CASE Save(c)
  <2> DEFINE k == call[c]
             over == [k EXCEPT !.at = "answered", !.base = None]
  <2>1. k.at = "save" /\ k.op # "create" /\ call' = [call EXCEPT ![c] = over]
    BY <1>4, <1>t DEF Save, Reply
  <2>2. /\ over.user = k.user /\ over.op = k.op /\ over.id = k.id
        /\ over.at = "answered" /\ over.track = k.track
    BY <1>t DEF CallRecord
  <2> HIDE DEF over
  <2>3. Welcome(over, Mine')
    BY <1>m, <1>w, <2>1, <2>2 DEF Welcome
  <2> QED BY <1>k, <2>1, <2>3
<1> QED BY <1>1, <1>2, <1>3, <1>4 DEF Serve

LEMMA UnbrokenStep ==
  ASSUME CallInv, SessionInv, TaskInv, PlayerInv, OwnerInv, UnbrokenInv, WarmSkips', [Next]_vars
  PROVE  UnbrokenInv'
<1> SUFFICES ASSUME ~faulty'
             PROVE  /\ ~failed'
                    /\ \A i \in Ids : i <= made' => session'[i] # None
                    /\ sid' # None => sid' \in Mine'
                    /\ \A d \in Calls : Welcome(call[d], Mine)'
  BY DEF UnbrokenInv, Mine, Welcome
<1> USE DEF server, history, player, engine, marks
<1>t. /\ call = [x \in Calls |-> call[x]] /\ DOMAIN call = Calls
      /\ task = [x \in Calls |-> task[x]] /\ DOMAIN task = Calls
  BY DEF SessionInv, PlayerInv
<1>u. ~faulty /\ ~failed /\ (sid # None => sid \in Mine) /\ \A d \in Calls : Welcome(call[d], Mine)
  BY SessionsStay DEF UnbrokenInv
<1>m. Mine \subseteq Mine'
  BY MineStays
<1>s. \A i \in Ids : i <= made' => session'[i] # None
  BY SessionsStay
<1>w. ASSUME NEW d \in Calls, call'[d] = call[d] \/ call'[d] = Free PROVE Welcome(call[d], Mine)'
  <2>1. Welcome(call[d], Mine)
    BY <1>u
  <2>2. Free.at = "free"
    BY DEF Free
  <2> QED BY <1>m, <1>w, <2>1, <2>2 DEF Welcome
<1>l. ASSUME NEW c \in Calls, Lost(c) PROVE call[c].user # App
  BY <1>l, <1>u DEF Lost, Welcome
\* The requests.
<1>1. ASSUME NEW d \in Calls PROVE Welcome(call[d], Mine)'
  <2>1. ASSUME NEW c \in Calls, NEW op, NEW u, NEW i, NEW t, NEW f, Send(c, op, u, i, t, f),
               u = App => op # "next" /\ (op # "create" => i \in Mine) /\ (op = "play" => t \in Catalog)
        PROVE  Welcome(call[d], Mine)'
    <3> DEFINE k == [at |-> IF op = "create" THEN "save" ELSE "load", op |-> op, user |-> u,
                     id |-> i, track |-> t, front |-> f, base |-> None]
    <3>1. call' = [call EXCEPT ![c] = k]
      BY <2>1 DEF Send
    <3>2. /\ k.at \in {"save", "load"} /\ k.op = op /\ k.user = u /\ k.id = i /\ k.track = t
      OBVIOUS
    <3> HIDE DEF k
    <3>3. Welcome(k, Mine')
      BY <1>m, <2>1, <3>2 DEF Welcome
    <3>4. call'[d] = k \/ call'[d] = call[d]
      BY <1>t, <3>1
    <3>5. CASE call'[d] = k
      BY <3>3, <3>5 DEF Welcome
    <3> QED BY <1>w, <3>4, <3>5
  <2>2. ASSUME NEW c \in Calls, AskSession(c) PROVE Welcome(call[d], Mine)'
    <3>1. Send(c, "create", App, 0, None, FALSE)
      BY <2>2 DEF AskSession
    <3> QED BY <2>1, <3>1
  <2>3. ASSUME NEW c \in Calls, AskTrack(c) PROVE Welcome(call[d], Mine)'
    <3>1. /\ task'[c].at = "resolve" /\ task'[c].how = task[c].how
          /\ task[c].how \in {"play", "next"} /\ task[c].item \in Catalog
      BY <1>t, <2>3 DEF AskTrack, TaskGoes, TaskInv, TaskOK
    <3>2. task[c].how = "play"
      BY <3>1 DEF WarmSkips
    <3>3. Send(c, "play", App, sid, task[c].item, FALSE) /\ sid \in Mine
      BY <1>u, <2>3, <3>2 DEF AskTrack
    <3> QED BY <2>1, <3>1, <3>3
  <2>4. ASSUME NEW c \in Calls, NEW op \in {"pause", "seek"}, Sync(c, op) PROVE Welcome(call[d], Mine)'
    <3>1. Send(c, op, App, sid, None, FALSE) /\ sid \in Mine
      BY <1>u, <2>4 DEF Sync
    <3> QED BY <2>1, <2>4, <3>1
  <2>5. ASSUME NEW c \in Calls, Prefetch(c) PROVE Welcome(call[d], Mine)'
    <3>1. CASE UNCHANGED call
      BY <1>w, <3>1
    <3>2. CASE NextItem # None /\ Send(c, "play", App, sid, NextItem, FALSE)
      <4>1. NextItem \in Catalog
        BY <3>2, QueuesAreSeqs
      <4>2. sid \in Ids /\ None \notin Ids
        BY <2>5, PlaybackAssumption DEF Prefetch, PlayerInv, Ids
      <4>3. sid \in Mine
        BY <1>u, <4>2
      <4> QED BY <2>1, <3>2, <4>1, <4>3
    <3> QED BY <2>5, <3>1, <3>2 DEF Prefetch
  <2>6. ASSUME NEW c \in Calls, Asking(c) PROVE Welcome(call[d], Mine)'
    <3>1. PICK op, i, t, front : Send(c, op, Other, i, t, front)
      BY <2>6, Zenon DEF Asking, OtherAsks
    <3> QED BY <2>1, <3>1, AdapterAssumption
  <2>7. ASSUME NEW c \in Calls, Taking(c) PROVE Welcome(call[d], Mine)'
    <3>1. Release(c)
      BY <2>7 DEF Taking, TakeSession, TakeTrack, TakePrefetch, EndSync, OtherDone
    <3> QED BY <1>t, <1>w, <3>1 DEF Release
  <2>8. ASSUME NEW c \in Calls, Starting(c) \/ UseWarm(c) \/ LoadSource(c) \/ Quietly(c) PROVE Welcome(call[d], Mine)'
    <3>1. call' = call
      BY <2>8 DEF Starting, PlayFromQueue, SkipNext, SkipPrevious, UseWarm, LoadSource,
     Quietly, DropWarm, PlayNothing
    <3> QED BY <1>w, <3>1
  <2>9. CASE World
    <3>1. PICK c \in Calls : Serve(c)
      BY <2>9 DEF World
    <3> QED BY <3>1, WelcomeIsServed
  <2>10. CASE EngineAdvances \/ UNCHANGED vars
    BY <1>w, <2>10 DEF vars, EngineAdvances
  <2> QED BY <2>2, <2>3, <2>4, <2>5, <2>6, <2>7, <2>8, <2>9, <2>10, Steps DEF Calling
\* The session of the adapter, and what it shows.
<1>2. ~failed' /\ (sid' # None => sid' \in Mine')
  <2>0. ASSUME failed' = failed \/ ~failed', sid' = sid PROVE ~failed' /\ (sid' # None => sid' \in Mine')
    BY <1>m, <1>u, <2>0 DEF Mine
  <2>1. ASSUME NEW c \in Calls, Starting(c) PROVE ~failed' /\ sid' = sid
    BY <2>1 DEF Starting, PlayFromQueue, SkipNext, SkipPrevious, StartLoading
  <2>2. ASSUME NEW c \in Calls, TakeSession(c) PROVE ~failed' /\ (sid' # None => sid' \in Mine')
    <3>1. call[c].user = App /\ call[c].op = "create" /\ call[c].at # "free"
      BY <2>2 DEF TakeSession, TaskInv, TaskOK
    <3>2. Answered(c) /\ sid' = call[c].id /\ failed' = failed
      BY <1>l, <2>2, <3>1 DEF TakeSession
    <3>3. call[c].id \in Mine
      BY <1>u, <3>1, <3>2 DEF Answered, Welcome
    <3> QED BY <1>m, <1>u, <3>2, <3>3 DEF Mine
  <2>3. ASSUME NEW c \in Calls, TakeTrack(c) PROVE failed' = failed /\ sid' = sid
    <3>1. call[c].user = App
      BY <2>3 DEF TakeTrack, TaskInv, TaskOK
    <3> QED BY <1>l, <2>3, <3>1 DEF TakeTrack
  <2>4. ASSUME NEW c \in Calls, LoadSource(c) PROVE failed' = failed /\ sid' = sid
    BY <2>4 DEF LoadSource
  <2>5. ASSUME NEW c \in Calls, Calling(c) \/ Asking(c) \/ UseWarm(c) \/ Prefetch(c)
                               \/ TakePrefetch(c) \/ EndSync(c) \/ OtherDone(c) \/ Quietly(c)
        PROVE  failed' = failed /\ sid' = sid
    BY <2>5 DEF Quietly, DropWarm, PlayNothing, Calling, Asking, UseWarm, Prefetch, TakePrefetch, EndSync, OtherDone, AskSession,
       AskTrack, Sync, OtherAsks
  <2>6. CASE World \/ EngineAdvances \/ UNCHANGED vars
    BY <2>0, <2>6 DEF World, EngineAdvances, vars
  <2> QED BY <2>0, <2>1, <2>2, <2>3, <2>4, <2>5, <2>6, Steps DEF Taking
<1> QED BY <1>1, <1>2, <1>s

\* The missing prefetch is the one cause of the errors that no fault explains:
\* as long as every skipNext finds its track warm, a command ends in an error
\* only when a call or a load was lost or a session expired, overlapping
\* commands or not (skipNext, _prefetchNext).
THEOREM WarmSkipsFallBack ==
  Spec /\ []WarmSkips => [](SkipFallsBack /\ (failed => faulty))
<1>1. Init => UnbrokenInv
  <2> SUFFICES ASSUME Init PROVE UnbrokenInv
    OBVIOUS
  <2>1. \A i \in Ids : ~(i <= made)
    BY DEF Init, ServerInit, Ids
  <2> QED BY <2>1 DEF Init, ServerInit, UnbrokenInv, Welcome, Free
<1>2. IInv /\ UnbrokenInv /\ WarmSkips' /\ [Next]_vars => UnbrokenInv'
  BY UnbrokenStep DEF IInv
<1>3. UnbrokenInv => SkipFallsBack /\ (failed => faulty)
  BY DEF UnbrokenInv, SkipFallsBack
<1> QED BY <1>1, <1>2, <1>3, Inductive, PTL DEF Spec
=============================================================================
