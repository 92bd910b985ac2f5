-------------------------- MODULE FeedClient_proofs --------------------------
(***************************************************************************)
(* First the reconnecting client on its own: for any callers of start()    *)
(* and stop(), any number of loops and transports, whatever the network    *)
(* does.  Then the feed, which uses it as SocketSpec allows, so that what  *)
(* is proved of the client holds of the feed; and what the feed leaves     *)
(* behind, or has running, once it has settled.                            *)
(***************************************************************************)
EXTENDS FeedClient, FiniteSetTheorems, TLAPS

SocketInv == SocketTypeOK /\ SessionIsWatched

\* The capped counters stay in range.
LEMMA AtMostRange == \A n \in Nat : AtMost(n) \in 0..MaxAttempt
BY SocketAssumption DEF AtMost

\* A transport is taken into use only when nothing refers to it.
LEMMA UnusedIsFree ==
    (\E k \in Sockets : Free(k)) => Unused \in Sockets /\ Free(Unused)
BY DEF Unused

LEMMA SocketInvInit == SocketInit => SocketInv
BY SocketAssumption DEF SocketInit, SocketInv, SocketTypeOK, SessionIsWatched

\* What an attempt leaves behind, made by a start() or after a backoff: the
\* loop that made it drives the client, and no other loop is in a session.
LEMMA TryStep ==
    ASSUME SocketInv, NEW l \in Loops, NEW tries \in Nat, Try(l, tries),
           current' = l, attempt' \in 0..MaxAttempt,
           \A m \in Loops \ {l} : loop[m] # "session", loop[l] # "session"
    PROVE  SocketInv'
<1>1. CASE Dial(l)
  <2>1. Unused \in Sockets /\ Free(Unused)
    BY <1>1, UnusedIsFree DEF Dial
  <2>2. SocketTypeOK'
    BY <1>1, <2>1 DEF Try, Dial, SocketInv, SocketTypeOK
  <2>3. SessionIsWatched'
    BY <1>1, <2>1 DEF Try, Dial, SocketInv, SocketTypeOK, SessionIsWatched
  <2> QED BY <2>2, <2>3 DEF SocketInv
<1>2. CASE CannotDial(l, tries)
  <2>2. SocketTypeOK'
    BY <1>2 DEF Try, CannotDial, SocketInv, SocketTypeOK
  <2>3. SessionIsWatched'
    BY <1>2 DEF Try, CannotDial, SocketInv, SocketTypeOK, SessionIsWatched
  <2> QED BY <2>2, <2>3 DEF SocketInv
<1> QED BY <1>1, <1>2 DEF Try

LEMMA SocketInvStep == SocketInv /\ [SocketNext]_socketVars => SocketInv'
<1> SUFFICES ASSUME SocketInv, [SocketNext]_socketVars PROVE SocketInv'
  OBVIOUS
<1> USE SocketAssumption
<1>1. ASSUME NEW l \in Loops, Start(l) PROVE SocketInv'
  <2>1. \A m \in Loops : loop[m] # "session"
    BY <1>1 DEF Start, Stopped, SocketInv, SessionIsWatched
  <2> QED BY <1>1, <2>1, TryStep DEF Start
<1>2. ASSUME NEW l \in Loops, DelayOver(l) PROVE SocketInv'
  <2>1. \A m \in Loops \ {l} : loop[m] # "session"
    BY <1>2 DEF DelayOver, SocketInv, SessionIsWatched
  <2>2. attempt \in 0..MaxAttempt /\ attempt \in Nat
    BY DEF SocketInv, SocketTypeOK
  <2> QED BY <1>2, <2>1, <2>2, TryStep DEF DelayOver
<1>3. ASSUME NEW l \in Loops, BackOff(l) PROVE SocketInv'
  <2>1. attempt' \in 0..MaxAttempt
    BY <1>3, AtMostRange DEF BackOff, SocketInv, SocketTypeOK
  <2>2. SocketTypeOK'
    BY <1>3, <2>1 DEF BackOff, SocketInv, SocketTypeOK
  <2>3. SessionIsWatched'
    BY <1>3 DEF BackOff, SocketInv, SocketTypeOK, SessionIsWatched
  <2> QED BY <2>2, <2>3 DEF SocketInv
<1>4. ASSUME NEW l \in Loops, Return(l) PROVE SocketInv'
  BY <1>4 DEF Return, SocketInv, SocketTypeOK, SessionIsWatched
<1>5. ASSUME NEW C \in SUBSET Callers, StopBegin(C) PROVE SocketInv'
  <2>1. SocketTypeOK'
    BY <1>5 DEF StopBegin, Released, SocketInv, SocketTypeOK
  <2>2. \A l \in Loops : loop'[l] # "session"
    BY <1>5 DEF StopBegin, Released, SocketInv, SocketTypeOK, SessionIsWatched
  <2> QED BY <2>1, <2>2 DEF SocketInv, SessionIsWatched
<1>6. ASSUME NEW c \in Callers, StopClose(c) PROVE SocketInv'
  <2>1. SocketTypeOK'
    BY <1>6 DEF StopClose, SocketInv, SocketTypeOK
  <2>2. \A k \in Sockets : wire[k] # "closed" => wire'[k] # "closed"
    BY <1>6 DEF StopClose, SocketInv, SocketTypeOK
  <2> QED BY <1>6, <2>1, <2>2 DEF StopClose, SocketInv, SessionIsWatched
<1>7. ASSUME NEW c \in Callers, StopEnd(c) PROVE SocketInv'
  BY <1>7 DEF StopEnd, SocketInv, SocketTypeOK, SessionIsWatched
<1>8. ASSUME NEW k \in Sockets, Opened(k) PROVE SocketInv'
  BY <1>8 DEF Opened, SocketInv, SocketTypeOK, SessionIsWatched
<1>9. ASSUME NEW k \in Sockets, Ends(k) PROVE SocketInv'
  <2>2. SocketTypeOK'
    BY <1>9 DEF Ends, Notified, SocketInv, SocketTypeOK
  <2>3. ASSUME NEW l \in Loops, loop'[l] = "session"
        PROVE  loop[l] = "session" /\ ~(heard[k] /\ k = awaited)
    BY <1>9, <2>3 DEF Ends, Notified, SocketInv, SocketTypeOK
  <2>4. SessionIsWatched'
    BY <1>9, <2>3 DEF Ends, SocketInv, SocketTypeOK, SessionIsWatched
  <2> QED BY <2>2, <2>4 DEF SocketInv
<1>10. CASE UNCHANGED socketVars
  BY <1>10 DEF socketVars, SocketInv, SocketTypeOK, SessionIsWatched
<1> QED
  BY <1>1, <1>2, <1>3, <1>4, <1>5, <1>6, <1>7, <1>8, <1>9, <1>10
  DEF SocketNext, Proceed, StopProceeds, Network

\* Every field keeps its type, and the counters their bounds.
THEOREM SocketTypeCorrect == SocketSpec => []SocketTypeOK
<1>1. SocketInv => SocketTypeOK BY DEF SocketInv
<1> QED BY <1>1, SocketInvInit, SocketInvStep, PTL DEF SocketSpec

\* No connect loop waits for a session whose end nobody would report, and only
\* the loop of the current generation is in one: _attemptConnect and stop().
THEOREM EverySessionWatched == SocketSpec => []SessionIsWatched
<1>1. SocketInv => SessionIsWatched BY DEF SocketInv
<1> QED BY <1>1, SocketInvInit, SocketInvStep, PTL DEF SocketSpec

-----------------------------------------------------------------------------
(* The feed is a client of the socket.                                      *)

\* A start() of the repository starts a stopped client or does nothing.
LEMMA StartStep == StartClient => [SocketNext]_socketVars
BY DEF StartClient, SocketNext

LEMMA FeedStep == [Next]_vars => [SocketNext]_socketVars
<1> SUFFICES ASSUME [Next]_vars PROVE [SocketNext]_socketVars
  OBVIOUS
<1>1. CASE \E w \in BOOLEAN : Rebuild(w)
  BY <1>1 DEF Rebuild
<1>2. CASE NothingToDo
  BY <1>2 DEF NothingToDo
<1>3. CASE Connect
  BY <1>3, StartStep DEF Connect
<1>4. CASE \E d \in Disconnects : BeginDisconnect(d)
  BY <1>4 DEF BeginDisconnect
<1>5. ASSUME NEW d \in Disconnects, CancelNext(d) PROVE UNCHANGED socketVars
  BY <1>5 DEF CancelNext
<1>6. ASSUME NEW d \in Disconnects, StopSocket(d) PROVE SocketNext
  <2>1. {d} \in (SUBSET Callers) \ {{}} /\ StopBegin({d})
    BY <1>6, FeedAssumption DEF StopSocket
  <2> QED BY <2>1 DEF SocketNext
<1>7. ASSUME NEW k \in Sockets, DrainFrame(k) PROVE SocketNext
  <2>1. PICK D \in SUBSET (Drains \ restarting) : D # {} /\ StopBegin(D)
    BY <1>7 DEF DrainFrame
  <2>2. D \in (SUBSET Callers) \ {{}}
    BY <2>1, FeedAssumption
  <2> QED BY <2>1, <2>2 DEF SocketNext
<1>8. ASSUME NEW d \in Drains, Restart(d) PROVE [SocketNext]_socketVars
  BY <1>8, StartStep DEF Restart
<1>9. CASE SocketProceeds
  BY <1>9 DEF SocketProceeds, SocketNext
<1>10. CASE UNCHANGED vars
  BY <1>10 DEF vars
<1> QED
  BY <1>1, <1>2, <1>3, <1>4, <1>5, <1>6, <1>7, <1>8, <1>9, <1>10
  DEF Next, Act, Disconnect

\* So the feed's behaviours are among the socket's, and what is proved of the
\* socket on its own holds of them.
LEMMA FeedUsesSocket == Spec => SocketSpec
<1>1. Init => SocketInit
  BY DEF Init
<1> QED BY <1>1, FeedStep, PTL DEF Spec, SocketSpec

\* However connects, disconnects and drains overlap, the end of a session
\* always reaches the loop that waits for it.
THEOREM FeedSessionWatched == Spec => []SessionIsWatched
BY FeedUsesSocket, EverySessionWatched, PTL

-----------------------------------------------------------------------------
(* What the feed installs and leaves behind.                                *)

\* The last rebuild is the one that counts.
WantInv ==
  /\ rebuilds = << >> => connected = want
  /\ rebuilds # << >> => rebuilds[Len(rebuilds)] = want

\* What a rebuild may still install, and what there is.
LiveInv == \A s \in Streams : live[s] + Len(rebuilds) <= asked /\ (held[s] => live[s] > 0)

\* A drain's stop() is followed by its start().
DrainInv == \A d \in Drains : stopping[d] # "no" => d \in restarting

Active(d) == leaving[d] # "no" \/ stopping[d] # "no"

\* How far a disconnect() that has just cancelled at has come.
Left(at) == CASE at = "messages" -> {"messages"}
              [] at = "phases" -> {"messages", "phases"}
              [] at = "positions" -> {"messages", "phases", "positions"}

\* As long as no connect() has run into a disconnect() or a stop(): one
\* disconnect() at a time, which cancels what the last connect() installed.
InTurn ==
  /\ connected =>
       /\ \A d \in Disconnects : ~Active(d)
       /\ \A s \in Streams : held[s] /\ live[s] = 1
       /\ Stopped => restarting # {}
  /\ ~connected =>
       /\ \A d, e \in Disconnects : Active(d) /\ Active(e) => d = e
       /\ \A d \in Disconnects : leaving[d] # "no" =>
            /\ stopping[d] = "no"
            /\ \A s \in Streams : IF s \in Left(leaving[d]) THEN ~held[s] /\ live[s] = 0
                                                            ELSE held[s] /\ live[s] = 1
       /\ (\A d \in Disconnects : leaving[d] = "no") =>
            \A s \in Streams : ~held[s] /\ live[s] = 0

FeedInv == "connect" \notin overlaps => InTurn

AllClosed == \A k \in Sockets : wire[k] = "closed"

\* As long as nothing has run into a disconnect() at all: one transport, and
\* one stop() at a time, which closes it.
Clean ==
  /\ \A k \in Sockets : wire[k] # "closed" => k = transport
  /\ \A k \in Sockets : heard[k] => /\ k = subscription /\ k = transport /\ k = awaited
                                 /\ wire[k] # "closed"
  /\ current # None =>
       /\ ~Stopping /\ restarting = {} /\ phase # "disconnected"
       /\ connected \/ \E d \in Disconnects : leaving[d] # "no"
       /\ loop[current] = "session" \/ AllClosed
       /\ loop[current] \in {"session", "over", "refused", "backoff"}
  /\ current = None =>
       /\ \A k \in Sockets : ~heard[k]
       /\ ~Stopping => AllClosed /\ phase = "disconnected"
  /\ \A c, e \in Callers : stopping[c] # "no" /\ stopping[e] # "no" => c = e
  /\ \A c \in Callers : stopping[c] = "closing" => closing[c] = transport
  /\ \A d, e \in restarting : d = e
  /\ restarting # {} => connected

CleanInv == overlaps = {} => Clean

FeedTypeOK ==
  /\ want \in BOOLEAN /\ connected \in BOOLEAN
  /\ rebuilds \in Seq(BOOLEAN) /\ asked \in 0..MaxRebuilds
  /\ live \in [Streams -> Nat] /\ held \in [Streams -> BOOLEAN]
  /\ leaving \in [Disconnects -> {"no", "messages", "phases", "positions"}]
  /\ restarting \subseteq Drains /\ overlaps \subseteq {"connect", "drain"}

LEMMA AfterIs ==
  ASSUME NEW s \in DOMAIN After
  PROVE  \/ s = "messages" /\ After[s] = "phases"
         \/ s = "phases" /\ After[s] = "positions"
<1>1. s \in {"messages", "phases"}
  BY DEF After
<1>2. CASE s = "messages"
  BY <1>2 DEF After
<1>3. CASE s = "phases"
  BY <1>3 DEF After
<1> QED BY <1>1, <1>2, <1>3

\* The steps of the socket that are nobody's in the feed.
LEMMA SocketSteps ==
  ASSUME SocketTypeOK, SocketProceeds
  PROVE  /\ UNCHANGED feedVars /\ current' = current
         /\ \A c \in Callers : stopping[c] = "no" => stopping'[c] = "no"
<1>1. /\ UNCHANGED feedVars
      /\ \/ \E l \in Loops : Proceed(l)
         \/ \E c \in Callers : StopProceeds(c)
         \/ Network
  BY DEF SocketProceeds
<1>2. ASSUME NEW l \in Loops, Proceed(l) PROVE current' = current /\ stopping' = stopping
  BY <1>2 DEF Proceed, BackOff, DelayOver, Return, Try
<1>3. ASSUME NEW c \in Callers, StopProceeds(c)
      PROVE  current' = current /\ \A e \in Callers : stopping[e] = "no" => stopping'[e] = "no"
  BY <1>3 DEF StopProceeds, StopClose, StopEnd, SocketTypeOK
<1>4. ASSUME Network PROVE current' = current /\ stopping' = stopping
  BY <1>4 DEF Network, Opened, Ends
<1> QED BY <1>1, <1>2, <1>3, <1>4

LEMMA StartSteps == ASSUME StartClient PROVE stopping' = stopping
BY DEF StartClient, Start, Try, socketVars

LEMMA StopSteps ==
  ASSUME NEW C \in SUBSET Callers, StopBegin(C)
  PROVE  \A c \in Callers : stopping'[c] # "no" <=> c \in C \/ stopping[c] # "no"
BY DEF StopBegin

\* A boolean at the head of a queue, and a queue with something behind its head.
LEMMA HeadOfQueue == \A q \in Seq(BOOLEAN) : q # << >> => Head(q) \in BOOLEAN
OBVIOUS
LEMMA LongQueue == \A q \in Seq(BOOLEAN) : Len(q) # 0 => q # << >>
OBVIOUS

\* Types, and what is live is due to a rebuild that has acted.
LEMMA FeedTypeStep ==
  SocketTypeOK /\ FeedTypeOK /\ LiveInv /\ WantInv /\ [Next]_vars
    => FeedTypeOK' /\ LiveInv' /\ WantInv'
<1> SUFFICES ASSUME SocketTypeOK, FeedTypeOK, LiveInv, WantInv, [Next]_vars
             PROVE  FeedTypeOK' /\ LiveInv' /\ WantInv'
  OBVIOUS
<1> USE FeedAssumption DEF FeedTypeOK
<1>0. ASSUME UNCHANGED feedVars PROVE FeedTypeOK' /\ LiveInv' /\ WantInv'
  BY <1>0 DEF feedVars, LiveInv, WantInv
<1>1. ASSUME NEW w \in BOOLEAN, Rebuild(w) PROVE FeedTypeOK' /\ LiveInv' /\ WantInv'
  <2>1. /\ rebuilds' \in Seq(BOOLEAN) /\ Len(rebuilds') = Len(rebuilds) + 1
        /\ rebuilds'[Len(rebuilds')] = w /\ rebuilds' # << >>
        /\ asked' = asked + 1 /\ asked' \in 0..MaxRebuilds /\ want' = w
    <3>1. /\ rebuilds' = Append(rebuilds, w) /\ asked' = asked + 1 /\ want' = w
          /\ asked < MaxRebuilds /\ asked \in 0..MaxRebuilds /\ rebuilds \in Seq(BOOLEAN)
      BY <1>1 DEF Rebuild
    <3>2. rebuilds' \in Seq(BOOLEAN) /\ Len(rebuilds') = Len(rebuilds) + 1
      BY ONLY <3>1, w \in BOOLEAN
    <3>3. rebuilds'[Len(rebuilds')] = w
      BY ONLY <3>1, <3>2
    <3>4. rebuilds' # << >>
      BY ONLY <3>1, <3>2
    <3>5. asked' \in 0..MaxRebuilds
      BY ONLY <3>1, FeedAssumption
    <3> QED BY ONLY <3>1, <3>2, <3>3, <3>4, <3>5
  <2>2. live' = live /\ held' = held /\ \A s \in Streams : live[s] \in Nat
    BY <1>1 DEF Rebuild
  <2>3. LiveInv'
    BY <2>1, <2>2 DEF LiveInv
  <2> QED BY <1>1, <2>1, <2>3 DEF Rebuild, WantInv
<1>2. ASSUME rebuilds # << >>, rebuilds' = Tail(rebuilds), want' = want, connected' = Head(rebuilds)
      PROVE  rebuilds' \in Seq(BOOLEAN) /\ Len(rebuilds') = Len(rebuilds) - 1 /\ WantInv'
  <2>1. /\ Head(rebuilds) = rebuilds[1] /\ Len(rebuilds) \in Nat \ {0}
        /\ Tail(rebuilds) \in Seq(BOOLEAN) /\ Len(Tail(rebuilds)) = Len(rebuilds) - 1
        /\ \A i \in 1..(Len(rebuilds) - 1) : Tail(rebuilds)[i] = rebuilds[i + 1]
    BY <1>2
  <2>2. CASE Len(rebuilds) = 1
    <3>1. Tail(rebuilds) = << >>
      BY <2>1, <2>2, SMTT(30)
    <3> QED BY <1>2, <2>1, <2>2, <3>1 DEF WantInv
  <2>3. CASE Len(rebuilds) # 1
    <3>0. Len(rebuilds) - 1 \in 1..(Len(rebuilds) - 1) /\ (Len(rebuilds) - 1) + 1 = Len(rebuilds)
      BY ONLY <2>1, <2>3
    <3>n. PICK n \in 1..(Len(rebuilds) - 1) : n = Len(rebuilds) - 1 /\ n + 1 = Len(rebuilds)
      BY <3>0
    <3>m. Tail(rebuilds)[n] = rebuilds[n + 1]
      BY ONLY <2>1, n \in 1..(Len(rebuilds) - 1)
    <3>e. Tail(rebuilds) # << >>
      <4>1. Len(Tail(rebuilds)) # 0
        BY ONLY <2>1, <2>3
      <4> QED BY ONLY <2>1, <4>1, LongQueue
    <3>1. Tail(rebuilds) # << >> /\ Tail(rebuilds)[Len(rebuilds) - 1] = rebuilds[Len(rebuilds)]
      BY ONLY <3>n, <3>m, <3>e
    <3> QED BY <1>2, <2>1, <3>1 DEF WantInv
  <2> QED BY <2>2, <2>3
<1>3. CASE NothingToDo
  <2>1. /\ rebuilds' \in Seq(BOOLEAN) /\ Len(rebuilds') = Len(rebuilds) - 1 /\ WantInv'
    BY <1>2, <1>3 DEF NothingToDo
  <2>2. live' = live /\ held' = held /\ asked' = asked /\ Len(rebuilds) \in Nat
    BY <1>3 DEF NothingToDo
  <2>3. LiveInv'
    BY <2>1, <2>2 DEF LiveInv
  <2> QED BY <1>3, <2>1, <2>3 DEF NothingToDo
<1>4. CASE Connect
  <2>1. /\ rebuilds' \in Seq(BOOLEAN) /\ Len(rebuilds') = Len(rebuilds) - 1 /\ WantInv'
    BY <1>2, <1>4 DEF Connect
  <2>2. /\ live' \in [Streams -> Nat] /\ held' \in [Streams -> BOOLEAN] /\ asked' = asked
        /\ \A s \in Streams : live'[s] = live[s] + 1 /\ live[s] \in Nat
    <3>1. /\ live' = [s \in Streams |-> live[s] + 1] /\ held' = [s \in Streams |-> TRUE]
          /\ live \in [Streams -> Nat] /\ asked' = asked
      BY <1>4 DEF Connect
    <3> QED BY ONLY <3>1
  <2>3. LiveInv'
    <3>1. Len(rebuilds) \in Nat
      OBVIOUS
    <3> QED BY <2>1, <2>2, <3>1 DEF LiveInv
  <2> QED BY <1>4, <2>1, <2>2, <2>3 DEF Connect
<1>5. ASSUME NEW s \in Streams, live' = Cancelled(s),
             \A x \in Streams : held'[x] => held[x] /\ x # s
      PROVE  /\ live' \in [Streams -> Nat]
             /\ \A x \in Streams : live'[x] <= live[x] /\ (held'[x] => live'[x] > 0)
  <2>1. \A x \in Streams : live[x] \in Nat /\ (held[x] => live[x] > 0)
    BY DEF LiveInv
  <2>2. \A x \in Streams : live'[x] = IF x = s /\ held[x] THEN live[x] - 1 ELSE live[x]
    BY <1>5 DEF Cancelled
  <2>4. \A x \in Streams : live'[x] \in Nat
    BY <2>1, <2>2
  <2>5. live' = [x \in Streams |-> live'[x]]
    BY <1>5 DEF Cancelled
  <2>7. live' \in [Streams -> Nat]
    BY <2>4, <2>5
  <2> QED BY <1>5, <2>1, <2>2, <2>7
<1>6. ASSUME NEW d \in Disconnects, BeginDisconnect(d) PROVE FeedTypeOK' /\ LiveInv' /\ WantInv'
  <2>1. /\ rebuilds' \in Seq(BOOLEAN) /\ Len(rebuilds') = Len(rebuilds) - 1 /\ WantInv'
    <3>1. rebuilds # << >> /\ ~Head(rebuilds) /\ connected' = FALSE /\ want' = want
          /\ rebuilds' = Tail(rebuilds)
      BY <1>6 DEF BeginDisconnect
    <3>2. Head(rebuilds) \in BOOLEAN
      BY <3>1, HeadOfQueue
    <3>3. connected' = Head(rebuilds)
      BY ONLY <3>1, <3>2
    <3> QED BY <1>2, <3>1, <3>3
  <2>2. "messages" \in Streams /\ asked' = asked /\ Len(rebuilds) \in Nat
    <3>1. "messages" \in Streams
      BY ONLY DEF Streams
    <3>2. Len(rebuilds) \in Nat
      OBVIOUS
    <3> QED BY <1>6, <3>1, <3>2 DEF BeginDisconnect
  <2>3. /\ live' \in [Streams -> Nat] /\ held' \in [Streams -> BOOLEAN]
        /\ \A x \in Streams : live'[x] <= live[x] /\ (held'[x] => live'[x] > 0)
    <3>1. live' = Cancelled("messages") /\ held' = [held EXCEPT !["messages"] = FALSE]
      BY <1>6 DEF BeginDisconnect
    <3>2. /\ held' \in [Streams -> BOOLEAN]
          /\ \A x \in Streams : held'[x] => held[x] /\ x # "messages"
      BY ONLY <3>1, held \in [Streams -> BOOLEAN]
    <3> QED BY <1>5, <2>2, <3>1, <3>2
  <2>4. LiveInv'
    BY <2>1, <2>2, <2>3 DEF LiveInv
  <2> QED BY <1>6, <2>1, <2>3, <2>4 DEF BeginDisconnect
<1>7. ASSUME NEW d \in Disconnects, CancelNext(d) PROVE FeedTypeOK' /\ LiveInv' /\ WantInv'
  <2>1. After[leaving[d]] \in {"phases", "positions"} /\ After[leaving[d]] \in Streams
    BY <1>7, AfterIs DEF CancelNext, Streams
  <2>2. UNCHANGED <<rebuilds, asked, want, connected>> /\ Len(rebuilds) \in Nat
    BY <1>7 DEF CancelNext
  <2>3. /\ live' \in [Streams -> Nat] /\ held' \in [Streams -> BOOLEAN]
        /\ \A x \in Streams : live'[x] <= live[x] /\ (held'[x] => live'[x] > 0)
    <3>1. /\ live' = Cancelled(After[leaving[d]])
          /\ held' = [held EXCEPT ![After[leaving[d]]] = FALSE]
      BY <1>7 DEF CancelNext
    <3>2. /\ held' \in [Streams -> BOOLEAN]
          /\ \A x \in Streams : held'[x] => held[x] /\ x # After[leaving[d]]
      BY ONLY <3>1, held \in [Streams -> BOOLEAN]
    <3> QED BY <1>5, <2>1, <3>1, <3>2
  <2>4. LiveInv' /\ WantInv'
    BY <2>2, <2>3 DEF LiveInv, WantInv
  <2>5. leaving' \in [Disconnects -> {"no", "messages", "phases", "positions"}]
    BY <1>7, <2>1 DEF CancelNext
  <2> QED BY <1>7, <2>2, <2>3, <2>4, <2>5 DEF CancelNext
<1>8. ASSUME NEW d \in Disconnects, StopSocket(d) PROVE FeedTypeOK' /\ LiveInv' /\ WantInv'
  <2>2. /\ UNCHANGED <<rebuilds, asked, want, connected>> /\ Len(rebuilds) \in Nat
        /\ "heartbeat" \in Streams
    BY <1>8 DEF StopSocket, Streams
  <2>3. /\ live' \in [Streams -> Nat] /\ held' \in [Streams -> BOOLEAN]
        /\ \A x \in Streams : live'[x] <= live[x] /\ (held'[x] => live'[x] > 0)
    <3>1. /\ live' = Cancelled("heartbeat") /\ held' \in [Streams -> BOOLEAN]
          /\ \A x \in Streams : held'[x] => held[x] /\ x # "heartbeat"
      BY <1>8 DEF StopSocket
    <3> QED BY <1>5, <2>2, <3>1
  <2>4. LiveInv' /\ WantInv'
    BY <2>2, <2>3 DEF LiveInv, WantInv
  <2> QED BY <1>8, <2>2, <2>3, <2>4 DEF StopSocket
<1>9. ASSUME NEW k \in Sockets, DrainFrame(k) PROVE FeedTypeOK' /\ LiveInv' /\ WantInv'
  BY <1>9 DEF DrainFrame, LiveInv, WantInv
<1>10. ASSUME NEW d \in Drains, Restart(d) PROVE FeedTypeOK' /\ LiveInv' /\ WantInv'
  BY <1>10 DEF Restart, LiveInv, WantInv
<1>11. CASE SocketProceeds
  BY <1>0, <1>11 DEF SocketProceeds
<1>12. CASE UNCHANGED vars
  BY <1>0, <1>12 DEF vars
<1> QED BY <1>1, <1>3, <1>4, <1>6, <1>7, <1>8, <1>9, <1>10, <1>11, <1>12
    DEF Next, Act, Disconnect

\* A drain's restart outlives its stop().
LEMMA DrainStep ==
  SocketTypeOK /\ FeedTypeOK /\ DrainInv /\ [Next]_vars => DrainInv'
<1> SUFFICES ASSUME SocketTypeOK, FeedTypeOK, DrainInv, [Next]_vars PROVE DrainInv'
  OBVIOUS
<1>c. Drains \subseteq Callers /\ Disconnects \subseteq Callers /\ Disconnects \cap Drains = {}
  BY FeedAssumption
<1>1. ASSUME stopping' = stopping, restarting' = restarting PROVE DrainInv'
  BY <1>1 DEF DrainInv
<1>2. ASSUME \E w \in BOOLEAN : Rebuild(w) PROVE DrainInv'
  BY <1>1, <1>2 DEF Rebuild, socketVars
<1>3. CASE NothingToDo
  BY <1>1, <1>3 DEF NothingToDo, socketVars
<1>4. CASE Connect
  BY <1>1, <1>4, StartSteps DEF Connect
<1>5. ASSUME NEW d \in Disconnects, BeginDisconnect(d) \/ CancelNext(d) PROVE DrainInv'
  BY <1>1, <1>5 DEF BeginDisconnect, CancelNext, socketVars
<1>6. ASSUME NEW d \in Disconnects, StopSocket(d) PROVE DrainInv'
  <2>1. \A c \in Callers : stopping'[c] # "no" <=> c \in {d} \/ stopping[c] # "no"
    BY <1>6, <1>c, StopSteps DEF StopSocket
  <2> QED BY <1>6, <1>c, <2>1 DEF StopSocket, DrainInv
<1>7. ASSUME NEW k \in Sockets, DrainFrame(k) PROVE DrainInv'
  <2>1. PICK D \in SUBSET (Drains \ restarting) : StopBegin(D) /\ restarting' = restarting \cup D
    BY <1>7 DEF DrainFrame
  <2>2. \A c \in Callers : stopping'[c] # "no" <=> c \in D \/ stopping[c] # "no"
    BY <1>c, <2>1, StopSteps
  <2> QED BY <1>c, <2>1, <2>2 DEF DrainInv
<1>8. ASSUME NEW d \in Drains, Restart(d) PROVE DrainInv'
  BY <1>8, StartSteps DEF Restart, DrainInv
<1>9. CASE SocketProceeds
  BY <1>9, <1>c, SocketSteps DEF feedVars, DrainInv
<1>10. CASE UNCHANGED vars
  BY <1>1, <1>10 DEF vars, socketVars, feedVars
<1> QED BY <1>2, <1>3, <1>4, <1>5, <1>6, <1>7, <1>8, <1>9, <1>10 DEF Next, Act, Disconnect

\* overlaps only grows.
LEMMA OverlapsGrow == [Next]_vars => overlaps \subseteq overlaps'
BY DEF Next, Act, Disconnect, Rebuild, NothingToDo, Connect, BeginDisconnect, CancelNext,
   StopSocket, DrainFrame, Restart, SocketProceeds, vars, feedVars

\* One connect(), one disconnect().
LEMMA FeedInvStep ==
  SocketTypeOK /\ FeedTypeOK /\ DrainInv /\ FeedInv /\ [Next]_vars => FeedInv'
<1> SUFFICES ASSUME SocketTypeOK, FeedTypeOK, DrainInv, InTurn, [Next]_vars,
                    "connect" \notin overlaps'
             PROVE  InTurn'
  BY OverlapsGrow DEF FeedInv
<1>t. /\ connected \in BOOLEAN /\ live \in [Streams -> Nat] /\ held \in [Streams -> BOOLEAN]
      /\ leaving \in [Disconnects -> {"no", "messages", "phases", "positions"}]
      /\ restarting \subseteq Drains
  BY DEF FeedTypeOK
<1>c. Drains \subseteq Callers /\ Disconnects \subseteq Callers /\ Disconnects \cap Drains = {}
  BY FeedAssumption
<1>s. Streams = {"messages", "phases", "positions", "heartbeat"}
  BY DEF Streams
<1>1. ASSUME UNCHANGED <<connected, live, held, leaving>>, current' = current,
             restarting \subseteq restarting',
             \A d \in Disconnects : stopping[d] = "no" => stopping'[d] = "no"
      PROVE  InTurn'
  BY <1>1 DEF InTurn, Active, Stopped
<1>2. ASSUME \E w \in BOOLEAN : Rebuild(w) PROVE InTurn'
  BY <1>1, <1>2 DEF Rebuild, socketVars
<1>3. CASE NothingToDo
  BY <1>1, <1>3 DEF NothingToDo, socketVars
<1>4. CASE Connect
  <2>1. ~Disconnecting /\ ~Stopping
    BY <1>4 DEF Connect
  <2>2. /\ ~connected /\ connected' = TRUE /\ live' = [s \in Streams |-> live[s] + 1]
        /\ held' = [s \in Streams |-> TRUE] /\ leaving' = leaving /\ stopping' = stopping
    BY <1>4, StartSteps DEF Connect
  <2>3. \A d \in Disconnects : leaving[d] = "no" /\ stopping[d] = "no"
    BY <2>1 DEF Disconnecting
  <2>4. \A s \in Streams : live[s] = 0
    BY <2>2, <2>3 DEF InTurn
  <2>5. ~Stopped'
    BY <1>4, SocketAssumption DEF Connect, StartClient, Start, Stopped, socketVars
  <2>6. \A s \in Streams : held'[s] /\ live'[s] = 1
    BY <2>2, <2>4
  <2> QED BY <2>2, <2>3, <2>5, <2>6 DEF InTurn, Active
<1>5. ASSUME NEW d \in Disconnects, BeginDisconnect(d) PROVE InTurn'
  <2>1. /\ connected /\ connected' = FALSE /\ live' = Cancelled("messages")
        /\ held' = [held EXCEPT !["messages"] = FALSE]
        /\ leaving' = [leaving EXCEPT ![d] = "messages"] /\ stopping' = stopping
    BY <1>5 DEF BeginDisconnect, socketVars
  <2>2. \A s \in Streams : IF s = "messages" THEN ~held'[s] /\ live'[s] = 0
                                              ELSE held'[s] /\ live'[s] = 1
    BY <2>1, <1>s, <1>t DEF InTurn, Cancelled
  <2>3. \A e \in Disconnects : leaving'[e] = (IF e = d THEN "messages" ELSE "no") /\ stopping'[e] = "no"
    BY <2>1, <1>t DEF InTurn, Active
  <2>4. Left("messages") = {"messages"}
    BY DEF Left
  <2> QED BY <2>1, <2>2, <2>3, <2>4 DEF InTurn, Active
<1>6. ASSUME NEW d \in Disconnects, CancelNext(d) PROVE InTurn'
  <2>1. /\ UNCHANGED <<connected, stopping>>
        /\ leaving[d] \in DOMAIN After /\ live' = Cancelled(After[leaving[d]])
        /\ held' = [held EXCEPT ![After[leaving[d]]] = FALSE]
        /\ leaving' = [leaving EXCEPT ![d] = After[leaving[d]]]
    BY <1>6 DEF CancelNext, socketVars
  <2>2. \/ leaving[d] = "messages" /\ After[leaving[d]] = "phases"
        \/ leaving[d] = "phases" /\ After[leaving[d]] = "positions"
    BY <2>1, AfterIs
  <2>3. ~connected /\ ~connected'
    BY <2>1, <2>2 DEF InTurn, Active
  <2>4. \A e \in Disconnects : leaving'[e] = IF e = d THEN After[leaving[d]] ELSE "no"
    BY <1>t, <2>1, <2>2, <2>3 DEF InTurn, Active
  <2>5. \A s \in Streams : IF s \in Left(leaving[d]) THEN ~held[s] /\ live[s] = 0
                                                      ELSE held[s] /\ live[s] = 1
    BY <2>2, <2>3 DEF InTurn
  <2>6. /\ Left("messages") = {"messages"} /\ Left("phases") = {"messages", "phases"}
        /\ Left("positions") = {"messages", "phases", "positions"}
    BY DEF Left
  <2>7. \A s \in Streams : IF s \in Left(After[leaving[d]]) THEN ~held'[s] /\ live'[s] = 0
                                                             ELSE held'[s] /\ live'[s] = 1
    BY <1>s, <1>t, <2>1, <2>2, <2>5, <2>6 DEF Cancelled
  <2>8. stopping'[d] = "no" /\ leaving'[d] # "no"
    BY <2>1, <2>2, <2>3, <2>4 DEF InTurn
  <2>9. \A a, e \in Disconnects : Active(a)' /\ Active(e)' => a = e
    BY <2>1, <2>2, <2>3, <2>4 DEF InTurn, Active
  <2> QED BY <2>3, <2>4, <2>7, <2>8, <2>9 DEF InTurn
<1>7. ASSUME NEW d \in Disconnects, StopSocket(d) PROVE InTurn'
  <2>1. /\ connected' = connected /\ leaving[d] = "positions" /\ live' = Cancelled("heartbeat")
        /\ held' = [s \in Streams |-> FALSE] /\ leaving' = [leaving EXCEPT ![d] = "no"]
    BY <1>7 DEF StopSocket
  <2>2. ~connected /\ ~connected'
    BY <2>1 DEF InTurn, Active
  <2>3. \A c \in Callers : stopping'[c] # "no" <=> c \in {d} \/ stopping[c] # "no"
    BY <1>7, <1>c, StopSteps DEF StopSocket
  <2>4. \A e \in Disconnects : leaving'[e] = "no" /\ (Active(e)' => e = d)
    BY <1>c, <1>t, <2>1, <2>2, <2>3 DEF InTurn, Active
  <2>5. Left("positions") = {"messages", "phases", "positions"}
    BY DEF Left
  <2>6. \A s \in Streams : ~held'[s] /\ live'[s] = 0
    BY <1>s, <1>t, <2>1, <2>2, <2>5 DEF InTurn, Cancelled
  <2> QED BY <2>2, <2>4, <2>6 DEF InTurn
<1>8. ASSUME NEW k \in Sockets, DrainFrame(k) PROVE InTurn'
  <2>1. PICK D \in SUBSET (Drains \ restarting) :
          D # {} /\ StopBegin(D) /\ restarting' = restarting \cup D
    BY <1>8 DEF DrainFrame
  <2>2. UNCHANGED <<connected, live, held, leaving>> /\ restarting' # {}
    BY <1>8, <2>1 DEF DrainFrame
  <2>3. \A c \in Callers : stopping'[c] # "no" <=> c \in D \/ stopping[c] # "no"
    BY <1>c, <2>1, StopSteps
  <2>4. \A e \in Disconnects : stopping'[e] # "no" <=> stopping[e] # "no"
    BY <1>c, <2>1, <2>3
  <2> QED BY <2>2, <2>4 DEF InTurn, Active
<1>9. ASSUME NEW d \in Drains, Restart(d) PROVE InTurn'
  <2>1. ~Stopped' /\ stopping' = stopping /\ UNCHANGED <<connected, live, held, leaving>>
    BY <1>9, StartSteps, SocketAssumption DEF Restart, StartClient, Start, Stopped, socketVars
  <2> QED BY <2>1 DEF InTurn, Active
<1>10. CASE SocketProceeds
  BY <1>1, <1>10, <1>c, SocketSteps DEF feedVars
<1>11. CASE UNCHANGED vars
  BY <1>1, <1>11 DEF vars, socketVars, feedVars
<1> QED BY <1>2, <1>3, <1>4, <1>5, <1>6, <1>7, <1>8, <1>9, <1>10, <1>11 DEF Next, Act, Disconnect

\* What an attempt leaves behind when every transport was closed before it.
LEMMA TryClean ==
  ASSUME SocketTypeOK, AllClosed, \A k \in Sockets : ~heard[k],
         NEW l \in Loops, NEW tries \in Nat, Try(l, tries)
  PROVE  /\ \A k \in Sockets : wire'[k] # "closed" => k = transport'
         /\ \A k \in Sockets : heard'[k] => /\ k = subscription' /\ k = transport' /\ k = awaited'
                                            /\ wire'[k] # "closed"
         /\ loop'[l] \in {"session", "refused"} /\ (loop'[l] = "session" \/ AllClosed')
         /\ phase' # "disconnected" /\ stopping' = stopping /\ closing' = closing
<1>1. CASE Dial(l)
  <2>1. Unused \in Sockets
    BY <1>1, UnusedIsFree DEF Dial
  <2> QED BY <1>1, <2>1 DEF Try, Dial, SocketTypeOK, AllClosed
<1>2. CASE CannotDial(l, tries)
  BY <1>2 DEF Try, CannotDial, SocketTypeOK, AllClosed
<1> QED BY <1>1, <1>2 DEF Try

\* A drain with one listener stops once.
LEMMA OneListener ==
  \A D \in SUBSET Drains :
    /\ Cardinality(D) = 0 => D = {}
    /\ Cardinality(D) = 1 => \E x : D = {x}
BY FeedAssumption, FS_Subset, FS_EmptySet, FS_Singleton

LEMMA CleanStep ==
  SocketTypeOK /\ FeedTypeOK /\ DrainInv /\ FeedInv /\ CleanInv /\ [Next]_vars => CleanInv'
<1> SUFFICES ASSUME SocketTypeOK, FeedTypeOK, DrainInv, InTurn, Clean, [Next]_vars,
                    overlaps' = {}
             PROVE  Clean'
  BY OverlapsGrow DEF FeedInv, CleanInv
<1>t. /\ connected \in BOOLEAN /\ current \in Loops \cup {None}
      /\ leaving \in [Disconnects -> {"no", "messages", "phases", "positions"}]
      /\ restarting \subseteq Drains
      /\ stopping \in [Callers -> {"no", "cancelling", "closing"}]
      /\ closing \in [Callers -> Sockets \cup {None}]
      /\ transport \in Sockets \cup {None}
      /\ wire \in [Sockets -> {"closed", "dialing", "open", "closing"}]
      /\ heard \in [Sockets -> BOOLEAN]
      /\ loop \in [Loops -> {"idle", "session", "over", "refused", "backoff", "left"}]
  BY DEF FeedTypeOK, SocketTypeOK
<1>c. /\ Callers = Disconnects \cup Drains /\ Disconnects \cap Drains = {}
      /\ None \notin Loops \cup Sockets
  BY FeedAssumption, SocketAssumption
<1>n. ASSUME restarting = {}, \A d \in Disconnects : stopping[d] = "no" PROVE ~Stopping
  BY <1>n, <1>c DEF Stopping, DrainInv
<1>0. ASSUME UNCHANGED socketVars, restarting' = restarting, restarting # {} => connected',
             current # None => connected' \/ \E d \in Disconnects : leaving'[d] # "no"
      PROVE  Clean'
  BY <1>0 DEF Clean, AllClosed, Stopping, socketVars
<1>1. ASSUME \E w \in BOOLEAN : Rebuild(w) PROVE Clean'
  BY <1>0, <1>1 DEF Rebuild, Clean
<1>2. CASE NothingToDo
  BY <1>0, <1>2 DEF NothingToDo, Clean
\* An attempt of a start().
<1>s. ASSUME current = None, ~Stopping, NEW l \in Loops, Start(l),
             connected' = TRUE, restarting' = {}
      PROVE  Clean'
  <2>1. Try(l, 0) /\ current' = l
    BY <1>s DEF Start
  <2>2. AllClosed /\ \A k \in Sockets : ~heard[k]
    BY <1>s DEF Clean
  <2>3. /\ \A k \in Sockets : wire'[k] # "closed" => k = transport'
        /\ \A k \in Sockets : heard'[k] => /\ k = subscription' /\ k = transport' /\ k = awaited'
                                           /\ wire'[k] # "closed"
        /\ loop'[l] \in {"session", "refused"} /\ (loop'[l] = "session" \/ AllClosed')
        /\ phase' # "disconnected" /\ stopping' = stopping /\ closing' = closing
    BY <2>1, <2>2, TryClean, 0 \in Nat
  <2>4. ~Stopping' /\ current' # None
    BY <1>c, <1>s, <2>1, <2>3 DEF Stopping
  <2> QED BY <1>s, <2>1, <2>3, <2>4 DEF Clean, Stopping
<1>3. CASE Connect
  <2>1. ~Disconnecting /\ ~Stopping /\ ~connected /\ connected' = TRUE /\ restarting' = restarting
    BY <1>3 DEF Connect
  <2>2. restarting = {} /\ current = None
    BY <2>1 DEF Clean, Disconnecting
  <2>3. PICK l \in Loops : Start(l)
    BY <1>3, <2>2 DEF Connect, StartClient, Stopped
  <2> QED BY <1>s, <2>1, <2>2, <2>3
<1>4. ASSUME NEW d \in Disconnects, BeginDisconnect(d) PROVE Clean'
  <2>1. restarting = {} /\ restarting' = restarting /\ UNCHANGED socketVars
    BY <1>4 DEF BeginDisconnect
  <2>2. leaving'[d] # "no"
    BY <1>4, <1>t DEF BeginDisconnect
  <2> QED BY <1>0, <2>1, <2>2
<1>5. ASSUME NEW d \in Disconnects, CancelNext(d) PROVE Clean'
  <2>1. After[leaving[d]] # "no" /\ leaving' = [leaving EXCEPT ![d] = After[leaving[d]]]
    BY <1>5, AfterIs DEF CancelNext
  <2>2. leaving'[d] # "no"
    BY <1>t, <2>1
  <2> QED BY <1>0, <1>5, <2>2 DEF CancelNext, Clean
\* A stop() while no other is under way.
<1>p. ASSUME ~Stopping, NEW c \in Callers, StopBegin({c}),
             \A d, e \in restarting' : d = e, restarting' # {} => connected'
      PROVE  Clean'
  <2>1. /\ current' = None /\ UNCHANGED <<wire, transport, subscription, awaited, closing, phase>>
        /\ \A k \in Sockets : heard'[k] = (heard[k] /\ k # subscription)
        /\ \A e \in Callers : stopping'[e] = IF e = c THEN "cancelling" ELSE "no"
    BY <1>p DEF StopBegin, Stopping
  <2>2. \A k \in Sockets : ~heard'[k]
    BY <2>1 DEF Clean
  <2>3. Stopping'
    BY <2>1 DEF Stopping
  <2> QED BY <1>p, <2>1, <2>2, <2>3 DEF Clean
<1>6. ASSUME NEW d \in Disconnects, StopSocket(d) PROVE Clean'
  <2>1. leaving[d] = "positions" /\ StopBegin({d}) /\ restarting' = restarting
    BY <1>6 DEF StopSocket
  <2>2. ~connected
    BY <2>1 DEF InTurn, Active
  <2>3. restarting = {} /\ \A e \in Disconnects : stopping[e] = "no"
    BY <2>1, <2>2 DEF Clean, InTurn, Active
  <2> QED BY <1>c, <1>n, <1>p, <2>1, <2>3
<1>7. ASSUME NEW k \in Sockets, DrainFrame(k) PROVE Clean'
  <2>1. PICK D \in SUBSET (Drains \ restarting) :
          /\ D # {} /\ Cardinality(D) = live["messages"]
          /\ StopBegin(D) /\ restarting' = restarting \cup D
    BY <1>7 DEF DrainFrame
  <2>2. ~Disconnecting /\ heard[k] /\ UNCHANGED <<connected, leaving>>
    BY <1>7 DEF DrainFrame
  <2>3. current # None
    BY <2>2 DEF Clean
  <2>4. ~Stopping /\ restarting = {} /\ connected
    BY <2>2, <2>3 DEF Clean, Disconnecting
  <2>5. live["messages"] = 1
    BY <2>4 DEF InTurn, Streams
  <2>6. PICK x : D = {x}
    BY <2>1, <2>5, OneListener
  <2>7. x \in Callers
    BY <1>c, <2>1, <2>6
  <2> QED BY <1>p, <2>1, <2>2, <2>4, <2>6, <2>7
<1>8. ASSUME NEW d \in Drains, Restart(d) PROVE Clean'
  <2>1. /\ d \in restarting /\ stopping[d] = "no" /\ restarting' = restarting \ {d}
        /\ connected' = connected /\ StartClient
    BY <1>8 DEF Restart
  <2>2. connected /\ current = None /\ \A e \in restarting : e = d
    BY <2>1 DEF Clean
  <2>3. ~Stopping
    BY <1>c, <2>1, <2>2 DEF Stopping, DrainInv, InTurn, Active
  <2>4. PICK l \in Loops : Start(l)
    BY <2>1, <2>2 DEF StartClient, Stopped
  <2>5. connected' = TRUE /\ restarting' = {}
    BY <1>t, <2>1, <2>2
  <2> QED BY <1>s, <2>2, <2>3, <2>4, <2>5
<1>9. CASE SocketProceeds
  <2>1. UNCHANGED feedVars /\ UNCHANGED <<restarting, connected, leaving>>
    BY <1>9, SocketSteps DEF feedVars
  <2>2. ASSUME NEW l \in Loops, BackOff(l) PROVE Clean'
    <3>1. l # None /\ AllClosed
      BY <1>c, <2>2 DEF BackOff, Clean
    <3> QED BY <1>t, <2>1, <2>2, <3>1 DEF BackOff, Clean, AllClosed, Stopping
  <2>3. ASSUME NEW l \in Loops, DelayOver(l) PROVE Clean'
    <3>1. l = current /\ current # None /\ AllClosed /\ current' = current /\ Try(l, attempt)
      BY <1>c, <2>3 DEF DelayOver, Clean
    <3>2. \A k \in Sockets : ~heard[k]
      BY <3>1 DEF Clean, AllClosed
    <3>3. attempt \in Nat
      BY SocketAssumption DEF SocketTypeOK
    <3>4. /\ \A k \in Sockets : wire'[k] # "closed" => k = transport'
          /\ \A k \in Sockets : heard'[k] => /\ k = subscription' /\ k = transport' /\ k = awaited'
                                             /\ wire'[k] # "closed"
          /\ loop'[l] \in {"session", "refused"} /\ (loop'[l] = "session" \/ AllClosed')
          /\ phase' # "disconnected" /\ stopping' = stopping /\ closing' = closing
      BY <3>1, <3>2, <3>3, TryClean
    <3> QED BY <2>1, <3>1, <3>4 DEF Clean, Stopping
  <2>4. ASSUME NEW l \in Loops, Return(l) PROVE Clean'
    BY <1>t, <2>1, <2>4 DEF Return, Clean, AllClosed, Stopping
  <2>5. ASSUME NEW c \in Callers, StopClose(c) PROVE Clean'
    <3>1. current = None
      BY <2>5 DEF StopClose, Clean, Stopping
    <3>2. /\ stopping' = [stopping EXCEPT ![c] = "closing"]
          /\ closing' = [closing EXCEPT ![c] = transport]
          /\ stopping[c] # "no" /\ stopping'[c] # "no"
          /\ \A k \in Sockets : wire'[k] # "closed" <=> wire[k] # "closed"
          /\ UNCHANGED <<current, heard, transport, phase>>
      BY <1>t, <2>5 DEF StopClose
    <3>3. Stopping'
      BY <3>2 DEF Stopping
    <3>4. \A a, e \in Callers : stopping'[a] # "no" /\ stopping'[e] # "no" => a = e
      BY <1>t, <3>2 DEF Clean
    <3>5. \A e \in Callers : stopping'[e] = "closing" => closing'[e] = transport'
      BY <1>t, <3>2 DEF Clean
    <3> QED BY <2>1, <3>1, <3>2, <3>3, <3>4, <3>5 DEF Clean
  <2>6. ASSUME NEW c \in Callers, StopEnd(c) PROVE Clean'
    <3>1. /\ stopping[c] = "closing" /\ stopping' = [stopping EXCEPT ![c] = "no"]
          /\ closing' = [closing EXCEPT ![c] = None] /\ phase' = "disconnected"
          /\ closing[c] # None => wire[closing[c]] = "closed"
          /\ UNCHANGED <<current, wire, heard>>
      BY <2>6 DEF StopEnd
    <3>2. current = None /\ closing[c] = transport /\ \A k \in Sockets : ~heard[k]
      BY <3>1 DEF Clean, Stopping
    <3>3. AllClosed
      BY <1>c, <3>1, <3>2 DEF Clean, AllClosed
    <3>4. \A e \in Callers : stopping'[e] = "no"
      BY <1>t, <3>1 DEF Clean
    <3> QED BY <2>1, <3>1, <3>2, <3>3, <3>4 DEF Clean, AllClosed, Stopping
  <2>7. ASSUME NEW k \in Sockets, Opened(k) PROVE Clean'
    <3>1. /\ wire[k] = "dialing" /\ wire' = [wire EXCEPT ![k] = "open"]
          /\ UNCHANGED <<current, loop, heard, transport, subscription, awaited, stopping,
                         closing, phase>>
      BY <2>7 DEF Opened
    <3>2. ~AllClosed /\ \A j \in Sockets : wire'[j] # "closed" <=> wire[j] # "closed"
      BY <1>t, <3>1 DEF AllClosed
    <3> QED BY <2>1, <3>1, <3>2 DEF Clean, Stopping
  <2>8. ASSUME NEW k \in Sockets, Ends(k) PROVE Clean'
    <3>1. /\ wire[k] # "closed" /\ wire' = [wire EXCEPT ![k] = "closed"]
          /\ heard' = [heard EXCEPT ![k] = FALSE] /\ loop' = Notified(k)
          /\ UNCHANGED <<current, transport, subscription, awaited, stopping, closing, phase>>
      BY <2>8 DEF Ends
    <3>2. k = transport
      BY <3>1 DEF Clean
    <3>3. AllClosed'
      BY <1>t, <3>1, <3>2 DEF Clean, AllClosed
    <3>4. \A j \in Sockets : ~heard'[j]
      BY <1>t, <3>1, <3>2 DEF Clean
    <3>5. current # None => loop'[current] \in {"session", "over", "refused", "backoff"}
      BY <1>t, <3>1 DEF Clean, Notified
    <3> QED BY <2>1, <3>1, <3>3, <3>4, <3>5 DEF Clean, AllClosed, Stopping
  <2> QED BY <1>9, <2>2, <2>3, <2>4, <2>5, <2>6, <2>7, <2>8
      DEF SocketProceeds, Proceed, StopProceeds, Network
<1>10. CASE UNCHANGED vars
  BY <1>0, <1>10 DEF vars, feedVars, Clean
<1> QED BY <1>1, <1>2, <1>3, <1>4, <1>5, <1>6, <1>7, <1>8, <1>9, <1>10 DEF Next, Act, Disconnect

-----------------------------------------------------------------------------

IInv == /\ SocketInv /\ FeedTypeOK /\ LiveInv /\ WantInv
        /\ DrainInv /\ FeedInv /\ CleanInv

LEMMA Inductive == Spec => []IInv
<1>1. Init => IInv
  <2> SUFFICES ASSUME Init PROVE IInv
    OBVIOUS
  <2>1. SocketInv
    BY SocketInvInit DEF Init
  <2>2. FeedTypeOK /\ LiveInv /\ WantInv
    <3>1. /\ rebuilds = << >> /\ Len(rebuilds) = 0 /\ rebuilds \in Seq(BOOLEAN)
          /\ asked = 0 /\ asked \in 0..MaxRebuilds /\ connected = FALSE /\ want = FALSE
      BY FeedAssumption DEF Init
    <3>2. \A s \in Streams : live[s] = 0 /\ ~held[s]
      BY DEF Init
    <3>3. FeedTypeOK
      BY <3>1 DEF Init, FeedTypeOK
    <3>4. LiveInv
      BY <3>1, <3>2 DEF LiveInv
    <3>5. WantInv
      BY ONLY <3>1 DEF WantInv
    <3> QED BY <3>3, <3>4, <3>5
  <2>3. DrainInv /\ FeedInv
    BY FeedAssumption DEF Init, SocketInit, DrainInv, FeedInv, InTurn, Active
  <2>4. CleanInv
    BY DEF Init, SocketInit, CleanInv, Clean, AllClosed
  <2> QED BY <2>1, <2>2, <2>3, <2>4 DEF IInv
<1>2. IInv /\ [Next]_vars => IInv'
  BY FeedStep, SocketInvStep, FeedTypeStep, DrainStep, FeedInvStep, CleanStep DEF IInv, SocketInv
<1> QED BY <1>1, <1>2, PTL DEF Spec

\* The types of the feed and its socket; no field refers to a subscription
\* there is not, and there are never more of them than rebuilds.
THEOREM FeedTyped == Spec => []TypeOK
<1>1. IInv => TypeOK
  <2> SUFFICES ASSUME IInv PROVE TypeOK
    OBVIOUS
  <2>1. \A s \in Streams : live[s] \in 0..MaxRebuilds
    <3>1. Len(rebuilds) \in Nat /\ asked \in 0..MaxRebuilds /\ live \in [Streams -> Nat]
      BY DEF IInv, FeedTypeOK
    <3> QED BY <3>1, FeedAssumption DEF IInv, LiveInv
  <2> QED BY <2>1 DEF IInv, SocketInv, FeedTypeOK, LiveInv, TypeOK
<1> QED BY <1>1, Inductive, PTL

\* An unwanted feed that has settled has left nothing behind, whatever drains
\* and lost connections it went through, as long as none of its disconnects
\* was run into.
THEOREM FeedGoesDown == Spec => []DownIsDown
<1>1. IInv => DownIsDown
  <2> SUFFICES ASSUME IInv, Settled, ~want, overlaps = {}
               PROVE  /\ ~connected /\ Stopped /\ phase = "disconnected"
                      /\ \A s \in Streams : live[s] = 0
                      /\ \A k \in Sockets : wire[k] = "closed"
    BY DEF DownIsDown
  <2>1. InTurn /\ Clean /\ ~connected
    BY DEF IInv, FeedInv, CleanInv, WantInv, Settled
  <2>2. \A d \in Disconnects : leaving[d] = "no"
    BY DEF Settled, Disconnecting
  <2>3. Stopped
    BY <2>1, <2>2 DEF Clean, Stopped
  <2> QED BY <2>1, <2>2, <2>3 DEF InTurn, Clean, AllClosed, Settled, Stopped
<1> QED BY <1>1, Inductive, PTL

\* A wanted feed that has settled runs, with one listener of each kind, as long
\* as no connect() ran into a disconnect() or a stop().
THEOREM FeedComesUp == Spec => []UpIsUp
<1>1. IInv => UpIsUp
  <2> SUFFICES ASSUME IInv, Settled, want, "connect" \notin overlaps
               PROVE  /\ connected /\ ~Stopped
                      /\ overlaps = {} => phase # "disconnected"
                      /\ \A s \in Streams : live[s] = 1 /\ held[s]
    BY DEF UpIsUp
  <2>1. InTurn /\ connected
    BY DEF IInv, FeedInv, WantInv, Settled
  <2>2. ~Stopped
    BY <2>1 DEF InTurn, Settled
  <2>3. overlaps = {} => phase # "disconnected"
    BY <2>2 DEF IInv, CleanInv, Clean, Stopped
  <2> QED BY <2>1, <2>2, <2>3 DEF InTurn
<1> QED BY <1>1, Inductive, PTL
=============================================================================
