--------------------------- MODULE WsConn_proofs ---------------------------
(***************************************************************************)
(* Proofs about one connection, for any number of goroutines and frames    *)
(* and any buffer capacity.                                                *)
(***************************************************************************)
EXTENDS WsConn, FiniteSetTheorems, TLAPS

-----------------------------------------------------------------------------
(* What Append, Head and Tail do to the contents of a channel.             *)

\* Appending a frame to a channel adds it to the contents and removes nothing.
LEMMA ContentsAppend ==
    ASSUME NEW S, NEW s \in Seq(S), NEW e \in S
    PROVE  Contents(Append(s, e)) = Contents(s) \cup {e}
<1>1. Len(Append(s, e)) = Len(s) + 1 /\ Len(s) \in Nat
  OBVIOUS
<1>2. \A i \in 1..Len(s) : Append(s, e)[i] = s[i]
  OBVIOUS
<1>3. Append(s, e)[Len(s) + 1] = e
  OBVIOUS
<1>4. 1..(Len(s) + 1) = 1..Len(s) \cup {Len(s) + 1}
  BY <1>1
<1>5. QED
  BY <1>1, <1>2, <1>3, <1>4 DEF Contents

\* Receiving from a channel takes the head out of the contents.
LEMMA ContentsTail ==
    ASSUME NEW S, NEW s \in Seq(S), s # <<>>
    PROVE  /\ Head(s) \in S
           /\ Tail(s) \in Seq(S)
           /\ Len(Tail(s)) = Len(s) - 1
           /\ Contents(s) = {Head(s)} \cup Contents(Tail(s))
<1>1. Len(s) \in Nat \ {0}
  OBVIOUS
<1>2. /\ Head(s) = s[1] /\ Head(s) \in S
      /\ Tail(s) \in Seq(S)
      /\ Len(Tail(s)) = Len(s) - 1
  BY <1>1
<1>3. \A i \in 1..Len(Tail(s)) : Tail(s)[i] = s[i + 1]
  BY <1>1
<1>4. Contents(s) \subseteq {Head(s)} \cup Contents(Tail(s))
  <2> SUFFICES ASSUME NEW i \in 1..Len(s), i # 1
               PROVE  s[i] \in Contents(Tail(s))
    BY <1>2 DEF Contents
  <2>1. i - 1 \in 1..Len(Tail(s)) /\ Tail(s)[i - 1] = s[i]
    BY <1>1, <1>2, <1>3
  <2>2. QED
    BY <2>1 DEF Contents
<1>5. {Head(s)} \cup Contents(Tail(s)) \subseteq Contents(s)
  <2>1. Head(s) \in Contents(s)
    BY <1>1, <1>2 DEF Contents
  <2>2. ASSUME NEW i \in 1..Len(Tail(s)) PROVE Tail(s)[i] \in Contents(s)
    BY <1>1, <1>2, <1>3, <2>2 DEF Contents
  <2>3. QED
    BY <2>1, <2>2 DEF Contents
<1>6. QED
  BY <1>2, <1>4, <1>5

-----------------------------------------------------------------------------
(* Types.                                                                  *)

\* A fresh connection (newConn) has every variable in its type.
LEMMA InitTypes == Init => TypeOK
<1> SUFFICES ASSUME Init PROVE TypeOK
  OBVIOUS
<1>1. FlagTypes
  BY DEF Init, FlagTypes
<1>2. GoroutineTypes
  BY DEF Init, GoroutineTypes
<1>3. PumpTypes
  BY DEF Init, PumpTypes
<1>4. ChannelTypes
  <2>1. <<>> \in Seq(Frames) /\ Len(<<>>) = 0
    OBVIOUS
  <2>2. QED
    BY <2>1, ConnAssumption DEF Init, ChannelTypes
<1>5. QED
  BY <1>1, <1>2, <1>3, <1>4 DEF TypeOK

\* A goroutine of the hub starting, or giving up, a Send.
LEMMA SendTypes ==
    ASSUME TypeOK, NEW p \in HubProcs, Send(p)
    PROVE  TypeOK'
<1> USE DEF connVars, procVars, pumpVars, histVars
<1>1. ASSUME NEW f \in Frames, SendCheck(p, f) PROVE TypeOK'
  <2>1. FlagTypes' /\ PumpTypes' /\ ChannelTypes'
    BY <1>1 DEF SendCheck, LooksOpen, TypeOK, FlagTypes, PumpTypes, ChannelTypes
  <2>2. GoroutineTypes'
    BY <1>1, ConnAssumption DEF SendCheck, LooksOpen, TypeOK, GoroutineTypes, Procs
  <2>3. QED
    BY <2>1, <2>2 DEF TypeOK
<1>2. CASE SendRefuse(p)
  <2>1. FlagTypes' /\ PumpTypes' /\ ChannelTypes'
    BY <1>2 DEF SendRefuse, TypeOK, FlagTypes, PumpTypes, ChannelTypes
  <2>2. GoroutineTypes'
    BY <1>2 DEF SendRefuse, SendDone, TypeOK, GoroutineTypes, Procs
  <2>3. QED
    BY <2>1, <2>2 DEF TypeOK
<1>3. CASE SendAccept(p)
  <2>1. arg[p] \in Frames
    BY <1>3 DEF SendAccept, Room, TypeOK, GoroutineTypes, Procs
  <2>2. FlagTypes' /\ PumpTypes'
    BY <1>3 DEF SendAccept, Room, TypeOK, FlagTypes, PumpTypes
  <2>3. GoroutineTypes'
    BY <1>3 DEF SendAccept, Room, SendDone, TypeOK, GoroutineTypes, Procs
  <2>4. ChannelTypes'
    BY <1>3, <2>1, ConnAssumption DEF SendAccept, Room, TypeOK, ChannelTypes
  <2>5. QED
    BY <2>2, <2>3, <2>4 DEF TypeOK
<1>4. QED
  BY <1>1, <1>2, <1>3 DEF Send

\* close(), at whichever of its steps a goroutine is.
LEMMA CloseTypes ==
    ASSUME TypeOK, NEW p \in Procs, Close(p)
    PROVE  TypeOK'
<1> USE DEF Close, CloseFirst, CloseStore, CloseSignal, Signalled, CloseAgain,
            CloseReturn, connVars, procVars, pumpVars, histVars
<1>1. FlagTypes'
  <2>1. UNCHANGED <<closed, wsOpen, reading, expired>>
    OBVIOUS
  <2>2. closedVal' = closedVal \/ closedVal' = TRUE
    OBVIOUS
  <2>3. once' = once \/ once' = "busy" \/ once' = "done"
    OBVIOUS
  <2>4. shutdown' = shutdown \/ shutdown' = shutdown + 1
    OBVIOUS
  <2>5. shutdown' \in Nat
    BY <2>4 DEF TypeOK, FlagTypes
  <2>6. QED
    BY ONLY TypeOK, <2>1, <2>2, <2>3, <2>5, Zenon DEF TypeOK, FlagTypes
<1>2. GoroutineTypes'
  <2>1. /\ arg' = arg /\ late' = late
        /\ \E v \in {"idle", "storing", "signalling", "closed"} :
              pc' = [pc EXCEPT ![p] = v]
    OBVIOUS
  <2>2. pc[p] # "sending"
    OBVIOUS
  <2>3. QED
    BY <2>1, <2>2 DEF TypeOK, GoroutineTypes
<1>3. PumpTypes' /\ ChannelTypes'
  BY DEF TypeOK, PumpTypes, ChannelTypes
<1>4. QED
  BY <1>1, <1>2, <1>3 DEF TypeOK

\* The write pump, at whichever of its steps it is.
LEMMA PumpStepTypes ==
    ASSUME TypeOK, WritePump
    PROVE  TypeOK'
<1> USE DEF connVars, procVars, pumpVars, histVars
<1>1. FlagTypes' /\ GoroutineTypes'
  <2> USE DEF WritePump, PumpTake, PumpShutdown, AfterShutdown, DrainTake, DrainEmpty,
              DrainExpire, WriteOk, WriteFail, DeadStore, TeardownTransport,
              TeardownAnnounce
  <2>1. UNCHANGED <<pc, arg, late>>
    OBVIOUS
  <2>2. GoroutineTypes'
    BY ONLY <2>1, TypeOK DEF TypeOK, GoroutineTypes
  <2>3. FlagTypes'
    <3>1. UNCHANGED <<once, shutdown, reading>>
      OBVIOUS
    <3>2. /\ closedVal' = closedVal \/ closedVal' = TRUE
          /\ wsOpen' = wsOpen \/ wsOpen' = FALSE
          /\ expired' = expired \/ expired' = TRUE
      OBVIOUS
    <3>3. closed' = closed \/ closed' = closed + 1
      OBVIOUS
    <3>4. closed' \in Nat
      BY <3>3 DEF TypeOK, FlagTypes
    <3>5. QED
      BY ONLY TypeOK, <3>1, <3>2, <3>4, Zenon DEF TypeOK, FlagTypes
  <2>4. QED
    BY <2>2, <2>3
<1>2. CASE PumpTake \/ DrainTake
  <2>1. out # <<>> /\ inHand' = Head(out) /\ out' = Tail(out)
    BY <1>2 DEF PumpTake, DrainTake
  <2>2. out \in Seq(Frames) /\ Len(out) \in Nat
    BY DEF TypeOK, ChannelTypes
  <2>3. inHand' \in Frames /\ out' \in Seq(Frames) /\ Len(out') = Len(out) - 1
    BY <2>1, <2>2, ContentsTail
  <2>4. PumpTypes'
    BY <1>2, <2>3, ConnAssumption DEF PumpTake, DrainTake, TypeOK, PumpTypes
  <2>5. ChannelTypes'
    BY <1>2, <2>2, <2>3, ConnAssumption DEF PumpTake, DrainTake, TypeOK, ChannelTypes
  <2>6. QED
    BY <1>1, <2>4, <2>5 DEF TypeOK
<1>3. CASE WriteOk \/ WriteFail
  <2>1. inHand \in Frames
    BY <1>3 DEF WriteOk, WriteFail, TypeOK, PumpTypes
  <2>2. PumpTypes'
    <3>1. inHand' = None /\ pump' \in {"select", "draining", "dead"}
      BY <1>3 DEF WriteOk, WriteFail
    <3>2. QED
      BY <3>1 DEF PumpTypes
  <2>3. ChannelTypes'
    <3>1. UNCHANGED <<out, accepted, promised>>
      BY <1>3 DEF WriteOk, WriteFail
    <3>2. \/ wire' = Append(wire, inHand) /\ failed' = failed
          \/ wire' = wire /\ failed' = failed \cup {inHand}
      BY <1>3 DEF WriteOk, WriteFail
    <3>3. Append(wire, inHand) \in Seq(Frames) /\ failed \cup {inHand} \subseteq Frames
      BY <2>1 DEF TypeOK, ChannelTypes
    <3>4. QED
      BY <3>1, <3>2, <3>3 DEF TypeOK, ChannelTypes
  <2>4. QED
    BY <1>1, <2>2, <2>3 DEF TypeOK
<1>4. CASE \/ PumpShutdown \/ DrainEmpty \/ DrainExpire
           \/ DeadStore \/ TeardownTransport \/ TeardownAnnounce
  <2>1. PumpTypes'
    BY <1>4 DEF PumpShutdown, AfterShutdown, DrainEmpty, DrainExpire, DeadStore,
                TeardownTransport, TeardownAnnounce, TypeOK, PumpTypes
  <2>2. ChannelTypes'
    BY <1>4 DEF PumpShutdown, AfterShutdown, DrainEmpty, DrainExpire, DeadStore,
                TeardownTransport, TeardownAnnounce, TypeOK, ChannelTypes
  <2>3. QED
    BY <1>1, <2>1, <2>2 DEF TypeOK
<1>5. QED
  BY <1>2, <1>3, <1>4 DEF WritePump

\* Every step preserves the types.
LEMMA NextTypes == TypeOK /\ [Next]_vars => TypeOK'
<1> SUFFICES ASSUME TypeOK, [Next]_vars PROVE TypeOK'
  OBVIOUS
<1>1. CASE ReadLoopReturn \/ UNCHANGED vars
  <2>1. TypeOK /\ UNCHANGED vars => TypeOK'
    BY DEF vars, connVars, procVars, pumpVars, histVars,
           TypeOK, FlagTypes, GoroutineTypes, PumpTypes, ChannelTypes
  <2>2. CASE ReadLoopReturn
    <3>1. PumpTypes' /\ ChannelTypes'
      BY <2>2 DEF ReadLoopReturn, connVars, procVars, pumpVars, histVars,
                  TypeOK, PumpTypes, ChannelTypes
    <3>2. FlagTypes' /\ GoroutineTypes'
      BY <2>2 DEF ReadLoopReturn, connVars, procVars, pumpVars, histVars,
                  TypeOK, FlagTypes, GoroutineTypes
    <3> QED BY <3>1, <3>2 DEF TypeOK
  <2> QED BY <1>1, <2>1, <2>2
<1>2. QED
  BY <1>1, SendTypes, CloseTypes, PumpStepTypes DEF Next

\* Every variable of the connection stays in its type, and c.out within its
\* capacity, whatever the goroutines do.
THEOREM TypeCorrect == Spec => []TypeOK
  BY InitTypes, NextTypes, PTL DEF Spec

-----------------------------------------------------------------------------
(* Why the connection closes each of its channels once, slips in at most   *)
(* one frame per goroutine and flushes what it promised.                   *)

\* sync.Once: one goroutine at a time is in close()'s body, and c.shutdown is
\* closed only by that goroutine, on its way out.
OnceInv ==
    /\ \A p \in Procs : pc[p] \in {"storing", "signalling"} => once = "busy"
    /\ \A p, q \in Procs :
          pc[p] \in {"storing", "signalling"} /\ pc[q] \in {"storing", "signalling"}
             => p = q
    /\ once # "done" => shutdown = 0
    /\ shutdown <= 1

\* How far the pump is says whether the transport is open, whether c.closed
\* is closed, and that nobody accepts a promise any more.
PhaseInv ==
    /\ closed = IF pump = "exited" THEN 1 ELSE 0
    /\ wsOpen <=> pump \notin {"announcing", "exited"}
    /\ pump \in {"draining", "drainWriting", "teardown", "announcing", "exited"}
          => closedVal
    /\ shutdown > 0 => closedVal
    /\ \A p \in Procs : pc[p] = "signalling" => closedVal
    /\ pump = "dead" => failed # {}

\* A goroutine that slipped a frame in after closedVal was set is out of Send,
\* and closedVal keeps it from coming back.
LateInv ==
    \A p \in HubProcs :
       /\ ~closedVal => late[p] = 0
       /\ late[p] <= 1
       /\ pc[p] = "sending" => late[p] = 0

\* While nothing failed and the drain did not run out of time, a promised
\* frame is written, buffered or in the pump's hand; past the drain, written.
FlushInv ==
    failed = {} /\ ~expired =>
       /\ promised \subseteq Contents(wire) \cup Contents(out) \cup {inHand}
       /\ pump \in {"teardown", "announcing", "exited"}
             => promised \subseteq Contents(wire)

IInv == TypeOK /\ OnceInv /\ PhaseInv /\ LateInv /\ FlushInv

\* A fresh connection satisfies the invariant: nothing taken, nothing closed.
LEMMA InitIInv == Init => IInv
<1> SUFFICES ASSUME Init PROVE IInv
  OBVIOUS
<1>1. TypeOK
  BY InitTypes
<1>2. OnceInv /\ PhaseInv
  BY DEF Init, OnceInv, PhaseInv
<1>3. LateInv
  BY DEF Init, LateInv
<1>4. FlushInv
  BY DEF Init, FlushInv
<1>5. QED
  BY <1>1, <1>2, <1>3, <1>4 DEF IInv

\* Only close() moves through the body of once.Do.
LEMMA OnceStep == IInv /\ [Next]_vars => OnceInv'
<1> SUFFICES ASSUME IInv, [Next]_vars PROVE OnceInv'
  OBVIOUS
<1> USE DEF connVars, procVars, pumpVars, histVars
<1>1. CASE WritePump \/ ReadLoopReturn \/ UNCHANGED vars
  <2>1. UNCHANGED <<pc, once, shutdown>>
    BY <1>1 DEF WritePump, PumpTake, PumpShutdown, AfterShutdown, DrainTake, DrainEmpty,
         DrainExpire, WriteOk, WriteFail, DeadStore, TeardownTransport,
         TeardownAnnounce, ReadLoopReturn, vars
  <2>2. QED
    BY <2>1 DEF IInv, OnceInv
<1>2. ASSUME NEW p \in HubProcs, Send(p) PROVE OnceInv'
  <2>1. UNCHANGED <<once, shutdown>>
    BY <1>2 DEF Send, SendCheck, LooksOpen, SendAccept, Room, SendRefuse
  <2>2. \E v \in {"idle", "sending"} : pc' = [pc EXCEPT ![p] = v]
    BY <1>2 DEF Send, SendCheck, LooksOpen, SendAccept, Room, SendRefuse, SendDone
  <2>3. QED
    BY <2>1, <2>2 DEF IInv, OnceInv, TypeOK, GoroutineTypes, Procs
<1>3. ASSUME NEW p \in Procs, Close(p) PROVE OnceInv'
  <2>1. CASE CloseFirst(p)
    BY <2>1 DEF CloseFirst, IInv, OnceInv, TypeOK, GoroutineTypes
  <2>2. CASE CloseStore(p)
    BY <2>2 DEF CloseStore, IInv, OnceInv, TypeOK, GoroutineTypes
  <2>3. CASE CloseSignal(p)
    BY <2>3 DEF CloseSignal, Signalled, IInv, OnceInv, TypeOK, GoroutineTypes, FlagTypes
  <2>4. CASE CloseAgain(p) \/ CloseReturn(p)
    BY <2>4 DEF CloseAgain, CloseReturn, IInv, OnceInv, TypeOK, GoroutineTypes
  <2>5. QED
    BY <1>3, <2>1, <2>2, <2>3, <2>4 DEF Close
<1>4. QED
  BY <1>1, <1>2, <1>3 DEF Next

\* The transport and c.closed move only with the pump, and the pump leaves its
\* loops only for good (writePump, drainThenTeardown, teardown).
LEMMA PhaseStep == IInv /\ [Next]_vars => PhaseInv'
<1> SUFFICES ASSUME IInv, [Next]_vars PROVE PhaseInv'
  OBVIOUS
<1> USE DEF connVars, procVars, pumpVars, histVars
<1>1. CASE ReadLoopReturn \/ UNCHANGED vars
  BY <1>1 DEF ReadLoopReturn, vars, IInv, PhaseInv
<1>2. ASSUME NEW p \in HubProcs, Send(p) PROVE PhaseInv'
  <2>1. UNCHANGED <<closedVal, shutdown, closed, wsOpen, pump, failed>>
    BY <1>2 DEF Send, SendCheck, LooksOpen, SendAccept, Room, SendRefuse
  <2>2. \E v \in {"idle", "sending"} : pc' = [pc EXCEPT ![p] = v]
    BY <1>2 DEF Send, SendCheck, LooksOpen, SendAccept, Room, SendRefuse, SendDone
  <2>3. \A q \in Procs : pc'[q] = "signalling" => pc[q] = "signalling"
    BY <2>2 DEF IInv, TypeOK, GoroutineTypes
  <2>4. QED
    BY <2>1, <2>3 DEF IInv, PhaseInv
<1>3. ASSUME NEW p \in Procs, Close(p) PROVE PhaseInv'
  <2>1. UNCHANGED <<closed, wsOpen, pump, failed>>
    BY <1>3 DEF Close, CloseFirst, CloseStore, CloseSignal, Signalled, CloseAgain, CloseReturn
  <2>2. \/ closedVal' = TRUE
        \/ /\ closedVal' = closedVal /\ shutdown' = shutdown
           /\ \A q \in Procs : pc'[q] = "signalling" => pc[q] = "signalling"
    BY <1>3 DEF Close, CloseFirst, CloseStore, CloseSignal, Signalled, CloseAgain,
         CloseReturn, IInv, TypeOK, GoroutineTypes, PhaseInv
  <2>3. QED
    BY <2>1, <2>2 DEF IInv, PhaseInv
<1>4. CASE WritePump
  <2>1. UNCHANGED <<pc, shutdown>>
    BY <1>4 DEF WritePump, PumpTake, PumpShutdown, AfterShutdown, DrainTake, DrainEmpty,
         DrainExpire, WriteOk, WriteFail, DeadStore, TeardownTransport,
         TeardownAnnounce
  <2>2. CASE PumpTake \/ PumpShutdown \/ DrainTake \/ DrainEmpty \/ DrainExpire
    BY <2>1, <2>2 DEF PumpTake, PumpShutdown, AfterShutdown, DrainTake, DrainEmpty,
         DrainExpire, IInv, PhaseInv
  <2>3. CASE WriteOk \/ WriteFail
    BY <2>1, <2>3 DEF WriteOk, WriteFail, IInv, PhaseInv
  <2>4. CASE DeadStore \/ TeardownTransport
    BY <2>1, <2>4 DEF DeadStore, TeardownTransport, IInv, PhaseInv
  <2>5. CASE TeardownAnnounce
    BY <2>1, <2>5 DEF TeardownAnnounce, IInv, PhaseInv
  <2>6. QED
    BY <1>4, <2>2, <2>3, <2>4, <2>5 DEF WritePump
<1>5. QED
  BY <1>1, <1>2, <1>3, <1>4 DEF Next

\* A goroutine that is not inside Send once closedVal is set never enters it.
LEMMA LateStep == IInv /\ [Next]_vars => LateInv'
<1> SUFFICES ASSUME IInv, [Next]_vars PROVE LateInv'
  OBVIOUS
<1> USE DEF connVars, procVars, pumpVars, histVars
<1>1. CASE WritePump \/ ReadLoopReturn \/ UNCHANGED vars
  <2>1. UNCHANGED <<pc, late>>
    BY <1>1 DEF WritePump, PumpTake, PumpShutdown, AfterShutdown, DrainTake, DrainEmpty,
         DrainExpire, WriteOk, WriteFail, DeadStore, TeardownTransport,
         TeardownAnnounce, ReadLoopReturn, vars
  <2>2. closedVal' = closedVal \/ closedVal' = TRUE
    BY <1>1 DEF WritePump, PumpTake, PumpShutdown, AfterShutdown, DrainTake, DrainEmpty,
         DrainExpire, WriteOk, WriteFail, DeadStore, TeardownTransport,
         TeardownAnnounce, ReadLoopReturn, vars
  <2>3. QED
    BY <2>1, <2>2 DEF IInv, LateInv
<1>2. ASSUME NEW p \in HubProcs, Send(p) PROVE LateInv'
  <2>1. ASSUME NEW f \in Frames, SendCheck(p, f) PROVE LateInv'
    BY <2>1 DEF SendCheck, LooksOpen, IInv, LateInv, TypeOK, GoroutineTypes, Procs
  <2>2. CASE SendAccept(p)
    <3>1. late[p] = 0
      BY <2>2 DEF SendAccept, Room, IInv, LateInv
    <3>2. QED
      BY <2>2, <3>1 DEF SendAccept, Room, SendDone, IInv, LateInv, Procs, TypeOK,
                        GoroutineTypes
  <2>3. CASE SendRefuse(p)
    BY <2>3 DEF SendRefuse, SendDone, IInv, LateInv, TypeOK, GoroutineTypes, Procs
  <2>4. QED
    BY <1>2, <2>1, <2>2, <2>3 DEF Send
<1>3. ASSUME NEW p \in Procs, Close(p) PROVE LateInv'
  <2>1. late' = late /\ (closedVal' = closedVal \/ closedVal' = TRUE)
    BY <1>3 DEF Close, CloseFirst, CloseStore, CloseSignal, Signalled, CloseAgain, CloseReturn
  <2>2. \A q \in Procs : pc'[q] = "sending" => pc[q] = "sending"
    BY <1>3 DEF Close, CloseFirst, CloseStore, CloseSignal, Signalled, CloseAgain,
         CloseReturn, IInv, TypeOK, GoroutineTypes
  <2>3. QED
    BY <2>1, <2>2 DEF IInv, LateInv, Procs
<1>4. QED
  BY <1>1, <1>2, <1>3 DEF Next

\* A promised frame moves from the buffer to the pump's hand to the wire.
LEMMA FlushStep == IInv /\ [Next]_vars => FlushInv'
<1> SUFFICES ASSUME IInv, [Next]_vars PROVE FlushInv'
  OBVIOUS
<1> USE DEF connVars, procVars, pumpVars, histVars
<1>a. /\ out \in Seq(Frames) /\ wire \in Seq(Frames)
      /\ promised \subseteq Frames /\ None \notin Frames
  BY ConnAssumption DEF IInv, TypeOK, ChannelTypes
<1>1. CASE ReadLoopReturn \/ UNCHANGED vars
  BY <1>1 DEF ReadLoopReturn, vars, IInv, FlushInv
<1>2. ASSUME NEW p \in Procs, Close(p) PROVE FlushInv'
  <2>1. UNCHANGED <<failed, expired, promised, wire, out, inHand, pump>>
    BY <1>2 DEF Close, CloseFirst, CloseStore, CloseSignal, Signalled, CloseAgain, CloseReturn
  <2>2. QED
    BY <2>1 DEF IInv, FlushInv
<1>3. ASSUME NEW p \in HubProcs, Send(p) PROVE FlushInv'
  <2>1. CASE SendRefuse(p) \/ \E f \in Frames : SendCheck(p, f)
    BY <2>1 DEF SendRefuse, SendCheck, LooksOpen, IInv, FlushInv
  <2>2. CASE SendAccept(p)
    <3>1. arg[p] \in Frames
      BY <2>2 DEF SendAccept, Room, IInv, TypeOK, GoroutineTypes, Procs
    <3>2. Contents(out') = Contents(out) \cup {arg[p]}
      BY <2>2, <1>a, <3>1, ContentsAppend DEF SendAccept, Room
    <3>3. promised' \subseteq promised \cup {arg[p]} /\ (closedVal => promised' = promised)
      BY <2>2 DEF SendAccept, Room
    <3>4. UNCHANGED <<failed, expired, wire, inHand, pump>>
      BY <2>2 DEF SendAccept, Room
    <3>5. pump \in {"teardown", "announcing", "exited"} => promised' = promised
      BY <3>3 DEF IInv, PhaseInv
    <3>6. QED
      BY <3>2, <3>3, <3>4, <3>5 DEF IInv, FlushInv
  <2>3. QED
    BY <1>3, <2>1, <2>2 DEF Send
<1>4. CASE PumpTake \/ DrainTake
  <2>1. out # <<>> /\ inHand' = Head(out) /\ out' = Tail(out)
    BY <1>4 DEF PumpTake, DrainTake
  <2>2. Contents(out) = {inHand'} \cup Contents(out')
    BY <2>1, <1>a, ContentsTail
  <2>3. inHand = None
    BY <1>4 DEF PumpTake, DrainTake, IInv, TypeOK, PumpTypes
  <2>4. /\ UNCHANGED <<failed, expired, wire, promised>>
        /\ pump' \in {"writing", "drainWriting"}
    BY <1>4 DEF PumpTake, DrainTake
  <2>5. QED
    BY <1>a, <2>2, <2>3, <2>4 DEF IInv, FlushInv
<1>5. CASE WriteOk
  <2>1. inHand \in Frames
    BY <1>5 DEF WriteOk, IInv, TypeOK, PumpTypes
  <2>2. Contents(wire') = Contents(wire) \cup {inHand}
    BY <1>5, <1>a, <2>1, ContentsAppend DEF WriteOk
  <2>3. /\ UNCHANGED <<failed, expired, out, promised>>
        /\ pump' \in {"select", "draining"}
    BY <1>5 DEF WriteOk
  <2>4. QED
    BY <2>2, <2>3 DEF IInv, FlushInv
<1>6. CASE WriteFail
  BY <1>6 DEF WriteFail, FlushInv
<1>7. CASE DrainEmpty
  <2>1. inHand = None /\ Contents(out) = {}
    BY <1>7 DEF DrainEmpty, IInv, TypeOK, PumpTypes, Contents
  <2>2. UNCHANGED <<failed, expired, out, wire, promised, inHand>>
    BY <1>7 DEF DrainEmpty
  <2>3. QED
    BY <1>a, <2>1, <2>2 DEF IInv, FlushInv
<1>8. CASE DrainExpire
  BY <1>8 DEF DrainExpire, FlushInv
<1>9. CASE PumpShutdown \/ DeadStore \/ TeardownTransport \/ TeardownAnnounce
  <2>1. UNCHANGED <<failed, expired, out, wire, promised, inHand>>
    BY <1>9 DEF PumpShutdown, AfterShutdown, DeadStore, TeardownTransport, TeardownAnnounce
  <2>2. pump' \in {"teardown", "announcing", "exited"}
           => failed # {} \/ pump \in {"teardown", "announcing", "exited"}
    BY <1>9 DEF PumpShutdown, AfterShutdown, DeadStore, TeardownTransport, TeardownAnnounce,
                IInv, PhaseInv
  <2>3. QED
    BY <2>1, <2>2 DEF IInv, FlushInv
<1>10. QED
  BY <1>1, <1>2, <1>3, <1>4, <1>5, <1>6, <1>7, <1>8, <1>9 DEF Next, WritePump

\* The invariant holds in every state a connection reaches.
LEMMA Inductive == Spec => []IInv
<1>1. IInv /\ [Next]_vars => IInv'
  BY NextTypes, OnceStep, PhaseStep, LateStep, FlushStep DEF IInv
<1>2. QED
  BY InitIInv, <1>1, PTL DEF Spec

\* Neither c.shutdown nor c.closed is ever closed twice, however many
\* goroutines call close() and Send (conn.go, close and teardown).
THEOREM ChannelsClosedOnce == Spec => []NoDoubleClose
<1>1. IInv => NoDoubleClose
  BY DEF IInv, OnceInv, PhaseInv, NoDoubleClose
<1>2. QED
  BY Inductive, <1>1, PTL

\* A frame taken by an open connection is written before the transport shuts,
\* if no write failed and the drain had the time (conn.go, drainThenTeardown).
THEOREM PromisesFlushed == Spec => []FlushedBeforeTeardown
<1>1. IInv => FlushedBeforeTeardown
  BY DEF IInv, PhaseInv, FlushInv, FlushedBeforeTeardown
<1>2. QED
  BY Inductive, <1>1, PTL

\* After closedVal is set each goroutine gets in the frame it was sending and
\* nothing more (conn.go, the look at closedVal before Send's select).
THEOREM OneMidFlightEach == Spec => []OnlyMidFlightAfterClose
<1>1. IInv => OnlyMidFlightAfterClose
  BY DEF IInv, LateInv, OnlyMidFlightAfterClose
<1>2. QED
  BY Inductive, <1>1, PTL

-----------------------------------------------------------------------------
(* The connection implements the channel.                                  *)

\* How many frames have left the connection, on the wire or lost.
Gone == Len(wire) + Cardinality(failed)
Held == IF inHand = None THEN 0 ELSE 1

\* What is left of the frames taken is in the pump's hand and, in order, in the
\* buffer; no frame is taken twice.
OrderInv ==
    /\ IsFiniteSet(failed)
    /\ Len(accepted) = Gone + Held + Len(out)
    /\ inHand # None => accepted[Gone + 1] = inHand
    /\ \A i \in 1..Len(out) : out[i] = accepted[Gone + Held + i]
    /\ \A i, j \in 1..Len(accepted) : accepted[i] = accepted[j] => i = j
    /\ \A f \in failed : \E i \in 1..Gone : f = accepted[i]
    /\ \A p \in HubProcs : arg[p] # None => arg[p] \notin Contents(accepted)
    /\ \A p, q \in HubProcs : arg[p] # None /\ arg[p] = arg[q] => p = q

LEMMA OrderNats == TypeOK /\ OrderInv =>
    /\ Gone \in Nat /\ Len(wire) \in Nat /\ Cardinality(failed) \in Nat
    /\ Held \in {0, 1} /\ Len(out) \in Nat /\ Len(accepted) \in Nat
    /\ out \in Seq(Frames) /\ accepted \in Seq(Frames) /\ wire \in Seq(Frames)
  BY FS_CardinalityType DEF TypeOK, ChannelTypes, OrderInv, Gone, Held

LEMMA OrderInit == Init => OrderInv /\ Gone = 0
<1> SUFFICES ASSUME Init PROVE OrderInv /\ Gone = 0
  OBVIOUS
<1>1. Gone = 0 /\ Held = 0 /\ IsFiniteSet(failed)
  BY FS_EmptySet DEF Init, Gone, Held
<1>2. \A p \in HubProcs : arg[p] = None
  BY DEF Init, Procs
<1>3. Len(accepted) = 0 /\ Len(out) = 0 /\ inHand = None /\ failed = {}
  BY DEF Init
<1> QED BY <1>1, <1>2, <1>3 DEF OrderInv

\* A write that fails loses a frame that was not lost before.
LEMMA LostOnce ==
    ASSUME TypeOK, OrderInv, WriteFail
    PROVE  IsFiniteSet(failed') /\ Cardinality(failed') = Cardinality(failed) + 1
<1>1. inHand # None /\ failed' = failed \cup {inHand}
  BY DEF WriteFail, TypeOK, PumpTypes
<1>2. accepted[Gone + 1] = inHand /\ Gone + 1 \in 1..Len(accepted)
  BY <1>1, OrderNats DEF OrderInv, Held
<1>3. inHand \notin failed
  <2> SUFFICES ASSUME inHand \in failed PROVE FALSE
    OBVIOUS
  <2>1. PICK i \in 1..Gone : inHand = accepted[i]
    BY DEF OrderInv
  <2>2. i \in 1..Len(accepted) /\ i # Gone + 1
    BY <1>2, OrderNats
  <2> QED BY <1>2, <2>1, <2>2 DEF OrderInv
<1> QED BY <1>1, <1>3, FS_AddElement DEF OrderInv

LEMMA OrderStep == TypeOK /\ OrderInv /\ [Next]_vars => OrderInv'
<1> SUFFICES ASSUME TypeOK, OrderInv, [Next]_vars PROVE OrderInv'
  OBVIOUS
<1> USE DEF connVars, procVars, pumpVars, histVars
<1>0. /\ Gone \in Nat /\ Len(wire) \in Nat /\ Cardinality(failed) \in Nat
      /\ Held \in {0, 1} /\ Len(out) \in Nat /\ Len(accepted) \in Nat
      /\ out \in Seq(Frames) /\ accepted \in Seq(Frames) /\ wire \in Seq(Frames)
  BY OrderNats
<1>a. arg \in [Procs -> Frames \cup {None}] /\ inHand \in Frames \cup {None} /\ HubProcs \subseteq Procs
  BY DEF TypeOK, GoroutineTypes, PumpTypes, Procs
<1>1. ASSUME NEW p \in HubProcs, NEW f \in Frames, SendCheck(p, f) PROVE OrderInv'
  <2>1. arg' = [arg EXCEPT ![p] = f] /\ Fresh(f)
    BY <1>1 DEF SendCheck
  <2>2. UNCHANGED <<out, inHand, accepted, wire, failed>>
    BY <1>1 DEF SendCheck
  <2>3. /\ \A q \in HubProcs : arg'[q] # None => arg'[q] \notin Contents(accepted)
        /\ \A q, r \in HubProcs : arg'[q] # None /\ arg'[q] = arg'[r] => q = r
    BY <1>a, <2>1 DEF OrderInv, Fresh
  <2> QED BY <2>2, <2>3 DEF OrderInv, Gone, Held, Contents
<1>2. ASSUME NEW p \in HubProcs, SendRefuse(p) PROVE OrderInv'
  <2>1. arg' = [arg EXCEPT ![p] = None]
    BY <1>2 DEF SendRefuse, SendDone
  <2>2. UNCHANGED <<out, inHand, accepted, wire, failed>>
    BY <1>2 DEF SendRefuse
  <2>3. /\ \A q \in HubProcs : arg'[q] # None => arg'[q] \notin Contents(accepted)
        /\ \A q, r \in HubProcs : arg'[q] # None /\ arg'[q] = arg'[r] => q = r
    BY <1>a, <2>1 DEF OrderInv
  <2> QED BY <2>2, <2>3 DEF OrderInv, Gone, Held, Contents
<1>3. ASSUME NEW p \in HubProcs, SendAccept(p) PROVE OrderInv'
  <2>1. /\ arg' = [arg EXCEPT ![p] = None] /\ arg[p] # None /\ arg[p] \in Frames
        /\ out' = Append(out, arg[p]) /\ accepted' = Append(accepted, arg[p])
    BY <1>3, <1>a DEF SendAccept, SendDone, TypeOK, GoroutineTypes
  <2>2. UNCHANGED <<inHand, wire, failed>>
    BY <1>3 DEF SendAccept
  <2>3. arg[p] \notin Contents(accepted)
    BY <2>1 DEF OrderInv
  <2>4. Contents(accepted') = Contents(accepted) \cup {arg[p]}
    BY <1>0, <2>1, ContentsAppend
  <2>5. /\ \A q \in HubProcs : arg'[q] # None => arg'[q] \notin Contents(accepted')
        /\ \A q, r \in HubProcs : arg'[q] # None /\ arg'[q] = arg'[r] => q = r
    BY <1>a, <2>1, <2>4 DEF OrderInv
  <2>6. Gone' = Gone /\ Held' = Held
    BY <2>2 DEF Gone, Held
  <2>7. /\ Len(accepted') = Len(accepted) + 1 /\ Len(out') = Len(out) + 1
        /\ \A i \in 1..Len(accepted) : accepted'[i] = accepted[i]
        /\ \A i \in 1..Len(out) : out'[i] = out[i]
        /\ accepted'[Len(accepted) + 1] = arg[p] /\ out'[Len(out) + 1] = arg[p]
    BY <1>0, <2>1
  <2>8. \A i \in 1..Len(accepted) : accepted[i] # arg[p]
    BY <2>3 DEF Contents
  <2>9. Len(accepted') = Gone' + Held' + Len(out')
    BY <1>0, <2>6, <2>7 DEF OrderInv
  <2>10. inHand' # None => accepted'[Gone' + 1] = inHand'
    <3>1. inHand # None => Gone + 1 \in 1..Len(accepted)
      BY <1>0 DEF OrderInv, Held
    <3> QED BY <2>2, <2>6, <2>7, <3>1 DEF OrderInv
  <2>11. \A i \in 1..Len(out') : out'[i] = accepted'[Gone' + Held' + i]
    <3> SUFFICES ASSUME NEW i \in 1..Len(out) + 1 PROVE out'[i] = accepted'[Gone + Held + i]
      BY <2>6, <2>7
    <3>1. CASE i = Len(out) + 1
      BY <1>0, <2>7, <3>1 DEF OrderInv
    <3>2. CASE i \in 1..Len(out)
      <4>1. Gone + Held + i \in 1..Len(accepted)
        BY <1>0, <3>2 DEF OrderInv
      <4> QED BY <2>7, <3>2, <4>1 DEF OrderInv
    <3> QED BY <1>0, <3>1, <3>2
  <2>12. \A i, j \in 1..Len(accepted') : accepted'[i] = accepted'[j] => i = j
    <3>1. 1..Len(accepted') = 1..Len(accepted) \cup {Len(accepted) + 1}
      BY <1>0, <2>7
    <3> QED BY <1>0, <2>7, <2>8, <3>1 DEF OrderInv
  <2>13. \A f \in failed' : \E i \in 1..Gone' : f = accepted'[i]
    <3>1. 1..Gone \subseteq 1..Len(accepted)
      BY <1>0 DEF OrderInv
    <3> QED BY <2>2, <2>6, <2>7, <3>1 DEF OrderInv
  <2> QED BY <2>2, <2>5, <2>9, <2>10, <2>11, <2>12, <2>13 DEF OrderInv
<1>4. CASE PumpTake \/ DrainTake
  <2>1. /\ out # <<>> /\ inHand' = Head(out) /\ out' = Tail(out) /\ inHand = None
        /\ UNCHANGED <<arg, accepted, wire, failed>>
    BY <1>4 DEF PumpTake, DrainTake, TypeOK, PumpTypes
  <2>2. /\ Head(out) = out[1] /\ Head(out) \in Frames /\ Len(out) >= 1
        /\ Len(out') = Len(out) - 1 /\ \A i \in 1..Len(out') : out'[i] = out[i + 1]
    BY <1>0, <2>1
  <2>3. Gone' = Gone /\ Held = 0 /\ Held' = 1
    BY <2>1, <2>2, ConnAssumption DEF Gone, Held
  <2>4. \A i \in 1..Len(out') : i + 1 \in 1..Len(out) /\ Gone + Held + (i + 1) = Gone' + Held' + i
    BY <1>0, <2>2, <2>3
  <2>5. \A i \in 1..Len(out') : out'[i] = accepted'[Gone' + Held' + i]
    BY <2>1, <2>2, <2>4 DEF OrderInv
  <2>6. accepted'[Gone' + 1] = inHand'
    BY <1>0, <2>1, <2>2, <2>3 DEF OrderInv
  <2>7. Len(accepted') = Gone' + Held' + Len(out')
    BY <1>0, <2>1, <2>2, <2>3 DEF OrderInv
  <2> QED BY <2>1, <2>3, <2>5, <2>6, <2>7 DEF OrderInv
<1>5. CASE WriteOk \/ WriteFail
  <2>1. /\ inHand # None /\ inHand \in Frames /\ inHand' = None
        /\ UNCHANGED <<arg, accepted, out>>
    BY <1>5, <1>a DEF WriteOk, WriteFail, TypeOK, PumpTypes
  <2>2. Gone' = Gone + 1 /\ IsFiniteSet(failed')
    <3>1. CASE WriteOk
      <4>1. Len(wire') = Len(wire) + 1 /\ failed' = failed
        BY <1>0, <2>1, <3>1 DEF WriteOk
      <4> QED BY <1>0, <4>1 DEF Gone, OrderInv
    <3>2. CASE WriteFail
      <4>1. wire' = wire
        BY <3>2 DEF WriteFail
      <4> QED BY <1>0, <3>2, <4>1, LostOnce DEF Gone
    <3> QED BY <1>5, <3>1, <3>2
  <2>3. Held = 1 /\ Held' = 0
    BY <2>1 DEF Held
  <2>4. \A g \in failed' : g \in failed \/ g = accepted[Gone + 1]
    BY <1>5, <2>1 DEF WriteOk, WriteFail, OrderInv
  <2>5. \A f \in failed' : \E i \in 1..Gone' : f = accepted'[i]
    <3>1. 1..Gone' = 1..Gone \cup {Gone + 1}
      BY <1>0, <2>2
    <3> QED BY <2>1, <2>4, <3>1 DEF OrderInv
  <2>6. /\ Gone' + Held' + Len(out') = Gone + Held + Len(out)
        /\ \A i \in 1..Len(out) : Gone' + Held' + i = Gone + Held + i
    BY <1>0, <2>1, <2>2, <2>3
  <2> QED BY <2>1, <2>2, <2>5, <2>6 DEF OrderInv
<1>6. CASE UNCHANGED <<out, arg, inHand, accepted, wire, failed>>
  BY <1>6 DEF OrderInv, Gone, Held, Contents
<1> QED
  BY <1>1, <1>2, <1>3, <1>4, <1>5, <1>6
  DEF Next, Send, Close, CloseFirst, CloseStore, CloseSignal, CloseAgain, CloseReturn, WritePump,
      PumpShutdown, DrainEmpty, DrainExpire, DeadStore, TeardownTransport, TeardownAnnounce,
      ReadLoopReturn, vars

\* The phase of the channel.
Ending == closedVal \/ failed # {} \/ shutdown > 0
Phase == IF ~wsOpen THEN "ended" ELSE IF Ending THEN "ending" ELSE "open"

\* Every step of a goroutine, of the pump or of the network is one of the
\* channel, or leaves it alone.
LEMMA ChannelStep == IInv /\ OrderInv /\ [Next]_vars => [Channel!ChanNext]_(Channel!chanVars)
<1> SUFFICES ASSUME IInv, OrderInv, [Next]_vars
             PROVE  Channel!ChanNext \/ UNCHANGED <<accepted, wire, Gone + 1, Phase>>
  BY DEF Channel!chanVars, Gone, Phase, Ending
<1> USE DEF connVars, procVars, pumpVars, histVars
<1>0. /\ Gone \in Nat /\ Len(wire) \in Nat /\ Cardinality(failed) \in Nat
      /\ Held \in {0, 1} /\ Len(out) \in Nat /\ Len(accepted) \in Nat
      /\ out \in Seq(Frames) /\ accepted \in Seq(Frames) /\ wire \in Seq(Frames)
  BY OrderNats DEF IInv
<1>1. inHand # None => Gone + 1 \in DOMAIN accepted /\ accepted[Gone + 1] = inHand
  BY <1>0 DEF OrderInv, Held
<1>2. pump \in {"writing", "drainWriting", "teardown", "dead"} => wsOpen
  BY DEF IInv, PhaseInv
<1>3. ASSUME NEW p \in HubProcs, SendAccept(p) PROVE Channel!ChanNext
  <2>1. arg[p] \in Frames /\ accepted' = Append(accepted, arg[p])
    BY <1>3, ConnAssumption DEF SendAccept, IInv, TypeOK, GoroutineTypes, Procs
  <2>2. UNCHANGED <<wire, failed, wsOpen, closedVal, shutdown>>
    BY <1>3 DEF SendAccept
  <2>3. Channel!Take(arg[p])
    BY <2>1, <2>2 DEF Channel!Take
  <2> QED BY <2>1, <2>3 DEF Channel!ChanNext
<1>4. CASE WriteOk
  <2>1. inHand # None /\ wire' = Append(wire, inHand) /\ inHand \in Frames
    BY <1>4 DEF WriteOk, IInv, TypeOK, PumpTypes
  <2>2. UNCHANGED <<accepted, failed, wsOpen, closedVal, shutdown>>
    BY <1>4 DEF WriteOk
  <2>3. wsOpen
    BY <1>2, <1>4 DEF WriteOk
  <2>4. Len(wire') = Len(wire) + 1
    BY <1>0, <2>1
  <2>5. Channel!Arrive
    BY <1>0, <1>1, <2>1, <2>2, <2>3, <2>4 DEF Channel!Arrive, Gone
  <2> QED BY <2>5 DEF Channel!ChanNext
<1>5. CASE WriteFail
  <2>1. inHand # None /\ failed' = failed \cup {inHand} /\ UNCHANGED <<accepted, wire, wsOpen>>
    BY <1>5 DEF WriteFail, IInv, TypeOK, PumpTypes
  <2>2. Cardinality(failed') = Cardinality(failed) + 1
    BY <1>5, LostOnce DEF IInv
  <2>3. wsOpen
    BY <1>2, <1>5 DEF WriteFail
  <2>4. Channel!Skip
    BY <1>0, <1>1, <2>1, <2>2, <2>3 DEF Channel!Skip, Gone
  <2> QED BY <2>4 DEF Channel!ChanNext
<1>6. CASE TeardownTransport
  <2>1. wsOpen /\ Ending /\ ~wsOpen' /\ UNCHANGED <<accepted, wire, failed, closedVal, shutdown>>
    BY <1>2, <1>6 DEF TeardownTransport, Ending, IInv, PhaseInv
  <2>2. Channel!End
    BY <2>1 DEF Channel!End, Ending
  <2> QED BY <2>2 DEF Channel!ChanNext
<1>7. CASE (\E p \in Procs : CloseStore(p) \/ CloseSignal(p)) \/ DeadStore
  <2>1. Ending' /\ UNCHANGED <<accepted, wire, failed, wsOpen>>
    BY <1>7
    DEF CloseStore, CloseSignal, Signalled, DeadStore, Ending, IInv, TypeOK, FlagTypes
  <2>2. CASE wsOpen /\ ~Ending
    BY <2>1, <2>2 DEF Channel!BeginEnd, Channel!ChanNext, Ending
  <2>3. CASE ~(wsOpen /\ ~Ending)
    BY <2>1, <2>3 DEF Phase, Gone
  <2> QED BY <2>2, <2>3
<1>8. CASE UNCHANGED <<accepted, wire, failed, wsOpen, closedVal, shutdown>>
  BY <1>8 DEF Gone, Phase, Ending
<1> QED
  BY <1>3, <1>4, <1>5, <1>6, <1>7, <1>8
  DEF Next, Send, SendCheck, SendRefuse, Close, CloseFirst, CloseAgain, CloseReturn, WritePump,
      PumpTake, DrainTake, PumpShutdown, DrainEmpty, DrainExpire, TeardownAnnounce,
      ReadLoopReturn, vars

\* A connection delivers what it took, in order and each frame at most once,
\* loses one only with a failed write, and delivers nothing after its end
\* (conn.go implements the Conn of hub.go).
THEOREM ConnIsChannel == Spec => ChannelSpec
<1>1. Init => Channel!ChanInit
  BY OrderInit DEF Init, Channel!ChanInit, Gone
<1>2. Init => OrderInv
  BY OrderInit
<1>3. IInv /\ OrderInv /\ [Next]_vars => OrderInv'
  BY OrderStep DEF IInv
<1> QED
  BY Inductive, ChannelStep, <1>1, <1>2, <1>3, PTL DEF Spec, ChannelSpec, Channel!ChanSpec

-----------------------------------------------------------------------------
(* What follows for the client.                                            *)

\* How far the channel has got, and that there is something to count in.
ChanTypes ==
    /\ accepted \in Seq(Frames) /\ wire \in Seq(Frames)
    /\ Gone \in Nat /\ Gone <= Len(accepted)

LEMMA ChanTyped == IInv /\ OrderInv => ChanTypes
<1> SUFFICES ASSUME IInv, OrderInv PROVE ChanTypes
  OBVIOUS
<1> QED BY OrderNats DEF IInv, OrderInv, ChanTypes

\* A frame that arrives is later than all that did; the others stay where they
\* were taken.
LEMMA OrderKept ==
    ASSUME ChanTypes, ChanTypes', Channel!InOrder,
           [Channel!ChanNext]_(Channel!chanVars)
    PROVE  Channel!InOrder'
<1> DEFINE next == Gone + 1
<1>1. PICK at \in [DOMAIN wire -> DOMAIN accepted] :
        /\ \A i, k \in DOMAIN wire : i < k => at[i] < at[k]
        /\ \A i \in DOMAIN wire : wire[i] = accepted[at[i]] /\ at[i] < next
  BY DEF Channel!InOrder, Gone
<1>t. /\ DOMAIN wire = 1..Len(wire) /\ DOMAIN accepted = 1..Len(accepted)
      /\ Len(wire) \in Nat /\ Len(accepted) \in Nat /\ next \in Nat
      /\ next <= Len(accepted) + 1
  BY DEF ChanTypes
<1>2. CASE UNCHANGED <<accepted, wire>> /\ next' >= next
  <2>1. \A i \in DOMAIN wire' : wire'[i] = accepted'[at[i]] /\ at[i] < next'
    BY <1>1, <1>2, <1>t DEF ChanTypes
  <2> QED BY <1>1, <1>2, <2>1 DEF Channel!InOrder, Gone
<1>3. ASSUME NEW f \in Frames, Channel!Take(f) PROVE Channel!InOrder'
  <2>1. accepted' = Append(accepted, f) /\ wire' = wire /\ next' = next
    BY <1>3 DEF Channel!Take, Gone
  <2>2. /\ DOMAIN accepted' = 1..(Len(accepted) + 1)
        /\ \A i \in DOMAIN accepted : accepted'[i] = accepted[i]
    BY <2>1, <1>t DEF ChanTypes
  <2>3. at \in [DOMAIN wire' -> DOMAIN accepted']
    BY <1>1, <1>t, <2>1, <2>2
  <2>4. \A i \in DOMAIN wire' : wire'[i] = accepted'[at[i]] /\ at[i] < next'
    BY <1>1, <2>1, <2>2
  <2> QED BY <1>1, <2>1, <2>3, <2>4 DEF Channel!InOrder, Gone
<1>4. CASE Channel!Arrive
  <2>1. /\ next \in DOMAIN accepted /\ wire' = Append(wire, accepted[next])
        /\ next' = next + 1 /\ accepted' = accepted
    BY <1>4 DEF Channel!Arrive, Gone
  <2>2. /\ DOMAIN wire' = 1..(Len(wire) + 1)
        /\ \A i \in 1..Len(wire) : wire'[i] = wire[i]
        /\ wire'[Len(wire) + 1] = accepted[next]
    BY <2>1, <1>t DEF ChanTypes
  <2> DEFINE to == [i \in 1..(Len(wire) + 1) |-> IF i = Len(wire) + 1 THEN next ELSE at[i]]
  <2>3. to \in [DOMAIN wire' -> DOMAIN accepted']
    BY <1>1, <1>t, <2>1, <2>2
  <2>4. /\ \A i \in 1..Len(wire) : to[i] = at[i] /\ at[i] < next
        /\ to[Len(wire) + 1] = next
    BY <1>1, <1>t
  <2> HIDE DEF to
  <2>5. \A i, k \in DOMAIN wire' : i < k => to[i] < to[k]
    <3> SUFFICES ASSUME NEW i \in DOMAIN wire', NEW k \in DOMAIN wire', i < k
                 PROVE  to[i] < to[k]
      OBVIOUS
    <3>1. i \in 1..Len(wire) /\ (k \in 1..Len(wire) \/ k = Len(wire) + 1)
      BY <1>t, <2>2
    <3> QED BY <1>1, <1>t, <2>4, <3>1
  <2>6. \A i \in DOMAIN wire' : wire'[i] = accepted'[to[i]] /\ to[i] < next'
    <3> SUFFICES ASSUME NEW i \in DOMAIN wire'
                 PROVE  wire'[i] = accepted'[to[i]] /\ to[i] < next'
      OBVIOUS
    <3>1. CASE i = Len(wire) + 1
      BY <1>t, <2>1, <2>2, <2>4, <3>1
    <3>2. CASE i \in 1..Len(wire)
      <4>1. to[i] = at[i] /\ at[i] \in 1..Len(accepted)
        BY <1>1, <1>t, <2>4, <3>2
      <4> QED BY <1>1, <1>t, <2>1, <2>2, <3>2, <4>1
    <3> QED BY <1>t, <2>2, <3>1, <3>2
  <2> QED BY <2>3, <2>5, <2>6 DEF Channel!InOrder, Gone
<1>5. CASE Channel!Skip \/ Channel!BeginEnd \/ Channel!End \/ UNCHANGED Channel!chanVars
  <2>1. UNCHANGED <<accepted, wire>> /\ next' >= next
    BY <1>5, <1>t DEF Channel!Skip, Channel!BeginEnd, Channel!End, Channel!chanVars, Gone
  <2> QED BY <1>2, <2>1
<1> QED BY <1>3, <1>4, <1>5 DEF Channel!ChanNext

\* An open channel has lost nothing: what was skipped, was skipped on the way out.
LEMMA SkipsNothing ==
    ASSUME ChanTypes, Channel!NothingSkipped, [Channel!ChanNext]_(Channel!chanVars)
    PROVE  Channel!NothingSkipped'
<1> DEFINE next == Gone + 1
<1>t. /\ DOMAIN wire = 1..Len(wire) /\ DOMAIN accepted = 1..Len(accepted)
      /\ Len(wire) \in Nat /\ Len(accepted) \in Nat /\ next \in Nat
  BY DEF ChanTypes
<1>1. ASSUME NEW f \in Frames, Channel!Take(f) PROVE Channel!NothingSkipped'
  <2>1. accepted' = Append(accepted, f) /\ wire' = wire /\ next' = next /\ Phase' = Phase
    BY <1>1 DEF Channel!Take, Gone, Phase, Ending
  <2>2. DOMAIN accepted' = 1..(Len(accepted) + 1)
        /\ \A i \in DOMAIN accepted : accepted'[i] = accepted[i]
    BY <2>1, <1>t DEF ChanTypes
  <2> QED BY <1>t, <2>1, <2>2 DEF Channel!NothingSkipped, Phase, Ending, Gone
<1>2. CASE Channel!Arrive
  <2>1. /\ next \in DOMAIN accepted /\ wire' = Append(wire, accepted[next])
        /\ next' = next + 1 /\ accepted' = accepted /\ Phase' = Phase
    BY <1>2 DEF Channel!Arrive, Gone, Phase, Ending
  <2>2. /\ Len(wire') = Len(wire) + 1 /\ DOMAIN wire' = 1..(Len(wire) + 1)
        /\ \A i \in 1..Len(wire) : wire'[i] = wire[i]
        /\ wire'[Len(wire) + 1] = accepted[next]
    BY <2>1, <1>t DEF ChanTypes
  <2>3. SUFFICES ASSUME Phase = "open"
                 PROVE  /\ next' = Len(wire') + 1
                        /\ \A i \in DOMAIN wire' : i \in DOMAIN accepted' /\ wire'[i] = accepted'[i]
    BY <2>1 DEF Channel!NothingSkipped, Phase, Ending, Gone
  <2>4. /\ next = Len(wire) + 1
        /\ \A i \in 1..Len(wire) : i \in DOMAIN accepted /\ wire[i] = accepted[i]
    BY <2>3, <1>t DEF Channel!NothingSkipped, Phase, Ending, Gone
  <2> QED BY <1>t, <2>1, <2>2, <2>4
<1>3. CASE Channel!Skip \/ Channel!BeginEnd \/ Channel!End
  <2>1. Phase' # "open"
    BY <1>3 DEF Channel!Skip, Channel!BeginEnd, Channel!End, Phase, Ending
  <2> QED BY <2>1 DEF Channel!NothingSkipped, Phase, Ending
<1>4. CASE UNCHANGED Channel!chanVars
  BY <1>4 DEF Channel!chanVars, Channel!NothingSkipped
<1> QED BY <1>1, <1>2, <1>3, <1>4 DEF Channel!ChanNext

\* Whoever sends and closes when, the client reads frames the hub handed over,
\* in that order, none twice; and all of them as long as no write failed and
\* nobody closed (Send, writePump and drainThenTeardown of conn.go).
THEOREM FramesArriveInOrder == Spec => []DeliveredInOrder
<1>1. Init => Channel!InOrder /\ Channel!NothingSkipped
  <2> SUFFICES ASSUME Init PROVE Channel!InOrder /\ Channel!NothingSkipped
    OBVIOUS
  <2>1. DOMAIN wire = {} /\ Len(wire) = 0 /\ Gone = 0
    BY OrderInit DEF Init
  <2>2. [i \in {} |-> 0] \in [DOMAIN wire -> DOMAIN accepted]
    BY <2>1
  <2> QED BY <2>1, <2>2 DEF Channel!InOrder, Channel!NothingSkipped, Gone
<1>2. Init => OrderInv
  BY OrderInit
<1>3. IInv /\ OrderInv /\ [Next]_vars => OrderInv'
  BY OrderStep DEF IInv
<1>4. IInv /\ OrderInv => ChanTypes
  BY ChanTyped
<1>5. /\ ChanTypes /\ ChanTypes' /\ Channel!InOrder /\ Channel!NothingSkipped
      /\ [Channel!ChanNext]_(Channel!chanVars)
      => Channel!InOrder' /\ Channel!NothingSkipped'
  BY OrderKept, SkipsNothing
<1> QED BY Inductive, ChannelStep, <1>1, <1>2, <1>3, <1>4, <1>5, PTL DEF Spec, DeliveredInOrder

=============================================================================
