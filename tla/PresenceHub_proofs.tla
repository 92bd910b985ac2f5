------------------------- MODULE PresenceHub_proofs -------------------------
(***************************************************************************)
(* The registry and the shutdown of the hub, for any number of users,      *)
(* connections and workers and any capacity of the ingest channel.         *)
(***************************************************************************)
EXTENDS PresenceHub, FiniteSetTheorems, TLAPS

LEMMA TypeStep == TypeOK /\ [Next]_vars /\ wg' \in Nat => TypeOK'
<1> SUFFICES ASSUME TypeOK, [Next]_vars, wg' \in Nat PROVE TypeOK'
  OBVIOUS
<1> USE HubAssumption DEF TypeOK, connVars, poolVars, shutVars
<1>1. ASSUME NEW c \in Conns, Serve(c) PROVE TypeOK'
  <2>0. Owner[c] \in Users
    OBVIOUS
  <2>1. CASE Handshake(c) \/ EnqueuePanics(c) \/ Disconnect(c) \/ Close(c)
           \/ Teardown(c)
    BY <2>1 DEF Handshake, EnqueuePanics, Disconnect, Close, Teardown
  <2>2. CASE Register(c)
    BY <2>0, <2>2 DEF Register
  <2>3. CASE Enqueue(c)
    <3>1. ingest' \in Seq(Conns) /\ Len(ingest') <= IngestBuffer
      BY <2>3 DEF Enqueue, Room
    <3> QED BY <2>3, <3>1 DEF Enqueue
  <2>4. CASE Unregister(c)
    BY <2>0, <2>4 DEF Unregister, Forget
  <2> QED BY <1>1, <2>1, <2>2, <2>3, <2>4 DEF Serve
<1>2. CASE Run
  BY <1>2 DEF Run
<1>3. ASSUME NEW w \in Workers, Work(w) PROVE TypeOK'
  <2>1. CASE TakeJob(w)
    <3>1. Head(ingest) \in Conns /\ Head(ingest) # None
          /\ ingest' \in Seq(Conns) /\ Len(ingest') <= IngestBuffer
      BY <2>1 DEF TakeJob
    <3>2. /\ worker' = [worker EXCEPT ![w] = "deciding"]
          /\ job' = [job EXCEPT ![w] = Head(ingest)]
          /\ UNCHANGED <<connVars, ingestClosed, wg, shutVars, consent, present>>
      BY <2>1 DEF TakeJob
    <3>3. \A x \in Workers : job'[x] = None <=> worker'[x] \in {"unstarted", "idle", "exited"}
      BY <3>1, <3>2
    <3> HIDE DEF TypeOK
    <3>4. /\ worker' \in [Workers -> {"unstarted", "idle", "deciding", "writing",
                                      "draining", "exited"}]
          /\ job' \in [Workers -> Conns \cup {None}]
      BY <3>1, <3>2 DEF TypeOK
    <3> QED BY <3>1, <3>2, <3>3, <3>4 DEF TypeOK
  <2>2. CASE WorkerStop(w)
    BY <2>2 DEF WorkerStop
  <2>3. CASE Decide(w) \/ ProcessFails(w)
    <3>1. \E p \in {"idle", "writing", "draining"} : Goto(w, p)
      BY <2>3 DEF Decide, ProcessFails, WithoutConsent
    <3>2. worker[w] \in {"deciding", "writing"}
      BY <2>3 DEF Decide, ProcessFails
    <3>3. /\ job' \in [Workers -> Conns \cup {None}]
          /\ \A x \in Workers : job'[x] = None <=> worker'[x] \in {"unstarted", "idle", "exited"}
          /\ worker' \in [Workers -> {"unstarted", "idle", "deciding", "writing",
                                      "draining", "exited"}]
      BY <3>1, <3>2 DEF Goto
    <3> QED BY <2>3, <3>3 DEF Decide, ProcessFails
  <2>4. CASE WriteIndex(w)
    <3>1. job[w] \in Conns
      BY <2>4 DEF WriteIndex
    <3> QED BY <2>4, <3>1 DEF WriteIndex, Goto, JobUser
  <2>5. CASE Evict(w)
    BY <2>5 DEF Evict, Goto
  <2> QED BY <1>3, <2>1, <2>2, <2>3, <2>4, <2>5 DEF Work
<1>4. CASE Shutdown
  BY <1>4 DEF Shutdown, ShutdownBroadcast, ShutdownCloseIngest, ShutdownReturn, ShutdownDeadline
<1>5. CASE Environment
  BY <1>5 DEF Environment, Signal, ConsentChange, IndexEntryGone
<1>6. CASE UNCHANGED vars
  BY <1>6 DEF vars
<1> QED BY <1>1, <1>2, <1>3, <1>4, <1>5, <1>6 DEF Next

\* An older connection that leaves late does not take its successor with it,
\* and one that leaves is not named any more.
LEMMA RegistryStep == TypeOK /\ RegisteredIsServed /\ [Next]_vars => RegisteredIsServed'
<1> SUFFICES ASSUME TypeOK, RegisteredIsServed, [Next]_vars PROVE RegisteredIsServed'
  OBVIOUS
<1>t. /\ handler \in [Conns -> {"new", "upgrading", "reading", "leaving", "closing", "done", "panicked"}]
      /\ conns \in [Users -> Conns \cup {None}] /\ Owner \in [Conns -> Users] /\ None \notin Conns
  BY HubAssumption DEF TypeOK
<1>1. ASSUME conns' = conns, handler' = handler PROVE RegisteredIsServed'
  BY <1>1 DEF RegisteredIsServed
<1>2. ASSUME NEW c \in Conns, Register(c) PROVE RegisteredIsServed'
  BY <1>2, <1>t DEF Register, RegisteredIsServed
<1>3. ASSUME NEW c \in Conns, Unregister(c) PROVE RegisteredIsServed'
  BY <1>3, <1>t DEF Unregister, Forget, RegisteredIsServed
<1>4. ASSUME NEW c \in Conns, Handshake(c) \/ EnqueuePanics(c) \/ Disconnect(c) \/ Close(c)
      PROVE  RegisteredIsServed'
  BY <1>4, <1>t DEF Handshake, EnqueuePanics, Disconnect, Close, RegisteredIsServed
<1>5. ASSUME NEW c \in Conns, Enqueue(c) \/ Teardown(c) PROVE conns' = conns /\ handler' = handler
  BY <1>5 DEF Enqueue, Teardown, connVars
<1>6. ASSUME NEW w \in Workers, Work(w) PROVE conns' = conns /\ handler' = handler
  BY <1>6 DEF Work, TakeJob, WorkerStop, Decide, WriteIndex, ProcessFails, Evict, connVars
<1>7. CASE Run \/ Shutdown \/ Environment \/ UNCHANGED vars
  BY <1>1, <1>7 DEF Run, Shutdown, ShutdownBroadcast, ShutdownCloseIngest, ShutdownReturn,
     ShutdownDeadline, Environment, Signal, ConsentChange, IndexEntryGone, vars, connVars
<1> QED BY <1>1, <1>2, <1>3, <1>4, <1>5, <1>6, <1>7 DEF Next, Serve

-----------------------------------------------------------------------------
(* The WaitGroup counts the workers that are still to return. *)

Unfinished == {w \in Workers : worker[w] # "exited"}

CountInv == wg = Cardinality(Unfinished)

LEMMA CountStep ==
  TypeOK /\ CountInv /\ ShutdownWaits /\ [Next]_vars => wg' \in Nat /\ CountInv' /\ ShutdownWaits'
<1> SUFFICES ASSUME TypeOK, CountInv, ShutdownWaits, [Next]_vars
             PROVE  wg' \in Nat /\ CountInv' /\ ShutdownWaits'
  OBVIOUS
<1>t. /\ worker \in [Workers -> {"unstarted", "idle", "deciding", "writing", "draining", "exited"}]
      /\ wg \in Nat
  BY DEF TypeOK
<1>f. IsFiniteSet(Unfinished)
  BY HubAssumption, FS_Subset DEF Unfinished
<1>1. ASSUME wg' = wg, Unfinished' = Unfinished, shut' = shut \/ shut' # "done"
      PROVE  wg' \in Nat /\ CountInv' /\ ShutdownWaits'
  <2>1. \A w \in Workers : worker'[w] = "exited" <=> worker[w] = "exited"
    BY <1>1 DEF Unfinished
  <2> QED BY <1>1, <1>t, <2>1 DEF CountInv, ShutdownWaits
<1>2. ASSUME NEW w \in Workers, WorkerStop(w) PROVE wg' \in Nat /\ CountInv' /\ ShutdownWaits'
  <2>1. w \in Unfinished /\ Unfinished' = Unfinished \ {w}
    BY <1>2, <1>t DEF WorkerStop, Unfinished
  <2>2. Cardinality(Unfinished') = Cardinality(Unfinished) - 1 /\ Cardinality(Unfinished') \in Nat
    BY <1>f, <2>1, FS_RemoveElement, FS_CardinalityType
  <2>3. shut' # "done"
    BY <1>2 DEF WorkerStop, Alive, Returned, shutVars
  <2> QED BY <1>2, <2>2, <2>3 DEF WorkerStop, AfterDone, CountInv, ShutdownWaits
<1>3. ASSUME NEW w \in Workers, Work(w), ~WorkerStop(w)
      PROVE  wg' = wg /\ Unfinished' = Unfinished /\ shut' = shut
  <2>1. wg' = wg /\ shut' = shut
    BY <1>3 DEF Work, TakeJob, Decide, WriteIndex, ProcessFails, Evict, shutVars
  <2>2. \E p \in {"idle", "deciding", "writing", "draining"} :
           worker' = [worker EXCEPT ![w] = p] /\ worker[w] # "exited"
    BY <1>3 DEF Work, TakeJob, Decide, WriteIndex, ProcessFails, Evict, Goto, WithoutConsent
  <2>3. Unfinished' = Unfinished
    BY <1>t, <2>2 DEF Unfinished
  <2> QED BY <2>1, <2>3
<1>4. CASE Run
  <2>1. Unfinished' = Unfinished /\ wg' = wg /\ shut' = shut
    BY <1>4 DEF Run, Unfinished, shutVars
  <2> QED BY <1>1, <2>1
<1>5. CASE ShutdownReturn
  <2>1. wg' = wg /\ worker' = worker /\ Unfinished' = Unfinished /\ wg = 0
    BY <1>5 DEF ShutdownReturn, poolVars, Unfinished
  <2>2. Unfinished = {}
    BY <1>f, <2>1, FS_EmptySet DEF CountInv
  <2>3. \A w \in Workers : worker'[w] = "exited"
    BY <2>1, <2>2 DEF Unfinished
  <2> QED BY <1>t, <2>1, <2>3 DEF CountInv, ShutdownWaits
<1>6. ASSUME NEW c \in Conns, Serve(c) PROVE wg' = wg /\ worker' = worker /\ shut' = shut
  BY <1>6 DEF Serve, Handshake, Register, Enqueue, EnqueuePanics, Unregister, Disconnect, Close, Teardown,
     poolVars, shutVars
<1>7. CASE ShutdownBroadcast \/ ShutdownCloseIngest \/ ShutdownDeadline \/ Environment
           \/ UNCHANGED vars
  <2>1. wg' = wg /\ worker' = worker /\ (shut' = shut \/ shut' # "done")
    BY <1>7 DEF ShutdownBroadcast, ShutdownCloseIngest, ShutdownDeadline, Environment, Signal,
       ConsentChange, IndexEntryGone, vars, poolVars, shutVars
  <2> QED BY <1>1, <2>1 DEF Unfinished
<1>8. ASSUME worker' = worker PROVE Unfinished' = Unfinished
  BY <1>8 DEF Unfinished
<1> QED BY <1>1, <1>2, <1>3, <1>4, <1>5, <1>6, <1>7, <1>8 DEF Next, Shutdown

-----------------------------------------------------------------------------
(* The transports, and what Shutdown has done so far. *)

\* A transport is opened by Register and by nothing else, every frame came on
\* one that was, and a handler that has returned has closed its own.
LinkInv ==
  /\ \A c \in Conns : link[c] = "none" <=> handler[c] \in {"new", "upgrading"}
  /\ \A c \in Conns : handler[c] = "done" => CutOff(c)
  /\ \A i \in 1..Len(ingest) : link[ingest[i]] # "none"
  /\ \A w \in Workers : job[w] # None => link[job[w]] # "none"

\* The channel is closed by Shutdown, which follows the signal; only then may
\* a handler panic.
PhaseInv ==
  /\ ingestClosed <=> shut \in {"waiting", "done", "timedOut"}
  /\ shut # "no" => ctxDone
  /\ NoPanic \/ ingestClosed

\* What a step does to the transports: it opens one that was never open, or
\* moves some on towards their end.
LEMMA LinkMoves ==
  ASSUME TypeOK, LinkInv, [Next]_vars, NEW c \in Conns
  PROVE  /\ link[c] # "none" => link'[c] # "none"
         /\ CutOff(c) => CutOff(c)'
         /\ handler[c] = "done" => handler'[c] = "done"
<1> USE DEF connVars, poolVars, shutVars, CutOff
<1>t. /\ handler \in [Conns -> {"new", "upgrading", "reading", "leaving", "closing", "done", "panicked"}]
      /\ link \in [Conns -> {"none", "open", "closing", "down"}]
  BY DEF TypeOK
<1>1. ASSUME NEW d \in Conns, Serve(d)
      PROVE  /\ link[c] # "none" => link'[c] # "none"
             /\ CutOff(c) => CutOff(c)'
             /\ handler[c] = "done" => handler'[c] = "done"
  <2>1. CASE Register(d)
    BY <2>1, <1>t DEF Register, LinkInv
  <2>2. CASE Handshake(d) \/ Enqueue(d) \/ EnqueuePanics(d) \/ Unregister(d)
    BY <2>2, <1>t DEF Handshake, Enqueue, EnqueuePanics, Unregister
  <2>3. CASE Disconnect(d) \/ Close(d) \/ Teardown(d)
    BY <2>3, <1>t DEF Disconnect, Close, Teardown
  <2> QED BY <1>1, <2>1, <2>2, <2>3 DEF Serve
<1>2. ASSUME NEW w \in Workers, Evict(w)
      PROVE  /\ link[c] # "none" => link'[c] # "none"
             /\ CutOff(c) => CutOff(c)'
             /\ handler' = handler
  BY <1>2, <1>t DEF Evict
<1>3. ASSUME NEW w \in Workers, Work(w), ~Evict(w) PROVE UNCHANGED <<link, handler>>
  BY <1>3 DEF Work, TakeJob, WorkerStop, Decide, WriteIndex, ProcessFails
<1>4. CASE Run \/ Shutdown \/ Environment \/ UNCHANGED vars
  BY <1>4 DEF Run, Shutdown, ShutdownBroadcast, ShutdownCloseIngest, ShutdownReturn,
     ShutdownDeadline, Environment, Signal, ConsentChange, IndexEntryGone, vars
<1> QED BY <1>1, <1>2, <1>3, <1>4 DEF Next

LEMMA LinkStep == TypeOK /\ LinkInv /\ [Next]_vars => LinkInv'
<1> SUFFICES ASSUME TypeOK, LinkInv, [Next]_vars PROVE LinkInv'
  OBVIOUS
<1> USE DEF connVars, poolVars, shutVars
<1>t. /\ handler \in [Conns -> {"new", "upgrading", "reading", "leaving", "closing", "done", "panicked"}]
      /\ link \in [Conns -> {"none", "open", "closing", "down"}]
      /\ ingest \in Seq(Conns) /\ job \in [Workers -> Conns \cup {None}] /\ None \notin Conns
  BY HubAssumption DEF TypeOK
<1>1. \A c \in Conns : link'[c] = "none" <=> handler'[c] \in {"new", "upgrading"}
  <2> SUFFICES ASSUME NEW c \in Conns
               PROVE  link'[c] = "none" <=> handler'[c] \in {"new", "upgrading"}
    OBVIOUS
  <2>0. link[c] = "none" <=> handler[c] \in {"new", "upgrading"}
    BY DEF LinkInv
  <2>1. ASSUME NEW d \in Conns, Serve(d)
        PROVE  link'[c] = "none" <=> handler'[c] \in {"new", "upgrading"}
    <3>1. CASE Handshake(d) \/ Register(d)
      BY <3>1, <2>0, <1>t DEF Handshake, Register
    <3>2. CASE Enqueue(d) \/ EnqueuePanics(d) \/ Unregister(d)
      BY <3>2, <2>0, <1>t DEF Enqueue, EnqueuePanics, Unregister
    <3>3. CASE Disconnect(d) \/ Close(d) \/ Teardown(d)
      BY <3>3, <2>0, <1>t DEF Disconnect, Close, Teardown
    <3> QED BY <2>1, <3>1, <3>2, <3>3 DEF Serve
  <2>2. ASSUME NEW w \in Workers, Evict(w)
        PROVE  link'[c] = "none" <=> handler'[c] \in {"new", "upgrading"}
    BY <2>2, <2>0, <1>t DEF Evict
  <2>3. ASSUME NEW w \in Workers, Work(w), ~Evict(w) PROVE UNCHANGED <<link, handler>>
    BY <2>3 DEF Work, TakeJob, WorkerStop, Decide, WriteIndex, ProcessFails
  <2>4. CASE Run \/ Shutdown \/ Environment \/ UNCHANGED vars
    BY <2>0, <2>4 DEF Run, Shutdown, ShutdownBroadcast, ShutdownCloseIngest, ShutdownReturn,
       ShutdownDeadline, Environment, Signal, ConsentChange, IndexEntryGone, vars
  <2> QED BY <2>0, <2>1, <2>2, <2>3, <2>4 DEF Next
<1>2. ASSUME NEW c \in Conns, handler'[c] = "done" PROVE CutOff(c)'
  <2>1. CASE handler[c] = "done"
    BY <2>1, LinkMoves DEF LinkInv
  <2>2. CASE handler[c] # "done"
    <3>1. \/ handler' = handler
          \/ \E d \in Conns : \/ Handshake(d) \/ Register(d) \/ EnqueuePanics(d)
                               \/ Unregister(d) \/ Disconnect(d) \/ Close(d)
      BY DEF Next, Serve, Enqueue, Teardown, Run, Work, TakeJob, WorkerStop, Decide, WriteIndex,
         ProcessFails, Evict, Shutdown, ShutdownBroadcast, ShutdownCloseIngest, ShutdownReturn,
         ShutdownDeadline, Environment, Signal, ConsentChange, IndexEntryGone, vars
    <3>2. Close(c)
      BY <1>2, <2>2, <3>1, <1>t DEF Handshake, Register, EnqueuePanics, Unregister, Disconnect, Close
    <3>3. handler[c] = "closing" /\ link'[c] = IF link[c] = "open" THEN "closing" ELSE link[c]
      BY <3>2, <1>t DEF Close
    <3> QED BY <3>3, <1>t DEF LinkInv, CutOff
  <2> QED BY <2>1, <2>2
<1>3. ASSUME NEW i \in 1..Len(ingest') PROVE link'[ingest'[i]] # "none"
  <2>1. \/ ingest' = ingest \/ (ingest # <<>> /\ ingest' = Tail(ingest))
        \/ \E c \in Conns : handler[c] = "reading" /\ ingest' = Append(ingest, c)
    BY DEF Next, Serve, Handshake, Register, Enqueue, EnqueuePanics, Unregister, Disconnect, Close,
       Teardown, Run, Work, TakeJob, WorkerStop, Decide, WriteIndex, ProcessFails, Evict,
       Shutdown, ShutdownBroadcast, ShutdownCloseIngest, ShutdownReturn, ShutdownDeadline,
       Environment, Signal, ConsentChange, IndexEntryGone, vars
  <2>2. ingest'[i] \in Conns /\ link[ingest'[i]] # "none"
    <3>1. CASE ingest' = ingest
      BY <1>3, <1>t, <3>1 DEF LinkInv
    <3>2. CASE ingest # <<>> /\ ingest' = Tail(ingest)
      <4>1. i + 1 \in 1..Len(ingest) /\ ingest'[i] = ingest[i + 1]
        BY <1>3, <1>t, <3>2
      <4> QED BY <1>t, <4>1 DEF LinkInv
    <3>3. ASSUME NEW c \in Conns, handler[c] = "reading", ingest' = Append(ingest, c)
          PROVE  ingest'[i] \in Conns /\ link[ingest'[i]] # "none"
      <4>1. ingest'[i] = c \/ (i \in 1..Len(ingest) /\ ingest'[i] = ingest[i])
        BY <1>3, <1>t, <3>3
      <4> QED BY <1>t, <3>3, <4>1 DEF LinkInv
    <3> QED BY <2>1, <3>1, <3>2, <3>3
  <2> QED BY <2>2, LinkMoves
<1>4. ASSUME NEW w \in Workers, job'[w] # None PROVE link'[job'[w]] # "none"
  <2>1. \/ job'[w] = job[w]
        \/ job'[w] = None
        \/ ingest # <<>> /\ job'[w] = Head(ingest)
    <3>1. ASSUME NEW x \in Workers, NEW p, Goto(x, p) PROVE job'[w] = job[w] \/ job'[w] = None
      BY <3>1, <1>t DEF Goto
    <3>2. ASSUME NEW x \in Workers, TakeJob(x)
          PROVE  job'[w] = job[w] \/ (ingest # <<>> /\ job'[w] = Head(ingest))
      BY <3>2, <1>t DEF TakeJob
    <3>3. ASSUME NEW x \in Workers, Work(x), ~TakeJob(x) PROVE job' = job \/ \E p : Goto(x, p)
      BY <3>3 DEF Work, WorkerStop, Decide, WriteIndex, ProcessFails, Evict
    <3>4. CASE (\E c \in Conns : Serve(c)) \/ Run \/ Shutdown \/ Environment \/ UNCHANGED vars
      BY <3>4 DEF Serve, Handshake, Register, Enqueue, EnqueuePanics, Unregister, Disconnect, Close,
         Teardown, Run, Shutdown, ShutdownBroadcast, ShutdownCloseIngest, ShutdownReturn,
         ShutdownDeadline, Environment, Signal, ConsentChange, IndexEntryGone, vars
    <3> QED BY <3>1, <3>2, <3>3, <3>4 DEF Next
  <2>2. job'[w] \in Conns /\ link[job'[w]] # "none"
    <3>1. CASE job'[w] = job[w]
      BY <1>4, <1>t, <3>1 DEF LinkInv
    <3>2. CASE ingest # <<>> /\ job'[w] = Head(ingest)
      <4>1. 1 \in 1..Len(ingest) /\ job'[w] = ingest[1]
        BY <1>t, <3>2
      <4> QED BY <1>t, <4>1 DEF LinkInv
    <3> QED BY <1>4, <2>1, <3>1, <3>2
  <2> QED BY <2>2, LinkMoves
<1> QED BY <1>1, <1>2, <1>3, <1>4 DEF LinkInv

LEMMA PhaseStep == TypeOK /\ PhaseInv /\ [Next]_vars => PhaseInv'
<1> SUFFICES ASSUME TypeOK, PhaseInv, [Next]_vars PROVE PhaseInv'
  OBVIOUS
<1> USE DEF PhaseInv, connVars, poolVars, shutVars
<1>1. ASSUME UNCHANGED <<ingestClosed, shut, ctxDone>>, NoPanic' \/ ingestClosed \/ handler' = handler
      PROVE  PhaseInv'
  BY <1>1 DEF NoPanic
<1>2. ASSUME NEW c \in Conns, Serve(c) PROVE PhaseInv'
  <2>1. CASE EnqueuePanics(c)
    BY <1>1, <2>1 DEF EnqueuePanics
  <2>2. CASE ~EnqueuePanics(c)
    <3>1. UNCHANGED <<ingestClosed, shut, ctxDone>>
      BY <1>2, <2>2 DEF Serve, Handshake, Register, Enqueue, Unregister, Disconnect, Close, Teardown
    <3>2. \/ handler' = handler
          \/ \E p \in {"upgrading", "reading", "leaving", "closing", "done"} :
               handler' = [handler EXCEPT ![c] = p]
      BY <1>2, <2>2 DEF Serve, Handshake, Register, Enqueue, Unregister, Disconnect, Close, Teardown
    <3>3. NoPanic => NoPanic'
      BY <3>2 DEF NoPanic, TypeOK
    <3> QED BY <1>1, <3>1, <3>3
  <2> QED BY <2>1, <2>2
<1>3. ASSUME NEW w \in Workers, Work(w) PROVE UNCHANGED <<ingestClosed, shut, ctxDone, handler>>
  BY <1>3 DEF Work, TakeJob, WorkerStop, Decide, WriteIndex, ProcessFails, Evict
<1>4. CASE Run \/ UNCHANGED vars \/ \E u \in Users : ConsentChange(u) \/ IndexEntryGone(u)
  BY <1>1, <1>4 DEF Run, ConsentChange, IndexEntryGone, vars
<1>5. CASE Shutdown \/ Signal
  <2>1. handler' = handler
    BY <1>5 DEF Shutdown, ShutdownBroadcast, ShutdownCloseIngest, ShutdownReturn,
       ShutdownDeadline, Signal
  <2>2. NoPanic' <=> NoPanic
    BY <2>1 DEF NoPanic
  <2> QED BY <1>5, <2>2 DEF Shutdown, ShutdownBroadcast, ShutdownCloseIngest, ShutdownReturn,
       ShutdownDeadline, Signal
<1> QED BY <1>1, <1>2, <1>3, <1>4, <1>5 DEF Next, Environment

-----------------------------------------------------------------------------

IInv == /\ TypeOK /\ RegisteredIsServed /\ CountInv /\ ShutdownWaits
        /\ LinkInv /\ PhaseInv

LEMMA Inductive == Spec => []IInv
<1>1. Init => IInv
  <2> SUFFICES ASSUME Init PROVE IInv
    OBVIOUS
  <2>1. Unfinished = Workers
    BY DEF Init, Unfinished
  <2>2. wg \in Nat /\ CountInv
    BY <2>1, HubAssumption, FS_CardinalityType DEF Init, InitialCount, CountInv
  <2>3. ingest \in Seq(Conns) /\ Len(ingest) <= IngestBuffer
    BY HubAssumption DEF Init
  <2>4. TypeOK
    BY <2>2, <2>3, HubAssumption DEF Init, TypeOK
  <2>5. LinkInv /\ PhaseInv
    BY HubAssumption DEF Init, LinkInv, PhaseInv, CutOff, NoPanic
  <2> QED BY <2>2, <2>4, <2>5 DEF Init, IInv, RegisteredIsServed, ShutdownWaits
<1>2. IInv /\ [Next]_vars => IInv'
  BY TypeStep, RegistryStep, CountStep, LinkStep, PhaseStep DEF IInv
<1> QED BY <1>1, <1>2, PTL DEF Spec

\* Types; a worker holds a job exactly while it is processing one.
THEOREM HubTyped == Spec => []TypeOK
<1>1. IInv => TypeOK
  BY DEF IInv
<1> QED BY <1>1, Inductive, PTL

\* However many connections of one user overlap, the registry names none that
\* its handler has finished with.
THEOREM RegistryIsServed == Spec => []RegisteredIsServed
<1>1. IInv => RegisteredIsServed
  BY DEF IInv
<1> QED BY <1>1, Inductive, PTL

\* And it loses none that is read: Unregister, whichever of the user's
\* connections runs it and however late, removes no connection but its own.
THEOREM RegistryKeepsLatest == Spec => LatestStaysRegistered
<1> DEFINE Kept(c) == conns[Owner[c]] = c /\ handler'[c] = "reading" =>
                        conns'[Owner[c]] = c \/ \E d \in Conns : ReplacedBy(c, d)
<1>1. IInv /\ [Next]_vars => \A c \in Conns : Kept(c)
  <2> SUFFICES ASSUME IInv, [Next]_vars, NEW c \in Conns,
                      conns[Owner[c]] = c, handler'[c] = "reading"
               PROVE  conns'[Owner[c]] = c \/ \E d \in Conns : ReplacedBy(c, d)
    OBVIOUS
  <2>t. /\ handler \in [Conns -> {"new", "upgrading", "reading", "leaving", "closing", "done",
                                   "panicked"}]
        /\ conns \in [Users -> Conns \cup {None}] /\ Owner \in [Conns -> Users]
    BY HubAssumption DEF IInv, TypeOK
  <2>1. \/ conns' = conns
        \/ \E d \in Conns : Register(d) \/ Unregister(d)
    BY DEF Next, Serve, Handshake, Enqueue, EnqueuePanics, Disconnect, Close, Teardown, Run, Work,
       TakeJob, WorkerStop, Decide, WriteIndex, ProcessFails, Evict, Shutdown, ShutdownBroadcast,
       ShutdownCloseIngest, ShutdownReturn, ShutdownDeadline, Environment, Signal, ConsentChange,
       IndexEntryGone, vars, connVars
  <2>2. ASSUME NEW d \in Conns, Register(d)
        PROVE  conns'[Owner[c]] = c \/ ReplacedBy(c, d)
    BY <2>2, <2>t DEF Register, ReplacedBy
  <2>3. ASSUME NEW d \in Conns, Unregister(d) PROVE conns'[Owner[c]] = c
    <3>1. d # c
      BY <2>3, <2>t DEF Unregister
    <3> QED BY <2>3, <2>t, <3>1 DEF Unregister, Forget
  <2> QED BY <2>1, <2>2, <2>3
<1> QED BY <1>1, Inductive, PTL DEF Spec, LatestStaysRegistered

\* Shutdown returns in time only when the whole pool has returned, whatever the
\* size of the pool and whenever Run is scheduled.
THEOREM ShutdownWaitsForPool == Spec => []ShutdownWaits
<1>1. IInv => ShutdownWaits
  BY DEF IInv
<1> QED BY <1>1, Inductive, PTL

\* A connection that is closed is never opened again, and the one whose frame
\* met a lost consent is closed when its worker has drained it (process, Close):
\* the eviction cannot miss a transport that is still to be opened.
EvictionLands ==
  \A c \in Conns :
    /\ CutOff(c) => CutOff(c)'
    /\ \A w \in Workers : job[w] = c /\ Evict(w) => CutOff(c)'
THEOREM EvictedStayOut == Spec => [][EvictionLands]_vars
<1>1. IInv /\ [Next]_vars => EvictionLands
  <2> SUFFICES ASSUME IInv, [Next]_vars PROVE EvictionLands
    OBVIOUS
  <2>1. ASSUME NEW c \in Conns, CutOff(c) PROVE CutOff(c)'
    BY <2>1, LinkMoves DEF IInv
  <2>2. ASSUME NEW c \in Conns, NEW w \in Workers, job[w] = c, Evict(w) PROVE CutOff(c)'
    <3>1. link[c] \in {"open", "closing", "down"} /\ link \in [Conns -> {"none", "open", "closing", "down"}]
      BY <2>2, HubAssumption DEF IInv, TypeOK, LinkInv
    <3> QED BY <2>2, <3>1 DEF Evict, CutOff
  <2> QED BY <2>1, <2>2 DEF EvictionLands
<1> QED BY <1>1, Inductive, PTL DEF Spec

\* Nothing a handler opened outlives it: where ServeHTTP has returned, the
\* transport is closed. A handler that panicked is the exception.
ReturnedIsCutOff == \A c \in Conns : handler[c] = "done" => CutOff(c)
THEOREM ReturnedAreCutOff == Spec => []ReturnedIsCutOff
<1>1. IInv => ReturnedIsCutOff
  BY DEF IInv, LinkInv, ReturnedIsCutOff
<1> QED BY <1>1, Inductive, PTL

\* The panic of enqueue is one of the shutdown: without a signal there is
\* none, and before Shutdown has closed the channel there is none either.
PanicIsLate == NoPanic \/ (ctxDone /\ ingestClosed)
THEOREM PanicsAreLate == Spec => []PanicIsLate
<1>1. IInv => PanicIsLate
  BY DEF IInv, PhaseInv, PanicIsLate
<1> QED BY <1>1, Inductive, PTL
=============================================================================
