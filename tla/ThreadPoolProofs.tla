--------------------------- MODULE ThreadPoolProofs ---------------------------
(***************************************************************************)
(* Jobs are conserved, an idle pool has run them all and no wake-up is     *)
(* lost, for any number of workers, producers and calls and any depth of   *)
(* the queue.                                                              *)
(***************************************************************************)
EXTENDS ThreadPool, FiniteSetTheorems, SequenceTheorems, TLAPS

(* A call that has begun has a number, and a worker that holds a job shows *)
(* it in isBusyArray.                                                      *)
CallBegun == \A p \in Producers : ppc[p] # "ready" => made[p] \in 1..Calls
JobHeld == \A w \in Workers : Holding(w) => job[w] \in Job /\ busy[w]

TypeInv == TypeOK /\ CallBegun /\ JobHeld

(* No job is queued twice, and the job of a call is new until it is pushed. *)
QueueDistinct == \A i, k \in DOMAIN jobs : i # k => jobs[i] # jobs[k]
CallNew == \A p \in Producers, n \in 1..Calls : <<p, n>> \in accepted =>
  n <= made[p] /\ (ppc[p] \in {"lock", "asleep"} => n < made[p])

(* Stop raises the flag and discards the queue in one critical section.    *)
StopOrder ==
  /\ terminate <=> mpc \in {"wakeWorkers", "wakeCallers", "join", "stopped"}
  /\ ~terminate => dropped = {}

PoolInv == TypeInv /\ QueueDistinct /\ CallNew /\ StopOrder /\ JobsConserved

-----------------------------------------------------------------------------
(* Sequences without repetition, threads that are woken. *)

(* The constants.                                                          *)
LEMMA Basics ==
  /\ IsFiniteSet(Workers) /\ IsFiniteSet(Producers) /\ Calls \in Nat /\ MaxQueue \in Nat \ {0}
BY PoolAssumption

(* Taking the head of a queue without repetitions removes it. *)
LEMMA TakeHead ==
  ASSUME NEW S, NEW q \in Seq(S), q # <<>>,
         \A i, k \in DOMAIN q : i # k => q[i] # q[k]
  PROVE  /\ Head(q) \in S /\ Tail(q) \in Seq(S) /\ Len(Tail(q)) = Len(q) - 1
         /\ \A i, k \in DOMAIN Tail(q) : i # k => Tail(q)[i] # Tail(q)[k]
         /\ Head(q) \in {q[i] : i \in DOMAIN q}
         /\ {Tail(q)[i] : i \in DOMAIN Tail(q)} = {q[i] : i \in DOMAIN q} \ {Head(q)}
<1>1. /\ Head(q) \in S /\ Tail(q) \in Seq(S) /\ Len(Tail(q)) = Len(q) - 1
      /\ \A i \in 1..Len(Tail(q)) : Tail(q)[i] = q[i + 1]
  BY HeadTailProperties
<1>2. Len(q) \in Nat \ {0} /\ DOMAIN q = 1..Len(q) /\ DOMAIN Tail(q) = 1..Len(q) - 1
  BY <1>1, EmptySeq, LenProperties
<1>3. Head(q) = q[1] /\ 1 \in DOMAIN q
  BY <1>2
<1>4. \A i, k \in DOMAIN Tail(q) : i # k => Tail(q)[i] # Tail(q)[k]
  BY <1>1, <1>2
<1>5. {Tail(q)[i] : i \in DOMAIN Tail(q)} = {q[i] : i \in DOMAIN q} \ {q[1]}
  <2>1. ASSUME NEW i \in DOMAIN Tail(q)
        PROVE  Tail(q)[i] \in {q[k] : k \in DOMAIN q} \ {q[1]}
    BY <1>1, <1>2
  <2>2. ASSUME NEW i \in DOMAIN q, q[i] # q[1]
        PROVE  q[i] \in {Tail(q)[k] : k \in DOMAIN Tail(q)}
    <3>1. i - 1 \in DOMAIN Tail(q) /\ Tail(q)[i - 1] = q[i]
      BY <1>1, <1>2, <2>2
    <3> QED BY <3>1
  <2> QED BY <2>1, <2>2
<1>6. Head(q) \in {q[i] : i \in DOMAIN q}
  BY <1>3
<1> QED BY <1>1, <1>3, <1>4, <1>5, <1>6

(* Pushing a new job adds it and repeats nothing. *)
LEMMA AppendNew ==
  ASSUME NEW S, NEW q \in Seq(S), NEW x \in S,
         \A i, k \in DOMAIN q : i # k => q[i] # q[k],
         x \notin {q[i] : i \in DOMAIN q}
  PROVE  /\ Append(q, x) \in Seq(S) /\ Len(Append(q, x)) = Len(q) + 1
         /\ \A i, k \in DOMAIN Append(q, x) : i # k => Append(q, x)[i] # Append(q, x)[k]
         /\ {Append(q, x)[i] : i \in DOMAIN Append(q, x)} = {q[i] : i \in DOMAIN q} \cup {x}
<1>1. /\ Append(q, x) \in Seq(S) /\ Len(Append(q, x)) = Len(q) + 1 /\ Len(q) \in Nat
      /\ DOMAIN q = 1..Len(q) /\ DOMAIN Append(q, x) = 1..Len(q) + 1
      /\ \A i \in 1..Len(q) : Append(q, x)[i] = q[i]
      /\ Append(q, x)[Len(q) + 1] = x
  BY LenProperties
<1>2. \A i \in DOMAIN Append(q, x) : i \in DOMAIN q \/ i = Len(q) + 1
  BY <1>1
<1>3. \A i, k \in DOMAIN Append(q, x) : i # k => Append(q, x)[i] # Append(q, x)[k]
  BY <1>1, <1>2
<1>4. {Append(q, x)[i] : i \in DOMAIN Append(q, x)} = {q[i] : i \in DOMAIN q} \cup {x}
  <2>1. ASSUME NEW i \in DOMAIN Append(q, x)
        PROVE  Append(q, x)[i] \in {q[k] : k \in DOMAIN q} \cup {x}
    BY <1>1, <1>2
  <2>2. ASSUME NEW i \in DOMAIN q
        PROVE  q[i] \in {Append(q, x)[k] : k \in DOMAIN Append(q, x)}
    <3>1. i \in DOMAIN Append(q, x) /\ Append(q, x)[i] = q[i]
      BY <1>1
    <3> QED BY <3>1
  <2>3. x \in {Append(q, x)[k] : k \in DOMAIN Append(q, x)}
    <3>1. Len(q) + 1 \in DOMAIN Append(q, x) /\ Append(q, x)[Len(q) + 1] = x
      BY <1>1
    <3> QED BY <3>1
  <2> QED BY <2>1, <2>2, <2>3
<1> QED BY <1>1, <1>3, <1>4

(* notify_one wakes one thread, or there was none to wake. *)
LEMMA WakeOne ==
  ASSUME NEW T, NEW P, NEW pc \in [T -> P], NEW next, NotifyOne(pc, next)
  PROVE  \/ next = pc /\ Asleep(pc) = {}
         \/ \E t \in T : pc[t] = "asleep" /\ next = [pc EXCEPT ![t] = "lock"]
BY DEF NotifyOne, Asleep

-----------------------------------------------------------------------------
(* Types. *)

(* The types of the initial state.                                         *)
LEMMA TypeInit == Init => TypeInv
<1> SUFFICES ASSUME Init PROVE TypeInv
  OBVIOUS
<1> USE Basics DEF Init
<1>1. jobs \in Seq(Job) /\ Len(jobs) <= MaxQueue
  BY EmptySeq
<1>2. /\ busy \in [Workers -> BOOLEAN] /\ started \in BOOLEAN /\ terminate \in BOOLEAN
      /\ job \in [Workers -> Job \cup {NoJob}]
  OBVIOUS
<1>3. made \in [Producers -> 0..Calls]
  OBVIOUS
<1>4. /\ wpc \in [Workers -> WorkerPlaces] /\ ppc \in [Producers -> CallerPlaces]
      /\ mpc \in MainPlaces /\ answer \in {"none", "idle", "busy"}
  BY DEF WorkerPlaces, CallerPlaces, MainPlaces
<1>5. CallBegun /\ JobHeld
  BY DEF CallBegun, JobHeld, Holding
<1> QED BY <1>1, <1>2, <1>3, <1>4, <1>5 DEF TypeInv, TypeOK

(* The variables in three groups, so that a step need only be looked at for *)
(* those it writes.                                                        *)
QueueType ==
  /\ jobs \in Seq(Job) /\ Len(jobs) <= MaxQueue
  /\ accepted \subseteq Job /\ ran \subseteq Job /\ dropped \subseteq Job
WorkerType ==
  /\ busy \in [Workers -> BOOLEAN] /\ wpc \in [Workers -> WorkerPlaces]
  /\ job \in [Workers -> Job \cup {NoJob}] /\ JobHeld
CallerType ==
  ppc \in [Producers -> CallerPlaces] /\ made \in [Producers -> 0..Calls] /\ CallBegun
MainType ==
  /\ started \in BOOLEAN /\ terminate \in BOOLEAN
  /\ mpc \in MainPlaces /\ answer \in {"none", "idle", "busy"}

(* The types are those of the queue, the workers, the callers and main.    *)
LEMMA TypeGroups == TypeInv <=> QueueType /\ WorkerType /\ CallerType /\ MainType
BY DEF TypeInv, TypeOK, QueueType, WorkerType, CallerType, MainType

(* Each step keeps the types of the queue,                                 *)
LEMMA QueueTypeStep == TypeInv /\ QueueDistinct /\ [Next]_vars => QueueType'
<1> SUFFICES ASSUME TypeInv, QueueDistinct, [Next]_vars PROVE QueueType'
  OBVIOUS
<1> USE Basics DEF QueueType, QueueDistinct
<1>1. QueueType
  BY TypeGroups
<1>2. ASSUME UNCHANGED <<jobs, accepted, ran, dropped>> PROVE QueueType'
  BY <1>1, <1>2
<1>3. ASSUME NEW w \in Workers, TakeJob(w) PROVE QueueType'
  <2>1. Len(jobs) \in Nat
    BY <1>1, LenProperties
  <2> QED BY <1>1, <1>3, <2>1, TakeHead DEF TakeJob
<1>4. ASSUME NEW w \in Workers, RunJob(w) PROVE QueueType'
  BY <1>1, <1>4 DEF RunJob, TypeInv, JobHeld, Holding, poolVars
<1>5. ASSUME NEW p \in Producers, Push(p) PROVE QueueType'
  <2>1. <<p, made[p]>> \in Job
    BY <1>5 DEF Push, TypeInv, CallBegun, Job
  <2>2. jobs' \in Seq(Job) /\ Len(jobs') = Len(jobs) + 1 /\ Len(jobs) \in Nat
    BY <1>1, <1>5, <2>1, LenProperties DEF Push
  <2>3. Len(jobs') <= MaxQueue
    BY <1>5, <2>2 DEF Push
  <2> QED BY <1>1, <1>5, <2>1, <2>2, <2>3 DEF Push, workerVars
<1>6. CASE Discard
  <2>1. {jobs[i] : i \in DOMAIN jobs} \subseteq Job
    BY <1>1, LenProperties, ElementOfSeq
  <2>2. jobs' \in Seq(Job) /\ Len(jobs') <= MaxQueue
    BY <1>6, EmptySeq DEF Discard
  <2> QED BY <1>1, <1>6, <2>1, <2>2 DEF Discard, workerVars
<1> QED BY <1>2, <1>3, <1>4, <1>5, <1>6
  DEF Next, Worker, ClearBusy, Sleep, Exit, NotifyNotFull, SpuriousWake, Spawn, BeginCall,
      Caller, WaitNotFull, Refuse, NotifyWorker, SpuriousWakeCaller, Main, StartDone, AskBusy,
      AnswerBusy, BeginStop, Stopping, WakeWorkers, WakeCallers, JoinAll, vars, poolVars,
      workerVars

(* of the workers,                                                         *)
LEMMA WorkerTypeStep == TypeInv /\ QueueDistinct /\ [Next]_vars => WorkerType'
<1> SUFFICES ASSUME TypeInv, QueueDistinct, [Next]_vars PROVE WorkerType'
  OBVIOUS
<1> USE DEF WorkerType, JobHeld, Holding, WorkerPlaces, WorkerGoto
<1>1. WorkerType
  BY TypeGroups
<1>2. ASSUME UNCHANGED <<busy, wpc, job>> PROVE WorkerType'
  BY <1>1, <1>2
<1>3. ASSUME NEW w \in Workers, ClearBusy(w) PROVE WorkerType'
  BY <1>1, <1>3 DEF ClearBusy
<1>4. ASSUME NEW w \in Workers, Sleep(w) \/ Exit(w) \/ SpuriousWake(w) \/ Spawn(w)
      PROVE  WorkerType'
  BY <1>1, <1>4 DEF Sleep, Exit, SpuriousWake, Spawn, poolVars
<1>5. ASSUME NEW w \in Workers, TakeJob(w) PROVE WorkerType'
  <2>1. Head(jobs) \in Job
    BY <1>5, TypeGroups, TakeHead DEF TakeJob, QueueType, QueueDistinct
  <2> QED BY <1>1, <1>5, <2>1 DEF TakeJob
<1>6. ASSUME NEW w \in Workers, NotifyNotFull(w) PROVE WorkerType'
  BY <1>1, <1>6 DEF NotifyNotFull, poolVars
<1>7. ASSUME NEW w \in Workers, RunJob(w) PROVE WorkerType'
  BY <1>1, <1>7 DEF RunJob, poolVars
<1>8. ASSUME NEW p \in Producers, NotifyWorker(p) PROVE WorkerType'
  <2>1. /\ wpc' \in [Workers -> WorkerPlaces]
        /\ \A w \in Workers : wpc'[w] = wpc[w] \/ wpc'[w] = "lock"
    BY <1>1, <1>8 DEF NotifyWorker, NotifyOne, Asleep
  <2> QED BY <1>1, <1>8, <2>1 DEF NotifyWorker, poolVars
<1>9. CASE WakeWorkers
  <2>1. /\ wpc' \in [Workers -> WorkerPlaces]
        /\ \A w \in Workers : wpc'[w] = wpc[w] \/ wpc'[w] = "lock"
    BY <1>1, <1>9 DEF WakeWorkers, NotifyAll
  <2> QED BY <1>1, <1>9, <2>1 DEF WakeWorkers, poolVars
<1> QED BY <1>2, <1>3, <1>4, <1>5, <1>6, <1>7, <1>8, <1>9
  DEF Next, Worker, BeginCall, Caller, WaitNotFull, Refuse, Push, SpuriousWakeCaller, Main,
      StartDone, AskBusy, AnswerBusy, BeginStop, Stopping, Discard, WakeCallers, JoinAll, vars,
      poolVars, workerVars

(* of the callers,                                                         *)
LEMMA CallerTypeStep == TypeInv /\ [Next]_vars => CallerType'
<1> SUFFICES ASSUME TypeInv, [Next]_vars PROVE CallerType'
  OBVIOUS
<1> USE Basics DEF CallerType, CallBegun, CallerPlaces, CallerGoto
<1>1. CallerType
  BY TypeGroups
<1>2. ASSUME UNCHANGED callerVars PROVE CallerType'
  BY <1>1, <1>2 DEF callerVars
<1>3. ASSUME NEW p \in Producers, BeginCall(p) PROVE CallerType'
  <2>1. made[p] + 1 \in 1..Calls
    BY <1>1, <1>3 DEF BeginCall
  <2> QED BY <1>1, <1>3, <2>1 DEF BeginCall
<1>4. ASSUME NEW p \in Producers, ppc[p] # "ready", UNCHANGED made,
             \E place \in CallerPlaces : CallerGoto(p, place)
      PROVE  CallerType'
  BY <1>1, <1>4
<1>5. ASSUME \/ \E w \in Workers : NotifyNotFull(w)
             \/ WakeCallers
      PROVE  CallerType'
  <2>1. /\ ppc' \in [Producers -> CallerPlaces] /\ made' = made
        /\ \A p \in Producers : ppc'[p] = ppc[p] \/ (ppc[p] = "asleep" /\ ppc'[p] = "lock")
    BY <1>1, <1>5 DEF NotifyNotFull, NotifyOne, Asleep, WakeCallers, NotifyAll
  <2> QED BY <1>1, <2>1
<1>6. ASSUME NEW p \in Producers, Caller(p) \/ SpuriousWakeCaller(p) PROVE CallerType'
  BY <1>4, <1>6 DEF Caller, WaitNotFull, Refuse, Push, NotifyWorker, SpuriousWakeCaller
<1>7. CASE Main
  BY <1>2, <1>5, <1>7 DEF Main, StartDone, AskBusy, AnswerBusy, BeginStop, Stopping, Discard,
     WakeWorkers, JoinAll
<1>8. ASSUME NEW w \in Workers, Worker(w) \/ SpuriousWake(w) \/ Spawn(w) PROVE CallerType'
  BY <1>2, <1>5, <1>8 DEF Worker, ClearBusy, Sleep, Exit, TakeJob, RunJob, SpuriousWake, Spawn
<1>9. CASE UNCHANGED vars
  BY <1>2, <1>9 DEF vars
<1> QED BY <1>3, <1>6, <1>7, <1>8, <1>9 DEF Next

(* and of the main thread,                                                 *)
LEMMA MainTypeStep == TypeInv /\ [Next]_vars => MainType'
<1> SUFFICES ASSUME TypeInv, [Next]_vars PROVE MainType'
  OBVIOUS
<1> USE DEF MainType, MainPlaces
<1>1. MainType
  BY TypeGroups
<1>2. ASSUME UNCHANGED <<started, terminate, mpc, answer>> PROVE MainType'
  BY <1>1, <1>2
<1>3. CASE StartDone \/ AskBusy \/ AnswerBusy \/ BeginStop
  BY <1>1, <1>3 DEF StartDone, AskBusy, AnswerBusy, BeginStop, poolVars
<1>4. CASE Discard
  BY <1>1, <1>4 DEF Discard
<1>5. CASE WakeWorkers \/ WakeCallers \/ JoinAll
  BY <1>1, <1>5 DEF WakeWorkers, WakeCallers, JoinAll, poolVars
<1> QED BY <1>2, <1>3, <1>4, <1>5
  DEF Next, Worker, ClearBusy, Sleep, Exit, TakeJob, NotifyNotFull, RunJob, SpuriousWake, Spawn,
      BeginCall, Caller, WaitNotFull, Refuse, Push, NotifyWorker, SpuriousWakeCaller, Main,
      Stopping, vars, poolVars, mainVars

(* so all types.                                                           *)
LEMMA TypeStep == TypeInv /\ QueueDistinct /\ [Next]_vars => TypeInv'
BY QueueTypeStep, WorkerTypeStep, CallerTypeStep, MainTypeStep
   DEF TypeInv, TypeOK, QueueType, WorkerType, CallerType, MainType

-----------------------------------------------------------------------------
(* The life of a job: queued, held by one worker, run or discarded. *)

(* The pool starts in its invariant.                                       *)
LEMMA PoolInit == Init => PoolInv
<1> SUFFICES ASSUME Init PROVE PoolInv
  OBVIOUS
<1>1. jobs = <<>> /\ DOMAIN jobs = {}
  BY DEF Init
<1>2. QueueDistinct /\ CallNew /\ StopOrder
  BY <1>1 DEF Init, QueueDistinct, CallNew, StopOrder
<1>3. Queued = {} /\ \A w \in Workers : ~Holding(w)
  BY <1>1 DEF Init, Queued, Holding
<1>4. JobsConserved
  BY <1>1, <1>3 DEF Init, JobsConserved
<1> QED BY <1>2, <1>4, TypeInit DEF PoolInv

(* A worker leaves only a pool that was told to stop.                      *)
LEMMA StopOrderStep ==
  ASSUME TypeInv, StopOrder, [Next]_vars PROVE StopOrder'
<1> USE DEF StopOrder
<1>1. CASE StartDone \/ AskBusy \/ AnswerBusy \/ BeginStop
  BY <1>1 DEF StartDone, AskBusy, AnswerBusy, BeginStop, poolVars
<1>2. CASE Discard
  BY <1>2 DEF Discard
<1>3. CASE WakeWorkers \/ WakeCallers \/ JoinAll
  BY <1>3 DEF WakeWorkers, WakeCallers, JoinAll, poolVars
<1>4. CASE UNCHANGED <<terminate, mpc, dropped>>
  BY <1>4
<1> QED BY <1>1, <1>2, <1>3, <1>4
  DEF Next, Worker, ClearBusy, Sleep, Exit, TakeJob, NotifyNotFull, RunJob, SpuriousWake, Spawn,
      BeginCall, Caller, WaitNotFull, Refuse, Push, NotifyWorker, SpuriousWakeCaller, Main,
      Stopping, vars, poolVars, mainVars

(* A caller never brings a job the pool has seen.                          *)
LEMMA CallNewStep ==
  ASSUME TypeInv, CallNew, [Next]_vars PROVE CallNew'
<1> USE Basics DEF CallNew, CallerGoto
<1>1. CallerType
  BY TypeGroups
<1>2. ASSUME UNCHANGED <<accepted, made>>,
             \A p \in Producers : ppc'[p] \in {"lock", "asleep"} => ppc[p] \in {"lock", "asleep"}
      PROVE  CallNew'
  BY <1>2
<1>3. ASSUME NEW p \in Producers, BeginCall(p) PROVE CallNew'
  BY <1>1, <1>3 DEF BeginCall, poolVars, CallerType
<1>4. ASSUME NEW p \in Producers, Push(p) PROVE CallNew'
  BY <1>1, <1>4 DEF Push, CallerType, CallBegun
<1>5. ASSUME NEW p \in Producers,
             WaitNotFull(p) \/ Refuse(p) \/ NotifyWorker(p) \/ SpuriousWakeCaller(p)
      PROVE  CallNew'
  BY <1>1, <1>5 DEF WaitNotFull, Refuse, NotifyWorker, SpuriousWakeCaller, poolVars, CallerType
<1>6. ASSUME (\E w \in Workers : NotifyNotFull(w)) \/ WakeCallers PROVE CallNew'
  BY <1>1, <1>2, <1>6
     DEF NotifyNotFull, NotifyOne, Asleep, WakeCallers, NotifyAll, poolVars, CallerType
<1>7. CASE UNCHANGED <<accepted, made, ppc>>
  BY <1>2, <1>7
<1> QED BY <1>3, <1>4, <1>5, <1>6, <1>7
  DEF Next, Worker, ClearBusy, Sleep, Exit, TakeJob, RunJob, SpuriousWake, Spawn, Caller, Main,
      StartDone, AskBusy, AnswerBusy, BeginStop, Stopping, Discard, WakeWorkers, JoinAll, vars,
      poolVars, callerVars

Held == {job[w] : w \in {v \in Workers : Holding(v)}}

(* Steps that move no job: nobody begins or ends to hold one. *)
LEMMA NoJobMoves ==
  ASSUME JobsConserved, QueueDistinct,
         UNCHANGED <<jobs, job, accepted, ran, dropped, terminate>>,
         \A w \in Workers : Holding(w)' <=> Holding(w)
  PROVE  JobsConserved' /\ QueueDistinct'
<1>1. Queued' = Queued /\ Held' = Held
  BY DEF Queued, Held
<1> QED BY <1>1 DEF JobsConserved, QueueDistinct, Held

(* A job that is taken moves from the queue to its worker,                 *)
LEMMA TakeJobMoves ==
  ASSUME PoolInv, NEW w \in Workers, TakeJob(w)
  PROVE  JobsConserved' /\ QueueDistinct'
<1>1. /\ jobs \in Seq(Job) /\ jobs # <<>> /\ job \in [Workers -> Job \cup {NoJob}]
      /\ wpc \in [Workers -> WorkerPlaces] /\ wpc[w] = "lock" /\ ~terminate /\ ~terminate'
      /\ UNCHANGED <<accepted, ran, dropped>>
      /\ \A i, k \in DOMAIN jobs : i # k => jobs[i] # jobs[k]
  BY DEF TakeJob, PoolInv, TypeInv, TypeOK, QueueDistinct
<1>2. /\ jobs' = Tail(jobs) /\ job'[w] = Head(jobs) /\ Holding(w)' /\ ~Holding(w)
      /\ \A v \in Workers \ {w} : job'[v] = job[v] /\ (Holding(v)' <=> Holding(v))
  BY <1>1 DEF TakeJob, WorkerGoto, Holding
<1>3. /\ \A i, k \in DOMAIN jobs' : i # k => jobs'[i] # jobs'[k]
      /\ Head(jobs) \in Queued /\ Queued' = Queued \ {Head(jobs)}
  <2>1. Queued' = {Tail(jobs)[i] : i \in DOMAIN Tail(jobs)}
    BY <1>2 DEF Queued
  <2>2. /\ \A i, k \in DOMAIN Tail(jobs) : i # k => Tail(jobs)[i] # Tail(jobs)[k]
        /\ Head(jobs) \in Queued
        /\ {Tail(jobs)[i] : i \in DOMAIN Tail(jobs)} = Queued \ {Head(jobs)}
    BY <1>1, TakeHead DEF Queued
  <2> QED BY <1>2, <2>1, <2>2
<1>4. Held' = Held \cup {Head(jobs)}
  BY <1>2 DEF Held
<1>5. /\ accepted = Queued \cup Held \cup ran \cup dropped
      /\ Queued \cap (ran \cup dropped) = {} /\ ran \cap dropped = {}
      /\ \A v \in Workers : Holding(v) => job[v] \notin Queued \cup ran \cup dropped
      /\ \A u, v \in Workers : u # v /\ Holding(u) /\ Holding(v) => job[u] # job[v]
  BY DEF PoolInv, JobsConserved, Held
<1>6. accepted' = Queued' \cup Held' \cup ran' \cup dropped'
  BY <1>1, <1>3, <1>4, <1>5
<1>7. Queued' \cap (ran' \cup dropped') = {} /\ ran' \cap dropped' = {}
  BY <1>1, <1>3, <1>5
<1>8. \A v \in Workers : Holding(v)' => job'[v] \notin Queued' \cup ran' \cup dropped'
  BY <1>1, <1>2, <1>3, <1>5
<1>9. \A u, v \in Workers : u # v /\ Holding(u)' /\ Holding(v)' => job'[u] # job'[v]
  BY <1>2, <1>3, <1>5
<1>10. JobsConserved'
  BY <1>1, <1>6, <1>7, <1>8, <1>9 DEF JobsConserved, Held
<1> QED BY <1>3, <1>10 DEF QueueDistinct

(* from its worker to the ones done,                                       *)
LEMMA RunJobMoves ==
  ASSUME PoolInv, NEW w \in Workers, RunJob(w)
  PROVE  JobsConserved' /\ QueueDistinct'
<1>1. /\ job \in [Workers -> Job \cup {NoJob}] /\ wpc \in [Workers -> WorkerPlaces]
      /\ jobs' = jobs /\ accepted' = accepted /\ dropped' = dropped /\ terminate' = terminate
      /\ ran' = ran \cup {job[w]}
  BY DEF RunJob, PoolInv, TypeInv, TypeOK, poolVars
<1>2. /\ Holding(w) /\ ~Holding(w)'
      /\ \A v \in Workers \ {w} : job'[v] = job[v] /\ (Holding(v)' <=> Holding(v))
  BY <1>1 DEF RunJob, WorkerGoto, Holding
<1>3. Queued' = Queued
  BY <1>1 DEF Queued
<1>4. /\ accepted = Queued \cup Held \cup ran \cup dropped
      /\ Queued \cap (ran \cup dropped) = {} /\ ran \cap dropped = {}
      /\ \A v \in Workers : Holding(v) => job[v] \notin Queued \cup ran \cup dropped
      /\ \A u, v \in Workers : u # v /\ Holding(u) /\ Holding(v) => job[u] # job[v]
      /\ terminate => jobs = <<>>
  BY DEF PoolInv, JobsConserved, Held
<1>5. Held = Held' \cup {job[w]}
  BY <1>2 DEF Held
<1>6. accepted' = Queued' \cup Held' \cup ran' \cup dropped'
  BY <1>1, <1>3, <1>4, <1>5
<1>7. Queued' \cap (ran' \cup dropped') = {} /\ ran' \cap dropped' = {}
  BY <1>1, <1>2, <1>3, <1>4
<1>8. \A v \in Workers : Holding(v)' => job'[v] \notin Queued' \cup ran' \cup dropped'
  BY <1>1, <1>2, <1>3, <1>4
<1>9. \A u, v \in Workers : u # v /\ Holding(u)' /\ Holding(v)' => job'[u] # job'[v]
  BY <1>2, <1>4
<1>10. JobsConserved'
  BY <1>1, <1>4, <1>6, <1>7, <1>8, <1>9 DEF JobsConserved, Held
<1> QED BY <1>1, <1>10 DEF QueueDistinct, PoolInv

(* The job of a call under way is new, so pushing it duplicates nothing. *)
LEMMA PushMoves ==
  ASSUME PoolInv, NEW p \in Producers, Push(p)
  PROVE  JobsConserved' /\ QueueDistinct'
<1> DEFINE new == <<p, made[p]>>
<1>1. /\ jobs \in Seq(Job) /\ new \in Job /\ made[p] \in 1..Calls /\ ppc[p] = "lock"
      /\ ~terminate' /\ accepted' = accepted \cup {new} /\ UNCHANGED <<ran, dropped, wpc, job>>
      /\ jobs' = Append(jobs, new)
      /\ \A i, k \in DOMAIN jobs : i # k => jobs[i] # jobs[k]
  BY DEF Push, PoolInv, TypeInv, TypeOK, CallBegun, QueueDistinct, Job, workerVars
<1>2. new \notin accepted
  BY <1>1, Basics DEF PoolInv, CallNew
<1>3. /\ accepted = Queued \cup Held \cup ran \cup dropped
      /\ Queued \cap (ran \cup dropped) = {} /\ ran \cap dropped = {}
      /\ \A v \in Workers : Holding(v) => job[v] \notin Queued \cup ran \cup dropped
      /\ \A u, v \in Workers : u # v /\ Holding(u) /\ Holding(v) => job[u] # job[v]
  BY DEF PoolInv, JobsConserved, Held
<1>4. Held' = Held /\ \A v \in Workers : (Holding(v)' <=> Holding(v)) /\ job'[v] = job[v]
  BY <1>1 DEF Held, Holding
<1>5. /\ \A i, k \in DOMAIN jobs' : i # k => jobs'[i] # jobs'[k]
      /\ Queued' = Queued \cup {new}
  <2>1. new \notin {jobs[i] : i \in DOMAIN jobs}
    BY <1>2, <1>3 DEF Queued
  <2> HIDE DEF new
  <2> QED BY <1>1, <2>1, AppendNew DEF Queued
<1>6. accepted' = Queued' \cup Held' \cup ran' \cup dropped'
  BY <1>1, <1>3, <1>4, <1>5
<1>7. Queued' \cap (ran' \cup dropped') = {} /\ ran' \cap dropped' = {}
  BY <1>1, <1>2, <1>3, <1>5
<1>8. \A v \in Workers : Holding(v) => job[v] # new
  BY <1>2, <1>3 DEF Held
<1>9. \A v \in Workers : Holding(v)' => job'[v] \notin Queued' \cup ran' \cup dropped'
  BY <1>1, <1>3, <1>4, <1>5, <1>8
<1>10. \A u, v \in Workers : u # v /\ Holding(u)' /\ Holding(v)' => job'[u] # job'[v]
  BY <1>3, <1>4
<1>11. JobsConserved'
  BY <1>1, <1>6, <1>7, <1>9, <1>10 DEF JobsConserved, Held
<1> QED BY <1>5, <1>11 DEF QueueDistinct

(* or to the ones discarded; no job is copied or lost.                     *)
LEMMA DiscardMoves ==
  ASSUME PoolInv, Discard
  PROVE  JobsConserved' /\ QueueDistinct'
<1>1. /\ jobs' = <<>> /\ DOMAIN jobs' = {} /\ accepted' = accepted
      /\ UNCHANGED <<ran, wpc, job>> /\ dropped' = dropped \cup Queued
  BY DEF Discard, Queued, workerVars
<1>2. Queued' = {}
  BY <1>1 DEF Queued
<1>3. /\ accepted = Queued \cup Held \cup ran \cup dropped
      /\ Queued \cap (ran \cup dropped) = {} /\ ran \cap dropped = {}
      /\ \A v \in Workers : Holding(v) => job[v] \notin Queued \cup ran \cup dropped
      /\ \A u, v \in Workers : u # v /\ Holding(u) /\ Holding(v) => job[u] # job[v]
  BY DEF PoolInv, JobsConserved, Held
<1>4. Held' = Held /\ \A v \in Workers : (Holding(v)' <=> Holding(v)) /\ job'[v] = job[v]
  BY <1>1 DEF Held, Holding
<1>5. JobsConserved'
  BY <1>1, <1>2, <1>3, <1>4 DEF JobsConserved, Held
<1> QED BY <1>1, <1>5 DEF QueueDistinct

(* Every step keeps the invariant.                                         *)
LEMMA PoolStep == PoolInv /\ [Next]_vars => PoolInv'
<1> SUFFICES ASSUME PoolInv, [Next]_vars PROVE PoolInv'
  OBVIOUS
<1>1. TypeInv' /\ StopOrder' /\ CallNew'
  BY TypeStep, StopOrderStep, CallNewStep DEF PoolInv
<1>2. wpc \in [Workers -> WorkerPlaces]
  BY DEF PoolInv, TypeInv, TypeOK
<1> USE DEF PoolInv
<1>3. UNCHANGED <<poolVars, workerVars>> => JobsConserved' /\ QueueDistinct'
  BY NoJobMoves DEF poolVars, workerVars, Holding
<1>4. ASSUME NEW w \in Workers, Worker(w) PROVE JobsConserved' /\ QueueDistinct'
  <2>1. CASE ClearBusy(w) \/ Sleep(w) \/ Exit(w) \/ NotifyNotFull(w)
    <3>1. UNCHANGED <<jobs, job, accepted, ran, dropped, terminate>>
      BY <2>1 DEF ClearBusy, Sleep, Exit, NotifyNotFull, poolVars
    <3>2. \A v \in Workers : Holding(v)' <=> Holding(v)
      BY <1>2, <2>1 DEF ClearBusy, Sleep, Exit, NotifyNotFull, WorkerGoto, Holding
    <3> QED BY <3>1, <3>2, NoJobMoves
  <2> QED BY <1>4, <2>1, TakeJobMoves, RunJobMoves DEF Worker
<1>5. ASSUME NEW w \in Workers, SpuriousWake(w) \/ Spawn(w) PROVE JobsConserved' /\ QueueDistinct'
  <2>1. UNCHANGED <<jobs, job, accepted, ran, dropped, terminate>>
    BY <1>5 DEF SpuriousWake, Spawn, poolVars
  <2>2. \A v \in Workers : Holding(v)' <=> Holding(v)
    BY <1>2, <1>5 DEF SpuriousWake, Spawn, WorkerGoto, Holding
  <2> QED BY <2>1, <2>2, NoJobMoves
<1>6. ASSUME (\E p \in Producers : NotifyWorker(p)) \/ WakeWorkers
      PROVE  JobsConserved' /\ QueueDistinct'
  <2>1. UNCHANGED <<jobs, job, accepted, ran, dropped, terminate>>
    BY <1>6 DEF NotifyWorker, WakeWorkers, poolVars
  <2>2. \A v \in Workers : Holding(v)' <=> Holding(v)
    BY <1>2, <1>6 DEF NotifyWorker, WakeWorkers, NotifyOne, NotifyAll, Asleep, Holding
  <2> QED BY <2>1, <2>2, NoJobMoves
<1>7. ASSUME NEW p \in Producers, BeginCall(p) \/ Caller(p) \/ SpuriousWakeCaller(p)
      PROVE  JobsConserved' /\ QueueDistinct'
  BY <1>3, <1>6, <1>7, PushMoves
     DEF Caller, BeginCall, WaitNotFull, Refuse, SpuriousWakeCaller
<1>8. ASSUME Main PROVE JobsConserved' /\ QueueDistinct'
  <2>1. UNCHANGED <<poolVars, workerVars>> \/ Discard \/ WakeWorkers
    BY <1>8 DEF Main, StartDone, AskBusy, AnswerBusy, BeginStop, Stopping, WakeCallers, JoinAll
  <2> QED BY <1>3, <1>6, <2>1, DiscardMoves
<1>9. UNCHANGED vars => JobsConserved' /\ QueueDistinct'
  BY <1>3 DEF vars
<1>10. JobsConserved' /\ QueueDistinct'
  BY <1>4, <1>5, <1>7, <1>8, <1>9 DEF Next
<1> QED BY <1>1, <1>10

-----------------------------------------------------------------------------
(* Wake-ups, counted thread by thread. *)

One(a, b) == IF a = b THEN 1 ELSE 0

(* A thread that goes from one place to another changes two counts by one. *)
LEMMA CountMove ==
  ASSUME NEW T, IsFiniteSet(T), NEW pc, DOMAIN pc = T, NEW next, DOMAIN next = T,
         NEW t \in T, \A u \in T \ {t} : next[u] = pc[u], NEW place
  PROVE  /\ Count(pc, place) \in Nat
         /\ Count(next, place) = Count(pc, place) - One(pc[t], place) + One(next[t], place)
<1> DEFINE rest == {u \in T : pc[u] = place} \ {t}
           before == {u \in DOMAIN pc : pc[u] = place}
           after == {u \in DOMAIN next : next[u] = place}
<1>1. IsFiniteSet({u \in T : pc[u] = place})
  BY FS_Subset
<1>2. IsFiniteSet(rest) /\ t \notin rest
  BY <1>1, FS_RemoveElement
<1>3. before = IF pc[t] = place THEN rest \cup {t} ELSE rest
  OBVIOUS
<1>4. after = IF next[t] = place THEN rest \cup {t} ELSE rest
  OBVIOUS
<1> HIDE DEF rest, before, after
<1>5. Cardinality(rest) \in Nat /\ Cardinality(rest \cup {t}) = Cardinality(rest) + 1
  BY <1>2, FS_CardinalityType, FS_AddElement
<1>6. Cardinality(before) = Cardinality(rest) + One(pc[t], place)
  BY <1>3, <1>5 DEF One
<1>7. Cardinality(after) = Cardinality(rest) + One(next[t], place)
  BY <1>4, <1>5 DEF One
<1>8. Count(pc, place) = Cardinality(before) /\ Count(next, place) = Cardinality(after)
  BY DEF Count, before, after
<1> QED BY <1>5, <1>6, <1>7, <1>8 DEF One

(* A notification wakes somebody, or nobody sleeps. *)
LEMMA CountNotify ==
  ASSUME NEW T, IsFiniteSet(T), NEW P, NEW pc \in [T -> P], NEW next, NotifyOne(pc, next)
  PROVE  \/ Asleep(pc) = {} /\ Asleep(next) = {}
         \/ Asleep(pc) # {} /\ Count(next, "lock") = Count(pc, "lock") + 1
              /\ Count(next, "notify") = Count(pc, "notify")
<1>1. CASE Asleep(pc) # {}
  <2>1. PICK t \in T : pc[t] = "asleep" /\ next = [pc EXCEPT ![t] = "lock"]
    BY <1>1, WakeOne
  <2>2. DOMAIN next = T /\ next[t] = "lock" /\ \A u \in T \ {t} : next[u] = pc[u]
    BY <2>1
  <2>3. \A place : /\ Count(pc, place) \in Nat
                   /\ Count(next, place) = Count(pc, place) - One(pc[t], place) + One(next[t], place)
    BY <2>2, CountMove
  <2>4. /\ One(pc[t], "lock") = 0 /\ One(next[t], "lock") = 1
        /\ One(pc[t], "notify") = 0 /\ One(next[t], "notify") = 0
    BY <2>1, <2>2 DEF One
  <2>5. Count(next, "lock") = Count(pc, "lock") + 1 /\ Count(next, "notify") = Count(pc, "notify")
    BY <2>3, <2>4
  <2> QED BY <1>1, <2>5
<1>2. CASE Asleep(pc) = {}
  BY <1>2 DEF NotifyOne
<1> QED BY <1>1, <1>2

(* Where the threads can be.                                               *)
LEMMA PlaceTypes ==
  ASSUME TypeInv
  PROVE  /\ wpc \in [Workers -> WorkerPlaces] /\ DOMAIN wpc = Workers
         /\ ppc \in [Producers -> CallerPlaces] /\ DOMAIN ppc = Producers
         /\ Len(jobs) \in Nat /\ MaxQueue \in Nat
         /\ IsFiniteSet(Workers) /\ IsFiniteSet(Producers)
BY Basics, LenProperties DEF TypeInv, TypeOK

(* A worker goes somewhere; a producer does. *)
LEMMA WorkerGoes ==
  ASSUME TypeInv, NEW w \in Workers, NEW place, WorkerGoto(w, place)
  PROVE  /\ \A c : /\ Count(wpc, c) \in Nat
                   /\ Count(wpc', c) = Count(wpc, c) - One(wpc[w], c) + One(place, c)
         /\ Asleep(wpc') # {} => Asleep(wpc) # {} \/ place = "asleep"
<1>1. /\ DOMAIN wpc = Workers /\ DOMAIN wpc' = Workers /\ wpc'[w] = place
      /\ \A u \in Workers \ {w} : wpc'[u] = wpc[u]
  BY PlaceTypes DEF WorkerGoto
<1>2. IsFiniteSet(Workers)
  BY Basics
<1>3. \A c : /\ Count(wpc, c) \in Nat
             /\ Count(wpc', c) = Count(wpc, c) - One(wpc[w], c) + One(wpc'[w], c)
  BY <1>1, <1>2, CountMove
<1>4. Asleep(wpc') # {} => Asleep(wpc) # {} \/ place = "asleep"
  BY <1>1 DEF Asleep
<1> QED BY <1>1, <1>3, <1>4

(* A caller that moves leaves one place and enters another.                *)
LEMMA CallerGoes ==
  ASSUME TypeInv, NEW p \in Producers, NEW place, CallerGoto(p, place)
  PROVE  /\ \A c : /\ Count(ppc, c) \in Nat
                   /\ Count(ppc', c) = Count(ppc, c) - One(ppc[p], c) + One(place, c)
         /\ Asleep(ppc') # {} => Asleep(ppc) # {} \/ place = "asleep"
<1>1. /\ DOMAIN ppc = Producers /\ DOMAIN ppc' = Producers /\ ppc'[p] = place
      /\ \A u \in Producers \ {p} : ppc'[u] = ppc[u]
  BY PlaceTypes DEF CallerGoto
<1>2. IsFiniteSet(Producers)
  BY Basics
<1>3. \A c : /\ Count(ppc, c) \in Nat
             /\ Count(ppc', c) = Count(ppc, c) - One(ppc[p], c) + One(ppc'[p], c)
  BY <1>1, <1>2, CountMove
<1>4. Asleep(ppc') # {} => Asleep(ppc) # {} \/ place = "asleep"
  BY <1>1 DEF Asleep
<1> QED BY <1>1, <1>3, <1>4

(* A count of threads is a number. *)
LEMMA CountType ==
  ASSUME NEW T, IsFiniteSet(T), NEW pc, DOMAIN pc = T, NEW place
  PROVE  Count(pc, place) \in Nat
<1>1. IsFiniteSet({t \in T : pc[t] = place})
  BY FS_Subset
<1> QED BY <1>1, FS_CardinalityType DEF Count

(* No step of a worker loses a wakeup,                                     *)
LEMMA WorkerWakeups ==
  ASSUME TypeInv, NoLostWakeup, NEW w \in Workers,
         Worker(w) \/ SpuriousWake(w) \/ Spawn(w)
  PROVE  NoLostWakeup'
<1>1. Len(jobs) \in Nat /\ MaxQueue \in Nat /\ ppc \in [Producers -> CallerPlaces]
  BY PlaceTypes
<1>2. \A c : Count(ppc, c) \in Nat
  BY PlaceTypes, CountType
<1> USE DEF NoLostWakeup, One
<1>3. ASSUME NEW place, WorkerGoto(w, place), UNCHANGED <<jobs, ppc, terminate>>,
             wpc[w] \notin {"lock", "notify"}, place # "asleep"
      PROVE  NoLostWakeup'
  BY <1>1, <1>2, <1>3, WorkerGoes
<1>4. CASE ClearBusy(w)
  BY <1>3, <1>4 DEF ClearBusy, callerVars
<1>5. CASE Sleep(w)
  <2>1. WorkerGoto(w, "asleep") /\ wpc[w] = "lock" /\ UNCHANGED <<jobs, ppc>> /\ Len(jobs) = 0
    BY <1>5 DEF Sleep, poolVars, callerVars
  <2>2. /\ \A c : Count(wpc, c) \in Nat
        /\ Count(wpc', "lock") = Count(wpc, "lock") - 1
        /\ Count(wpc', "notify") = Count(wpc, "notify")
    BY <2>1, WorkerGoes
  <2>3. Count(wpc', "lock") \in Nat
    BY <2>1, PlaceTypes, CountType DEF WorkerGoto
  <2> QED BY <1>1, <1>2, <1>5, <2>1, <2>2, <2>3 DEF Sleep
<1>6. CASE Exit(w)
  BY <1>6 DEF Exit, poolVars
<1>7. CASE TakeJob(w)
  <2>1. WorkerGoto(w, "notify") /\ wpc[w] = "lock" /\ UNCHANGED <<ppc, terminate>>
    BY <1>7 DEF TakeJob, callerVars
  <2>2. Len(jobs') = Len(jobs) - 1
    BY <1>7, HeadTailProperties DEF TakeJob, TypeInv, TypeOK
  <2>3. /\ \A c : Count(wpc, c) \in Nat
        /\ Count(wpc', "lock") = Count(wpc, "lock") - 1
        /\ Count(wpc', "notify") = Count(wpc, "notify") + 1
        /\ Asleep(wpc') # {} => Asleep(wpc) # {}
    BY <2>1, WorkerGoes
  <2> QED BY <1>1, <1>2, <2>1, <2>2, <2>3
<1>8. CASE NotifyNotFull(w)
  <2>1. WorkerGoto(w, "run") /\ wpc[w] = "notify" /\ UNCHANGED <<jobs, terminate>>
    BY <1>8 DEF NotifyNotFull, poolVars
  <2>2. /\ \A c : Count(wpc, c) \in Nat
        /\ Count(wpc', "lock") = Count(wpc, "lock")
        /\ Count(wpc', "notify") = Count(wpc, "notify") - 1
        /\ Asleep(wpc') # {} => Asleep(wpc) # {}
    BY <2>1, WorkerGoes
  <2>3. NotifyOne(ppc, ppc')
    BY <1>8 DEF NotifyNotFull
  <2>4. CASE Asleep(ppc) = {}
    <3>1. ppc' = ppc
      BY <2>3, <2>4 DEF NotifyOne
    <3> QED BY <1>1, <1>2, <2>1, <2>2, <2>4, <3>1
  <2>5. CASE Asleep(ppc) # {}
    <3>1. /\ Count(ppc', "lock") = Count(ppc, "lock") + 1
          /\ Count(ppc', "notify") = Count(ppc, "notify")
      BY <2>3, <2>5, PlaceTypes, CountNotify
    <3> QED BY <1>1, <1>2, <2>1, <2>2, <2>5, <3>1
  <2> QED BY <2>4, <2>5
<1>9. CASE RunJob(w)
  BY <1>3, <1>9 DEF RunJob, poolVars, callerVars
<1>10. CASE SpuriousWake(w)
  BY <1>3, <1>10 DEF SpuriousWake, poolVars, callerVars
<1>11. CASE Spawn(w)
  BY <1>3, <1>11 DEF Spawn, poolVars, callerVars
<1> QED BY <1>4, <1>5, <1>6, <1>7, <1>8, <1>9, <1>10, <1>11 DEF Worker

(* nor one of a caller,                                                    *)
LEMMA CallerWakeups ==
  ASSUME TypeInv, NoLostWakeup, NEW p \in Producers,
         BeginCall(p) \/ Caller(p) \/ SpuriousWakeCaller(p)
  PROVE  NoLostWakeup'
<1>1. Len(jobs) \in Nat /\ MaxQueue \in Nat /\ wpc \in [Workers -> WorkerPlaces]
  BY PlaceTypes
<1>2. \A c : Count(wpc, c) \in Nat
  BY PlaceTypes, CountType
<1> USE DEF NoLostWakeup, One
<1>3. ASSUME NEW place, CallerGoto(p, place), UNCHANGED <<jobs, wpc, terminate>>,
             ppc[p] \notin {"lock", "notify"}, place # "asleep"
      PROVE  NoLostWakeup'
  BY <1>1, <1>2, <1>3, CallerGoes
<1>4. CASE BeginCall(p)
  BY <1>3, <1>4 DEF BeginCall, poolVars, workerVars
<1>5. CASE WaitNotFull(p)
  <2>1. /\ CallerGoto(p, "asleep") /\ ppc[p] = "lock" /\ UNCHANGED <<jobs, wpc, terminate>>
        /\ Len(jobs) >= MaxQueue
    BY <1>5 DEF WaitNotFull, poolVars, workerVars
  <2>2. /\ \A c : Count(ppc, c) \in Nat
        /\ Count(ppc', "lock") = Count(ppc, "lock") - 1
        /\ Count(ppc', "notify") = Count(ppc, "notify")
    BY <2>1, CallerGoes
  <2>3. Count(ppc', "lock") \in Nat
    BY <2>1, PlaceTypes, CountType DEF CallerGoto
  <2> QED BY <1>1, <1>2, <2>1, <2>2, <2>3
<1>6. CASE Refuse(p)
  BY <1>6 DEF Refuse, poolVars
<1>7. CASE Push(p)
  <2>1. CallerGoto(p, "notify") /\ ppc[p] = "lock" /\ UNCHANGED <<wpc, terminate>>
    BY <1>7 DEF Push, workerVars
  <2>2. Len(jobs') = Len(jobs) + 1
    BY <1>7 DEF Push, TypeInv, TypeOK
  <2>3. /\ \A c : Count(ppc, c) \in Nat
        /\ Count(ppc', "lock") = Count(ppc, "lock") - 1
        /\ Count(ppc', "notify") = Count(ppc, "notify") + 1
        /\ Asleep(ppc') # {} => Asleep(ppc) # {}
    BY <2>1, CallerGoes
  <2> QED BY <1>1, <1>2, <2>1, <2>2, <2>3
<1>8. CASE NotifyWorker(p)
  <2>1. CallerGoto(p, "ready") /\ ppc[p] = "notify" /\ UNCHANGED <<jobs, terminate>>
    BY <1>8 DEF NotifyWorker, poolVars
  <2>2. /\ \A c : Count(ppc, c) \in Nat
        /\ Count(ppc', "lock") = Count(ppc, "lock")
        /\ Count(ppc', "notify") = Count(ppc, "notify") - 1
        /\ Asleep(ppc') # {} => Asleep(ppc) # {}
    BY <2>1, CallerGoes
  <2>3. NotifyOne(wpc, wpc')
    BY <1>8 DEF NotifyWorker
  <2>4. CASE Asleep(wpc) = {}
    <3>1. wpc' = wpc
      BY <2>3, <2>4 DEF NotifyOne
    <3> QED BY <1>1, <1>2, <2>1, <2>2, <2>4, <3>1
  <2>5. CASE Asleep(wpc) # {}
    <3>1. /\ Count(wpc', "lock") = Count(wpc, "lock") + 1
          /\ Count(wpc', "notify") = Count(wpc, "notify")
      BY <2>3, <2>5, PlaceTypes, CountNotify
    <3> QED BY <1>1, <1>2, <2>1, <2>2, <2>5, <3>1
  <2> QED BY <2>4, <2>5
<1>9. CASE SpuriousWakeCaller(p)
  BY <1>3, <1>9 DEF SpuriousWakeCaller, poolVars, workerVars
<1> QED BY <1>4, <1>5, <1>6, <1>7, <1>8, <1>9 DEF Caller

(* so none does.                                                           *)
LEMMA WakeupStep == PoolInv /\ NoLostWakeup /\ [Next]_vars => NoLostWakeup'
<1> SUFFICES ASSUME PoolInv, NoLostWakeup, [Next]_vars PROVE NoLostWakeup'
  OBVIOUS
<1>1. UNCHANGED <<jobs, wpc, ppc, terminate>> => NoLostWakeup'
  BY DEF NoLostWakeup
<1>2. terminate' => NoLostWakeup'
  BY DEF NoLostWakeup
<1>3. CASE Main
  <2>1. UNCHANGED <<jobs, wpc, ppc, terminate>> \/ terminate'
    BY <1>3 DEF Main, StartDone, AskBusy, AnswerBusy, BeginStop, Stopping, Discard, WakeWorkers,
       WakeCallers, JoinAll, poolVars, workerVars, callerVars, PoolInv, StopOrder
  <2> QED BY <1>1, <1>2, <2>1
<1>4. CASE UNCHANGED vars
  BY <1>1, <1>4 DEF vars, poolVars, workerVars, callerVars
<1> QED BY <1>3, <1>4, WorkerWakeups, CallerWakeups DEF Next, PoolInv

-----------------------------------------------------------------------------
(* Results. *)

(* The invariant holds in every reachable state.                           *)
LEMMA PoolInvariant == Spec => []PoolInv
BY PoolInit, PoolStep, PTL DEF Spec

(* Every variable of the pool keeps its type; in particular the queue never *)
(* exceeds MAX_QUEUE_DEPTH, however many producers push.                    *)
THEOREM PoolTypes == Spec => []TypeOK
<1>1. PoolInv => TypeOK
  BY DEF PoolInv, TypeInv
<1> QED BY <1>1, PoolInvariant, PTL

(* No job that QueueJob took is lost, run twice or run after Stop discarded *)
(* it.                                                                      *)
THEOREM JobsAreConserved == Spec => []JobsConserved
<1>1. PoolInv => JobsConserved
  BY DEF PoolInv
<1> QED BY <1>1, PoolInvariant, PTL

(* No worker sleeps over a job and no producer over a free slot, unless the *)
(* wake-ups for them are under way.                                         *)
THEOREM WakeupsAreKept == Spec => []NoLostWakeup
<1>1. Init => NoLostWakeup
  BY DEF Init, NoLostWakeup, Asleep
<1>2. PoolInv /\ NoLostWakeup /\ [Next]_vars => NoLostWakeup'
  BY WakeupStep
<1> QED BY <1>1, <1>2, PoolInvariant, PTL DEF Spec

(* A worker that holds a job shows its flag, so all flags down and an empty *)
(* queue leave nowhere for a job to be but among those that ran.            *)
LEMMA IdleStep ==
  ASSUME PoolInv, AnswerBusy, answer' = "idle"
  PROVE  accepted \subseteq ran
<1>1. jobs = <<>> /\ DOMAIN jobs = {} /\ NumIdle = Cardinality(Workers) /\ mpc = "test"
  BY DEF AnswerBusy
<1>2. \A w \in Workers : ~busy[w]
  <2>1. {w \in Workers : ~busy[w]} = Workers
    BY <1>1, Basics, FS_Subset DEF NumIdle
  <2> QED BY <2>1
<1>3. \A w \in Workers : ~Holding(w)
  BY <1>2 DEF PoolInv, TypeInv, JobHeld
<1>4. Queued = {} /\ dropped = {}
  BY <1>1 DEF Queued, PoolInv, StopOrder
<1> QED BY <1>3, <1>4 DEF PoolInv, JobsConserved

(* When IsBusy says no, every job queued before has run to its end, which   *)
(* is what the caller of WaitForPoolIdle goes on to rely on.                *)
THEOREM IdlePoolIsDone == Spec => IdleMeansDone
<1>1. PoolInv /\ [Next]_vars => [answer' = "idle" /\ answer # "idle" => accepted \subseteq ran]_vars
  <2> SUFFICES ASSUME PoolInv, [Next]_vars, answer' = "idle", answer # "idle"
               PROVE  accepted \subseteq ran
    OBVIOUS
  <2>1. AnswerBusy
    BY DEF Next, Worker, ClearBusy, Sleep, Exit, TakeJob, NotifyNotFull, RunJob, SpuriousWake,
           Spawn, BeginCall, Caller, WaitNotFull, Refuse, Push, NotifyWorker,
           SpuriousWakeCaller, Main, StartDone, AskBusy, BeginStop, Stopping, Discard,
           WakeWorkers, WakeCallers, JoinAll, vars, mainVars
  <2> QED BY <2>1, IdleStep
<1> QED BY <1>1, PoolInvariant, PTL DEF Spec, IdleMeansDone
=============================================================================
