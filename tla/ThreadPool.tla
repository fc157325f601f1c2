------------------------------ MODULE ThreadPool ------------------------------
(***************************************************************************)
(* The thread pool under every stage of the solver (Utility/ThreadPool):   *)
(* workers that wait on one condition variable, producers that wait on     *)
(* another while the queue is full, the main thread that polls IsBusy and  *)
(* finally stops the pool.                                                 *)
(*                                                                         *)
(* What a thread does between taking queue_mutex and waiting or releasing  *)
(* it is one step. A thread that waits is in the state "asleep"; notifying *)
(* puts it back to "lock", where it takes the mutex and tests again. Each  *)
(* notification is a step of its own, after the mutex is released.         *)
(***************************************************************************)
EXTENDS Naturals, Sequences, FiniteSets

CONSTANTS Workers,      \* num_threads threads
          Producers,    \* threads that call QueueJob
          Calls,        \* bound: calls each producer makes
          MaxQueue      \* MAX_QUEUE_DEPTH

ASSUME PoolAssumption ==
  /\ IsFiniteSet(Workers) /\ IsFiniteSet(Producers)
  /\ Workers # {}
  /\ Calls \in Nat
  /\ MaxQueue \in Nat \ {0}

VARIABLES jobs,         \* the queue
          busy,         \* isBusyArray
          started,      \* isStarted
          terminate,    \* should_terminate
          wpc,          \* place of each worker
          job,          \* the job a worker has taken
          ppc,          \* place of each producer
          made,         \* calls a producer has begun
          mpc,          \* place of the main thread
          answer,       \* what the last IsBusy said: "none" while it is asked
          accepted,     \* history: jobs pushed
          ran,          \* history: jobs run to the end
          dropped       \* history: jobs discarded by Stop

poolVars == <<jobs, busy, terminate, accepted, dropped>>
workerVars == <<wpc, job, ran>>
callerVars == <<ppc, made>>
mainVars == <<mpc, started, answer>>
vars == <<poolVars, workerVars, callerVars, mainVars>>

\* A job is known by its producer and the number of the call.
Job == Producers \X (1..Calls)
NoJob == <<>>

WorkerPlaces == {"unborn", "flag", "lock", "asleep", "notify", "run", "exited"}
CallerPlaces == {"ready", "lock", "asleep", "notify"}
MainPlaces == {"start", "idle", "test", "stop", "wakeWorkers", "wakeCallers",
               "join", "stopped"}

Init ==
  /\ jobs = <<>> /\ busy = [w \in Workers |-> FALSE]
  /\ started = FALSE /\ terminate = FALSE
  /\ wpc = [w \in Workers |-> "unborn"] /\ job = [w \in Workers |-> NoJob]
  /\ ppc = [p \in Producers |-> "ready"] /\ made = [p \in Producers |-> 0]
  /\ mpc = "start" /\ answer = "none"
  /\ accepted = {} /\ ran = {} /\ dropped = {}

WorkerGoto(w, place) == wpc' = [wpc EXCEPT ![w] = place]
CallerGoto(p, place) == ppc' = [ppc EXCEPT ![p] = place]

Asleep(pc) == {t \in DOMAIN pc : pc[t] = "asleep"}

\* notify_one wakes any one thread that waits, if there is one.
NotifyOne(pc, pcNext) ==
  IF Asleep(pc) = {} THEN pcNext = pc
  ELSE \E t \in Asleep(pc) : pcNext = [pc EXCEPT ![t] = "lock"]

NotifyAll(pc) == [t \in DOMAIN pc |-> IF pc[t] = "asleep" THEN "lock" ELSE pc[t]]

-----------------------------------------------------------------------------
(* ThreadLoop. *)

\* The flag falls before the mutex is taken.
ClearBusy(w) ==
  /\ wpc[w] = "flag"
  /\ busy' = [busy EXCEPT ![w] = FALSE]
  /\ WorkerGoto(w, "lock")
  /\ UNCHANGED <<jobs, terminate, accepted, dropped, job, ran, callerVars, mainVars>>

Sleep(w) ==
  /\ wpc[w] = "lock" /\ jobs = <<>> /\ ~terminate
  /\ WorkerGoto(w, "asleep")
  /\ UNCHANGED <<poolVars, job, ran, callerVars, mainVars>>

\* should_terminate is tested before the queue.
Exit(w) ==
  /\ wpc[w] = "lock" /\ terminate
  /\ WorkerGoto(w, "exited")
  /\ UNCHANGED <<poolVars, job, ran, callerVars, mainVars>>

TakeJobUntested(w) ==
  /\ wpc[w] = "lock" /\ ~terminate
  /\ busy' = [busy EXCEPT ![w] = TRUE]
  /\ job' = [job EXCEPT ![w] = IF jobs = <<>> THEN NoJob ELSE Head(jobs)]
  /\ jobs' = IF jobs = <<>> THEN <<>> ELSE Tail(jobs)
  /\ WorkerGoto(w, "notify")
  /\ UNCHANGED <<terminate, accepted, dropped, ran, callerVars, mainVars>>
TakeJobUnflagged(w) ==
  /\ wpc[w] = "lock" /\ jobs # <<>> /\ ~terminate
  /\ job' = [job EXCEPT ![w] = Head(jobs)]
  /\ jobs' = Tail(jobs)
  /\ WorkerGoto(w, "notify")
  /\ UNCHANGED <<busy, terminate, accepted, dropped, ran, callerVars, mainVars>>
TakeJob(w) ==
  /\ wpc[w] = "lock" /\ jobs # <<>> /\ ~terminate
  /\ busy' = [busy EXCEPT ![w] = TRUE]
  /\ job' = [job EXCEPT ![w] = Head(jobs)]
  /\ jobs' = Tail(jobs)
  /\ WorkerGoto(w, "notify")
  /\ UNCHANGED <<terminate, accepted, dropped, ran, callerVars, mainVars>>

NotifyNotFull(w) ==
  /\ wpc[w] = "notify"
  /\ NotifyOne(ppc, ppc')
  /\ WorkerGoto(w, "run")
  /\ UNCHANGED <<poolVars, job, ran, made, mainVars>>

RunJob(w) ==
  /\ wpc[w] = "run"
  /\ ran' = ran \cup {job[w]}
  /\ job' = [job EXCEPT ![w] = NoJob]
  /\ WorkerGoto(w, "flag")
  /\ UNCHANGED <<poolVars, callerVars, mainVars>>

\* A condition variable may wake without a notification.
SpuriousWake(w) ==
  /\ wpc[w] = "asleep"
  /\ WorkerGoto(w, "lock")
  /\ UNCHANGED <<poolVars, job, ran, callerVars, mainVars>>

Worker(w) ==
  ClearBusy(w) \/ Sleep(w) \/ Exit(w) \/ TakeJob(w) \/ NotifyNotFull(w) \/ RunJob(w)

-----------------------------------------------------------------------------
(* QueueJob. The solver starts its pools before it queues anything. *)

BeginCall(p) ==
  /\ ppc[p] = "ready" /\ made[p] < Calls /\ mpc # "start"
  /\ made' = [made EXCEPT ![p] = @ + 1]
  /\ CallerGoto(p, "lock")
  /\ UNCHANGED <<poolVars, workerVars, mainVars>>

WaitNotFull(p) ==
  /\ ppc[p] = "lock" /\ Len(jobs) >= MaxQueue /\ ~terminate
  /\ CallerGoto(p, "asleep")
  /\ UNCHANGED <<poolVars, workerVars, made, mainVars>>

\* A pool that stops takes the job without a word and forgets it.
Refuse(p) ==
  /\ ppc[p] = "lock" /\ terminate
  /\ CallerGoto(p, "ready")
  /\ UNCHANGED <<poolVars, workerVars, made, mainVars>>

PushAnyTime(p) ==
  /\ ppc[p] = "lock" /\ Len(jobs) < MaxQueue
  /\ jobs' = Append(jobs, <<p, made[p]>>)
  /\ accepted' = accepted \cup {<<p, made[p]>>}
  /\ CallerGoto(p, "notify")
  /\ UNCHANGED <<busy, terminate, dropped, workerVars, made, mainVars>>
Push(p) ==
  /\ ppc[p] = "lock" /\ Len(jobs) < MaxQueue /\ ~terminate
  /\ jobs' = Append(jobs, <<p, made[p]>>)
  /\ accepted' = accepted \cup {<<p, made[p]>>}
  /\ CallerGoto(p, "notify")
  /\ UNCHANGED <<busy, terminate, dropped, workerVars, made, mainVars>>

NotifyNobody(p) ==
  /\ ppc[p] = "notify"
  /\ CallerGoto(p, "ready")
  /\ UNCHANGED <<poolVars, workerVars, made, mainVars>>
NotifyWorker(p) ==
  /\ ppc[p] = "notify"
  /\ NotifyOne(wpc, wpc')
  /\ CallerGoto(p, "ready")
  /\ UNCHANGED <<poolVars, job, ran, made, mainVars>>

SpuriousWakeCaller(p) ==
  /\ ppc[p] = "asleep"
  /\ CallerGoto(p, "lock")
  /\ UNCHANGED <<poolVars, workerVars, made, mainVars>>

Caller(p) == WaitNotFull(p) \/ Refuse(p) \/ Push(p) \/ NotifyWorker(p)

-----------------------------------------------------------------------------
(* The main thread: Start, then WaitForPoolIdle or Stop. *)

Spawn(w) ==
  /\ mpc = "start" /\ wpc[w] = "unborn"
  /\ WorkerGoto(w, "flag")
  /\ UNCHANGED <<poolVars, job, ran, callerVars, mainVars>>

StartDone ==
  /\ mpc = "start" /\ \A w \in Workers : wpc[w] # "unborn"
  /\ started' = TRUE /\ mpc' = "idle"
  /\ UNCHANGED <<poolVars, workerVars, callerVars, answer>>

\* IsBusy looks at isStarted without the mutex...
AskBusy ==
  /\ mpc = "idle"
  /\ answer' = "none" /\ mpc' = "test"
  /\ UNCHANGED <<poolVars, workerVars, callerVars, started>>

NumIdle == Cardinality({w \in Workers : ~busy[w]})

\* ...and at the queue and the flags under it. The flags are read one by one
\* while workers may lower theirs; none can rise meanwhile.
AnswerBusy ==
  /\ mpc = "test"
  /\ answer' = IF jobs = <<>> /\ NumIdle = Cardinality(Workers) THEN "idle" ELSE "busy"
  /\ mpc' = "idle"
  /\ UNCHANGED <<poolVars, workerVars, callerVars, started>>

BeginStop ==
  /\ mpc = "idle"
  /\ started' = FALSE /\ mpc' = "stop"
  /\ UNCHANGED <<poolVars, workerVars, callerVars, answer>>

Discard ==
  /\ mpc = "stop"
  /\ terminate' = TRUE
  /\ dropped' = dropped \cup {jobs[i] : i \in DOMAIN jobs}
  /\ jobs' = <<>>
  /\ mpc' = "wakeWorkers"
  /\ UNCHANGED <<busy, accepted, workerVars, callerVars, started, answer>>

WakeWorkers ==
  /\ mpc = "wakeWorkers"
  /\ wpc' = NotifyAll(wpc) /\ mpc' = "wakeCallers"
  /\ UNCHANGED <<poolVars, job, ran, callerVars, started, answer>>

WakeNoCaller ==
  /\ mpc = "wakeCallers"
  /\ mpc' = "join"
  /\ UNCHANGED <<poolVars, workerVars, callerVars, started, answer>>
WakeCallers ==
  /\ mpc = "wakeCallers"
  /\ ppc' = NotifyAll(ppc) /\ mpc' = "join"
  /\ UNCHANGED <<poolVars, workerVars, made, started, answer>>

JoinAll ==
  /\ mpc = "join" /\ \A w \in Workers : wpc[w] = "exited"
  /\ mpc' = "stopped"
  /\ UNCHANGED <<poolVars, workerVars, callerVars, started, answer>>

Stopping == Discard \/ WakeWorkers \/ WakeCallers \/ JoinAll

Main == StartDone \/ AskBusy \/ AnswerBusy \/ BeginStop \/ Stopping

-----------------------------------------------------------------------------

Next ==
  \/ \E w \in Workers : Worker(w) \/ SpuriousWake(w) \/ Spawn(w)
  \/ \E p \in Producers : BeginCall(p) \/ Caller(p) \/ SpuriousWakeCaller(p)
  \/ Main

\* Threads run when they can; nobody owes a call, a poll, a stop or a wake-up
\* without notification.
Fairness ==
  /\ \A w \in Workers : WF_vars(Worker(w)) /\ WF_vars(Spawn(w))
  /\ \A p \in Producers : WF_vars(Caller(p))
  /\ WF_vars(StartDone) /\ WF_vars(Stopping)

Spec == Init /\ [][Next]_vars
FairSpec == Spec /\ Fairness

-----------------------------------------------------------------------------
(* Properties. *)

Queued == {jobs[i] : i \in DOMAIN jobs}
Holding(w) == wpc[w] \in {"notify", "run"}

TypeOK ==
  /\ jobs \in Seq(Job) /\ Len(jobs) <= MaxQueue
  /\ busy \in [Workers -> BOOLEAN] /\ started \in BOOLEAN /\ terminate \in BOOLEAN
  /\ wpc \in [Workers -> WorkerPlaces] /\ job \in [Workers -> Job \cup {NoJob}]
  /\ ppc \in [Producers -> CallerPlaces] /\ made \in [Producers -> 0..Calls]
  /\ mpc \in MainPlaces /\ answer \in {"none", "idle", "busy"}
  /\ accepted \subseteq Job /\ ran \subseteq Job /\ dropped \subseteq Job

\* Every job QueueJob took is in the queue, with a worker, has run, or was
\* discarded by Stop, and no job is in two of these; once the pool stops none is
\* left in the queue that nobody will run (QueueJob, ThreadLoop, Stop).
JobsConserved ==
  /\ accepted = Queued \cup {job[w] : w \in {v \in Workers : Holding(v)}} \cup ran \cup dropped
  /\ Queued \cap (ran \cup dropped) = {} /\ ran \cap dropped = {}
  /\ \A w \in Workers : Holding(w) =>
       /\ job[w] \notin Queued \cup ran \cup dropped
       /\ \A v \in Workers \ {w} : Holding(v) => job[v] # job[w]
  /\ terminate => jobs = <<>>

\* What WaitForPoolIdle relies on: when IsBusy says no, every job queued before
\* has run to its end, although workers lower their flags without the mutex.
IdleMeansDone ==
  [][answer' = "idle" /\ answer # "idle" => accepted \subseteq ran]_vars

\* No wake-up is lost: a worker sleeps over a queued job only while as many
\* notifications or woken workers are under way as there are jobs, and a
\* producer over a free slot likewise (the two notify_one calls are outside the
\* mutex, one condition variable each).
Count(pc, place) == Cardinality({t \in DOMAIN pc : pc[t] = place})

NoLostWakeup ==
  ~terminate =>
    /\ Asleep(wpc) # {} => Len(jobs) <= Count(ppc, "notify") + Count(wpc, "lock")
    /\ Asleep(ppc) # {} => MaxQueue - Len(jobs) <= Count(wpc, "notify") + Count(ppc, "lock")

\* A job that was taken is run, unless the pool is stopped.
AcceptedRuns ==
  \A j \in Job : j \in accepted ~> (j \in ran \/ mpc \in MainPlaces \ {"start", "idle", "test"})

\* QueueJob returns, whether the queue is full or the pool stops meanwhile, and
\* Stop joins all workers: nobody sleeps through it.
CallsReturn ==
  /\ \A p \in Producers : ppc[p] = "lock" ~> ppc[p] = "ready"
  /\ mpc = "stop" ~> mpc = "stopped"
=============================================================================
