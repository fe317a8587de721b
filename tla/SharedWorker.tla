---------------------------- MODULE SharedWorker ----------------------------
(***************************************************************************)
(* The shared execution service of the daemon                              *)
(* (apps/decksmith-daemon/src/shared_worker.rs): one to four threads, each *)
(* owning a backend, take jobs from the dispatcher under one mutex, sleep  *)
(* on one condition variable and report into one bounded queue.            *)
(*                                                                         *)
(* A step is a critical section of the mutex.  The authority (`current`    *)
(* here) is another lock's data and changes between any two steps, also    *)
(* between a worker's `select` and `begin`, which are two steps that keep  *)
(* the mutex.  Within one step it has one value.  State.stopped of the     *)
(* service is always set together with Dispatcher.stopped: it is `stopped`.*)
(***************************************************************************)
EXTENDS SharedDispatch, Sequences

CONSTANTS
  Worker,      \* the threads of the service
  MaxReplies,  \* MAX_REPLIES
  NoWorker, NoJob

ASSUME WorkerAssumption ==
  /\ IsFiniteSet(Worker) /\ Worker # {} /\ NoWorker \notin Worker
  /\ MaxReplies \in Nat /\ NoJob \notin Job

VARIABLES
  payloads, \* the request ids the side table has a compiled action for
  replies,  \* the queue of completions, oldest first
  workers,  \* State.workers: threads whose backend has not panicked
  lock,     \* the worker that keeps the mutex from select to begin
  pc,       \* where each thread is in `run`
  work,     \* the job a thread has taken out of the dispatcher
  revoked   \* authority changed and `invalidate` has not been called yet

serviceVars == <<payloads, replies, workers, lock, pc, work, revoked>>
allVars == <<vars, serviceVars>>

PC == {"scanning",  \* about to look for work
       "waiting",   \* asleep on the condition variable
       "begin",     \* has selected a job and keeps the mutex
       "fence",     \* has taken a job, about to ask the fence
       "executing", \* in Backend::execute
       "unwinding", \* the backend panicked and is being dropped
       "report",    \* about to complete its job
       "lastReport",\* the same, after a panic: the thread ends with it
       "exited",
       "abandoned"} \* ended by a destructor that panicked too

Reply == [id: 1..MaxId, scope: Scope]

ServiceInit ==
  /\ Init
  /\ payloads = {} /\ replies = <<>>
  /\ workers = Cardinality(Worker)
  /\ lock = NoWorker
  /\ pc = [w \in Worker |-> "scanning"]
  /\ work = [w \in Worker |-> NoJob]
  /\ revoked = FALSE

-----------------------------------------------------------------------------
(* Faulty variants, for the mutation checks.                               *)

WakeNobody(state) == state

-----------------------------------------------------------------------------
\* notify_all on the state of the threads a step leaves behind.
Wake(state) == [w \in Worker |-> IF state[w] = "waiting" THEN "scanning" ELSE state[w]]

\* prune: the side table only keeps what the dispatcher still knows, and
\* queued replies whose scope was fenced are dropped.
Prune(js) == payloads \cap {j.id : j \in js}
IsCurrent(reply) == reply.scope \in current
PrunedReplies == SelectSeq(replies, IsCurrent)

\* Service::submit.  A coalesced submission keeps the payload of its job.
HostSubmit(s, t, e) ==
  /\ lock = NoWorker
  /\ Submit(current, s, t, e)
  /\ IF nextId' = nextId  \* an error returns before the payload and the wake
       THEN UNCHANGED <<payloads, replies, pc>>
       ELSE /\ payloads' = Prune(jobs') \cup {j.id : j \in {k \in jobs' : k.last = nextId'}}
            /\ replies' = PrunedReplies
            /\ pc' = Wake(pc)
  /\ UNCHANGED <<current, workers, lock, work, revoked>>

\* Service::invalidate, owed after every change of the authority.
Invalidate ==
  /\ lock = NoWorker
  /\ revoked' = FALSE
  /\ CancelStale(current)
  /\ payloads' = Prune(jobs')
  /\ replies' = PrunedReplies
  /\ pc' = Wake(pc)
  /\ UNCHANGED <<current, workers, lock, work>>

\* Service::poll takes replies out up to the first one still current.
PollOne ==
  /\ lock = NoWorker /\ replies # <<>>
  /\ IF stopped
       THEN replies' = <<>>
       ELSE \E n \in 1..Len(replies) :
              /\ \A i \in 1..(n - 1) : ~IsCurrent(replies[i])
              /\ IsCurrent(replies[n]) \/ n = Len(replies)
              /\ replies' = SubSeq(replies, n + 1, Len(replies))
  /\ UNCHANGED <<vars, payloads, workers, lock, pc, work, revoked>>

\* Service::stop.
HostStop ==
  /\ lock = NoWorker /\ ~stopped
  /\ Stop
  /\ payloads' = {} /\ replies' = <<>>
  /\ pc' = Wake(pc)
  /\ UNCHANGED <<current, workers, lock, work, revoked>>

\* The loop of `run`: leave, select a job, or wait; prune comes first.  A
\* worker whose begin failed is still in the loop and keeps the mutex.
Scan(w) ==
  /\ lock \in {NoWorker, w} /\ pc[w] = "scanning"
  /\ IF stopped
       THEN /\ pc' = [pc EXCEPT ![w] = "exited"]
            /\ lock' = NoWorker
            /\ UNCHANGED <<dispatchVars, payloads, replies, work>>
       ELSE /\ payloads' = Prune(Keep(current))
            /\ replies' = PrunedReplies
            /\ \/ \E j \in jobs :
                    /\ SelectJob(current, j)
                    /\ work' = [work EXCEPT ![w] = [j EXCEPT !.phase = "selected"]]
                    /\ pc' = [pc EXCEPT ![w] = "begin"]
                    /\ lock' = w
               \/ /\ SelectNothing(current)
                  /\ pc' = [pc EXCEPT ![w] = "waiting"]
                  /\ lock' = NoWorker
                  /\ UNCHANGED work
  /\ UNCHANGED <<current, workers, revoked>>

TakeJob(w) ==
  /\ lock = w /\ pc[w] = "begin"
  /\ \/ /\ Begin(current, work[w])
        /\ payloads' = payloads \ {work[w].id}
        \* without a payload the job fails before the fence
        /\ pc' = [pc EXCEPT ![w] = IF work[w].id \in payloads THEN "fence" ELSE "report"]
        /\ work' = [work EXCEPT ![w].phase = "started"]
        /\ lock' = NoWorker
     \/ /\ BeginStale(current, work[w])
        /\ pc' = [pc EXCEPT ![w] = "scanning"]
        /\ work' = [work EXCEPT ![w] = NoJob]
        /\ UNCHANGED <<payloads, lock>>
  /\ UNCHANGED <<current, replies, workers, revoked>>

\* Fence::accepts, right before the backend is called.
AskFence(w) ==
  /\ lock = NoWorker /\ pc[w] = "fence"
  /\ pc' = [pc EXCEPT ![w] = IF ~stopped /\ work[w].scope \in current
                               THEN "executing" ELSE "report"]
  /\ UNCHANGED <<vars, payloads, replies, workers, lock, work, revoked>>

\* The backend returns, with or without an error, or panics.
Execute(w) ==
  /\ pc[w] = "executing"
  /\ \E next \in {"report", "unwinding"} : pc' = [pc EXCEPT ![w] = next]
  /\ UNCHANGED <<vars, payloads, replies, workers, lock, work, revoked>>

\* The backend that panicked is dropped; its destructor may panic as well,
\* and then nothing proves that its writer ended.
Destroy(w, destroyed) ==
  /\ lock = NoWorker /\ pc[w] = "unwinding"
  /\ workers' = workers - 1
  /\ IF workers = 1 \/ ~destroyed
       THEN Stop /\ payloads' = {}
       ELSE UNCHANGED <<dispatchVars, payloads>>
  /\ LET next == [pc EXCEPT ![w] = IF destroyed THEN "lastReport" ELSE "abandoned"]
     IN  pc' = IF destroyed THEN next ELSE Wake(next)
  /\ UNCHANGED <<current, replies, lock, work, revoked>>

\* complete: the reservation goes, and the reply is queued while the scope
\* is current.  A full queue of replies stops the service.
Complete(w, next) ==
  /\ lock = NoWorker
  /\ LET j == work[w]
         accepted == ~stopped /\ j.scope \in current
     IN  /\ j \in jobs
         /\ IF accepted /\ Len(replies) = MaxReplies
              THEN /\ stopped' = TRUE
                   /\ jobs' = {k \in jobs : k.phase = "started"} \ {j}
                   /\ payloads' = {}
                   /\ UNCHANGED <<nextId, cursor, history, replies>>
              ELSE /\ Release(j)
                   /\ replies' = IF accepted
                                   THEN Append(replies, [id |-> j.id, scope |-> j.scope])
                                   ELSE replies
                   /\ UNCHANGED payloads
  /\ pc' = Wake([pc EXCEPT ![w] = next])
  /\ work' = [work EXCEPT ![w] = NoJob]
  /\ UNCHANGED <<current, workers, lock, revoked>>

Report(w) == pc[w] = "report" /\ Complete(w, "scanning")
LastReport(w) == pc[w] = "lastReport" /\ Complete(w, "exited")

\* The operating system may wake a thread that nobody notified.
SpuriousWake(w) ==
  /\ pc[w] = "waiting"
  /\ pc' = [pc EXCEPT ![w] = "scanning"]
  /\ UNCHANGED <<vars, payloads, replies, workers, lock, work, revoked>>

\* The coordinator publishes a new authority under the authority's own lock.
ChangeAuthority ==
  /\ \E s \in Scope : Grant(s) \/ Revoke(s)
  /\ revoked' = TRUE
  /\ UNCHANGED <<payloads, replies, workers, lock, pc, work>>

Step(w) ==
  \/ Scan(w) \/ TakeJob(w) \/ AskFence(w) \/ Execute(w)
  \/ Destroy(w, TRUE) \/ Destroy(w, FALSE)
  \/ Report(w) \/ LastReport(w)

ServiceNext ==
  \/ \E s \in Scope, t \in Target, e \in Amount : HostSubmit(s, t, e)
  \/ Invalidate \/ PollOne \/ HostStop \/ ChangeAuthority
  \/ \E w \in Worker : Step(w) \/ SpuriousWake(w)

ServiceSpec == ServiceInit /\ [][ServiceNext]_allVars

\* Threads are scheduled and backend calls return (they "must finish or
\* terminate owned I/O before returning"); the coordinator calls invalidate
\* after it published an authority.  Nothing obliges a client to submit, poll
\* or stop, nor the system to wake a thread nobody notified.
ServiceFairSpec ==
  /\ ServiceSpec
  /\ \A w \in Worker : SF_allVars(Step(w))
  /\ WF_allVars(revoked /\ Invalidate)

-----------------------------------------------------------------------------
(* Properties.                                                             *)

ServiceTypeOK ==
  /\ TypeOK
  /\ payloads \subseteq 1..nextId
  /\ \A i \in DOMAIN replies : replies[i] \in Reply
  /\ workers \in 0..Cardinality(Worker)
  /\ lock \in Worker \cup {NoWorker}
  /\ pc \in [Worker -> PC]
  /\ \A w \in Worker : (work[w] = NoJob) = (pc[w] \in {"scanning", "waiting", "exited"})
  /\ revoked \in BOOLEAN

\* The thread may still be writing to the target of its job: inside a backend
\* call, or in one whose end nothing proves.
Writing(w) == pc[w] \in {"executing", "unwinding", "abandoned"}

\* No two backends write to one target, whatever is fenced, cancelled,
\* stopped or panics meanwhile.
OneWriterPerTarget ==
  \A v, w \in Worker :
    Writing(v) /\ Writing(w) /\ work[v].target = work[w].target => v = w

\* The barrier of Service::quiet, which sleep waits for: with nothing pending
\* or in flight no backend is inside a call any more.
QuietIsIdle == jobs = {} => \A w \in Worker : ~Writing(w)

\* A job that waits is begun or cancelled in the end, through lost backends,
\* full reply queues and changing authorities.
PendingResolved ==
  \A i \in 1..MaxId :
    (\E j \in jobs : j.id = i /\ IsQueued(j)) ~> ~(\E j \in jobs : j.id = i /\ IsQueued(j))

\* Service::quiesce joins the threads: after stop each of them ends.
StopJoins ==
  stopped ~> \A w \in Worker : pc[w] \in {"exited", "abandoned"}

=============================================================================
