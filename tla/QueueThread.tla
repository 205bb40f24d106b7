----------------------------- MODULE QueueThread -----------------------------
(***************************************************************************)
(* One output queue of the inter-logger and its queue threads              *)
(* (org.glite.lb.logger/src/queue_thread.c, event_queue.c, send_event.c and *)
(* il_master.c): the hand-over of messages to threads that come and go, the *)
(* exclusion of threads from each other's jobs, throttling, and the flush   *)
(* command.  EventStore has the other side, the event file and its counters; *)
(* here an event is a number within its job.                                 *)
(*                                                                          *)
(* eq->update_lock protects single accesses to the list and is not a        *)
(* variable: every action that reads or changes the list is one critical    *)
(* section.  Priority, expiry and moved queues are left out.                *)
(***************************************************************************)
EXTENDS Integers, Sequences, FiniteSets, FiniteSetsExt, SequencesExt

CONSTANTS Threads,    \* the slots of eq->thread: parallel of them
          Jobs,
          PerJob,     \* bound: events of a job
          High, Low,  \* queue_size_high (0: no limit), queue_size_low
          CloseIdle,  \* is default_close_timeout set (option -L)
          MaxFlushes, \* bound: flush commands
          Exposures   \* the hazards this instance is exposed to

\* "idle_race"     an event may arrive while an idle thread is giving up
\* "dies"          committing an event may fail, which ends the thread
\* "throttle_race" a thread may run between the test and the set of throttling
QueueExposures == {"idle_race", "dies", "throttle_race"}

NoJob == "none"

ASSUME QueueAssumption ==
  /\ NoJob \notin Jobs
  /\ PerJob \in Nat /\ High \in Nat /\ Low \in Nat /\ MaxFlushes \in Nat
  /\ High > 0 => Low \in 1..High
  /\ CloseIdle \in BOOLEAN
  /\ Exposures \subseteq QueueExposures

VARIABLES
  q,            \* the messages, from eq->head
  throttling,   \* eq->throttling
  next,         \* the next event of each job to be enqueued
  condLock,     \* holder of eq->cond_lock
  flushLock,    \* holder of flush_lock
  epc, ejob,    \* control point of the enqueuing threads, and their job
  flushing,     \* eq->flushing
  flushResult,  \* eq->flush_result
  tid,          \* is eq->thread[t].thread_id set
  tpc,          \* control point of a queue thread
  cur,          \* me->current, and with it me->jobid
  conn, lazy,   \* is it connected, and is its close_timeout set
  ret, retry,   \* its locals ret and retrycnt > 0
  server,       \* the last event of each job that reached the server
  reported,     \* what the last flush command answered
  flushes

list == <<q, throttling, next>>
locks == <<condLock, flushLock>>
enq == <<epc, ejob>>
flush == <<flushing, flushResult, reported, flushes>>
thread == <<tid, tpc, cur, conn, lazy, ret, retry>>
vars == <<q, throttling, next, condLock, flushLock, epc, ejob, flushing, flushResult,
          tid, tpc, cur, conn, lazy, ret, retry, server, reported, flushes>>

Enqueuers == {"main", "recover"}
Free == "free"
Msgs == [job : Jobs, n : 1..PerJob]
NoMsg == [job |-> NoJob, n |-> 0]

TypeOK ==
  /\ q \in Seq(Msgs) /\ throttling \in BOOLEAN
  /\ next \in [Jobs -> 1..PerJob + 1]
  /\ condLock \in Threads \cup Enqueuers \cup {Free}
  /\ flushLock \in Threads \cup {"main", Free}
  /\ epc \in [Enqueuers -> {"idle", "lock", "locked", "refused", "signal",
                            "flush", "ask", "answer"}]
  /\ ejob \in [Enqueuers -> Jobs \cup {NoJob}]
  /\ flushing \in 0..2 /\ flushResult \in {-1, 0, 1}
  /\ tid \in [Threads -> BOOLEAN]
  /\ tpc \in [Threads -> {"none", "start", "loop", "wait", "woken", "timeout", "exit",
                          "deliver", "get", "reply", "report", "flush", "sleep"}]
  /\ cur \in [Threads -> Msgs \cup {NoMsg}]
  /\ conn \in [Threads -> BOOLEAN] /\ lazy \in [Threads -> BOOLEAN]
  /\ ret \in [Threads -> {-1, 0, 1}] /\ retry \in [Threads -> BOOLEAN]
  /\ server \in [Jobs -> 0..PerJob]
  /\ reported \in {-1, 0, 1} /\ flushes \in 0..MaxFlushes

Init ==
  /\ q = <<>> /\ throttling = FALSE /\ next = [j \in Jobs |-> 1]
  /\ condLock = Free /\ flushLock = Free
  /\ epc = [e \in Enqueuers |-> "idle"] /\ ejob = [e \in Enqueuers |-> NoJob]
  /\ flushing = 0 /\ flushResult = 0
  /\ tid = [t \in Threads |-> FALSE] /\ tpc = [t \in Threads |-> "none"]
  /\ cur = [t \in Threads |-> NoMsg] /\ conn = [t \in Threads |-> FALSE]
  /\ lazy = [t \in Threads |-> FALSE]
  /\ ret = [t \in Threads |-> 0] /\ retry = [t \in Threads |-> FALSE]
  /\ server = [j \in Jobs |-> 0]
  /\ reported = 1 /\ flushes = 0

-----------------------------------------------------------------------------
(* enqueue_msg.  The caller holds the offset_lock of the job's event_store, *)
(* so two of them never enqueue events of the same job.                     *)

\* A thread is giving up: it has left the wait and its id is still set.
GivingUp == \E t \in Threads : tpc[t] \in {"timeout", "exit"}
Undisturbed == "idle_race" \in Exposures \/ ~GivingUp

\* event_queue_create_thread fills the empty slots
CreateThreads(e, j) ==
  /\ epc[e] = "idle" /\ next[j] <= PerJob
  /\ \A f \in Enqueuers : ejob[f] # j
  /\ Undisturbed
  /\ tpc' = [t \in Threads |-> IF tid[t] THEN tpc[t] ELSE "start"]
  /\ tid' = [t \in Threads |-> TRUE]
  /\ epc' = [epc EXCEPT ![e] = "lock"]
  /\ ejob' = [ejob EXCEPT ![e] = j]
  /\ UNCHANGED <<list, locks, flush, cur, conn, lazy, ret, retry, server>>

LockCond(e) ==
  /\ epc[e] = "lock" /\ condLock = Free
  /\ condLock' = e
  /\ epc' = [epc EXCEPT ![e] = "locked"]
  /\ UNCHANGED <<list, flushLock, ejob, flush, thread, server>>

Full == High > 0 /\ (Len(q) >= High \/ throttling)

\* event_queue_insert.  The test of the limit is outside its critical section.
Insert(e) ==
  /\ epc[e] = "locked"
  /\ IF ~Full
     THEN /\ q' = Append(q, [job |-> ejob[e], n |-> next[ejob[e]]])
          /\ next' = [next EXCEPT ![ejob[e]] = @ + 1]
          /\ epc' = [epc EXCEPT ![e] = "signal"]
          /\ UNCHANGED throttling
     ELSE /\ throttling' = ("throttle_race" \notin Exposures \/ throttling)
          /\ epc' = [epc EXCEPT ![e] = IF "throttle_race" \in Exposures THEN "refused" ELSE "signal"]
          /\ UNCHANGED <<q, next>>
  /\ UNCHANGED <<locks, ejob, flush, thread, server>>

Refuse(e) ==
  /\ epc[e] = "refused"
  /\ throttling' = TRUE
  /\ epc' = [epc EXCEPT ![e] = "signal"]
  /\ UNCHANGED <<q, next, locks, ejob, flush, thread, server>>

\* pthread_cond_signal on ready_cond: one of the waiting threads, if any
Waiting == {t \in Threads : tpc[t] = "wait"}
SignalReady ==
  IF Waiting = {} THEN UNCHANGED tpc
  ELSE \E t \in Waiting : tpc' = [tpc EXCEPT ![t] = "woken"]

Signal(e) ==
  /\ epc[e] = "signal"
  /\ SignalReady
  /\ condLock' = Free
  /\ epc' = [epc EXCEPT ![e] = "idle"]
  /\ ejob' = [ejob EXCEPT ![e] = NoJob]
  /\ UNCHANGED <<list, flushLock, flush, tid, cur, conn, lazy, ret, retry, server>>

-----------------------------------------------------------------------------
(* The flush command, in the main loop (handle_cmd).                        *)

\* prevent threads from reporting too early
FlushCommand ==
  /\ epc["main"] = "idle" /\ flushes < MaxFlushes
  /\ Undisturbed
  /\ flushLock = Free /\ flushLock' = "main"
  /\ flushes' = flushes + 1
  /\ epc' = [epc EXCEPT !["main"] = "flush"]
  /\ UNCHANGED <<list, condLock, ejob, flushing, flushResult, reported, thread, server>>

\* A queue without messages is not asked: the flush has succeeded.
FlushEmpty ==
  /\ epc["main"] = "flush" /\ q = <<>>
  /\ flushLock' = Free
  /\ reported' = 1
  /\ epc' = [epc EXCEPT !["main"] = "idle"]
  /\ UNCHANGED <<list, condLock, ejob, flushing, flushResult, flushes, thread, server>>

FlushPending ==
  /\ epc["main"] = "flush" /\ q # <<>>
  /\ epc' = [epc EXCEPT !["main"] = "ask"]
  /\ UNCHANGED <<list, locks, ejob, flushing, flushResult, reported, flushes, thread, server>>

\* Wake the threads and wait on flush_cond, which gives up flush_lock.
FlushAsk ==
  /\ epc["main"] = "ask" /\ condLock = Free
  /\ flushing' = 1
  /\ SignalReady
  /\ flushLock' = Free
  /\ epc' = [epc EXCEPT !["main"] = "answer"]
  /\ UNCHANGED <<list, condLock, ejob, flushResult, reported, flushes,
                 tid, cur, conn, lazy, ret, retry, server>>

\* Mutant: the answer is not taken out of eq->flushing.
MutFlushAnswer ==
  /\ epc["main"] = "answer" /\ flushing = 2
  /\ flushLock = Free /\ condLock = Free
  /\ reported' = flushResult
  /\ epc' = [epc EXCEPT !["main"] = "idle"]
  /\ UNCHANGED <<list, locks, ejob, flushing, flushResult, flushes, thread, server>>

\* pthread_cond_timedwait returns ETIMEDOUT as a positive number, so that the
\* test for a negative one never ends the loop: it ends with the answer.
FlushAnswer ==
  /\ epc["main"] = "answer" /\ flushing = 2
  /\ flushLock = Free /\ condLock = Free
  /\ flushing' = 0
  /\ reported' = flushResult
  /\ epc' = [epc EXCEPT !["main"] = "idle"]
  /\ UNCHANGED <<list, locks, ejob, flushResult, flushes, thread, server>>

-----------------------------------------------------------------------------
(* queue_thread                                                             *)

GoTo(t, p) == tpc' = [tpc EXCEPT ![t] = p]
Set(f, t, v) == [f EXCEPT ![t] = v]

\* Back to the top of the outer loop, holding cond_lock, with ret = 0.
Again(t) == condLock' = t /\ ret' = Set(ret, t, 0) /\ GoTo(t, "loop")

Start(t) ==
  /\ tpc[t] = "start" /\ condLock = Free
  /\ retry' = Set(retry, t, FALSE) /\ lazy' = Set(lazy, t, FALSE)
  /\ Again(t)
  /\ UNCHANGED <<list, flushLock, enq, flush, tid, cur, conn, server>>

\* Mutant: a thread takes the head, whoever is working on its job.
MutAvailable(t) == 1..Len(q)

\* event_queue_get: the messages whose job no other thread is working on
Available(t) == {k \in 1..Len(q) : \A u \in Threads \ {t} : cur[u].job # q[k].job}

\* Nothing to do: wait on ready_cond, for close_timeout or exit_timeout.
Wait(t) ==
  /\ tpc[t] = "loop" /\ Available(t) = {} /\ flushing # 1
  /\ condLock' = Free
  /\ GoTo(t, "wait")
  /\ UNCHANGED <<list, flushLock, enq, flush, tid, cur, conn, lazy, ret, retry, server>>

Wake(t) ==
  /\ tpc[t] = "woken" /\ condLock = Free
  /\ lazy' = Set(lazy, t, FALSE)
  /\ Again(t)
  /\ UNCHANGED <<list, flushLock, enq, flush, tid, cur, conn, retry, server>>

\* Time is up.  Until the thread gets cond_lock back, others may run.
TimeOut(t) ==
  /\ tpc[t] = "wait"
  /\ "idle_race" \in Exposures \/ \A e \in Enqueuers : epc[e] = "idle"
  /\ GoTo(t, "timeout")
  /\ UNCHANGED <<list, locks, enq, flush, tid, cur, conn, lazy, ret, retry, server>>

\* close_timeout has passed: close the connection and look again.  The 1 that
\* event_queue_wait returned stays in ret.
LazyClose(t) ==
  /\ tpc[t] = "timeout" /\ condLock = Free /\ lazy[t]
  /\ condLock' = t
  /\ conn' = Set(conn, t, FALSE) /\ lazy' = Set(lazy, t, FALSE)
  /\ ret' = Set(ret, t, 1)
  /\ GoTo(t, "loop")
  /\ UNCHANGED <<list, flushLock, enq, flush, tid, cur, retry, server>>

\* exit_timeout has passed: the thread ends without another look.
GiveUp(t) ==
  /\ tpc[t] = "timeout" /\ condLock = Free /\ ~lazy[t]
  /\ conn' = Set(conn, t, FALSE)
  /\ GoTo(t, "exit")
  /\ UNCHANGED <<list, locks, enq, flush, tid, cur, lazy, ret, retry, server>>

\* queue_thread_cleanup
Cleanup(t) ==
  /\ tpc[t] = "exit"
  /\ tid' = Set(tid, t, FALSE)
  /\ GoTo(t, "none")
  /\ UNCHANGED <<list, locks, enq, flush, cur, conn, lazy, ret, retry, server>>

\* Something to do: let others signal while the thread is sending.
Deliver(t) ==
  /\ tpc[t] = "loop" /\ (Available(t) # {} \/ flushing = 1)
  /\ condLock' = Free
  /\ GoTo(t, "deliver")
  /\ UNCHANGED <<list, flushLock, enq, flush, tid, cur, conn, lazy, ret, retry, server>>

\* By now another thread may have taken it.
Nothing(t) ==
  /\ tpc[t] = "deliver" /\ Available(t) = {}
  /\ GoTo(t, "report")
  /\ UNCHANGED <<list, locks, enq, flush, tid, cur, conn, lazy, ret, retry, server>>

ConnectFails(t) ==
  /\ tpc[t] = "deliver" /\ Available(t) # {} /\ ~conn[t]
  /\ ret' = Set(ret, t, 0) /\ retry' = Set(retry, t, TRUE)
  /\ GoTo(t, "report")
  /\ UNCHANGED <<list, locks, enq, flush, tid, cur, conn, lazy, server>>

Connect(t) ==
  /\ tpc[t] = "deliver" /\ Available(t) # {}
  /\ conn' = Set(conn, t, TRUE) /\ retry' = Set(retry, t, FALSE)
  /\ GoTo(t, "get")
  /\ UNCHANGED <<list, locks, enq, flush, tid, cur, lazy, ret, server>>

\* event_queue_send, one message: take it and send it ...
Get(t) ==
  /\ tpc[t] = "get" /\ Available(t) # {}
  /\ cur' = Set(cur, t, q[Min(Available(t))])
  /\ GoTo(t, "reply")
  /\ UNCHANGED <<list, locks, enq, flush, tid, conn, lazy, ret, retry, server>>

\* ... there is none: everything has been sent, keep the connection a while ...
AllSent(t) ==
  /\ tpc[t] = "get" /\ Available(t) = {}
  /\ ret' = Set(ret, t, 1) /\ lazy' = Set(lazy, t, CloseIdle)
  /\ GoTo(t, "report")
  /\ UNCHANGED <<list, locks, enq, flush, tid, cur, conn, retry, server>>

Arrives(t) == server' = [server EXCEPT ![cur[t].job] = cur[t].n]

\* event_queue_send returns r, and the connection is closed.
Stops(t, r) ==
  /\ ret' = Set(ret, t, r) /\ conn' = Set(conn, t, FALSE)
  /\ GoTo(t, "report")

\* ... it fails, before or after the server has taken the event ...
SendFails(t) ==
  /\ tpc[t] = "reply"
  /\ Arrives(t) \/ UNCHANGED server
  /\ Stops(t, 0)
  /\ UNCHANGED <<list, locks, enq, flush, tid, cur, lazy, retry>>

\* ... the commit fails, and the thread will end ...
CommitFails(t) ==
  /\ "dies" \in Exposures /\ tpc[t] = "reply"
  /\ Arrives(t)
  /\ Stops(t, -1)
  /\ UNCHANGED <<list, locks, enq, flush, tid, cur, lazy, retry>>

\* Mutant: throttling stays on.
MutRemoved(t) ==
  /\ tpc[t] = "reply"
  /\ Arrives(t)
  /\ q' = RemoveFirst(q, cur[t])
  /\ cur' = Set(cur, t, NoMsg)
  /\ GoTo(t, "get")
  /\ UNCHANGED <<throttling, next, locks, enq, flush, tid, conn, lazy, ret, retry>>

\* ... or it is done: event_queue_remove.
Removed(t) ==
  /\ tpc[t] = "reply"
  /\ Arrives(t)
  /\ q' = RemoveFirst(q, cur[t])
  /\ throttling' = (throttling /\ Len(q') > Low)
  /\ cur' = Set(cur, t, NoMsg)
  /\ GoTo(t, "get")
  /\ UNCHANGED <<next, locks, enq, flush, tid, conn, lazy, ret, retry>>

\* The report to a flush: under flush_lock ...
LockFlush(t) ==
  /\ tpc[t] = "report" /\ flushLock = Free
  /\ flushLock' = t
  /\ GoTo(t, "flush")
  /\ UNCHANGED <<list, condLock, enq, flush, tid, cur, conn, lazy, ret, retry, server>>

\* After a failed connect the thread sleeps; after a failed commit it ends.
Afterwards(t) ==
  IF ret[t] = 0 /\ retry[t] THEN GoTo(t, "sleep") /\ UNCHANGED <<condLock, ret>>
  ELSE IF ret[t] = -1 THEN GoTo(t, "exit") /\ UNCHANGED <<condLock, ret>>
  ELSE Again(t)

\* Mutant: flush_lock stays locked when there is nothing to report.
MutReport(t) ==
  /\ tpc[t] = "flush" /\ condLock = Free
  /\ IF flushing = 1 THEN flushing' = 2 /\ flushResult' = ret[t] /\ flushLock' = Free
     ELSE UNCHANGED <<flushing, flushResult, flushLock>>
  /\ cur' = Set(cur, t, NoMsg)
  /\ Afterwards(t)
  /\ UNCHANGED <<list, enq, reported, flushes, tid, conn, lazy, retry, server>>

\* ... and cond_lock.
Report(t) ==
  /\ tpc[t] = "flush" /\ condLock = Free
  /\ IF flushing = 1 THEN flushing' = 2 /\ flushResult' = ret[t]
     ELSE UNCHANGED <<flushing, flushResult>>
  /\ flushLock' = Free
  /\ cur' = Set(cur, t, NoMsg)
  /\ Afterwards(t)
  /\ UNCHANGED <<list, enq, reported, flushes, tid, conn, lazy, retry, server>>

\* The sleep ends, by time or by the flush.
SleepOver(t) ==
  /\ tpc[t] = "sleep" /\ condLock = Free
  /\ Again(t)
  /\ UNCHANGED <<list, flushLock, enq, flush, tid, cur, conn, lazy, retry, server>>

-----------------------------------------------------------------------------
Enqueue(e) == LockCond(e) \/ Insert(e) \/ Refuse(e) \/ Signal(e)
Flush == FlushCommand \/ FlushEmpty \/ FlushPending \/ FlushAsk \/ FlushAnswer

Sending(t) ==
  \/ Deliver(t) \/ Nothing(t) \/ ConnectFails(t) \/ Connect(t) \/ Get(t) \/ AllSent(t)
  \/ SendFails(t) \/ CommitFails(t) \/ Removed(t)
Idling(t) ==
  \/ Start(t) \/ Wait(t) \/ TimeOut(t) \/ LazyClose(t) \/ GiveUp(t) \/ Cleanup(t)
  \/ Wake(t) \/ LockFlush(t) \/ Report(t) \/ SleepOver(t)

Next == \/ \E e \in Enqueuers : Enqueue(e) \/ \E j \in Jobs : CreateThreads(e, j)
        \/ Flush
        \/ \E t \in Threads : Sending(t) \/ Idling(t)

Spec == Init /\ [][Next]_vars

\* Threads are scheduled, a mutex is granted to one who keeps asking, the
\* recovery thread keeps reading the files, and a server that is tried again
\* and again answers in the end.  Nobody has to send a flush or to time out.
Fairness ==
  /\ \A e \in Enqueuers : SF_vars(Enqueue(e))
  /\ \A j \in Jobs : SF_vars(CreateThreads("recover", j))
  /\ SF_vars(FlushEmpty \/ FlushPending \/ FlushAsk \/ FlushAnswer)
  /\ \A t \in Threads :
       /\ SF_vars((Sending(t) \/ Idling(t)) /\ ~TimeOut(t))
       /\ SF_vars(Connect(t)) /\ SF_vars(Removed(t))

FairSpec == Spec /\ Fairness

-----------------------------------------------------------------------------
(* Properties                                                               *)

\* The server gets the events of a job in their order: each time the one it
\* got last, once more, or the next one, whichever threads deliver them and
\* however often the connection breaks.
ServerOrder ==
  [][\A j \in Jobs : server'[j] \in {server[j], server[j] + 1}]_server

\* No answer to an earlier flush is left for the next one.
NoStaleAnswer == epc["main"] # "answer" => flushing = 0

\* "avoid losing signal to thread": all events are delivered in the end,
\* although threads come and go and the queue is throttled.
EventuallyAll == <>[](q = <<>> /\ \A j \in Jobs : server[j] = PerJob)

\* A flush command is answered, and the main loop goes on.
FlushReturns == epc["main"] = "flush" ~> epc["main"] = "idle"

=============================================================================
