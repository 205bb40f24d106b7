------------------------- MODULE QueueThreadProofs -------------------------
(***************************************************************************)
(* Proofs about QueueThread: type correctness, the order in which the       *)
(* server gets a job's events, and the answers to flush commands, for any   *)
(* number of queue threads, jobs and events, any limits of the queue and    *)
(* every exposure.                                                          *)
(***************************************************************************)
EXTENDS QueueThread, DataFacts

-----------------------------------------------------------------------------
(* The inductive invariant.                                                 *)

\* An enqueuing thread on its way to event_queue_insert has a job of its own
\* with an event left.
EnqueueInv ==
  /\ \A e \in Enqueuers : epc[e] \in {"lock", "locked"} =>
       ejob[e] \in Jobs /\ next[ejob[e]] <= PerJob
  /\ \A e, f \in Enqueuers : e # f /\ ejob[e] \in Jobs => ejob[f] # ejob[e]

\* A thread holds a message from event_queue_get until it has reported, and no
\* two threads hold messages of one job.
ThreadInv ==
  /\ \A t \in Threads : ~tid[t] => tpc[t] = "none"
  /\ \A t \in Threads : cur[t] # NoMsg => tpc[t] \in {"reply", "report", "flush"}
  /\ \A t \in Threads : tpc[t] = "reply" => cur[t] # NoMsg
  /\ \A t, u \in Threads : t # u /\ cur[t] # NoMsg => cur[u].job # cur[t].job

\* The queue has a job's events that the server has not got, in their order,
\* and perhaps the one it got last.
QueueInv ==
  /\ \A j \in Jobs : server[j] < next[j]
  /\ \A k \in 1..Len(q) : server[q[k].job] <= q[k].n /\ q[k].n < next[q[k].job]
  /\ \A k, l \in 1..Len(q) : k < l /\ q[k].job = q[l].job => q[k].n < q[l].n
  /\ \A j \in Jobs : \A n \in 1..PerJob : server[j] < n /\ n < next[j] =>
       \E k \in 1..Len(q) : q[k].job = j /\ q[k].n = n

\* A thread's message is the first one of its job.
FirstInv ==
  \A t \in Threads : cur[t] # NoMsg =>
    \E k \in 1..Len(q) : q[k] = cur[t] /\ \A l \in 1..k - 1 : q[l].job # cur[t].job

IInv == TypeOK /\ EnqueueInv /\ ThreadInv /\ QueueInv /\ FirstInv /\ NoStaleAnswer

-----------------------------------------------------------------------------
(* The operators.                                                           *)

\* There is always a type for the message a thread does not have.
LEMMA MsgTypes ==
  /\ NoMsg.job = NoJob /\ NoMsg.n = 0
  /\ NoMsg \notin Msgs
  /\ \A m \in Msgs : m.job \in Jobs /\ m.n \in 1..PerJob /\ m = [job |-> m.job, n |-> m.n]
  BY QueueAssumption DEF Msgs, NoMsg

\* event_queue_get returns the first message whose job is free.
LEMMA GetFirst ==
  ASSUME TypeOK, NEW t \in Threads, Available(t) # {}
  PROVE  /\ Min(Available(t)) \in Available(t)
         /\ \A k \in Available(t) : Min(Available(t)) <= k
<1>1. Len(q) \in Nat
  BY LenProperties DEF TypeOK
<1>2. Available(t) \in SUBSET Nat
  BY <1>1 DEF Available
<1> QED BY <1>2, MinProperty

\* What a message that reaches the server does to the server's record.
LEMMA ArrivesType ==
  ASSUME TypeOK, NEW t \in Threads, cur[t] \in Msgs, Arrives(t)
  PROVE  server' \in [Jobs -> 0..PerJob]
<1>1. cur[t].job \in Jobs /\ cur[t].n \in 0..PerJob
  BY QueueAssumption, MsgTypes
<1> QED BY <1>1 DEF TypeOK, Arrives

\* pthread_cond_signal wakes at most one thread, which was waiting.
LEMMA SignalShape ==
  ASSUME SignalReady
  PROVE  tpc' = tpc \/ \E t \in Threads : tpc[t] = "wait" /\ tpc' = [tpc EXCEPT ![t] = "woken"]
  BY DEF SignalReady, Waiting

\* Where a thread goes after its report.
LEMMA AfterwardsShape ==
  ASSUME NEW t \in Threads, Afterwards(t)
  PROVE  \E p \in {"sleep", "exit", "loop"} : tpc' = [tpc EXCEPT ![t] = p]
  BY DEF Afterwards, Again, GoTo

\* Each step of a thread, of an enqueuing thread or of the flush command keeps
\* the types.
LEMMA TypeStep == IInv /\ [Next]_vars => TypeOK'
<1> SUFFICES ASSUME IInv, [Next]_vars PROVE TypeOK'
  OBVIOUS
<1>0. TypeOK /\ EnqueueInv /\ ThreadInv /\ FirstInv
  BY DEF IInv
<1> USE QueueAssumption DEF list, locks, enq, flush, thread, GoTo, Set
<1>1. ASSUME NEW e \in Enqueuers, LockCond(e) PROVE TypeOK'
  BY <1>0, <1>1 DEF TypeOK, LockCond
<1>2. ASSUME NEW e \in Enqueuers, Insert(e) PROVE TypeOK'
  <2>1. ejob[e] \in Jobs /\ next[ejob[e]] \in 1..PerJob
    BY <1>0, <1>2 DEF TypeOK, Insert, EnqueueInv
  <2>2. CASE Full
    BY <1>0, <1>2, <2>2 DEF TypeOK, Insert
  <2>3. CASE ~Full
    <3>1. q' \in Seq(Msgs)
      <4>1. [job |-> ejob[e], n |-> next[ejob[e]]] \in Msgs
        BY <2>1 DEF Msgs
      <4>2. q' = Append(q, [job |-> ejob[e], n |-> next[ejob[e]]])
        BY <1>2, <2>3 DEF Insert
      <4> QED BY <1>0, <4>1, <4>2, AppendProperties DEF TypeOK
    <3>2. next' \in [Jobs -> 1..PerJob + 1]
      BY <1>0, <1>2, <2>1, <2>3 DEF TypeOK, Insert
    <3> QED BY <1>0, <1>2, <2>3, <3>1, <3>2 DEF TypeOK, Insert
  <2> QED BY <2>2, <2>3
<1>3. ASSUME NEW e \in Enqueuers, Refuse(e) PROVE TypeOK'
  BY <1>0, <1>3 DEF TypeOK, Refuse
<1>4. ASSUME NEW e \in Enqueuers, Signal(e) PROVE TypeOK'
  BY <1>0, <1>4 DEF TypeOK, Signal, SignalReady, Waiting
<1>5. ASSUME FlushCommand PROVE TypeOK'
  BY <1>0, <1>5 DEF TypeOK, FlushCommand, Enqueuers
<1>6. ASSUME FlushEmpty PROVE TypeOK'
  BY <1>0, <1>6 DEF TypeOK, FlushEmpty
<1>7. ASSUME FlushPending PROVE TypeOK'
  BY <1>0, <1>7 DEF TypeOK, FlushPending
<1>8. ASSUME FlushAsk PROVE TypeOK'
  <2>1. tpc' \in [Threads -> {"none", "start", "loop", "wait", "woken", "timeout", "exit",
                          "deliver", "get", "reply", "report", "flush", "sleep"}]
    BY <1>0, <1>8, SignalShape DEF TypeOK, FlushAsk
  <2> QED BY <1>0, <1>8, <2>1 DEF TypeOK, FlushAsk, Enqueuers
<1>9. ASSUME FlushAnswer PROVE TypeOK'
  BY <1>0, <1>9 DEF TypeOK, FlushAnswer, Enqueuers
<1>10. ASSUME NEW t \in Threads, Deliver(t) PROVE TypeOK'
  BY <1>0, <1>10 DEF TypeOK, Deliver
<1>11. ASSUME NEW t \in Threads, Nothing(t) PROVE TypeOK'
  BY <1>0, <1>11 DEF TypeOK, Nothing
<1>12. ASSUME NEW t \in Threads, ConnectFails(t) PROVE TypeOK'
  BY <1>0, <1>12 DEF TypeOK, ConnectFails
<1>13. ASSUME NEW t \in Threads, Connect(t) PROVE TypeOK'
  BY <1>0, <1>13 DEF TypeOK, Connect
<1>14. ASSUME NEW t \in Threads, Get(t) PROVE TypeOK'
  <2>1. Min(Available(t)) \in 1..Len(q)
    BY <1>0, <1>14, GetFirst DEF Get, Available
  <2>2. q[Min(Available(t))] \in Msgs
    BY <1>0, <2>1, ElementOfSeq DEF TypeOK
  <2> QED BY <1>0, <1>14, <2>2 DEF TypeOK, Get
<1>15. ASSUME NEW t \in Threads, AllSent(t) PROVE TypeOK'
  BY <1>0, <1>15 DEF TypeOK, AllSent
<1>16. ASSUME NEW t \in Threads, SendFails(t) PROVE TypeOK'
  <2>1. cur[t] \in Msgs
    BY <1>0, <1>16 DEF TypeOK, ThreadInv, SendFails
  <2>2. server' \in [Jobs -> 0..PerJob]
    BY <1>0, <1>16, <2>1, ArrivesType DEF SendFails, TypeOK
  <2> QED BY <1>0, <1>16, <2>2 DEF TypeOK, SendFails, Stops
<1>17. ASSUME NEW t \in Threads, CommitFails(t) PROVE TypeOK'
  <2>1. cur[t] \in Msgs
    BY <1>0, <1>17 DEF TypeOK, ThreadInv, CommitFails
  <2>2. server' \in [Jobs -> 0..PerJob]
    BY <1>0, <1>17, <2>1, ArrivesType DEF CommitFails
  <2> QED BY <1>0, <1>17, <2>2 DEF TypeOK, CommitFails, Stops
<1>18. ASSUME NEW t \in Threads, Removed(t) PROVE TypeOK'
  <2>1. cur[t] \in Msgs /\ \E k \in 1..Len(q) : q[k] = cur[t]
    BY <1>0, <1>18 DEF TypeOK, ThreadInv, FirstInv, Removed
  <2>2. server' \in [Jobs -> 0..PerJob]
    BY <1>0, <1>18, <2>1, ArrivesType DEF Removed
  <2>3. q' \in Seq(Msgs)
    BY <1>0, <1>18, <2>1, RemoveFirstProperty DEF TypeOK, Removed
  <2>4. throttling' \in BOOLEAN
    BY <1>18, Zenon DEF Removed
  <2> QED BY <1>0, <1>18, <2>2, <2>3, <2>4 DEF TypeOK, Removed
<1>19. ASSUME NEW t \in Threads, Start(t) PROVE TypeOK'
  BY <1>0, <1>19 DEF TypeOK, Start, Again
<1>20. ASSUME NEW t \in Threads, Wait(t) PROVE TypeOK'
  BY <1>0, <1>20 DEF TypeOK, Wait
<1>21. ASSUME NEW t \in Threads, TimeOut(t) PROVE TypeOK'
  BY <1>0, <1>21 DEF TypeOK, TimeOut
<1>22. ASSUME NEW t \in Threads, LazyClose(t) PROVE TypeOK'
  BY <1>0, <1>22 DEF TypeOK, LazyClose
<1>23. ASSUME NEW t \in Threads, GiveUp(t) PROVE TypeOK'
  BY <1>0, <1>23 DEF TypeOK, GiveUp
<1>24. ASSUME NEW t \in Threads, Cleanup(t) PROVE TypeOK'
  BY <1>0, <1>24 DEF TypeOK, Cleanup
<1>25. ASSUME NEW t \in Threads, Wake(t) PROVE TypeOK'
  BY <1>0, <1>25 DEF TypeOK, Wake, Again
<1>26. ASSUME NEW t \in Threads, LockFlush(t) PROVE TypeOK'
  BY <1>0, <1>26 DEF TypeOK, LockFlush
<1>27. ASSUME NEW t \in Threads, Report(t) PROVE TypeOK'
  <2>1. tpc' \in [Threads -> {"none", "start", "loop", "wait", "woken", "timeout", "exit",
                          "deliver", "get", "reply", "report", "flush", "sleep"}]
    <3>1. PICK p \in {"sleep", "exit", "loop"} : tpc' = [tpc EXCEPT ![t] = p]
      BY <1>27, AfterwardsShape DEF Report
    <3> QED BY <1>0, <3>1 DEF TypeOK
  <2>2. ret' \in [Threads -> {-1, 0, 1}]
    BY <1>0, <1>27 DEF TypeOK, Report, Afterwards, Again
  <2>3. condLock' \in Threads \cup Enqueuers \cup {Free}
    BY <1>0, <1>27 DEF TypeOK, Report, Afterwards, Again
  <2>4. flushing' \in 0..2 /\ flushResult' \in {-1, 0, 1}
    BY <1>0, <1>27 DEF TypeOK, Report
  <2> QED BY <1>0, <1>27, <2>1, <2>2, <2>3, <2>4 DEF TypeOK, Report
<1>28. ASSUME NEW t \in Threads, SleepOver(t) PROVE TypeOK'
  BY <1>0, <1>28 DEF TypeOK, SleepOver, Again
<1>29. ASSUME NEW e \in Enqueuers, NEW j \in Jobs, CreateThreads(e, j) PROVE TypeOK'
  BY <1>0, <1>29 DEF TypeOK, CreateThreads
<1>30. CASE UNCHANGED vars
  BY <1>0, <1>30 DEF TypeOK, vars
<1> QED
  BY <1>1, <1>2, <1>3, <1>4, <1>5, <1>6, <1>7, <1>8, <1>9, <1>10, <1>11, <1>12, <1>13, <1>14, <1>15, <1>16, <1>17, <1>18, <1>19, <1>20, <1>21, <1>22, <1>23, <1>24, <1>25, <1>26, <1>27, <1>28, <1>29, <1>30
     DEF Next, Enqueue, Flush, Sending, Idling

-----------------------------------------------------------------------------
(* The enqueuing threads, the queue threads and the flush command.          *)

\* Two threads that enqueue work on different jobs, each with an event left.
LEMMA EnqueueStep == IInv /\ [Next]_vars => EnqueueInv'
<1> SUFFICES ASSUME IInv, [Next]_vars PROVE EnqueueInv'
  OBVIOUS
<1>0. TypeOK /\ EnqueueInv
  BY DEF IInv
<1> USE QueueAssumption DEF list, enq
<1>1. ASSUME NEW e \in Enqueuers, NEW j \in Jobs, CreateThreads(e, j) PROVE EnqueueInv'
  BY <1>0, <1>1 DEF TypeOK, EnqueueInv, CreateThreads
<1>2. ASSUME NEW e \in Enqueuers, LockCond(e) \/ Refuse(e) PROVE EnqueueInv'
  BY <1>0, <1>2 DEF TypeOK, EnqueueInv, LockCond, Refuse
<1>3. ASSUME NEW e \in Enqueuers, Insert(e) PROVE EnqueueInv'
  <2>1. epc[e] = "locked" /\ ejob[e] \in Jobs /\ ejob' = ejob
    BY <1>0, <1>3 DEF EnqueueInv, Insert
  <2>2. \E p \in {"signal", "refused"} : epc' = [epc EXCEPT ![e] = p]
    BY <1>3 DEF Insert
  <2>3. \A f \in Enqueuers : epc'[f] \in {"lock", "locked"} => f # e /\ epc'[f] = epc[f]
    BY <1>0, <2>2 DEF TypeOK
  <2>4. \A j \in Jobs : j # ejob[e] => next'[j] = next[j]
    BY <1>0, <1>3 DEF TypeOK, Insert
  <2> QED BY <1>0, <2>1, <2>3, <2>4 DEF TypeOK, EnqueueInv
<1>4. ASSUME NEW e \in Enqueuers, Signal(e) PROVE EnqueueInv'
  BY <1>0, <1>4 DEF TypeOK, EnqueueInv, Signal
<1>5. ASSUME Flush PROVE EnqueueInv'
  <2>1. \E p \in {"flush", "idle", "ask", "answer"} : epc' = [epc EXCEPT !["main"] = p]
    BY <1>5 DEF Flush, FlushCommand, FlushEmpty, FlushPending, FlushAsk, FlushAnswer
  <2>2. UNCHANGED <<ejob, next>>
    BY <1>5 DEF Flush, FlushCommand, FlushEmpty, FlushPending, FlushAsk, FlushAnswer
  <2>3. \A f \in Enqueuers : epc'[f] \in {"lock", "locked"} => epc'[f] = epc[f]
    BY <1>0, <2>1 DEF TypeOK
  <2> QED BY <1>0, <2>2, <2>3 DEF EnqueueInv
<1>6. ASSUME NEW t \in Threads, Sending(t) \/ Idling(t) PROVE UNCHANGED <<epc, ejob, next>>
  BY <1>6 DEF Sending, Deliver, Nothing, ConnectFails, Connect, Get, AllSent, SendFails,
              CommitFails, Removed, Idling, Start, Wait, TimeOut, LazyClose, GiveUp, Cleanup,
              Wake, LockFlush, Report, SleepOver
<1>7. CASE UNCHANGED <<epc, ejob, next>>
  BY <1>0, <1>7 DEF EnqueueInv
<1> QED BY <1>1, <1>2, <1>3, <1>4, <1>5, <1>6, <1>7 DEF Next, Enqueue, vars

\* Threads that hold messages hold them of different jobs.
LEMMA ThreadStep == IInv /\ [Next]_vars => ThreadInv'
<1> SUFFICES ASSUME IInv, [Next]_vars PROVE ThreadInv'
  OBVIOUS
<1>0. TypeOK /\ ThreadInv
  BY DEF IInv
<1> USE DEF thread, GoTo, Set
<1>1. ASSUME NEW e \in Enqueuers, NEW j \in Jobs, CreateThreads(e, j) PROVE ThreadInv'
  <2>1. \A t \in Threads : tpc'[t] = IF tid[t] THEN tpc[t] ELSE "start"
    BY <1>1 DEF CreateThreads
  <2>2. cur' = cur /\ \A t \in Threads : tid'[t]
    BY <1>1 DEF CreateThreads
  <2> QED BY <1>0, <2>1, <2>2 DEF ThreadInv
<1>2. ASSUME SignalReady, UNCHANGED <<tid, cur>> PROVE ThreadInv'
  <2>1. CASE tpc' = tpc
    BY <1>0, <1>2, <2>1 DEF ThreadInv
  <2>2. ASSUME NEW t \in Threads, tpc[t] = "wait", tpc' = [tpc EXCEPT ![t] = "woken"]
        PROVE  ThreadInv'
    BY <1>0, <1>2, <2>2 DEF TypeOK, ThreadInv
  <2> QED BY <1>2, <2>1, <2>2, SignalShape
<1>3. ASSUME NEW t \in Threads, NEW p \in {"start", "loop", "wait", "woken", "timeout", "exit",
                                            "deliver", "get", "report", "sleep"},
             tpc[t] \notin {"none", "report", "flush"}, tpc' = [tpc EXCEPT ![t] = p],
             tpc[t] # "reply" \/ p = "report", UNCHANGED <<tid, cur>>
      PROVE  ThreadInv'
  BY <1>0, <1>3 DEF TypeOK, ThreadInv
<1>4. ASSUME NEW t \in Threads, Get(t) PROVE ThreadInv'
  <2> DEFINE m == q[Min(Available(t))]
  <2>1. m \in Msgs /\ \A u \in Threads : u # t => cur[u].job # m.job
    <3>1. Min(Available(t)) \in Available(t)
      BY <1>0, <1>4, GetFirst DEF Get
    <3>2. Min(Available(t)) \in 1..Len(q)
      BY <3>1 DEF Available
    <3>3. m \in Msgs
      BY <1>0, <3>2, ElementOfSeq DEF TypeOK
    <3> QED BY <3>1, <3>3 DEF Available
  <2>2. m # NoMsg
    BY <2>1, MsgTypes
  <2>3. tpc[t] = "get" /\ tpc' = [tpc EXCEPT ![t] = "reply"] /\ cur' = [cur EXCEPT ![t] = m]
        /\ tid' = tid
    BY <1>4 DEF Get
  <2> HIDE DEF m
  <2> QED BY <1>0, <2>1, <2>2, <2>3 DEF TypeOK, ThreadInv
<1>5. ASSUME NEW t \in Threads, NEW p \in {"get", "sleep", "exit", "loop"},
             tpc[t] \in {"reply", "flush"}, tpc' = [tpc EXCEPT ![t] = p],
             cur' = [cur EXCEPT ![t] = NoMsg], tid' = tid
      PROVE  ThreadInv'
  <2>1. \A u \in Threads : cur'[u] # NoMsg => cur[u] = cur'[u] /\ u # t /\ NoJob # cur[u].job
    BY <1>0, <1>5, MsgTypes, QueueAssumption DEF TypeOK
  <2>2. \A u \in Threads : cur'[u].job = IF u = t THEN NoJob ELSE cur[u].job
    BY <1>0, <1>5, MsgTypes DEF TypeOK
  <2> QED BY <1>0, <1>5, <2>1, <2>2 DEF TypeOK, ThreadInv
<1>6. ASSUME NEW t \in Threads, Removed(t) PROVE ThreadInv'
  BY <1>5, <1>6 DEF Removed
<1>7. ASSUME NEW t \in Threads, Report(t) PROVE ThreadInv'
  BY <1>5, <1>7, AfterwardsShape DEF Report
<1>8. ASSUME NEW t \in Threads, Cleanup(t) PROVE ThreadInv'
  BY <1>0, <1>8 DEF TypeOK, ThreadInv, Cleanup
<1>9. ASSUME NEW t \in Threads, LockFlush(t) PROVE ThreadInv'
  BY <1>0, <1>9 DEF TypeOK, ThreadInv, LockFlush
<1>10. ASSUME NEW t \in Threads, Sending(t), ~Get(t), ~Removed(t) PROVE ThreadInv'
  BY <1>3, <1>10 DEF Sending, Deliver, Nothing, ConnectFails, Connect, AllSent, SendFails,
                     CommitFails, Stops
<1>11. ASSUME NEW t \in Threads, Idling(t), ~Cleanup(t), ~LockFlush(t), ~Report(t)
       PROVE  ThreadInv'
  BY <1>3, <1>11 DEF Idling, Start, Wait, TimeOut, LazyClose, GiveUp, Wake, SleepOver, Again
<1>12. ASSUME NEW e \in Enqueuers, Enqueue(e)
       PROVE  UNCHANGED <<tid, tpc, cur>> \/ (SignalReady /\ UNCHANGED <<tid, cur>>)
  BY <1>12 DEF Enqueue, LockCond, Insert, Refuse, Signal
<1>13. ASSUME Flush
       PROVE  UNCHANGED <<tid, tpc, cur>> \/ (SignalReady /\ UNCHANGED <<tid, cur>>)
  BY <1>13 DEF Flush, FlushCommand, FlushEmpty, FlushPending, FlushAsk, FlushAnswer
<1>14. CASE UNCHANGED <<tid, tpc, cur>>
  BY <1>0, <1>14 DEF ThreadInv
<1> QED BY <1>1, <1>2, <1>4, <1>6, <1>7, <1>8, <1>9, <1>10, <1>11, <1>12, <1>13, <1>14
        DEF Next, vars

\* An answer is given only while the flush command waits for it, and taken away.
LEMMA FlushStep == IInv /\ [Next]_vars => NoStaleAnswer'
<1> SUFFICES ASSUME IInv, [Next]_vars PROVE NoStaleAnswer'
  OBVIOUS
<1>0. TypeOK /\ NoStaleAnswer
  BY DEF IInv
<1>1. "main" \in Enqueuers
  BY DEF Enqueuers
<1> USE DEF flush, enq, NoStaleAnswer
<1>2. ASSUME NEW e \in Enqueuers, Enqueue(e) \/ \E j \in Jobs : CreateThreads(e, j)
      PROVE  NoStaleAnswer'
  <2>1. flushing' = flushing /\ epc[e] # "answer" /\ \E p : epc' = [epc EXCEPT ![e] = p]
    BY <1>2 DEF Enqueue, LockCond, Insert, Refuse, Signal, CreateThreads
  <2> QED BY <1>0, <1>1, <2>1 DEF TypeOK
<1>3. ASSUME Flush PROVE NoStaleAnswer'
  BY <1>0, <1>1, <1>3
     DEF TypeOK, Flush, FlushCommand, FlushEmpty, FlushPending, FlushAsk, FlushAnswer
<1>4. ASSUME NEW t \in Threads, Report(t) PROVE NoStaleAnswer'
  BY <1>0, <1>4 DEF Report
<1>5. ASSUME NEW t \in Threads, Sending(t) \/ Idling(t), ~Report(t)
      PROVE  UNCHANGED <<epc, flushing>>
  BY <1>5 DEF Sending, Deliver, Nothing, ConnectFails, Connect, Get, AllSent, SendFails,
              CommitFails, Removed, Idling, Start, Wait, TimeOut, LazyClose, GiveUp, Cleanup,
              Wake, LockFlush, SleepOver
<1>6. CASE UNCHANGED <<epc, flushing>>
  BY <1>0, <1>6
<1> QED BY <1>2, <1>3, <1>4, <1>5, <1>6 DEF Next, vars

-----------------------------------------------------------------------------
(* The queue.                                                               *)

\* The steps that touch the list, a thread's message or the server.
LEMMA QueueActions ==
  [Next]_vars =>
    \/ UNCHANGED <<q, next, server, cur>>
    \/ \E e \in Enqueuers : Insert(e) /\ ~Full
    \/ \E t \in Threads : Get(t) \/ Removed(t) \/ Report(t)
    \/ \E t \in Threads : tpc[t] = "reply" /\ Arrives(t) /\ UNCHANGED <<q, next, cur>>
<1> USE DEF list
<1>1. ASSUME NEW e \in Enqueuers, NEW j \in Jobs, CreateThreads(e, j)
      PROVE  UNCHANGED <<q, next, server, cur>>
  BY <1>1 DEF CreateThreads
<1>2. ASSUME NEW e \in Enqueuers, Enqueue(e)
      PROVE  UNCHANGED <<q, next, server, cur>> \/ (Insert(e) /\ ~Full)
  BY <1>2 DEF Enqueue, LockCond, Insert, Refuse, Signal, thread
<1>3. ASSUME Flush PROVE UNCHANGED <<q, next, server, cur>>
  BY <1>3 DEF Flush, FlushCommand, FlushEmpty, FlushPending, FlushAsk, FlushAnswer, thread
<1>4. ASSUME NEW t \in Threads, Idling(t), ~Report(t) PROVE UNCHANGED <<q, next, server, cur>>
  BY <1>4 DEF Idling, Start, Wait, TimeOut, LazyClose, GiveUp, Cleanup, Wake, LockFlush, SleepOver
<1>5. ASSUME NEW t \in Threads, Sending(t), ~Get(t), ~Removed(t)
      PROVE  \/ UNCHANGED <<q, next, server, cur>>
             \/ tpc[t] = "reply" /\ Arrives(t) /\ UNCHANGED <<q, next, cur>>
  BY <1>5 DEF Sending, Deliver, Nothing, ConnectFails, Connect, AllSent, SendFails, CommitFails
<1>6. UNCHANGED vars => UNCHANGED <<q, next, server, cur>>
  BY DEF vars
<1> QED BY <1>1, <1>2, <1>3, <1>4, <1>5, <1>6 DEF Next

\* The message a thread holds is in the queue, it is the one its job's server
\* got last or the next one, and the queue has no earlier one of its job.
LEMMA Held ==
  ASSUME IInv, NEW t \in Threads, cur[t] # NoMsg
  PROVE  /\ cur[t] \in Msgs
         /\ cur[t].n \in {server[cur[t].job], server[cur[t].job] + 1}
         /\ cur[t].n < next[cur[t].job]
         /\ \A k \in 1..Len(q) : q[k].job = cur[t].job => q[k] = cur[t] \/ cur[t].n < q[k].n
         /\ \E k \in 1..Len(q) : q[k] = cur[t]
<1>1. TypeOK /\ QueueInv /\ FirstInv
  BY DEF IInv
<1> DEFINE j == cur[t].job
           n == cur[t].n
<1>2. cur[t] \in Msgs
  BY <1>1 DEF TypeOK
<1>3. j \in Jobs /\ n \in 1..PerJob
  BY <1>2, MsgTypes
<1>4. PICK k \in 1..Len(q) : q[k] = cur[t] /\ \A l \in 1..k - 1 : q[l].job # j
  BY <1>1 DEF FirstInv
<1>5. Len(q) \in Nat /\ server[j] \in 0..PerJob /\ next[j] \in 1..PerJob + 1
  BY <1>1, <1>3, LenProperties DEF TypeOK
<1>6. server[j] <= n /\ n < next[j]
  BY <1>1, <1>4 DEF QueueInv
<1>7. ASSUME NEW l \in 1..Len(q), q[l].job = j PROVE q[l] = cur[t] \/ n < q[l].n
  <2>1. ~(l < k)
    BY <1>4, <1>5, <1>7
  <2> QED BY <1>1, <1>4, <1>5, <1>7, <2>1 DEF QueueInv
<1>8. n \in {server[j], server[j] + 1}
  <2> SUFFICES ASSUME server[j] + 1 < n PROVE FALSE
    BY <1>3, <1>5, <1>6, QueueAssumption
  <2>1. server[j] + 1 \in 1..PerJob /\ server[j] < server[j] + 1 /\ server[j] + 1 < next[j]
    BY <1>3, <1>5, <1>6, QueueAssumption
  <2>2. PICK l \in 1..Len(q) : q[l].job = j /\ q[l].n = server[j] + 1
    BY <1>1, <1>3, <2>1 DEF QueueInv
  <2>3. q[l] = cur[t] \/ n < q[l].n
    BY <1>7, <2>2
  <2> QED BY <1>3, <1>5, <2>2, <2>3, QueueAssumption
<1> QED BY <1>2, <1>4, <1>6, <1>7, <1>8

\* What event_queue_remove leaves of the list.
LEMMA RemovedShape ==
  ASSUME IInv, NEW t \in Threads, Removed(t)
  PROVE  \E p \in 1..Len(q) :
           /\ q[p] = cur[t] /\ Len(q') = Len(q) - 1 /\ Len(q) \in Nat /\ cur[t] # NoMsg
           /\ \A k \in 1..Len(q') : q'[k] = IF k < p THEN q[k] ELSE q[k + 1]
<1>1. cur[t] # NoMsg /\ q \in Seq(Msgs)
  BY DEF IInv, ThreadInv, TypeOK, Removed
<1>2. \E k \in 1..Len(q) : q[k] = cur[t]
  BY <1>1, Held
<1>3. q' = RemoveFirst(q, cur[t])
  BY DEF Removed
<1>4. Len(q') = Len(q) - 1
  BY <1>1, <1>2, <1>3, RemoveFirstProperty
<1>5. PICK p \in 1..Len(q) :
        /\ q[p] = cur[t]
        /\ \A k \in 1..Len(q) - 1 : q'[k] = IF k < p THEN q[k] ELSE q[k + 1]
  <2>1. /\ FirstAt(q, cur[t]) \in 1..Len(q) /\ q[FirstAt(q, cur[t])] = cur[t]
        /\ \A k \in 1..Len(q) - 1 :
             q'[k] = IF k < FirstAt(q, cur[t]) THEN q[k] ELSE q[k + 1]
    BY <1>1, <1>2, <1>3, RemoveFirstProperty
  <2> QED BY <2>1
<1> QED BY <1>1, <1>4, <1>5, LenProperties

\* The queue keeps a job's events in order and without gaps.
LEMMA QueueStep == IInv /\ [Next]_vars => QueueInv'
<1> SUFFICES ASSUME IInv, [Next]_vars PROVE QueueInv'
  OBVIOUS
<1>0. TypeOK /\ TypeOK' /\ QueueInv
  BY TypeStep DEF IInv
<1>a. Len(q) \in Nat /\ Len(q') \in Nat
  BY <1>0, LenProperties DEF TypeOK
<1>b. \A k \in 1..Len(q) : q[k].job \in Jobs /\ q[k].n \in 1..PerJob
  BY <1>0, ElementOfSeq, MsgTypes DEF TypeOK
<1>c. \A j \in Jobs : server[j] \in 0..PerJob /\ next[j] \in 1..PerJob + 1
  BY <1>0 DEF TypeOK
<1>1. CASE UNCHANGED <<q, next, server>>
  BY <1>0, <1>1 DEF QueueInv
<1>2. ASSUME NEW e \in Enqueuers, Insert(e), ~Full PROVE QueueInv'
  <2> DEFINE j == ejob[e]
             m == [job |-> j, n |-> next[j]]
  <2>1. j \in Jobs /\ next[j] <= PerJob
    BY <1>2 DEF IInv, EnqueueInv, Insert
  <2>2. q' = Append(q, m) /\ next' = [next EXCEPT ![j] = @ + 1] /\ server' = server
    BY <1>2 DEF Insert
  <2>3. m \in Msgs /\ m.job = j /\ m.n = next[j]
    BY <1>c, <2>1 DEF Msgs
  <2>4. /\ Len(q') = Len(q) + 1
        /\ \A k \in 1..Len(q) : q'[k] = q[k]
        /\ q'[Len(q) + 1] = m
    BY <1>0, <2>2, <2>3, AppendProperties DEF TypeOK
  <2>5. \A i \in Jobs : next'[i] = IF i = j THEN next[j] + 1 ELSE next[i]
    BY <1>0, <2>2 DEF TypeOK
  <2> HIDE DEF m
  <2>6. ASSUME NEW k \in 1..Len(q')
        PROVE  server'[q'[k].job] <= q'[k].n /\ q'[k].n < next'[q'[k].job]
    <3>1. CASE k \in 1..Len(q)
      <4>1. q'[k] = q[k] /\ q[k].job \in Jobs /\ q[k].n \in 1..PerJob
        BY <1>b, <2>4, <3>1
      <4>2. server[q[k].job] <= q[k].n /\ q[k].n < next[q[k].job]
        BY <1>0, <3>1 DEF QueueInv
      <4>3. next[q[k].job] <= next'[q[k].job]
        BY <1>c, <2>5, <4>1
      <4> QED BY <1>c, <2>2, <4>1, <4>2, <4>3, <1>0 DEF TypeOK
    <3>2. CASE k = Len(q) + 1
      <4>1. q'[k].job = j /\ q'[k].n = next[j] /\ next'[j] = next[j] + 1
        BY <2>1, <2>3, <2>4, <2>5, <3>2
      <4>2. server[j] <= next[j]
        BY <1>0, <1>c, <2>1 DEF QueueInv
      <4> QED BY <1>c, <2>1, <2>2, <4>1, <4>2
    <3> QED BY <1>a, <2>4, <3>1, <3>2
  <2>7. ASSUME NEW k \in 1..Len(q'), NEW l \in 1..Len(q'), k < l, q'[k].job = q'[l].job
        PROVE  q'[k].n < q'[l].n
    <3>1. k \in 1..Len(q) /\ q'[k] = q[k]
      BY <1>a, <2>4, <2>7
    <3>2. CASE l \in 1..Len(q)
      BY <1>0, <2>4, <2>7, <3>1, <3>2 DEF QueueInv
    <3>3. CASE l = Len(q) + 1
      BY <1>0, <2>3, <2>4, <2>7, <3>1, <3>3 DEF QueueInv
    <3> QED BY <1>a, <2>4, <3>2, <3>3
  <2>8. ASSUME NEW i \in Jobs, NEW n \in 1..PerJob, server'[i] < n, n < next'[i]
        PROVE  \E k \in 1..Len(q') : q'[k].job = i /\ q'[k].n = n
    <3>1. CASE i = j /\ n = next[j]
      <4>1. Len(q) + 1 \in 1..Len(q')
        BY <1>a, <2>4
      <4> QED BY <2>3, <2>4, <3>1, <4>1
    <3>2. CASE ~(i = j /\ n = next[j])
      <4>1. n < next[i]
        BY <1>c, <2>5, <2>8, <3>2
      <4>2. PICK k \in 1..Len(q) : q[k].job = i /\ q[k].n = n
        BY <1>0, <2>2, <2>8, <4>1 DEF QueueInv
      <4> QED BY <1>a, <2>4, <4>2
    <3> QED BY <3>1, <3>2
  <2>9. ASSUME NEW i \in Jobs PROVE server'[i] < next'[i]
    BY <1>0, <1>c, <2>2, <2>5 DEF QueueInv
  <2> QED BY <2>6, <2>7, <2>8, <2>9 DEF QueueInv
<1>3. ASSUME NEW t \in Threads, cur[t] # NoMsg, Arrives(t), UNCHANGED <<q, next>> PROVE QueueInv'
  <2>1. cur[t].job \in Jobs /\ cur[t].n \in 1..PerJob /\ server[cur[t].job] <= cur[t].n
    BY <1>3, <1>c, Held, MsgTypes
  <2>2. \A j \in Jobs : server'[j] = IF j = cur[t].job THEN cur[t].n ELSE server[j]
    BY <1>0, <1>3 DEF TypeOK, Arrives
  <2>3. \A k \in 1..Len(q) : q[k].job = cur[t].job => cur[t].n <= q[k].n
    BY <1>3, <1>b, <2>1, Held
  <2>4. \A k \in 1..Len(q) : server'[q[k].job] <= q[k].n
    BY <1>0, <1>b, <2>2, <2>3 DEF QueueInv
  <2>5. \A j \in Jobs : server[j] <= server'[j] /\ server'[j] \in 0..PerJob
    BY <1>c, <2>1, <2>2
  <2>6. \A j \in Jobs : server'[j] < next[j]
    BY <1>0, <1>3, <2>2, Held DEF QueueInv
  <2> QED BY <1>0, <1>3, <1>c, <2>4, <2>5, <2>6 DEF QueueInv
<1>4. ASSUME NEW t \in Threads, Removed(t) PROVE QueueInv'
  <2>1. PICK p \in 1..Len(q) :
          /\ q[p] = cur[t] /\ Len(q') = Len(q) - 1 /\ Len(q) \in Nat /\ cur[t] # NoMsg
          /\ \A k \in 1..Len(q') : q'[k] = IF k < p THEN q[k] ELSE q[k + 1]
    BY <1>4, RemovedShape
  <2> DEFINE at(k) == IF k < p THEN k ELSE k + 1
  <2>2. \A k \in 1..Len(q') : at(k) \in 1..Len(q) /\ at(k) # p /\ q'[k] = q[at(k)]
    BY <2>1
  <2>3. \A k, l \in 1..Len(q') : k < l => at(k) < at(l)
    BY <2>1
  <2>4. \A k \in 1..Len(q) : k # p => \E l \in 1..Len(q') : q'[l] = q[k]
    <3> SUFFICES ASSUME NEW k \in 1..Len(q), k # p PROVE \E l \in 1..Len(q') : at(l) = k
      BY <2>2
    <3>1. CASE k < p
      BY <2>1, <3>1
    <3>2. CASE p < k
      <4>1. k - 1 \in 1..Len(q') /\ at(k - 1) = k
        BY <2>1, <3>2
      <4> QED BY <4>1
    <3> QED BY <2>1, <3>1, <3>2
  <2> HIDE DEF at
  <2>5. cur[t].job \in Jobs /\ cur[t].n \in 1..PerJob /\ server[cur[t].job] <= cur[t].n
    BY <2>1, <1>c, Held, MsgTypes
  <2>6. next' = next /\ \A j \in Jobs : server'[j] = IF j = cur[t].job THEN cur[t].n ELSE server[j]
    BY <1>0, <1>4 DEF TypeOK, Removed, Arrives
  <2>7. ASSUME NEW k \in 1..Len(q), q[k].job = cur[t].job PROVE cur[t].n <= q[k].n
    <3>1. q[k] = cur[t] \/ cur[t].n < q[k].n
      BY <2>1, <2>7, Held
    <3> QED BY <1>b, <2>5, <3>1
  <2>8. ASSUME NEW k \in 1..Len(q')
        PROVE  server'[q'[k].job] <= q'[k].n /\ q'[k].n < next'[q'[k].job]
    <3>1. at(k) \in 1..Len(q) /\ q'[k] = q[at(k)]
      BY <2>2
    <3> QED BY <1>0, <1>b, <2>6, <2>7, <3>1 DEF QueueInv
  <2>9. ASSUME NEW k \in 1..Len(q'), NEW l \in 1..Len(q'), k < l, q'[k].job = q'[l].job
        PROVE  q'[k].n < q'[l].n
    BY <1>0, <2>2, <2>3, <2>9 DEF QueueInv
  <2>10. ASSUME NEW j \in Jobs, NEW n \in 1..PerJob, server'[j] < n, n < next'[j]
         PROVE  \E k \in 1..Len(q') : q'[k].job = j /\ q'[k].n = n
    <3>1. server[j] < n /\ ~(j = cur[t].job /\ n = cur[t].n)
      BY <1>c, <2>5, <2>6, <2>10
    <3>2. PICK k \in 1..Len(q) : q[k].job = j /\ q[k].n = n
      BY <1>0, <2>6, <2>10, <3>1 DEF QueueInv
    <3>3. k # p
      BY <2>1, <3>1, <3>2
    <3> QED BY <2>4, <3>2, <3>3
  <2>11. \A j \in Jobs : server'[j] < next'[j]
    BY <1>0, <2>1, <2>6, Held DEF QueueInv
  <2> QED BY <2>8, <2>9, <2>10, <2>11 DEF QueueInv
<1>5. ASSUME NEW t \in Threads, Get(t) \/ Report(t) PROVE UNCHANGED <<q, next, server>>
  BY <1>5 DEF Get, Report, list
<1>6. ASSUME NEW t \in Threads, tpc[t] = "reply" PROVE cur[t] # NoMsg
  BY <1>6 DEF IInv, ThreadInv
<1> QED BY <1>1, <1>2, <1>3, <1>4, <1>5, <1>6, QueueActions

\* A thread's message stays the first one of its job until it is removed.
LEMMA FirstStep == IInv /\ [Next]_vars => FirstInv'
<1> SUFFICES ASSUME IInv, [Next]_vars PROVE FirstInv'
  OBVIOUS
<1>0. TypeOK /\ FirstInv /\ ThreadInv
  BY DEF IInv
<1>a. Len(q) \in Nat
  BY <1>0, LenProperties DEF TypeOK
<1>1. CASE UNCHANGED <<q, cur>>
  BY <1>0, <1>1 DEF FirstInv
<1>2. ASSUME NEW e \in Enqueuers, Insert(e), ~Full PROVE FirstInv'
  <2>1. ejob[e] \in Jobs /\ next[ejob[e]] \in 1..PerJob
    BY <1>0, <1>2 DEF IInv, TypeOK, EnqueueInv, Insert
  <2>2. [job |-> ejob[e], n |-> next[ejob[e]]] \in Msgs
    BY <2>1 DEF Msgs
  <2>3. q' = Append(q, [job |-> ejob[e], n |-> next[ejob[e]]]) /\ cur' = cur
    BY <1>2 DEF Insert, thread
  <2>4. Len(q') = Len(q) + 1 /\ \A k \in 1..Len(q) : q'[k] = q[k]
    BY <1>0, <2>2, <2>3, AppendProperties DEF TypeOK
  <2> SUFFICES ASSUME NEW t \in Threads, cur[t] # NoMsg
               PROVE  \E k \in 1..Len(q') : q'[k] = cur[t] /\ \A l \in 1..k - 1 : q'[l].job # cur[t].job
    BY <2>3 DEF FirstInv
  <2>5. PICK k \in 1..Len(q) : q[k] = cur[t] /\ \A l \in 1..k - 1 : q[l].job # cur[t].job
    BY <1>0 DEF FirstInv
  <2> QED BY <1>a, <2>4, <2>5
<1>3. ASSUME NEW t \in Threads, Get(t) PROVE FirstInv'
  <2> DEFINE k == Min(Available(t))
  <2>1. k \in Available(t) /\ \A l \in Available(t) : k <= l
    BY <1>0, <1>3, GetFirst DEF Get
  <2>2. q' = q /\ cur' = [cur EXCEPT ![t] = q[k]]
    BY <1>3 DEF Get, list, Set
  <2> HIDE DEF k
  <2>3. \A u \in Threads : cur'[u] = IF u = t THEN q[k] ELSE cur[u]
    BY <1>0, <2>2 DEF TypeOK
  <2>4. k \in 1..Len(q) /\ \A u \in Threads \ {t} : cur[u].job # q[k].job
    BY <2>1 DEF Available
  <2>5. ASSUME NEW l \in 1..k - 1 PROVE q[l].job # q[k].job
    <3>1. l \in 1..Len(q) /\ ~(k <= l)
      BY <1>a, <2>4
    <3>2. l \notin Available(t)
      BY <2>1, <3>1
    <3> QED BY <2>4, <3>1, <3>2 DEF Available
  <2>6. ASSUME NEW u \in Threads, cur'[u] # NoMsg
        PROVE  \E i \in 1..Len(q') : q'[i] = cur'[u] /\ \A l \in 1..i - 1 : q'[l].job # cur'[u].job
    <3>1. CASE u = t
      BY <2>2, <2>3, <2>4, <2>5, <3>1
    <3>2. CASE u # t
      BY <1>0, <2>2, <2>3, <2>6, <3>2 DEF FirstInv
    <3> QED BY <3>1, <3>2
  <2> QED BY <2>6 DEF FirstInv
<1>4. ASSUME NEW t \in Threads, Removed(t) PROVE FirstInv'
  <2>1. PICK p \in 1..Len(q) :
          /\ q[p] = cur[t] /\ Len(q') = Len(q) - 1 /\ Len(q) \in Nat /\ cur[t] # NoMsg
          /\ \A k \in 1..Len(q') : q'[k] = IF k < p THEN q[k] ELSE q[k + 1]
    BY <1>4, RemovedShape
  <2>2. \A u \in Threads : cur'[u] = IF u = t THEN NoMsg ELSE cur[u]
    BY <1>0, <1>4 DEF TypeOK, Removed, Set
  <2>3. ASSUME NEW u \in Threads, cur'[u] # NoMsg
        PROVE  \E i \in 1..Len(q') : q'[i] = cur'[u] /\ \A l \in 1..i - 1 : q'[l].job # cur'[u].job
    <3>1. u # t /\ cur'[u] = cur[u] /\ cur[u] # NoMsg
      BY <2>2, <2>3
    <3>2. PICK k \in 1..Len(q) : q[k] = cur[u] /\ \A l \in 1..k - 1 : q[l].job # cur[u].job
      BY <1>0, <3>1 DEF FirstInv
    <3>3. k # p
      BY <1>0, <2>1, <3>1, <3>2 DEF ThreadInv
    <3>4. CASE k < p
      <4>1. k \in 1..Len(q') /\ q'[k] = q[k]
        BY <2>1, <3>2, <3>4
      <4>2. \A l \in 1..k - 1 : q'[l] = q[l]
        BY <2>1, <3>2, <3>4
      <4> QED BY <3>1, <3>2, <4>1, <4>2
    <3>5. CASE p < k
      <4>1. k - 1 \in 1..Len(q') /\ q'[k - 1] = q[k]
        BY <2>1, <3>2, <3>5
      <4>2. ASSUME NEW l \in 1..(k - 1) - 1 PROVE q'[l].job # cur[u].job
        <5>1. \E i \in 1..k - 1 : q'[l] = q[i]
          <6>1. q'[l] = IF l < p THEN q[l] ELSE q[l + 1]
            BY <2>1, <3>5
          <6>2. l \in 1..k - 1 /\ l + 1 \in 1..k - 1
            BY <2>1, <3>5
          <6> QED BY <6>1, <6>2
        <5> QED BY <3>2, <5>1
      <4> QED BY <3>1, <3>2, <4>1, <4>2
    <3>6. k < p \/ p < k
      BY <1>a, <3>3
    <3> QED BY <3>4, <3>5, <3>6
  <2> QED BY <2>3 DEF FirstInv
<1>5. ASSUME NEW t \in Threads, Report(t) PROVE FirstInv'
  <2>1. q' = q /\ \A u \in Threads : cur'[u] = IF u = t THEN NoMsg ELSE cur[u]
    BY <1>0, <1>5 DEF TypeOK, Report, Set, list
  <2>2. ASSUME NEW u \in Threads, cur'[u] # NoMsg
        PROVE  \E i \in 1..Len(q') : q'[i] = cur'[u] /\ \A l \in 1..i - 1 : q'[l].job # cur'[u].job
    BY <1>0, <2>1, <2>2 DEF FirstInv
  <2> QED BY <2>2 DEF FirstInv
<1> QED BY <1>1, <1>2, <1>3, <1>4, <1>5, QueueActions

-----------------------------------------------------------------------------
(* The theorems.                                                            *)

LEMMA InvariantInit == Init => IInv
<1> SUFFICES ASSUME Init PROVE IInv
  OBVIOUS
<1> USE QueueAssumption DEF Init
<1>1. TypeOK
  <2>1. q \in Seq(Msgs)
    BY EmptySeq
  <2>2. next \in [Jobs -> 1..PerJob + 1] /\ server \in [Jobs -> 0..PerJob] /\ flushes \in 0..MaxFlushes
    OBVIOUS
  <2>3. /\ throttling \in BOOLEAN
        /\ tid \in [Threads -> BOOLEAN] /\ conn \in [Threads -> BOOLEAN]
        /\ lazy \in [Threads -> BOOLEAN] /\ retry \in [Threads -> BOOLEAN]
    OBVIOUS
  <2>4. /\ condLock \in Threads \cup Enqueuers \cup {Free}
        /\ flushLock \in Threads \cup {"main", Free}
    OBVIOUS
  <2>5. ret \in [Threads -> {-1, 0, 1}] /\ reported \in {-1, 0, 1}
        /\ flushing \in 0..2 /\ flushResult \in {-1, 0, 1}
    OBVIOUS
  <2> QED BY <2>1, <2>2, <2>3, <2>4, <2>5 DEF TypeOK
<1>2. EnqueueInv BY DEF EnqueueInv
<1>3. ThreadInv /\ FirstInv BY DEF ThreadInv, FirstInv
<1>4. QueueInv BY EmptySeq DEF QueueInv
<1>5. NoStaleAnswer BY DEF NoStaleAnswer
<1> QED BY <1>1, <1>2, <1>3, <1>4, <1>5 DEF IInv

\* The inductive invariant holds in every reachable state.
LEMMA InvariantAlways == Spec => []IInv
<1>1. IInv /\ [Next]_vars => IInv'
  BY TypeStep, EnqueueStep, ThreadStep, QueueStep, FirstStep, FlushStep DEF IInv
<1> QED BY InvariantInit, <1>1, PTL DEF Spec

\* Every reachable state is well typed: in particular the queue holds events
\* of jobs only, and a thread the message of a job or none.
THEOREM TypeCorrect == Spec => []TypeOK
<1>1. IInv => TypeOK
  BY DEF IInv
<1> QED BY <1>1, InvariantAlways, PTL

\* No answer to an earlier flush command is left for the next one, however many
\* threads answer (queue_thread's report, il_master.c's handle_cmd).
THEOREM FlushAnswers == Spec => []NoStaleAnswer
<1>1. IInv => NoStaleAnswer
  BY DEF IInv
<1> QED BY <1>1, InvariantAlways, PTL

\* The server gets a job's events in their order, each time the one it got last
\* or the next one, whichever threads deliver them, however they come, go and
\* fail, and however the queue is throttled (event_queue_get and
\* event_queue_remove keep threads out of each other's jobs).
THEOREM ServerInOrder == Spec => ServerOrder
<1>1. IInv /\ [Next]_vars => [\A j \in Jobs : server'[j] \in {server[j], server[j] + 1}]_server
  <2> SUFFICES ASSUME IInv, [Next]_vars, NEW j \in Jobs
               PROVE  server'[j] \in {server[j], server[j] + 1}
    OBVIOUS
  <2>1. CASE server' = server
    BY <2>1
  <2>2. ASSUME NEW t \in Threads, tpc[t] = "reply", Arrives(t)
        PROVE  server'[j] \in {server[j], server[j] + 1}
    <3>1. cur[t] # NoMsg /\ server \in [Jobs -> 0..PerJob]
      BY <2>2 DEF IInv, ThreadInv, TypeOK
    <3>2. cur[t].n \in {server[cur[t].job], server[cur[t].job] + 1}
      BY <3>1, Held
    <3> QED BY <2>2, <3>1, <3>2 DEF Arrives
  <2>3. ASSUME NEW t \in Threads, Removed(t) PROVE tpc[t] = "reply" /\ Arrives(t)
    BY <2>3 DEF Removed
  <2>4. ASSUME NEW e \in Enqueuers, NEW t \in Threads, Insert(e) \/ Get(t) \/ Report(t)
        PROVE  server' = server
    BY <2>4 DEF Insert, Get, Report
  <2>5. Enqueuers # {}
    BY DEF Enqueuers
  <2>6. ASSUME NEW e \in Enqueuers, Insert(e) PROVE server' = server
    BY <2>6 DEF Insert
  <2> QED BY <2>1, <2>2, <2>3, <2>4, <2>5, <2>6, QueueActions
<1> QED BY <1>1, InvariantAlways, PTL DEF Spec, ServerOrder
=============================================================================
