------------------------------ MODULE Producer ------------------------------
(***************************************************************************)
(* The producer's side of the client library (producer.c, prod_proto.c of   *)
(* org.glite.lb.client; sequence codes and errors of a context, context.c   *)
(* of org.glite.lb.common): a call formats an event with the next sequence  *)
(* code of the context and hands it to the local logger, to the proxy       *)
(* and/or the server, or to the event file.                                 *)
(*                                                                          *)
(* A call is a sequence of steps of the library: "set" (the job of the      *)
(* context and its code), "log" (edg_wll_LogEventMasterVa), "command" (a    *)
(* flush) and "restore" (the job and the code the context had before).      *)
(***************************************************************************)
EXTENDS LocalLogger

CONSTANTS Clients,   \* contexts, each with a thread of its own
          Scenarios  \* the calls of each client, and the faults

\* The functions of the interface that are modelled.
CallOps == {"LogEvent", "LogBroken", "LogEventSync", "LogEventProxy", "LogEventFile", "SetLoggingJob",
            "SetLoggingJobProxy", "ChangeACL", "RegisterJob", "RegisterJobProxy", "RegisterSubjobs",
            "LogFlush", "LogFlushAll"}

\* edg_wll_DoLogEventFile writes to the event file itself; a program calls
\* one function after the other.
ASSUME ProducerAssumption ==
  /\ Clients \subseteq Writers
  /\ \A s \in Scenarios, k \in Clients :
       /\ s.calls[k] \in Seq(ToSet(s.calls[k]))
       /\ \A i \in 1..Len(s.calls[k]) : s.calls[k][i].op \in CallOps

VARIABLES cl,      \* the contexts, and the call each is in
          server,  \* what has come to the proxy and to the server, and what they have stored
          history  \* events with their codes, and what the calls returned

vars == <<fileVars, loggerVars, cl, server, history>>

Dests == {"proxy", "direct"}
NoConn == ""
NoReplies == [d \in Dests |-> "none"]

-----------------------------------------------------------------------------
(* The calls                                                                *)

SetJob(job, from) == [op |-> "set", job |-> job, from |-> from]
LogTo(flags) == [op |-> "log", flags |-> flags]
CommandFor(kind) == [op |-> "command", kind |-> kind]
RestoreJob == [op |-> "restore"]

\* edg_wll_RegisterJobMaster.  The proxy's flag goes when the proxy and the
\* job's server are one.
RegisterJobMaster(flags, job, local) ==
  LET f == IF local /\ {"proxy", "direct"} \subseteq flags THEN flags \ {"proxy"} ELSE flags
  IN <<SetJob(job, "zero"), LogTo(f)>>

\* What a call of the interface does, step by step.
Steps(call) ==
  CASE call.op = "LogEvent" -> <<LogTo({"local"})>>
    [] call.op = "LogBroken" -> <<LogTo({"local", "bad"})>>
    [] call.op = "LogEventSync" -> <<LogTo({"local", "sync"})>>
    [] call.op = "LogEventProxy" -> <<LogTo({"proxy"})>>
    [] call.op = "LogEventFile" -> <<LogTo({"file"})>>
    [] call.op = "SetLoggingJob" -> <<SetJob(call.job, "zero")>>
    [] call.op = "SetLoggingJobProxy" -> <<SetJob(call.job, "query")>>
    [] call.op = "ChangeACL" -> <<SetJob(call.job, "zero"), LogTo({"local", "sync"})>>
    [] call.op = "RegisterJob" -> RegisterJobMaster({"direct"}, call.job, call.local)
    [] call.op = "RegisterJobProxy" -> RegisterJobMaster({"proxy", "direct"}, call.job, call.local)
    [] call.op = "RegisterSubjobs" ->
         RegisterJobMaster({"local"}, call.job, FALSE) \o <<RestoreJob>>
    [] call.op = "LogFlush" -> <<CommandFor("flush")>>
    [] call.op = "LogFlushAll" -> <<CommandFor("flushall")>>

\* A failed step ends the call, up to a "restore".
Rest(steps) ==
  LET r == {i \in 2..Len(steps) : steps[i].op = "restore"}
  IN IF r = {} THEN <<>> ELSE SubSeq(steps, Min(r), Len(steps))

-----------------------------------------------------------------------------
(* Contexts                                                                 *)

Context(calls) ==
  [pc |-> "idle", calls |-> calls, steps |-> <<>>, job |-> 0, code |-> 0, series |-> 0,
   old |-> [job |-> 0, code |-> 0, series |-> 0], event |-> 0, flags |-> {}, attempt |-> 1,
   conn |-> NoConn, spent |-> FALSE, err |-> "0", waiting |-> {}, replies |-> NoReplies]

ProducerInit(s) ==
  /\ LoggerInit
  /\ fault = s.faults
  /\ cl = [k \in Clients |-> Context(s.calls[k])]
  /\ server = [d \in Dests |-> [inbox |-> <<>>, stored |-> {}]]
  /\ history = [last |-> 0, series |-> 0, coded |-> {}, done |-> {}]

Update(k, r) == cl' = [cl EXCEPT ![k] = r]

\* The next call of the program.
Call(k) ==
  LET x == cl[k]
  IN /\ x.pc = "idle" /\ x.calls # <<>>
     /\ Update(k, [x EXCEPT !.pc = "step", !.calls = Tail(@), !.steps = Steps(Head(x.calls)),
                            !.err = "0", !.event = 0, !.flags = {},
                            !.old = [job |-> x.job, code |-> x.code, series |-> x.series]])
     /\ UNCHANGED <<fileVars, loggerVars, server, history>>

\* edg_wll_SetSequenceCode and edg_wll_IncSequenceCode: the count of the
\* context's source.  Whoever sets it starts a series of its own.
Coded(x, job, code, series) == [x EXCEPT !.job = job, !.code = code + 1, !.series = series]

\* After a step: the next one, or the end of the call.
StepDone(x) ==
  LET left == IF x.err = "0" THEN Tail(x.steps) ELSE Rest(x.steps)
  IN [x EXCEPT !.pc = IF left = <<>> THEN "return" ELSE "step", !.steps = left]

\* edg_wll_QuerySequenceCodeProxy: the last code the proxy has of the job.
LastCode(job) ==
  LET known == {h.code : h \in {g \in history.coded : g.job = job /\ g.event \in server["proxy"].stored}}
  IN IF known = {} THEN 0 ELSE Max(known)

\* edg_wll_SetLoggingJobMaster
SetLoggingJob(k) ==
  LET x == cl[k]  s == Head(x.steps)
  IN /\ x.pc = "step" /\ s.op = "set"
     /\ \/ /\ Update(k, StepDone(Coded(x, s.job, IF s.from = "zero" THEN 0 ELSE LastCode(s.job),
                                   history.series + 1)))
           /\ history' = [history EXCEPT !.series = @ + 1]
           /\ UNCHANGED fault
        \* no credentials, or the proxy does not answer: the job is set, the code is not
        \/ /\ Fault("set")
           /\ Update(k, StepDone([x EXCEPT !.job = s.job, !.err = "ENOENT"]))
           /\ UNCHANGED history
     /\ UNCHANGED <<fileVars, net, child, sock, ipc, il, stored, server>>

\* The end of edg_wll_RegisterSubjobsMaster; the error stays.
Restore(k) ==
  LET x == cl[k]
  IN /\ x.pc = "step" /\ Head(x.steps).op = "restore"
     /\ Update(k, [Coded(x, x.old.job, x.old.code, x.old.series)
                     EXCEPT !.pc = "return", !.steps = <<>>])
     /\ UNCHANGED <<fileVars, loggerVars, server, history>>

-----------------------------------------------------------------------------
(* edg_wll_LogEventMasterVa                                                 *)

\* edg_wll_FormatLogLine, with the code the context has now.
Format(k) ==
  LET x == cl[k]  s == Head(x.steps)  e == history.last + 1
      first == CASE s.flags \cap {"local"} # {} -> "connect"
                 [] s.flags \cap Dests # {} -> "servers"
                 [] OTHER -> "file"
  IN /\ x.pc = "step" /\ s.op = "log"
     /\ Update(k, [x EXCEPT !.pc = first, !.event = e, !.flags = s.flags, !.attempt = 1,
                            !.spent = FALSE])
     /\ history' = [history EXCEPT
          !.last = e,
          !.coded = @ \cup {[event |-> e, client |-> k, job |-> x.job, code |-> x.code, series |-> x.series]}]
     /\ UNCHANGED <<fileVars, loggerVars, server>>

\* edg_wll_LogFlush, edg_wll_LogFlushAll
Flush(k) ==
  LET x == cl[k]
  IN /\ x.pc = "step" /\ Head(x.steps).op = "command"
     /\ Update(k, [x EXCEPT !.pc = "connect", !.flags = {Head(x.steps).kind}, !.attempt = 1,
                            !.spent = FALSE])
     /\ UNCHANGED <<fileVars, loggerVars, server, history>>

\* Mutant: a call that failed does not use its code up.
MutLogged(x, err) ==
  StepDone([x EXCEPT !.err = err, !.code = IF x.event # 0 /\ err = "0" THEN @ + 1 ELSE @])

\* The code is used up whether the event was logged or not.
Logged(x, err) == StepDone([x EXCEPT !.err = err, !.code = IF x.event # 0 THEN @ + 1 ELSE @])

\* No memory, or a message too long for a synchronous transfer (ENOSPC).
FormatFails(k) ==
  LET x == cl[k]
  IN /\ x.pc = "step" /\ Head(x.steps).op = "log" /\ Fault("format")
     /\ Update(k, Logged([x EXCEPT !.event = history.last + 1, !.flags = Head(x.steps).flags], "EINVAL"))
     /\ history' = [history EXCEPT !.last = @ + 1]
     /\ UNCHANGED <<fileVars, net, child, sock, ipc, il, stored, server>>

Message(x) ==
  [id |-> x.event, rcpt |-> NoReceipt,
   kind |-> CASE x.event = 0 -> CHOOSE f \in x.flags : TRUE
              [] "bad" \in x.flags -> "bad"
              [] "sync" \in x.flags -> "sync"
              [] OTHER -> "event"]

-----------------------------------------------------------------------------
(* edg_wll_DoLogEvent                                                       *)

Fresh == {c \in Conns : net[c] = Unused /\ child[c] = NoChild}
NewConn == CHOOSE c \in Fresh : TRUE

\* edg_wll_log_connect: the connection of the pool, or a new one.
Connect(k) ==
  LET x == cl[k]
  IN /\ x.pc = "connect" /\ ~x.spent
     /\ \/ x.conn # NoConn /\ Update(k, [x EXCEPT !.pc = "write"]) /\ UNCHANGED net
        \/ /\ x.conn = NoConn /\ Fresh # {}
           /\ net' = [net EXCEPT ![NewConn].client = TRUE]
           /\ Update(k, [x EXCEPT !.pc = "write", !.conn = NewConn])
     /\ UNCHANGED <<fileVars, child, sock, ipc, il, stored, fault, server, history>>

\* Refused, or closed before the client is authenticated (a failed fork, a
\* failed edg_wll_gss_accept): not tried again, like one that has no time left.
ConnectFails(k) ==
  LET x == cl[k]
  IN /\ x.pc = "connect"
     /\ IF x.spent THEN UNCHANGED fault ELSE x.conn = NoConn /\ Fault("connect")
     /\ Update(k, Logged(x, "IL_PROTO"))
     /\ UNCHANGED <<fileVars, net, child, sock, ipc, il, stored, server, history>>

\* edg_wll_log_write, once the local logger's child has authenticated the client.
WriteMsg(k) ==
  LET x == cl[k]
  IN /\ x.pc = "write" /\ child[x.conn].pc # "none"
     /\ net' = [net EXCEPT ![x.conn].up = IF child[x.conn].pc = "gone" THEN @ ELSE Append(@, Message(x))]
     /\ Update(k, [x EXCEPT !.pc = "read"])
     /\ UNCHANGED <<fileVars, child, sock, ipc, il, stored, fault, server, history>>

\* edg_wll_log_read: the answer of the local logger.
ReadAnswer(k) ==
  LET x == cl[k]
  IN /\ x.pc = "read" /\ net[x.conn].down # <<>>
     /\ net' = [net EXCEPT ![x.conn].down = Tail(@)]
     /\ Update(k, Logged(x, Head(net[x.conn].down)))
     /\ UNCHANGED <<fileVars, child, sock, ipc, il, stored, fault, server, history>>

\* The connection is closed; ENOTCONN is tried once more.
Again(x, spent) ==
  IF x.attempt = 1 THEN [x EXCEPT !.pc = "connect", !.attempt = 2, !.conn = NoConn, !.spent = spent]
  ELSE Logged([x EXCEPT !.conn = NoConn], "ENOTCONN")

\* The local logger has closed it, ...
ReadEof(k) ==
  LET x == cl[k]
  IN /\ x.pc = "read" /\ net[x.conn].down = <<>> /\ child[x.conn].pc = "gone"
     /\ net' = [net EXCEPT ![x.conn].client = FALSE]
     /\ Update(k, Again(x, FALSE))
     /\ UNCHANGED <<fileVars, child, sock, ipc, il, stored, fault, server, history>>

\* ... or does not answer in time, which is ENOTCONN too.
ReadTimeout(k) ==
  LET x == cl[k]
  IN /\ x.pc = "read" /\ net[x.conn].down = <<>> /\ child[x.conn].pc # "gone" /\ Fault("timeout")
     /\ net' = [net EXCEPT ![x.conn].client = FALSE]
     /\ Update(k, Again(x, TRUE))
     /\ UNCHANGED <<fileVars, child, sock, ipc, il, stored, server, history>>

-----------------------------------------------------------------------------
(* edg_wll_DoLogEventServer                                                 *)

\* CONNECT: the proxy first, then the server; ...
ConnectServers(k) ==
  LET x == cl[k]
  IN /\ x.pc = "servers"
     /\ Update(k, [x EXCEPT !.pc = "submit", !.waiting = x.flags \cap Dests, !.replies = NoReplies])
     /\ UNCHANGED <<fileVars, loggerVars, server, history>>

\* ... one that fails ends the call.
ConnectServersFails(k) ==
  LET x == cl[k]
  IN /\ x.pc = "servers" /\ Fault("connect")
     /\ Update(k, Logged(x, "EAGAIN"))
     /\ UNCHANGED <<fileVars, net, child, sock, ipc, il, stored, server, history>>

Sends(k, sent) ==
  server' = [d \in Dests |->
    IF d \notin sent THEN server[d]
    ELSE [server[d] EXCEPT !.inbox = Append(@, [client |-> k, event |-> cl[k].event])]]

\* SEND MESSAGE: in the same order, ...
Submit(k) ==
  /\ cl[k].pc = "submit"
  /\ Sends(k, cl[k].waiting)
  /\ Update(k, [cl[k] EXCEPT !.pc = "answers"])
  /\ UNCHANGED <<fileVars, loggerVars, history>>

\* ... and when a write fails the proxy may have the event already.
SubmitFails(k) ==
  LET x == cl[k]
  IN /\ x.pc = "submit" /\ Fault("connect")
     /\ \E sent \in {{}, x.waiting \ {"direct"}} : Sends(k, sent)
     /\ Update(k, Logged(x, "EAGAIN"))
     /\ UNCHANGED <<fileVars, net, child, sock, ipc, il, stored, history>>

Replied(d, a) ==
  LET m == Head(server[d].inbox)  x == cl[m.client]
  IN IF x.pc = "answers" /\ x.event = m.event
     THEN Update(m.client, [x EXCEPT !.replies[d] = a]) ELSE UNCHANGED cl

Served(d, new) ==
  /\ server[d].inbox # <<>>
  /\ server' = [server EXCEPT ![d] = [inbox |-> Tail(@.inbox), stored |-> @.stored \cup new]]

\* The proxy or the server stores an event, and answers if the client waits: LB_OK, ...
Store(d) ==
  /\ Served(d, {Head(server[d].inbox).event}) /\ Replied(d, "0")
  /\ UNCHANGED <<fileVars, loggerVars, history>>

\* ... or it does not, and answers with what edg_wll_log_direct_read makes an error of.
Reject(d) ==
  /\ Served(d, {}) /\ Replied(d, "error") /\ Fault("dberr")
  /\ UNCHANGED <<fileVars, net, child, sock, ipc, il, stored, history>>

\* READ ANSWER: whatever select reports, the proxy first; each read resets
\* the error of the context, so the answer read last is the result.
ReadReplies(k) ==
  LET x == cl[k]
      ready == {d \in x.waiting : x.replies[d] # "none"}
      result == x.replies[IF "direct" \in ready THEN "direct" ELSE "proxy"]
      left == x.waiting \ ready
  IN /\ x.pc = "answers" /\ ready # {}
     /\ Update(k, IF left = {} THEN Logged(x, result) ELSE [x EXCEPT !.err = result, !.waiting = left])
     /\ UNCHANGED <<fileVars, loggerVars, server, history>>

\* select says the time is over, or a read fails.
NoReply(k) ==
  LET x == cl[k]
  IN /\ x.pc = "answers" /\ Fault("timeout")
     /\ Update(k, Logged(x, "EAGAIN"))
     /\ UNCHANGED <<fileVars, net, child, sock, ipc, il, stored, server, history>>

-----------------------------------------------------------------------------
(* edg_wll_DoLogEventFile                                                   *)

WriteFile(k) ==
  LET x == cl[k]
  IN /\ x.pc = "file"
     /\ Begin(k, Message(x))
     /\ Update(k, [x EXCEPT !.pc = "filed"])
     /\ UNCHANGED <<loggerVars, server, history>>

\* The event is in the file: edg_wll_log_event_send, tried once.
Notify(k) ==
  LET x == cl[k]
  IN /\ x.pc = "filed" /\ wpc[k] = "idle"
     /\ \/ /\ wret[k] = "error" /\ Update(k, Logged(x, "ETIMEDOUT"))
           /\ UNCHANGED <<ipc, fault>>
        \/ /\ wret[k] = "ok" /\ il.up
           /\ ipc' = Append(ipc, Message(x)) /\ Update(k, Logged(x, "0"))
           /\ UNCHANGED fault
        \/ /\ wret[k] = "ok" /\ (IF il.up THEN Fault("ipc") ELSE UNCHANGED fault)
           /\ Update(k, Logged(x, "EAGAIN"))
           /\ UNCHANGED ipc
     /\ UNCHANGED <<fileVars, net, child, sock, il, stored, server, history>>

-----------------------------------------------------------------------------
Return(k) ==
  LET x == cl[k]
  IN /\ x.pc = "return"
     /\ Update(k, [x EXCEPT !.pc = "idle"])
     /\ history' = [history EXCEPT !.done = @ \cup {[client |-> k, event |-> x.event,
                                                    flags |-> x.flags, ret |-> x.err]}]
     /\ UNCHANGED <<fileVars, loggerVars, server>>

ClientStep(k) ==
  \/ Call(k) \/ SetLoggingJob(k) \/ Restore(k) \/ Format(k) \/ Flush(k)
  \/ Connect(k) \/ ConnectFails(k) \/ WriteMsg(k) \/ ReadAnswer(k) \/ ReadEof(k)
  \/ ConnectServers(k) \/ Submit(k) \/ ReadReplies(k) \/ WriteFile(k) \/ Notify(k) \/ Return(k)
ClientFault(k) == FormatFails(k) \/ ConnectServersFails(k) \/ SubmitFails(k) \/ ReadTimeout(k) \/ NoReply(k)

Logger ==
  /\ \/ \E w \in Writers : WriterStep(w)
     \/ \E c \in Conns : ChildStep(c) \/ ChildFault(c)
     \/ IlStep \/ IlFault
  /\ UNCHANGED <<cl, server, history>>

ProducerNext ==
  \/ \E k \in Clients : ClientStep(k) \/ ClientFault(k)
  \/ \E d \in Dests : Store(d) \/ Reject(d)
  \/ Logger

\* Every process runs, and what it waits for is either an event of another
\* one or the end of its time; a process that is not there is started again.
Fairness ==
  /\ \A k \in Clients : WF_vars(ClientStep(k))
  /\ \A d \in Dests : WF_vars(Store(d))
  /\ \A w \in Writers : WF_vars(Writing(w) /\ UNCHANGED <<loggerVars, cl, server, history>>)
  /\ \A c \in Conns : WF_vars(ChildStep(c) /\ UNCHANGED <<cl, server, history>>)
  /\ WF_vars(IlStep /\ UNCHANGED <<cl, server, history>>)

-----------------------------------------------------------------------------
(* Properties                                                               *)

Filed == {a.msg.id : a \in acked}

\* What the file of the name holds, and what has been delivered from it.
InFile == IF name = 0 THEN {} ELSE {m.id : m \in ToSet(files[name])}
Delivered == stored \cup il.refused

\* A call that returned 0 has handed its event over.
\* A call of the local logger or of the file has written it to the event file,
\* and it stays in the file of that name until it is delivered, whoever writes
\* and removes at the same time; unless the writer was given another file's
\* existence for that of its own, and wrote to one that had lost its name.
\* A synchronous event is in the server; unless an earlier wait for a
\* confirmation at the same socket name timed out, whose late confirmation
\* may be taken for this event's.
\* A registration is in the server, or the proxy, it was sent to, or in one of
\* them when it was sent to both: the answer read last hides an error of the
\* other.
TakenOver ==
  \A h \in history.done : h.ret = "0" /\ h.event # 0 =>
    /\ h.flags \cap {"local", "file"} # {} =>
         \E a \in acked : a.msg.id = h.event /\ (a.named => h.event \in InFile \cup Delivered)
    /\ "sync" \in h.flags =>
         h.event \in stored \/ \E a \in acked : a.msg.id = h.event /\ a.msg.rcpt \in il.late
    /\ h.flags \cap Dests # {} => \E d \in h.flags \cap Dests : h.event \in server[d].stored

\* A sequence code stands for one event: two events of one series that a
\* file, the proxy or the server has got, also those whose call had failed,
\* have different codes.
OneEventPerCode ==
  \A g, h \in {e \in history.coded : e.event \in Filed \cup server["proxy"].stored
                                                \cup server["direct"].stored} :
    g.client = h.client /\ g.job = h.job /\ g.series = h.series /\ g.code = h.code
      => g.event = h.event

\* Every call returns, whoever dies, refuses or is slow.
LoggingReturns == \A k \in Clients : (cl[k].pc # "idle") ~> (cl[k].pc = "idle")
=============================================================================
