---------------------------- MODULE LocalLogger ----------------------------
(***************************************************************************)
(* The local logger (logd.c, logd_proto.c of org.glite.lb.logger) between   *)
(* the producer and the inter-logger: a process that forks a child for      *)
(* every connection.  The child reads a message, writes it to the job's     *)
(* event file, answers, and passes it on through the inter-logger's socket. *)
(* For a priority message it opens a socket of its own, named after its     *)
(* pid, and answers only when the inter-logger has connected there with     *)
(* what the server said, or when its time is over.                          *)
(*                                                                          *)
(* Of the inter-logger there is what the local logger can tell: its socket, *)
(* the delivery of the file in its order, the confirmations and a crash;    *)
(* EventStore and QueueThread have its inside.                              *)
(***************************************************************************)
EXTENDS EventFile

CONSTANTS Conns,   \* connections of producers, and the children that serve them
          Pids,    \* process identifiers the children get
          Names    \* bound: names tried for the socket of confirmations (1000)

\* A child writes to the event file under the name of its connection.
ASSUME LoggerAssumption == Conns \subseteq Writers

VARIABLES
  net,      \* the two directions of a connection
  child,    \* the children
  sock,     \* the sockets of confirmations, by name
  ipc,      \* what waits in the inter-logger's socket
  il,       \* the inter-logger: up or down, and the confirmation it owes; history:
            \* events refused, and the sockets that were not waited at any longer
  stored,   \* the server's: events it has stored
  fault     \* the faults that may still happen, how often

loggerVars == <<net, child, sock, ipc, il, stored, fault>>

Fault(f) == fault[f] > 0 /\ fault' = [fault EXCEPT ![f] = @ - 1]
Lllids == Pids \X (0..Names - 1)
\* No file of that name; a file nobody listens at; a listener's queue of codes.
NoSocket == [state |-> "none", codes |-> <<>>]
Listening == [state |-> "listen", codes |-> <<>>]
Stale == [state |-> "stale", codes |-> <<>>]

NoOwed == [rcpt |-> NoReceipt, code |-> "none"]
NoChild == [pc |-> "none", pid |-> 0, msg |-> NoMsg, lllid |-> NoReceipt, answer |-> "none",
            sent |-> FALSE]
Unused == [up |-> <<>>, down |-> <<>>, client |-> FALSE]

LoggerInit ==
  /\ FileInit
  /\ net = [c \in Conns |-> Unused]
  /\ child = [c \in Conns |-> NoChild]
  /\ sock = [l \in Lllids |-> NoSocket]
  /\ ipc = <<>> /\ il = [up |-> TRUE, owed |-> NoOwed, refused |-> {}, late |-> {}]
  /\ stored = {}

Set(c, r) == child' = [child EXCEPT ![c] = r]
Alive(c) == child[c].pc \notin {"none", "gone"}
Command(m) == m.kind \in {"flush", "flushall"}
Priority(m) == m.kind \in {"sync", "flush", "flushall"}

-----------------------------------------------------------------------------
(* logd.c                                                                   *)

\* The main loop: accept, and fork; the child has the client authenticated.
\* A pid is used again once its process is gone, here as soon as it can be.
Accept(c) ==
  LET free == {p \in Pids : \A d \in Conns : Alive(d) => child[d].pid # p}
  IN /\ child[c].pc = "none" /\ net[c].client /\ free # {}
     /\ Set(c, [NoChild EXCEPT !.pc = "wait", !.pid = Min(free)])
     /\ UNCHANGED <<fileVars, net, sock, ipc, il, stored, fault>>

Closing(c) == Set(c, [child[c] EXCEPT !.pc = "gone"])

\* doit: the client has closed the connection.
Eof(c) ==
  /\ child[c].pc = "wait" /\ net[c].up = <<>> /\ ~net[c].client
  /\ Closing(c)
  /\ UNCHANGED <<fileVars, net, sock, ipc, il, stored, fault>>

\* doit: CONNECTION_TIMEOUT passes without a message.
IdleClose(c) ==
  /\ child[c].pc = "wait" /\ net[c].up = <<>> /\ Fault("idle")
  /\ Closing(c)
  /\ UNCHANGED <<fileVars, net, sock, ipc, il, stored>>

\* The child is killed; a socket of its stays in the file system.
Killed(c) ==
  /\ Alive(c) /\ Fault("kill")
  /\ Dies(c)
  /\ Closing(c)
  /\ sock' = [l \in Lllids |-> IF l = child[c].lllid /\ sock[l].state = "listen" THEN Stale ELSE sock[l]]
  /\ UNCHANGED <<net, ipc, il, stored>>

-----------------------------------------------------------------------------
(* edg_wll_log_proto_server                                                 *)

\* The first name of the pid's that is not there.
Lllid(p) ==
  LET free == {i \in 0..Names - 1 : sock[<<p, i>>].state = "none"}
  IN IF free = {} THEN NoReceipt ELSE <<p, Min(free)>>

\* edg_wll_ParseEvent, or for a command edg_wll_GetJobId: a command that
\* names no job is refused.
Refused(m) == m.kind \in {"bad", "flushall"}

\* header, size and message are read, the job identifier and the priority
\* taken from the message, and the socket for the confirmation opened.
Receive(c) ==
  LET m == Head(net[c].up)
      l == Lllid(child[c].pid)
      r == [child[c] EXCEPT !.msg = [m EXCEPT !.rcpt = IF Priority(m) THEN l ELSE NoReceipt],
                            !.lllid = l, !.answer = "0", !.sent = FALSE]
  IN /\ child[c].pc = "wait" /\ net[c].up # <<>>
     /\ net' = [net EXCEPT ![c].up = Tail(@)]
     /\ \/ l = NoReceipt /\ Closing(c) /\ UNCHANGED <<fileVars, sock>>
        \/ /\ l # NoReceipt /\ Refused(m)
           /\ Set(c, [r EXCEPT !.pc = "reply", !.answer = "EINVAL"])
           /\ UNCHANGED <<fileVars, sock>>
        \/ /\ l # NoReceipt /\ ~Refused(m)
           /\ sock' = IF Priority(m) THEN [sock EXCEPT ![l] = Listening] ELSE sock
           /\ IF Command(m) THEN Set(c, [r EXCEPT !.pc = "ipc"]) /\ UNCHANGED fileVars
              ELSE Set(c, [r EXCEPT !.pc = "writing"]) /\ Begin(c, r.msg)
     /\ UNCHANGED <<ipc, il, stored, fault>>

Answer(c, a) == net' = [net EXCEPT ![c].down = Append(@, a)]

\* Mutant: the answer goes out while the message is still being written.
MutWritten(c) ==
  /\ child[c].pc = "writing" /\ wpc[c] # "idle"
  /\ Answer(c, "0") /\ Set(c, [child[c] EXCEPT !.pc = "ipc", !.sent = TRUE])
  /\ UNCHANGED <<fileVars, sock, ipc, il, stored, fault>>

\* edg_wll_log_event_write has returned: "if not priority send now the answer
\* back to client".
Written(c) ==
  /\ child[c].pc = "writing" /\ wpc[c] = "idle"
  /\ CASE wret[c] # "ok" ->
            Set(c, [child[c] EXCEPT !.pc = "reply", !.answer = "error"]) /\ UNCHANGED net
       [] wret[c] = "ok" /\ Priority(child[c].msg) ->
            Set(c, [child[c] EXCEPT !.pc = "ipc"]) /\ UNCHANGED net
       [] OTHER -> /\ Answer(c, "0")
                   /\ Set(c, [child[c] EXCEPT !.pc = "ipc", !.sent = TRUE])
  /\ UNCHANGED <<fileVars, sock, ipc, il, stored, fault>>

Unlinked(l) == [sock EXCEPT ![l] = NoSocket]

\* The end of the call: the answer unless it has been sent, and what doit
\* makes of the result: a connection whose message failed after its answer is
\* closed, any other waits for the next message.
Ending(c) ==
  IF child[c].sent THEN child[c].answer = "0" ELSE net[c].client
After(c) == [NoChild EXCEPT !.pc = IF Ending(c) THEN "wait" ELSE "gone", !.pid = child[c].pid]

\* edg_wll_log_event_send
Send(c) ==
  /\ child[c].pc = "ipc" /\ il.up
  /\ ipc' = Append(ipc, child[c].msg)
  /\ IF Priority(child[c].msg) THEN Set(c, [child[c] EXCEPT !.pc = "confirm"])
     ELSE Set(c, After(c))
  /\ UNCHANGED <<fileVars, net, sock, il, stored, fault>>

\* It fails: the socket of the confirmation goes, the message stays in the file.
SendFails(c) ==
  /\ child[c].pc = "ipc" /\ (IF il.up THEN Fault("ipc") ELSE UNCHANGED fault)
  /\ sock' = IF Priority(child[c].msg) THEN Unlinked(child[c].lllid) ELSE sock
  /\ Set(c, [child[c] EXCEPT !.pc = "reply", !.answer = "error"])
  /\ UNCHANGED <<fileVars, net, ipc, il, stored>>

\* wait_for_confirmation: the code of whoever connects first.
Confirmed(c) ==
  LET q == sock[child[c].lllid].codes
  IN /\ child[c].pc = "confirm" /\ q # <<>>
     /\ Set(c, [child[c] EXCEPT !.pc = "reply", !.answer = Head(q)])
     /\ sock' = Unlinked(child[c].lllid)
     /\ UNCHANGED <<fileVars, net, ipc, il, stored, fault>>

\* Nobody is going to connect any more: the inter-logger is down, or has lost
\* the confirmation in a crash.
Hopeless(c) ==
  \/ ~il.up
  \/ LET m == child[c].msg
     IN /\ il.owed.rcpt # m.rcpt /\ m \notin ToSet(ipc)
        /\ \/ Command(m) \/ name = 0
           \/ m \notin ToSet(SubSeq(files[name], committed + 1, Len(files[name])))

\* wait_for_confirmation returns 0: EAGAIN, and the socket is gone.  Unless
\* it is hopeless, the inter-logger or the server is slow.
ConfirmTimeout(c) ==
  /\ child[c].pc = "confirm" /\ sock[child[c].lllid].codes = <<>>
  /\ IF Hopeless(c) THEN UNCHANGED fault ELSE Fault("late")
  /\ Set(c, [child[c] EXCEPT !.pc = "reply", !.answer = "EAGAIN"])
  /\ sock' = Unlinked(child[c].lllid)
  /\ il' = [il EXCEPT !.late = @ \cup {child[c].lllid}]
  /\ UNCHANGED <<fileVars, net, ipc, stored>>

Reply(c) ==
  /\ child[c].pc = "reply"
  /\ IF child[c].sent THEN UNCHANGED net ELSE Answer(c, child[c].answer)
  /\ Set(c, After(c))
  /\ UNCHANGED <<fileVars, sock, ipc, il, stored, fault>>

-----------------------------------------------------------------------------
(* The inter-logger, as the local logger sees it                            *)

\* input_queue_get and handle_msg: the store of the job is there from now on.
HandleMsg ==
  /\ il.up /\ ipc # <<>> /\ ~Command(Head(ipc))
  /\ ipc' = Tail(ipc)
  /\ IF name = 0 \/ attached THEN UNCHANGED fileVars ELSE Attach
  /\ UNCHANGED <<net, child, sock, il, stored, fault>>

\* handle_cmd: the flush returns when all of the job's events are delivered, ...
HandleCmd ==
  /\ il.up /\ ipc # <<>> /\ Command(Head(ipc)) /\ il.owed = NoOwed
  /\ \/ /\ (name # 0 => committed = Len(files[name])) /\ UNCHANGED fault
        /\ il' = [il EXCEPT !.owed = [rcpt |-> Head(ipc).rcpt, code |-> "0"]]
     \* ... or at its timeout, with EDG_WLL_IL_EVENTS_WAITING.
     \/ /\ name # 0 /\ committed < Len(files[name]) /\ Fault("late")
        /\ il' = [il EXCEPT !.owed = [rcpt |-> Head(ipc).rcpt, code |-> "WAITING"]]
  /\ ipc' = Tail(ipc)
  /\ UNCHANGED <<fileVars, net, child, sock, stored>>

\* The recovery thread finds the file.
Recover ==
  /\ il.up /\ Attach
  /\ UNCHANGED loggerVars

Sent(m, code) == [il EXCEPT !.owed = IF m.rcpt = NoReceipt THEN NoOwed ELSE [rcpt |-> m.rcpt, code |-> code]]

\* event_queue_send_events: the server has answered LB_OK, ...
Deliver ==
  LET m == files[name][committed + 1]
  IN /\ il.up /\ il.owed = NoOwed /\ Commit
     /\ stored' = stored \cup {m.id}
     /\ il' = Sent(m, "0")
     /\ UNCHANGED <<net, child, sock, ipc, fault>>

\* ... or LB_PERM: the event is committed just the same.
DeliverRefused ==
  LET m == files[name][committed + 1]
  IN /\ il.up /\ il.owed = NoOwed /\ Fault("refuse") /\ Commit
     /\ il' = [Sent(m, "error") EXCEPT !.refused = @ \cup {m.id}]
     /\ UNCHANGED <<net, child, sock, ipc, stored>>

\* send_confirmation: to whoever listens at that name now, or to nobody.
Confirm ==
  /\ il.up /\ il.owed # NoOwed
  /\ sock' = [sock EXCEPT ![il.owed.rcpt].codes = IF sock[il.owed.rcpt].state = "listen"
                                                 THEN Append(@, il.owed.code) ELSE @]
  /\ il' = [il EXCEPT !.owed = NoOwed]
  /\ UNCHANGED <<fileVars, net, child, ipc, stored, fault>>

\* event_store_cleanup
Clean ==
  /\ il.up /\ ((CleanOpen /\ Fault("clean")) \/ (Cleaning /\ UNCHANGED fault))
  /\ UNCHANGED <<net, child, sock, ipc, il, stored>>

\* A crash: what was in the socket is lost, the control file is not.
Crash ==
  /\ il.up /\ Fault("crash")
  /\ il' = [il EXCEPT !.up = FALSE, !.owed = NoOwed]
  /\ ipc' = <<>> /\ attached' = FALSE /\ cpc' = "idle"
  /\ lock' = [i \in DOMAIN lock |-> IF lock[i] = Cleaner THEN Free ELSE lock[i]]
  /\ UNCHANGED <<files, name, writer, committed, cino, acked, net, child, sock, stored>>

\* input_queue_attach: a socket left over is removed.
Restart ==
  /\ ~il.up
  /\ il' = [il EXCEPT !.up = TRUE]
  /\ UNCHANGED <<fileVars, net, child, sock, ipc, stored, fault>>

WriterStep(w) ==
  \/ Writing(w) /\ UNCHANGED loggerVars
  \/ WriteFails(w) /\ Fault("write") /\ UNCHANGED <<net, child, sock, ipc, il, stored>>

ChildStep(c) ==
  \/ Accept(c) \/ Eof(c) \/ Receive(c) \/ Written(c) \/ Send(c) \/ SendFails(c)
  \/ Confirmed(c) \/ ConfirmTimeout(c) \/ Reply(c)
ChildFault(c) == IdleClose(c) \/ Killed(c)
IlStep == HandleMsg \/ HandleCmd \/ Recover \/ Deliver \/ Confirm \/ Clean \/ Restart
IlFault == DeliverRefused \/ Crash
=============================================================================
