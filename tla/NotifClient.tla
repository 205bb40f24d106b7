---------------------------- MODULE NotifClient ----------------------------
(***************************************************************************)
(* The client's side of notifications (client/src/notification.c): the     *)
(* calls that make and change a registration, and the receiving of a       *)
(* notification from the inter-logger; and the command-line tool that      *)
(* makes single calls (notify.c).                                          *)
(*                                                                         *)
(* call    the request the client waits for an answer to                   *)
(* rcv     what NotifReceive has read and not answered yet                 *)
(* got     what it has returned to its caller                              *)
(***************************************************************************)
EXTENDS NotifIL

VARIABLES call, rcv, got
clientVars == <<call, rcv, got>>

NoCall == NoReq

\* edg_wll_http_send_recv: the request goes out, and the caller waits.
Send(rq) == /\ call' = rq
            /\ req' = rq
            /\ rsp' = NoRsp

Rq(op, id, user, dest, valid) ==
    [op |-> op, id |-> id, user |-> user, dest |-> dest, valid |-> valid,
     jobs |-> {}, states |-> {}, index |-> None, flags |-> {}]

\* get_client_address: the address of the socket the client listens on.
daemon_listen(d) == lsn' = d
get_client_address == lsn

NotifNew(id, user, valid, states) ==
    Send([Rq("New", id, user, get_client_address, valid) EXCEPT !.states = states])
NotifBind(id, user, valid) == Send(Rq("Bind", id, user, get_client_address, valid))
NotifRefresh(id, user, valid) == Send(Rq("Refresh", id, user, None, valid))
NotifDrop(id, user) == Send(Rq("Drop", id, user, None, 0))

Returned == call # NoCall /\ rsp # NoRsp
Succeeded == rsp.st = "ok"
TakeAnswer == call' = NoCall /\ rsp' = NoRsp

\* The call gives up, or its answer is lost.  A request that a server process
\* has taken up is carried out all the same.
Abandoned == /\ req' = NoReq
             /\ proc' = [p \in Procs |-> IF proc[p].pc = "locked"
                                         THEN [proc[p] EXCEPT !.waited = FALSE] ELSE proc[p]]

CallTimeout ==
    /\ call # NoCall /\ rsp.st # "error"
    /\ Spend("slow")
    /\ Abandoned
    /\ rsp' = [st |-> "error", valid |-> -1]
    /\ UNCHANGED <<now, job, regs, file, ilVars, lsn, wire, top, clientVars>>

---------------------------------------------------------------------------
(* NotifReceive                                                            *)

recv_notif == rcv' = wire[lsn].m
ReturnStatus == got' = rcv

\* A sender has connected to the listening address and is authenticated; its
\* connection goes into the pool, in the place of the oldest if that is full.
edg_wll_accept == lsn # None /\ wire[lsn].pc = "sent"

\* A new connection or data on one that is open: read_data and recv_notif.
NotifRead ==
    /\ edg_wll_accept
    /\ rcv = <<>> /\ got = <<>>
    /\ recv_notif
    /\ wire' = [wire EXCEPT ![lsn].pc = "read"]
    /\ UNCHANGED <<call, got, lsn, ilVars, top, bud, serverVars>>

\* prepare_reply and send_reply, and then the parsing of the message.  The
\* sender may be gone, which shows at once or not.
NotifReply ==
    /\ rcv # <<>>
    /\ LET there == wire[lsn].pc = "read"
       IN  /\ wire' = IF there THEN [wire EXCEPT ![lsn].pc = "replied"] ELSE wire
           /\ \/ ReturnStatus
              \/ ~there /\ got' = <<>>
    /\ rcv' = <<>>
    /\ UNCHANGED <<call, lsn, ilVars, top, bud, serverVars>>

\* The time is up once the reply is on its way: the message is gone.
NotifReplyLate ==
    /\ rcv # <<>> /\ wire[lsn].pc = "read"
    /\ Lose("late")
    /\ wire' = [wire EXCEPT ![lsn].pc = "replied"]
    /\ rcv' = <<>>
    /\ UNCHANGED <<call, got, lsn, ilVars, top, serverVars>>

\* The time is up before that: the message stays unanswered.
NotifReadTimeout ==
    /\ rcv # <<>>
    /\ Spend("slow")
    /\ rcv' = <<>>
    /\ UNCHANGED <<call, got, lsn, wire, ilVars, top, serverVars>>

NotifReceive == NotifRead \/ NotifReply \/ NotifReplyLate \/ NotifReadTimeout

---------------------------------------------------------------------------
(* The notify tool: one call for each command of the scenario's script.    *)
(* new and receive listen at an address of their own.                      *)

NotifyCommand ==
    /\ call = NoCall
    /\ bud.script # <<>>
    /\ Send(Head(bud.script))
    /\ bud' = [bud EXCEPT !.script = Tail(@)]
    /\ daemon_listen(IF Head(bud.script).dest \in Dests THEN Head(bud.script).dest ELSE lsn)
    /\ UNCHANGED <<now, job, regs, proc, file, ilVars, wire, top, rcv, got>>

NotifyDone ==
    /\ bud.tool /\ Returned
    /\ TakeAnswer
    /\ UNCHANGED <<now, job, regs, proc, file, req, ilVars, lsn, wire, top, rcv, got, bud>>

\* notify receive prints what arrives.
NotifyPrint ==
    /\ bud.tool /\ got # <<>>
    /\ got' = <<>>
    /\ UNCHANGED <<call, rcv, lsn, wire, ilVars, top, bud, serverVars>>

NotifyStep == NotifyCommand \/ NotifyDone

ClientInit == call = NoCall /\ rcv = <<>> /\ got = <<>>
=============================================================================
