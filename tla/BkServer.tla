----------------------------- MODULE BkServer ------------------------------
(***************************************************************************)
(* The slaves of the bookkeeping server and of the proxy (bkserverd.c,     *)
(* lb_http.c): each serves one connection at a time, request by request.   *)
(* How connections are given to the slaves is the matter of SrvBones; here *)
(* a slave that waits for the next request of a client it has served is    *)
(* ready to take another connection instead.                               *)
(*                                                                         *)
(* sl[s]  a slave process: the connection, the buffer of serverConnection  *)
(*        (or connProxy), what it has read of a request, the pieces of the *)
(*        answer to be written and what follows then.                      *)
(***************************************************************************)
EXTENDS Gss, LbProto

CONSTANTS Slaves,
          SlaveOf,    \* [Slaves -> Servers]
          Proxy       \* the name of the proxy among the servers

ASSUME SlaveAssumption == SlaveOf \in [Slaves -> Servers] /\ Proxy \in Servers

VARIABLE sl

NewSlave == [conn |-> 0, pc |-> "free", buf |-> <<>>, got |-> Nothing, in |-> FALSE,
             user |-> None, served |-> FALSE, out |-> <<>>, then |-> None]
ServerInit == sl = [s \in Slaves |-> NewSlave]

IsProxy(s) == SlaveOf[s] = Proxy

\* The slave has let its client go.
Gone(s) == [NewSlave EXCEPT !.buf = IF IsProxy(s) THEN <<>> ELSE sl[s].buf]

\* A slave that is about to answer this connection.
Waiting(c) == \A s \in Slaves : sl[s].conn = c => sl[s].pc = "idle" /\ net[c].up = <<>>

---------------------------------------------------------------------------

MayTake(s) == sl[s].pc = "free" \/ (sl[s].pc = "idle" /\ sl[s].served /\ ~sl[s].in)

\* bk_clnt_disconnect for the old connection, if there is one.
Take(s, c) ==
    /\ MayTake(s)
    /\ net[c].peer = SlaveOf[s] /\ net[c].sv = "queued"
    /\ net' = [ServerClose(net, sl[s].conn) EXCEPT ![c].sv = "open",
                                                   ![c].clean = @ /\ Gone(s).buf = <<>>]
    /\ sl' = [sl EXCEPT ![s] = [Gone(s) EXCEPT !.conn = c, !.pc = "accept"]]
    /\ UNCHANGED bud

Drop(s) == net' = ServerClose(net, sl[s].conn) /\ sl' = [sl EXCEPT ![s] = Gone(s)]
Restart(s) == net' = ServerClose(net, sl[s].conn) /\ sl' = [sl EXCEPT ![s] = NewSlave]

\* Authentication.  A failure ends the connection; what looks like an expired
\* certificate, and failures to name the client, end the slave.
bk_handle_connection(s) ==
    LET c == sl[s].conn
    IN  /\ sl[s].pc = "accept" /\ ~IsProxy(s)
        /\ \/ /\ net[c].up # <<>>
              /\ net' = edg_wll_gss_accept(net, c)
              /\ sl' = [sl EXCEPT ![s].pc = "idle",
                                  ![s].user = edg_wll_gss_get_client_conn(net, c)]
              /\ UNCHANGED bud
           \/ eof_up(net, c) /\ Drop(s) /\ UNCHANGED bud
           \/ Spend("refusals") /\ (Drop(s) \/ Restart(s))

bk_handle_connection_proxy(s) ==
    /\ sl[s].pc = "accept" /\ IsProxy(s)
    /\ sl' = [sl EXCEPT ![s].pc = "idle"]
    /\ UNCHANGED <<net, bud>>

Answer(code, id, body, user, c) ==
    Pieces([op |-> "answer", code |-> code, id |-> id, user |-> user, clean |-> net[c].clean,
            body |-> None], [id |-> body])

\* The request could not be read: it is answered, when there is someone to
\* answer to, and the connection closed.
ReadFails(s) ==
    sl' = [sl EXCEPT ![s].pc = "answer", ![s].then = "close", ![s].got = Nothing,
                     ![s].out = Answer(HTTP_BADREQ, None, None, sl[s].user, sl[s].conn)]

\* Other clients wait for a slave of the proxy whose own client may have left
\* its connection open: the time allowed for a request runs out some day.
Awaited(s) == /\ IsProxy(s) /\ net[sl[s].conn].up = <<>>
              /\ \E c \in Conns : net[c].peer = Proxy /\ net[c].sv = "queued"

edg_wll_AcceptHTTP(s) ==
    LET c == sl[s].conn
        r == http_recv(sl[s].got, sl[s].buf, net[c].up)
    IN  /\ sl[s].pc = "idle"
        /\ \/ /\ net[c].up # <<>>
              /\ net' = read_up(net, c)
              /\ sl' = [sl EXCEPT ![s].pc = CASE r.got.st = "DONE" -> "serve"
                                              [] r.got.st = "E2BIG" -> "failed"
                                              [] OTHER -> "idle",
                                  ![s].in = TRUE, ![s].got = r.got, ![s].buf = r.buf]
              /\ UNCHANGED bud
           \/ eof_up(net, c) /\ Drop(s) /\ UNCHANGED bud
           \/ /\ (Awaited(s) /\ UNCHANGED bud) \/ Spend("idle")
              /\ IF sl[s].in THEN ReadFails(s) /\ UNCHANGED net ELSE Drop(s)

TooLong(s) == sl[s].pc = "failed" /\ ReadFails(s) /\ UNCHANGED <<net, bud>>

\* The operation is run, and its answer prepared.
Serve(s) ==
    /\ sl[s].pc = "serve"
    /\ LET q == sl[s].got.line
           hasBody == sl[s].got.body # NoUnit
           r == edg_wll_Proto(q, sl[s].user # None)
           how == bk_accept_serve(r, hasBody)
           code == IF how = "soap" THEN HTTP_INTERNAL ELSE r.http
           body == IF hasBody THEN sl[s].got.body.id ELSE q.id
       IN  sl' = [sl EXCEPT ![s].pc = "answer", ![s].then = handle_server_error(r.err),
                            ![s].got = Nothing, ![s].in = FALSE, ![s].served = TRUE,
                            ![s].out = IF how = "no" THEN <<>>
                                       ELSE Answer(code, q.id, body, sl[s].user, sl[s].conn)]
    /\ UNCHANGED <<net, bud>>

\* Writing the answer; whether it succeeds is not looked at.
edg_wll_DoneHTTP(s) ==
    /\ sl[s].pc = "answer" /\ sl[s].out # <<>>
    /\ net' = write_down(net, sl[s].conn, Head(sl[s].out))
    /\ sl' = [sl EXCEPT ![s].out = Tail(@)]
    /\ UNCHANGED bud

Answered(s) ==
    /\ sl[s].pc = "answer" /\ sl[s].out = <<>>
    /\ CASE sl[s].then = "close" -> Drop(s)
         [] sl[s].then = "restart" -> Restart(s)
         [] OTHER -> sl' = [sl EXCEPT ![s].pc = "idle", ![s].then = None] /\ UNCHANGED net
    /\ UNCHANGED bud

\* The process dies; the master starts another.
SlaveDies(s) == sl[s].pc # "free" /\ Spend("crashes") /\ Restart(s)

ServerStep(s) == \/ \E c \in Conns : Take(s, c)
                 \/ bk_handle_connection(s) \/ bk_handle_connection_proxy(s)
                 \/ edg_wll_AcceptHTTP(s) \/ TooLong(s) \/ Serve(s)
                 \/ edg_wll_DoneHTTP(s) \/ Answered(s) \/ SlaveDies(s)
=============================================================================
