----------------------------- MODULE ConnPool ------------------------------
(***************************************************************************)
(* A client process: its threads call the query interface (consumer.c),    *)
(* which sends a request and receives the answer over a connection of the  *)
(* pool they share (connection.c, connpool.c) or over one of their own to  *)
(* the proxy.                                                              *)
(*                                                                         *)
(* pool[i]   an entry of the pool                                          *)
(* opened    connOpened.  It is changed outside of the pool's lock, too,   *)
(*           so reading and writing it are separate steps.                 *)
(* th[t]     a thread with its context                                     *)
(***************************************************************************)
EXTENDS BkServer

CONSTANTS Threads,
          QueryServer,   \* p_query_server
          JobServer      \* the server in a job's identifier

VARIABLES pool, opened, plock, locked_by, th,
          dead           \* an assertion has failed
clientVars == <<pool, opened, plock, locked_by, th, dead>>

PoolSize == bud.size
Idx == 1 .. PoolSize
NoEntry == [peer |-> None, gss |-> 0, cred |-> FALSE, cert |-> None, mtime |-> 0,
            buf |-> <<>>, used |-> 0]
NoCall == [op |-> None, agent |-> "same", parsed |-> TRUE, err |-> "none", jobs |-> {},
           proxy |-> FALSE, id |-> None]
NoAns == [code |-> 0, id |-> None, user |-> None, clean |-> TRUE, body |-> None]

\* The servers of the jobs asked for are known, and are not the proxy.
ASSUME PoolAssumption ==
    /\ None \notin Threads /\ None \notin Servers
    /\ QueryServer \in (Servers \ {Proxy}) \cup {None}
    /\ \A j \in DOMAIN JobServer : JobServer[j] \in Servers \ {Proxy}
    /\ \A s \in Scenarios :
          /\ {"script", "who", "size"} \subseteq DOMAIN s /\ s.size \in Nat
          /\ DOMAIN s.script = Threads
          /\ \A t \in Threads :
                /\ s.script[t] \in Seq(ToSet(s.script[t]))
                /\ \A k \in 1..Len(s.script[t]) : /\ DOMAIN s.script[t][k] = DOMAIN NoCall
                                                 /\ s.script[t][k].jobs \subseteq DOMAIN JobServer

\* px and pbuf are the connection to the proxy and its buffer.
NewThread == [pc |-> "idle", call |-> NoCall, srv |-> None, idx |-> 0, stage |-> 0,
              left |-> 0, conn |-> 0, tmp |-> 0, next |-> None, err |-> None, sent |-> 0,
              got |-> Nothing, ans |-> NoAns, px |-> 0, pbuf |-> <<>>]

edg_wll_initConnections == /\ pool = [i \in Idx |-> NoEntry]
                           /\ opened = 0
                           /\ plock = None
                           /\ locked_by = [i \in Idx |-> None]

ClientInit == /\ edg_wll_initConnections
              /\ th = [t \in Threads |-> NewThread]
              /\ dead = FALSE
              /\ files = [w \in {bud.who[t] : t \in Threads} |-> 1]
              /\ net = [c \in Conns |-> NoConn]

At(t, pc) == th[t].pc = pc /\ ~dead
Cert(t) == bud.who[t]

---------------------------------------------------------------------------
(* The calls of consumer.c                                                 *)

\* The server is the one of the jobs asked for; without any it is the one
\* asked before, if there is one, and the configured one otherwise.
set_server_name_and_port(srv, call) ==
    LET of == {JobServer[j] : j \in call.jobs}
    IN  IF Cardinality(of) > 1 THEN "EINVAL"
        ELSE IF of # {} THEN CHOOSE s \in of : TRUE
        ELSE IF srv # None THEN srv
        ELSE IF QueryServer = None THEN "EINVAL" ELSE QueryServer

\* A thread begins its next call.
Call(t) ==
    /\ At(t, "idle")
    /\ bud.script[t] # <<>>
    /\ LET call == [Head(bud.script[t]) EXCEPT !.id = <<t, Len(bud.script[t])>>]
           srv == set_server_name_and_port(th[t].srv, call)
           new == [th[t] EXCEPT !.call = call, !.stage = 1, !.sent = 0, !.got = Nothing,
                                !.err = None, !.ans = NoAns]
       IN  th' = [th EXCEPT ![t] =
                     IF call.proxy THEN [new EXCEPT !.pc = "popen"]
                     ELSE IF srv = "EINVAL" THEN [new EXCEPT !.pc = "ret", !.err = "EINVAL"]
                     ELSE [new EXCEPT !.pc = "lock", !.srv = srv]]
    /\ bud' = [bud EXCEPT !.script[t] = Tail(@)]
    /\ UNCHANGED <<pool, opened, plock, locked_by, dead, net, files>>

\* What the status line of the answer means: the results are looked at when
\* there are any.
http_check_status(code) ==
    CASE code \in {HTTP_OK, HTTP_UNAUTH, HTTP_GONE, HTTP_NOTFOUND, HTTP_NOTIMPL, HTTP_UNAVAIL,
                   HTTP_INVALID} -> "results"
      [] code = HTTP_NOTALLOWED -> "ENXIO"
      [] code = HTTP_UNSUPPORTED -> "ENOTSUP"
      [] code = HTTP_ACCEPTED -> "ACCEPTED_OK"
      [] OTHER -> "SERVER_RESPONSE"

\* The server asked last and the connection to the proxy stay in the context.
Return(t) ==
    /\ At(t, "ret")
    /\ th' = [th EXCEPT ![t] = [NewThread EXCEPT !.srv = th[t].srv, !.px = th[t].px,
                                                 !.pbuf = th[t].pbuf]]
    /\ UNCHANGED <<pool, opened, plock, locked_by, dead, net, files, bud>>

---------------------------------------------------------------------------
(* edg_wll_open                                                            *)

Unlocked == {i \in Idx : locked_by[i] = None}

\* A version that does not look at the certificate.
MutIgnoreCert(t) == LET fit == {i \in Unlocked : pool[i].peer = th[t].srv}
                    IN  IF fit = {} THEN 0 ELSE Min(fit)

\* The open connection of this server and identity.  A thread that has not
\* been given a certificate file takes any.
ConnectionIndex(t) ==
    LET fit == {i \in Unlocked : /\ pool[i].peer = th[t].srv
                                 /\ Cert(t) = None \/ pool[i].cert = Cert(t)}
    IN  IF fit = {} THEN 0 ELSE Min(fit)

\* A version that keeps the lock of the pool.
MutOpenFails(t, err) ==
    /\ th' = [th EXCEPT ![t].pc = "ret", ![t].err = err, ![t].idx = 0]
    /\ UNCHANGED <<pool, opened, plock, locked_by, dead, net>>

OpenFails(t, err) ==
    /\ th' = [th EXCEPT ![t].pc = "ret", ![t].err = err, ![t].idx = 0]
    /\ plock' = None
    /\ UNCHANGED <<pool, opened, locked_by, dead, net>>

Find(t) ==
    /\ At(t, "lock")
    /\ plock = None
    /\ LET i == ConnectionIndex(t)
       IN  IF i # 0
           THEN /\ locked_by' = [locked_by EXCEPT ![i] = t]
                /\ th' = [th EXCEPT ![t].pc = "cred", ![t].idx = i]
                /\ UNCHANGED plock
           ELSE /\ th' = [th EXCEPT ![t].pc = IF opened = PoolSize THEN "release" ELSE "add"]
                /\ plock' = t
                /\ UNCHANGED locked_by
    /\ UNCHANGED <<pool, opened, dead, net, files, bud>>

\* CloseConnection up to the change of connOpened.
CloseConnection(t, i) ==
    IF opened = 0 THEN dead' = TRUE /\ UNCHANGED <<net, pool>>
    ELSE /\ net' = edg_wll_gss_close(net, pool[i].gss)
         /\ pool' = [pool EXCEPT ![i] = NoEntry]
         /\ UNCHANGED dead

Oldest == LET used(i) == pool[i].used
          IN  CHOOSE i \in Unlocked : \A k \in Unlocked : <<used(i), i>>[1] < used(k)
                                                         \/ (used(i) = used(k) /\ i <= k)

\* A full pool: the entry not used for the longest time goes.
ReleaseConnection(t) ==
    /\ At(t, "release")
    /\ IF \E i \in Idx : pool[i].peer = None
       THEN dead' = TRUE /\ UNCHANGED <<pool, opened, plock, locked_by, th, net>>
       ELSE IF Unlocked = {} THEN OpenFails(t, "EAGAIN")
       ELSE /\ CloseConnection(t, Oldest)
            /\ th' = [th EXCEPT ![t].pc = "released", ![t].tmp = opened]
            /\ UNCHANGED <<opened, plock, locked_by>>
    /\ UNCHANGED <<files, bud>>

Released(t) ==
    /\ At(t, "released")
    /\ opened' = th[t].tmp - 1
    /\ th' = [th EXCEPT ![t].pc = "add"]
    /\ UNCHANGED <<pool, plock, locked_by, dead, net, files, bud>>

AddConnection(t) ==
    /\ At(t, "add")
    /\ LET free == {i \in Unlocked : pool[i].peer = None}
           i == Min(free)
       IN  IF free = {} THEN OpenFails(t, "EAGAIN")
           ELSE /\ locked_by' = [locked_by EXCEPT ![i] = t]
                /\ pool' = [pool EXCEPT ![i].peer = th[t].srv, ![i].cred = FALSE, ![i].cert = None]
                /\ th' = [th EXCEPT ![t].pc = "added", ![t].idx = i, ![t].tmp = opened]
                /\ UNCHANGED <<opened, plock, dead, net>>
    /\ UNCHANGED <<files, bud>>

Added(t) ==
    /\ At(t, "added")
    /\ opened' = th[t].tmp + 1
    /\ plock' = None
    /\ th' = [th EXCEPT ![t].pc = "cred"]
    /\ UNCHANGED <<pool, locked_by, dead, net, files, bud>>

\* The connection is given up: the entry is closed, then the thread goes on
\* at pc.
GiveUp(t, pc, err) == th' = [th EXCEPT ![t].pc = "close", ![t].next = pc, ![t].err = err]

\* Credentials are read when there are none, or when their file has changed
\* since; an old connection is closed then.
CredDue(t) == LET e == pool[th[t].idx]
              IN  \/ ~e.cred
                  \/ Cert(t) # None /\ (e.cert = None \/ e.mtime # files[Cert(t)])

Credentials(t) ==
    /\ At(t, "cred")
    /\ LET i == th[t].idx
           e == pool[i]
           on(c) == [th EXCEPT ![t].pc = IF c = 0 THEN "connect" ELSE "send",
                               ![t].left = Addresses, ![t].sent = 0]
       IN  IF ~CredDue(t)
           THEN th' = on(e.gss) /\ UNCHANGED <<net, pool, bud>>
           ELSE \/ /\ Acquired(GoodFiles)
                   /\ pool' = [pool EXCEPT ![i].cred = TRUE, ![i].gss = 0,
                                           ![i].cert = Cert(t),
                                           ![i].mtime = IF Cert(t) = None THEN 0 ELSE files[Cert(t)]]
                   /\ net' = edg_wll_gss_close(net, e.gss)
                   /\ th' = on(0)
                   /\ UNCHANGED bud
                \/ /\ \E f \in CredFiles : ~Acquired(f)
                   /\ Spend("faults")
                   /\ GiveUp(t, "ret", "GSS")
                   /\ UNCHANGED <<net, pool>>
    /\ UNCHANGED <<opened, plock, locked_by, dead, files>>

\* The address did not do: the next one, if there is time.
NextAddress(t, err) ==
    IF th[t].left > 1 THEN th' = [th EXCEPT ![t].pc = "connect", ![t].left = @ - 1, ![t].conn = 0]
    ELSE th' = [th EXCEPT ![t].pc = "close", ![t].next = "ret", ![t].err = err, ![t].conn = 0]

Connect(t) ==
    /\ At(t, "connect")
    /\ \/ /\ FreeConns(net) # {}
          /\ net' = do_connect(net, AConn(net), th[t].srv, pool[th[t].idx].cert)
          /\ th' = [th EXCEPT ![t].pc = "auth", ![t].conn = AConn(net)]
          /\ UNCHANGED bud
       \/ /\ Spend("faults")
          /\ \E l \in Lookups :
                CASE asyn_getservbyname(l) = "end" -> GiveUp(t, "ret", gss_connect_error(l))
                  [] asyn_getservbyname(l) = "next" -> NextAddress(t, gss_connect_error(l))
                  [] OTHER -> NextAddress(t, "ECONNREFUSED")
          /\ UNCHANGED net
    /\ UNCHANGED <<pool, opened, plock, locked_by, dead, files>>

Auth(t) ==
    /\ At(t, "auth")
    /\ LET c == th[t].conn
       IN  \/ /\ try_conn_and_auth(net, c)
              /\ net' = Authenticated(net, c)
              /\ pool' = [pool EXCEPT ![th[t].idx].gss = c]
              /\ th' = [th EXCEPT ![t].pc = "send", ![t].conn = 0]
              /\ UNCHANGED bud
           \/ /\ eof_down(net, c)
              /\ net' = edg_wll_gss_close(net, c)
              /\ NextAddress(t, "ECONNREFUSED")
              /\ UNCHANGED <<pool, bud>>
           \/ /\ Spend("slow")
              /\ net' = edg_wll_gss_close(net, c)
              /\ th' = [th EXCEPT ![t].pc = "close", ![t].next = "ret", ![t].err = "ETIMEDOUT",
                                  ![t].conn = 0]
              /\ UNCHANGED pool
    /\ UNCHANGED <<opened, plock, locked_by, dead, files>>

\* A version that keeps the connection for the next call.
MutClose(t) ==
    /\ At(t, "close")
    /\ th' = [th EXCEPT ![t].pc = th[t].next, ![t].idx = 0, ![t].got = Nothing, ![t].next = None]
    /\ locked_by' = [locked_by EXCEPT ![th[t].idx] = None]
    /\ UNCHANGED <<pool, opened, plock, dead, net, files, bud>>

\* edg_wll_close, and the error path of edg_wll_open: without the pool's lock.
Close(t) ==
    /\ At(t, "close")
    /\ CloseConnection(t, th[t].idx)
    /\ th' = [th EXCEPT ![t].pc = "closed", ![t].tmp = opened, ![t].got = Nothing]
    /\ UNCHANGED <<opened, plock, locked_by, files, bud>>

Closed(t) ==
    /\ At(t, "closed")
    /\ opened' = th[t].tmp - 1
    /\ locked_by' = [locked_by EXCEPT ![th[t].idx] = None]
    /\ th' = [th EXCEPT ![t].pc = th[t].next, ![t].idx = 0, ![t].next = None]
    /\ UNCHANGED <<pool, plock, dead, net, files, bud>>

---------------------------------------------------------------------------
(* edg_wll_http_send_recv: a connection found dead is opened once more for *)
(* the sending, and once more for the receiving.                           *)

Request(t) == Pieces(th[t].call, IF th[t].call.op \in Pages THEN NoUnit ELSE th[t].call)

\* Nothing will come any more unless the client does something.
Quiet(c) == net[c].down = <<>> /\ net[c].sv = "open" /\ Waiting(c)

http_send(t) ==
    /\ At(t, "send")
    /\ LET c == pool[th[t].idx].gss
           n == th[t].sent + 1
           all == Request(t)
       IN  \/ \E r \in real_write(net, c) :
                 /\ IF r = "ok"
                    THEN th' = [th EXCEPT ![t].sent = n,
                                          ![t].pc = IF n = Len(all) THEN "recv" ELSE "send"]
                    ELSE IF r = "ENOTCONN" /\ th[t].stage = 1
                    THEN th' = [th EXCEPT ![t].pc = "close", ![t].next = "lock", ![t].stage = 2]
                    ELSE GiveUp(t, "ret", r)
                 /\ net' = IF r = "ok" THEN write_up(net, c, all[n]) ELSE net
                 /\ UNCHANGED bud
           \/ Spend("slow") /\ GiveUp(t, "ret", "ETIMEDOUT") /\ UNCHANGED net
    /\ UNCHANGED <<pool, opened, plock, locked_by, dead, files>>

\* The answer is complete: the connection is free for the next call.
GotAnswer(t, r) ==
    /\ th' = [th EXCEPT ![t].pc = "ret", ![t].idx = 0, ![t].ans = [r.got.line EXCEPT !.body = r.got.body.id]]
    /\ pool' = [pool EXCEPT ![th[t].idx].buf = r.buf,
                            ![th[t].idx].used = 1 + Max({pool[i].used : i \in Idx})]
    /\ locked_by' = [locked_by EXCEPT ![th[t].idx] = None]

http_send_recv(t) ==
    /\ At(t, "recv")
    /\ LET i == th[t].idx
           c == pool[i].gss
       IN  \/ /\ net[c].down # <<>>
              /\ LET r == http_recv(th[t].got, pool[i].buf, net[c].down)
                 IN  IF r.got.st = "DONE" THEN GotAnswer(t, r)
                     ELSE /\ th' = [th EXCEPT ![t].got = r.got]
                          /\ pool' = [pool EXCEPT ![i].buf = r.buf]
                          /\ UNCHANGED locked_by
              /\ net' = read_down(net, c)
              /\ UNCHANGED bud
           \/ /\ eof_down(net, c)
              /\ IF th[t].stage < 3
                 THEN th' = [th EXCEPT ![t].pc = "close", ![t].next = "lock", ![t].stage = 3]
                 ELSE GiveUp(t, "ret", "ENOTCONN")
              /\ UNCHANGED <<net, pool, locked_by, bud>>
           \/ /\ (Quiet(c) /\ UNCHANGED bud) \/ Spend("slow")
              /\ GiveUp(t, "ret", "ETIMEDOUT")
              /\ UNCHANGED <<net, pool, locked_by>>
    /\ UNCHANGED <<opened, plock, dead, files>>

---------------------------------------------------------------------------
(* edg_wll_http_send_recv_proxy: the connection is the thread's own and is *)
(* closed after each exchange that came as far as the receiving.           *)

ProxyReturns(t, err) == th' = [th EXCEPT ![t].pc = "ret", ![t].err = err]

\* The connection is closed; what has been read stays in connProxy->buf.
ProxyEnds(t, err) == th' = [th EXCEPT ![t].pc = "ret", ![t].err = err, ![t].px = 0]

Reopen(t, stage) == th' = [th EXCEPT ![t].pc = "popen", ![t].stage = stage, ![t].px = 0,
                                     ![t].sent = 0, ![t].got = Nothing]

\* One that an earlier call left open is taken as it is.
edg_wll_open_proxy(t) ==
    /\ At(t, "popen")
    /\ LET soil(n, c) == [n EXCEPT ![c].clean = th[t].px = 0 /\ th[t].pbuf = <<>>]
       IN  \/ /\ th[t].px # 0
              /\ net' = soil(net, th[t].px)
              /\ th' = [th EXCEPT ![t].pc = "psend"]
              /\ UNCHANGED bud
           \/ /\ th[t].px = 0 /\ FreeConns(net) # {}
              /\ net' = soil(plain_connect(net, AConn(net), Proxy), AConn(net))
              /\ th' = [th EXCEPT ![t].pc = "psend", ![t].px = AConn(net)]
              /\ UNCHANGED bud
           \/ /\ th[t].px = 0 /\ Spend("faults")
              /\ \E err \in {"ETIMEDOUT", "ECONNREFUSED"} : ProxyEnds(t, err)
              /\ UNCHANGED net
    /\ UNCHANGED <<pool, opened, plock, locked_by, dead, files>>

\* A failed sending leaves the connection open, except in the third stage.
ProxySendFails(t, err) == IF th[t].stage = 3 THEN ProxyEnds(t, err) ELSE ProxyReturns(t, err)

http_send_proxy(t) ==
    /\ At(t, "psend")
    /\ LET c == th[t].px
           n == th[t].sent + 1
           all == Request(t)
       IN  \/ \E r \in real_write(net, c) :
                 CASE r = "ok" -> /\ net' = write_up(net, c, all[n])
                                  /\ th' = [th EXCEPT ![t].sent = n,
                                              ![t].pc = IF n = Len(all) THEN "precv" ELSE "psend"]
                                  /\ UNCHANGED bud
                   [] r = "ENOTCONN" /\ th[t].stage = 1 ->
                                  /\ net' = edg_wll_gss_close(net, c)
                                  /\ Reopen(t, 2)
                                  /\ UNCHANGED bud
                   [] OTHER ->    /\ net' = IF th[t].stage = 3 THEN edg_wll_gss_close(net, c) ELSE net
                                  /\ ProxySendFails(t, r)
                                  /\ UNCHANGED bud
           \/ /\ Spend("slow")
              /\ ProxySendFails(t, "ETIMEDOUT")
              /\ net' = IF th[t].stage = 3 THEN edg_wll_gss_close(net, c) ELSE net
    /\ UNCHANGED <<pool, opened, plock, locked_by, dead, files>>

http_send_recv_proxy(t) ==
    /\ At(t, "precv")
    /\ LET c == th[t].px
       IN  \/ /\ net[c].down # <<>>
              /\ LET r == http_recv_proxy(th[t].got, th[t].pbuf, net[c].down)
                 IN  IF r.got.st = "DONE"
                     THEN /\ th' = [th EXCEPT ![t].pc = "ret", ![t].px = 0, ![t].pbuf = r.buf,
                                      ![t].ans = [code |-> r.got.line.code, id |-> r.got.line.id,
                                                  user |-> r.got.line.user, body |-> r.got.body.id,
                                                  clean |-> r.got.line.clean /\ net[c].clean]]
                          /\ net' = edg_wll_gss_close(net, c)
                     ELSE /\ th' = [th EXCEPT ![t].got = r.got, ![t].pbuf = r.buf]
                          /\ net' = read_down(net, c)
              /\ UNCHANGED bud
           \/ /\ eof_down(net, c)
              /\ net' = edg_wll_gss_close(net, c)
              /\ IF th[t].stage < 3 THEN Reopen(t, 3) ELSE ProxyEnds(t, "ENOTCONN")
              /\ UNCHANGED bud
           \/ /\ (Quiet(c) /\ UNCHANGED bud) \/ Spend("slow")
              /\ net' = edg_wll_gss_close(net, c)
              /\ ProxyEnds(t, "ETIMEDOUT")
    /\ UNCHANGED <<pool, opened, plock, locked_by, dead, files>>

ClientStep(t) == \/ Call(t) \/ Return(t) \/ Find(t) \/ ReleaseConnection(t) \/ Released(t)
                 \/ AddConnection(t) \/ Added(t) \/ Credentials(t) \/ Connect(t) \/ Auth(t)
                 \/ Close(t) \/ Closed(t) \/ http_send(t) \/ http_send_recv(t)
                 \/ edg_wll_open_proxy(t) \/ http_send_proxy(t) \/ http_send_recv_proxy(t)

\* A user renews the proxy certificate.
Renew == /\ \E w \in DOMAIN files : files' = [files EXCEPT ![w] = @ + 1]
         /\ Spend("renewals")
         /\ UNCHANGED <<clientVars, net>>
=============================================================================
