------------------------------ MODULE Request ------------------------------
(***************************************************************************)
(* Requests and their answers: threads of a client process that share a    *)
(* pool of connections (ConnPool) and the slaves of the servers (BkServer).*)
(***************************************************************************)
EXTENDS ConnPool

vars == <<net, files, bud, sl, pool, opened, plock, locked_by, th, dead>>

Init == /\ bud \in Scenarios
        /\ ServerInit
        /\ ClientInit

Client == \E t \in Threads : ClientStep(t) /\ UNCHANGED sl
Server == \E s \in Slaves : ServerStep(s) /\ UNCHANGED <<clientVars, files>>

\* All the calls have returned.
Finished == dead \/ \A t \in Threads : th[t].pc = "idle" /\ bud.script[t] = <<>>

Next == Client \/ Server \/ (Renew /\ UNCHANGED sl)

\* Threads and slaves go on as long as they can.
Spec == Init /\ [][Next]_vars /\ WF_vars(Client) /\ WF_vars(Server)

---------------------------------------------------------------------------
(* Properties                                                              *)

HasAnswer(t) == th[t].pc = "ret" /\ th[t].ans # NoAns

\* An answer a call returns with is the answer to the request of that call,
\* its first line as well as its body, however many timeouts, reconnections
\* and other threads there were before - unless one of the two processes
\* began to read the connection with the rest of another message in its
\* buffer (connection.c, http_send_recv).
AnswerIsOwn ==
    \A t \in Threads : HasAnswer(t) /\ th[t].ans.clean /\ th[t].ans.id # None
                          => /\ th[t].ans.id = th[t].call.id
                             /\ th[t].ans.body = th[t].call.id

\* A thread with a certificate of its own is answered as the owner of that
\* certificate, although connections are shared (ConnectionIndex in
\* connection.c).
AnsweredAs ==
    \A t \in Threads : HasAnswer(t) /\ ~th[t].call.proxy /\ Cert(t) # None
                          => th[t].ans.user = Cert(t)

\* Every call returns in the end, or an assertion has stopped the process:
\* no lock is left behind on any path (edg_wll_open, edg_wll_close).
CallsReturn == <>Finished
=============================================================================
