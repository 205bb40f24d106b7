------------------------------- MODULE Notif -------------------------------
(***************************************************************************)
(* Notifications from the change of a job's state to the harvester's       *)
(* storage: the server, the notification inter-logger, the client library  *)
(* and the harvester together.  A scenario says what happens, and whether  *)
(*   calm     the inter-logger reads what there is before more is written, *)
(*   moves    registrations change their address,                          *)
(*   shortens a registration's validity becomes shorter than it was,       *)
(*   miscounts a control file is not written.                              *)
(* lossless is TRUE until a notification is lost: it cannot be written,    *)
(* is discarded as expired while its registration is still there, or       *)
(* is acknowledged and not stored.                                         *)
(***************************************************************************)
EXTENDS Harvester

vars == <<serverVars, ilVars, lsn, wire, top, clientVars, harvesterVars, bud>>

\* In a calm scenario the inter-logger has read what there is before the
\* server writes again.
Calm == bud.calm => il = Reading /\ \A id \in Ids : Len(file[id]) = pos[id]

Server(p) == Calm /\ ServerStep(p) /\ UNCHANGED <<ilVars, lsn, wire, top, clientVars, harvesterVars>>
Change(p, j) == (EventStored(p, j) \/ PurgeOne(p, j)) /\ UNCHANGED <<ilVars, lsn, wire, top, clientVars, harvesterVars>>
Clock == Tick /\ UNCHANGED <<ilVars, lsn, wire, top, clientVars, harvesterVars>>
Il == IlStep /\ UNCHANGED <<clientVars, harvesterVars>>
Thread(d) == ThreadStep(d) /\ UNCHANGED <<clientVars, harvesterVars>>
ThreadEnds(d) == (ThreadIdle(d) \/ EventCommitFails(d)) /\ UNCHANGED <<clientVars, harvesterVars>>
Restart == IlRestart /\ UNCHANGED <<clientVars, harvesterVars>>
Client == (CallTimeout \/ NotifyStep) /\ UNCHANGED harvesterVars
Receive == (hv.pc = "recv" \/ bud.tool) /\ (NotifReceive \/ NotifyPrint) /\ UNCHANGED harvesterVars

\* The harvester has ended, or the tool has.
Over == /\ hv.pc = "ended" \/ (bud.tool /\ call = NoCall /\ bud.script = <<>>)
        /\ UNCHANGED vars

Next == \/ \E p \in Procs : Server(p) \/ \E j \in Jobs : Change(p, j)
        \/ \E d \in Dests : ThreadEnds(d)
        \/ Clock \/ Il \/ Restart \/ Client \/ Receive \/ HarvesterStep \/ Over

Init == /\ bud \in Scenarios
        /\ ServerInit /\ IlInit /\ ClientInit /\ HarvesterInit

Spec == Init /\ [][Next]_vars

\* Threads and processes go on, the client reads what arrives.  Nothing is
\* assumed of the clock, of failures, and of new work.
Fairness == /\ \A p \in Procs : WF_vars(Server(p))
            /\ \A d \in Dests : WF_vars(Thread(d))
            /\ WF_vars(Il) /\ WF_vars(Receive) /\ WF_vars(notify_thread)
FairSpec == Spec /\ Fairness

Live(n) == n.id # 0 /\ n.bound /\ regs[n.id] # NoReg /\ regs[n.id].valid >= now

Quiet == /\ hv.pc = "recv" /\ rcv = <<>> /\ got = <<>>
         /\ \A p \in Procs : proc[p] = Idle
         /\ req = NoReq /\ il = Reading
         /\ \A id \in Ids : pos[id] = Len(file[id])
         /\ lsn # None /\ q[lsn] = <<>> /\ th[lsn].cur = Nothing

\* The harvester's row of a job says the last state of the job: once all that is
\* under way has arrived, the row has been overwritten last with that state, from
\* a notification or from the bootstrap, or is deleted if the job was purged,
\* whatever calls have failed and however often it or the inter-logger was
\* restarted or died.  Left out are the changes before the time its bootstrap
\* asked for, and those between the end of that time and the moment the
\* registration was there; a purge before that moment, which no bootstrap tells;
\* what was lost (lossless); and a row that the JDL registration wrote last: its
\* notifications are read from a file of their own, and an older state may
\* overwrite a newer one.
Harvested ==
    bud.lossless /\ Quiet /\ ent # <<>> /\ Live(ent[1]) =>
        \A j \in Jobs : \/ seen[j].s = IF Found(j) THEN job[j].s ELSE 0
                        \/ job[j].upd < win.from
                        \/ job[j].upd \in win.to .. win.made
                        \/ job[j].s = Purged /\ job[j].upd <= win.made
                        \/ seen[j].by = "JDL"

\* The registrations that stay at their address, are not shortened and whose
\* control files can be written, as channels.
Watched(f) == IF bud.moves \/ bud.shortens \/ bud.miscounts THEN [id \in Ids |-> 0] ELSE f
Channel == INSTANCE NotifChannel WITH Channels <- Ids,
               written <- Watched([id \in Ids |-> Len(file[id])]),
               settled <- Watched(top), record <- Watched(comm)

\* The inter-logger implements a channel for each registration that stays at its
\* address and whose validity is only made longer, or ended: messages are settled in their order, none is passed over, and the
\* position in the control file is that of the last one settled.
ChannelSpec == Channel!Spec

\* A queue that holds nothing but expired messages does not stay so, whether
\* its destination can be reached or not and however often its thread comes and
\* goes; unless the thread ended with messages in the queue: they came while it
\* was giving up, or it ended for an error, and nobody looks at them until
\* another message comes.
ExpiredLeave ==
    \A d \in Dests : []<>~(/\ q[d] # <<>> /\ \A i \in DOMAIN q[d] : cmp_expires(q[d][i])
                           /\ th[d].run # "left")
=============================================================================
