----------------------------- MODULE Harvester -----------------------------
(***************************************************************************)
(* The harvester (harvester.c): one thread that keeps the registrations of *)
(* one server alive and stores the states it is notified of.               *)
(*                                                                         *)
(* ent     the registrations of the thread: their type, identifier (0 for  *)
(*         none), whether the identifier is bound in this run, validity,   *)
(*         time of the next refresh, errors in a row                       *)
(* disk    the same in the file of notifications                           *)
(* hv      where the thread is: the entry, the time it last looked, the    *)
(*         time of the next refresh, the start of the bootstrap            *)
(* seen    the row of each job in the table of jobs: the state stored last,*)
(*         and the type of the registration that told it                   *)
(* win     for the first registration, what its bootstrap asked for, and   *)
(*         when the server had made it                                     *)
(***************************************************************************)
EXTENDS NotifClient

CONSTANTS Ttl,            \* config.ttl
          TtlToDead,      \* RTM_NOTIF_TTL_TO_DEAD
          LoopMaxTime,    \* RTM_NOTIF_LOOP_MAX_TIME
          RepeatRate,     \* RTM_ERROR_REPEAT_RATE
          Dive,           \* config.dive, 0 for no limit
          Addresses       \* the addresses listened at, one run after another

ASSUME HarvesterAssumption == /\ TtlToDead \in Nat /\ Ttl \in Nat \ {0}
                              /\ RepeatRate \in Nat \ {0} /\ Dive \in Nat

VARIABLES ent, disk, hv, seen, win
harvesterVars == <<ent, disk, hv, seen, win>>

Harvest == "harvester"      \* the subject of its certificate

Entry(type) == [type |-> type, id |-> 0, bound |-> FALSE, valid |-> 0, refresh |-> 0, err |-> 0]
Cur == ent[hv.i]
MinOf(a, b) == IF a < b THEN a ELSE b

\* What the calls of the harvester leave alone.
restVars == <<now, job, regs, proc, file, ilVars, wire, top, rcv, got>>

---------------------------------------------------------------------------
(* The file of notifications                                               *)

\* db_save_notifs: what has neither an identifier nor an error is left out.
db_save_notifs(n) == IF n.id # 0 \/ n.err > 0 THEN [n EXCEPT !.bound = FALSE] ELSE Entry(n.type)

\* load_notifs: a server in error is tried again at once.
load_notifs(n) == IF n.err > 0 THEN [n EXCEPT !.id = 0, !.refresh = 0] ELSE n

notif_invalidate(n) == [n EXCEPT !.id = 0, !.bound = FALSE, !.err = 0]

\* rtm_drop_notif, of the entry with this identifier.
rtm_drop_notif(id) ==
    [i \in DOMAIN disk |-> IF disk[i].id = id THEN db_save_notifs(notif_invalidate(disk[i])) ELSE disk[i]]

\* rtm_update_error_state, with the errors counted up to MaxCount.
MaxCount == LET c == (Dive \div RepeatRate) \div 2 IN IF c <= 0 THEN 1 ELSE c
Errored(n) ==
    LET from == IF n.err = 0 \/ n.refresh = 0 THEN now ELSE n.refresh
        count == MinOf(n.err + 1, MaxCount)
    IN  [n EXCEPT !.err = count, !.refresh = from + count * RepeatRate]

---------------------------------------------------------------------------
(* Start and end                                                           *)

\* The loaded entries are found again by reconcile_threads, and are bound to
\* the new address.  When the server is not configured any more, or with
\* --cleanup, they are dropped instead.
reconcile_threads ==
    /\ hv.pc = "down" /\ ~bud.tool
    /\ hv.run < Len(Addresses)
    /\ ent' = [i \in DOMAIN disk |-> load_notifs(disk[i])]
    /\ hv' = [hv EXCEPT !.pc = IF bud.cleanup /\ hv.run > 0 THEN "exit" ELSE "loop",
                        !.run = @ + 1, !.i = 1]
    /\ daemon_listen(IF bud.cleanup /\ hv.run > 0 THEN None ELSE Addresses[hv.run + 1])
    /\ UNCHANGED <<disk, seen, win, restVars, req, rsp, call, bud>>

\* handle_signal, the daily reload, a new certificate: the thread notices
\* between two rounds or two receives.
Quit(why) ==
    /\ hv.pc \in {"loop", "recv"}
    /\ rcv = <<>> /\ got = <<>>
    /\ Spend(why)
    /\ hv' = [hv EXCEPT !.pc = IF why = "exits" THEN "exit" ELSE "down", !.i = 1]
    /\ daemon_listen(None)
    /\ UNCHANGED <<ent, disk, seen, win, restVars, req, rsp, call>>

\* RTM_QUIT_CLEANUP, or the end of reconcile_threads: registrations are
\* dropped, one after another.
ExitDrop ==
    /\ hv.pc = "exit" /\ call = NoCall /\ hv.i <= Len(ent)
    /\ IF Cur.id # 0 /\ (Cur.bound \/ bud.cleanup)
       THEN /\ NotifDrop(Cur.id, Harvest)
            /\ UNCHANGED hv
       ELSE /\ hv' = [hv EXCEPT !.i = @ + 1]
            /\ UNCHANGED <<call, req, rsp>>
    /\ UNCHANGED <<ent, disk, seen, win, restVars, lsn, bud>>

ExitDropped ==
    /\ hv.pc = "exit" /\ Returned
    /\ TakeAnswer
    /\ disk' = rtm_drop_notif(Cur.id)
    /\ ent' = [ent EXCEPT ![hv.i] = notif_invalidate(@)]
    /\ hv' = [hv EXCEPT !.i = @ + 1]
    /\ UNCHANGED <<seen, win, restVars, req, lsn, bud>>

ExitDone ==
    /\ hv.pc = "exit" /\ hv.i > Len(ent)
    /\ hv' = [hv EXCEPT !.pc = "ended"]
    /\ daemon_listen(None)
    /\ UNCHANGED <<ent, disk, seen, win, restVars, req, rsp, call, bud>>

\* The process dies at any place; its guard starts another one.  What it had
\* acknowledged and not stored is gone.
Crash ==
    /\ hv.pc \notin {"down", "ended"}
    /\ IF got = <<>> THEN Spend("crashes") ELSE Lose("crashes")
    /\ hv' = [hv EXCEPT !.pc = "down"]
    /\ daemon_listen(None)
    /\ call' = NoCall /\ rsp' = NoRsp /\ rcv' = <<>> /\ got' = <<>>
    /\ Abandoned
    /\ UNCHANGED <<ent, disk, seen, win, now, job, regs, file, ilVars, wire, top>>

---------------------------------------------------------------------------
(* A round of notify_thread over the entries                               *)

\* After the last entry comes the receiving.
NextEntry(h, refresh) == [h EXCEPT !.pc = IF hv.i = Len(ent) THEN "recv" ELSE "entry",
                                   !.i = hv.i + 1, !.nr = MinOf(@, refresh)]

RoundStart ==
    /\ hv.pc = "loop" \/ (hv.pc = "recv" /\ rcv = <<>> /\ got = <<>> /\ hv.nr <= hv.now)
    /\ hv' = [hv EXCEPT !.pc = "entry", !.i = 1, !.now = now, !.nr = now + LoopMaxTime]
    /\ UNCHANGED <<ent, disk, seen, win, restVars, req, rsp, lsn, call, bud>>

AtEntry == hv.pc = "entry"
Planned(n) == n.err > 0 /\ n.refresh > hv.now
Dead(n) == n.valid = 0 \/ n.valid - TtlToDead <= now \/ n.id = 0

\* A STATUS registration waits for the JDL one of the server.
Jdl == {i \in DOMAIN ent : ent[i].type = "JDL"}
WaitsForJdl == Cur.type = "STATUS" /\ \E i \in Jdl : Dead(ent[i])

SkipErrored ==
    /\ AtEntry /\ Planned(Cur)
    /\ hv' = NextEntry(hv, Cur.refresh)
    /\ UNCHANGED <<ent, disk, seen, win, restVars, req, rsp, lsn, call, bud>>

SkipStatus ==
    /\ AtEntry /\ ~Planned(Cur) /\ Dead(Cur) /\ WaitsForJdl
    /\ LET r == ent[CHOOSE i \in Jdl : TRUE].refresh
       IN  /\ ent' = [ent EXCEPT ![hv.i].refresh = r]
           /\ hv' = [NextEntry(hv, r) EXCEPT !.now = now]
    /\ UNCHANGED <<disk, seen, win, restVars, req, rsp, lsn, call, bud>>

\* The time to bootstrap from, and the old registration, if any, dropped.
Bootstrap == LET b == IF Cur.valid > TtlToDead THEN Cur.valid - TtlToDead ELSE 0
             IN  IF Dive > 0 /\ now - b > Dive THEN now - Dive ELSE b

DropOld ==
    /\ AtEntry /\ ~Planned(Cur) /\ Dead(Cur) /\ ~WaitsForJdl
    /\ hv' = [hv EXCEPT !.now = now, !.boot = Bootstrap,
                        !.pc = IF Cur.id = 0 THEN "new" ELSE "drop"]
    /\ IF Cur.bound THEN NotifDrop(Cur.id, Harvest) ELSE UNCHANGED <<req, rsp, call>>
    /\ UNCHANGED <<ent, disk, seen, win, restVars, lsn, bud>>

ForgetOld ==
    /\ hv.pc = "drop"
    /\ IF Cur.bound THEN Returned /\ TakeAnswer ELSE UNCHANGED <<call, rsp>>
    /\ disk' = rtm_drop_notif(Cur.id)
    /\ ent' = [ent EXCEPT ![hv.i] = notif_invalidate(@)]
    /\ hv' = [hv EXCEPT !.pc = "new", !.now = now]
    /\ UNCHANGED <<seen, win, restVars, req, lsn, bud>>

\* The conditions of each type of registration.
States(type) == IF type = "JDL" THEN {1} ELSE 1..Purged

CreateNew ==
    /\ hv.pc = "new" /\ call = NoCall
    /\ bud.ids # <<>>
    /\ NotifNew(Head(bud.ids), Harvest, hv.now + Ttl, States(Cur.type))
    /\ bud' = [bud EXCEPT !.ids = Tail(@)]
    /\ UNCHANGED <<ent, disk, hv, seen, win, restVars, lsn>>

\* cont: of an entry in error, or of one with a new validity.
\* The entry is kept for the next round, and on the disk.
rtm_update_notif(n) ==
    /\ ent' = [ent EXCEPT ![hv.i] = n]
    /\ disk' = [disk EXCEPT ![hv.i] = db_save_notifs(n)]

ContError(n) ==
    /\ rtm_update_notif(n)
    /\ hv' = [NextEntry(hv, n.refresh) EXCEPT !.now = now]

\* An operation that took too long is followed by the next one at once, and
\* is not stored.
ContUpdated(n) ==
    LET m == [n EXCEPT !.refresh = hv.now + (n.valid - hv.now) \div 2]
    IN  IF now >= m.refresh
        THEN /\ ent' = [ent EXCEPT ![hv.i] = m]
             /\ hv' = [hv EXCEPT !.pc = "entry", !.now = now]
             /\ UNCHANGED disk
        ELSE /\ rtm_update_notif(m)
             /\ hv' = [NextEntry(hv, m.refresh) EXCEPT !.now = now]

\* The server cannot be reached at all.
Unreachable == hv.pc = "new" /\ call = NoCall /\ bud.ids = <<>>

Created ==
    /\ hv.pc = "new"
    /\ \/ Returned /\ TakeAnswer
       \/ Unreachable /\ UNCHANGED <<call, rsp>>
    /\ LET n == [Cur EXCEPT !.id = call.id, !.bound = TRUE, !.valid = rsp.valid]
       IN  IF Unreachable \/ ~Succeeded
           THEN ContError(Errored([Cur EXCEPT !.valid = 0, !.bound = FALSE])) /\ UNCHANGED win
           ELSE IF Cur.type = "STATUS"
           THEN /\ ent' = [ent EXCEPT ![hv.i] = n]
                /\ hv' = [hv EXCEPT !.pc = "query"]
                /\ win' = [from |-> hv.boot, to |-> hv.now, made |-> now]
                /\ UNCHANGED disk
           ELSE /\ ContUpdated([n EXCEPT !.err = 0])
                /\ win' = IF Cur.type = "OLD" THEN [from |-> 0, to |-> 0, made |-> now] ELSE win
    /\ UNCHANGED <<seen, restVars, req, lsn, bud>>

\* QueryJobs for the jobs last updated in the time from the bootstrap to the
\* time looked up before the registration.  The fraction of a second tells
\* whether one updated at its end belongs to it.
InWindow(j, edge) ==
    /\ Found(j) /\ job[j].upd >= hv.boot
    /\ job[j].upd < hv.now \/ (edge /\ job[j].upd = hv.now)

\* The row is overwritten, or made, whatever it says, and that of a purged job
\* is deleted.
NoRow == [s |-> 0, by |-> None]
db_store_change_perform_sql(s, by) == IF s = Purged THEN NoRow ELSE [s |-> s, by |-> by]

\* An error of the database is logged and forgotten.
db_store_change(rows) ==
    \E failed \in SUBSET DOMAIN rows :
       /\ seen' = [j \in Jobs |-> IF j \in DOMAIN rows \ failed THEN rows[j] ELSE seen[j]]
       /\ IF failed = {} THEN UNCHANGED bud ELSE Lose("faults")

BootstrapQuery ==
    /\ hv.pc = "query" /\ call = NoCall
    /\ \E edge \in BOOLEAN :
          db_store_change([j \in {i \in Jobs : InWindow(i, edge)} |->
                              db_store_change_perform_sql(job[j].s, Cur.type)])
    /\ ContUpdated([Cur EXCEPT !.err = 0])
    /\ UNCHANGED <<win, restVars, req, rsp, lsn, call>>

\* When it fails, the registration is dropped again.
BootstrapFailed ==
    /\ hv.pc = "query" /\ call = NoCall
    /\ Spend("faults")
    /\ NotifDrop(Cur.id, Harvest)
    /\ UNCHANGED <<ent, disk, hv, seen, win, restVars, lsn>>

BootstrapUndone ==
    /\ hv.pc = "query" /\ Returned
    /\ TakeAnswer
    /\ ContError(Errored([Cur EXCEPT !.id = 0, !.bound = FALSE, !.valid = 0]))
    /\ UNCHANGED <<seen, win, restVars, req, lsn, bud>>

---------------------------------------------------------------------------
(* A registration still valid is bound to the new address, or refreshed.   *)

Rebind ==
    /\ AtEntry /\ ~Planned(Cur) /\ ~Dead(Cur) /\ ~Cur.bound
    /\ NotifBind(Cur.id, Harvest, now + Ttl)
    /\ hv' = [hv EXCEPT !.pc = "bind", !.now = now]
    /\ UNCHANGED <<ent, disk, seen, win, restVars, lsn, bud>>

\* After a failure it is made anew, from the beginning of time.
Rebound ==
    /\ hv.pc = "bind" /\ Returned
    /\ TakeAnswer
    /\ IF Succeeded
       THEN ContUpdated([Cur EXCEPT !.bound = TRUE, !.valid = rsp.valid, !.err = 0])
       ELSE /\ ent' = [ent EXCEPT ![hv.i].valid = 0]
            /\ hv' = [hv EXCEPT !.pc = "entry"]
            /\ UNCHANGED disk
    /\ UNCHANGED <<seen, win, restVars, req, lsn, bud>>

Due(n) == n.refresh = 0 \/ n.refresh <= now

Refresh ==
    /\ AtEntry /\ ~Planned(Cur) /\ ~Dead(Cur) /\ Cur.bound /\ Due(Cur)
    /\ NotifRefresh(Cur.id, Harvest, now + Ttl)
    /\ hv' = [hv EXCEPT !.pc = "refresh", !.now = now]
    /\ UNCHANGED <<ent, disk, seen, win, restVars, lsn, bud>>

\* After a failure it is tried again after half of the time that is left.
Refreshed ==
    /\ hv.pc = "refresh" /\ Returned
    /\ TakeAnswer
    /\ ContUpdated(IF Succeeded THEN [Cur EXCEPT !.valid = rsp.valid, !.err = 0] ELSE Cur)
    /\ UNCHANGED <<seen, win, restVars, req, lsn, bud>>

NoChange ==
    /\ AtEntry /\ ~Planned(Cur) /\ ~Dead(Cur) /\ Cur.bound /\ ~Due(Cur)
    /\ hv' = [NextEntry(hv, Cur.refresh) EXCEPT !.now = now]
    /\ UNCHANGED <<ent, disk, seen, win, restVars, req, rsp, lsn, call, bud>>

---------------------------------------------------------------------------
(* Receiving, until the time of the next refresh                           *)

\* A notification of a registration that is not known is ignored.
StoreChange ==
    /\ hv.pc = "recv" /\ got # <<>>
    /\ LET m == Msg(got[1])
           named == {i \in DOMAIN ent : ent[i].id = got[1].id}
       IN  IF named = {} THEN UNCHANGED <<seen, bud>>
           ELSE \E i \in named :
                   db_store_change(m.j :> db_store_change_perform_sql(m.s, ent[i].type))
    /\ got' = <<>>
    /\ hv' = [hv EXCEPT !.now = now]
    /\ UNCHANGED <<ent, disk, win, call, rcv, lsn, wire, ilVars, top, serverVars>>

ReceiveTimeout ==
    /\ hv.pc = "recv" /\ rcv = <<>> /\ got = <<>>
    /\ hv.nr > hv.now
    /\ hv' = [hv EXCEPT !.now = now]
    /\ UNCHANGED <<ent, disk, seen, win, restVars, req, rsp, lsn, call, bud>>

---------------------------------------------------------------------------

notify_thread ==
    \/ RoundStart \/ SkipErrored \/ SkipStatus \/ DropOld \/ ForgetOld
    \/ CreateNew \/ Created \/ BootstrapQuery \/ BootstrapFailed \/ BootstrapUndone
    \/ Rebind \/ Rebound \/ Refresh \/ Refreshed \/ NoChange
    \/ StoreChange \/ ReceiveTimeout

HarvesterStep == \/ reconcile_threads \/ notify_thread \/ Crash
                 \/ \E why \in {"reloads", "exits"} : Quit(why)
                 \/ ExitDrop \/ ExitDropped \/ ExitDone

\* A first start, or a harvester that has been running for a while.
HvStart == [pc |-> "down", i |-> 1, now |-> 0, nr |-> 0, boot |-> 0, run |-> 0]

WarmEntry(i) == [type |-> bud.types[i], id |-> i, bound |-> TRUE, valid |-> now + 3,
                 refresh |-> now + 1, err |-> 0]
WarmReg(i) == [dest |-> Addresses[1], valid |-> now + 3, user |-> Harvest, jobs |-> {AllJobs},
               states |-> States(bud.types[i]), index |-> None, flags |-> {}]

ColdInit ==
    /\ ~bud.warm
    /\ ent = <<>>
    /\ disk = [i \in DOMAIN bud.types |-> Entry(bud.types[i])]
    /\ hv = HvStart
    /\ regs = [id \in Ids |-> NoReg]
    /\ lsn = None

WarmInit ==
    /\ bud.warm
    /\ ent = [i \in DOMAIN bud.types |-> WarmEntry(i)]
    /\ disk = [i \in DOMAIN bud.types |-> db_save_notifs(WarmEntry(i))]
    /\ hv = [HvStart EXCEPT !.pc = "recv", !.now = now, !.nr = now + 1, !.run = 1, !.i = 3]
    /\ regs = [id \in Ids |-> IF id \in DOMAIN bud.types THEN WarmReg(id) ELSE NoReg]
    /\ lsn = Addresses[1]

HarvesterInit ==
    /\ ColdInit \/ WarmInit
    /\ seen = [j \in Jobs |-> NoRow]
    /\ win = [from |-> 0, to |-> 0, made |-> 0]
=============================================================================
