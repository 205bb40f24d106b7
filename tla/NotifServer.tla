---------------------------- MODULE NotifServer ----------------------------
(***************************************************************************)
(* Notifications in the bookkeeping server: the registrations and the      *)
(* requests that make and change them (notification.c), the matching of a  *)
(* job's new state against them (notif_match.c), the bootstrap stream, and *)
(* the messages written for the notification inter-logger                  *)
(* (il_notification.c).                                                    *)
(*                                                                         *)
(* regs[id]  the committed row of notif_registrations with its notif_jobs  *)
(* file[id]  the event file of the registration: what the inter-logger has *)
(*           to deliver.  A message without a job only tells a new         *)
(*           destination or expiration.                                    *)
(***************************************************************************)
EXTENDS Naturals, Integers, Sequences, FiniteSets

CONSTANTS Procs,             \* server processes
          Jobs,              \* jobs
          Ids,               \* notification identifiers, 1..n
          Users,             \* subjects; CanRead says whose job each may see
          CanRead,
          NotifDuration,     \* ctx->notifDuration
          NotifDurationMax,  \* ctx->notifDurationMax
          MaxTime,           \* bound on the clock
          MaxState,          \* bound on the states of a job
          Scenarios          \* what may happen in a behaviour, and how often

ASSUME NotifAssumption == NotifDuration \in Nat \ {0} /\ NotifDurationMax \in Nat \ {0}

VARIABLES now, job, regs, proc, file,
          req,       \* the request of the client, until a process takes it up
          rsp,       \* the answer to it
          bud        \* what is left of the scenario
serverVars == <<now, job, regs, proc, file, req, rsp>>

None == "none"
AllJobs == "all_jobs"
NoReg == [dest |-> None]
NoReq == [op |-> None]
NoRsp == [st |-> None, valid |-> 0]
Idle == [pc |-> "idle"]

\* Uses up one unit of the scenario's field f.  Lose: and a notification is lost
\* by it, and is not told again.
Spend(f) == bud[f] > 0 /\ bud' = [bud EXCEPT ![f] = @ - 1]
Lose(f) == bud[f] > 0 /\ bud' = [bud EXCEPT ![f] = @ - 1, !.lossless = FALSE]

---------------------------------------------------------------------------
(* Messages for the inter-logger.  NotifSend appends to the file and then  *)
(* tells the inter-logger of it: the latter, or both, may fail.            *)

notif_create_ulm(dest, exp, j, s) == [to |-> dest, exp |-> exp, j |-> j, s |-> s]

Outcomes == {"ok", "untold", "unwritten"}

NotifSend(id, msg, o) ==
    /\ file' = IF o = "unwritten" THEN file ELSE [file EXCEPT ![id] = Append(@, msg)]
    /\ CASE o = "ok" -> UNCHANGED bud
         [] o = "untold" -> Spend("faults")
         [] o = "unwritten" -> IF msg.j = None THEN Spend("faults") ELSE Lose("faults")

NotifChangeIL(id, dest, exp, o) == NotifSend(id, notif_create_ulm(dest, exp, None, 0), o)
NotifCancelRegId(id, o) == NotifSend(id, notif_create_ulm(None, 1, None, 0), o)

\* An error of the sending is logged and forgotten.
NotifJobStatus(id, row, j, s, o) == NotifSend(id, notif_create_ulm(row.dest, row.valid, j, s), o)

---------------------------------------------------------------------------
(* Matching                                                                *)

Purged == MaxState + 1
Terminal(s) == s >= MaxState

notif_match_conditions(row, old, s) ==
    /\ "TERMINAL" \in row.flags => Terminal(s) /\ (s = Purged => ~Terminal(old))
    /\ s \in row.states

NotifCheckAuthz(row, j) == <<row.user, j>> \in CanRead

\* The rows the select of NotifMatch returns: of this job, of all, or with
\* the job's value in an indexed column, whatever job they are for.
Selected(j) == {id \in Ids : /\ regs[id] # NoReg
                             /\ \/ j \in regs[id].jobs
                                \/ AllJobs \in regs[id].jobs
                                \/ regs[id].index = j}

EventStored(p, j) ==
    /\ proc[p] = Idle
    /\ job[j].s < MaxState
    /\ Spend("changes")
    /\ job' = [job EXCEPT ![j] = [s |-> @.s + 1, upd |-> now]]
    /\ proc' = [proc EXCEPT ![p] = [pc |-> "stored", j |-> j, old |-> job[j].s, s |-> job[j].s + 1]]
    /\ UNCHANGED <<now, regs, file, req, rsp>>

\* A purge tells the state PURGED, and deletes the rows of the job.
PurgeOne(p, j) ==
    /\ proc[p] = Idle
    /\ job[j].s \in 1..MaxState
    /\ Spend("purges")
    /\ job' = [job EXCEPT ![j] = [s |-> Purged, upd |-> now]]
    /\ proc' = [proc EXCEPT ![p] = [pc |-> "stored", j |-> j, old |-> job[j].s, s |-> Purged]]
    /\ UNCHANGED <<now, regs, file, req, rsp>>

\* What a query finds.
Found(j) == job[j].s \in 1..MaxState

\* The rows are those of the moment of the select.  The ones that neither
\* have expired nor match need no step of their own.
MatchRows(p) ==
    LET j == proc[p].j
        s == proc[p].s
        row(id) == regs[id]
        due == {id \in Selected(j) : \/ now > row(id).valid
                                     \/ /\ notif_match_conditions(row(id), proc[p].old, s)
                                        /\ NotifCheckAuthz(row(id), j)}
    IN  [pc |-> "match", j |-> j, s |-> s, t |-> now,
         rows |-> [id \in due |-> row(id)]]

NotifSelect(p) ==
    /\ proc[p].pc = "stored"
    /\ proc' = [proc EXCEPT ![p] = LET m == MatchRows(p)
                                   IN  IF DOMAIN m.rows = {} THEN Idle ELSE m]
    /\ UNCHANGED <<now, job, regs, file, req, rsp, bud>>

RowDone(p, id) ==
    LET rest == DOMAIN proc[p].rows \ {id}
    IN  proc' = [proc EXCEPT ![p] = IF rest = {} THEN Idle
                                    ELSE [@ EXCEPT !.rows = [i \in rest |-> proc[p].rows[i]]]]

Locked(id) == \E p \in Procs : proc[p].pc = "locked" /\ proc[p].rq.id = id

\* The statement waits for the row lock of a request on the registration,
\* and deletes what that request has made of it.
NotifExpired(p, id) ==
    /\ proc[p].pc = "match"
    /\ id \in DOMAIN proc[p].rows
    /\ proc[p].t > proc[p].rows[id].valid
    /\ ~Locked(id)
    /\ regs' = [regs EXCEPT ![id] = NoReg]
    /\ RowDone(p, id)
    /\ UNCHANGED <<now, job, file, req, rsp, bud>>

NotifMatched(p, id, o) ==
    /\ proc[p].pc = "match"
    /\ id \in DOMAIN proc[p].rows
    /\ proc[p].t <= proc[p].rows[id].valid
    /\ NotifJobStatus(id, proc[p].rows[id], proc[p].j, proc[p].s, o)
    /\ RowDone(p, id)
    /\ UNCHANGED <<now, job, regs, req, rsp>>

NotifMatch(p) == \/ NotifSelect(p)
                 \/ \E id \in Ids : NotifExpired(p, id)
                 \/ \E id \in Ids, o \in Outcomes : NotifMatched(p, id, o)

---------------------------------------------------------------------------
(* Requests.  rq = [op, id, user, dest, valid, jobs, states, index, flags].*)

adjust_validity(valid) ==
    LET v == IF valid <= 0 THEN now + NotifDuration ELSE valid
    IN  IF v - now > NotifDurationMax THEN now + NotifDurationMax ELSE v

Answer(st, valid) == rsp' = [st |-> st, valid |-> valid]

\* An idle process takes the request up.
Takes(p) == proc[p] = Idle /\ req # NoReq /\ req' = NoReq

\* split_cond_list: the jobs named in the conditions, or none of them.
split_cond_list(jobs) == IF jobs = {} THEN {AllJobs} ELSE jobs

\* get_indexed_cols: more than an equality on an indexed column is refused,
\* as is an address without a port.
Refused(rq) == rq.dest = "malformed" \/ rq.index = "unsupported"

\* Streaming is set up whatever became of the transaction.
Streams(rq) == "BOOTSTRAP" \in rq.flags /\ rq.dest # "malformed" /\ rq.user \in Users

NotifNewServer(p) ==
    LET rq == req
        valid == adjust_validity(rq.valid)
        row == [dest |-> rq.dest, valid |-> valid, user |-> rq.user,
                jobs |-> split_cond_list(rq.jobs), states |-> rq.states,
                index |-> rq.index, flags |-> rq.flags]
        failed == Refused(rq) \/ rq.user \notin Users
    IN  /\ Takes(p) /\ rq.op = "New"
        /\ regs' = IF failed THEN regs ELSE [regs EXCEPT ![rq.id] = row]
        /\ Answer(IF failed THEN "error" ELSE "ok", valid)
        /\ proc' = [proc EXCEPT ![p] = IF Streams(rq)
                                       THEN [pc |-> "stream", id |-> rq.id, todo |-> Jobs]
                                       ELSE Idle]
        /\ UNCHANGED <<now, job, file, bud>>

\* check_notif_request: the row is there and the caller's, and stays locked.
check_notif_request(rq) ==
    CASE rq.user \notin Users -> "EPERM"
      [] regs[rq.id] = NoReg -> "ENOENT"
      [] regs[rq.id].user # rq.user /\ ~(rq.op = "Drop" /\ rq.user = "root") -> "EPERM"
      [] OTHER -> "ok"

check_notif_age(rq) == regs[rq.id].valid < now

\* An expired registration is refused.  The inter-logger is told to forget
\* it, and then the transaction with its deletion is rolled back.
CheckRequest(p, o) ==
    LET st == check_notif_request(req)
    IN  /\ Takes(p) /\ req.op # "New"
        /\ st = "ok" => ~Locked(req.id)
        /\ IF st # "ok"
           THEN /\ o = "ok"
                /\ Answer("error", 0)
                /\ UNCHANGED <<proc, file, bud>>
           ELSE IF req.op # "Drop" /\ check_notif_age(req)
                THEN /\ Answer("error", 0)
                     /\ NotifCancelRegId(req.id, o)
                     /\ UNCHANGED proc
                ELSE /\ o = "ok"
                     /\ proc' = [proc EXCEPT ![p] = [pc |-> "locked", rq |-> req, waited |-> TRUE]]
                     /\ UNCHANGED <<rsp, file, bud>>
        /\ UNCHANGED <<now, job, regs>>

\* The caller may have given up: then nobody takes the answer.
Reply(p, st, valid) == IF proc[p].waited THEN Answer(st, valid) ELSE UNCHANGED rsp

\* update_notif with a destination or a validity: the row and a message to
\* the inter-logger; an error of the latter rolls the former back.
update_notif(p, dest, valid, o) ==
    LET id == proc[p].rq.id
    IN  /\ NotifChangeIL(id, dest, valid, o)
        /\ regs' = IF o = "ok" THEN [regs EXCEPT ![id].dest = dest, ![id].valid = valid]
                   ELSE regs
        /\ Reply(p, IF o = "ok" THEN "ok" ELSE "error", valid)

NotifBindServer(p, o) ==
    /\ proc[p].rq.op = "Bind"
    /\ IF proc[p].rq.dest = "malformed"
       THEN o = "ok" /\ Reply(p, "error", 0) /\ UNCHANGED <<regs, file, bud>>
       ELSE update_notif(p, proc[p].rq.dest, adjust_validity(proc[p].rq.valid), o)

NotifRefreshServer(p, o) ==
    /\ proc[p].rq.op = "Refresh"
    /\ update_notif(p, regs[proc[p].rq.id].dest, adjust_validity(proc[p].rq.valid), o)

\* The jobs stay when the new conditions name none; the indexed columns
\* stay as they are.  Adding and removing of conditions do nothing.
NotifChangeServer(p, o) ==
    LET rq == proc[p].rq
    IN  /\ rq.op = "Change" /\ o = "ok"
        /\ regs' = [regs EXCEPT ![rq.id].states = rq.states,
                                ![rq.id].jobs = IF rq.jobs = {} THEN @ ELSE rq.jobs]
        /\ Reply(p, "ok", 0)
        /\ UNCHANGED <<file, bud>>

\* An inter-logger that is not there is no reason to keep the registration, a
\* file that cannot be written is.
drop_notif_request(id, o) ==
    /\ NotifCancelRegId(id, o)
    /\ regs' = IF o = "unwritten" THEN regs ELSE [regs EXCEPT ![id] = NoReg]

NotifDropServer(p, o) ==
    /\ proc[p].rq.op = "Drop"
    /\ drop_notif_request(proc[p].rq.id, o)
    /\ Reply(p, IF o = "unwritten" THEN "error" ELSE "ok", 0)

FinishRequest(p, o) ==
    /\ proc[p].pc = "locked"
    /\ \/ NotifBindServer(p, o)
       \/ NotifRefreshServer(p, o)
       \/ NotifChangeServer(p, o)
       \/ NotifDropServer(p, o)
    /\ proc' = [proc EXCEPT ![p] = Idle]
    /\ UNCHANGED <<now, job, req>>

---------------------------------------------------------------------------
(* The bootstrap stream: the states of the jobs that match are queried one *)
(* by one and sent, with the row as it is then.                            *)

\* notif_streaming and QueryJobsServerStream: the next job's state.
notif_streaming(p, j) ==
    /\ proc[p].pc = "stream"
    /\ j \in proc[p].todo
    /\ LET id == proc[p].id
           hit == /\ regs[id] # NoReg
                  /\ Found(j) /\ job[j].s \in regs[id].states
                  /\ <<regs[id].user, j>> \in CanRead
       IN  proc' = [proc EXCEPT ![p] =
               IF regs[id] = NoReg THEN Idle
               ELSE [pc |-> IF hit THEN "streamed" ELSE "stream", id |-> id,
                     todo |-> @.todo \ {j}, j |-> j, s |-> job[j].s]]
    /\ UNCHANGED <<now, job, regs, file, req, rsp, bud>>

\* A registration that is gone interrupts the stream.
notif_streaming_event_cb(p, o) ==
    /\ proc[p].pc = "streamed"
    /\ LET row == regs[proc[p].id]
       IN  IF row = NoReg
           THEN o = "ok" /\ UNCHANGED <<file, bud>> /\ proc' = [proc EXCEPT ![p] = Idle]
           ELSE /\ NotifJobStatus(proc[p].id, row, proc[p].j, proc[p].s, o)
                /\ proc' = [proc EXCEPT ![p].pc = "stream"]
    /\ UNCHANGED <<now, job, regs, req, rsp>>

StreamEnd(p) ==
    /\ proc[p].pc = "stream" /\ proc[p].todo = {}
    /\ proc' = [proc EXCEPT ![p] = Idle]
    /\ UNCHANGED <<now, job, regs, file, req, rsp, bud>>

---------------------------------------------------------------------------

Tick ==
    /\ now < MaxTime
    /\ Spend("ticks")
    /\ now' = now + 1
    /\ UNCHANGED <<job, regs, proc, file, req, rsp>>

ServerStep(p) ==
    \/ NotifMatch(p)
    \/ NotifNewServer(p)
    \/ \E o \in Outcomes : CheckRequest(p, o) \/ FinishRequest(p, o)
    \/ \E j \in Jobs : notif_streaming(p, j)
    \/ \E o \in Outcomes : notif_streaming_event_cb(p, o)
    \/ StreamEnd(p)

ServerInit ==
    /\ now = 2
    /\ job = [j \in Jobs |-> [s |-> 0, upd |-> 0]]
    /\ proc = [p \in Procs |-> Idle]
    /\ file = [id \in Ids |-> <<>>]
    /\ req = NoReq
    /\ rsp = NoRsp
=============================================================================
