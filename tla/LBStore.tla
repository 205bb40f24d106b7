------------------------------ MODULE LBStore ------------------------------
(***************************************************************************)
(* The bookkeeping server's database and the requests that work on it in   *)
(* concurrent server processes: storing an event (db_store.c, store.c.T),  *)
(* with the step of the job's state and of its collection (jobstat.c), and *)
(* asking for a state.  Purging a job is in module Purge.                  *)
(*                                                                         *)
(* The database (MySQL with InnoDB, used through db-mysql.c and            *)
(* db_supp.c) is external: rows of table jobs are locked by SELECT ... FOR *)
(* UPDATE, a plain SELECT reads the snapshot made by the first one of the  *)
(* transaction (REPEATABLE READ, which glite_lbu_DBConnectMysql sets),     *)
(* a row that is not there is locked by a gap lock, which many may hold,   *)
(* and a circle of waiting transactions is broken by rolling one back.     *)
(*                                                                         *)
(* jobs[j]    number of events stored, or -1: no such row                  *)
(* states[j]  [seq, js, hist], or NoRow: none of the current version      *)
(* events[j]  set of [n, ev]                                               *)
(* members[j] the parts of a shared database the job belongs to            *)
(* zombies    the purged jobs                                              *)
(* purged     those a purge has begun to delete (only the properties look) *)
(* dropped    requests answered although their event was rolled back (same)*)
(***************************************************************************)
EXTENDS BatchState, FiniteSetsExt

CONSTANTS Jobs,         \* job identifiers
          Parent,       \* the collection a job is in, or None
          Workers,      \* server processes
          Scenarios,    \* [db, inbox]: what is stored, and the requests to come
          MaxFaults     \* lost database connections in a behaviour

VARIABLES
    db,       \* the committed rows
    inbox,    \* requests not yet taken up
    w,        \* what each server process is doing
    acked,    \* requests answered with success
    sent,     \* <<job, state>> passed to the notification matching
    jp,       \* jobs registered to Job Provenance
    faults
vars == <<db, inbox, w, acked, sent, jp, faults>>

Classes == {"RUNNING", "DONE", "ABORTED", "CLEARED", "REST"}
NoHist == [c \in Classes |-> 0]
Sub(j) == {c \in Jobs : Parent[c] = j}

NoRow == [seq |-> -2]
NoState == [state |-> None]
NoStat == [job |-> None]
NoEvent == [type |-> None]

Idle == [pc |-> "idle", req |-> {}, view |-> {}, wr |-> {}, hist |-> {}, ins |-> {},
         lock |-> {}, shared |-> {}, gap |-> {}, old |-> NoState, new |-> NoStat,
         reg |-> {}, subs |-> {}, lost |-> FALSE, ask |-> "status", err |-> None]

---------------------------------------------------------------------------
(* Locks.  A process holds those of its open transaction.                  *)

Others(p) == Workers \ {p}

\* The processes that keep p from what it is waiting for.
Blockers(p, j, mode) ==
    {q \in Others(p) : \/ j \in w[q].lock
                       \/ mode = "X" /\ j \in w[q].shared
                       \/ mode = "I" /\ j \in w[q].gap}

\* The subjob that a collection's registration comes to next.
NextSub(p) == CHOOSE c \in w[p].subs : TRUE

\* What the next statement of p has to lock.  An insert waits for gap locks, too,
\* or finds the row and shares it.
Wants(p) ==
    LET j == w[p].req.job
    IN  CASE w[p].pc \in {"begin", "purge", "delete", "states"} -> [job |-> j, mode |-> "X"]
          [] w[p].pc = "insert" -> [job |-> j, mode |-> "I"]
          [] w[p].pc = "parent" -> [job |-> Parent[j], mode |-> "X"]
          [] w[p].pc = "subs" -> [job |-> NextSub(p),
                                  mode |-> IF db.jobs[NextSub(p)] < 0 THEN "I" ELSE "S"]
          [] w[p].pc = "status" -> [job |-> j, mode |-> "S"]
          [] w[p].pc = "upgrade" -> [job |-> j, mode |-> "X"]
          [] OTHER -> [job |-> None, mode |-> "none"]

\* A request for a shared lock queues behind one for an exclusive lock.
WaitsFor(p) ==
    LET n == Wants(p)
        ahead == {q \in Others(p) : w[q].pc = "upgrade" /\ w[q].req.job = n.job}
    IN  IF w[p].pc = "idle" \/ n.job = None THEN {}
        ELSE Blockers(p, n.job, n.mode) \cup (IF n.mode = "S" THEN ahead ELSE {})

Granted(p) == WaitsFor(p) = {}

---------------------------------------------------------------------------
(* State of a job and of its collection.                                   *)

class(js) ==
    CASE js.state = "RUNNING" -> "RUNNING"
      [] js.state = "DONE" /\ js.done_code = "OK" -> "DONE"
      [] js.state = "ABORTED" -> "ABORTED"
      [] js.state \in {"CLEARED", "CANCELLED"} -> "CLEARED"
      [] OTHER -> "REST"

process_Histogram(h, num) ==
    CASE h["RUNNING"] > 0 -> "RUNNING"
      [] h["CLEARED"] = num -> "CLEARED"
      [] h["DONE"] + h["CLEARED"] = num -> "DONE"
      [] h["ABORTED"] + h["DONE"] + h["CLEARED"] = num -> "ABORTED"
      [] OTHER -> "WAITING"

process_FT_Histogram(h, num) ==
    CASE h["RUNNING"] > 0 -> "RUNNING"
      [] h["DONE"] = num -> "DONE"
      [] h["DONE"] + h["ABORTED"] = num -> "ABORTED"
      [] OTHER -> "WAITING"

\* The registration of a collection counts all its subjobs as the rest; the
\* other counts stay as they are.
HistAfter(h, j, e) ==
    IF e.type = "REGJOB" /\ e.code \in {"DAG", "COLLECTION", "FILE_TRANSFER_COLLECTION"}
    THEN [h EXCEPT !["REST"] = Cardinality(Sub(j))] ELSE h

\* A subjob as the registration of its collection makes it.
intJobStat_embryonic(e) ==
    [init_intJobStat EXCEPT
        !.state = "SUBMITTED",
        !.jobtype = IF e.code = "FILE_TRANSFER_COLLECTION" THEN "FILE_TRANSFER" ELSE "SIMPLE"]

\* Row of table states that the state machine may continue from: number
\* seq - 1, or any when the event is the first one.
edg_wll_LoadIntState(v, j, seq) ==
    v.states[j] # NoRow /\ (seq = -1 \/ v.states[j].seq = seq)

\* The events of j in the view v, and the state computed from all of them.  A
\* subjob without events is made anew from its collection's registration.
EventsIn(v, j) == {x.ev : x \in v.events[j]}
Made(v, j) == Parent[j] # None /\ v.events[j] = {}
MadeAnew(v, j) ==
    LET reg == {x \in EventsIn(v, Parent[j]) : x.type = "REGJOB"}
    IN  IF reg = {} THEN [init_intJobStat EXCEPT !.state = "UNKNOWN"]
        ELSE intJobStat_embryonic(CHOOSE x \in reg : TRUE)

\* The states of j after the events E, from the state start or, for a set of
\* all its events, from the beginning.
After(v, j, loaded, E) ==
    IF ~loaded /\ Made(v, j) THEN {MadeAnew(v, j)}
    ELSE {IF loaded THEN js ELSE Known(js) :
            js \in Processed(IF loaded THEN v.states[j].js ELSE init_intJobStat, E)}

HistRecomputed(v, j) ==
    IF \E x \in EventsIn(v, j) : x.type = "REGJOB" /\ x.code \in {"DAG", "COLLECTION"}
    THEN [NoHist EXCEPT !["REST"] = Cardinality(Sub(j))] ELSE NoHist

\* edg_wll_StoreIntState: the row is written with its number.
StoreIntState(v, j, js, hist, seq) ==
    [v EXCEPT !.states[j] = [seq |-> seq, js |-> enc_dec_intJobStat(js), hist |-> hist]]

---------------------------------------------------------------------------
(* The transaction that stores an event.                                   *)

\* Mutant: no look for duplicates.
DuplicateNever(v, j, e) == FALSE

\* The columns of table events; what else is in an event goes to the short and
\* long fields.
Header(e) == <<e.type, e.source, e.timestamp, e.seqcode>>
HeadersIn(v, j) == {Header(x.ev) : x \in v.events[j]}

\* An event whose columns are those of one that is stored ("99%", says the code).
Duplicate(v, j, e) == Header(e) \in HeadersIn(v, j)

\* edg_wll_StoreEvent on the view v: the next number is nevents.
StoreEvent(v, j, e) ==
    [v EXCEPT !.events[j] = @ \cup {[n |-> v.jobs[j], ev |-> e]},
              !.jobs[j] = @ + 1]

\* The effect of event e, stored as number seq of j, on the state of j: a set
\* of [v, js, old], because of the Torque comparison.
StepState(v, j, e, seq) ==
    LET loaded == edg_wll_LoadIntState(v, j, seq - 1)
    IN  {[v |-> StoreIntState(v, j, js,
                              IF loaded THEN HistAfter(v.states[j].hist, j, e)
                              ELSE HistRecomputed(v, j),
                              IF loaded THEN seq ELSE v.jobs[j] - 1),
          js |-> js, old |-> IF loaded THEN v.states[j].js ELSE NoState] :
            js \in After(v, j, loaded, IF loaded THEN {e} ELSE EventsIn(v, j))}

\* A subjob of a collection registered: rows that exist already are left alone.
RegisterSubjob(v, c, j, e) ==
    [v EXCEPT
        !.jobs[c] = IF @ < 0 THEN 0 ELSE @,
        !.members[c] = IF v.jobs[c] < 0 THEN v.members[j] ELSE @,
        !.states[c] = IF @ = NoRow THEN [seq |-> 1, js |-> intJobStat_embryonic(e), hist |-> NoHist]
                      ELSE @]

IsCollection(e) ==
    e.type = "REGJOB" /\ e.code \in {"DAG", "PARTITIONED", "COLLECTION", "FILE_TRANSFER_COLLECTION"}

\* The number is taken by a row that the snapshot does not show: the insert
\* fails with EEXIST, as for a duplicate.
Taken(v, j) == \E x \in db.events[j] : x.n = v.jobs[j]

\* The subjobs are registered, and then the transaction ends.
Then(subs) == IF subs = {} THEN "commit" ELSE "subs"

\* An event that changes the access control list is stored, and the state of the
\* job does not step.  (The lists are in module QueryServer.)
ChangesAcl(e) == e.type = "CHANGEACL"

\* What db_store does once the row of the job is locked or inserted, up to the
\* lock of the collection's row or of a subjob's.  A duplicate ends the
\* transaction, which is committed; reg are the jobs this attempt has registered.
Store(p, v, reg) ==
    LET j == w[p].req.job
        e == w[p].req.ev
        seq == v.jobs[j]
        sub == IF IsCollection(e) THEN Sub(j) ELSE {}
    IN  IF Duplicate(v, j, e) \/ Taken(v, j)
        THEN w' = [w EXCEPT ![p].pc = "commit", ![p].view = v, ![p].wr = {j},
                            ![p].lock = @ \cup {j}, ![p].gap = {}, ![p].reg = @ \cup reg]
        ELSE IF ChangesAcl(e)
        THEN w' = [w EXCEPT ![p].pc = "commit", ![p].view = StoreEvent(v, j, e), ![p].wr = {j},
                            ![p].ins = {[job |-> j, row |-> [n |-> seq, ev |-> e]]},
                            ![p].lock = @ \cup {j}, ![p].gap = {}, ![p].reg = @ \cup reg]
        ELSE \E s \in StepState(StoreEvent(v, j, e), j, e, seq) :
                LET up == /\ Parent[j] # None /\ s.old # NoState
                          /\ s.old.state # s.js.state /\ class(s.old) # class(s.js)
                IN  w' = [w EXCEPT
                            ![p].pc = IF up THEN "parent" ELSE Then(sub),
                            ![p].view = s.v, ![p].wr = {j}, ![p].subs = sub,
                            ![p].ins = {[job |-> j, row |-> [n |-> seq, ev |-> e]]},
                            ![p].lock = @ \cup {j},
                            ![p].gap = {},
                            ![p].old = s.old,
                            ![p].new = [job |-> j, js |-> s.js],
                            ![p].reg = @ \cup reg \cup sub]

\* A request ends with an error, and its transaction is rolled back.  That of
\* one job of a purge is up to the purge.
Refuse(p, err) ==
    /\ w' = [w EXCEPT ![p] = IF w[p].req.kind = "purge"
                             THEN [Idle EXCEPT !.pc = "pass", !.req = w[p].req,
                                               !.ask = w[p].ask, !.err = err]
                             ELSE Idle]
    /\ UNCHANGED <<db, inbox, acked, sent, jp, faults>>

Take(p, r) ==
    /\ w[p].pc = "idle" /\ r \in inbox /\ r.kind \in {"store", "status"}
    /\ inbox' = inbox \ {r}
    /\ w' = [w EXCEPT ![p].req = r,
                      ![p].pc = IF r.kind = "store" THEN "begin" ELSE "status"]
    /\ UNCHANGED <<db, acked, sent, jp, faults>>

\* Why a registration is turned down: it has to come from the user it is for, or
\* from the owner when the job is there; one that is exclusive needs a job that is
\* neither there nor purged.
Objection(d, r) ==
    CASE r.ev.type # "REGJOB" -> None
      [] ~(IF d.jobs[r.job] < 0 THEN r.direct ELSE r.own) -> "EPERM"
      [] r.excl /\ (d.jobs[r.job] >= 0 \/ r.job \in d.zombies) -> "EEXIST"
      [] OTHER -> None

\* store_job: a row for a job without events.
store_job(v, j) == [v EXCEPT !.jobs[j] = 0, !.members[j] = {"server"}]

\* A job that was the proxy's only becomes the server's, too.
Joined(v, j) ==
    [v EXCEPT !.members[j] = IF "server" \in @ THEN @ ELSE {"server", "proxy"}]

\* store_job_server_proxy: the row of the job is locked for update, and the
\* first plain read makes the snapshot; or the row is inserted, when
\* no other gap lock is in the way.
StoreLocked(p) ==
    LET j == w[p].req.job
        fresh == w[p].pc = "insert"
    IN  /\ \/ w[p].pc = "begin" /\ db.jobs[j] >= 0
           \/ fresh
        /\ Granted(p)
        /\ fresh \/ Objection(db, w[p].req) = None
        /\ Store(p, IF fresh THEN store_job(db, j) ELSE Joined(db, j), IF fresh THEN {j} ELSE {})
        /\ UNCHANGED <<db, inbox, acked, sent, jp, faults>>

\* The job is not known: its registration leaves a gap lock,
LockAbsent(p) ==
    /\ w[p].pc = "begin" /\ Granted(p)
    /\ db.jobs[w[p].req.job] < 0
    /\ w[p].req.ev.type = "REGJOB" /\ Objection(db, w[p].req) = None
    /\ w' = [w EXCEPT ![p].pc = "insert", ![p].gap = {w[p].req.job}]
    /\ UNCHANGED <<db, inbox, acked, sent, jp, faults>>

\* and any other event is refused.
NotRegistered(p) ==
    /\ w[p].pc = "begin" /\ Granted(p)
    /\ db.jobs[w[p].req.job] < 0
    /\ w[p].req.ev.type # "REGJOB"
    /\ Refuse(p, "ENOENT")

RegistrationRejected(p) ==
    /\ w[p].pc = "begin" /\ Granted(p)
    /\ Objection(db, w[p].req) # None
    /\ Refuse(p, Objection(db, w[p].req))

\* The change of the access control list fails (see UpdateACL of QueryServer), and
\* the event is not stored.
AclRejected(p) ==
    /\ w[p].pc = "begin" /\ Granted(p)
    /\ db.jobs[w[p].req.job] >= 0 /\ ChangesAcl(w[p].req.ev)
    /\ ~Duplicate(db, w[p].req.job, w[p].req.ev)
    /\ Refuse(p, "EINVAL")

\* Mutant: the class the subjob leaves keeps it.
CountedTwice(h, old, new) == [h EXCEPT ![class(new)] = @ + 1]

Counted(h, old, new) == [h EXCEPT ![class(new)] = @ + 1, ![class(old)] = @ - 1]

\* The collection state event: the last code of the collection, with the
\* server's counter increased.
CollectionEvent(js, state) ==
    [type |-> "COLLECTIONSTATE", source |-> "LB_SERVER",
     seqcode |-> [js.last_seqcode EXCEPT ![EDG_WLL_SEQ_FORMAT_NUMBER] = @ + 1],
     timestamp |-> 0, code |-> "OK", val |-> state, wn |-> NoSeq]

\* Only the histogram changes (edg_wll_StoreSubjobHistogram): the state is
\* written as it was read, its number is not.
ParentCounted(p, P, v) ==
    /\ w' = [w EXCEPT ![p].pc = Then(w[p].subs), ![p].view = v,
                      ![p].hist = {P}, ![p].lock = @ \cup {P}]
    /\ UNCHANGED sent

\* A collection state event is stored, and its state steps: db_parent_store,
\* with the notification of the new state before the transaction ends.
ParentMoves(p, P, v, e) ==
    LET seq == v.jobs[P]
    IN  \E s \in StepState(StoreEvent(v, P, e), P, e, seq) :
            /\ w' = [w EXCEPT ![p].pc = Then(w[p].subs), ![p].view = s.v,
                              ![p].wr = @ \cup {P}, ![p].lock = @ \cup {P},
                              ![p].ins = @ \cup {[job |-> P, row |-> [n |-> seq, ev |-> e]]}]
            /\ sent' = sent \cup {<<P, s.js.state>>}

\* The state the histogram gives the collection; a DAG keeps its own.
ParentState(row, hist, num) ==
    CASE row.js.jobtype = "COLLECTION" -> process_Histogram(hist, num)
      [] row.js.jobtype = "FILE_TRANSFER_COLLECTION" -> process_FT_Histogram(hist, num)
      [] OTHER -> row.js.state

\* The row of the collection is locked for update, but its state and the number
\* of its events are read from the snapshot.  When the collection is gone, or
\* that number is taken, or the snapshot has such an event, the event of the
\* subjob is refused (EINVAL).
update_parent_status(p) ==
    LET P == Parent[w[p].req.job]
        v0 == w[p].view
        row == v0.states[P]
        hist == Counted(row.hist, w[p].old, w[p].new.js)
        v == [v0 EXCEPT !.states[P].hist = hist]
        state == ParentState(row, hist, Cardinality(Sub(P)))
        there == db.jobs[P] >= 0 /\ row # NoRow
        e == CollectionEvent(row.js, state)
        stored == Taken(v, P) \/ Duplicate(v, P, e)
    IN  /\ w[p].pc = "parent" /\ Granted(p)
        /\ \/ ~there /\ Refuse(p, "EINVAL")
           \/ there /\ state # row.js.state /\ stored /\ Refuse(p, "EINVAL")
           \/ /\ there
              /\ \/ state = row.js.state /\ ParentCounted(p, P, v)
                 \/ state # row.js.state /\ ~stored /\ ParentMoves(p, P, v, e)
              /\ UNCHANGED <<db, inbox, acked, jp, faults>>

\* register_subjobs_embryonic, for one subjob after the other: what is inserted
\* meets the committed rows.
register_subjobs_embryonic(p) ==
    LET j == w[p].req.job
        c == NextSub(p)
        rest == w[p].subs \ {c}
        v == [w[p].view EXCEPT !.jobs[c] = db.jobs[c], !.members[c] = db.members[c],
                               !.states[c] = db.states[c]]
        there == IF db.jobs[c] < 0 THEN {} ELSE {c}
    IN  /\ w[p].pc = "subs" /\ Granted(p)
        /\ w' = [w EXCEPT ![p].pc = Then(rest), ![p].subs = rest,
                          ![p].view = RegisterSubjob(v, c, j, w[p].req.ev),
                          ![p].wr = @ \cup {c},
                          ![p].shared = @ \cup there, ![p].lock = @ \cup ({c} \ there)]
        /\ UNCHANGED <<db, inbox, acked, sent, jp, faults>>

---------------------------------------------------------------------------
(* The end of a transaction (edg_wll_TransNeedRetry).                      *)

Committed(p) ==
    [jobs |-> [j \in Jobs |-> IF j \in w[p].wr /\ w[p].req.kind = "store"
                                THEN w[p].view.jobs[j] ELSE db.jobs[j]],
     states |-> [j \in Jobs |->
                    IF j \in w[p].wr THEN w[p].view.states[j]
                    ELSE IF j \in w[p].hist
                    THEN [w[p].view.states[j] EXCEPT !.seq = db.states[j].seq]
                    ELSE db.states[j]],
     events |-> [j \in Jobs |-> db.events[j] \cup {x.row : x \in {y \in w[p].ins : y.job = j}}],
     members |-> [j \in Jobs |-> IF j \in w[p].wr /\ w[p].req.kind = "store"
                                   THEN w[p].view.members[j] ELSE db.members[j]],
     zombies |-> db.zombies, purged |-> db.purged,
     dropped |-> IF w[p].lost THEN db.dropped \cup {w[p].req} ELSE db.dropped \ {w[p].req}]

\* The transaction is rolled back and tried again.  What the attempt has found
\* out for the time after the commit is kept.
Retried(p) ==
    [Idle EXCEPT !.req = w[p].req, !.new = w[p].new, !.reg = w[p].reg, !.ask = w[p].ask,
                 !.pc = IF w[p].req.kind = "store" THEN "begin" ELSE "status"]

\* The database has rolled the transaction back, and says so.  The update of a
\* collection makes any error EINVAL; the registration of subjobs only looks for
\* a code the error does not have, goes on with the next one, and what is left of
\* the transaction is committed.
RolledBack(p) ==
    LET rest == w[p].subs \ {NextSub(p)}
    IN  CASE w[p].pc = "parent" -> Idle
          [] w[p].pc = "subs" ->
                [Retried(p) EXCEPT !.pc = Then(rest), !.subs = rest, !.lost = TRUE,
                     !.view = [db EXCEPT !.members[w[p].req.job] = w[p].view.members[w[p].req.job]]]
          [] OTHER -> Retried(p)

\* Mutant: a state computed from all the events is not passed on.
CommitKnown(p) ==
    /\ w[p].pc = "commit" /\ w[p].req.kind # "purge"
    /\ db' = Committed(p)
    /\ jp' = jp \cup w[p].reg
    /\ sent' = IF w[p].old = NoState THEN sent
               ELSE sent \cup {<<w[p].new.job, w[p].new.js.state>>}
    /\ acked' = acked \cup {w[p].req}
    /\ w' = [w EXCEPT ![p] = Idle]
    /\ UNCHANGED <<inbox, faults>>

\* Commit, and db_store_finalize: registration to Job Provenance and matching
\* of the notifications.
Commit(p) ==
    /\ w[p].pc = "commit" /\ w[p].req.kind # "purge"
    /\ db' = Committed(p)
    /\ jp' = jp \cup w[p].reg
    /\ sent' = IF w[p].new = NoStat THEN sent
               ELSE sent \cup {<<w[p].new.job, w[p].new.js.state>>}
    /\ acked' = acked \cup {w[p].req}
    /\ w' = [w EXCEPT ![p] = Idle]
    /\ UNCHANGED <<inbox, faults>>

InTransaction(p) == w[p].pc \in {"insert", "parent", "subs", "upgrade", "commit"}

\* A circle of waiting transactions: the database gives up one of them.
Deadlock(p) ==
    /\ InTransaction(p)
    /\ \E q \in WaitsFor(p) : p \in WaitsFor(q)
    /\ w' = [w EXCEPT ![p] = RolledBack(p)]
    /\ UNCHANGED <<db, inbox, acked, sent, jp, faults>>

\* The connection to the database is lost inside a transaction.
LostConnection(p) ==
    /\ InTransaction(p) /\ faults < MaxFaults
    /\ faults' = faults + 1
    /\ w' = [w EXCEPT ![p] = RolledBack(p)]
    /\ UNCHANGED <<db, inbox, acked, sent, jp>>

\* The connection is lost in the COMMIT, which may have been done or not.  It
\* is not retried: the sender gets an error, and comes again.
CommitLost(p) ==
    /\ w[p].pc = "commit" /\ w[p].req.kind = "store" /\ faults < MaxFaults
    /\ faults' = faults + 1
    /\ db' \in {db, Committed(p)}
    /\ w' = [w EXCEPT ![p] = Idle]
    /\ inbox' = inbox \cup {w[p].req}
    /\ UNCHANGED <<acked, sent, jp>>

---------------------------------------------------------------------------
(* The state of a job (edg_wll_JobStatusServer), which purge asks for, too. *)

Answered(p) ==
    /\ w' = [w EXCEPT ![p] = Idle]
    /\ acked' = acked \cup {w[p].req}
    /\ UNCHANGED <<inbox, jp, faults>>

\* The stored state is the answer.
StatusStored(p) ==
    LET j == w[p].req.job
    IN  /\ w[p].pc = "status" /\ w[p].req.kind = "status" /\ Granted(p)
        /\ db.jobs[j] >= 0 /\ db.states[j] # NoRow
        /\ Answered(p)
        /\ UNCHANGED <<db, sent>>

StatusUnknown(p) ==
    /\ w[p].pc = "status" /\ Granted(p)
    /\ db.jobs[w[p].req.job] < 0
    /\ Refuse(p, IF w[p].req.job \in db.zombies THEN "EIDRM" ELSE "ENOENT")

\* Mutant: the row is read without a lock.
StatusMissingUnlocked(p) ==
    LET j == w[p].req.job
    IN  /\ w[p].pc = "status" /\ Granted(p)
        /\ db.jobs[j] >= 0 /\ db.states[j] = NoRow
        /\ w' = [w EXCEPT ![p].pc = "upgrade", ![p].view = db]
        /\ UNCHANGED <<db, inbox, acked, sent, jp, faults>>

\* There is none: the shared lock is to be turned into an exclusive one.
StatusMissing(p) ==
    LET j == w[p].req.job
    IN  /\ w[p].pc = "status" /\ Granted(p)
        /\ db.jobs[j] >= 0 /\ db.states[j] = NoRow
        /\ w' = [w EXCEPT ![p].pc = "upgrade", ![p].shared = {j}, ![p].view = db]
        /\ UNCHANGED <<db, inbox, acked, sent, jp, faults>>

\* The state is computed and stored.
StatusComputed(p) ==
    LET j == w[p].req.job
        v == w[p].view
    IN  /\ w[p].pc = "upgrade" /\ Granted(p)
        /\ \E js \in After(v, j, FALSE, EventsIn(v, j)) :
              w' = [w EXCEPT
                      ![p].pc = "commit", ![p].wr = {j}, ![p].lock = {j}, ![p].shared = {},
                      ![p].view = StoreIntState(v, j, js, HistRecomputed(v, j),
                                                Cardinality(v.events[j]) - 1)]
        /\ UNCHANGED <<db, inbox, acked, sent, jp, faults>>

---------------------------------------------------------------------------
(* What the database holds at the beginning.                               *)

\* Events numbered from 0 to k - 1, no two with the same columns.
Numbered(E, k) ==
    /\ {x.n : x \in E} = 0..(k - 1)
    /\ \A x, y \in E : x.n = y.n \/ Header(x.ev) = Header(y.ev) => x = y

Tables(d) ==
    /\ DOMAIN d = {"jobs", "states", "events", "members", "zombies", "purged", "dropped"}
    /\ d.jobs \in [Jobs -> Int] /\ DOMAIN d.states = Jobs /\ DOMAIN d.events = Jobs /\ DOMAIN d.members = Jobs

\* Of the jobs that no purge has come to, one without a row has nothing else, and
\* one with a row has as many events as the row says.
Sound(d) ==
    /\ Tables(d)
    /\ \A j \in Jobs : d.jobs[j] >= -1
    /\ \A j \in Jobs \ d.purged :
          IF d.jobs[j] < 0 THEN d.events[j] = {} /\ d.states[j] = NoRow
          ELSE Numbered(d.events[j], d.jobs[j])

\* A request of a sender is for a job of the database.
Proper(r) ==
    \/ r.kind \in {"store", "status"} /\ r.job \in Jobs
    \/ r.kind = "purge" /\ r.jobs \subseteq Jobs

ASSUME JobsAssumption ==
    /\ None \notin Jobs /\ Parent \in [Jobs -> Jobs \cup {None}]
    /\ \A j \in Jobs : Parent[j] \in Jobs => Parent[j] # j /\ Parent[Parent[j]] # j

ASSUME ScenariosAssumption ==
    \A s \in Scenarios : Sound(s.db) /\ \A r \in s.inbox : Proper(r)

StoreInit ==
    /\ w = [p \in Workers |-> Idle]
    /\ acked = {} /\ sent = {} /\ jp = {}
    /\ faults = 0

Work(p) ==
    \/ \E r \in inbox : Take(p, r)
    \/ StoreLocked(p) \/ LockAbsent(p) \/ NotRegistered(p) \/ RegistrationRejected(p) \/ AclRejected(p)
    \/ update_parent_status(p) \/ register_subjobs_embryonic(p) \/ Commit(p) \/ Deadlock(p)
    \/ StatusStored(p) \/ StatusUnknown(p) \/ StatusMissing(p) \/ StatusComputed(p)
    \/ LostConnection(p) \/ CommitLost(p)

Quiet == inbox = {} /\ \A p \in Workers : w[p].pc = "idle"

---------------------------------------------------------------------------
\* A purge has begun to delete the job.
Purged(j) == j \in db.purged

Whole(j) == ~Purged(j) /\ db.jobs[j] >= 0

\* However requests for one job overlap, come twice, are rolled back and tried
\* again: the events of a job that is not purged are numbered from 0 without a
\* gap, no event is there twice, and one acknowledged to its sender is there (or
\* one that the columns of table events do not tell from it), unless it registered
\* a collection and the database gave that transaction up while the subjobs were
\* registered.
EventsIntact ==
    /\ \A j \in Jobs : Whole(j) =>
          /\ {x.n : x \in db.events[j]} = 0..(db.jobs[j] - 1)
          /\ Cardinality(db.events[j]) = db.jobs[j]
          /\ Cardinality(HeadersIn(db, j)) = db.jobs[j]
    /\ \A r \in acked : r.kind = "store" /\ ~Purged(r.job) /\ r \notin db.dropped =>
          Header(r.ev) \in HeadersIn(db, r.job)

\* The states of j when the first k events are computed at once, in the order of
\* the state machine, and each later one is a step in the order of storage; an
\* event that changes the access control list is no step.
Stepped(j, k) ==
    LET reg == {x \in EventsIn(db, Parent[j]) : x.type = "REGJOB"}
        start == IF Parent[j] = None THEN init_intJobStat
                 ELSE intJobStat_embryonic(CHOOSE x \in reg : TRUE)
        at(n) == (CHOOSE x \in db.events[j] : x.n = n).ev
        f[n \in k..db.jobs[j]] ==
            CASE n = k -> IF k = 0 THEN {start} ELSE edg_wll_intJobStatus({at(m) : m \in 0..(k - 1)})
              [] n > k /\ ChangesAcl(at(n - 1)) -> f[n - 1]
              [] OTHER -> UNION {processEvent(js, at(n - 1)) : js \in f[n - 1]}
    IN  f[db.jobs[j]]

\* The numbers of the events of j that are steps of its state.
Steps(j) == {x.n : x \in {y \in db.events[j] : ~ChangesAcl(y.ev)}}

(***************************************************************************)
(* What a status query tells of a collection's subjobs.                    *)
(***************************************************************************)
\* Subjobs whose states are in the answer.  (No scenario has a subjob whose
\* state is of an older version: the code computes it anew.)
Children(v, j) == {c \in Sub(j) : v.jobs[c] >= 0 /\ v.states[c] # NoRow}

\* The fast histogram is the stored one, kept by update_parent_status ...
edg_wll_GetSubjobHistogram(v, j) == v.states[j].hist

\* ... the thorough one is counted from the subjobs, by states, not classes.
ThoroughHistogram(v, j, state) == Cardinality({c \in Children(v, j) : v.states[c].js.state = state})

\* The state in the database has taken in every stored event of the job exactly
\* once: all of them in the order they were stored, or those up to a computation
\* anew (after a change of the access control list, or of the server's version) in
\* the order of the state machine.  It carries the number of the last event, or of
\* an earlier one with only changes of the access control list after it.  And the
\* histogram of a collection counts as many subjobs as it has, whatever order and
\* overlap the updates had.
StateFollows ==
    \A j \in Jobs : Whole(j) /\ db.states[j] # NoRow =>
        /\ Sub(j) = {} /\ (Parent[j] = None \/ Whole(Parent[j])) =>
              /\ \E k \in 0..db.jobs[j] : \E js \in Stepped(j, k) : js.state = db.states[j].js.state
              /\ Steps(j) # {} => db.states[j].seq \in Max(Steps(j))..(db.jobs[j] - 1)
        /\ Sub(j) # {} =>
              MapThenSumSet(LAMBDA c : edg_wll_GetSubjobHistogram(db, j)[c], Classes) = Cardinality(Sub(j))

\* The state of a job that is in the database at the end has been given to the
\* notifications, although attempts were rolled back in between (when some event
\* has been stored that is a step of the state).
Notified ==
    Quiet /\ faults = 0 =>
        \A r \in acked : r.kind = "store" /\ Whole(r.job) /\ ~ChangesAcl(r.ev) =>
            <<r.job, db.states[r.job].js.state>> \in sent

\* The histogram a collection's state is computed from, and which a query gets
\* when it asks for the fast one, counts as the thorough one does.
HistogramTrue ==
    Quiet => \A j \in Jobs : Sub(j) # {} /\ (\A s \in {j} \cup Sub(j) : Whole(s) /\ db.states[s] # NoRow) =>
        LET fast == edg_wll_GetSubjobHistogram(db, j)
            thorough(state) == ThoroughHistogram(db, j, state)
        IN  /\ fast["RUNNING"] = thorough("RUNNING")
            /\ fast["ABORTED"] = thorough("ABORTED")
            /\ fast["CLEARED"] = thorough("CLEARED") + thorough("CANCELLED")
            /\ fast["DONE"] <= thorough("DONE")
=============================================================================
