---------------------------- MODULE QueryServer ----------------------------
(***************************************************************************)
(* Queries for jobs and events (query.c, userjobs.c) in a server process   *)
(* while other processes register jobs, step their states, purge them and  *)
(* change their access control lists (edg_wll_UpdateACL in db_store).  A   *)
(* query reads its selection in pages, each by a statement of its own, and *)
(* the state of each row in a transaction of its own.                      *)
(*                                                                         *)
(* job[j]   [here, st, aclid, events]: a row of jobs with its states row,  *)
(*          the ACL it refers to and its events in the order of arrival    *)
(* acls     the reference counts of table acls                             *)
(* stale    (history) the counts that purged jobs have left there          *)
(* exposed  (history) the database failed in the middle of an update of an *)
(*          ACL that went on as if the ACL had been changed meanwhile      *)
(* q[r]     a query: where it is, what is left of the page, its answer and *)
(*          (history) which items were ever or always right to return      *)
(* w[p]     an update of an ACL in the transaction of its store            *)
(***************************************************************************)
EXTENDS Query, Integers, FiniteSets, FiniteSetsExt

CONSTANTS Jobs,       \* job identifiers, numbers in their order
          Foreign,    \* those that name another server
          Readers,    \* server processes that answer queries
          Changers,   \* server processes that store changes of ACLs
          Policy, Mapping,
          Scenarios   \* [job, index, ask, change, env, fault]

\* The calls are about jobs of the server, which have an ACL or none.
IsRow(row) == DOMAIN row = {"here", "st", "aclid", "events"} /\ row.here \in BOOLEAN
IsAcl(a) == a \in Seq(ToSet(a)) /\ \A i \in 1..Len(a) : DOMAIN a[i] = {"cred", "perm", "type"}

ASSUME QueryAssumption ==
    /\ IsFiniteSet(Jobs)
    /\ \A s \in Scenarios :
          /\ DOMAIN s.job = Jobs
          /\ \A j \in Jobs : /\ IsRow(s.job[j]) /\ (s.job[j].aclid = NoAcl \/ IsAcl(s.job[j].aclid))
                             /\ ~s.job[j].here => s.job[j].aclid = NoAcl
          /\ s.change \in Seq(ToSet(s.change)) /\ s.env \in Seq(ToSet(s.env))
          /\ \A i \in 1..Len(s.change) : s.change[i].job \in Jobs
          /\ \A i \in 1..Len(s.env) : s.env[i].job \in Jobs /\ IsRow(s.env[i].row)

VARIABLES job, acls, stale, exposed, index, q, w, todo, fault
vars == <<job, acls, stale, exposed, index, q, w, todo, fault>>

NoQuery == [pc |-> "idle"]
NoWork == [pc |-> "idle", ch |-> [job |-> 0], old |-> NoAcl, new |-> NoAcl, wr |-> <<>>, shared |-> NoAcl,
           held |-> FALSE, err |-> FALSE]

\* The jobs that refer to an ACL, and the counts of it that purges have left.
Uses(a) == Cardinality({j \in Jobs : job[j].here /\ job[j].aclid = a})
Stale(a) == IF a \in DOMAIN stale THEN stale[a] ELSE 0

---------------------------------------------------------------------------
(* What a reader may see, and what is right to return to it.               *)

View(r, j, js) ==
    check_jobstat_authz(js[j].st, js[j].aclid, q[r].req.peer, Policy, Mapping, FALSE)
Shown(st, view) ==
    CASE view = "anonymized" -> anonymize_stat(st)
      [] view = "monitoring" -> blacken_fields(st)
      [] OTHER -> st

Filtered(req) == FL_FILTER(req.jc, index)

\* A condition as a client means it, on a state.
Satisfied(st, conds, p) ==
    \A i \in DOMAIN conds : \E k \in DOMAIN conds[i] :
        LET c == conds[i][k]
        IN  CASE c.attr = "OWNER" -> st.owner # NoSubject /\ SameOwner(st.owner, c, p)
              [] c.attr = "JOBID" -> Compare(st.job, c)
              [] OTHER -> st.attrs[Column(c)] # 0 /\ Compare(st.attrs[Column(c)], c)
EventSatisfied(e, ec) ==
    \A i \in DOMAIN ec : \E k \in DOMAIN ec[i] :
        IF ec[i][k].attr = "USERTAG"
        THEN e.EVENT_TYPE = EVENT_USERTAG /\ e.tag = ec[i][k].id /\ Compare(e.USERTAG, ec[i][k])
        ELSE Compare(e[ec[i][k].attr], ec[i][k])

\* The rows the database selects for a query, as <<job, n>> in their order,
\* with n the event or 0.
Chosen(req, js) ==
    {j \in Jobs : js[j].here /\ jc_to_head_where(js[j].st, req.jc, index, req.peer)}
JobRows(req, js) == {<<j, 0>> : j \in Chosen(req, js)}
EventRows(req, js) ==
    UNION {{<<j, n>> : n \in {k \in DOMAIN js[j].events : ec_to_head_where(js[j].events[k], req.ec)}} :
            j \in Chosen(req, js)}
Selected(req, js) ==
    LET keys == IF req.kind = "jobs" THEN JobRows(req, js) ELSE EventRows(req, js)
        before(k) == {x \in keys : x[1] < k[1] \/ (x[1] = k[1] /\ x[2] < k[2])}
    IN  [i \in 1..Cardinality(keys) |-> CHOOSE k \in keys : Cardinality(before(k)) = i - 1]

\* The list of a user's jobs and of jobs without their states is for everyone.
Open(req) == req.kind = "jobs" /\ ~req.states /\ ~Filtered(req)
MayRead(r, j, js) == Open(q[r].req) \/ View(r, j, js) # "none"

\* Without a condition on states the policy and the mapped names do not help
\* to read events.
ByAclOnly(req) == req.kind = "events" /\ ~Filtered(req)
MustRead(r, j, js) ==
    IF ByAclOnly(q[r].req)
    THEN \/ edg_wll_gss_equal_subj(q[r].req.peer.name, js[j].st.owner)
         \/ edg_wll_CheckACL_princ(js[j].aclid, "READ", q[r].req.peer)
    ELSE MayRead(r, j, js)

\* Items that it is right to return at this moment; those that it would be
\* wrong to leave out match as the reader sees them too.
Right(r, js, strict) ==
    LET req == q[r].req
        ok(j) == /\ js[j].here /\ j \notin Foreign
                 /\ IF strict THEN MustRead(r, j, js) ELSE MayRead(r, j, js)
                 /\ LET real == Satisfied(js[j].st, req.jc, req.peer)
                        seen == Satisfied(Shown(js[j].st, View(r, j, js)), req.jc, req.peer)
                    IN  IF strict THEN real /\ seen ELSE real \/ seen
    IN  IF req.kind = "jobs" THEN {<<j, 0>> : j \in {x \in Jobs : ok(x)}}
        ELSE {x \in UNION {{j} \X DOMAIN js[j].events : j \in {x \in Jobs : ok(x)}} :
                EventSatisfied(js[x[1]].events[x[2]], req.ec)}

Watched(r, js) ==
    IF q[r].pc \in {"idle", "done"} THEN q[r]
    ELSE LET was == ToSet(Selected(q[r].req, job))
             is == ToSet(Selected(q[r].req, js))
         IN  [q[r] EXCEPT !.ever = @ \cup Right(r, js, FALSE), !.always = @ \cap Right(r, js, TRUE),
                          !.left = @ \/ ~(was \subseteq is), !.came = @ \/ ~(is \subseteq was)]
Watch(js) == q' = [r \in Readers |-> Watched(r, js)]

---------------------------------------------------------------------------
(* Starting a query.                                                       *)

JobRefusal(req) ==
    CASE req.results = "ALL" /\ ~SingleOf(req.jc, "OWNER") -> "EINVAL"
      [] ~req.noIndex /\ ~check_job_query_index(req.jc, index) -> "NOINDEX"
      [] \/ ~check_strict_jobid_cond(req.jc, Foreign, FALSE)
         \/ ~jc_correct(req.jc) -> "EINVAL"
      [] owner_unknown(req.jc, index, req.peer) -> "EPERM"
      [] OTHER -> "ok"
EventRefusal(req) ==
    CASE req.results = "ALL" /\ ~SingleOf(req.jc, "JOBID") -> "EINVAL"
      [] ~req.noIndex /\ ~check_event_query_index(req.jc, req.ec, index) -> "NOINDEX"
      [] \/ ~check_strict_jobid_cond(req.jc, Foreign, FALSE)
         \/ req.ec # <<>> /\ ~ec_correct(req.ec) /\ ~req.noIndex
         \/ ~jc_correct(req.jc) -> "EINVAL"
      [] owner_unknown(req.jc, index, req.peer) -> "EPERM"
      [] OTHER -> "ok"
Refusal(req) == IF req.kind = "jobs" THEN JobRefusal(req) ELSE EventRefusal(req)

NewQuery(req) ==
    [pc |-> "page", req |-> req, off |-> 0, rows |-> <<>>, more |-> TRUE, out |-> <<>>,
     err |-> "ok", jold |-> 0, match |-> FALSE, acl |-> NoAcl,
     lost |-> FALSE, ever |-> {}, always |-> {}, left |-> FALSE, came |-> FALSE,
     of |-> 0, stray |-> FALSE]

\* edg_wll_UserJobsServer: the jobs of the peer and of the names mapped to
\* it by a single statement.  Jobs of other servers are left out; a state
\* that cannot be read stays empty, and does not count.
OwnedBy(p, j) == edg_wll_gss_equal_subj(p.name, job[j].st.owner) \/ equal_mapped(p.name, job[j].st.owner, Mapping)
UserJobs(req) ==
    LET own == {j \in Jobs : job[j].here /\ OwnedBy(req.peer, j)}
        keys == {<<j, 0>> : j \in {x \in own : check_strict_jobid(x, Foreign, FALSE)}}
    IN  [NewQuery(req) EXCEPT !.pc = "done", !.ever = keys, !.always = keys,
            !.out = SetToSeq(keys),
            !.err = IF req.peer.name = NoSubject THEN "EPERM" ELSE IF own = {} THEN "ENOENT" ELSE "ok"]

Ask(r) ==
    /\ q[r].pc = "idle" /\ todo.ask # <<>>
    /\ LET req == Head(todo.ask)
           new == NewQuery(req)
       IN  q' = [q EXCEPT ![r] =
                    IF req.kind = "user" THEN UserJobs(req)
                    ELSE IF Refusal(req) # "ok" THEN [new EXCEPT !.pc = "done", !.err = Refusal(req)]
                    ELSE new]
    /\ todo' = [todo EXCEPT !.ask = Tail(@)]
    /\ UNCHANGED <<job, acls, stale, exposed, index, w, fault>>

---------------------------------------------------------------------------
(* Pages and rows.                                                         *)

\* A page is read; the first one starts the history.
Page(r) ==
    /\ q[r].pc = "page" /\ q[r].rows = <<>> /\ q[r].more
    /\ LET lim == q[r].req.limit
           sel == Selected(q[r].req, job)
           page == IF lim = 0 THEN sel ELSE SubSeq(sel, q[r].off + 1, Min({q[r].off + lim, Len(sel)}))
           first == q[r].off = 0
       IN  q' = [q EXCEPT ![r].rows = page, ![r].off = @ + Len(page),
                          ![r].more = lim # 0 /\ Len(page) = lim,
                          ![r].ever = @ \cup Right(r, job, FALSE),
                          ![r].always = IF first THEN Right(r, job, TRUE) ELSE @]
    /\ UNCHANGED <<job, acls, stale, exposed, index, w, todo, fault>>

PageFails(r) ==
    /\ q[r].pc = "page" /\ q[r].rows = <<>> /\ q[r].more /\ fault > 0
    /\ fault' = fault - 1
    /\ q' = [q EXCEPT ![r].pc = "done", ![r].err = "DBCALL"]
    /\ UNCHANGED <<job, acls, stale, exposed, index, w, todo>>

\* The row has been dealt with; j_old is the job of the last row.
Next_(x, j) == [x EXCEPT !.rows = Tail(@), !.jold = j]

\* An item for the answer, when the limit leaves room for it.
Deliver(x, j) ==
    IF x.req.results # "ALL" /\ x.req.limit # 0 /\ Len(x.out) + 1 > x.req.limit
    THEN IF x.req.results = "LIMITED"
         THEN [x EXCEPT !.err = "E2BIG", !.rows = <<>>, !.more = FALSE]
         ELSE [x EXCEPT !.err = "E2BIG", !.pc = "done", !.out = <<>>]
    ELSE Next_([x EXCEPT !.out = Append(@, Head(x.rows))], j)

\* edg_wll_JobStatusServer: the error, or what the reader sees.
JobStatus(r, j) ==
    IF ~job[j].here THEN [err |-> "EIDRM", st |-> NoStat]
    ELSE IF View(r, j, job) = "none" THEN [err |-> "EPERM", st |-> NoStat]
    ELSE [err |-> "ok", st |-> Shown(job[j].st, View(r, j, job))]

\* Mutant: a state that is read anyway is not compared with the conditions.
MutJobRow(r) ==
    /\ q[r].pc = "page" /\ q[r].rows # <<>> /\ q[r].req.kind = "jobs"
    /\ LET x == [q[r] EXCEPT !.err = "ok"]
           j == Head(x.rows)[1]
           s == JobStatus(r, j)
       IN  q' = [q EXCEPT ![r] =
                    IF ~check_strict_jobid(j, Foreign, FALSE) THEN Next_(x, j)
                    ELSE IF ~Filtered(x.req) /\ ~x.req.states THEN Deliver(x, j)
                    ELSE IF s.err # "ok" THEN Next_([x EXCEPT !.err = s.err], j)
                    ELSE Deliver(x, j)]
    /\ UNCHANGED <<job, acls, stale, exposed, index, w, todo, fault>>

\* A row of a query for jobs.
JobRow(r) ==
    /\ q[r].pc = "page" /\ q[r].rows # <<>> /\ q[r].req.kind = "jobs"
    /\ LET x == [q[r] EXCEPT !.err = "ok"]
           j == Head(x.rows)[1]
           s == JobStatus(r, j)
       IN  q' = [q EXCEPT ![r] =
                    IF ~check_strict_jobid(j, Foreign, FALSE) THEN Next_(x, j)
                    ELSE IF ~Filtered(x.req) /\ ~x.req.states THEN Deliver(x, j)
                    ELSE IF s.err # "ok" THEN Next_([x EXCEPT !.err = s.err], j)
                    ELSE IF Filtered(x.req) /\ ~match_status(NoStat, s.st, x.req.jc, x.req.peer)
                         THEN Next_(x, j)
                    ELSE Deliver(x, j)]
    /\ UNCHANGED <<job, acls, stale, exposed, index, w, todo, fault>>

\* The mapped names are not looked at for events.
OwnerOf(r, j) == edg_wll_gss_equal_subj(q[r].req.peer.name, job[j].st.owner)

\* The fields of an event of a purged job are not there any more.
edg_wll_get_event_flesh(j) == job[j].here

\* A row of a query for events.  The state of a job is computed for the
\* first of its events, with the right to read it; without conditions on
\* states the owner and the ACL decide.  The first event may be passed over
\* before the state is computed, and the state may be refused: then the
\* others of the job go by the state of another one (stray).
EventRow(r) ==
    /\ q[r].pc = "page" /\ q[r].rows # <<>> /\ q[r].req.kind = "events"
    /\ LET x == [q[r] EXCEPT !.err = "ok"]
           j == Head(x.rows)[1]
           n == Head(x.rows)[2]
           s == JobStatus(r, j)
           m == match_status(NoStat, s.st, x.req.jc, x.req.peer)
       IN  q' = [q EXCEPT ![r] =
                    IF ~edg_wll_get_event_flesh(j) \/ ~match_flesh_conditions(job[j].events[n], x.req.ec)
                       \/ ~check_strict_jobid(j, Foreign, FALSE)
                    THEN Next_(x, j)
                    ELSE IF ~Filtered(x.req)
                    THEN IF OwnerOf(r, j) THEN Deliver(x, j)
                         ELSE IF job[j].aclid = NoAcl THEN Next_(x, j)
                         ELSE [x EXCEPT !.pc = "acl", !.acl = job[j].aclid]
                    ELSE IF x.jold = j
                    THEN LET y == [x EXCEPT !.stray = @ \/ x.of # j]
                         IN  IF x.match THEN Deliver(y, j) ELSE Next_(y, j)
                    ELSE IF s.err # "ok" THEN Next_([x EXCEPT !.err = s.err], j)
                    ELSE IF m THEN Deliver([x EXCEPT !.match = TRUE, !.of = j], j)
                    ELSE Next_([x EXCEPT !.match = FALSE, !.of = j], j)]
    /\ UNCHANGED <<job, acls, stale, exposed, index, w, todo, fault>>

\* The second statement of edg_wll_GetACL.  An ACL that is gone by then is
\* taken for a string, and the process ends.
AclRow(r) ==
    /\ q[r].pc = "acl"
    /\ LET x == [q[r] EXCEPT !.pc = "page"]
           j == Head(x.rows)[1]
       IN  q' = [q EXCEPT ![r] =
                    IF q[r].acl \notin DOMAIN acls THEN [x EXCEPT !.pc = "done", !.err = "crash"]
                    ELSE IF edg_wll_CheckACL_princ(q[r].acl, "READ", x.req.peer) THEN Deliver(x, j)
                    ELSE Next_(x, j)]
    /\ UNCHANGED <<job, acls, stale, exposed, index, w, todo, fault>>

\* Purged jobs that the conditions name make the answer "purged".
Zombies(jc) == jobid_only_query(jc) /\ \E c \in AllConds(jc) :
                    c.attr = "JOBID" /\ c.value \in Jobs /\ ~job[c.value].here

\* The answer is lost with any error, one that the last row left included;
\* only a missing right is forgotten when there are results.
QueryJobsServer(x) ==
    IF x.err = "ok" THEN x ELSE [x EXCEPT !.lost = x.out # <<>>, !.out = <<>>]
EndJobs(x) ==
    QueryJobsServer([x EXCEPT !.err =
        IF x.out = <<>> THEN IF x.err # "EPERM" /\ Zombies(x.req.jc) THEN "EIDRM" ELSE "ENOENT"
        ELSE IF x.err = "EPERM" THEN "ok" ELSE x.err])
EndEvents(x) == IF x.out = <<>> THEN [x EXCEPT !.err = "ENOENT"] ELSE x
End(r) ==
    /\ q[r].pc = "page" /\ q[r].rows = <<>> /\ ~q[r].more
    /\ LET x == [q[r] EXCEPT !.pc = "done"]
       IN  q' = [q EXCEPT ![r] = IF x.req.kind = "jobs" THEN EndJobs(x) ELSE EndEvents(x)]
    /\ UNCHANGED <<job, acls, stale, exposed, index, w, todo, fault>>

---------------------------------------------------------------------------
(* What other processes do meanwhile: a job is registered, its state or    *)
(* its events change, it is purged.  All of them lock the row of the job.  *)
(* A purge deletes it and leaves the count of its ACL; a job that is       *)
(* registered has no ACL.                                                  *)

Written(wr, a, n) == [x \in DOMAIN wr \cup {a} |-> IF x = a THEN n ELSE wr[x]]
Locked(j) == \E p \in Changers : w[p].held /\ w[p].ch.job = j

Environment ==
    /\ todo.env # <<>> /\ ~Locked(Head(todo.env).job)
    /\ LET o == Head(todo.env)
           acl == job[o.job].aclid
           row == [o.row EXCEPT !.aclid = IF o.row.here THEN acl ELSE NoAcl]
           js == [job EXCEPT ![o.job] = row]
       IN  /\ job' = js
           /\ stale' = IF o.row.here \/ acl = NoAcl THEN stale ELSE Written(stale, acl, Stale(acl) + 1)
           /\ Watch(js)
    /\ todo' = [todo EXCEPT !.env = Tail(@)]
    /\ UNCHANGED <<acls, exposed, index, w, fault>>

---------------------------------------------------------------------------
(* Changing an ACL, in the transaction of the store of the event.          *)

\* The table as the transaction sees it.
Over(wr, rows) == [x \in DOMAIN wr \cup DOMAIN rows |-> IF x \in DOMAIN wr THEN wr[x] ELSE rows[x]]
Holds(p, a) == a \in DOMAIN w[p].wr
Needs(p) == CASE w[p].pc \in {"insert", "incr", "undo"} -> w[p].new
              [] w[p].pc = "decr" -> w[p].old
              [] OTHER -> NoAcl

\* Those p waits for: the holders of a row it wants to change, or of the
\* shared lock that the failed insert of a row left.
Blockers(p) ==
    LET a == Needs(p)
    IN  IF w[p].pc \in {"begin", "update"} /\ ~w[p].held
        THEN {o \in Changers \ {p} : w[o].held /\ w[o].ch.job = w[p].ch.job}
        ELSE IF a = NoAcl THEN {}
        ELSE {o \in Changers \ {p} : Holds(o, a) \/ (w[p].pc # "insert" /\ w[o].shared = a)}

Take(p) ==
    /\ w[p].pc = "idle" /\ todo.change # <<>>
    /\ w' = [w EXCEPT ![p] = [NoWork EXCEPT !.pc = "begin", !.ch = Head(todo.change)]]
    /\ todo' = [todo EXCEPT !.change = Tail(@)]
    /\ UNCHANGED <<job, acls, stale, exposed, index, q, fault>>

\* The row of the job is locked before the ACL is read, but not when it is
\* read again.  There is nothing to do for a job that is not there; an ACL
\* that is gone ends the process; a change that changes nothing is done.
BeginUpdate(p) ==
    /\ w[p].pc \in {"begin", "again"} /\ Blockers(p) = {}
    /\ LET x == w[p]
           row == job[x.ch.job]
           c == edg_wll_change_acl(IF row.aclid = NoAcl THEN edg_wll_InitAcl ELSE row.aclid, x.ch)
           ends == \/ x.pc = "begin" /\ ~row.here
                   \/ row.aclid # NoAcl /\ row.aclid \notin DOMAIN Over(x.wr, acls)
       IN  w' = [w EXCEPT ![p] =
                    IF ends THEN NoWork
                    ELSE IF c.ret # "ok" THEN [x EXCEPT !.pc = "close"]
                    ELSE [x EXCEPT !.pc = "insert", !.old = row.aclid, !.new = c.acl,
                                   !.held = x.held \/ x.pc = "begin"]]
    /\ UNCHANGED <<job, acls, stale, exposed, index, q, todo, fault>>

\* The counts of the transaction, in which a row with the count 0 is deleted.
Known(p) == LET own == Over(w[p].wr, acls) IN w[p].new \in DOMAIN own /\ own[w[p].new] > 0
Decremented(wr, a) ==
    LET own == Over(wr, acls)
    IN  IF a \in DOMAIN own /\ own[a] > 0 THEN Written(wr, a, own[a] - 1) ELSE wr

Restarted(x) == [NoWork EXCEPT !.pc = "begin", !.ch = x.ch]

\* Mutant: an ACL that is there already is not counted again.
MutInsert(p) ==
    /\ w[p].pc = "insert" /\ Blockers(p) = {}
    /\ w' = [w EXCEPT ![p] =
                IF Known(p) THEN [@ EXCEPT !.pc = "update"]
                ELSE [@ EXCEPT !.pc = "update", !.wr = Written(w[p].wr, w[p].new, 1)]]
    /\ UNCHANGED <<job, acls, stale, exposed, index, q, todo, fault>>

\* edg_wll_HandleCounterACL(+1): insert, or EEXIST and an update.  An insert
\* that succeeds does not clear the error of an update that failed before.
Insert(p) ==
    /\ w[p].pc = "insert" /\ Blockers(p) = {}
    /\ w' = [w EXCEPT ![p] =
                IF Known(p) THEN [@ EXCEPT !.pc = "incr", !.shared = w[p].new, !.err = FALSE]
                ELSE IF w[p].err THEN Restarted(w[p])
                ELSE [@ EXCEPT !.pc = "update", !.wr = Written(w[p].wr, w[p].new, 1)]]
    /\ UNCHANGED <<job, acls, stale, exposed, index, q, todo, fault>>

Incr(p) ==
    /\ w[p].pc = "incr" /\ Blockers(p) = {}
    /\ LET own == Over(w[p].wr, acls)
       IN  w' = [w EXCEPT ![p] = [@ EXCEPT !.pc = "update", !.shared = NoAcl,
                                           !.wr = Written(w[p].wr, w[p].new, own[w[p].new] + 1)]]
    /\ UNCHANGED <<job, acls, stale, exposed, index, q, todo, fault>>

\* The update of aclid finds the value it expects, unless the lock of the row
\* was lost on the way; either way the row is locked now.  Then
\* edg_wll_HandleCounterACL(-1) for the old ACL, if there was one, or for the
\* new one.
UpdateJob(p) ==
    /\ w[p].pc = "update" /\ Blockers(p) = {}
    /\ LET row == job[w[p].ch.job]
       IN  w' = [w EXCEPT ![p].held = TRUE,
                          ![p].pc = IF ~row.here \/ row.aclid # w[p].old THEN "undo"
                                    ELSE IF w[p].old = NoAcl THEN "commit" ELSE "decr"]
    /\ UNCHANGED <<job, acls, stale, exposed, index, q, todo, fault>>

Decr(p) ==
    /\ w[p].pc = "decr" /\ Blockers(p) = {}
    /\ w' = [w EXCEPT ![p] = [@ EXCEPT !.pc = "commit", !.wr = Decremented(w[p].wr, w[p].old)]]
    /\ UNCHANGED <<job, acls, stale, exposed, index, q, todo, fault>>

\* ... and once more from reading the ACL.
Undo(p) ==
    /\ w[p].pc = "undo" /\ Blockers(p) = {}
    /\ w' = [w EXCEPT ![p] = [@ EXCEPT !.pc = "again", !.wr = Decremented(w[p].wr, w[p].new)]]
    /\ UNCHANGED <<job, acls, stale, exposed, index, q, todo, fault>>

Commit(p) ==
    /\ w[p].pc \in {"commit", "close"}
    /\ LET js == IF w[p].pc = "commit" THEN [job EXCEPT ![w[p].ch.job].aclid = w[p].new] ELSE job
           all == Over(w[p].wr, acls)
       IN  /\ job' = js
           /\ acls' = [a \in {x \in DOMAIN all : all[x] > 0} |-> all[a]]
           /\ Watch(js)
    /\ w' = [w EXCEPT ![p] = NoWork]
    /\ UNCHANGED <<stale, exposed, index, todo, fault>>

\* The database breaks a circle of waiting transactions, and a connection
\* may be lost: what the transaction wrote and locked is gone, and it is done
\* again.  Two calls do not look at the error: the increment goes back to
\* the insert, in a transaction that the database begins by itself, and an
\* update of the job that failed passes for one that found another ACL, so
\* that a count is decremented that was not incremented.
Deadlock(p) == \E o \in Blockers(p) : p \in Blockers(o)
Failed(x) ==
    LET lost == [x EXCEPT !.wr = <<>>, !.shared = NoAcl, !.held = FALSE]
    IN  CASE x.pc = "incr" -> [lost EXCEPT !.pc = "insert", !.err = TRUE]
          [] x.pc = "update" -> [lost EXCEPT !.pc = "undo"]
          [] x.pc = "undo" -> [lost EXCEPT !.pc = "again"]
          [] OTHER -> Restarted(x)
Rollback(p) ==
    /\ w[p].pc \notin {"idle", "begin"}
    /\ IF Deadlock(p) THEN fault' = fault ELSE fault > 0 /\ fault' = fault - 1
    /\ w' = [w EXCEPT ![p] = Failed(w[p])]
    /\ exposed' = (exposed \/ w[p].pc \in {"update", "undo"} \/ (w[p].pc = "incr" /\ ~Deadlock(p)))
    /\ UNCHANGED <<job, acls, stale, index, q, todo>>

---------------------------------------------------------------------------

Init ==
    \E s \in Scenarios :
        /\ job = s.job /\ index = s.index /\ fault = s.fault
        /\ todo = [ask |-> s.ask, change |-> s.change, env |-> s.env]
        /\ acls = [a \in {s.job[j].aclid : j \in Jobs} \ {NoAcl} |->
                        Cardinality({j \in Jobs : s.job[j].aclid = a})]
        /\ stale = <<>> /\ exposed = FALSE
        /\ q = [r \in Readers |-> NoQuery]
        /\ w = [p \in Changers |-> NoWork]

Next ==
    \/ \E r \in Readers : \/ Ask(r) \/ Page(r) \/ PageFails(r) \/ JobRow(r) \/ EventRow(r)
                          \/ AclRow(r) \/ End(r)
    \/ Environment
    \/ \E p \in Changers : \/ Take(p) \/ BeginUpdate(p) \/ Insert(p) \/ Incr(p) \/ UpdateJob(p)
                           \/ Decr(p) \/ Undo(p) \/ Commit(p) \/ Rollback(p)

Spec == Init /\ [][Next]_vars

\* A query that ends well returns items that matched and could be read at
\* some moment of it, no item twice unless rows came into the selection, and
\* every item that matched throughout unless rows left it between two pages;
\* "nothing found" and "too many" are true in the same sense.  A query for
\* events with conditions on states is left out once an event has gone by the
\* state of another job (edg_wll_QueryEventsServer keeps match_status_old and
\* sets j_old although the state was not computed).
QueryRight ==
    \A r \in Readers : q[r].pc = "done" /\ ~q[r].stray =>
        LET x == q[r]
            got == ToSet(x.out)
        IN  /\ got \subseteq x.ever
            /\ x.err = "ok" => /\ x.always \subseteq got \/ x.left
                               /\ Cardinality(got) = Len(x.out) \/ x.came
            /\ x.err \in {"ENOENT", "EIDRM"} /\ ~x.lost => x.always = {} \/ x.left
            /\ x.err = "E2BIG" => Cardinality(x.ever) > x.req.limit \/ x.came

\* The reference count of an ACL is the number of jobs that refer to it and
\* of those that were purged while they did (the purge deletes the row of the
\* job and leaves the count, srv_purge.c:814): it is never too low, no list
\* is deleted that a job refers to, and one that no job ever left behind goes
\* with its last job.  It holds over concurrent changes, deadlocks and
\* transactions done again, until the database fails in the update of the
\* job's row or a connection is lost in that of a count (edg_wll_UpdateACL
\* takes the first for a changed ACL, edg_wll_HandleCounterACL goes on after
\* the second).
AclCounted ==
    ~exposed =>
        /\ \A a \in DOMAIN acls : acls[a] = Uses(a) + Stale(a) /\ acls[a] > 0
        /\ \A j \in Jobs : job[j].here /\ job[j].aclid # NoAcl => job[j].aclid \in DOMAIN acls

=============================================================================
