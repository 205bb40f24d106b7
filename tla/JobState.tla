----------------------------- MODULE JobState -----------------------------
(***************************************************************************)
(* The job state machine of the gLite middleware                           *)
(* (org.glite.lb.state-machine/src/process_event.c): what one event does   *)
(* to the state of a job, when events arrive in any order.                 *)
(*                                                                         *)
(* A job state is a record with the fields of intJobStat the code branches *)
(* on or that the properties speak of; reasons, hosts, job identifiers and *)
(* times are left out.  An event is a record                               *)
(*   type, source, seqcode, timestamp                                      *)
(*   code   result, status code, reason code or command of the event       *)
(*   val    its payload: destination, node, JDL, tag value, state, subject, *)
(*          callee                                                         *)
(*   wn     ReallyRunning: the code of the job wrapper the log monitor     *)
(*          quotes (wn_seq)                                                *)
(* Handlers return [js, res, lm, ign]: the new state, the verdict, and the *)
(* local flags lm_favour_lrms and ignore_seq_code of processEvent_glite.   *)
(* strict is 0 in all callers, and RET_SOON is never produced: an event    *)
(* moves the state when its verdict is "OK" (USABLE), and leaves its data  *)
(* in the record whatever the verdict (USABLE_DATA).                       *)
(***************************************************************************)
EXTENDS Integers, Sequences, FiniteSets, SeqCode

None == "none"

CreamSources == {"CREAM_EXECUTOR", "CREAM_INTERFACE"}

\* RegJob types handled by the gLite machine, and those with one of their own.
GliteTypes == {"SIMPLE", "DAG", "COLLECTION"}
OwnTypes == {"PBS", "CONDOR", "CREAM", "FILE_TRANSFER", "FILE_TRANSFER_COLLECTION",
             "VIRTUAL_MACHINE"}

LRMS_STATE(state) == state \in {"RUNNING", "DONE"}

\* Mutant: a bad branch passes.
UsableBranchAny(fine) == fine # "TOOOLD"

USABLE_BRANCH(fine) == fine \notin {"TOOOLD", "BADBRANCH"}

\* A fresh state: all zero, except for the job type.
init_intJobStat ==
    [state |-> "UNDEF", jobtype |-> None, jw_status |-> "UNKNOWN",
     done_code |-> "OK", cancelling |-> FALSE, suspended |-> FALSE,
     payload_running |-> FALSE, resubmitted |-> FALSE,
     resubmit_type |-> None, remove_from_proxy |-> FALSE,
     destination |-> None, ce_node |-> None, matched_jdl |-> None,
     possible_destinations |-> <<>>, possible_ce_nodes |-> <<>>,
     branch_states |-> <<>>, user_tags |-> <<>>,
     payload_owner |-> None, payload_owner_pending |-> None,
     payload_owner_unconfirmed |-> None,
     cream_state |-> "NONE", vm_state |-> "NONE", vm_system_halting |-> FALSE,
     pbs_reruning |-> FALSE, sandbox_retrieved |-> None,
     last_seqcode |-> NoSeq, last_cancel_seqcode |-> NoSeq,
     branch_tag_seqcode |-> NoSeq, last_branch_seqcode |-> NoSeq,
     deep_resubmit_seqcode |-> NoSeq]

---------------------------------------------------------------------------
(***************************************************************************)
(* Shallow resubmission branches: rows [branch, dest, ce, jdl], one for    *)
(* each workload manager counter met, ended by a row with branch 0.        *)
(***************************************************************************)
EndRow == [branch |-> 0, dest |-> None, ce |-> None, jdl |-> None]

\* Number of the rows before the end row; 0 for a null pointer too.
Rows(bs) ==
    IF bs = <<>> THEN 0
    ELSE (CHOOSE i \in 1..Len(bs) :
             bs[i].branch = 0 /\ \A k \in 1..(i - 1) : bs[k].branch # 0) - 1

Rep(old, new) == IF new = None THEN old ELSE new

update_branch_state(bs, seqcode, d, c, j) ==
    LET branch == component_seqcode(seqcode, WorkloadManager)
        n == Rows(bs)
        hit == {i \in 1..n : bs[i].branch = branch}
        new == [branch |-> branch, dest |-> d, ce |-> c, jdl |-> j]
    IN  IF hit # {}
        THEN [i \in DOMAIN bs |->
                 IF i \in hit THEN [bs[i] EXCEPT !.dest = Rep(@, d), !.ce = Rep(@, c),
                                                 !.jdl = Rep(@, j)]
                 ELSE bs[i]]
        ELSE SubSeq(bs, 1, n) \o (IF branch = 0 THEN <<new>> ELSE <<new, EndRow>>)

\* compare_branch_states and the call of qsort: the branches are distinct.
SortBranches(bs) ==
    LET n == Rows(bs)
        Below(i) == Cardinality({k \in 1..n : bs[k].branch < bs[i].branch})
    IN  [p \in DOMAIN bs |->
            IF p > n THEN bs[p] ELSE bs[CHOOSE i \in 1..n : Below(i) = p - 1]]

\* The branch ReallyRunning has selected and the two before it fill in what
\* the state reports, the newest last.  The end row stands in for a branch
\* that is not there.
load_branch_state(js) ==
    IF js.branch_tag_seqcode = NoSeq \/ js.branch_states = <<>> THEN js
    ELSE LET bs == SortBranches(js.branch_states)
             branch == component_seqcode(js.branch_tag_seqcode, WorkloadManager)
             n == Rows(bs)
             hit == {k \in 1..n : bs[k].branch = branch}
             i == IF hit = {} THEN n + 1 ELSE CHOOSE k \in hit : TRUE
             Newest(f, old) ==
                LET set == {k \in (i - 2)..i : k >= 1 /\ bs[k][f] # None}
                IN  IF set = {} THEN old
                    ELSE bs[CHOOSE k \in set : \A l \in set : l <= k][f]
         IN  [js EXCEPT !.branch_states = bs,
                        !.destination = Newest("dest", @),
                        !.ce_node = Newest("ce", @),
                        !.matched_jdl = Newest("jdl", @)]

\* Deep resubmission or abort: the branches are forgotten.
reset_branch(js, e) ==
    [js EXCEPT !.resubmit_type = "WILLRESUB", !.possible_destinations = <<>>,
               !.possible_ce_nodes = <<>>, !.branch_states = <<>>,
               !.payload_running = FALSE, !.branch_tag_seqcode = NoSeq,
               !.deep_resubmit_seqcode = e.seqcode]

add_stringlist(list, item) == Append(list, item)

---------------------------------------------------------------------------
Ret(js, res) == [js |-> js, res |-> res, lm |-> FALSE, ign |-> FALSE]
BadEvent(js) == Ret(js, "SUSPECT")
Move(js, res, state) == IF res = "OK" THEN [js EXCEPT !.state = state] ELSE js

\* A new entry into the workload manager ends the resubmission loops.
ForgetBranches(js, e) ==
    IF /\ e.type # "CANCEL" /\ js.last_seqcode # NoSeq
       /\ after_enter_wm(e.seqcode, js.last_seqcode)
    THEN [js EXCEPT !.branch_tag_seqcode = NoSeq, !.deep_resubmit_seqcode = NoSeq,
                    !.last_branch_seqcode = NoSeq]
    ELSE js

\* Mutant: an event of an attempt before the deep resubmission is not late.
VerdictForgetsDeep(js, e) ==
    LET terminal == \/ js.state = "ABORTED" /\ e.type # "COLLECTIONSTATE"
                    \/ js.state \in {"CANCELLED", "CLEARED"}
        V(late, fine) == [res |-> IF late \/ terminal THEN "LATE" ELSE "OK",
                          fine |-> fine]
    IN  CASE /\ js.deep_resubmit_seqcode # NoSeq
             /\ before_deep_resubmission(e.seqcode, js.deep_resubmit_seqcode) ->
                V(FALSE, "TOOOLD")
          [] js.branch_tag_seqcode # NoSeq ->
                IF same_branch(e.seqcode, js.branch_tag_seqcode)
                THEN V(/\ js.last_branch_seqcode # NoSeq
                       /\ edg_wll_compare_seq(e.seqcode, js.last_branch_seqcode) < 0,
                       "GOODBRANCH")
                ELSE V(TRUE, "BADBRANCH")
          [] OTHER ->
                V(/\ js.last_seqcode # NoSeq
                  /\ edg_wll_compare_seq(e.seqcode, js.last_seqcode) < 0, "OK")

\* Verdict on the event (res) and the finer one about its branch (fine).
Verdict(js, e) ==
    LET terminal == \/ js.state = "ABORTED" /\ e.type # "COLLECTIONSTATE"
                    \/ js.state \in {"CANCELLED", "CLEARED"}
        V(late, fine) == [res |-> IF late \/ terminal THEN "LATE" ELSE "OK",
                          fine |-> fine]
    IN  CASE /\ js.deep_resubmit_seqcode # NoSeq
             /\ before_deep_resubmission(e.seqcode, js.deep_resubmit_seqcode) ->
                V(TRUE, "TOOOLD")
          [] js.branch_tag_seqcode # NoSeq ->
                IF same_branch(e.seqcode, js.branch_tag_seqcode)
                THEN V(/\ js.last_branch_seqcode # NoSeq
                       /\ edg_wll_compare_seq(e.seqcode, js.last_branch_seqcode) < 0,
                       "GOODBRANCH")
                ELSE V(TRUE, "BADBRANCH")
          [] OTHER ->
                V(/\ js.last_seqcode # NoSeq
                  /\ edg_wll_compare_seq(e.seqcode, js.last_seqcode) < 0, "OK")

---------------------------------------------------------------------------
(* The handlers, in the order of the switch; v is the verdict.             *)

Transfer(js, e, v) ==
    LET to == IF e.code = "OK"
              THEN [UI |-> "WAITING", JSS |-> "READY", LM |-> "SCHEDULED"]
              ELSE [UI |-> "SUBMITTED", JSS |-> "READY", LM |-> "READY"]
        overtaken == /\ LRMS_STATE(js.state)
                     /\ e.source = "LM" \/ (e.source = "JSS" /\ e.code = "FAIL")
        res == IF overtaken THEN "LATE" ELSE v.res
    IN  CASE e.source \notin DOMAIN to -> BadEvent(js)
          [] e.code = "START" -> Ret(js, "IGNORE")
          [] OTHER -> [Ret(Move(js, res, to[e.source]), res)
                          EXCEPT !.lm = e.source = "LM" /\ e.code = "OK"]

Accepted(js, e, v) ==
    LET to == [NS |-> "WAITING", LM |-> "READY", LRMS |-> "SCHEDULED"]
        res == IF e.source = "LM" /\ LRMS_STATE(js.state) THEN "LATE" ELSE v.res
    IN  IF e.source \notin DOMAIN to THEN BadEvent(js)
        ELSE [Ret(Move(js, res, to[e.source]), res) EXCEPT !.lm = e.source = "LM"]

Refused(js, e, v) ==
    LET to == [NS |-> "SUBMITTED", LM |-> "READY", LRMS |-> "READY"]
    IN  IF e.source \notin DOMAIN to THEN BadEvent(js)
        ELSE Ret(Move(js, v.res, to[e.source]), v.res)

\* The JDL of the workload manager goes to its branch first, then to the state
\* whatever the branch: the guard there tests the verdict, never the branch.
EnQueued(js, e, v) ==
    LET to == IF e.code = "OK"
              THEN [NS |-> "WAITING", WM |-> "READY", LM |-> "WAITING"]
              ELSE [NS |-> "WAITING", WM |-> "WAITING", LM |-> js.state]
        ok == e.code = "OK"
        res == IF ok /\ e.source = "WM" /\ LRMS_STATE(js.state) THEN "LATE" ELSE v.res
        bs == IF ok /\ e.source = "WM"
              THEN update_branch_state(js.branch_states, e.seqcode, None, None, e.val)
              ELSE js.branch_states
        moved == [Move(js, res, to[e.source]) EXCEPT
                     !.branch_states = bs,
                     !.resubmitted = @ \/ (res = "OK" /\ ok /\ e.source = "LM"),
                     !.matched_jdl = IF e.source = "WM" THEN e.val ELSE @]
    IN  CASE e.source \notin DOMAIN to -> BadEvent(js)
          [] e.code = "START" ->
                Ret([js EXCEPT !.matched_jdl = IF e.source = "WM" THEN e.val ELSE @],
                    "IGNORE")
          [] OTHER -> Ret(moved, res)

DeQueued(js, e, v) ==
    LET to == [WM |-> "WAITING", JSS |-> "READY"]
        res == IF e.source = "JSS" /\ LRMS_STATE(js.state) THEN "LATE" ELSE v.res
    IN  IF e.source \notin DOMAIN to THEN BadEvent(js)
        ELSE Ret(Move(js, res, to[e.source]), res)

\* HelperCall, HelperReturn and Pending.
Waiting(js, v) == Ret(Move(js, v.res, "WAITING"), v.res)

Running(js, e, v) ==
    LET moved == IF v.res = "OK"
                 THEN [js EXCEPT !.state = "RUNNING", !.jw_status = "WRAPPER_RUNNING"]
                 ELSE js
        node == IF USABLE_BRANCH(v.fine) THEN [moved EXCEPT !.ce_node = e.val] ELSE moved
    IN  Ret(IF e.val = None THEN node
            ELSE [node EXCEPT
                     !.branch_states = update_branch_state(@, e.seqcode, None, e.val, None),
                     !.possible_ce_nodes = add_stringlist(@, e.val)], v.res)

\* The payload is running: its branch is selected, unless it was resubmitted
\* deeply since.  The log monitor reports it with the code of the wrapper.
ReallyRunning(js, e, v) ==
    LET lrms == e.source = "LRMS"
        lm == e.source = "LM"
        ok == v.res = "OK"
        tagged == CASE lrms -> [js EXCEPT !.branch_tag_seqcode = e.seqcode]
                    [] lm /\ js.branch_tag_seqcode = NoSeq ->
                          [js EXCEPT !.branch_tag_seqcode = e.wn]
                    [] OTHER -> js
        begun == IF ok /\ (lrms \/ (lm /\ tagged.last_branch_seqcode = NoSeq))
                 THEN [tagged EXCEPT !.state = "RUNNING",
                          !.last_branch_seqcode = IF lrms THEN e.seqcode ELSE e.wn]
                 ELSE tagged
        guess == IF /\ v.res = "LATE" /\ begun.last_branch_seqcode = NoSeq
                    /\ same_branch(js.last_seqcode, begun.branch_tag_seqcode)
                 THEN [begun EXCEPT !.last_branch_seqcode = js.last_seqcode]
                 ELSE begun
        loaded == load_branch_state([guess EXCEPT !.jw_status = "PAYLOAD_RUNNING",
                                                  !.payload_running = TRUE])
        unparsable == lm /\ ~PARSABLE_SEQCODE(e.wn)
    IN  CASE v.fine = "BADBRANCH" \/ (v.res = "LATE" /\ v.fine = "TOOOLD") ->
                Ret(js, v.res)
          [] unparsable /\ js.branch_tag_seqcode = NoSeq -> BadEvent(js)
          [] unparsable /\ js.last_branch_seqcode = NoSeq -> BadEvent(js)
          [] OTHER -> Ret(loaded, v.res)

\* Suspend and Resume.
Suspension(js, e, v) ==
    Ret(IF v.res = "OK" /\ js.state = "RUNNING"
        THEN [js EXCEPT !.suspended = e.type = "SUSPEND"] ELSE js, v.res)

Resubmission(js, e, v) ==
    Ret(CASE e.code \in {"WONTRESUB", "SHALLOW"} -> [js EXCEPT !.resubmit_type = e.code]
          [] e.code = "WILLRESUB" /\ e.source = "WM" -> reset_branch(js, e)
          [] OTHER -> js, v.res)

\* Done of the job wrapper alone does not end the job.  The return code is
\* taken from late events too.
Done(js, e, v) ==
    LET ok == v.res = "OK"
        ended == IF ~ok THEN js
                 ELSE [js EXCEPT !.state = IF e.code = "CANCELLED" THEN "CANCELLED" ELSE "DONE",
                                 !.jw_status = "DONE",
                                 !.payload_running = @ /\ v.fine # "GOODBRANCH"]
    IN  IF e.source = "LRMS"
        THEN Ret(IF ok THEN [js EXCEPT !.jw_status = "DONE", !.payload_running = FALSE]
                 ELSE js, v.res)
        ELSE IF e.code \in {"OK", "CANCELLED", "FAILED"}
             THEN Ret([ended EXCEPT !.done_code = e.code], v.res)
             ELSE BadEvent(ended)

\* Cancellation has its own order: only a newer cancel event makes it late.
Cancel(js, e, v) ==
    LET late == \/ v.fine = "BADBRANCH"
                \/ /\ js.last_cancel_seqcode # NoSeq
                   /\ edg_wll_compare_seq(e.seqcode, js.last_cancel_seqcode) < 0
        res == IF late THEN "LATE" ELSE v.res
    IN  Ret(CASE res # "OK" -> js
              [] e.code = "REQ" -> [js EXCEPT !.cancelling = TRUE]
              [] e.code = "DONE" -> [js EXCEPT !.state = "CANCELLED", !.cancelling = FALSE,
                                               !.remove_from_proxy = TRUE,
                                               !.last_seqcode = e.seqcode]
              [] e.code = "ABORT" -> [js EXCEPT !.cancelling = FALSE]
              [] OTHER -> js, res)

\* The workload manager's Abort is accepted in every state and every order.
Abort(js, e, v) ==
    LET res == IF e.source = "WM" THEN "OK" ELSE v.res
    IN  Ret(IF res = "OK"
            THEN reset_branch([js EXCEPT !.state = "ABORTED", !.remove_from_proxy = TRUE], e)
            ELSE js, res)

Clear(js, e, v) ==
    LET moved == IF v.res = "OK"
                 THEN [js EXCEPT !.state = "CLEARED", !.remove_from_proxy = TRUE] ELSE js
    IN  IF e.code \in {"USER", "TIMEOUT", "NOOUTPUT"}
        THEN Ret([moved EXCEPT !.sandbox_retrieved = e.code], v.res)
        ELSE BadEvent(moved)

Match(js, e, v) ==
    LET moved == Move(js, v.res, "WAITING")
        dest == IF USABLE_BRANCH(v.fine) THEN [moved EXCEPT !.destination = e.val] ELSE moved
    IN  Ret(IF e.val = None THEN dest
            ELSE [dest EXCEPT
                     !.branch_states = update_branch_state(@, e.seqcode, e.val, None, None),
                     !.possible_destinations = add_stringlist(@, e.val)], v.res)

RegJob(js, e, v) ==
    LET type == IF e.code \in {"DAG", "PARTITIONED"} THEN "DAG"
                ELSE IF e.code \in {"COLLECTION", "FILE_TRANSFER_COLLECTION"} THEN e.code
                ELSE js.jobtype
    IN  Ret([Move(js, v.res, "SUBMITTED") EXCEPT !.jobtype = type], v.res)

UserTag(js, e, v) ==
    IF e.val = None THEN BadEvent(js)
    ELSE Ret([js EXCEPT !.user_tags = add_taglist(@, e.code, e.val, e.seqcode)], v.res)

CollectionState(js, e, v) ==
    LET moved == Move(js, v.res, e.val)
    IN  Ret(IF v.res = "OK" /\ e.val = "DONE" THEN [moved EXCEPT !.done_code = e.code]
            ELSE moved, v.res)

\* The owner of the payload: granted by one party, taken by the other.
GrantPayloadOwnership(js, e, v) ==
    [Ret(IF js.payload_owner_pending # None
         THEN [js EXCEPT !.payload_owner =
                   IF e.val = js.payload_owner_pending THEN e.val ELSE @,
                   !.payload_owner_pending = None]
         ELSE [js EXCEPT !.payload_owner_unconfirmed = e.val], v.res) EXCEPT !.ign = TRUE]

TakePayloadOwnership(js, e, v) ==
    [Ret(IF js.payload_owner_unconfirmed # None /\ e.val = js.payload_owner_unconfirmed
         THEN [js EXCEPT !.payload_owner = e.val, !.payload_owner_unconfirmed = None]
         ELSE [js EXCEPT !.payload_owner_pending = e.val], v.res) EXCEPT !.ign = TRUE]

\* The code is the command when the result is OK, None otherwise (CREAMCall and
\* CREAMStatus too).
CreamStore(js, e, v) ==
    Ret(CASE v.res # "OK" -> js
          [] e.code = "CMDSTART" -> [js EXCEPT !.state = "WAITING", !.cream_state = "PENDING"]
          [] e.code = "CMDSUSPEND" -> [js EXCEPT !.suspended = TRUE]
          [] e.code = "CMDRESUME" -> [js EXCEPT !.suspended = FALSE]
          [] OTHER -> js, v.res)

CreamCall(js, e, v) ==
    Ret(CASE v.res # "OK" -> js
          [] e.source = "CREAM_EXECUTOR" /\ e.val = "LRMS" /\ e.code = "CMDSTART" ->
                [js EXCEPT !.state = "SCHEDULED", !.cream_state = "IDLE"]
          [] e.code = "CMDCANCEL" -> [js EXCEPT !.cancelling = TRUE]
          [] OTHER -> js, v.res)

\* State and wrapper status a CREAM state stands for.
CreamState(js, cs) ==
    LET to == [PENDING |-> "WAITING", IDLE |-> "SCHEDULED", RUNNING |-> "RUNNING",
               REALLY_RUNNING |-> "RUNNING", DONE_OK |-> "DONE", DONE_FAILED |-> "DONE",
               ABORTED |-> "ABORTED", CANCELLED |-> "CANCELLED", PURGED |-> "CLEARED"]
        s == [js EXCEPT !.cream_state = cs,
                 !.state = IF cs \in DOMAIN to THEN to[cs] ELSE @]
    IN  CASE cs = "RUNNING" -> [s EXCEPT !.jw_status = "WRAPPER_RUNNING"]
          [] cs = "REALLY_RUNNING" -> [s EXCEPT !.jw_status = "PAYLOAD_RUNNING"]
          [] cs = "DONE_OK" -> [s EXCEPT !.done_code = "OK"]
          [] cs = "DONE_FAILED" -> [s EXCEPT !.done_code = "FAILED"]
          [] OTHER -> s

\* What CREAM events say of the data of the job, whatever their order.
processData_Cream(js, e) ==
    CASE e.type = "REGJOB" /\ e.val # None -> [js EXCEPT !.destination = e.val]
      [] e.type = "CREAMSTATUS" /\ e.code # None /\ e.val # None -> [js EXCEPT !.ce_node = e.val]
      [] e.type = "USERTAG" /\ e.val # None ->
            [js EXCEPT !.user_tags = add_taglist(@, e.code, e.val, e.seqcode)]
      [] OTHER -> js

Ignored == {"PURGE", "LISTENER", "CURDESCR", "CHKPT", "RESOURCEUSAGE", "SANDBOX",
            "CREAMSTART", "CREAMPURGE", "CREAMACCEPTED"}

Handle(js, e, v) ==
    CASE e.type = "TRANSFER" -> Transfer(js, e, v)
      [] e.type = "ACCEPTED" -> Accepted(js, e, v)
      [] e.type = "REFUSED" -> Refused(js, e, v)
      [] e.type = "ENQUEUED" -> EnQueued(js, e, v)
      [] e.type = "DEQUEUED" -> DeQueued(js, e, v)
      [] e.type \in {"HELPERCALL", "HELPERRETURN", "PENDING"} -> Waiting(js, v)
      [] e.type = "RUNNING" -> Running(js, e, v)
      [] e.type = "REALLYRUNNING" -> ReallyRunning(js, e, v)
      [] e.type \in {"SUSPEND", "RESUME"} -> Suspension(js, e, v)
      [] e.type = "RESUBMISSION" -> Resubmission(js, e, v)
      [] e.type = "DONE" -> Done(js, e, v)
      [] e.type = "CANCEL" -> Cancel(js, e, v)
      [] e.type = "ABORT" -> Abort(js, e, v)
      [] e.type = "CLEAR" -> Clear(js, e, v)
      [] e.type = "MATCH" -> Match(js, e, v)
      [] e.type = "REGJOB" -> RegJob(js, e, v)
      [] e.type = "USERTAG" -> UserTag(js, e, v)
      [] e.type = "CHANGEACL" -> [Ret(js, v.res) EXCEPT !.ign = TRUE]
      [] e.type = "COLLECTIONSTATE" -> CollectionState(js, e, v)
      [] e.type = "GRANTPAYLOADOWNERSHIP" -> GrantPayloadOwnership(js, e, v)
      [] e.type = "TAKEPAYLOADOWNERSHIP" -> TakePayloadOwnership(js, e, v)
      [] e.type = "CREAMSTORE" -> CreamStore(js, e, v)
      [] e.type = "CREAMCALL" -> CreamCall(js, e, v)
      [] e.type = "CREAMCANCEL" ->
            Ret(IF v.res = "OK" /\ e.code = "DONE"
                THEN [js EXCEPT !.state = "CANCELLED", !.cream_state = "ABORTED"] ELSE js, v.res)
      [] e.type = "CREAMABORT" ->
            Ret(IF v.res = "OK"
                THEN [js EXCEPT !.state = "ABORTED", !.cream_state = "ABORTED"] ELSE js, v.res)
      [] e.type = "CREAMSTATUS" ->
            Ret(IF v.res = "OK" /\ e.code # None THEN CreamState(js, e.code) ELSE js, v.res)
      [] e.type \in Ignored -> Ret(js, v.res)
      [] OTHER -> BadEvent(js)

\* What every event that moved the state leaves behind.
Conclude(old, o, e, v) ==
    LET js == o.js
        back == js.state # old /\ js.state \in {"WAITING", "READY", "SCHEDULED"}
    IN  IF o.res # "OK" THEN js
        ELSE [js EXCEPT
                 !.jw_status = IF back THEN "UNKNOWN" ELSE @,
                 !.last_cancel_seqcode = IF e.type = "CANCEL" THEN e.seqcode ELSE @,
                 !.last_seqcode =
                     CASE e.type = "CANCEL" \/ o.ign -> @
                       [] o.lm -> set_component_seqcode(e.seqcode, LogMonitor, 0)
                       [] OTHER -> e.seqcode,
                 !.suspended = @ /\ js.state = "RUNNING",
                 !.last_branch_seqcode = IF v.fine = "GOODBRANCH" THEN e.seqcode ELSE @]

processEvent_glite(js, e) ==
    LET js0 == ForgetBranches(js, e)
        v == Verdict(js0, e)
        js1 == IF e.source \in CreamSources THEN processData_Cream(js0, e) ELSE js0
        o == Handle(js1, e, v)
    IN  Conclude(js.state, o, e, v)
=============================================================================
