---------------------------- MODULE BatchState ----------------------------
(***************************************************************************)
(* The state machines of the other job types (process_event_pbs.c,         *)
(* _condor.c, _cream.c, _virtual_machine.c, _file_transfer.c and           *)
(* _file_transfer_collection.c), the dispatch on the job type, the form in *)
(* which a state is kept in the database (intjobstat_supp.c), and the      *)
(* computation of a state from all the events of a job.                    *)
(***************************************************************************)
EXTENDS JobState

\* All six machines return RET_OK and keep a late event's data.  Only Torque
\* and Condor ever call an event late.
Ended(js, e) == [js EXCEPT !.last_seqcode = e.seqcode]

FromMom(e) == e.source \in {"PBS_SMOM", "PBS_MOM"}

\* Torque: the effect of an event that is not late.
PBSUsable(js, e) ==
    LET to(server, mom) == [js EXCEPT !.state = IF FromMom(e) THEN mom ELSE server]
    IN  CASE e.type = "REGJOB" -> [js EXCEPT !.state = "SUBMITTED"]
          [] e.type = "PBSACCEPTED" ->
                IF e.source = "PBS_SERVER" \/ FromMom(e)
                THEN to("SUBMITTED", "SCHEDULED") ELSE js
          [] e.type = "PBSQUEUED" -> [js EXCEPT !.state = "WAITING"]
          [] e.type = "PBSMATCH" -> [js EXCEPT !.state = "READY"]
          [] e.type = "PBSPENDING" -> [js EXCEPT !.state = "WAITING", !.pbs_reruning = FALSE]
          [] e.type = "PBSRUN" -> to("SCHEDULED", "RUNNING")
          [] e.type = "PBSRERUN" ->
                [js EXCEPT !.state = "WAITING", !.pbs_reruning = @ \/ FromMom(e)]
          [] e.type = "PBSDONE" /\ ~FromMom(e) ->
                [js EXCEPT !.state = "DONE", !.done_code = "OK"]
          [] e.type = "PBSERROR" -> [js EXCEPT !.state = "DONE", !.done_code = "FAILED"]
          [] OTHER -> js

\* Data that a late Torque event still carries over.
PBSData(js, e) ==
    CASE e.type = "PBSTRANSFER" /\ e.code = "OK" /\ FromMom([source |-> e.val]) ->
            [js EXCEPT !.ce_node = e.val]
      [] e.type = "USERTAG" /\ e.val # None ->
            [js EXCEPT !.user_tags = add_taglist(@, e.code, e.val, e.seqcode)]
      [] OTHER -> js

processEvent_PBS(js, e) ==
    LET order == IF js.last_seqcode = NoSeq THEN {0}
                 ELSE edg_wll_compare_pbs_seq(js.last_seqcode, e.seqcode)
    IN  {IF c > 0 THEN PBSData(js, e) ELSE Ended(PBSData(PBSUsable(js, e), e), e) : c \in order}

\* Condor: the log file an event comes from decides what a starter means.
get_condor_event_source(seqcode) == seqcode[4]

CondorUsable(js, e) ==
    LET from == get_condor_event_source(e.seqcode)
        to == [REGJOB |-> "SUBMITTED", CONDORMATCH |-> "READY", CONDORREJECT |-> "ABORTED",
               CONDORSHADOWSTARTED |-> "READY", CONDORSHADOWEXITED |-> "DONE",
               CONDORSTARTEREXITED |-> "DONE"]
    IN  CASE e.type \in DOMAIN to -> [js EXCEPT !.state = to[e.type]]
          [] e.type = "CONDORSTARTERSTARTED" /\ from = "S" -> [js EXCEPT !.state = "SCHEDULED"]
          [] e.type = "CONDORSTARTERSTARTED" /\ from = "s" -> [js EXCEPT !.state = "RUNNING"]
          [] OTHER -> js

processEvent_Condor(js, e) ==
    IF js.last_seqcode # NoSeq /\ edg_wll_compare_condor_seq(js.last_seqcode, e.seqcode) > 0
    THEN js ELSE Ended(CondorUsable(js, e), e)

\* CREAM without a broker: no event is late.
processEvent_Cream(js, e) ==
    LET moved ==
        CASE e.type = "REGJOB" -> [js EXCEPT !.state = "SUBMITTED", !.cream_state = "REGISTERED"]
          [] e.type = "CREAMSTORE" -> CreamStore(js, e, [res |-> "OK"]).js
          [] e.type = "CREAMCALL" ->
                IF e.code = "CMDPURGE"
                THEN [js EXCEPT !.state = "CLEARED", !.cream_state = "PURGED"]
                ELSE CreamCall(js, e, [res |-> "OK"]).js
          [] e.type = "CREAMCANCEL" /\ e.code = "DONE" ->
                [js EXCEPT !.state = "CANCELLED", !.cream_state = "ABORTED"]
          [] e.type = "CREAMABORT" -> [js EXCEPT !.state = "ABORTED", !.cream_state = "ABORTED"]
          [] e.type = "CREAMSTATUS" /\ e.code # None -> CreamState(js, e.code)
          [] OTHER -> js
    IN  processData_Cream(Ended(moved, e), e)

\* Virtual machines: no event is late, and none leaves its sequence code.
processEvent_VirtualMachine(js, e) ==
    LET done == [OK |-> "OK", DELETE |-> "CANCELLED", FAILURE |-> "FAILED"]
    IN  CASE e.type = "REGJOB" -> [js EXCEPT !.state = "SUBMITTED", !.vm_state = "PENDING"]
          [] e.type = "VMCREATE" /\ e.val # None -> [js EXCEPT !.destination = e.val]
          [] e.type = "VMRUNNING" ->
                [js EXCEPT !.state = "RUNNING",
                           !.vm_state = IF e.source = "VM_SYSTEM" THEN "REALLY_RUNNING"
                                        ELSE IF @ = "REALLY_RUNNING" THEN @ ELSE "RUNNING"]
          [] e.type = "VMSHUTDOWN" /\ e.source = "CLOUD_MANAGER" ->
                [js EXCEPT !.state = "WAITING", !.vm_state = "SHUTDOWN"]
          [] e.type = "VMSHUTDOWN" /\ e.source \in {"VM_MANAGER", "VM_SYSTEM"} ->
                [js EXCEPT !.vm_system_halting = TRUE,
                           !.vm_state = IF e.source = "VM_SYSTEM" /\ @ = "REALLY_RUNNING"
                                        THEN "RUNNING" ELSE @]
          [] e.type = "VMSTOP" -> [js EXCEPT !.state = "WAITING", !.vm_state = "STOPPED"]
          [] e.type = "VMRESUME" ->
                [js EXCEPT !.state = "WAITING", !.vm_state = "PENDING",
                           !.vm_system_halting = FALSE]
          [] e.type = "VMDONE" /\ e.code \in DOMAIN done ->
                [js EXCEPT !.state = "DONE", !.done_code = done[e.code],
                           !.vm_state = IF e.code = "FAILURE" THEN "FAILURE" ELSE "DONE"]
          [] OTHER -> js

processEvent_FileTransfer(js, e) ==
    Ended(CASE e.type = "REGJOB" -> [js EXCEPT !.state = "SUBMITTED"]
            [] e.type = "FILETRANSFER" /\ e.code = "START" -> [js EXCEPT !.state = "RUNNING"]
            [] e.type = "FILETRANSFER" /\ e.code = "OK" ->
                  [js EXCEPT !.state = "DONE", !.done_code = "OK"]
            [] e.type = "FILETRANSFER" /\ e.code = "FAIL" ->
                  [js EXCEPT !.state = "DONE", !.done_code = "FAILED"]
            [] e.type = "ABORT" -> [js EXCEPT !.state = "ABORTED", !.remove_from_proxy = TRUE]
            [] OTHER -> js, e)

processEvent_FileTransferCollection(js, e) ==
    Ended(CASE e.type = "REGJOB" -> [js EXCEPT !.state = "SUBMITTED"]
            [] e.type = "COLLECTIONSTATE" -> CollectionState(js, e, [res |-> "OK"]).js
            [] OTHER -> js, e)

---------------------------------------------------------------------------
\* Dispatch on the job type, which the registration sets.  Before it every
\* event is refused (RET_UNREG) and leaves nothing.  The value is a set,
\* because of the Torque comparison.
JobType(js, e) ==
    IF js.jobtype = None /\ e.type = "REGJOB"
    THEN IF e.code \in {"DAG", "PARTITIONABLE", "PARTITIONED"} THEN "DAG" ELSE e.code
    ELSE js.jobtype

processEvent(js, e) ==
    LET t == JobType(js, e)
        j == [js EXCEPT !.jobtype = t]
    IN  CASE t \in GliteTypes -> {processEvent_glite(j, e)}
          [] t = "PBS" -> processEvent_PBS(j, e)
          [] t = "CONDOR" -> {processEvent_Condor(j, e)}
          [] t = "CREAM" -> {processEvent_Cream(j, e)}
          [] t = "FILE_TRANSFER" -> {processEvent_FileTransfer(j, e)}
          [] t = "FILE_TRANSFER_COLLECTION" -> {processEvent_FileTransferCollection(j, e)}
          [] t = "VIRTUAL_MACHINE" -> {processEvent_VirtualMachine(j, e)}
          [] OTHER -> {js}

(***************************************************************************)
(* The state in the database: a list of fields, strings with their length, *)
(* lists up to a null string, branches up to the row 0.                    *)
(***************************************************************************)
\* A list of fields as written: the fields, then the mark of its end.
enc_strlist(list) == IF list = <<>> THEN <<-1>> ELSE <<1>> \o list \o <<None>>
dec_strlist(in) ==
    IF in[1] = -1 THEN <<>>
    ELSE LET n == CHOOSE i \in 2..Len(in) :
                     in[i] = None /\ \A k \in 2..(i - 1) : in[k] # None
         IN  SubSeq(in, 2, n - 1)

enc_branch_states(bs) == IF bs = <<>> THEN <<>> ELSE SubSeq(bs, 1, Rows(bs) + 1)

\* Encoding followed by decoding.  The flag of a virtual machine that is going
\* down is the one field of the state that is not written.
enc_dec_JobStat(js) ==
    [js EXCEPT !.possible_destinations = dec_strlist(enc_strlist(@)),
               !.possible_ce_nodes = dec_strlist(enc_strlist(@)),
               !.vm_system_halting = FALSE]

enc_dec_intJobStat(js) ==
    [enc_dec_JobStat(js) EXCEPT !.branch_states = enc_branch_states(@)]

---------------------------------------------------------------------------
\* The order of the events in an answer: qsort relies on the comparison alone,
\* leaves equal events in either order and all of them in any order when the
\* comparison is not one (Condor codes).
Sorted(S) ==
    LET fair == \A e, f \in S : compare_events_by_seq(e, f) = -compare_events_by_seq(f, e)
        mayEnd(T) == {e \in T : fair => \A f \in T : compare_events_by_seq(f, e) <= 0}
        order[T \in SUBSET S] ==
            IF T = {} THEN {<<>>}
            ELSE UNION {{Append(s, e) : s \in order[T \ {e}]} : e \in mayEnd(T)}
    IN  order[S]

\* Events one after the other, from the state start.
Folded(start, s) ==
    LET f[n \in 0..Len(s)] ==
            IF n = 0 THEN {start}
            ELSE UNION {processEvent(js, s[n]) : js \in f[n - 1]}
    IN  f[Len(s)]

Processed(start, S) == UNION {Folded(start, s) : s \in Sorted(S)}

Known(js) == [js EXCEPT !.state = IF @ = "UNDEF" THEN "UNKNOWN" ELSE @]

\* All the events, as edg_wll_intJobStatus processes them.
edg_wll_intJobStatus(S) == {Known(js) : js \in Processed(init_intJobStat, S)}
=============================================================================
