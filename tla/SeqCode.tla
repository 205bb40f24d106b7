------------------------------ MODULE SeqCode ------------------------------
(***************************************************************************)
(* Sequence codes: the vector of event counters every component of the     *)
(* grid middleware carries with a job, and the order the server puts the   *)
(* job's events in (org.glite.lb.state-machine/src/seqcode_aux.c).         *)
(*                                                                         *)
(* A code of a gLite job is a tuple of nine counters, one per source in    *)
(* the order of edg_wll_Source; a Torque code has five counters, a Condor  *)
(* code is <<timestamp, file position, event code, log file>>.  <<>> is    *)
(* the null pointer, and a tuple of any other length stands for a string   *)
(* that does not parse.                                                    *)
(***************************************************************************)
LOCAL INSTANCE Integers
LOCAL INSTANCE Sequences
LOCAL INSTANCE FiniteSets

NoSeq == <<>>
UserInterface == 1
NetworkServer == 2
WorkloadManager == 3
LogMonitor == 6
EDG_WLL_SEQ_FORMAT_NUMBER == 9
EDG_WLL_SEQ_PBS_FORMAT_NUMBER == 5

component_seqcode(a, index) ==
    IF Len(a) = EDG_WLL_SEQ_FORMAT_NUMBER THEN a[index] ELSE -1

\* Mutant: the code is taken over whole.
SetComponentNot(a, index, val) == a

set_component_seqcode(a, index, val) ==
    IF Len(a) = EDG_WLL_SEQ_FORMAT_NUMBER
    THEN [a EXCEPT ![index] = val] ELSE NoSeq

PARSABLE_SEQCODE(code) == code # NoSeq /\ component_seqcode(code, 1) >= 0

\* An event logged before the last deep resubmission of the job.
before_deep_resubmission(a, b) ==
    component_seqcode(a, WorkloadManager) < component_seqcode(b, WorkloadManager)

\* Two events of one shallow resubmission branch.
same_branch(a, b) ==
    component_seqcode(a, WorkloadManager) = component_seqcode(b, WorkloadManager)

\* The job has entered the workload manager again.
after_enter_wm(es, js) ==
    \E i \in {NetworkServer, UserInterface} :
        component_seqcode(es, i) > component_seqcode(js, i)

\* Position of the first difference of two codes of n counters, 0 if none.
FirstDiff(a, b, n) ==
    IF \E i \in 1..n : a[i] # b[i]
    THEN CHOOSE i \in 1..n : a[i] # b[i] /\ \A k \in 1..(i - 1) : a[k] = b[k]
    ELSE 0

Lexicographic(a, b, n) ==
    LET i == FirstDiff(a, b, n)
    IN  IF i = 0 THEN 0 ELSE IF a[i] < b[i] THEN -1 ELSE 1

\* Two Torque codes are compared as such (equal ones as 0 here: the sort they
\* are used for may leave them in either order anyway).  A Condor code does not
\* parse, so that it is before whatever it is compared with.
edg_wll_compare_seq(a, b) ==
    CASE Len(a) = EDG_WLL_SEQ_PBS_FORMAT_NUMBER
         /\ Len(b) = EDG_WLL_SEQ_PBS_FORMAT_NUMBER ->
            Lexicographic(a, b, EDG_WLL_SEQ_PBS_FORMAT_NUMBER)
      [] Len(a) # EDG_WLL_SEQ_FORMAT_NUMBER -> -1
      [] Len(b) # EDG_WLL_SEQ_FORMAT_NUMBER -> 1
      [] OTHER -> Lexicographic(a, b, EDG_WLL_SEQ_FORMAT_NUMBER)

\* The loop of the Torque comparison also reads the element after the five
\* counters it has scanned, which nothing has set: equal codes compare either
\* way.  The value is the set of the results the build can give.
edg_wll_compare_pbs_seq(a, b) ==
    IF Len(a) # EDG_WLL_SEQ_PBS_FORMAT_NUMBER
       \/ Len(b) # EDG_WLL_SEQ_PBS_FORMAT_NUMBER
    THEN {-1}
    ELSE LET c == Lexicographic(a, b, EDG_WLL_SEQ_PBS_FORMAT_NUMBER)
         IN  IF c = 0 THEN {-1, 0, 1} ELSE {c}

\* Condor: registration first, then by time; in one log file by position,
\* between log files those of the match maker and then of the starter last.
edg_wll_compare_condor_seq(a, b) ==
    CASE Len(a) # 4 \/ Len(b) # 4 -> -1
      [] a[3] = "REGJOB" -> -1
      [] b[3] = "REGJOB" -> 1
      [] a[1] # b[1] -> IF a[1] < b[1] THEN -1 ELSE 1
      [] a[4] = b[4] -> IF a[2] = b[2] THEN 0 ELSE IF a[2] < b[2] THEN -1 ELSE 1
      [] a[4] = "m" -> 1
      [] b[4] = "m" -> -1
      [] a[4] = "s" -> 1
      [] b[4] = "s" -> -1
      [] OTHER -> 0

\* Order of a job's events in an answer of the server.
compare_events_by_seq(e, f) ==
    LET c == edg_wll_compare_seq(e.seqcode, f.seqcode)
    IN  IF c # 0 THEN c
        ELSE IF e.timestamp = f.timestamp THEN 0
        ELSE IF e.timestamp < f.timestamp THEN -1 ELSE 1

\* Mutant: the value that arrives last wins.
AddTagLast(tags, tag, value, seqcode) ==
    [t \in DOMAIN tags \cup {tag} |->
        IF t = tag THEN [value |-> value, seq |-> seqcode] ELSE tags[t]]

\* User tags: a function from the tag to its value and the code that set it.
\* A value is replaced only by one with a strictly newer code.
add_taglist(tags, tag, value, seqcode) ==
    IF tag \in DOMAIN tags /\ edg_wll_compare_seq(seqcode, tags[tag].seq) # 1
    THEN tags
    ELSE [t \in DOMAIN tags \cup {tag} |->
             IF t = tag THEN [value |-> value, seq |-> seqcode] ELSE tags[t]]
=============================================================================
