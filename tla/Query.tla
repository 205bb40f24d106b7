------------------------------- MODULE Query -------------------------------
(***************************************************************************)
(* The conditions of queries (query.c): which of them the database         *)
(* evaluates, which are left to a filter over the computed states and the  *)
(* stored events, and what each of the two makes of a condition.           *)
(*                                                                         *)
(* Conditions are a sequence (and) of sequences (or) of [attr, id, op,     *)
(* value, value2], where id is the state of a TIME and the name of a       *)
(* USERTAG or JDL_ATTR.  Strings, dates, codes and job identifiers are     *)
(* numbers with their order; 0 is an attribute that is not set.  The state *)
(* of a job is [job, owner, payload_owner, attrs], with attrs a function   *)
(* of <<attr, id>>; an event is a function of its attributes.              *)
(***************************************************************************)
EXTENDS Authz

Codes == {"STATUS", "DONECODE", "EXITCODE"}
Times == {"TIME", "STATEENTERTIME", "LASTUPDATETIME"}
Names == {"DESTINATION", "NETWORK_SERVER", "JOBID", "PARENT"}
Kinds == {"JOB_TYPE", "VM_STATUS"}
JobAttrs == Codes \cup Times \cup Names \cup Kinds
            \cup {"OWNER", "LOCATION", "RESUBMITTED", "USERTAG", "JDL_ATTR"}
EventAttrs == {"HOST", "SOURCE", "USERTAG", "JDL_ATTR", "SRC_INSTANCE", "EVENT_TYPE", "LEVEL"}
              \cup Times \cup Kinds

NoStat == [job |-> 0]
EVENT_USERTAG == 21
EVENT_LISTENER == 19

AllConds(conds) == UNION {ToSet(conds[i]) : i \in DOMAIN conds}

---------------------------------------------------------------------------
(* What the conditions must look like.                                     *)

OnlyEqual == {"EQUAL", "UNEQUAL"}
JobOps(attr) ==
    IF attr \in Codes \cup Times \cup {"USERTAG"}
    THEN {"EQUAL", "UNEQUAL", "LESS", "GREATER", "WITHIN", "CHANGED"}
    ELSE IF attr = "JOBID" THEN OnlyEqual \cup {"GREATER"} ELSE OnlyEqual

same_attributes(or) ==
    \A k \in DOMAIN or : /\ or[k].attr = or[1].attr
                         /\ or[k].attr = "USERTAG" => or[k].id = or[1].id

jc_correct(jc) ==
    /\ AllConds(jc) # {}
    /\ \A i \in DOMAIN jc : same_attributes(jc[i])
    /\ \A c \in AllConds(jc) : /\ c.attr \in JobAttrs /\ c.op \in JobOps(c.attr)
                               /\ c.attr = "TIME" => c.id # 0

ec_correct(ec) ==
    /\ AllConds(ec) # {}
    /\ \A c \in AllConds(ec) :
        /\ c.attr \in EventAttrs
        /\ c.attr \in {"EVENT_TYPE", "LEVEL"} \cup Times \/ c.op \in OnlyEqual

\* Columns of an index that a query without a jobid or a parent has to use:
\* all of one index, each by the first condition of an or-list.
Column(c) == <<c.attr, c.id>>
check_job_query_index(jc, index) ==
    \/ \E c \in AllConds(jc) : c.attr \in {"JOBID", "PARENT"}
    \/ \E ix \in index : ix # {} /\ \A col \in ix : \E i \in DOMAIN jc :
                            jc[i] # <<>> /\ Column(jc[i][1]) = col

check_event_query_index(jc, ec, index) ==
    check_job_query_index(jc, index) \/ \E c \in AllConds(ec) : c.attr = "TIME"

is_indexed(c, index) == Column(c) \in UNION index

\* A server that knows its name answers about its own jobs only.
check_strict_jobid(j, foreign, isProxy) == isProxy \/ j \notin foreign
check_strict_jobid_cond(conds, foreign, isProxy) ==
    \A c \in AllConds(conds) : c.attr = "JOBID" => check_strict_jobid(c.value, foreign, isProxy)

jobid_only_query(conds) ==
    \A i \in DOMAIN conds : \E k \in DOMAIN conds[i] : conds[i][k].attr = "JOBID"

SingleOf(conds, attr) ==
    Len(conds) = 1 /\ Len(conds[1]) = 1 /\ conds[1][1].attr = attr

---------------------------------------------------------------------------
(* What the database makes of them.                                        *)

Compare(v, c) ==
    CASE c.op = "EQUAL" -> v = c.value
      [] c.op = "UNEQUAL" -> v # c.value
      [] c.op = "LESS" -> v < c.value
      [] c.op = "GREATER" -> v > c.value
      [] c.op = "WITHIN" -> v >= c.value /\ v <= c.value2
      [] OTHER -> FALSE

\* opToString gives ">" for what is none of the others.
SqlOp(c) == IF c.op = "CHANGED" THEN [c EXCEPT !.op = "GREATER"] ELSE c

\* An owner that is not given stands for the peer.
SameOwner(owner, c, p) ==
    LET of == IF c.value = NoSubject THEN p.name ELSE c.value
    IN  edg_wll_gss_equal_subj(of, owner) <=> c.op = "EQUAL"

\* A column that is NULL compares with nothing.
jc_sql_cond(st, c, p) ==
    CASE c.attr = "JOBID" -> Compare(st.job, c)
      [] c.attr = "OWNER" -> st.owner # NoSubject /\ SameOwner(st.owner, c, p)
      [] OTHER -> st.attrs[Column(c)] # 0 /\ Compare(st.attrs[Column(c)], SqlOp(c))

\* A condition that goes to the database; the others set FL_FILTER.
InSql(c, index) == c.attr \in {"JOBID", "PARENT"} \/ is_indexed(c, index)
FL_FILTER(jc, index) == \E c \in AllConds(jc) : ~InSql(c, index)

\* An or-list without a condition that the database can evaluate is left out.
jc_to_head_where(st, jc, index, p) ==
    \A i \in DOMAIN jc :
        LET sql == {k \in DOMAIN jc[i] : InSql(jc[i][k], index)}
        IN  sql # {} => \E k \in sql : jc_sql_cond(st, jc[i][k], p)

\* Without a name of the peer there is no default owner to look for.
owner_unknown(jc, index, p) ==
    p.name = NoSubject /\ \E c \in AllConds(jc) :
        c.attr = "OWNER" /\ c.value = NoSubject /\ is_indexed(c, index)

\* All conditions on events vanish with a condition that the conversion does
\* not know; an or-list with an INSTANCE is left to the filter; of a USERTAG
\* only the type of the event is looked at.
ec_to_head_where(e, ec) ==
    \/ \E c \in AllConds(ec) : c.attr \in {"JDL_ATTR"} \cup Kinds
    \/ \A i \in DOMAIN ec :
        \/ \E k \in DOMAIN ec[i] : ec[i][k].attr = "SRC_INSTANCE"
        \/ \E k \in DOMAIN ec[i] :
            CASE ec[i][k].attr = "USERTAG" -> e.EVENT_TYPE = EVENT_USERTAG
              [] ec[i][k].attr \in Times -> Compare(e.TIME, SqlOp(ec[i][k]))
              [] OTHER -> Compare(e[ec[i][k].attr], SqlOp(ec[i][k]))

---------------------------------------------------------------------------
(* What the filters make of them.                                          *)

match_owner(st, c, p) ==
    /\ st.owner # NoSubject /\ c.op \in OnlyEqual
    /\ c.value # NoSubject \/ p.name # NoSubject
    /\ SameOwner(st.owner, c, p)

\* An older or a newer location is looked for the other way round.
Flip(c) == CASE c.op = "LESS" -> [c EXCEPT !.op = "GREATER"]
             [] c.op = "GREATER" -> [c EXCEPT !.op = "LESS"]
             [] OTHER -> c

Changed(old, st, c) == c.op = "CHANGED" /\ old.attrs[Column(c)] # st.attrs[Column(c)]

match_state_time(old, st, c) ==
    st.attrs[Column(c)] # 0 /\ (Compare(st.attrs[Column(c)], c) \/ Changed(old, st, c))
match_time(old, st, c) ==
    st.attrs[Column(c)] # 0 /\ (Compare(st.attrs[Column(c)], c) \/ Changed(old, st, c))
match_code(old, st, c) == Compare(st.attrs[Column(c)], c) \/ Changed(old, st, c)
match_location(old, st, c) ==
    st.attrs[Column(c)] # 0 /\ (Compare(st.attrs[Column(c)], Flip(c)) \/ Changed(old, st, c))
match_resubmitted(old, st, c) ==
    (c.op \in OnlyEqual /\ Compare(st.attrs[Column(c)], c)) \/ Changed(old, st, c)
match_name(st, c) ==
    c.op \in OnlyEqual /\ st.attrs[Column(c)] # 0 /\ Compare(st.attrs[Column(c)], c)
match_jobid(st, c) == c.op \in OnlyEqual /\ Compare(st.job, c)
match_tag(st, c) == c.op \in OnlyEqual /\ Compare(st.attrs[Column(c)], c)
\* The whole job description is compared when no attribute of it is named.
match_jdl(old, st, c) ==
    IF c.id = 0 THEN Changed(old, st, c)
    ELSE c.op \in OnlyEqual /\ st.attrs[Column(c)] # 0 /\ Compare(st.attrs[Column(c)], c)
match_kind(st, c) == c.op \in OnlyEqual /\ Compare(st.attrs[Column(c)], c)

match_cond(old, st, c, p) ==
    /\ c.op = "CHANGED" => old # NoStat
    /\ CASE c.attr \in Codes -> match_code(old, st, c)
         [] c.attr = "TIME" -> match_state_time(old, st, c)
         [] c.attr \in Times -> match_time(old, st, c)
         [] c.attr = "RESUBMITTED" -> match_resubmitted(old, st, c)
         [] c.attr = "OWNER" -> match_owner(st, c, p)
         [] c.attr = "LOCATION" -> match_location(old, st, c)
         [] c.attr = "JOBID" -> match_jobid(st, c)
         [] c.attr \in Names -> match_name(st, c)
         [] c.attr = "USERTAG" -> match_tag(st, c)
         [] c.attr = "JDL_ATTR" -> match_jdl(old, st, c)
         [] OTHER -> match_kind(st, c)

match_status(old, st, conds, p) ==
    \A i \in DOMAIN conds : \E k \in DOMAIN conds[i] : match_cond(old, st, conds[i][k], p)

\* A string within a range is never found.
cmp_string(v, c) ==
    CASE c.op \in {"EQUAL", "CHANGED"} -> v = c.value
      [] c.op = "WITHIN" -> FALSE
      [] OTHER -> Compare(v, c)

\* The filter of events looks again at the or-lists with a USERTAG or an
\* INSTANCE.  It takes a value for greater when it is less, and knows no
\* operator for a host and a type.
Greater(c) == IF c.op = "GREATER" THEN [c EXCEPT !.op = "LESS"] ELSE c
flesh_cond(e, c) ==
    CASE c.attr \in {"TIME", "SOURCE", "LEVEL"} -> c.op # "UNEQUAL" /\ Compare(e[c.attr], Greater(c))
      [] c.attr \in {"HOST", "EVENT_TYPE"} -> e[c.attr] = c.value
      [] c.attr = "USERTAG" -> /\ e.EVENT_TYPE = EVENT_USERTAG /\ e.tag = c.id
                               /\ cmp_string(e.USERTAG, c)
      [] c.attr = "SRC_INSTANCE" -> e.SRC_INSTANCE # 0 /\ cmp_string(e.SRC_INSTANCE, c)
      [] OTHER -> FALSE

match_flesh_conditions(e, ec) ==
    \A i \in DOMAIN ec :
        (\E k \in DOMAIN ec[i] : ec[i][k].attr \in {"USERTAG", "SRC_INSTANCE"})
            => \E k \in DOMAIN ec[i] : flesh_cond(e, ec[i][k])


---------------------------------------------------------------------------
(***************************************************************************)
(* The calls of the client library that ask with conditions of their own   *)
(* (consumer.c).                                                           *)
(***************************************************************************)
NewRequest(jc, ec, p) ==
    [kind |-> IF ec = <<>> THEN "jobs" ELSE "events", jc |-> jc, ec |-> ec, limit |-> 0,
     results |-> "NONE", states |-> TRUE, noIndex |-> TRUE, peer |-> p]

Condition(attr, op, value) ==
    [attr |-> attr, id |-> 0, op |-> op, value |-> value, value2 |-> 0]

\* Every condition of a plain list must hold.
edg_wll_QueryJobs(conds, p) == NewRequest([i \in DOMAIN conds |-> <<conds[i]>>], <<>>, p)

\* The name is the server's to fill in.
edg_wll_UserJobs(p) == edg_wll_QueryJobs(<<Condition("OWNER", "EQUAL", NoSubject)>>, p)

edg_wll_JobStatus(j, p) == edg_wll_QueryJobs(<<Condition("JOBID", "EQUAL", j)>>, p)

edg_wll_JobLog(j, level, p) ==
    NewRequest(<<<<Condition("JOBID", "EQUAL", j)>>>>, <<<<Condition("LEVEL", "LESS", level + 1)>>>>, p)

edg_wll_QueryListener(j, p) ==
    NewRequest(<<<<Condition("JOBID", "EQUAL", j)>>>>,
               <<<<Condition("EVENT_TYPE", "EQUAL", EVENT_LISTENER)>>>>, p)
=============================================================================
