------------------------------ MODULE MCQuery ------------------------------
(* Three jobs of three owners, one of them of another server, and one that *)
(* is registered or purged while a query reads its pages.                  *)
EXTENDS QueryServer

Subj(n, k) == [cn |-> n, proxies |-> k, mail |-> FALSE]
alice == Subj("alice", 0)
bob == Subj("bob", 0)
eve == Subj("eve", 0)
Peer(s) == [name |-> s, fqans |-> IF s.cn = "bob" THEN {Subj("/vo", 0)} ELSE {}]

Columns == {<<"STATUS", 0>>, <<"DESTINATION", 0>>, <<"USERTAG", 1>>, <<"STATEENTERTIME", 0>>,
            <<"LOCATION", 0>>, <<"RESUBMITTED", 0>>, <<"JDL_ATTR", 1>>, <<"JOB_TYPE", 0>>}
St(j, o, status, dest) ==
    [job |-> j, owner |-> o, payload_owner |-> NoSubject,
     attrs |-> [c \in Columns |-> CASE c[1] = "STATUS" -> status [] c[1] = "DESTINATION" -> dest
                                    [] c[1] = "STATEENTERTIME" -> status [] OTHER -> 1]]
Ev(type, time, tag) ==
    [EVENT_TYPE |-> type, TIME |-> time, LEVEL |-> 1, HOST |-> 1, SOURCE |-> 1, SRC_INSTANCE |-> 1,
     tag |-> 1, USERTAG |-> tag]
Evs == <<Ev(17, 1, 0), Ev(EVENT_USERTAG, 2, 1), Ev(EVENT_USERTAG, 3, 2)>>
Row(st) == [here |-> TRUE, st |-> st, aclid |-> NoAcl, events |-> Evs]
Gone(st) == [Row(st) EXCEPT !.here = FALSE]

Change(j, user, type, perm, op) ==
    [job |-> j, user_id |-> user, user_id_type |-> type, permission |-> perm,
     permission_type |-> "ALLOW", operation |-> op]
Entry(user) == [cred |-> [kind |-> "person", id |-> user], perm |-> "read", type |-> "ALLOW"]
AclA == <<Entry(alice)>>
AclAB == <<Entry(alice), Entry(bob)>>

Cond(a, op, v) == [attr |-> a, id |-> IF a \in {"USERTAG", "JDL_ATTR"} THEN 1 ELSE 0, op |-> op, value |-> v, value2 |-> v + 1]
Owner(op, s) == [attr |-> "OWNER", id |-> 0, op |-> op, value |-> s, value2 |-> 0]
Jobs3(jc) == NewRequest(jc, <<>>, Peer(alice))
Events3(jc, ec) == NewRequest(jc, ec, Peer(alice))

MCPolicy == [OpenPolicy EXCEPT
    !["READ_ALL"] = {{[id |-> "fqan", value |-> Subj("/vo", 0)]}},
    !["STATUS_FOR_MONITORING"] = {{[id |-> "subject", value |-> eve]}, {}}]
MCMapping == parse_gridmap(<<<<Subj("alice", 1), Subj("anna", 0)>>, <<>>, <<bob>>>>)

Base == [job |-> (1 :> Row(St(1, alice, 2, 1))) @@ (2 :> Row(St(2, Subj("anna", 1), 3, 2)))
                 @@ (3 :> Row(St(3, bob, 2, 1))) @@ (4 :> Row(St(4, alice, 2, 1))),
         index |-> {{<<"STATUS", 0>>}}, ask |-> <<>>, change |-> <<>>, env |-> <<>>, fault |-> 0]
Env(j, row) == [job |-> j, row |-> row]

Status2 == Cond("STATUS", "EQUAL", 2)
Dest1 == Cond("DESTINATION", "EQUAL", 1)
JobQueries ==
    {edg_wll_QueryJobs(<<Status2>>, Peer(alice)), edg_wll_QueryJobs(<<Status2, Dest1>>, Peer(alice)), Jobs3(<<<<Dest1, Cond("DESTINATION", "EQUAL", 2)>>>>),
     Jobs3(<<<<Cond("STATUS", "WITHIN", 2)>>, <<Cond("STATEENTERTIME", "LESS", 3)>>>>),
     Jobs3(<<<<Cond("JOBID", "UNEQUAL", 2)>>>>), edg_wll_JobStatus(1, Peer(alice)),
     edg_wll_UserJobs(Peer(alice)), Jobs3(<<<<Owner("UNEQUAL", bob)>>>>),
     Jobs3(<<<<Status2, Dest1>>>>), Jobs3(<<<<Cond("DESTINATION", "LESS", 1)>>>>),
     Jobs3(<<<<Cond("LOCATION", "EQUAL", 1)>>, <<Cond("RESUBMITTED", "UNEQUAL", 2)>>, <<Cond("JDL_ATTR", "EQUAL", 1)>>,
             <<Cond("JOB_TYPE", "EQUAL", 1)>>, <<Cond("USERTAG", "EQUAL", 1)>>>>)}
Variants(x) == {x, [x EXCEPT !.limit = 1], [x EXCEPT !.limit = 2, !.results = "LIMITED"],
                [x EXCEPT !.limit = 1, !.results = "ALL"], [x EXCEPT !.states = FALSE],
                [x EXCEPT !.limit = 1, !.peer = Peer(Subj("bob", 1))], [x EXCEPT !.limit = 2, !.peer = Peer(eve)],
                [x EXCEPT !.noIndex = FALSE]}
EventQueries ==
    {edg_wll_JobLog(1, 1, Peer(alice)), edg_wll_QueryListener(3, Peer(alice)),
     Events3(<<<<Status2>>>>, <<<<Cond("TIME", "GREATER", 1)>>>>),
     Events3(<<<<Cond("JOBID", "EQUAL", 1), Cond("JOBID", "EQUAL", 2)>>>>, <<<<Cond("USERTAG", "UNEQUAL", 1)>>>>),
     Events3(<<<<Cond("JOBID", "EQUAL", 3)>>>>,
             <<<<Cond("USERTAG", "EQUAL", 2)>>, <<Cond("SRC_INSTANCE", "EQUAL", 1), Cond("USERTAG", "EQUAL", 1)>>>>)}
Filtering == {Events3(<<<<Dest1>>>>, <<<<Cond("EVENT_TYPE", "EQUAL", EVENT_USERTAG)>>>>),
              Events3(<<<<Dest1>>>>, <<<<Cond("USERTAG", "UNEQUAL", 1)>>>>)}

Happening == {<<>>, <<Env(2, Row(St(2, Subj("anna", 1), 2, 1)))>>, <<Env(1, Gone(St(1, alice, 2, 1)))>>,
              <<Env(1, Row(St(1, alice, 3, 1))), Env(2, Row(St(2, Subj("anna", 1), 2, 0)))>>}
Absent1 == [Base EXCEPT !.job[1].here = FALSE]
JobScenarios ==
    {[b EXCEPT !.ask = <<x>>, !.env = h] :
        b \in {Base}, x \in UNION {Variants(y) : y \in JobQueries}, h \in Happening}
    \cup {[Absent1 EXCEPT !.ask = <<x, [Jobs3(<<>>) EXCEPT !.kind = "user"]>>, !.env = <<Env(1, Row(St(1, alice, 2, 1)))>>, !.fault = 1] :
            x \in UNION {Variants(y) : y \in {Jobs3(<<<<Status2>>>>), edg_wll_JobStatus(1, Peer(alice))}}}
EventScenarios ==
    {[Base EXCEPT !.ask = <<x>>, !.env = h, !.change = <<Change(3, alice, "DN", "READ", "ADD")>>] :
        x \in UNION {Variants(y) : y \in EventQueries}, h \in {<<>>, <<Env(1, Gone(St(1, alice, 2, 1)))>>}}
    \cup {[Base EXCEPT !.ask = <<[x EXCEPT !.limit = l, !.peer = Peer(p)]>>, !.env = h] :
            x \in Filtering, l \in 0..4, p \in {bob, alice, eve}, h \in Happening}
AclScenarios ==
    {[Base EXCEPT !.job = [j \in 1..4 |-> [Base.job[j] EXCEPT !.aclid = IF j = 1 THEN a ELSE IF j = 2 THEN b ELSE NoAcl]],
                  !.change = <<c, d, e>>, !.env = h, !.fault = 1] :
        h \in {<<>>, <<Env(1, Gone(St(1, alice, 2, 1))), Env(1, Row(St(1, alice, 2, 1))),
                     Env(2, Gone(St(2, Subj("anna", 1), 3, 2)))>>},
        a \in {NoAcl, AclA, AclAB}, b \in {AclA, AclAB},
        c \in {Change(1, bob, "DN", "READ", "ADD"), Change(1, bob, "DN", "READ", "REMOVE")},
        d \in {Change(2, bob, "DN", "READ", "ADD"), Change(2, bob, "DN", "READ", "REMOVE"), Change(1, alice, "DN", "READ", "ADD")},
        e \in {Change(1, alice, "DN", "READ", "REMOVE"), Change(3, alice, "DN", "READ", "ADD"), Change(3, Subj("/vo", 0), "FQAN", "TAG", "ADD")}}

MCScenarios == JobScenarios \cup EventScenarios \cup AclScenarios
=============================================================================
