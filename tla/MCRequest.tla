----------------------------- MODULE MCRequest -----------------------------
(***************************************************************************)
(* Two threads, a pool of two connections, two servers and a proxy with a  *)
(* slave each.                                                             *)
(***************************************************************************)
EXTENDS Request

MCConns == 1 .. 4
MCSlaves == {"a", "b", "p"}
MCSlaveOf == [a |-> "A", b |-> "B", p |-> "P"]
MCJobServer == [j1 |-> "A", j2 |-> "B"]

C(op) == [NoCall EXCEPT !.op = op]
OfJob(j) == [C("queryJobs") EXCEPT !.jobs = {j}]
ToProxy == [C("queryJobs") EXCEPT !.proxy = TRUE]
Fails(op, err) == [C(op) EXCEPT !.err = err]

Sc(one, two) ==
    [script |-> [t1 |-> one, t2 |-> two], who |-> [t1 |-> "u1", t2 |-> "u2"], size |-> 2,
     faults |-> 0, slow |-> 0, renewals |-> 0, refusals |-> 0, idle |-> 0, crashes |-> 0]

\* One request of every kind with every outcome, and another one behind it.
Errors == {"none", "ENOENT", "EPERM", "EINVAL", "EIDRM", "E2BIG", "NOINDEX", "EEXIST", "ENOSYS",
           "DB_CALL", "EIO"}
Kinds == {Fails(op, err) : op \in Pages \cup Posts, err \in Errors}
         \cup {[C("queryJobs") EXCEPT !.agent = a, !.err = e] :
                  a \in {"browser", "none", "malformed", "unknown", "old"},
                  e \in {"none", "E2BIG", "NOINDEX"}}
         \cup {[C(op) EXCEPT !.parsed = FALSE, !.err = e, !.agent = "browser"] :
                  op \in {"/?query", "queryJobs"}, e \in {"EINVAL", "ENOSYS"}}
         \cup {Fails("/job", "JOBID_FORMAT"), Fails("purge", "ACCEPTED_OK"), C("put"),
               C("overlong")}
KindScenarios == {Sc(<<k, C("queryJobs")>>, <<>>) : k \in Kinds}

\* The same identity, and none.
Shared == [Sc(<<C("queryJobs"), C("queryJobs")>>, <<C("queryJobs")>>)
              EXCEPT !.who = [t1 |-> "u1", t2 |-> "u1"]]
NoCert == [Shared EXCEPT !.who = [t1 |-> "u1", t2 |-> None]]
Single == [Shared EXCEPT !.size = 1]
Alone == Sc(<<C("queryJobs"), C("queryJobs")>>, <<>>)

MCScenarios ==
    KindScenarios \cup
    {[Single EXCEPT !.slow = 1], [Single EXCEPT !.who = [t1 |-> "u1", t2 |-> "u2"], !.crashes = 1],
     NoCert,
     [Sc(<<OfJob("j1"), OfJob("j2")>>, <<OfJob("j1")>>) EXCEPT !.slow = 0],
     [Sc(<<OfJob("j1")>>, <<OfJob("j1")>>) EXCEPT !.slow = 1, !.refusals = 1],
     [Alone EXCEPT !.crashes = 1, !.slow = 1, !.idle = 1],
     [Alone EXCEPT !.faults = 1, !.renewals = 1, !.refusals = 1],
     [Sc(<<ToProxy>>, <<ToProxy>>) EXCEPT !.slow = 1],
     [Sc(<<ToProxy, ToProxy>>, <<>>) EXCEPT !.crashes = 1, !.faults = 1, !.slow = 1],
     Sc(<<[C("queryJobs") EXCEPT !.jobs = {"j1", "j2"}], C("queryJobs")>>, <<>>)}
=============================================================================
