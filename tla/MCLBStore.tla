----------------------------- MODULE MCLBStore -----------------------------
(***************************************************************************)
(* A collection of two subjobs, and a job of its own.                      *)
(***************************************************************************)
EXTENDS Bookkeeping

MCJobs == {"coll", "sub1", "sub2", "job"}
MCParent == [j \in MCJobs |-> IF j \in {"sub1", "sub2"} THEN "coll" ELSE None]

S(ui, ns, wm, jss, lm, lrms, app, lbs) == <<ui, ns, wm, 0, jss, lm, lrms, app, lbs>>
E(type, source, seqcode, code, val) ==
    [type |-> type, source |-> source, seqcode |-> seqcode, timestamp |-> 1,
     code |-> code, val |-> val, wn |-> NoSeq]

RegColl == E("REGJOB", "UI", S(1,0,0,0,0,0,0,0), "COLLECTION", None)
RegJb == E("REGJOB", "UI", S(1,0,0,0,0,0,0,0), "SIMPLE", None)
Run == E("RUNNING", "LM", S(2,2,2,2,3,0,0,0), None, "node1")
DoneOK == E("DONE", "LM", S(2,2,2,2,4,0,0,0), "OK", None)
Tag == E("USERTAG", "APP", S(2,2,2,2,3,0,1,0), "t", "v")

Acl == E("CHANGEACL", "UI", S(3,0,0,0,0,0,0,0), None, None)

St(j, e) == [kind |-> "store", job |-> j, ev |-> e, again |-> FALSE,
             direct |-> TRUE, own |-> TRUE, excl |-> FALSE]
Again(r) == [r EXCEPT !.again = TRUE]
StatusOf(j) == [kind |-> "status", job |-> j, ev |-> NoEvent, again |-> FALSE]
MCStates == {"UNDEF", "UNKNOWN", "SUBMITTED", "WAITING", "READY", "SCHEDULED", "RUNNING", "DONE",
             "CLEARED", "ABORTED", "CANCELLED", "PURGED"}

\* A purge of named jobs, with or without a dump,
PurgeJobs_(J, dumped) ==
    [kind |-> "purge", jobs |-> J, dump |-> dumped, really |-> TRUE, allowed |-> TRUE,
     timeout |-> [s \in MCStates |-> -1]]
\* and one of all jobs whose last event is older than the timeout of their state.
PurgeOld(timeout) == [PurgeJobs_({}, TRUE) EXCEPT !.timeout = [s \in MCStates |-> timeout]]

Empty == [jobs |-> [j \in MCJobs |-> -1], states |-> [j \in MCJobs |-> NoRow],
          events |-> [j \in MCJobs |-> {}], members |-> [j \in MCJobs |-> {}], zombies |-> {},
          purged |-> {}, dropped |-> {}]

\* The collection registered, with its subjobs.
Coll ==
    LET d == [Empty EXCEPT
                !.jobs["coll"] = 1, !.members["coll"] = {"server"},
                !.events["coll"] = {[n |-> 0, ev |-> RegColl]},
                !.states["coll"] = [seq |-> 0, hist |-> [NoHist EXCEPT !["REST"] = 2],
                                    js |-> [init_intJobStat EXCEPT
                                              !.state = "SUBMITTED", !.jobtype = "COLLECTION",
                                              !.last_seqcode = RegColl.seqcode]]]
    IN  RegisterSubjob(RegisterSubjob(d, "sub1", "coll", RegColl), "sub2", "coll", RegColl)

\* A subjob registered on its own, before its collection.
Early ==
    [Empty EXCEPT
        !.jobs["sub1"] = 1, !.members["sub1"] = {"server"},
        !.events["sub1"] = {[n |-> 0, ev |-> RegJb]},
        !.states["sub1"] = [seq |-> 0, hist |-> NoHist,
                            js |-> CHOOSE js \in processEvent(init_intJobStat, RegJb) : TRUE]]

\* The job registered and running.
Job ==
    [Empty EXCEPT
        !.jobs["job"] = 2, !.members["job"] = {"server"},
        !.events["job"] = {[n |-> 0, ev |-> RegJb], [n |-> 1, ev |-> Run]},
        !.states["job"] = [seq |-> 1, hist |-> NoHist,
                           js |-> [init_intJobStat EXCEPT
                                     !.state = "RUNNING", !.jobtype = "SIMPLE",
                                     !.last_seqcode = Run.seqcode, !.ce_node = "node1",
                                     !.possible_ce_nodes = <<"node1">>,
                                     !.branch_states = <<[EndRow EXCEPT !.branch = 2, !.ce = "node1"],
                                                         EndRow>>,
                                     !.jw_status = "WRAPPER_RUNNING"]]]

\* A subjob has an event; the job is there, too; the collection is gone.
Tagged == [Coll EXCEPT !.events["sub1"] = {[n |-> 0, ev |-> Tag]}, !.jobs["sub1"] = 1,
                       !.states["sub1"] = [@ EXCEPT !.seq = 0,
                                                    !.js = CHOOSE js \in processEvent(@, Tag) : TRUE]]
Mixed == [Tagged EXCEPT !.jobs["job"] = 2, !.members["job"] = {"server"},
                        !.events["job"] = Job.events["job"], !.states["job"] = Job.states["job"]]
Orphan == [Mixed EXCEPT !.jobs["coll"] = -1, !.states["coll"] = NoRow, !.events["coll"] = {},
                        !.zombies = {"coll"}, !.purged = {"coll"}]
\* The job belongs to the proxy and to the server.
Shared == [Job EXCEPT !.members["job"] = {"server", "proxy"}]

\* Its state is of an older version of the server, and not used.
OldJob == [Job EXCEPT !.states["job"] = NoRow]

\* Statistics: a fine and a coarse ring, and the table of groups is to grow.
MCArchives == <<[interval |-> 2, length |-> 3], [interval |-> 4, length |-> 3]>>
MCEntries == <<[type |-> "COUNT", base |-> "RUNNING", final |-> None, minor |-> "OK"],
               [type |-> "DURATION_FROMTO", base |-> "SCHEDULED", final |-> "RUNNING", minor |-> "OK"],
               [type |-> "COUNT", base |-> "DONE", final |-> None, minor |-> "FAILED"]>>
MCDestinations == {"ce1", "ce2"}

\* The changes of a feed; since is the time the base state was entered.
Runs(d, t, since) ==
    [from |-> "SCHEDULED", to |-> "RUNNING", done_code |-> "OK", dest |-> d, time |-> t, since |-> since]
Ends_(d, t, code) ==
    [from |-> "RUNNING", to |-> "DONE", done_code |-> code, dest |-> d, time |-> t, since |-> 0]
Plan(d, reqs) == [db |-> d, inbox |-> reqs, keep |-> FALSE, feed |-> <<>>, dumps |-> <<>>, harm |-> 0]
Feed(q) == [Plan(Empty, {}) EXCEPT !.feed = q]

MCFeeds ==
    {Feed(<<Runs("ce1", 5, 2), Runs(d, t, 5), Runs("ce1", u, t)>>) :
        d \in MCDestinations, t \in {7}, u \in {7, 11, 15, 27}}
    \cup {Feed(<<Runs("ce1", 5, 2), Runs("ce1", 6, 5), Ends_("ce1", 7, code), Runs("ce1", 9, 7)>>) :
            code \in {"OK", "FAILED"}}
    \cup {Feed(<<Runs("ce1", 5, 2), Runs("none", 7, 5), Runs("ce1", 7, 3), Runs("ce1", 7, 6)>>)}
    \cup {Feed(<<Runs("ce1", 9, 7), Runs("ce1", 5, 3), Runs("ce1", 11, 0)>>)}

\* Dumps: the registration of a collection with a subjob, and another event.
MCArrivals == {"reg", "ev"}
MCKids == [e \in MCArrivals |-> IF e = "reg" THEN 1 ELSE 0]
Between_(from, to) == [from |-> from, to |-> to]
SinceStart == Between_(EDG_WLL_DUMP_LAST_START, EDG_WLL_DUMP_NOW)
Dumps(q, n) == [Plan(Empty, {}) EXCEPT !.dumps = q, !.harm = n]

MCDumps ==
    {Dumps(<<SinceStart, SinceStart>>, 1), Dumps(<<DumpRequest, DumpRequest>>, 0),
     Dumps(<<Between_(-7, 2), Between_(0, 2)>>, 0)}

MCScenarios ==
    {\* the registration twice, and an event before and after it
     Plan(Empty, {St("job", RegJb), Again(St("job", RegJb)), St("job", Run)}),
     Plan(Empty, {St("coll", RegColl), St("sub1", Run), Again(St("sub1", Run))}),
     \* the registration of a subjob and of its collection, in any order
     Plan(Empty, {St("coll", RegColl), St("sub1", RegJb), St("sub1", Run)}),
     Plan(Early, {St("coll", RegColl), St("sub1", Run)}),
     \* two subjobs of one collection
     Plan(Coll, {St("sub1", Run), St("sub2", DoneOK), St("sub1", Tag)}),
     Plan(Coll, {St("sub1", DoneOK), St("sub2", Run), St("sub2", DoneOK)}),
     \* a state of an older version, asked for by two at once
     Plan(OldJob, {StatusOf("job"), Again(StatusOf("job")), St("job", DoneOK)}),
     \* a change of the access control list, of a job and of a subjob
     Plan(Job, {St("job", Acl), St("job", DoneOK), Again(St("job", Acl))}),
     Plan(Coll, {St("sub1", Acl), St("sub1", Run), St("sub2", Run)}),
     \* registrations: from another than the user, exclusive, after a purge
     Plan(Empty, {[St("job", RegJb) EXCEPT !.direct = FALSE], [St("job", RegJb) EXCEPT !.excl = TRUE],
                  [St("job", RegJb) EXCEPT !.own = FALSE]}),
     Plan(Job, {[St("job", RegJb) EXCEPT !.excl = TRUE], PurgeJobs_({"job"}, FALSE)}),
     \* events meet a purge
     Plan(Job, {PurgeJobs_({"job"}, TRUE), St("job", DoneOK), Again(St("job", RegJb))}),
     Plan(OldJob, {PurgeJobs_({"job"}, TRUE), PurgeJobs_({"job"}, FALSE)}),
     Plan(Job, {PurgeJobs_({"job"}, FALSE), PurgeJobs_({"job", "sub1"}, FALSE), St("job", RegJb)}),
     Plan(Coll, {PurgeJobs_({"coll"}, FALSE), St("sub1", Run)}),
     \* all jobs, when their timeout has passed, and when it has not
     Plan(Tagged, {PurgeOld(1)}),
     Plan(Mixed, {PurgeOld(5)}),
     Plan(Orphan, {PurgeOld(1)}),
     \* a list only, a dump only, a purge that is not allowed
     Plan(Job, {[PurgeJobs_({"job"}, FALSE) EXCEPT !.really = FALSE],
                [PurgeJobs_({"job"}, TRUE) EXCEPT !.really = FALSE],
                [PurgeJobs_({"job"}, TRUE) EXCEPT !.allowed = FALSE]}),
     \* a job that is the proxy's, too
     Plan(Shared, {PurgeJobs_({"job"}, TRUE), St("job", DoneOK)}),
     \* the script keeps the files it has exported
     [Plan(Tagged, {PurgeJobs_({"sub1"}, TRUE)}) EXCEPT !.keep = TRUE]}
    \cup MCFeeds \cup MCDumps

=============================================================================
