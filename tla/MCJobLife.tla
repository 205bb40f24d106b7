----------------------------- MODULE MCJobLife -----------------------------
(***************************************************************************)
(* Lives of jobs for JobLife.     Each scenario is the set of the events   *)
(* one job is to see; TLC delivers them in every order.                    *)
(***************************************************************************)
EXTENDS LbPlugin

\* Sequence code: user interface, network server, workload manager, job
\* submission, log monitor, wrapper (LRMS), application, server.
S(ui, ns, wm, jss, lm, lrms, app, lbs) == <<ui, ns, wm, 0, jss, lm, lrms, app, lbs>>

E(type, source, seqcode, code, val) ==
    [type |-> type, source |-> source, seqcode |-> seqcode, timestamp |-> 0,
     code |-> code, val |-> val, wn |-> NoSeq]

Reg(code) == E("REGJOB", "UI", S(1,0,0,0,0,0,0,0), code, None)

\* From the user interface to the end, without a resubmission.
Plain ==
    {Reg("SIMPLE"),
     E("TRANSFER", "UI", S(2,0,0,0,0,0,0,0), "OK", None),
     E("ACCEPTED", "NS", S(2,1,0,0,0,0,0,0), None, None),
     E("ENQUEUED", "NS", S(2,2,0,0,0,0,0,0), "OK", "jdl"),
     E("DEQUEUED", "WM", S(2,2,1,0,0,0,0,0), None, None),
     E("MATCH", "WM", S(2,2,2,0,0,0,0,0), None, "ce1"),
     E("TRANSFER", "JSS", S(2,2,2,1,0,0,0,0), "OK", None),
     E("RUNNING", "LM", S(2,2,2,2,3,0,0,0), None, "node1"),
     E("DONE", "LM", S(2,2,2,2,4,0,0,0), "OK", None),
     E("CLEAR", "NS", S(2,3,0,0,0,0,0,0), "USER", None)}

\* Two shallow attempts; the second one really runs.
Shallow ==
    {Reg("SIMPLE"),
     E("MATCH", "WM", S(2,2,2,0,0,0,0,0), None, "ce1"),
     E("ENQUEUED", "WM", S(2,2,2,1,0,0,0,0), "OK", "jdl1"),
     E("RUNNING", "LRMS", S(2,2,2,2,2,1,0,0), None, "node1"),
     E("RESUBMISSION", "WM", S(2,2,3,0,0,0,0,0), "SHALLOW", None),
     E("MATCH", "WM", S(2,2,4,0,0,0,0,0), None, "ce2"),
     E("RUNNING", "LRMS", S(2,2,4,2,2,1,0,0), None, "node2"),
     E("REALLYRUNNING", "LRMS", S(2,2,4,2,2,2,0,0), None, None),
     E("DONE", "LM", S(2,2,4,2,3,0,0,0), "OK", None)}

\* Two shallow attempts; the first one really runs, and the end of the other
\* comes, too.
Earlier ==
    {Reg("SIMPLE"),
     E("MATCH", "WM", S(2,2,2,0,0,0,0,0), None, "ce1"),
     E("RUNNING", "LRMS", S(2,2,2,2,2,1,0,0), None, "node1"),
     E("REALLYRUNNING", "LRMS", S(2,2,2,2,2,2,0,0), None, None),
     E("DONE", "LM", S(2,2,2,2,3,0,0,0), "OK", None),
     E("MATCH", "WM", S(2,2,4,0,0,0,0,0), None, "ce2"),
     E("RUNNING", "LRMS", S(2,2,4,2,2,1,0,0), None, "node2"),
     E("DONE", "LM", S(2,2,4,2,3,0,0,0), "FAILED", None)}

\* The payload's start is reported by the log monitor, too, and the first
\* attempt's wrapper ends late.
Reported ==
    {Reg("SIMPLE"),
     E("MATCH", "WM", S(2,2,2,0,0,0,0,0), None, "ce1"),
     E("DONE", "LRMS", S(2,2,2,2,2,3,0,0), "OK", None),
     E("MATCH", "WM", S(2,2,4,0,0,0,0,0), None, "ce2"),
     [E("REALLYRUNNING", "LM", S(2,2,4,2,3,0,0,0), None, None)
        EXCEPT !.wn = S(2,2,4,2,2,2,0,0)],
     E("SUSPEND", "LRMS", S(2,2,4,2,2,3,0,0), None, None),
     E("RESUME", "LRMS", S(2,2,4,2,2,4,0,0), None, None),
     E("DONE", "LM", S(2,2,4,2,4,0,0,0), "FAILED", None)}

\* The first attempt fails and the job is resubmitted deeply.
Deep ==
    {Reg("SIMPLE"),
     E("MATCH", "WM", S(2,2,2,0,0,0,0,0), None, "ce1"),
     E("TRANSFER", "LM", S(2,2,2,2,2,0,0,0), "OK", None),
     E("RUNNING", "LRMS", S(2,2,2,2,2,1,0,0), None, "node1"),
     E("DONE", "LM", S(2,2,2,2,5,0,0,0), "FAILED", None),
     E("RESUBMISSION", "WM", S(2,2,3,0,0,0,0,0), "WILLRESUB", None),
     E("MATCH", "WM", S(2,2,4,0,0,0,0,0), None, "ce2"),
     E("RUNNING", "LRMS", S(2,2,4,2,2,1,0,0), None, "node2"),
     E("DONE", "LM", S(2,2,4,2,5,0,0,0), "OK", None)}

\* The wrapper's start overtakes, and is overtaken by, the log monitor's
\* transfer, which has counted on since the wrapper got its code.
Wrapper ==
    {Reg("SIMPLE"),
     E("MATCH", "WM", S(2,2,2,0,0,0,0,0), None, "ce1"),
     E("TRANSFER", "LM", S(2,2,2,2,3,0,0,0), "OK", None),
     E("RUNNING", "LRMS", S(2,2,2,2,2,1,0,0), None, "node1")}

\* Cancelled by the user while the workload manager aborts it.
Cancelled ==
    {Reg("SIMPLE"),
     E("CANCEL", "NS", S(2,3,0,0,0,0,0,0), "REQ", None),
     E("MATCH", "WM", S(2,2,2,0,0,0,0,0), None, "ce1"),
     E("RUNNING", "LM", S(2,2,2,2,3,0,0,0), None, "node1"),
     E("CANCEL", "WM", S(2,2,3,0,0,0,0,0), "DONE", None),
     E("ABORT", "WM", S(2,2,5,0,0,0,0,0), None, None)}

\* What goes wrong on the way: refusals, failures, helpers, odd events.
Refusals ==
    {Reg("SIMPLE"),
     E("REFUSED", "NS", S(2,1,0,0,0,0,0,0), None, None),
     E("TRANSFER", "UI", S(3,1,0,0,0,0,0,0), "START", None),
     E("HELPERCALL", "WM", S(3,1,1,0,0,0,0,0), None, None),
     E("ENQUEUED", "WM", S(3,1,2,0,0,0,0,0), "FAIL", None),
     E("DEQUEUED", "JSS", S(3,1,2,1,0,0,0,0), None, None),
     E("TRANSFER", "JSS", S(3,1,2,2,0,0,0,0), "FAIL", None),
     E("CLEAR", "NS", S(3,2,2,2,0,0,0,0), "UNDEFINED", None)}

Unusual ==
    {Reg("SIMPLE"),
     E("ACCEPTED", "LM", S(2,2,2,2,1,0,0,0), None, None),
     E("ENQUEUED", "LM", S(2,2,2,2,2,0,0,0), "OK", None),
     E("ACCEPTED", "UI", S(3,2,2,2,2,0,0,0), None, None),
     E("REALLYRUNNING", "LM", S(3,2,2,2,3,0,0,0), None, None),
     E("DONE", "LM", S(3,2,2,2,4,0,0,0), "UNDEFINED", None),
     E("CURDESCR", "LM", S(3,2,2,2,5,0,0,0), None, None)}

\* Tags and the ownership of the payload.
Owners ==
    {Reg("SIMPLE"),
     E("USERTAG", "APP", S(2,2,2,2,2,2,1,0), "vo:colour", "red"),
     E("USERTAG", "APP", S(2,2,2,2,2,2,2,0), "vo:colour", "blue"),
     E("USERTAG", "APP", S(2,2,2,2,2,2,3,0), "vo:colour", "green"),
     E("GRANTPAYLOADOWNERSHIP", "UI", S(2,0,0,0,0,0,0,0), None, "alice"),
     E("TAKEPAYLOADOWNERSHIP", "LRMS", S(2,2,2,2,2,3,0,0), None, "alice"),
     E("TAKEPAYLOADOWNERSHIP", "LRMS", S(2,2,2,2,2,4,0,0), None, "bob"),
     E("CHANGEACL", "UI", S(3,0,0,0,0,0,0,0), None, None)}

CollectionLife ==
    {Reg("COLLECTION"),
     E("COLLECTIONSTATE", "LBS", S(1,0,0,0,0,0,0,1), None, "RUNNING"),
     E("COLLECTIONSTATE", "LBS", S(1,0,0,0,0,0,0,2), None, "ABORTED"),
     E("COLLECTIONSTATE", "LBS", S(1,0,0,0,0,0,0,3), "OK", "DONE")}

\* A broker's job on a CREAM computing element.
BrokerCream ==
    {Reg("SIMPLE"),
     E("CREAMSTORE", "CREAM_INTERFACE", S(2,2,2,2,1,0,0,0), "CMDSTART", None),
     E("CREAMCALL", "CREAM_EXECUTOR", S(2,2,2,2,2,0,0,0), "CMDSTART", "LRMS"),
     E("CREAMSTATUS", "CREAM_INTERFACE", S(2,2,2,2,3,0,0,0), "REALLY_RUNNING", "node1"),
     E("CREAMCALL", "CREAM_INTERFACE", S(2,2,2,2,4,0,0,0), "CMDCANCEL", None),
     E("CREAMCANCEL", "CREAM_INTERFACE", S(2,2,2,2,5,0,0,0), "DONE", None)}

AbortedCream ==
    {Reg("SIMPLE"),
     E("CREAMSTORE", "CREAM_INTERFACE", S(2,2,2,2,1,0,0,0), "CMDSUSPEND", None),
     E("CREAMSTATUS", "CREAM_INTERFACE", S(2,2,2,2,3,0,0,0), "RUNNING", "node1"),
     E("CREAMABORT", "CREAM_INTERFACE", S(2,2,2,2,6,0,0,0), None, None)}

PlainCream ==
    {E("REGJOB", "CREAM_INTERFACE", S(1,0,0,0,0,0,0,0), "CREAM", "ce1"),
     E("CREAMSTORE", "CREAM_INTERFACE", S(2,0,0,0,0,0,0,0), "CMDSTART", None),
     E("CREAMCALL", "CREAM_EXECUTOR", S(3,0,0,0,0,0,0,0), "CMDSTART", "LRMS"),
     E("CREAMSTATUS", "CREAM_INTERFACE", S(4,0,0,0,0,0,0,0), "DONE_FAILED", "node1"),
     E("CREAMCALL", "CREAM_INTERFACE", S(5,0,0,0,0,0,0,0), "CMDPURGE", None)}

Torque ==
    {E("REGJOB", "PBS_SERVER", <<1,0,0,0,0>>, "PBS", None),
     E("PBSQUEUED", "PBS_SERVER", <<2,0,0,0,0>>, None, None),
     E("PBSRUN", "PBS_SERVER", <<3,0,0,0,0>>, None, None),
     E("PBSRUN", "PBS_MOM", <<3,0,0,1,0>>, None, None),
     E("PBSRERUN", "PBS_MOM", <<3,0,0,2,0>>, None, None),
     E("PBSDONE", "PBS_SERVER", <<4,0,0,2,0>>, None, None),
     E("PBSACCEPTED", "PBS_MOM", <<3,0,0,0,0>>, None, None)}

Condor ==
    {E("REGJOB", "UI", <<1, 1, "REGJOB", "C">>, "CONDOR", None),
     E("CONDORMATCH", "NEG", <<2, 1, "MATCH", "m">>, None, None),
     E("CONDORSTARTERSTARTED", "START", <<3, 1, "STARTED", "S">>, None, None),
     E("CONDORSTARTERSTARTED", "STARTER", <<3, 2, "STARTED", "s">>, None, None),
     E("CONDORSTARTEREXITED", "START", <<4, 2, "EXITED", "S">>, None, None)}

Machine ==
    {E("REGJOB", "UI", S(1,0,0,0,0,0,0,0), "VIRTUAL_MACHINE", None),
     E("VMCREATE", "CLOUD_MANAGER", S(2,0,0,0,0,0,0,0), None, "host1"),
     E("VMRUNNING", "VM_SYSTEM", S(3,0,0,0,0,0,0,0), None, None),
     E("VMSHUTDOWN", "VM_SYSTEM", S(4,0,0,0,0,0,0,0), None, None),
     E("VMSHUTDOWN", "CLOUD_MANAGER", S(5,0,0,0,0,0,0,0), None, None),
     E("VMRESUME", "CLOUD_MANAGER", S(6,0,0,0,0,0,0,0), None, None),
     E("VMDONE", "CLOUD_MANAGER", S(7,0,0,0,0,0,0,0), "DELETE", None)}

Files ==
    {E("REGJOB", "UI", S(1,0,0,0,0,0,0,0), "FILE_TRANSFER", None),
     E("FILETRANSFER", "LRMS", S(2,0,0,0,0,0,0,0), "START", None),
     E("FILETRANSFER", "LRMS", S(3,0,0,0,0,0,0,0), "FAIL", None),
     E("ABORT", "LRMS", S(4,0,0,0,0,0,0,0), None, None)}

FileSets ==
    {E("REGJOB", "UI", S(1,0,0,0,0,0,0,0), "FILE_TRANSFER_COLLECTION", None),
     E("COLLECTIONSTATE", "LBS", S(1,0,0,0,0,0,0,1), None, "RUNNING"),
     E("COLLECTIONSTATE", "LBS", S(1,0,0,0,0,0,0,2), "OK", "DONE")}

MCQualified == {"vo:colour"}

MCScenarios == {Plain, Shallow, Earlier, Reported, Deep, Wrapper, Cancelled, Refusals, Unusual, Owners,
                CollectionLife, BrokerCream, AbortedCream, PlainCream, Torque, Condor, Machine, Files,
                FileSets}
=============================================================================
