------------------------------ MODULE MCLogging ------------------------------
(* Instances of Logging for TLC: of the producer's end, and of the inter-logger's. *)
EXTENDS Logging

MCClients == {"a", "b"}
MCConns == {"c1", "c2", "c3", "c4"}
MCWriters == MCConns \cup MCClients

Op(o) == [op |-> o, job |-> 1, local |-> FALSE]
Of(o, job) == [Op(o) EXCEPT !.job = job]

Budget(some) == [f \in FaultKinds |-> IF f \in DOMAIN some THEN some[f] ELSE 0]
Of2(a, b, some) == [calls |-> ("a" :> a @@ "b" :> b), faults |-> Budget(some)]

MCScenarios == {
  \* writers of one file, one of them not the local logger's, and the cleaner
  Of2(<<Op("LogEventFile")>>, <<Op("LogEvent")>>, [write |-> 1]),
  Of2(<<Op("LogEventFile")>>, <<Op("LogEventFile")>>, [write |-> 1, clean |-> 2]),
  Of2(<<Op("LogEvent")>>, <<Op("LogEventFile")>>, [clean |-> 1]),
  Of2(<<Op("LogEventFile")>>, <<Op("LogEventFile"), Op("LogEventFile")>>, [clean |-> 1]),
  \* confirmations of the inter-logger, which crashes, is slow, or brings a refusal
  Of2(<<Op("LogEventSync"), Op("LogFlush")>>, <<>>, [crash |-> 2, clean |-> 1]),
  Of2(<<Op("LogEventSync")>>, <<Op("LogEventFile")>>, [refuse |-> 1]),
  Of2(<<Op("ChangeACL"), Op("LogEvent")>>, <<>>, [refuse |-> 1, ipc |-> 1, write |-> 1, kill |-> 1]),
  Of2(<<Op("LogEventSync"), Op("LogEvent")>>, <<Op("LogFlush")>>, [late |-> 1]),
  Of2(<<Op("LogEventSync"), Op("LogEventSync")>>, <<>>, [late |-> 1, refuse |-> 1]),
  Of2(<<Op("LogEventFile"), Op("LogEventSync")>>, <<>>, [ipc |-> 1, crash |-> 1]),
  \* children that die or close, and clients that do not wait
  Of2(<<Op("LogEvent"), Op("LogEvent"), Op("LogEventSync")>>, <<>>, [kill |-> 1, idle |-> 1]),
  Of2(<<Op("LogEvent"), Op("LogEvent")>>, <<>>, [timeout |-> 1, connect |-> 1, write |-> 1, format |-> 1]),
  \* the proxy and the server
  Of2(<<Of("RegisterJobProxy", 1), Op("LogEventProxy"), Op("SetLoggingJobProxy"), Op("LogEventProxy")>>,
      <<>>, [timeout |-> 1, connect |-> 1]),
  Of2(<<Of("RegisterJob", 2), Of("RegisterSubjobs", 3), Op("LogEvent")>>, <<>>, [dberr |-> 1, timeout |-> 1]),
  Of2(<<[Op("RegisterJobProxy") EXCEPT !.local = TRUE], Op("LogEventProxy")>>, <<Op("LogEventProxy")>>,
      [connect |-> 1, dberr |-> 1, set |-> 1]),
  Of2(<<Op("RegisterJobProxy"), Op("RegisterJobProxy")>>, <<>>, [connect |-> 1, timeout |-> 1]),
  Of2(<<Op("RegisterJobProxy")>>, <<>>, [dberr |-> 1]),
  \* what the local logger does not take
  Of2(<<Op("LogBroken"), Op("LogFlushAll"), Op("SetLoggingJob"), Op("LogEvent")>>, <<Op("LogFlush")>>,
      [set |-> 1]) }

In(log, get, crash, renew, connect) ==
  [log |-> log, get |-> get, crash |-> crash, renew |-> renew, connect |-> connect, total |-> Len(log)]
Ev(job) == [kind |-> "event", job |-> job]
Cmd(job) == [kind |-> "cmd", job |-> job]
Is(kind) == [kind |-> kind, job |-> 0]
Plan(in) == [NoPlan EXCEPT !.input = in]

File(job, index, v) == <<job, index>> :> v
Events(d) == UNION {Range(d[n]) : n \in DOMAIN d}

\* Events that are in the files already have the numbers behind those to come.
Found(in, d, positions, done) ==
  [dir |-> d, ctl |-> positions, sent |-> done, input |-> [in EXCEPT !.total = @ + Cardinality(Events(d))]]

MCPlans == {
  \* events and commands come while the recovery thread reads and removes
  Plan(In(<<1, 1>>, <<Ev(1), Ev(1)>>, 1, 0, 0)),
  Plan(In(<<1, 2>>, <<Ev(1), Ev(2)>>, 0, 0, 0)),
  Plan(In(<<1, 1>>, <<Is("eof"), Cmd(0), Cmd(1), Is("fail")>>, 0, 0, 0)),
  \* a file is rotated: one with a control file, and one when all names are taken
  Found(In(<<1>>, <<Ev(1)>>, 0, 0, 0), File(1, 0, <<3, 2>>), File(1, 0, 1), {3}),
  Found(In(<<>>, <<Ev(1)>>, 0, 0, 0), File(1, 0, <<3, 2>>) @@ File(1, 1, <<1>>), NoFiles, {}),
  \* two files of a job are read one after the other
  Found(In(<<1>>, <<Ev(1)>>, 1, 0, 0), File(1, 0, <<3>>) @@ File(1, 1, <<2>>), File(1, 1, 1), {2}),
  \* credentials
  Plan(In(<<>>, <<>>, 1, 2, 3)) }
=============================================================================
