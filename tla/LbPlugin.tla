----------------------------- MODULE LbPlugin -----------------------------
(***************************************************************************)
(* The plugin that answers questions about a job from the file of its      *)
(* events, in the provenance service, when the server has purged the job   *)
(* (org.glite.lb.state-machine/src/lb_plugin.c).  It sorts the events,     *)
(* runs the state machine over them and keeps the history of the states.   *)
(***************************************************************************)
EXTENDS JobLife, FiniteSetsExt

CONSTANT Qualified      \* names of tags with a colon in them

(***************************************************************************)
(* jp: the open handle, the tags given to the service, the last error and  *)
(* the last answer.                                                        *)
(***************************************************************************)
VARIABLE jp
pvars == <<db, inbox, seen, ev, recomputed, exposed, jp>>

\* hist: [state, destination, done_code] of each state met; last, final:
\* places in it, 0 for a null pointer.
NoHandle == [events |-> <<>>, status |-> init_intJobStat, hist |-> <<>>, last |-> 0, final |-> 0]

---------------------------------------------------------------------------
\* A line of the file: an event of some job, nothing, or what no parser reads.
Line(e) == [kind |-> "event", job |-> "this", e |-> e]
Blank == [kind |-> "blank", job |-> "this", e |-> NoEvent]
Torn == [kind |-> "bad", job |-> "this", e |-> NoEvent]
Stranger == [kind |-> "event", job |-> "other", e |-> NoEvent]

\* Mutant: the place of the cleared state itself.
FinalOwn(js, hist, final) == IF js.state = "CLEARED" THEN Len(hist) + 1 ELSE final

\* The state that counts in the end is the one before the job was cleared.
Final(js, hist, final) ==
    IF js.state = "CLEARED" /\ Len(hist) > 0 THEN Len(hist) ELSE final

\* One event in lb_status: the state moves, and if it is another one it goes
\* into the history.
Step(h, e) ==
    {IF js.state = h.status.state THEN [h EXCEPT !.status = js]
     ELSE [h EXCEPT !.status = js,
                    !.last = IF js.state = "WAITING" THEN Len(h.hist) + 1 ELSE @,
                    !.final = Final(js, h.hist, @),
                    !.hist = Append(@, [state |-> js.state, destination |-> js.destination,
                                        done_code |-> js.done_code])]
       : js \in processEvent(h.status, e)}

\* Without a CLEARED state the last one counts.  The events stay sorted.
lb_status(events) ==
    LET run(s) == LET f[n \in 0..Len(s)] == IF n = 0 THEN {NoHandle}
                                            ELSE UNION {Step(h, s[n]) : h \in f[n - 1]}
                  IN  f[Len(s)]
    IN  UNION {{[h EXCEPT !.events = s,
                          !.final = IF @ = 0 THEN Len(h.hist) ELSE @] : h \in run(s)}
                 : s \in Sorted(Range(events))}

\* Blank lines are skipped; the first line that cannot be read, or of a job
\* other than the first one's, ends it.
lb_open(lines) ==
    LET read == SelectSeq(lines, LAMBDA l : l.kind # "blank")
        wrong == {i \in 1..Len(read) : read[i].kind = "bad" \/ read[i].job # read[1].job}
    IN  IF wrong = {}
        THEN {[err |-> "OK", handle |-> h]
                : h \in lb_status([i \in 1..Len(read) |-> read[i].e])}
        ELSE {[err |-> IF read[Min(wrong)].kind = "bad" THEN "PARSE" ELSE "EINVAL",
               handle |-> NoHandle]}

\* Tags with a name of their own go to the service, in the order of the events.
lb_filecom(h) ==
    SelectSeq(h.events, LAMBDA e : e.type = "USERTAG" /\ e.code \in Qualified)

---------------------------------------------------------------------------
(***************************************************************************)
(* lb_query: an attribute's value, or an error.                            *)
(***************************************************************************)
Is(v) == [err |-> "OK", val |-> v]
Fails(code) == [err |-> code, val |-> None]

\* A string is answered if it is there, a number always.  So are the strings
\* and numbers of the state that JobState leaves out: identifiers, reasons, and
\* what the Torque and Condor jobs report.
Text(v) == IF v = None THEN Fails("ENOENT") ELSE Is(v)
Number(v) == Is(v)
List(s) == IF s = <<>> THEN Fails("ENOENT") ELSE Is(s)

\* Values of one tag, in the order of the events.
TagValues(h, tag) ==
    LET es == SelectSeq(h.events, LAMBDA e : e.type = "USERTAG" /\ e.code = tag)
    IN  List([i \in 1..Len(es) |-> es[i].val])

JobTypeName(t) == IF t \in GliteTypes \cup {"PBS", "CONDOR"} THEN t ELSE "UNKNOWN"

FinalState(h) == IF h.final # 0 THEN h.hist[h.final].state ELSE h.status.state

DoneCode(h) ==
    IF h.final # 0 /\ FinalState(h) = "DONE" THEN Is(h.status.done_code) ELSE Fails("EINVAL")

\* The last Done that the batch system logged, else the code of the state.
LRMSDoneStatus(h) ==
    LET done == {i \in 1..Len(h.events) : h.events[i].type = "DONE" /\ h.events[i].source = "LRMS"}
    IN  IF done = {} THEN Is(h.status.done_code) ELSE Is(h.events[Max(done)].code)

States(hist) == [i \in 1..Len(hist) |-> hist[i].state]

\* Submitted, and all from the last Waiting on.
lastStatusHistory(h) ==
    LET first == IF h.hist[1].state = "SUBMITTED" THEN <<"SUBMITTED">> ELSE <<>>
    IN  Is(first \o (IF h.last = 0 THEN <<>>
                     ELSE States(SubSeq(h.hist, h.last, Len(h.hist)))))

\* The destination is told between Ready and Done, the code with Done.
fullStatusHistory(h) ==
    Is([i \in 1..Len(h.hist) |->
          LET s == h.hist[i]
          IN  [s EXCEPT !.destination =
                            IF s.state \in {"READY", "SCHEDULED", "RUNNING", "DONE"} THEN @ ELSE None,
                        !.done_code = IF s.state = "DONE" THEN @ ELSE None]])

Attribute(h, a) ==
    CASE a = "status" -> Is(h.status.state)
      [] a = "jobType" -> Is(JobTypeName(h.status.jobtype))
      [] a = "CE" -> Text(h.status.destination)
      [] a = "host" -> Text(h.status.ce_node)
      [] a = "matchedJdl" -> Text(h.status.matched_jdl)
      [] a = "retryCount" -> Number(h.status.resubmitted)
      [] a = "cancelling" -> Number(h.status.cancelling)
      [] a = "payloadRunning" -> Number(h.status.payload_running)
      [] a = "suspended" -> Number(h.status.suspended)
      [] a = "removeFromProxy" -> Number(h.status.remove_from_proxy)
      [] a = "possibleDestinations" -> List(h.status.possible_destinations)
      [] a = "possibleCeNodes" -> List(h.status.possible_ce_nodes)
      [] a = "finalStatus" -> Is(FinalState(h))
      [] a = "finalDoneStatus" -> DoneCode(h)
      [] a = "LRMSDoneStatus" -> LRMSDoneStatus(h)
      [] a = "lastStatusHistory" -> lastStatusHistory(h)
      [] a = "fullStatusHistory" -> fullStatusHistory(h)
      [] OTHER -> Fails("ENOSYS")

\* The namespace of the attribute decides.  No classad plugin is loaded.
lb_query(h, ns, a) ==
    IF h.events = <<>> \/ h.status.state = "UNDEF" THEN Fails("ENOENT")
    ELSE CASE ns = "jdl" -> Fails("ENOENT")
           [] ns = "lbtag" -> TagValues(h, a)
           [] ns = "lb" -> Attribute(h, a)
           [] OTHER -> Fails("EINVAL")

---------------------------------------------------------------------------
\* The file of the job: what was exported, in any order; a line may be torn or
\* belong to another job.
Exported == FoldSet(LAMBDA e, s : Append(s, Line(e)), <<>>, seen)

Open ==
    /\ inbox = {} /\ jp.handle = NoHandle /\ jp.err # "CLOSED"
    /\ \E tail \in {<<>>, <<Blank>>, <<Torn>>, <<Stranger>>} :
          \E r \in lb_open(Exported \o tail) :
             jp' = [jp EXCEPT !.handle = r.handle, !.err = r.err]
    /\ UNCHANGED vars

FileCom ==
    /\ jp.handle # NoHandle /\ jp.tags = <<>>
    /\ lb_filecom(jp.handle) # <<>>
    /\ jp' = [jp EXCEPT !.tags = @ \o lb_filecom(jp.handle)]
    /\ UNCHANGED vars

Attributes == {"status", "jobType", "CE", "host", "matchedJdl", "retryCount", "cancelling",
               "payloadRunning", "suspended", "removeFromProxy", "possibleDestinations",
               "possibleCeNodes", "finalStatus", "finalDoneStatus", "LRMSDoneStatus",
               "lastStatusHistory", "fullStatusHistory", "aTag"}

\* Bound: one question per opening, as no answer depends on an earlier one.
Query ==
    /\ jp.handle # NoHandle /\ jp.answer.err = None
    /\ \/ \E a \in Attributes : jp' = [jp EXCEPT !.answer = lb_query(jp.handle, "lb", a)]
       \/ \E a \in Qualified : jp' = [jp EXCEPT !.answer = lb_query(jp.handle, "lbtag", a)]
       \/ \E ns \in {"jdl", "other"} :
             jp' = [jp EXCEPT !.answer = lb_query(jp.handle, ns, "VO")]
    /\ UNCHANGED vars

Close ==
    /\ jp.handle # NoHandle
    /\ jp' = [jp EXCEPT !.handle = NoHandle, !.err = "CLOSED",
                        !.answer = Fails(None)]
    /\ UNCHANGED vars

PluginInit == Init /\ jp = [handle |-> NoHandle, tags |-> <<>>, err |-> "OK",
                               answer |-> Fails(None)]

PluginNext == (Next /\ UNCHANGED jp) \/ Open \/ FileCom \/ Query \/ Close

Spec == PluginInit /\ [][PluginNext]_pvars

---------------------------------------------------------------------------
Ask(a) == lb_query(jp.handle, "lb", a)

\* The provenance service tells of a gLite or Torque job what the server told
\* before it purged it, in whatever order the server got the events: the state,
\* the state the job had before its user cleared it, and the latest value of
\* every tag - unless ReallyRunning came when another shallow branch was taken for
\* the job's, and the server's state is not that of the sorted events.  The code of
\* a job's end is that of the newest Done (the server's
\* own is that of the Done that came last: process_event.c:790).
Provenance ==
    jp.handle # NoHandle /\ db.jobtype \in GliteTypes \cup {"PBS"}
                         /\ "branch" \notin exposed /\ (\A e \in seen : e.code # "UNDEFINED") =>
        LET uncleared == edg_wll_intJobStatus({e \in seen : e.type # "CLEAR"})
            ends == {e \in seen : e.type = "DONE" /\ e.source # "LRMS"}
        IN  /\ Ask("status").val = db.state
            /\ \E js \in uncleared : Ask("finalStatus").val = js.state
            /\ Ask("finalDoneStatus").err = "OK" /\ db.jobtype = "SIMPLE" =>
                  \E e \in ends : /\ e.code = Ask("finalDoneStatus").val
                                  /\ \A f \in ends : compare_events_by_seq(f, e) <= 0
            /\ \A t \in DOMAIN db.user_tags :
                  LET all == lb_query(jp.handle, "lbtag", t).val
                  IN  all[Len(all)] = db.user_tags[t].value
=============================================================================
