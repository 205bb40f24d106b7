------------------------------ MODULE JobLife ------------------------------
(***************************************************************************)
(* The life of one job: its events arrive in any order, and now and then   *)
(* the state is computed again from all that are stored.                   *)
(***************************************************************************)
EXTENDS BatchState

CONSTANTS Scenarios,    \* sets of events of a job; one of them is its life
          MaxRecompute  \* recomputations in a behaviour

(***************************************************************************)
(* One job.  db is its state in the database, inbox what is still on its   *)
(* way, seen the events stored.                                            *)
(***************************************************************************)
VARIABLES db, inbox, seen, ev, recomputed,
          exposed       \* what happened that the state machine does not make good
vars == <<db, inbox, seen, ev, recomputed, exposed>>

NoEvent == [type |-> None]

\* The registration is stored first: the server asks for it.
Init ==
    /\ inbox \in Scenarios
    /\ db = init_intJobStat
    /\ seen = {}
    /\ ev = NoEvent
    /\ recomputed = 0
    /\ exposed = {}

Ends == {e \in seen : e.type = "DONE" /\ e.source # "LRMS"}

\* "branch": ReallyRunning comes when events of another shallow branch have
\* been taken for the newest; what was seen of its own branch is not looked at
\* again ("best effort -- if we are lucky").  "end": a Done comes after a newer one,
\* whose code it overwrites.
Exposes(e, js) ==
    (IF /\ e.type = "REALLYRUNNING" /\ js.branch_tag_seqcode # NoSeq
        /\ js.last_branch_seqcode = NoSeq THEN {"branch"} ELSE {})
    \cup
    (IF /\ e.type = "DONE" /\ e.source # "LRMS"
        /\ \E f \in Ends : edg_wll_compare_seq(e.seqcode, f.seqcode) < 0 THEN {"end"} ELSE {})

\* edg_wll_StepIntState: the stored state is there, and takes the event.
StepIntState(e) ==
    /\ e \in inbox
    /\ seen = {} => e.type = "REGJOB"
    /\ \E js \in processEvent(db, e) : /\ db' = enc_dec_intJobStat(js)
                                      /\ exposed' = exposed \cup Exposes(e, js)
    /\ inbox' = inbox \ {e}
    /\ seen' = seen \cup {e}
    /\ ev' = e
    /\ UNCHANGED recomputed

\* The stored state is of another version, or missing: it is computed from
\* all the events and stored.
Recompute ==
    /\ seen # {} /\ recomputed < MaxRecompute
    /\ \E js \in edg_wll_intJobStatus(seen) : db' = enc_dec_intJobStat(js)
    /\ recomputed' = recomputed + 1
    /\ ev' = NoEvent
    /\ exposed' = {}
    /\ UNCHANGED <<inbox, seen>>

Next == (\E e \in inbox : StepIntState(e)) \/ Recompute

---------------------------------------------------------------------------
Glite == db.jobtype \in GliteTypes

\* The value of a user tag is that of the newest of the events that set it, in
\* whatever order they arrived and whether the state was computed step by step
\* or anew (add_taglist).
TagIsNewest ==
    \A t \in DOMAIN db.user_tags :
        LET setters == {e \in seen : e.type = "USERTAG" /\ e.code = t /\ e.val # None}
        IN  \E e \in setters :
               /\ e.val = db.user_tags[t].value
               /\ \A f \in setters : edg_wll_compare_seq(f.seqcode, e.seqcode) <= 0

\* Once ReallyRunning has told which shallow resubmission really runs, the
\* destination and the node reported are the ones of that branch: the other
\* branches, whose events go on arriving, do not overwrite them
\* (load_branch_state, USABLE_BRANCH).
SelectedBranch ==
    Glite /\ db.branch_tag_seqcode # NoSeq =>
        \A i \in 1..Rows(db.branch_states) :
            LET row == db.branch_states[i]
            IN  row.branch = component_seqcode(db.branch_tag_seqcode, WorkloadManager) =>
                   /\ row.dest # None => db.destination = row.dest
                   /\ row.ce # None => db.ce_node = row.ce

\* After a deep resubmission the events of the attempts before it change the
\* state of the job no more, with the exception of the workload manager's Abort.
OldAttemptSilent ==
    [][/\ Glite /\ ev' # NoEvent /\ db'.state # db.state
       /\ db.deep_resubmit_seqcode # NoSeq
       /\ db'.deep_resubmit_seqcode = db.deep_resubmit_seqcode
       => ~before_deep_resubmission(ev'.seqcode, db.deep_resubmit_seqcode)]_vars

\* When all events of a gLite or Torque job have arrived, the state does not
\* depend on the order they came in: it is the one computed from the events in
\* the order of their sequence codes, and the code of its end is that of the
\* newest Done - unless ReallyRunning came when another shallow branch was taken
\* for the job's, or a Done after a newer one.  (The other machines take the last
\* event that arrives; an event with an undefined code moves the state without
\* leaving its sequence code.)
Converged ==
    inbox = {} /\ db.jobtype \in GliteTypes \cup {"PBS"} /\ "branch" \notin exposed
               /\ (\A e \in seen : e.code # "UNDEFINED") =>
        \E js \in edg_wll_intJobStatus(seen) :
           /\ db.state = js.state
           /\ Glite /\ "end" \notin exposed => db.done_code = js.done_code
=============================================================================
