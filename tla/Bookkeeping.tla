---------------------------- MODULE Bookkeeping ----------------------------
(***************************************************************************)
(* The bookkeeping server's processes on their database, the purge with    *)
(* what follows it; the statistics, fed by the state changes of a          *)
(* scenario; and dumps of all events, loaded into another server.          *)
(***************************************************************************)
EXTENDS Purge, Stats, DumpLoad

bvars == <<db, inbox, w, acked, sent, jp, faults, avars>>

Init ==
    \E s \in Scenarios :
        /\ db = s.db /\ inbox = s.inbox
        /\ PurgeInit(s.keep)
        /\ StatsInit(s.feed)
        /\ DumpLoadInit(s.dumps, s.harm)

\* Everything has been done.
Finished == Quiet /\ feed = <<>> /\ DumpLoadDone /\ \A f \in Feeders : upd[f].pc = "idle"

Next ==
    \/ PurgeNext /\ UNCHANGED <<stvars, dlvars>>
    \/ StatsNext /\ UNCHANGED <<bvars, dlvars>>
    \/ DumpLoadNext /\ UNCHANGED <<bvars, stvars>>
    \/ Finished /\ UNCHANGED <<bvars, stvars, dlvars>>

Spec == Init /\ [][Next]_<<bvars, stvars, dlvars>>

---------------------------------------------------------------------------
\* What leaves the database can be had from files: purged events (see Archived)
\* and, by a sequence of dumps and their load, all others (see Restorable).
KeptInFiles == Archived /\ Restorable
=============================================================================
