------------------------------ MODULE Logging ------------------------------
(***************************************************************************)
(* Both ends of the event files.  Producer has the programs that log events *)
(* and the local logger that writes them to the file of the job; StoreList  *)
(* has the inter-logger that finds the files, reads them and removes them.  *)
(* They share nothing but the files, and each has a small model of the      *)
(* other end: LocalLogger's inter-logger, StoreList's LogLine.              *)
(***************************************************************************)
EXTENDS Producer, StoreList

CONSTANT Plans   \* files the inter-logger finds, and what comes to it

FaultKinds == {"set", "connect", "timeout", "format", "idle", "kill", "ipc", "late", "refuse",
               "clean", "crash", "write", "dberr"}

NoFiles == [n \in {} |-> {}]
NoPlan == [dir |-> NoFiles, ctl |-> NoFiles, sent |-> {},
           input |-> [log |-> <<>>, get |-> <<>>, crash |-> 0, renew |-> 0, connect |-> 0, total |-> 0]]
NoCalls == [calls |-> [k \in Clients |-> <<>>], faults |-> [f \in FaultKinds |-> 0]]

\* What an inter-logger may find: file names, positions within the files, all
\* before them taken by the server.  A control file without its file has a plain
\* name, as the time is in the others; and all events are somewhere.
IsName(n) == n = <<n[1], n[2]>> /\ n[2] \in Nat

Findable(p) ==
  LET i == p.input
      filed == UNION {Range(p.dir[n]) : n \in DOMAIN p.dir}
  IN /\ \A n \in DOMAIN p.dir : IsName(n) /\ p.dir[n] \in Seq(Nat)
     /\ \A n \in DOMAIN p.ctl :
          /\ IsName(n) /\ p.ctl[n] \in Nat
          /\ IF n \in DOMAIN p.dir
             THEN p.ctl[n] <= Len(p.dir[n]) /\ \A k \in 1..p.ctl[n] : p.dir[n][k] \in p.sent
             ELSE n[2] = 0
     /\ DOMAIN i = {"log", "get", "crash", "renew", "connect", "total"}
     /\ i.log \in Seq(Range(i.log)) /\ i.total \in Nat
     /\ \A e \in 1..i.total : e \in p.sent \cup filed \/ e <= Len(i.log)

ASSUME PlansAssumption == \A p \in Plans : Findable(p)

\* Either end is at work, and the other one is idle: the inter-logger's
\* recovery thread waits.
Init ==
  \/ \E s \in Scenarios : ProducerInit(s) /\ ListInit(NoPlan, "asleep")
  \/ \E p \in Plans : ProducerInit(NoCalls) /\ ListInit(p, "begin")

Next ==
  \/ ProducerNext /\ UNCHANGED listVars
  \/ ListNext /\ UNCHANGED vars

Spec == Init /\ [][Next]_<<vars, listVars>> /\ Fairness
=============================================================================
