------------------------------- MODULE SrvBones -------------------------------
(***************************************************************************)
(* The server skeleton under the bookkeeping server                         *)
(* (org.glite.lbjp-common.server-bones/src/srvbones.c): a master process    *)
(* accepts connections and passes them to slave processes over a socket     *)
(* pair; a slave reports the number of each connection it has taken.  From  *)
(* these reports alone the master estimates its backlog and rejects         *)
(* connections on overload.  Slaves end after a number of requests, on      *)
(* fatal errors or by a signal, and the master starts new ones.             *)
(*                                                                          *)
(* One service, with handlers for connections and requests; a connection is *)
(* known by its number.  Termination of the whole server is left out.       *)
(***************************************************************************)
EXTENDS Integers, Sequences, FiniteSets, SequencesExt

CONSTANTS Slaves,    \* set_slaves_ct of them
          Overload,  \* set_slave_overload
          ReqsMax,   \* set_slave_reqs_max
          Modulus,   \* 2^w: the counters are unsigned long
          MaxConns,  \* bound: connections of clients, when nothing goes wrong
          MaxConnsFaulty, \* bound: connections of clients in the other behaviours
          MaxDeaths, \* bound: slaves ended by a signal or a fatal error
          Exposures  \* sets of the hazards a behaviour may be exposed to

\* "dies"        a slave may end by a signal or a fatal error
\* "dies_taking" a slave may end between receiving and reporting a connection
\* "send_fails"  sendmsg of the master may fail
\* "sig_race"    SIGCHLD may come between sigprocmask and select
BonesExposures == {"dies", "dies_taking", "send_fails", "sig_race"}

Limit == Cardinality(Slaves) * Overload

ASSUME BonesAssumption ==
  /\ IsFiniteSet(Slaves) /\ Overload \in Nat /\ ReqsMax \in Nat /\ MaxConns \in Nat
  /\ MaxConnsFaulty \in 0..MaxConns
  /\ MaxDeaths \in Nat
  /\ Modulus \in Nat /\ Modulus > Limit + 1
  /\ Exposures \subseteq SUBSET BonesExposures

VARIABLES
  backlog,    \* connections waiting in listen()
  arrived,    \* history: connections there ever were
  dispatched, \* clnt_dispatched
  accepted,   \* clnt_accepted
  toSlaves,   \* the socket pair, towards the slaves: connections
  toMaster,   \* ... and towards the master: reported numbers
  childDied,  \* child_died
  awake,      \* will select return for a signal
  spc,        \* control point of a slave
  conn,       \* its connection
  taking,     \* newconn and seq
  first,      \* first_request
  reqCnt,     \* req_cnt
  rejected,   \* history: connections rejected
  deaths,
  exposed     \* the hazards of this behaviour

master == <<backlog, arrived, dispatched, accepted, rejected>>
channel == <<toSlaves, toMaster>>
signals == <<childDied, awake>>
slave == <<spc, conn, taking, first, reqCnt>>
history == <<deaths, exposed>>
vars == <<backlog, arrived, dispatched, accepted, toSlaves, toMaster, childDied, awake,
          spc, conn, taking, first, reqCnt, rejected, deaths, exposed>>

NoConn == -1
Conns == 0..MaxConns - 1

\* A connection: its place in the order of arrival, and the number it got.
Parcels == [id : Conns, seq : 0..Modulus - 1]
NoParcel == [id |-> NoConn, seq |-> 0]

TypeOK ==
  /\ backlog \in 0..MaxConns /\ arrived \in 0..MaxConns
  /\ dispatched \in 0..Modulus - 1 /\ accepted \in 0..Modulus - 1
  /\ toSlaves \in Seq(Parcels) /\ toMaster \in Seq(0..Modulus - 1)
  /\ childDied \in BOOLEAN /\ awake \in BOOLEAN
  /\ spc \in [Slaves -> {"select", "report", "zombie"}]
  /\ conn \in [Slaves -> Conns \cup {NoConn}]
  /\ taking \in [Slaves -> Parcels \cup {NoParcel}]
  /\ first \in [Slaves -> BOOLEAN] /\ reqCnt \in [Slaves -> 0..ReqsMax + 2]
  /\ rejected \in 0..MaxConns
  /\ deaths \in 0..MaxDeaths /\ exposed \in Exposures

Init ==
  /\ backlog = 0 /\ arrived = 0 /\ dispatched = 0 /\ accepted = 0
  /\ toSlaves = <<>> /\ toMaster = <<>>
  /\ childDied = FALSE /\ awake = FALSE
  /\ spc = [s \in Slaves |-> "select"] /\ conn = [s \in Slaves |-> NoConn]
  /\ taking = [s \in Slaves |-> NoParcel]
  /\ first = [s \in Slaves |-> FALSE] /\ reqCnt = [s \in Slaves |-> 0]
  /\ rejected = 0 /\ deaths = 0
  /\ exposed \in Exposures

\* A client connects.
Arrive ==
  /\ arrived < IF exposed = {} THEN MaxConns ELSE MaxConnsFaulty
  /\ arrived' = arrived + 1
  /\ backlog' = backlog + 1
  /\ UNCHANGED <<dispatched, accepted, rejected, channel, signals, slave, history>>

-----------------------------------------------------------------------------
(* The master's loop: glite_srvbones_run and dispatchit                     *)

SelectReturns == awake \/ toMaster # <<>> \/ backlog > 0

\* Start a new slave for each dead one.
Reap ==
  /\ SelectReturns /\ childDied
  /\ childDied' = FALSE /\ awake' = FALSE
  /\ LET new(f, v) == [s \in Slaves |-> IF spc[s] = "zombie" THEN v ELSE f[s]]
     IN /\ spc' = new(spc, "select") /\ conn' = new(conn, NoConn)
        /\ taking' = new(taking, NoParcel)
        /\ first' = new(first, FALSE) /\ reqCnt' = new(reqCnt, 0)
  /\ UNCHANGED <<master, channel, history>>

\* The report of a slave, if it is newer than the last one.
NewAccepted ==
  IF /\ toMaster # <<>>
     /\ Head(toMaster) <= dispatched
     /\ Head(toMaster) > accepted \/ accepted > dispatched
  THEN Head(toMaster) ELSE accepted

\* Mutant: room for one slave more.
MutRoom(a) == dispatched < a \/ dispatched - a < Limit + Overload

\* Not overloaded, as far as the master knows.  The first disjunct is for a
\* counter that has wrapped around.
Room(a) == dispatched < a \/ dispatched - a < Limit

\* One pass: a report, if there is one, then a new connection, if there is one.
Pass ==
  /\ SelectReturns /\ ~childDied
  /\ toMaster # <<>> \/ backlog > 0
  /\ accepted' = NewAccepted
  /\ toMaster' = IF toMaster = <<>> THEN <<>> ELSE Tail(toMaster)
  /\ IF backlog = 0 THEN UNCHANGED <<backlog, dispatched, toSlaves, rejected>>
     ELSE /\ backlog' = backlog - 1
          /\ IF Room(NewAccepted)
             THEN /\ dispatched' = (dispatched + 1) % Modulus
                  /\ \/ /\ toSlaves' = Append(toSlaves, [id |-> arrived - backlog, seq |-> dispatched])
                        /\ UNCHANGED rejected
                     \/ /\ "send_fails" \in exposed
                        /\ rejected' = rejected + 1
                        /\ UNCHANGED toSlaves
             ELSE rejected' = rejected + 1 /\ UNCHANGED <<dispatched, toSlaves>>
  /\ UNCHANGED <<arrived, signals, slave, history>>

-----------------------------------------------------------------------------
(* slave                                                                    *)

Set(f, s, v) == [f EXCEPT ![s] = v]

\* The condition of the slave's loop
Works(s) == spc[s] = "select" /\ (reqCnt[s] < ReqsMax \/ (conn[s] # NoConn /\ first[s]))

\* exit; SIGCHLD interrupts select, unless it comes just before it.
Gone(s) ==
  /\ spc' = Set(spc, s, "zombie")
  /\ conn' = Set(conn, s, NoConn) /\ taking' = Set(taking, s, NoParcel)
  /\ childDied' = TRUE
  /\ \/ awake' = TRUE
     \/ "sig_race" \in exposed /\ awake' = awake

\* A request has been served: the connection stays open or is closed.
Serve(s) ==
  /\ Works(s) /\ conn[s] # NoConn
  /\ reqCnt' = Set(reqCnt, s, reqCnt[s] + 1)
  /\ first' = Set(first, s, FALSE)
  /\ conn' \in {conn, Set(conn, s, NoConn)}
  /\ UNCHANGED <<master, channel, signals, spc, taking, deaths, exposed>>

\* Nothing from the client for the idle timeout
Idle(s) ==
  /\ Works(s) /\ conn[s] # NoConn
  /\ conn' = Set(conn, s, NoConn)
  /\ UNCHANGED <<master, channel, signals, spc, taking, first, reqCnt, history>>

MayTake(s) == Works(s) /\ (conn[s] = NoConn \/ ~first[s]) /\ reqCnt[s] < ReqsMax

\* Take a connection over from the master, for an old one if need be ...
Take(s) ==
  /\ MayTake(s) /\ toSlaves # <<>>
  /\ taking' = Set(taking, s, Head(toSlaves))
  /\ toSlaves' = Tail(toSlaves)
  /\ conn' = Set(conn, s, NoConn)
  /\ spc' = Set(spc, s, "report")
  /\ UNCHANGED <<master, toMaster, signals, first, reqCnt, deaths, exposed>>

\* Mutant: the report is left out when the connection cannot be established.
MutReport(s) ==
  /\ spc[s] = "report"
  /\ reqCnt' = Set(reqCnt, s, reqCnt[s] + 1)
  /\ taking' = Set(taking, s, NoParcel)
  /\ spc' = Set(spc, s, "select")
  /\ \/ /\ toMaster' = Append(toMaster, taking[s].seq)
        /\ conn' = Set(conn, s, taking[s].id) /\ first' = Set(first, s, TRUE)
     \/ UNCHANGED <<conn, first, toMaster>>
  /\ UNCHANGED <<master, toSlaves, signals, history>>

\* ... report it, and establish it, which may fail.
Report(s) ==
  /\ spc[s] = "report"
  /\ toMaster' = Append(toMaster, taking[s].seq)
  /\ reqCnt' = Set(reqCnt, s, reqCnt[s] + 1)
  /\ taking' = Set(taking, s, NoParcel)
  /\ spc' = Set(spc, s, "select")
  /\ \/ conn' = Set(conn, s, taking[s].id) /\ first' = Set(first, s, TRUE)
     \/ UNCHANGED <<conn, first>>
  /\ UNCHANGED <<master, toSlaves, signals, history>>

\* Mutant: the dead slave is not noticed.
MutExit(s) ==
  /\ spc[s] = "select" /\ ~Works(s)
  /\ spc' = Set(spc, s, "zombie")
  /\ conn' = Set(conn, s, NoConn) /\ taking' = Set(taking, s, NoParcel)
  /\ UNCHANGED <<master, channel, signals, first, reqCnt, deaths, exposed>>

\* "commit suicide after that many connections"
Exit(s) ==
  /\ spc[s] = "select" /\ ~Works(s)
  /\ Gone(s)
  /\ UNCHANGED <<master, channel, first, reqCnt, deaths, exposed>>

\* A fatal error or a signal
Die(s) ==
  /\ "dies" \in exposed /\ deaths < MaxDeaths
  /\ spc[s] = "select" \/ (spc[s] = "report" /\ "dies_taking" \in exposed)
  /\ deaths' = deaths + 1
  /\ Gone(s)
  /\ UNCHANGED <<master, channel, first, reqCnt, exposed>>

-----------------------------------------------------------------------------
Slave(s) == Serve(s) \/ Idle(s) \/ Take(s) \/ Report(s) \/ Exit(s)

Next == Arrive \/ Reap \/ Pass \/ \E s \in Slaves : Slave(s) \/ Die(s)

Spec == Init /\ [][Next]_vars

\* The processes are scheduled, and a client that does nothing times out.
Fairness ==
  /\ WF_vars(Reap) /\ WF_vars(Pass)
  /\ \A s \in Slaves : WF_vars(Serve(s) \/ Idle(s) \/ Take(s) \/ Report(s) \/ Exit(s)) /\ SF_vars(Take(s))

FairSpec == Spec /\ Fairness

-----------------------------------------------------------------------------
(* Properties                                                               *)

\* The overload limit: although the master only knows what slaves report, in
\* whatever order, there are never more connections waiting for a slave than
\* it allows; and the last known served connection, and all before it, are not
\* waiting.  (Until the counters wrap around: from then on, to the first report
\* of a new number, the test for a wraparound lets every connection in.)
QueueBounded ==
  arrived < Modulus =>
    /\ Len(toSlaves) <= Limit
    /\ accepted > 0 => \A k \in 1..Len(toSlaves) : toSlaves[k].seq > accepted

\* The faults besides a slave that ends while it waits for a request
Faults == BonesExposures \ {"dies"}

\* No connection passed to the slaves waits forever, although slaves end: the
\* master brings them back to life; and an overload ends, across a wraparound
\* of the counters.  (There are MaxConns connections, taken in their order; each
\* one is taken if the channel is empty again and again.)
EveryoneTaken ==
  exposed \cap Faults = {} =>
    []<>(toSlaves = <<>>) /\ (~Room(accepted) ~> Room(accepted))

=============================================================================
