--------------------------- MODULE SrvBonesProofs ---------------------------
(***************************************************************************)
(* Proofs about SrvBones: type correctness and the overload limit, for any  *)
(* number of slaves, connections and deaths, any limits and every exposure. *)
(***************************************************************************)
EXTENDS SrvBones, DataFacts

-----------------------------------------------------------------------------
(* The inductive invariant.                                                 *)

\* A slave takes a connection only while it may serve another request.
SlaveInv ==
  \A s \in Slaves :
    /\ spc[s] = "report" => reqCnt[s] < ReqsMax /\ taking[s] \in Parcels
    /\ first[s] => reqCnt[s] <= ReqsMax
    /\ reqCnt[s] <= ReqsMax + 1

\* Each connection that arrived is waiting in listen(), passed on or rejected.
CountInv == rejected + backlog <= arrived

\* The numbers, until they wrap around.  The connections in the channel have
\* increasing numbers, all of them above the ones that were taken, reported or
\* noted by the master; so the channel holds at most dispatched - accepted.
NumberInv ==
  arrived < Modulus =>
    /\ dispatched + backlog <= arrived
    /\ accepted < dispatched \/ accepted = 0
    /\ dispatched - accepted <= Limit
    /\ \A k \in 1..Len(toSlaves) : toSlaves[k].seq + (Len(toSlaves) - k) < dispatched
    /\ \A k, l \in 1..Len(toSlaves) : k < l => toSlaves[k].seq < toSlaves[l].seq
    /\ \A s \in Slaves : spc[s] = "report" =>
         /\ taking[s].seq < dispatched
         /\ \A k \in 1..Len(toSlaves) : taking[s].seq < toSlaves[k].seq
    /\ \A i \in 1..Len(toMaster) :
         /\ toMaster[i] < dispatched
         /\ \A k \in 1..Len(toSlaves) : toMaster[i] < toSlaves[k].seq
    /\ accepted > 0 => \A k \in 1..Len(toSlaves) : accepted < toSlaves[k].seq

IInv == TypeOK /\ SlaveInv /\ CountInv /\ NumberInv

-----------------------------------------------------------------------------
(* The operators.                                                           *)

LEMMA LimitNat == Limit \in Nat /\ Modulus \in Nat \ {0, 1}
<1>1. Cardinality(Slaves) \in Nat /\ Overload \in Nat
  BY BonesAssumption, FS_CardinalityType
<1>2. Limit \in Nat
  BY <1>1 DEF Limit
<1> QED BY <1>2, BonesAssumption

LEMMA ParcelTypes ==
  \A p \in Parcels : p.id \in 0..MaxConns - 1 /\ p.seq \in 0..Modulus - 1
  BY DEF Parcels, Conns

\* The channel after the head has been taken.
LEMMA TailShape ==
  ASSUME NEW S, NEW c \in Seq(S), c # <<>>
  PROVE  /\ Len(c) \in Nat \ {0} /\ c[1] \in S /\ Head(c) = c[1]
         /\ Tail(c) \in Seq(S) /\ Len(Tail(c)) = Len(c) - 1
         /\ \A k \in 1..Len(c) - 1 : Tail(c)[k] = c[k + 1]
<1>1. Len(c) \in Nat \ {0}
  BY EmptySeq
<1>2. c[1] \in S
  BY <1>1, ElementOfSeq
<1>3. Tail(c) \in Seq(S) /\ Len(Tail(c)) = Len(c) - 1
  BY HeadTailProperties
<1>4. ASSUME NEW k \in 1..Len(c) - 1 PROVE Tail(c)[k] = c[k + 1]
  BY <1>1, <1>3, <1>4, HeadTailProperties
<1> QED BY <1>1, <1>2, <1>3, <1>4

\* The report the master reads moves its estimate forward, or not at all.
LEMMA NewAcceptedType ==
  ASSUME TypeOK
  PROVE  /\ NewAccepted \in 0..Modulus - 1
         /\ accepted <= dispatched => accepted <= NewAccepted /\ NewAccepted <= dispatched
         /\ NewAccepted = accepted \/ (toMaster # <<>> /\ NewAccepted = toMaster[1])
<1>1. CASE toMaster = <<>>
  BY <1>1 DEF NewAccepted, TypeOK
<1>2. CASE toMaster # <<>>
  <2> DEFINE S == 0..Modulus - 1
  <2>1. Head(toMaster) = toMaster[1] /\ Head(toMaster) \in S
    <3>1. toMaster \in Seq(S)
      BY DEF TypeOK
    <3> HIDE DEF S
    <3> QED BY <1>2, <3>1, TailShape
  <2> QED BY <1>2, <2>1, LimitNat DEF NewAccepted, TypeOK
<1> QED BY <1>1, <1>2

-----------------------------------------------------------------------------
(* The types.                                                               *)

LEMMA TypeStep == IInv /\ [Next]_vars => TypeOK'
<1> SUFFICES ASSUME IInv, [Next]_vars PROVE TypeOK'
  OBVIOUS
<1>0. TypeOK /\ SlaveInv /\ CountInv
  BY DEF IInv
<1> USE BonesAssumption DEF master, channel, signals, slave, history, Set
<1>1. CASE UNCHANGED vars
  BY <1>0, <1>1 DEF TypeOK, vars
<1>2. CASE Arrive
  <2>1. arrived' \in 0..MaxConns
    BY <1>0, <1>2 DEF TypeOK, Arrive
  <2>2. backlog' \in 0..MaxConns
    BY <1>0, <1>2, <2>1 DEF TypeOK, Arrive, CountInv
  <2> QED BY <1>0, <1>2, <2>1, <2>2 DEF TypeOK, Arrive
<1>3. CASE Reap
  <2>1. spc' \in [Slaves -> {"select", "report", "zombie"}] /\ first' \in [Slaves -> BOOLEAN]
    BY <1>0, <1>3 DEF TypeOK, Reap
  <2>2. conn' \in [Slaves -> Conns \cup {NoConn}]
    BY <1>0, <1>3 DEF TypeOK, Reap
  <2>3. taking' \in [Slaves -> Parcels \cup {NoParcel}]
    BY <1>0, <1>3 DEF TypeOK, Reap
  <2>4. reqCnt' \in [Slaves -> 0..ReqsMax + 2]
    BY <1>0, <1>3 DEF TypeOK, Reap
  <2> QED BY <1>0, <1>3, <2>1, <2>2, <2>3, <2>4 DEF TypeOK, Reap
<1>4. CASE Pass
  <2>1. accepted' \in 0..Modulus - 1
    BY <1>0, <1>4, NewAcceptedType DEF Pass
  <2>2. toMaster' \in Seq(0..Modulus - 1)
    BY <1>0, <1>4, EmptySeq, TailShape DEF TypeOK, Pass
  <2>3. dispatched' \in 0..Modulus - 1
    <3>1. (dispatched + 1) % Modulus \in 0..Modulus - 1
      BY <1>0, LimitNat DEF TypeOK
    <3> QED BY <1>0, <1>4, <3>1 DEF TypeOK, Pass
  <2>4. backlog' \in 0..MaxConns /\ rejected' \in 0..MaxConns
    <3>1. /\ backlog \in 0..MaxConns /\ rejected \in 0..MaxConns /\ arrived \in 0..MaxConns
          /\ rejected + backlog <= arrived
      BY <1>0 DEF TypeOK, CountInv
    <3>2. \/ backlog' = backlog /\ rejected' = rejected
          \/ backlog # 0 /\ backlog' = backlog - 1 /\ rejected' \in {rejected, rejected + 1}
      BY <1>4 DEF Pass
    <3> QED BY <3>1, <3>2
  <2>5. toSlaves' \in Seq(Parcels)
    <3> DEFINE new == [id |-> arrived - backlog, seq |-> dispatched]
    <3>1. toSlaves' = toSlaves \/ (backlog # 0 /\ toSlaves' = Append(toSlaves, new))
      BY <1>4 DEF Pass
    <3>2. backlog # 0 => new \in Parcels
      BY <1>0 DEF TypeOK, CountInv, Parcels, Conns
    <3> HIDE DEF new
    <3>3. CASE backlog # 0 /\ toSlaves' = Append(toSlaves, new)
      BY <1>0, <3>2, <3>3, AppendProperties DEF TypeOK
    <3> QED BY <1>0, <3>1, <3>3 DEF TypeOK
  <2> QED BY <1>0, <1>4, <2>1, <2>2, <2>3, <2>4, <2>5 DEF TypeOK, Pass
<1>5. ASSUME NEW s \in Slaves, Serve(s) PROVE TypeOK'
  <2>1. reqCnt' \in [Slaves -> 0..ReqsMax + 2]
    BY <1>0, <1>5 DEF TypeOK, SlaveInv, Serve, Works
  <2>2. conn' \in [Slaves -> Conns \cup {NoConn}]
    BY <1>0, <1>5 DEF TypeOK, Serve
  <2> QED BY <1>0, <1>5, <2>1, <2>2 DEF TypeOK, Serve
<1>6. ASSUME NEW s \in Slaves, Idle(s) PROVE TypeOK'
  BY <1>0, <1>6 DEF TypeOK, Idle
<1>7. ASSUME NEW s \in Slaves, Take(s) PROVE TypeOK'
  <2>1. Head(toSlaves) \in Parcels /\ Tail(toSlaves) \in Seq(Parcels)
    BY <1>0, <1>7, TailShape DEF TypeOK, Take
  <2> QED BY <1>0, <1>7, <2>1 DEF TypeOK, Take
<1>8. ASSUME NEW s \in Slaves, Report(s) PROVE TypeOK'
  <2>1. taking[s].id \in Conns /\ taking[s].seq \in 0..Modulus - 1
    BY <1>0, <1>8, ParcelTypes DEF SlaveInv, Report, Conns
  <2>2. toMaster' \in Seq(0..Modulus - 1)
    BY <1>0, <1>8, <2>1, AppendProperties DEF TypeOK, Report
  <2>3. reqCnt' \in [Slaves -> 0..ReqsMax + 2]
    BY <1>0, <1>8 DEF TypeOK, SlaveInv, Report
  <2>4. conn' \in [Slaves -> Conns \cup {NoConn}] /\ first' \in [Slaves -> BOOLEAN]
    BY <1>0, <1>8, <2>1 DEF TypeOK, Report
  <2> QED BY <1>0, <1>8, <2>2, <2>3, <2>4 DEF TypeOK, Report
<1>9. ASSUME NEW s \in Slaves, Gone(s),
             UNCHANGED <<master, channel, first, reqCnt, exposed>>, deaths' \in 0..MaxDeaths
      PROVE  TypeOK'
  BY <1>0, <1>9 DEF TypeOK, Gone
<1>10. ASSUME NEW s \in Slaves, Exit(s) PROVE TypeOK'
  BY <1>0, <1>9, <1>10 DEF TypeOK, Exit
<1>11. ASSUME NEW s \in Slaves, Die(s) PROVE TypeOK'
  <2>1. deaths' \in 0..MaxDeaths
    BY <1>0, <1>11 DEF TypeOK, Die
  <2> QED BY <1>9, <1>11, <2>1 DEF Die
<1> QED BY <1>1, <1>2, <1>3, <1>4, <1>5, <1>6, <1>7, <1>8, <1>10, <1>11 DEF Next, Slave

-----------------------------------------------------------------------------
(* The slaves and the counters.                                             *)

LEMMA SlaveStep == IInv /\ [Next]_vars => SlaveInv'
<1> SUFFICES ASSUME IInv, [Next]_vars PROVE SlaveInv'
  OBVIOUS
<1>0. TypeOK /\ SlaveInv
  BY DEF IInv
<1> USE BonesAssumption DEF slave, Set
<1>1. CASE UNCHANGED slave
  BY <1>0, <1>1 DEF SlaveInv
<1>2. CASE Arrive \/ Pass \/ UNCHANGED vars
  BY <1>1, <1>2 DEF Arrive, Pass, vars
<1>3. CASE Reap
  BY <1>0, <1>3 DEF TypeOK, SlaveInv, Reap
<1>4. ASSUME NEW s \in Slaves, Serve(s) PROVE SlaveInv'
  <2>1. \A r \in Slaves : reqCnt'[r] = (IF r = s THEN reqCnt[s] + 1 ELSE reqCnt[r])
                         /\ (first'[r] => r # s /\ first[r])
    BY <1>0, <1>4 DEF TypeOK, Serve
  <2>2. spc[s] = "select" /\ reqCnt[s] <= ReqsMax /\ spc' = spc /\ taking' = taking
    BY <1>0, <1>4 DEF TypeOK, SlaveInv, Serve, Works
  <2> QED BY <1>0, <2>1, <2>2 DEF TypeOK, SlaveInv
<1>5. ASSUME NEW s \in Slaves, Idle(s) PROVE SlaveInv'
  BY <1>0, <1>5 DEF SlaveInv, Idle
<1>6. ASSUME NEW s \in Slaves, Take(s) PROVE SlaveInv'
  <2>1. Head(toSlaves) \in Parcels
    BY <1>0, <1>6, TailShape DEF TypeOK, Take
  <2> QED BY <1>0, <1>6, <2>1 DEF TypeOK, SlaveInv, Take, MayTake
<1>7. ASSUME NEW s \in Slaves, Report(s) PROVE SlaveInv'
  <2>1. reqCnt[s] < ReqsMax /\ reqCnt[s] \in Nat
    BY <1>0, <1>7 DEF TypeOK, SlaveInv, Report
  <2>2. \A r \in Slaves : /\ reqCnt'[r] = (IF r = s THEN reqCnt[s] + 1 ELSE reqCnt[r])
                          /\ spc'[r] = (IF r = s THEN "select" ELSE spc[r])
                          /\ (r # s => taking'[r] = taking[r])
                          /\ (r # s /\ first'[r] => first[r])
    BY <1>0, <1>7 DEF TypeOK, Report
  <2>3. reqCnt'[s] <= ReqsMax
    BY <2>1, <2>2
  <2>4. ASSUME NEW r \in Slaves
        PROVE  /\ spc'[r] = "report" => reqCnt'[r] < ReqsMax /\ taking'[r] \in Parcels
               /\ first'[r] => reqCnt'[r] <= ReqsMax
               /\ reqCnt'[r] <= ReqsMax + 1
    <3>1. CASE r = s
      <4>1. spc'[r] = "select" /\ reqCnt'[r] \in Nat
        BY <2>1, <2>2, <3>1
      <4> QED BY <2>3, <3>1, <4>1
    <3>2. CASE r # s
      BY <1>0, <2>2, <3>2 DEF SlaveInv
    <3> QED BY <3>1, <3>2
  <2> QED BY <2>4 DEF SlaveInv
<1>8. ASSUME NEW s \in Slaves, Exit(s) \/ Die(s) PROVE SlaveInv'
  BY <1>0, <1>8 DEF TypeOK, SlaveInv, Exit, Die, Gone
<1> QED BY <1>2, <1>3, <1>4, <1>5, <1>6, <1>7, <1>8 DEF Next, Slave

LEMMA CountStep == IInv /\ [Next]_vars => CountInv'
<1> SUFFICES ASSUME IInv, [Next]_vars PROVE CountInv'
  OBVIOUS
<1>0. TypeOK /\ CountInv
  BY DEF IInv
<1> USE DEF master, CountInv
<1>1. CASE UNCHANGED master
  BY <1>0, <1>1
<1>2. CASE Arrive
  BY <1>0, <1>2 DEF TypeOK, Arrive
<1>3. CASE Pass
  BY <1>0, <1>3 DEF TypeOK, Pass
<1>4. CASE Reap \/ UNCHANGED vars
  BY <1>1, <1>4 DEF Reap, vars
<1>5. ASSUME NEW s \in Slaves, Slave(s) \/ Die(s) PROVE UNCHANGED master
  BY <1>5 DEF Slave, Die, Serve, Idle, Take, Report, Exit
<1> QED BY <1>1, <1>2, <1>3, <1>4, <1>5 DEF Next

-----------------------------------------------------------------------------
(* The numbers.                                                             *)

\* The lengths and the elements of the two channels.
LEMMA ChannelTypes ==
  ASSUME TypeOK
  PROVE  /\ Len(toSlaves) \in Nat /\ Len(toMaster) \in Nat
         /\ \A k \in 1..Len(toSlaves) : toSlaves[k] \in Parcels /\ toSlaves[k].seq \in Nat
         /\ \A i \in 1..Len(toMaster) : toMaster[i] \in Nat
<1>1. Len(toSlaves) \in Nat /\ Len(toMaster) \in Nat
  BY LenProperties DEF TypeOK
<1>2. ASSUME NEW k \in 1..Len(toSlaves) PROVE toSlaves[k] \in Parcels /\ toSlaves[k].seq \in Nat
  <2>1. toSlaves[k] \in Parcels
    BY ElementOfSeq DEF TypeOK
  <2> QED BY <2>1, ParcelTypes
<1>3. ASSUME NEW i \in 1..Len(toMaster) PROVE toMaster[i] \in Nat
  <2>1. toMaster[i] \in 0..Modulus - 1
    BY ElementOfSeq DEF TypeOK
  <2> QED BY <2>1
<1> QED BY <1>1, <1>2, <1>3

\* A pass of the master: the report, then the connection.
LEMMA PassStep == IInv /\ Pass => NumberInv'
<1> SUFFICES ASSUME IInv, Pass, arrived < Modulus PROVE NumberInv'
  BY DEF NumberInv, Pass
<1>0. TypeOK /\ CountInv
  BY DEF IInv
<1>1. /\ backlog \in Nat /\ arrived \in Nat /\ dispatched \in Nat /\ accepted \in Nat
      /\ Modulus \in Nat /\ Limit \in Nat
  BY <1>0, LimitNat DEF TypeOK
<1>a. /\ dispatched + backlog <= arrived
      /\ accepted < dispatched \/ accepted = 0
      /\ accepted <= dispatched /\ dispatched - accepted <= Limit
  BY <1>1 DEF IInv, NumberInv
<1>2. /\ \A k \in 1..Len(toSlaves) : toSlaves[k].seq + (Len(toSlaves) - k) < dispatched
      /\ \A k, l \in 1..Len(toSlaves) : k < l => toSlaves[k].seq < toSlaves[l].seq
      /\ \A s \in Slaves : spc[s] = "report" =>
           /\ taking[s].seq < dispatched
           /\ \A k \in 1..Len(toSlaves) : taking[s].seq < toSlaves[k].seq
      /\ \A i \in 1..Len(toMaster) :
           /\ toMaster[i] < dispatched
           /\ \A k \in 1..Len(toSlaves) : toMaster[i] < toSlaves[k].seq
      /\ accepted > 0 => \A k \in 1..Len(toSlaves) : accepted < toSlaves[k].seq
  BY DEF IInv, NumberInv
<1>3. /\ Len(toSlaves) \in Nat /\ Len(toMaster) \in Nat
      /\ \A k \in 1..Len(toSlaves) : toSlaves[k].seq \in Nat
      /\ \A i \in 1..Len(toMaster) : toMaster[i] \in Nat
  BY <1>0, ChannelTypes
<1>4. \A s \in Slaves : spc[s] = "report" => taking[s].seq \in Nat
  BY ParcelTypes DEF IInv, SlaveInv
<1> DEFINE a == NewAccepted
<1>5. a \in Nat /\ accepted <= a /\ a <= dispatched
  BY <1>0, <1>1, <1>a, NewAcceptedType
<1>6. a < dispatched \/ a = 0
  <2>1. ASSUME toMaster # <<>>, a = toMaster[1] PROVE a < dispatched
    <3>1. 1 \in 1..Len(toMaster)
      BY <1>0, <2>1, EmptySeq DEF TypeOK
    <3> QED BY <1>2, <2>1, <3>1
  <2> QED BY <1>0, <1>a, <2>1, NewAcceptedType
<1>7. a > 0 => \A k \in 1..Len(toSlaves) : a < toSlaves[k].seq
  <2>1. ASSUME toMaster # <<>>, a = toMaster[1] PROVE \A k \in 1..Len(toSlaves) : a < toSlaves[k].seq
    <3>1. 1 \in 1..Len(toMaster)
      BY <1>0, <2>1, EmptySeq DEF TypeOK
    <3> QED BY <1>2, <2>1, <3>1
  <2> QED BY <1>0, <1>2, <2>1, NewAcceptedType
<1>8. accepted' = a /\ arrived' = arrived /\ spc' = spc /\ taking' = taking
  BY DEF Pass, slave
<1> HIDE DEF a
<1>9. Len(toMaster') \in Nat /\ \A i \in 1..Len(toMaster') : \E j \in 1..Len(toMaster) : toMaster'[i] = toMaster[j]
  <2>1. CASE toMaster = <<>>
    BY <1>3, <2>1 DEF Pass
  <2>2. CASE toMaster # <<>>
    <3>1. /\ Len(toMaster) \in Nat \ {0}
          /\ Len(Tail(toMaster)) = Len(toMaster) - 1
          /\ \A k \in 1..Len(toMaster) - 1 : Tail(toMaster)[k] = toMaster[k + 1]
      BY <1>0, <2>2, TailShape DEF TypeOK
    <3>2. toMaster' = Tail(toMaster)
      BY <2>2 DEF Pass
    <3>3. ASSUME NEW i \in 1..Len(toMaster') PROVE \E j \in 1..Len(toMaster) : toMaster'[i] = toMaster[j]
      <4>1. i + 1 \in 1..Len(toMaster) /\ toMaster'[i] = toMaster[i + 1]
        BY <3>1, <3>2
      <4> QED BY <4>1
    <3> QED BY <3>1, <3>2, <3>3
  <2> QED BY <2>1, <2>2
<1>10. \A i \in 1..Len(toMaster') :
         /\ toMaster'[i] \in Nat /\ toMaster'[i] < dispatched
         /\ \A k \in 1..Len(toSlaves) : toMaster'[i] < toSlaves[k].seq
  BY <1>2, <1>3, <1>9
<1>11. CASE UNCHANGED <<dispatched, toSlaves>>
  <2>1. backlog' \in Nat /\ backlog' <= backlog
    BY <1>1 DEF Pass
  <2>2. dispatched' + backlog' <= arrived'
    <3>1. dispatched' = dispatched /\ arrived' = arrived
      BY <1>8, <1>11
    <3>2. \A d, b, c, n \in Nat : d + b <= n /\ c <= b => d + c <= n
      OBVIOUS
    <3> QED BY <1>1, <1>a, <2>1, <3>1, <3>2
  <2>3. (accepted' < dispatched' \/ accepted' = 0) /\ dispatched' - accepted' <= Limit
    BY <1>1, <1>a, <1>5, <1>6, <1>8, <1>11
  <2> QED BY <1>2, <1>7, <1>8, <1>10, <1>11, <2>2, <2>3 DEF NumberInv
<1>12. CASE ~UNCHANGED <<dispatched, toSlaves>>
  <2>1. backlog # 0 /\ Room(a) /\ dispatched' = (dispatched + 1) % Modulus /\ backlog' = backlog - 1
    BY <1>12 DEF Pass, a
  <2>2. dispatched' = dispatched + 1
    <3>1. dispatched + 1 \in 0..Modulus - 1
      BY <1>1, <1>a, <2>1
    <3> QED BY <1>1, <2>1, <3>1
  <2>3. dispatched - a < Limit
    BY <1>1, <1>5, <2>1 DEF Room
  <2>4. dispatched' + backlog' <= arrived'
    BY <1>1, <1>a, <1>8, <2>1, <2>2
  <2>5. (accepted' < dispatched' \/ accepted' = 0) /\ dispatched' - accepted' <= Limit
    BY <1>1, <1>5, <1>8, <2>2, <2>3
  <2> DEFINE new == [id |-> arrived - backlog, seq |-> dispatched]
  <2>6. toSlaves' = toSlaves \/ toSlaves' = Append(toSlaves, new)
    BY DEF Pass
  <2>7. CASE toSlaves' = toSlaves
    <3>1. \A k \in 1..Len(toSlaves) : toSlaves[k].seq + (Len(toSlaves) - k) < dispatched'
      BY <1>1, <1>2, <1>3, <2>2
    <3>2. \A s \in Slaves : spc[s] = "report" => taking[s].seq < dispatched'
      BY <1>1, <1>2, <1>4, <2>2
    <3>3. \A i \in 1..Len(toMaster') : toMaster'[i] < dispatched'
      BY <1>1, <1>10, <2>2
    <3> QED BY <1>2, <1>7, <1>8, <1>10, <2>4, <2>5, <2>7, <3>1, <3>2, <3>3 DEF NumberInv
  <2>8. CASE toSlaves' = Append(toSlaves, new)
    <3>1. new \in Parcels /\ new.seq = dispatched
      <4>1. arrived - backlog \in 0..MaxConns - 1
        BY <1>0, <2>1, BonesAssumption DEF TypeOK, CountInv
      <4> QED BY <1>0, <4>1 DEF TypeOK, Parcels, Conns
    <3> HIDE DEF new
    <3>2. /\ Len(toSlaves') = Len(toSlaves) + 1
          /\ \A k \in 1..Len(toSlaves) : toSlaves'[k] = toSlaves[k]
          /\ toSlaves'[Len(toSlaves) + 1] = new
      BY <1>0, <2>8, <3>1, AppendProperties DEF TypeOK
    <3>3. ASSUME NEW k \in 1..Len(toSlaves')
          PROVE  (k \in 1..Len(toSlaves) /\ toSlaves'[k].seq = toSlaves[k].seq)
                 \/ (k = Len(toSlaves) + 1 /\ toSlaves'[k].seq = dispatched)
      BY <1>3, <3>1, <3>2
    <3>4. ASSUME NEW k \in 1..Len(toSlaves')
          PROVE  toSlaves'[k].seq + (Len(toSlaves') - k) < dispatched'
      <4>1. CASE k \in 1..Len(toSlaves) /\ toSlaves'[k].seq = toSlaves[k].seq
        <5>1. toSlaves[k].seq + (Len(toSlaves) - k) < dispatched /\ toSlaves[k].seq \in Nat
          BY <1>2, <1>3, <4>1
        <5> QED BY <1>1, <1>3, <2>2, <3>2, <4>1, <5>1
      <4>2. CASE k = Len(toSlaves) + 1 /\ toSlaves'[k].seq = dispatched
        BY <1>1, <1>3, <2>2, <3>2, <4>2
      <4> QED BY <3>3, <4>1, <4>2
    <3>5. ASSUME NEW k \in 1..Len(toSlaves'), NEW l \in 1..Len(toSlaves'), k < l
          PROVE  toSlaves'[k].seq < toSlaves'[l].seq
      <4>1. k \in 1..Len(toSlaves) /\ toSlaves'[k].seq = toSlaves[k].seq
        BY <1>3, <3>2, <3>3, <3>5
      <4>2. toSlaves[k].seq < dispatched
        BY <1>1, <1>2, <1>3, <4>1
      <4> QED BY <1>2, <3>3, <3>5, <4>1, <4>2
    <3>6. ASSUME NEW x \in Nat, x < dispatched, NEW k \in 1..Len(toSlaves'),
                 \A l \in 1..Len(toSlaves) : x < toSlaves[l].seq
          PROVE  x < toSlaves'[k].seq
      BY <3>3, <3>6
    <3>7. ASSUME NEW s \in Slaves, spc[s] = "report"
          PROVE  /\ taking[s].seq < dispatched'
                 /\ \A k \in 1..Len(toSlaves') : taking[s].seq < toSlaves'[k].seq
      BY <1>1, <1>2, <1>4, <2>2, <3>6, <3>7
    <3>8. ASSUME NEW i \in 1..Len(toMaster')
          PROVE  /\ toMaster'[i] < dispatched'
                 /\ \A k \in 1..Len(toSlaves') : toMaster'[i] < toSlaves'[k].seq
      <4>1. /\ toMaster'[i] \in Nat /\ toMaster'[i] < dispatched
            /\ \A k \in 1..Len(toSlaves) : toMaster'[i] < toSlaves[k].seq
        BY <1>10
      <4>2. toMaster'[i] < dispatched'
        BY <1>1, <2>2, <4>1
      <4> QED BY ONLY <3>6, <4>1, <4>2
    <3>9. ASSUME a > 0 PROVE \A k \in 1..Len(toSlaves') : a < toSlaves'[k].seq
      <4>1. a < dispatched
        BY <1>1, <1>5, <1>6, <3>9
      <4> QED BY <1>5, <1>7, <3>6, <3>9, <4>1
    <3> QED BY <1>8, <2>4, <2>5, <3>4, <3>5, <3>7, <3>8, <3>9 DEF NumberInv
  <2> QED BY <2>6, <2>7, <2>8
<1> QED BY <1>11, <1>12

\* A slave takes the connection at the head of the channel.
LEMMA TakeStep ==
  ASSUME IInv, NEW s \in Slaves, Take(s)
  PROVE  NumberInv'
<1> SUFFICES ASSUME arrived < Modulus PROVE NumberInv'
  BY DEF NumberInv, Take, master
<1>1. TypeOK /\ NumberInv
  BY DEF IInv
<1>2. /\ Len(toSlaves) \in Nat \ {0} /\ toSlaves[1] \in Parcels /\ Head(toSlaves) = toSlaves[1]
      /\ Len(toSlaves') = Len(toSlaves) - 1
      /\ \A k \in 1..Len(toSlaves) - 1 : toSlaves'[k] = toSlaves[k + 1]
  BY <1>1, TailShape DEF TypeOK, Take
<1>3. UNCHANGED <<arrived, backlog, dispatched, accepted, toMaster>>
  BY DEF Take, master
<1>4. \A k \in 1..Len(toSlaves) : toSlaves[k].seq \in Nat
  BY <1>1, ChannelTypes
<1>5. \A k \in 1..Len(toSlaves') : k + 1 \in 1..Len(toSlaves) /\ toSlaves'[k] = toSlaves[k + 1]
  BY <1>2
<1>6. \A r \in Slaves : /\ taking'[r] = IF r = s THEN toSlaves[1] ELSE taking[r]
                       /\ spc'[r] = IF r = s THEN "report" ELSE spc[r]
  BY <1>1, <1>2 DEF TypeOK, Take, Set
<1>7. ASSUME NEW k \in 1..Len(toSlaves')
      PROVE  toSlaves'[k].seq + (Len(toSlaves') - k) < dispatched'
  <2>1. toSlaves[k + 1].seq + (Len(toSlaves) - (k + 1)) < dispatched
    BY <1>1, <1>5 DEF NumberInv
  <2>2. Len(toSlaves) - (k + 1) = Len(toSlaves') - k
    BY <1>2
  <2> QED BY <1>3, <1>5, <2>1, <2>2
<1>8. ASSUME NEW k \in 1..Len(toSlaves'), NEW l \in 1..Len(toSlaves'), k < l
      PROVE  toSlaves'[k].seq < toSlaves'[l].seq
  <2>1. k + 1 < l + 1
    BY <1>8
  <2>2. toSlaves[k + 1].seq < toSlaves[l + 1].seq
    BY <1>1, <1>5, <2>1 DEF NumberInv
  <2> QED BY <1>5, <2>2
<1>9. ASSUME NEW r \in Slaves, spc'[r] = "report"
      PROVE  /\ taking'[r].seq < dispatched'
             /\ \A k \in 1..Len(toSlaves') : taking'[r].seq < toSlaves'[k].seq
  <2>1. CASE r # s
    BY <1>1, <1>3, <1>5, <1>6, <1>9, <2>1 DEF NumberInv
  <2>2. CASE r = s
    <3>1. 1 \in 1..Len(toSlaves)
      BY <1>2
    <3>2. toSlaves[1].seq + (Len(toSlaves) - 1) < dispatched
      BY <1>1, <3>1 DEF NumberInv
    <3>3. toSlaves[1].seq < dispatched
      BY <1>1, <1>2, <1>4, <3>1, <3>2 DEF TypeOK
    <3>4. ASSUME NEW k \in 1..Len(toSlaves') PROVE toSlaves[1].seq < toSlaves'[k].seq
      <4>1. 1 < k + 1 /\ k + 1 \in 1..Len(toSlaves)
        BY <1>5
      <4> QED BY <1>1, <1>5, <3>1, <4>1 DEF NumberInv
    <3> QED BY <1>3, <1>6, <2>2, <3>3, <3>4
  <2> QED BY <2>1, <2>2
<1>10. ASSUME NEW i \in 1..Len(toMaster')
       PROVE  /\ toMaster'[i] < dispatched'
              /\ \A k \in 1..Len(toSlaves') : toMaster'[i] < toSlaves'[k].seq
  BY <1>1, <1>3, <1>5 DEF NumberInv
<1>11. ASSUME accepted' > 0 PROVE \A k \in 1..Len(toSlaves') : accepted' < toSlaves'[k].seq
  BY <1>1, <1>3, <1>5, <1>11 DEF NumberInv
<1>12. /\ dispatched' + backlog' <= arrived'
       /\ accepted' < dispatched' \/ accepted' = 0
       /\ dispatched' - accepted' <= Limit
  BY <1>1, <1>3 DEF NumberInv
<1> QED BY <1>7, <1>8, <1>9, <1>10, <1>11, <1>12 DEF NumberInv

\* A slave reports the number of its connection.
LEMMA ReportStep ==
  ASSUME IInv, NEW s \in Slaves, Report(s)
  PROVE  NumberInv'
<1> SUFFICES ASSUME arrived < Modulus PROVE NumberInv'
  BY DEF NumberInv, Report, master
<1>1. TypeOK /\ NumberInv /\ SlaveInv
  BY DEF IInv
<1>2. UNCHANGED <<arrived, backlog, dispatched, accepted, toSlaves>>
  BY DEF Report, master
<1>3. taking[s].seq \in 0..Modulus - 1
  BY <1>1, ParcelTypes DEF SlaveInv, Report
<1>4. /\ Len(toMaster') = Len(toMaster) + 1 /\ Len(toMaster) \in Nat
      /\ \A i \in 1..Len(toMaster) : toMaster'[i] = toMaster[i]
      /\ toMaster'[Len(toMaster) + 1] = taking[s].seq
  <2>1. toMaster' = Append(toMaster, taking[s].seq)
    BY DEF Report
  <2> QED BY <1>1, <1>3, <2>1, AppendProperties, LenProperties DEF TypeOK
<1>5. \A r \in Slaves : spc'[r] = "report" => spc[r] = "report" /\ taking'[r] = taking[r]
  BY <1>1 DEF TypeOK, Report, Set
<1>6. ASSUME NEW i \in 1..Len(toMaster')
      PROVE  /\ toMaster'[i] < dispatched
             /\ \A k \in 1..Len(toSlaves) : toMaster'[i] < toSlaves[k].seq
  <2>1. CASE i \in 1..Len(toMaster)
    BY <1>1, <1>4, <2>1 DEF NumberInv
  <2>2. CASE i = Len(toMaster) + 1
    BY <1>1, <1>4, <2>2 DEF NumberInv, Report
  <2> QED BY <1>4, <2>1, <2>2
<1> QED BY <1>1, <1>2, <1>5, <1>6 DEF NumberInv

LEMMA NumberStep == IInv /\ [Next]_vars => NumberInv'
<1> SUFFICES ASSUME IInv, [Next]_vars PROVE NumberInv'
  OBVIOUS
<1>0. TypeOK /\ NumberInv
  BY DEF IInv
<1>1. ASSUME UNCHANGED <<dispatched, accepted, toSlaves, toMaster>>,
             arrived' \in Nat, dispatched + backlog <= arrived => dispatched + backlog' <= arrived',
             arrived <= arrived',
             \A s \in Slaves : spc'[s] = "report" => spc[s] = "report" /\ taking'[s] = taking[s]
      PROVE  NumberInv'
  <2> SUFFICES ASSUME arrived' < Modulus PROVE NumberInv'
    BY DEF NumberInv
  <2>1. arrived < Modulus
    BY <1>0, <1>1, LimitNat DEF TypeOK
  <2> QED BY <1>0, <1>1, <2>1 DEF NumberInv
<1>2. CASE Arrive
  <2>1. UNCHANGED <<dispatched, accepted, toSlaves, toMaster, spc, taking>>
    BY <1>2 DEF Arrive, channel, slave
  <2>2. arrived' = arrived + 1 /\ backlog' = backlog + 1
    BY <1>2 DEF Arrive
  <2>3. arrived' \in Nat /\ arrived <= arrived' /\ (dispatched + backlog <= arrived => dispatched + backlog' <= arrived')
    BY <1>0, <2>2 DEF TypeOK
  <2> QED BY <1>1, <2>1, <2>3
<1>3. ASSUME UNCHANGED <<master, channel>>,
             \A s \in Slaves : spc'[s] = "report" => spc[s] = "report" /\ taking'[s] = taking[s]
      PROVE  NumberInv'
  <2>1. UNCHANGED <<dispatched, accepted, toSlaves, toMaster, arrived, backlog>>
    BY <1>3 DEF master, channel
  <2>2. arrived' \in Nat /\ arrived <= arrived'
    BY <1>0, <2>1 DEF TypeOK
  <2> QED BY <1>1, <1>3, <2>1, <2>2
<1>4. CASE Reap
  BY <1>0, <1>3, <1>4 DEF TypeOK, Reap
<1>5. CASE UNCHANGED vars
  BY <1>3, <1>5 DEF vars, master, channel
<1>6. ASSUME NEW s \in Slaves, Serve(s) \/ Idle(s) PROVE NumberInv'
  BY <1>3, <1>6 DEF Serve, Idle
<1>7. ASSUME NEW s \in Slaves, Exit(s) \/ Die(s) PROVE NumberInv'
  <2>1. Gone(s) /\ UNCHANGED <<master, channel>>
    BY <1>7 DEF Exit, Die
  <2>2. \A r \in Slaves : spc'[r] = "report" => spc[r] = "report" /\ taking'[r] = taking[r]
    BY <1>0, <2>1 DEF TypeOK, Gone, Set
  <2> QED BY <1>3, <2>1, <2>2
<1> QED BY <1>2, <1>4, <1>5, <1>6, <1>7, PassStep, TakeStep, ReportStep DEF Next, Slave

-----------------------------------------------------------------------------
(* The theorems.                                                            *)

LEMMA InvariantInit == Init => IInv
<1> SUFFICES ASSUME Init PROVE IInv
  OBVIOUS
<1> USE BonesAssumption, LimitNat DEF Init
<1>1. TypeOK
  <2>1. toSlaves \in Seq(Parcels) /\ toMaster \in Seq(0..Modulus - 1)
    BY EmptySeq
  <2>2. reqCnt \in [Slaves -> 0..ReqsMax + 2] /\ deaths \in 0..MaxDeaths /\ rejected \in 0..MaxConns
    OBVIOUS
  <2>3. /\ backlog \in 0..MaxConns /\ arrived \in 0..MaxConns
        /\ dispatched \in 0..Modulus - 1 /\ accepted \in 0..Modulus - 1
    OBVIOUS
  <2>4. childDied \in BOOLEAN /\ awake \in BOOLEAN /\ first \in [Slaves -> BOOLEAN]
    OBVIOUS
  <2> QED BY <2>1, <2>2, <2>3, <2>4 DEF TypeOK
<1>2. SlaveInv
  BY DEF SlaveInv
<1>3. CountInv
  BY DEF CountInv
<1>4. NumberInv
  BY EmptySeq DEF NumberInv
<1> QED BY <1>1, <1>2, <1>3, <1>4 DEF IInv

\* The inductive invariant holds in every reachable state.
LEMMA InvariantAlways == Spec => []IInv
<1>1. IInv /\ [Next]_vars => IInv'
  BY TypeStep, SlaveStep, CountStep, NumberStep DEF IInv
<1> QED BY InvariantInit, <1>1, PTL DEF Spec

\* Every reachable state is well typed: in particular the counters stay within
\* their width, and a slave serves at most one request above its limit.
THEOREM TypeCorrect == Spec => []TypeOK
<1>1. IInv => TypeOK
  BY DEF IInv
<1> QED BY <1>1, InvariantAlways, PTL

\* Until the counters wrap around, never more connections wait for a slave than
\* the overload limit allows, and none that the master knows to be served: for
\* any number of slaves, whatever order their reports come in, with slaves
\* that die at any point and with failing sendmsg (dispatchit and slave).
THEOREM OverloadLimit == Spec => []QueueBounded
<1>1. IInv => QueueBounded
  <2> SUFFICES ASSUME IInv, arrived < Modulus
               PROVE  /\ Len(toSlaves) <= Limit
                      /\ accepted > 0 => \A k \in 1..Len(toSlaves) : toSlaves[k].seq > accepted
    BY DEF QueueBounded
  <2>1. TypeOK /\ NumberInv
    BY DEF IInv
  <2>2. /\ Len(toSlaves) \in Nat /\ \A k \in 1..Len(toSlaves) : toSlaves[k].seq \in Nat
        /\ dispatched \in Nat /\ accepted \in Nat /\ Limit \in Nat
    BY <2>1, ChannelTypes, LimitNat DEF TypeOK
  <2>3. accepted > 0 => \A k \in 1..Len(toSlaves) : toSlaves[k].seq > accepted
    BY <2>1, <2>2 DEF NumberInv
  <2>4. Len(toSlaves) <= Limit
    <3>1. CASE Len(toSlaves) = 0
      BY <2>2, <3>1
    <3>2. CASE Len(toSlaves) # 0
      <4>1. 1 \in 1..Len(toSlaves)
        BY <2>2, <3>2
      <4>2. toSlaves[1].seq + (Len(toSlaves) - 1) < dispatched /\ toSlaves[1].seq \in Nat
        BY <2>1, <2>2, <4>1 DEF NumberInv
      <4>3. accepted <= toSlaves[1].seq
        BY <2>2, <2>3, <4>1
      <4>4. dispatched - accepted <= Limit
        BY <2>1 DEF NumberInv
      <4> QED BY <2>2, <4>2, <4>3, <4>4
    <3> QED BY <3>1, <3>2
  <2> QED BY <2>3, <2>4
<1> QED BY <1>1, InvariantAlways, PTL
=============================================================================
