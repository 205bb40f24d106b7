-------------------------- MODULE EventStoreProofs --------------------------
(***************************************************************************)
(* Proofs about EventStore, for every value of its constants: its type      *)
(* correctness whatever it is exposed to, and its safety properties when it *)
(* is exposed to none of the hazards.                                       *)
(***************************************************************************)
EXTENDS EventStore, SequenceTheorems, TLAPS

-----------------------------------------------------------------------------
(* Type correctness, whatever the exposures.                                *)

\* The current message of the queue thread is where it says it is.
ShapeInv ==
  /\ lo = <<>> => hi = <<>>
  /\ spc \notin {"none", "wait"} => IF at = "hi" THEN hi # <<>> ELSE lo # <<>>

LEMMA NoMsgType == NoMsg \in Msgs
  BY DEF NoMsg, Msgs, Kinds

LEMMA FileTypes ==
  ASSUME DataOK, NEW i \in 1..Len(file)
  PROVE  /\ file[i] \in Lines
         /\ Ends(file[i]) \in Nat
<1>1. file[i] \in Lines
  BY DEF DataOK
<1> QED BY <1>1 DEF Lines, Ends

LEMMA SizeNat == DataOK => Size(file) \in Nat
<1>1. ASSUME DataOK, file # <<>> PROVE Len(file) \in 1..Len(file)
  BY <1>1 DEF DataOK
<1> QED BY <1>1, FileTypes DEF Size

LEMMA GluedType ==
  ASSUME DataOK, NEW len \in Lens, HasPart(file)
  PROVE  Glued(len) \in Seq(Lines)
<1>1. Len(file) \in 1..Len(file) /\ file \in Seq(Lines)
  BY DEF HasPart, DataOK
<1>2. len \in Nat /\ nextId \in Nat
  BY StoreAssumption DEF DataOK
<1>3. GluedLine(file[Len(file)], len) \in Lines
  <2>1. file[Len(file)] \in Lines
    BY <1>1
  <2> QED BY <1>2, <2>1 DEF Lines, GluedLine
<1> QED BY <1>1, <1>3 DEF Glued

\* The flags stay Boolean.
LEMMA FlagsStep == FlagsOK /\ [Next]_vars => FlagsOK'
<1> SUFFICES ASSUME FlagsOK, [Next]_vars PROVE FlagsOK'
  OBVIOUS
<1> USE DEF FlagsOK, process, store, readers, locals, queue
<1>1. CASE \E len \in Lens, pri \in Kinds : Log(len, pri) BY <1>1 DEF Log
<1>2. CASE \E len \in Lens : LogTorn(len) BY <1>2 DEF LogTorn
<1>3. CASE Find BY <1>3 DEF Find
<1>4. CASE Scan BY <1>4 DEF Scan
<1>5. ASSUME NEW t \in Readers, Recover(t) PROVE FlagsOK'
  <2>1. CASE RecoverLock(t) \/ RecoverNoFile(t) \/ RecoverSeek(t)
    BY <2>1 DEF RecoverLock, RecoverNoFile, RecoverSeek
  <2>2. CASE RecoverLine(t)
    <3>1. PICK i \in 1..Len(file) : RecoverLine(t)!2!(i)
      BY <2>2 DEF RecoverLine
    <3>2. throttling' \in BOOLEAN
      BY <3>1
    <3>3. throttle' \in BOOLEAN
      BY <3>1
    <3> QED BY <2>2, <3>2, <3>3 DEF RecoverLine
  <2>3. CASE RecoverEnd(t) \/ Quarantine(t) \/ QuarantineFails(t)
    BY <2>3 DEF RecoverEnd, Quarantine, QuarantineFails, LocalsGone
  <2> QED BY <1>5, <2>1, <2>2, <2>3 DEF Recover
<1>6. CASE Sender
  <2>1. CASE Remove
    <3>1. throttling' \in BOOLEAN BY <2>1 DEF Remove
    <3> QED BY <2>1, <3>1 DEF Remove
  <2>2. CASE Sender /\ ~Remove
    BY <2>2 DEF Sender, Get, SendFails, ReplyLost, Reply, CheckGeneration, CommitCount,
                CommitOpen, CommitWrite, CommitFails, ConfirmFails
  <2> QED BY <1>6, <2>1, <2>2
<1>7. CASE Clean
  BY <1>7 DEF Clean, CleanSkip, CleanGone, CleanUnlink, CleanCtl, ForgetStore
<1>8. CASE Crash BY <1>8 DEF Crash, ForgetStore, LocalsGone
<1>9. CASE Restart BY <1>9 DEF Restart
<1>10. CASE UNCHANGED vars BY <1>10 DEF vars
<1> QED BY <1>1, <1>2, <1>3, <1>4, <1>5, <1>6, <1>7, <1>8, <1>9, <1>10 DEF Next


\* The other variables keep their types.
LEMMA DataStep == DataOK /\ ShapeInv /\ [Next]_vars => DataOK'
<1> SUFFICES ASSUME DataOK, ShapeInv, [Next]_vars PROVE DataOK'
  OBVIOUS
<1> USE StoreAssumption
<1> USE DEF disk, process, store, locks, readers, locals, queue, snd, history
<1>1. ASSUME NEW len \in Lens, NEW pri \in Kinds, Log(len, pri) PROVE DataOK'
  <2>1. NewLine(len, "ok", pri) \in Lines
    BY SizeNat DEF NewLine, Lines, DataOK
  <2>2. file' \in Seq(Lines)
    <3>1. (file' = Glued(len) /\ HasPart(file)) \/ file' = Append(file, NewLine(len, "ok", pri))
      BY <1>1 DEF Log
    <3>2. Append(file, NewLine(len, "ok", pri)) \in Seq(Lines)
      BY <2>1, AppendProperties DEF DataOK
    <3> QED BY <3>1, <3>2, GluedType
  <2> QED BY <1>1, <2>2 DEF Log, DataOK
<1>2. ASSUME NEW len \in Lens, LogTorn(len) PROVE DataOK'
  <2>1. NewLine(len, "part", "async") \in Lines
    BY SizeNat DEF NewLine, Lines, Kinds, DataOK
  <2>2. file' \in Seq(Lines)
    <3>1. file' = Append(file, NewLine(len, "part", "async"))
      BY <1>2 DEF LogTorn
    <3> QED BY <2>1, <3>1, AppendProperties DEF DataOK
  <2> QED BY <1>2, <2>2 DEF LogTorn, DataOK
<1>3. CASE Find
  <2>1. committed' \in Nat /\ offset' \in Nat /\ gen' \in Nat
    BY <1>3 DEF Find, DataOK
  <2> QED BY <1>3, <2>1 DEF Find, DataOK, Readers
<1>4. CASE Scan
  <2>1. committed' \in Nat /\ offset' \in Nat /\ gen' \in Nat
    BY <1>4 DEF Scan, CtlValue, DataOK
  <2>2. pc' \in [Readers -> {"idle", "found", "locked", "reading", "clean", "unlink"}]
    <3>1. PICK q \in {"found", "idle"} : pc' = [pc EXCEPT !["recover"] = q]
      BY <1>4 DEF Scan
    <3> QED BY <3>1 DEF DataOK, Readers
  <2> QED BY <1>4, <2>1, <2>2 DEF Scan, DataOK
<1>5. ASSUME NEW t \in Readers, Recover(t) PROVE DataOK'
  <2> USE DEF Return, LocalsGone
  <2>1. CASE RecoverLock(t) BY <2>1 DEF RecoverLock, DataOK, Readers
  <2>2. CASE RecoverNoFile(t) BY <2>2 DEF RecoverNoFile, DataOK, Readers
  <2>3. CASE RecoverSeek(t) BY <2>3 DEF RecoverSeek, StartPos, DataOK, Readers
  <2>4. CASE RecoverLine(t)
    <3>1. PICK i \in 1..Len(file) : RecoverLine(t)!2!(i)
      BY <2>4 DEF RecoverLine
    <3>2. file[i] \in Lines /\ Ends(file[i]) \in Nat
      BY FileTypes
    <3> DEFINE msg == [id |-> file[i].id, offset |-> last, len |-> file[i].len,
                       gen |-> gen, pri |-> file[i].pri]
    <3>3. msg \in Msgs
      BY <3>2 DEF Msgs, Lines, DataOK
    <3>4. hi' \in Seq(Msgs) /\ lo' \in Seq(Msgs)
      <4>1. \/ hi' = hi /\ lo' = lo
            \/ hi' = hi /\ lo' = Append(lo, msg)
            \/ hi' = Append(hi, msg) /\ lo' = lo
        BY <3>1 DEF Insert
      <4>2. hi \in Seq(Msgs) /\ lo \in Seq(Msgs)
        BY DEF DataOK
      <4> HIDE DEF msg
      <4>3. Append(hi, msg) \in Seq(Msgs) /\ Append(lo, msg) \in Seq(Msgs)
        BY <3>3, <4>2, AppendProperties
      <4> QED BY <4>1, <4>2, <4>3
    <3>5. last' \in Nat /\ fpos' \in Nat
      BY <3>1, <3>2 DEF DataOK
    <3>6. /\ spc' \in {"none", "wait", "sending", "replied", "commit", "count", "ctl", "committed"}
          /\ cur' = cur /\ at' = at
      BY <3>1 DEF DataOK, SndGoto
    <3> QED BY <2>4, <3>4, <3>5, <3>6 DEF RecoverLine, DataOK
  <2>5. CASE RecoverEnd(t) BY <2>5 DEF RecoverEnd, DataOK, Readers
  <2>6. CASE Quarantine(t)
    <3>1. {file[i].id : i \in 1..Len(file)} \subseteq Nat
      BY FileTypes DEF Lines
    <3>2. quarantined' \subseteq Nat
      BY <2>6, <3>1 DEF Quarantine, DataOK
    <3> QED BY <2>6, <3>2, EmptySeq DEF Quarantine, DataOK, Readers
  <2>7. CASE QuarantineFails(t) BY <2>7 DEF QuarantineFails, DataOK, Readers
  <2> QED BY <1>5, <2>1, <2>2, <2>3, <2>4, <2>5, <2>6, <2>7 DEF Recover
<1>6. CASE Sender
  <2> USE DEF SndGoto
  <2>1. CASE Get
    <3>1. hi # <<>> => hi[1] \in Msgs
      BY DEF DataOK
    <3>2. hi = <<>> => lo[1] \in Msgs
      BY <2>1 DEF Get, QueueLen, DataOK
    <3> QED BY <2>1, <3>1, <3>2 DEF Get, DataOK
  <2>2. CASE SendFails BY <2>2 DEF SendFails, DataOK
  <2>3. CASE ReplyLost BY <2>3 DEF ReplyLost, DataOK, Msgs
  <2>4. CASE Reply BY <2>4 DEF Reply, DataOK, Msgs
  <2>5. CASE CheckGeneration BY <2>5 DEF CheckGeneration, DataOK
  <2>6. CASE CommitCount BY <2>6 DEF CommitCount, DataOK, Msgs
  <2>7. CASE CommitOpen BY <2>7 DEF CommitOpen, DataOK
  <2>8. CASE CommitWrite BY <2>8 DEF CommitWrite, DataOK
  <2>9. CASE CommitFails BY <2>9 DEF CommitFails, DataOK
  <2>10. CASE ConfirmFails BY <2>10 DEF ConfirmFails, DataOK
  <2>11. CASE Remove
    <3>1. hi' \in Seq(Msgs) /\ lo' \in Seq(Msgs)
      <4>1. \/ hi' = Tail(hi) /\ lo' = lo /\ hi # <<>>
            \/ hi' = hi /\ lo' = Tail(lo) /\ lo # <<>>
            \/ hi' = <<>> /\ lo' = hi
        BY <2>11 DEF Remove, ShapeInv
      <4>2. \A s \in Seq(Msgs) : s # <<>> => Tail(s) \in Seq(Msgs)
        OBVIOUS
      <4> QED BY <4>1, <4>2, EmptySeq DEF DataOK
    <3> QED BY <2>11, <3>1 DEF Remove, DataOK
  <2> QED BY <1>6, <2>1, <2>2, <2>3, <2>4, <2>5, <2>6, <2>7, <2>8, <2>9, <2>10, <2>11 DEF Sender
<1>7. CASE Clean
  <2> USE DEF DataOK, ForgetStore, Readers
  <2>1. CASE CleanSkip BY <2>1 DEF CleanSkip
  <2>2. CASE CleanGone BY <2>2 DEF CleanGone
  <2>3. CASE CleanUnlink BY <2>3, EmptySeq DEF CleanUnlink
  <2>4. CASE CleanCtl BY <2>4 DEF CleanCtl
  <2> QED BY <1>7, <2>1, <2>2, <2>3, <2>4 DEF Clean
<1>8. CASE Crash
  BY <1>8, EmptySeq, NoMsgType DEF Crash, ForgetStore, LocalsGone, DataOK
<1>9. CASE Restart
  BY <1>9 DEF Restart, DataOK
<1>10. CASE UNCHANGED vars
  BY <1>10 DEF vars, DataOK
<1> QED BY <1>1, <1>2, <1>3, <1>4, <1>5, <1>6, <1>7, <1>8, <1>9, <1>10 DEF Next

\* The queue thread's message stays in its place until it removes it.
LEMMA ShapeStep == DataOK /\ ShapeInv /\ [Next]_vars => ShapeInv'
<1> SUFFICES ASSUME DataOK, ShapeInv, [Next]_vars PROVE ShapeInv'
  OBVIOUS
<1> USE DEF ShapeInv, queue, snd
<1>1. CASE UNCHANGED <<queue, snd>>
  BY <1>1
<1>2. ASSUME NEW t \in Readers, RecoverLine(t) PROVE ShapeInv'
  <2>1. PICK i \in 1..Len(file) : RecoverLine(t)!2!(i)
    BY <1>2 DEF RecoverLine
  <2> DEFINE msg == [id |-> file[i].id, offset |-> last, len |-> file[i].len,
                     gen |-> gen, pri |-> file[i].pri]
  <2>2. \/ hi' = hi /\ lo' = lo
        \/ hi' = hi /\ lo' = Append(lo, msg)
        \/ hi' = Append(hi, msg) /\ lo' = lo /\ lo # <<>>
    BY <2>1 DEF Insert
  <2>3. cur' = cur /\ at' = at /\ (spc' = spc \/ (spc = "none" /\ spc' = "wait"))
    <3>1. PICK q : SndGoto(q) /\ (q = spc \/ (spc = "none" /\ q = "wait"))
      BY <2>1
    <3> QED BY <3>1 DEF SndGoto
  <2>4. Append(lo, msg) # <<>> /\ Append(hi, msg) # <<>>
    BY DEF DataOK
  <2> HIDE DEF msg
  <2> QED BY <2>2, <2>3, <2>4
<1>3. CASE Sender
  <2> USE DEF SndGoto
  <2>1. CASE Get BY <2>1 DEF Get, QueueLen, DataOK
  <2>2. CASE Remove
    <3>1. spc' = "wait" BY <2>2 DEF Remove
    <3>2. lo' = <<>> => hi' = <<>>
      <4>1. CASE at = "hi" BY <2>2, <4>1 DEF Remove, DataOK
      <4>2. CASE at # "hi" /\ Len(lo) > 1
        <5>1. lo' = Tail(lo) BY <2>2, <4>2 DEF Remove
        <5>2. lo \in Seq(Msgs) /\ lo # <<>> BY <4>2 DEF DataOK
        <5>3. Len(Tail(lo)) > 0 BY <4>2, <5>2, HeadTailProperties
        <5>4. Tail(lo) # <<>> BY <5>3
        <5> QED BY <5>1, <5>4
      <4>3. CASE at # "hi" /\ ~(Len(lo) > 1) BY <2>2, <4>3 DEF Remove
      <4> QED BY <4>1, <4>2, <4>3
    <3> QED BY <3>1, <3>2
  <2>3. CASE SendFails \/ ReplyLost \/ Reply \/ CheckGeneration
    BY <2>3 DEF SendFails, ReplyLost, Reply, CheckGeneration
  <2>4. CASE CommitCount \/ CommitOpen \/ CommitWrite \/ CommitFails \/ ConfirmFails
    BY <2>4 DEF CommitCount, CommitOpen, CommitWrite, CommitFails, ConfirmFails
  <2> QED BY <1>3, <2>1, <2>2, <2>3, <2>4 DEF Sender
<1>4. CASE Crash
  BY <1>4 DEF Crash
<1>5. ASSUME NEW t \in Readers, Recover(t), ~RecoverLine(t) PROVE UNCHANGED <<queue, snd>>
  BY <1>5 DEF Recover, RecoverLock, RecoverNoFile, RecoverSeek, RecoverEnd, Quarantine,
              QuarantineFails
<1>6. CASE Clean
  BY <1>1, <1>6 DEF Clean, CleanSkip, CleanGone, CleanUnlink, CleanCtl
<1>7. CASE Find \/ Scan \/ Restart \/ UNCHANGED vars
  BY <1>1, <1>7 DEF Find, Scan, Restart, vars
<1>8. ASSUME NEW len \in Lens, LogTorn(len) \/ \E pri \in Kinds : Log(len, pri) PROVE ShapeInv'
  BY <1>1, <1>8 DEF Log, LogTorn
<1> QED BY <1>1, <1>2, <1>3, <1>4, <1>5, <1>6, <1>7, <1>8 DEF Next

\* TypeOK is an invariant of the specification for all values of the constants,
\* whatever hazards the program is exposed to.
THEOREM TypeCorrect == Spec => []TypeOK
<1>1. Init => FlagsOK
  BY DEF Init, FlagsOK
<1>2. Init => DataOK
  BY EmptySeq, NoMsgType DEF Init, DataOK, Readers
<1>3. Init => ShapeInv
  BY DEF Init, ShapeInv
<1>4. TypeOK /\ ShapeInv /\ [Next]_vars => TypeOK' /\ ShapeInv'
  BY FlagsStep, DataStep, ShapeStep DEF TypeOK
<1> QED BY <1>1, <1>2, <1>3, <1>4, PTL DEF Spec, TypeOK

-----------------------------------------------------------------------------
(* The inductive invariant behind the safety properties.                    *)

\* The head of the queue has been counted in last_committed_bs, but it is
\* still in the queue.
Counted == spc \in {"count", "ctl", "committed"}
FirstUncounted == IF Counted THEN 2 ELSE 1

\* There is a store and its file is not being unlinked.
Attached == present /\ pc["recover"] # "unlink"

\* The position up to which events have been handed to the queue.
Frontier == IF offsetLock # Free THEN last
            ELSE IF offset > 0 THEN offset ELSE committed

Position(p) == p = 0 \/ Boundary(p)

\* The lines of the file follow each other, and all of them are events.
FileInv ==
  /\ \A i \in 1..Len(file) : file[i].st = "ok" /\ file[i].pri = "async" /\ file[i].len > 0
  /\ \A i, j \in 1..Len(file) : i < j => Ends(file[i]) <= file[j].start

\* Who holds the locks, and what each control point implies.
LockInv ==
  /\ \A t \in Readers : offsetLock = t <=> pc[t] = "reading"
  /\ commitLock = "main" <=> pc["main"] = "locked"
  /\ commitLock = "recover" <=> pc["recover"] \in {"locked", "unlink"}
  /\ commitLock = "sender" <=> spc \in {"count", "ctl"}
  /\ pc["main"] \notin {"clean", "unlink"}
  /\ pc["recover"] = "unlink" => pc["main"] = "idle"

\* Nobody uses a store that is not there, and there is one only after a scan.
UseInv ==
  /\ \A t \in Readers : pc[t] # "idle" => present
  /\ present => up /\ scanned
  /\ scanned => up

\* The queue holds events of the first generation; the head is being sent.
QueueInv ==
  /\ hi = <<>> /\ gen = 0
  /\ \A k \in 1..Len(lo) : lo[k].gen = 0
  /\ spc \notin {"none", "wait"} => lo # <<>> /\ cur = lo[1] /\ at = "lo"
  /\ spc \in {"replied", "commit", "count", "ctl", "committed"} => cur.id \in delivered
  /\ spc \in {"count", "ctl"} => Attached
  /\ FirstUncounted <= Len(lo) => Attached

\* The message is the event on the i-th line of the file.
IsLine(m, i) == file[i].id = m.id /\ file[i].start = m.offset /\ file[i].len = m.len
MsgEnd(m) == m.offset + m.len

\* The uncounted messages are the events of the file from the last commit to
\* the frontier, without a gap.
ChainInv ==
  Attached =>
    /\ \A k \in FirstUncounted..Len(lo) :
         /\ MsgEnd(lo[k]) <= Frontier
         /\ \E i \in 1..Len(file) : IsLine(lo[k], i)
         /\ k < Len(lo) => lo[k+1].offset = MsgEnd(lo[k])
    /\ FirstUncounted <= Len(lo) => /\ lo[FirstUncounted].offset = committed
                                   /\ MsgEnd(lo[Len(lo)]) = Frontier
    /\ FirstUncounted > Len(lo) => Frontier = committed
    /\ committed <= Frontier

\* All positions are behind a separator, and a reader that has not been
\* throttled is at the frontier.
PositionInv ==
  Attached =>
    /\ Position(committed) /\ Position(offset) /\ Position(Frontier)
    /\ offsetLock # Free /\ ~throttle => fpos = last

\* What has been counted has been taken by the server, and what is before the
\* frontier has been taken or is in the queue.
DeliveryInv ==
  Attached =>
    \A i \in 1..Len(file) :
      /\ Ends(file[i]) <= committed => file[i].id \in delivered
      /\ Ends(file[i]) <= Frontier =>
           file[i].id \in delivered \/ \E k \in 1..Len(lo) : lo[k].id = file[i].id

\* The control file never runs ahead of the counter, and it survives alone
\* only with a file of delivered events.
CtlInv ==
  /\ Attached => ctl <= committed /\ (ctl > 0 => Boundary(ctl))
  /\ ~present => /\ ctl > 0 => Boundary(ctl)
                 /\ \A i \in 1..Len(file) : Ends(file[i]) <= ctl => file[i].id \in delivered
                 /\ scanned => ctl <= 0

IInv == /\ TypeOK /\ ShapeInv /\ FileInv /\ LockInv /\ UseInv /\ QueueInv
        /\ ChainInv /\ PositionInv /\ DeliveryInv /\ CtlInv

-----------------------------------------------------------------------------
(* The file.                                                                *)

LEMMA LineTypes ==
  ASSUME DataOK, NEW i \in 1..Len(file)
  PROVE  /\ file[i].start \in Nat /\ file[i].len \in Nat
         /\ Ends(file[i]) = file[i].start + file[i].len
         /\ Ends(file[i]) \in Nat
<1>1. file[i] \in Lines
  BY FileTypes
<1> QED BY <1>1 DEF Lines, Ends

LEMMA MsgTypes ==
  ASSUME DataOK, NEW k \in 1..Len(lo)
  PROVE  /\ lo[k] \in Msgs
         /\ lo[k].offset \in Nat /\ lo[k].len \in Nat
         /\ MsgEnd(lo[k]) = lo[k].offset + lo[k].len
         /\ MsgEnd(lo[k]) \in Nat
<1>1. lo[k] \in Msgs
  BY DEF DataOK
<1> QED BY <1>1 DEF Msgs, MsgEnd

\* Every line ends within the file.
LEMMA SizeBound ==
  ASSUME DataOK, FileInv, NEW i \in 1..Len(file)
  PROVE  Ends(file[i]) <= Size(file)
<1>1. Len(file) \in Nat /\ file # <<>>
  BY DEF DataOK
<1>2. Len(file) \in 1..Len(file)
  BY <1>1
<1>3. Size(file) = Ends(file[Len(file)])
  BY <1>1 DEF Size
<1>4. CASE i = Len(file)
  BY <1>3, <1>4, LineTypes
<1>5. CASE i < Len(file)
  <2>1. Ends(file[i]) <= file[Len(file)].start
    BY <1>2, <1>5 DEF FileInv
  <2> QED BY <1>2, <1>3, <2>1, LineTypes
<1> QED BY <1>1, <1>4, <1>5

\* A line that ends no later than another one comes no later.
LEMMA LineOrder ==
  ASSUME DataOK, FileInv, NEW i \in 1..Len(file), NEW j \in 1..Len(file),
         Ends(file[i]) <= Ends(file[j])
  PROVE  i = j \/ Ends(file[i]) <= file[j].start
<1>1. CASE i < j
  BY <1>1 DEF FileInv
<1>2. CASE j < i
  <2>1. Ends(file[j]) <= file[i].start /\ file[i].len > 0
    BY <1>2 DEF FileInv
  <2> QED BY <2>1, LineTypes
<1> QED BY <1>1, <1>2, LenProperties DEF DataOK

\* The local logger appends a line behind the last one.
LEMMA LogShape ==
  ASSUME Exposures = {}, DataOK, FileInv,
         NEW len \in Lens, NEW pri \in Kinds, Log(len, pri)
  PROVE  /\ Len(file') = Len(file) + 1
         /\ \A i \in 1..Len(file) : file'[i] = file[i]
         /\ file'[Len(file) + 1] = NewLine(len, "ok", "async")
<1>1. ~HasPart(file)
  <2>1. ASSUME HasPart(file) PROVE FALSE
    <3>1. Len(file) \in 1..Len(file)
      BY <2>1 DEF HasPart, DataOK
    <3>2. file[Len(file)].st = "ok"
      BY <3>1 DEF FileInv
    <3> QED BY <2>1, <3>2 DEF HasPart
  <2> QED BY <2>1
<1>2. pri = "async"
  BY DEF Log, Kinds
<1>3. file' = Append(file, NewLine(len, "ok", "async"))
  BY <1>1, <1>2 DEF Log
<1>4. NewLine(len, "ok", "async") \in Lines
  BY SizeNat, StoreAssumption DEF NewLine, Lines, Kinds, DataOK
<1>5. file \in Seq(Lines)
  BY DEF DataOK
<1> QED BY <1>3, <1>4, <1>5, AppendProperties

LEMMA FileStep ==
  ASSUME Exposures = {}, DataOK, FileInv, [Next]_vars
  PROVE  FileInv'
<1>1. ASSUME NEW len \in Lens, NEW pri \in Kinds, Log(len, pri) PROVE FileInv'
  <2> DEFINE n == Len(file) + 1
             new == NewLine(len, "ok", "async")
  <2>1. Len(file') = n /\ (\A i \in 1..Len(file) : file'[i] = file[i]) /\ file'[n] = new
    BY <1>1, LogShape
  <2>2. new.st = "ok" /\ new.pri = "async" /\ new.len = len /\ new.start = Size(file)
    BY DEF NewLine
  <2>3. Len(file) \in Nat /\ len \in Nat /\ len > 0
    BY StoreAssumption, LenProperties DEF DataOK
  <2> HIDE DEF new
  <2>4. ASSUME NEW i \in 1..Len(file')
        PROVE  file'[i].st = "ok" /\ file'[i].pri = "async" /\ file'[i].len > 0
    <3>1. CASE i = n
      BY <2>1, <2>2, <2>3, <3>1
    <3>2. CASE i # n
      <4>1. i \in 1..Len(file) /\ file'[i] = file[i]
        BY <2>1, <2>3, <2>4, <3>2
      <4> QED BY <4>1 DEF FileInv
    <3> QED BY <3>1, <3>2
  <2>5. ASSUME NEW i \in 1..Len(file'), NEW j \in 1..Len(file'), i < j
        PROVE  Ends(file'[i]) <= file'[j].start
    <3>1. i \in 1..Len(file) /\ file'[i] = file[i]
      BY <2>1, <2>3, <2>5
    <3>2. CASE j = n
      <4>1. file'[j].start = Size(file)
        BY <2>1, <2>2, <3>2
      <4>2. Ends(file[i]) <= Size(file)
        BY <3>1, SizeBound
      <4> QED BY <3>1, <4>1, <4>2
    <3>3. CASE j # n
      <4>1. j \in 1..Len(file) /\ file'[j] = file[j]
        BY <2>1, <2>3, <2>5, <3>3
      <4> QED BY <2>5, <3>1, <4>1 DEF FileInv
    <3> QED BY <3>2, <3>3
  <2>6. \A i \in 1..Len(file') : file'[i].st = "ok" /\ file'[i].pri = "async" /\ file'[i].len > 0
    BY <2>4
  <2>7. \A i, j \in 1..Len(file') : i < j => Ends(file'[i]) <= file'[j].start
    BY <2>5
  <2> QED BY <2>6, <2>7 DEF FileInv, Ends
<1>2. CASE file' = file
  BY <1>2 DEF FileInv, Ends
<1>3. CASE file' = <<>>
  BY <1>3 DEF FileInv
<1>4. ASSUME NEW len \in Lens, LogTorn(len) PROVE FALSE
  BY <1>4 DEF LogTorn
<1>5. ASSUME NEW t \in Readers, Recover(t) PROVE file' = file \/ file' = <<>>
  BY <1>5 DEF Recover, RecoverLock, RecoverNoFile, RecoverSeek, RecoverLine, RecoverEnd, Quarantine,
              QuarantineFails, disk
<1>6. CASE Sender
  BY <1>2, <1>6 DEF Sender, Get, SendFails, ReplyLost, Reply, CheckGeneration, CommitCount,
                    CommitOpen, CommitWrite, CommitFails, ConfirmFails, Remove, disk
<1>7. CASE Clean \/ Crash \/ Find \/ Scan \/ Restart \/ UNCHANGED vars
  BY <1>2, <1>3, <1>7 DEF Clean, CleanSkip, CleanGone, CleanUnlink, CleanCtl, Crash, Find, Scan,
                          Restart, disk, vars
<1> QED BY <1>1, <1>2, <1>3, <1>4, <1>5, <1>6, <1>7 DEF Next

-----------------------------------------------------------------------------
(* Locks and control points.                                                *)

\* A torn write, a damaged line and the failures do not occur.
LEMMA Unexposed ==
  ASSUME Exposures = {}, DataOK, FileInv
  PROVE  /\ \A len \in Lens : ~LogTorn(len)
         /\ \A t \in Readers : ~Quarantine(t) /\ ~QuarantineFails(t)
         /\ ~CommitFails /\ ~ConfirmFails
<1>1. \A t \in Readers : ~Quarantine(t) /\ ~QuarantineFails(t)
  BY DEF Quarantine, QuarantineFails, FileInv
<1> QED BY <1>1 DEF LogTorn, CommitFails, ConfirmFails

LEMMA LockStep ==
  ASSUME Exposures = {}, DataOK, FileInv, LockInv, [Next]_vars
  PROVE  LockInv'
<1> USE DEF locks, readers, snd
<1>1. CASE UNCHANGED <<locks, pc, spc>>
  BY <1>1 DEF LockInv
<1>2. ASSUME NEW t \in Readers, Recover(t) PROVE LockInv'
  <2> USE DEF LockInv, Readers, Free, DataOK
  <2>1. CASE RecoverLock(t) BY <2>1 DEF RecoverLock
  <2>2. CASE RecoverNoFile(t) BY <2>2 DEF RecoverNoFile, Return
  <2>3. CASE RecoverSeek(t) BY <2>3 DEF RecoverSeek
  <2>4. CASE RecoverLine(t)
    <3>1. spc' = spc \/ (spc = "none" /\ spc' = "wait")
      <4>1. PICK q : SndGoto(q) /\ (q = spc \/ (spc = "none" /\ q = "wait"))
        BY <2>4 DEF RecoverLine
      <4> QED BY <4>1 DEF SndGoto
    <3> QED BY <2>4, <3>1 DEF RecoverLine
  <2>5. CASE RecoverEnd(t) BY <2>5 DEF RecoverEnd, Return
  <2> QED BY <1>2, <2>1, <2>2, <2>3, <2>4, <2>5, Unexposed DEF Recover
<1>3. CASE Sender
  <2> USE DEF LockInv, Readers, Free, SndGoto
  <2>1. CASE Get \/ SendFails \/ ReplyLost \/ Reply
    BY <2>1 DEF Get, SendFails, ReplyLost, Reply
  <2>2. CASE CheckGeneration BY <2>2 DEF CheckGeneration
  <2>3. CASE CommitCount BY <2>3 DEF CommitCount
  <2>4. CASE CommitOpen BY <2>4 DEF CommitOpen
  <2>5. CASE CommitWrite BY <2>5 DEF CommitWrite
  <2>6. CASE Remove BY <2>6 DEF Remove
  <2> QED BY <1>3, <2>1, <2>2, <2>3, <2>4, <2>5, <2>6, Unexposed DEF Sender
<1>4. CASE Clean
  <2> USE DEF LockInv, Readers, Free, DataOK
  <2>1. CASE CleanSkip BY <2>1 DEF CleanSkip
  <2>2. CASE CleanGone BY <2>2 DEF CleanGone
  <2>3. CASE CleanUnlink BY <2>3 DEF CleanUnlink
  <2>4. CASE CleanCtl BY <2>4 DEF CleanCtl
  <2> QED BY <1>4, <2>1, <2>2, <2>3, <2>4 DEF Clean
<1>5. CASE Crash
  BY <1>5 DEF Crash, LockInv, Readers, Free
<1>6. CASE Find
  BY <1>6 DEF Find, LockInv, Readers, DataOK
<1>7. CASE Scan
  <2>1. PICK q \in {"found", "idle"} : pc' = [pc EXCEPT !["recover"] = q]
    BY <1>7 DEF Scan
  <2> QED BY <1>7, <2>1 DEF Scan, LockInv, Readers, DataOK
<1>8. CASE Restart \/ UNCHANGED vars
  BY <1>1, <1>8 DEF Restart, vars
<1>9. ASSUME NEW len \in Lens, NEW pri \in Kinds, Log(len, pri) PROVE LockInv'
  BY <1>1, <1>9 DEF Log
<1> QED BY <1>2, <1>3, <1>4, <1>5, <1>6, <1>7, <1>8, <1>9, Unexposed DEF Next

LEMMA UseStep ==
  ASSUME Exposures = {}, DataOK, FileInv, LockInv, UseInv, [Next]_vars
  PROVE  UseInv'
<1> USE DEF process, store, readers, locals
<1>1. CASE UNCHANGED <<pc, present, up, scanned>>
  BY <1>1 DEF UseInv
<1>2. ASSUME NEW t \in Readers, Recover(t) PROVE UseInv'
  <2>1. present /\ UNCHANGED <<present, up, scanned>>
    BY <1>2 DEF Recover, RecoverLock, RecoverNoFile, RecoverSeek, RecoverLine, RecoverEnd,
                Quarantine, QuarantineFails, UseInv
  <2> QED BY <2>1 DEF UseInv
<1>3. CASE Sender
  BY <1>1, <1>3 DEF Sender, Get, SendFails, ReplyLost, Reply, CheckGeneration, CommitCount,
                    CommitOpen, CommitWrite, CommitFails, ConfirmFails, Remove
<1>4. CASE Clean
  <2> USE DEF UseInv, LockInv, Readers, DataOK
  <2>1. CASE CleanSkip BY <2>1 DEF CleanSkip
  <2>2. CASE CleanGone BY <2>2 DEF CleanGone, ForgetStore
  <2>3. CASE CleanUnlink BY <2>3 DEF CleanUnlink
  <2>4. CASE CleanCtl BY <2>4 DEF CleanCtl, ForgetStore
  <2> QED BY <1>4, <2>1, <2>2, <2>3, <2>4 DEF Clean
<1>5. CASE Crash
  BY <1>5 DEF Crash, ForgetStore, UseInv
<1>6. CASE Find
  BY <1>6 DEF Find, UseInv, Readers, DataOK
<1>7. CASE Scan
  BY <1>7 DEF Scan, UseInv, Readers, DataOK
<1>8. CASE Restart \/ UNCHANGED vars
  BY <1>8 DEF Restart, vars, UseInv
<1>9. ASSUME NEW len \in Lens, NEW pri \in Kinds, Log(len, pri) PROVE UseInv'
  BY <1>1, <1>9 DEF Log
<1> QED BY <1>2, <1>3, <1>4, <1>5, <1>6, <1>7, <1>8, <1>9, Unexposed DEF Next

-----------------------------------------------------------------------------
(* Most steps do not touch what the rest of the invariant is about.         *)

\* A step that moves neither the store nor the queue.
Quiet ==
  /\ UNCHANGED <<file, committed, offset, offsetLock, last, fpos, throttle, lo>>
  /\ ctl' = ctl \/ ctl' = -1
  /\ Counted' <=> Counted
  /\ present' <=> present
  /\ pc'["recover"] = "unlink" <=> pc["recover"] = "unlink"
  /\ delivered \subseteq delivered'
  /\ scanned' => scanned \/ present \/ ctl' = -1

\* A step that creates the event_store.
Attach ==
  /\ ~present /\ present'
  /\ UNCHANGED <<file, ctl, lo, delivered, spc, offsetLock>>
  /\ committed' = CtlValue /\ offset' = 0
  /\ pc'["recover"] # "unlink"

LEMMA Classes ==
  ASSUME Exposures = {}, IInv, [Next]_vars
  PROVE  \/ Quiet \/ Attach
         \/ \E len \in Lens, pri \in Kinds : Log(len, pri)
         \/ \E t \in Readers : RecoverSeek(t) \/ RecoverLine(t) \/ RecoverEnd(t)
         \/ CommitCount \/ CommitOpen \/ CommitWrite \/ Remove
         \/ CleanGone \/ CleanUnlink \/ CleanCtl \/ Crash
<1> USE DEF disk, store, locks, readers, locals, queue, snd, history, process
<1>0. DataOK /\ FileInv /\ LockInv
  BY DEF IInv, TypeOK
<1>1. ASSUME NEW t \in Readers, RecoverLock(t) \/ RecoverNoFile(t) PROVE Quiet
  BY <1>0, <1>1 DEF RecoverLock, RecoverNoFile, Return, Quiet, Counted, DataOK, Readers
<1>2. CASE Get \/ SendFails \/ ReplyLost \/ Reply
  BY <1>2 DEF Get, SendFails, ReplyLost, Reply, SndGoto, Quiet, Counted
<1>3. CASE CheckGeneration
  <2>1. FirstUncounted = 1 /\ lo # <<>> /\ cur = lo[1]
    BY <1>3 DEF CheckGeneration, FirstUncounted, Counted, IInv, QueueInv
  <2>2. Len(lo) \in Nat /\ Len(lo) >= 1
    BY <1>0, <2>1 DEF DataOK
  <2>3. present /\ cur.gen = gen
    BY <2>1, <2>2 DEF IInv, QueueInv, Attached
  <2>4. spc' = "commit"
    BY <1>3, <2>3 DEF CheckGeneration, SndGoto
  <2> QED BY <1>3, <2>4 DEF CheckGeneration, Quiet, Counted
<1>4. CASE CleanSkip
  BY <1>0, <1>4 DEF CleanSkip, Quiet, Counted, DataOK, Readers
<1>5. CASE Restart \/ UNCHANGED vars
  BY <1>5 DEF Restart, vars, Quiet, Counted
<1>6. CASE Find
  <2>1. CASE present
    BY <1>0, <1>6, <2>1 DEF Find, Quiet, Counted, DataOK, Readers
  <2>2. CASE ~present
    <3>1. scanned
      BY <1>6 DEF Find
    <3>2. ctl <= 0 /\ ctl \in Nat \cup {-1}
      BY <1>0, <2>2, <3>1 DEF IInv, CtlInv, DataOK
    <3>3. CtlValue = 0
      BY <3>2 DEF CtlValue
    <3>4. committed' = 0 /\ offset' = 0 /\ present'
      BY <1>6, <2>2 DEF Find
    <3>5. pc'["recover"] # "unlink"
      BY <1>0, <1>6 DEF Find, DataOK, Readers
    <3> QED BY <1>6, <2>2, <3>3, <3>4, <3>5 DEF Find, Attach
  <2> QED BY <2>1, <2>2
<1>7. CASE Scan
  <2>1. PICK q \in {"found", "idle"} : pc' = [pc EXCEPT !["recover"] = q]
    BY <1>7 DEF Scan
  <2>2. pc["recover"] # "unlink" /\ pc'["recover"] # "unlink"
    BY <1>0, <1>7, <2>1 DEF Scan, DataOK, Readers
  <2>3. /\ UNCHANGED <<file, offsetLock, last, fpos, throttle, lo, delivered, spc>>
        /\ ctl' = (IF file = <<>> THEN -1 ELSE ctl)
    BY <1>7 DEF Scan
  <2>4. CASE present
    <3>1. ctl <= committed /\ ctl \in Nat \cup {-1}
      BY <1>0, <2>2, <2>4 DEF IInv, CtlInv, Attached, DataOK
    <3>2. committed = 0 => CtlValue = 0
      BY <3>1 DEF CtlValue
    <3>3. committed' = committed /\ offset' = offset
      BY <1>7, <2>4, <3>2 DEF Scan
    <3>4. present'
      BY <1>7, <2>4 DEF Scan
    <3> QED BY <2>2, <2>3, <2>4, <3>3, <3>4 DEF Quiet, Counted
  <2>5. CASE ~present /\ file # <<>>
    <3>1. 1 \in 1..Len(file)
      BY <1>0, <2>5 DEF DataOK
    <3>2. file[1].st = "ok"
      BY <1>0, <3>1 DEF FileInv
    <3>3. present' /\ committed' = CtlValue /\ offset' = 0
      BY <1>7, <2>5, <3>2 DEF Scan
    <3> QED BY <2>2, <2>3, <2>5, <3>3 DEF Attach
  <2>6. CASE ~present /\ file = <<>>
    <3>1. ~present' /\ UNCHANGED <<committed, offset>>
      BY <1>7, <2>6 DEF Scan
    <3> QED BY <2>2, <2>3, <2>6, <3>1 DEF Quiet, Counted
  <2> QED BY <2>4, <2>5, <2>6
<1> QED
  BY <1>0, <1>1, <1>2, <1>3, <1>4, <1>5, <1>6, <1>7, Unexposed DEF Next, Recover, Sender, Clean

-----------------------------------------------------------------------------
(* The queue.                                                               *)

LEMMA FirstType == FirstUncounted \in 1..2 /\ (Counted <=> FirstUncounted = 2)
  BY DEF FirstUncounted

\* When the counter has reached the end of the file, or there is no file,
\* nothing in the queue is still to be counted.
LEMMA AllCounted ==
  ASSUME DataOK, FileInv, QueueInv, ChainInv, file = <<>> \/ committed = Size(file)
  PROVE  ~(FirstUncounted <= Len(lo))
<1> SUFFICES ASSUME FirstUncounted <= Len(lo) PROVE FALSE
  OBVIOUS
<1> DEFINE k == FirstUncounted
<1>1. Attached
  BY DEF QueueInv
<1>2. k \in 1..Len(lo) /\ k \in FirstUncounted..Len(lo)
  BY FirstType, LenProperties DEF DataOK
<1>3. lo[k].offset = committed
  BY <1>1 DEF ChainInv
<1>4. PICK i \in 1..Len(file) : IsLine(lo[k], i)
  BY <1>1, <1>2 DEF ChainInv
<1>5. file[i].start = committed /\ file[i].len > 0
  BY <1>3, <1>4 DEF IsLine, FileInv
<1>6. Ends(file[i]) <= Size(file)
  BY SizeBound
<1>7. Size(file) \in Nat /\ committed \in Nat
  BY SizeNat DEF DataOK
<1>8. committed # Size(file)
  BY <1>5, <1>6, <1>7, LineTypes
<1>9. file # <<>>
  BY <1>4
<1> QED BY <1>8, <1>9

LEMMA QueueStep ==
  ASSUME Exposures = {}, IInv, [Next]_vars
  PROVE  QueueInv'
<1> USE DEF store, readers, locals, queue, snd
<1>0. DataOK /\ FileInv /\ LockInv /\ UseInv /\ QueueInv /\ ChainInv
  BY DEF IInv, TypeOK
<1>1. CASE UNCHANGED <<hi, lo, gen, spc, cur, at, delivered, Attached>>
  BY <1>0, <1>1 DEF QueueInv, FirstUncounted, Counted
<1>2. ASSUME NEW t \in Readers, Recover(t), ~RecoverLine(t) PROVE QueueInv'
  <2>1. UNCHANGED <<hi, lo, gen, spc, cur, at, delivered, present>>
    BY <1>0, <1>2, Unexposed DEF Recover, RecoverLock, RecoverNoFile, RecoverSeek, RecoverEnd, history
  <2>2. pc["recover"] # "unlink" /\ pc'["recover"] # "unlink"
    BY <1>0, <1>2, Unexposed DEF Recover, RecoverLock, RecoverNoFile, RecoverSeek, RecoverEnd,
                                Return, LockInv, DataOK, Readers
  <2> QED BY <1>1, <2>1, <2>2 DEF Attached
<1>3. ASSUME NEW t \in Readers, RecoverLine(t) PROVE QueueInv'
  <2>1. PICK i \in 1..Len(file) : RecoverLine(t)!2!(i)
    BY <1>3 DEF RecoverLine
  <2> DEFINE msg == [id |-> file[i].id, offset |-> last, len |-> file[i].len,
                     gen |-> gen, pri |-> file[i].pri]
  <2>2. file[i].pri = "async" /\ file[i] \in Lines
    BY <1>0, FileTypes DEF FileInv
  <2>3. hi' = hi /\ (lo' = lo \/ lo' = Append(lo, msg))
    BY <2>1, <2>2 DEF Insert
  <2>4. msg \in Msgs /\ msg.gen = 0
    BY <1>0, <2>2 DEF Msgs, Lines, DataOK, QueueInv
  <2>5. spc' = spc \/ (spc = "none" /\ spc' = "wait")
    <3>1. PICK q : SndGoto(q) /\ (q = spc \/ (spc = "none" /\ q = "wait"))
      BY <2>1
    <3> QED BY <3>1 DEF SndGoto
  <2>6. UNCHANGED <<cur, at, gen, delivered>>
    BY <1>3, <2>1 DEF RecoverLine, SndGoto, history
  <2>7. Attached'
    BY <1>0, <1>3 DEF RecoverLine, Attached, UseInv, LockInv, Readers
  <2> HIDE DEF msg
  <2>8. CASE lo' = lo
    BY <1>0, <2>3, <2>5, <2>6, <2>7, <2>8 DEF QueueInv
  <2>9. CASE lo' = Append(lo, msg)
    <3>1. /\ Len(lo') = Len(lo) + 1 /\ lo' # <<>>
          /\ \A k \in 1..Len(lo) : lo'[k] = lo[k]
          /\ lo'[Len(lo) + 1] = msg
      BY <1>0, <2>4, <2>9, AppendProperties DEF DataOK
    <3>2. Len(lo) \in Nat
      BY <1>0 DEF DataOK
    <3>3. \A k \in 1..Len(lo') : lo'[k].gen = 0
      <4>1. ASSUME NEW k \in 1..Len(lo') PROVE lo'[k].gen = 0
        <5>1. k = Len(lo) + 1 \/ (k \in 1..Len(lo) /\ lo'[k] = lo[k])
          BY <3>1, <3>2
        <5> QED BY <1>0, <2>4, <3>1, <5>1 DEF QueueInv
      <4> QED BY <4>1
    <3>4. lo # <<>> => lo'[1] = lo[1]
      BY <1>0, <3>1 DEF DataOK
    <3>5. spc' \notin {"none", "wait"} => lo' # <<>> /\ cur' = lo'[1] /\ at' = "lo"
      BY <1>0, <2>5, <2>6, <3>1, <3>4 DEF QueueInv
    <3>6. spc' \in {"replied", "commit", "count", "ctl", "committed"} => cur'.id \in delivered'
      BY <1>0, <2>5, <2>6 DEF QueueInv
    <3> QED BY <1>0, <2>3, <2>6, <2>7, <3>3, <3>5, <3>6 DEF QueueInv
  <2> QED BY <2>3, <2>8, <2>9
<1>4. CASE Sender
  <2> USE DEF SndGoto
  <2>1. UNCHANGED <<gen, Attached>>
    BY <1>4 DEF Sender, Get, SendFails, ReplyLost, Reply, CheckGeneration, CommitCount,
                CommitOpen, CommitWrite, CommitFails, ConfirmFails, Remove, Attached
  <2>2. CASE Get
    <3>1. hi = <<>> /\ cur' = lo[1] /\ at' = "lo" /\ spc = "wait" /\ spc' = "sending"
      BY <1>0, <2>2 DEF Get, QueueInv
    <3>2. UNCHANGED <<hi, lo, delivered>>
      BY <2>2 DEF Get, history
    <3>3. lo # <<>>
      BY <1>0, <2>2, <3>1 DEF Get, QueueLen
    <3> QED BY <1>0, <2>1, <3>1, <3>2, <3>3 DEF QueueInv, FirstUncounted, Counted
  <2>3. CASE SendFails \/ ReplyLost \/ Reply
    <3>1. UNCHANGED <<hi, lo, cur, at>> /\ spc = "sending"
      BY <2>3 DEF SendFails, ReplyLost, Reply
    <3>2. spc' = "wait" \/ (spc' = "replied" /\ cur.id \in delivered')
      BY <2>3 DEF SendFails, ReplyLost, Reply
    <3> QED BY <1>0, <2>1, <3>1, <3>2 DEF QueueInv, FirstUncounted, Counted
  <2>4. CASE CheckGeneration
    <3>1. lo # <<>> /\ cur = lo[1] /\ spc = "replied"
      BY <1>0, <2>4 DEF CheckGeneration, QueueInv
    <3>2. Len(lo) \in Nat /\ Len(lo) >= 1
      BY <1>0, <3>1 DEF DataOK
    <3>3. present /\ cur.gen = gen
      BY <1>0, <3>1, <3>2 DEF QueueInv, Attached, FirstUncounted, Counted
    <3>4. spc' = "commit" /\ UNCHANGED <<hi, lo, cur, at, delivered>>
      BY <2>4, <3>3 DEF CheckGeneration, history
    <3> QED BY <1>0, <2>1, <3>1, <3>4 DEF QueueInv, FirstUncounted, Counted
  <2>5. CASE CommitCount
    <3>1. lo # <<>> /\ cur = lo[1] /\ spc = "commit" /\ spc' = "count"
      BY <1>0, <2>5 DEF CommitCount, QueueInv
    <3>2. Len(lo) \in Nat /\ Len(lo) >= 1
      BY <1>0, <3>1 DEF DataOK
    <3>3. Attached
      BY <1>0, <3>1, <3>2 DEF QueueInv, FirstUncounted, Counted
    <3>4. UNCHANGED <<hi, lo, cur, at, delivered>>
      BY <2>5 DEF CommitCount, history
    <3> QED BY <1>0, <2>1, <3>1, <3>3, <3>4 DEF QueueInv
  <2>6. CASE CommitOpen \/ CommitWrite
    <3>1. UNCHANGED <<hi, lo, cur, at, delivered>> /\ spc \in {"count", "ctl"}
      BY <2>6 DEF CommitOpen, CommitWrite, history
    <3>2. spc' = "ctl" \/ spc' = "committed"
      BY <2>6 DEF CommitOpen, CommitWrite
    <3> QED BY <1>0, <2>1, <3>1, <3>2 DEF QueueInv, FirstUncounted, Counted
  <2>7. CASE Remove
    <3>1. lo # <<>> /\ at = "lo" /\ hi = <<>> /\ spc = "committed" /\ spc' = "wait"
      BY <1>0, <2>7 DEF Remove, QueueInv
    <3>2. lo \in Seq(Msgs) /\ Len(lo) \in Nat /\ Len(lo) >= 1
      BY <1>0, <3>1 DEF DataOK
    <3>3. CASE Len(lo) > 1
      <4>1. hi' = hi /\ lo' = Tail(lo)
        BY <2>7, <3>1, <3>3 DEF Remove
      <4>2. Len(lo') = Len(lo) - 1 /\ \A k \in 1..Len(lo') : lo'[k] = lo[k+1]
        BY <3>1, <3>2, <4>1, HeadTailProperties
      <4>3. \A k \in 1..Len(lo') : lo'[k].gen = 0
        BY <1>0, <3>2, <4>2 DEF QueueInv
      <4>4. Attached
        BY <1>0, <3>1, <3>3 DEF QueueInv, FirstUncounted, Counted
      <4> QED BY <1>0, <2>1, <3>1, <4>1, <4>3, <4>4 DEF QueueInv
    <3>4. CASE ~(Len(lo) > 1)
      <4>1. hi' = <<>> /\ lo' = <<>>
        BY <2>7, <3>1, <3>4 DEF Remove
      <4> QED BY <1>0, <2>1, <3>1, <4>1 DEF QueueInv, FirstUncounted, Counted
    <3> QED BY <3>3, <3>4
  <2> QED BY <1>0, <1>4, <2>2, <2>3, <2>4, <2>5, <2>6, <2>7, Unexposed DEF Sender
<1>5. CASE CleanSkip
  BY <1>0, <1>1, <1>5 DEF CleanSkip, Attached, history, DataOK, Readers
<1>6. CASE CleanGone \/ CleanUnlink
  <2>1. ~(FirstUncounted <= Len(lo)) /\ spc \notin {"count", "ctl"}
    BY <1>0, <1>6, AllCounted DEF CleanGone, CleanUnlink, LockInv, Free
  <2>2. UNCHANGED <<hi, lo, spc, cur, at, delivered>> /\ gen' = 0
    BY <1>0, <1>6 DEF CleanGone, CleanUnlink, ForgetStore, history, QueueInv
  <2> QED BY <1>0, <2>1, <2>2 DEF QueueInv, FirstUncounted, Counted
<1>7. CASE CleanCtl
  <2>1. ~Attached
    BY <1>7 DEF CleanCtl, Attached
  <2>2. UNCHANGED <<hi, lo, spc, cur, at, delivered>> /\ gen' = 0
    BY <1>7 DEF CleanCtl, ForgetStore, history
  <2> QED BY <1>0, <2>1, <2>2 DEF QueueInv, FirstUncounted, Counted
<1>8. CASE Crash
  BY <1>8 DEF Crash, ForgetStore, QueueInv, FirstUncounted, Counted
<1>9. CASE Find \/ Scan
  <2>1. UNCHANGED <<hi, lo, spc, cur, at, delivered>>
    BY <1>9 DEF Find, Scan, history
  <2>2. gen' = 0
    BY <1>0, <1>9 DEF Find, Scan, QueueInv
  <2>3. Attached => Attached'
    BY <1>0, <1>9 DEF Find, Scan, Attached, DataOK, Readers
  <2> QED BY <1>0, <2>1, <2>2, <2>3 DEF QueueInv, FirstUncounted, Counted
<1>10. CASE Restart \/ UNCHANGED vars
  BY <1>1, <1>10 DEF Restart, vars, Attached, history
<1>11. ASSUME NEW len \in Lens, NEW pri \in Kinds, Log(len, pri) PROVE QueueInv'
  BY <1>1, <1>11 DEF Log, Attached
<1> QED
  BY <1>0, <1>2, <1>3, <1>4, <1>5, <1>6, <1>7, <1>8, <1>9, <1>10, <1>11, Unexposed DEF Next, Clean

-----------------------------------------------------------------------------
(* What the remaining steps do to the store and the queue.                  *)

Calm ==
  /\ UNCHANGED <<file, committed, offset, offsetLock, last, fpos, throttle, lo>>
  /\ Counted' <=> Counted
  /\ Attached' <=> Attached
  /\ delivered \subseteq delivered'

LEMMA CalmSteps ==
  ASSUME Quiet \/ CommitOpen \/ CommitWrite
  PROVE  Calm
<1>1. CASE Quiet
  BY <1>1 DEF Quiet, Calm, Attached
<1>2. CASE CommitOpen \/ CommitWrite
  BY <1>2 DEF CommitOpen, CommitWrite, SndGoto, Calm, Attached, Counted, store, locks, readers,
              queue, history
<1> QED BY <1>1, <1>2

LEMMA DetachSteps ==
  ASSUME DataOK, CleanGone \/ CleanUnlink \/ CleanCtl \/ Crash
  PROVE  ~Attached'
  BY DEF CleanGone, CleanUnlink, CleanCtl, Crash, ForgetStore, Attached, DataOK, Readers

\* A thread in event_store_recover or in the cleanup has a store.
LEMMA InUse ==
  ASSUME LockInv, UseInv, NEW t \in Readers, pc[t] \notin {"idle", "unlink"}
  PROVE  Attached
  BY DEF LockInv, UseInv, Attached, Readers

LEMMA FrontierNat == DataOK => Frontier \in Nat
  BY DEF DataOK, Frontier

\* A position in the file is not behind its end.
LEMMA PositionBound ==
  ASSUME DataOK, FileInv, NEW p \in Nat, Position(p)
  PROVE  p <= Size(file)
  BY SizeNat, SizeBound DEF Position, Boundary

\* Finding the place to read from does not move the frontier.
LEMMA SeekShape ==
  ASSUME IInv, NEW t \in Readers, RecoverSeek(t)
  PROVE  /\ Attached /\ Attached'
         /\ UNCHANGED <<file, ctl, lo, spc, delivered, committed, offset>>
         /\ Frontier' = Frontier
         /\ offsetLock' # Free /\ fpos' = last'
<1>0. DataOK /\ LockInv /\ UseInv /\ PositionInv
  BY DEF IInv, TypeOK
<1>1. Attached
  BY <1>0, InUse DEF RecoverSeek
<1>2. Attached'
  BY <1>0, <1>1 DEF RecoverSeek, Attached, DataOK, Readers
<1>3. offset > 0 => OffsetGood
  BY <1>0, <1>1 DEF PositionInv, Position, OffsetGood, DataOK
<1>4. committed > 0 => Boundary(committed)
  BY <1>0, <1>1 DEF PositionInv, Position, DataOK
<1>5. offset \in Nat /\ committed \in Nat
  BY <1>0 DEF DataOK
<1>6. offset' = offset
  BY <1>3, <1>5 DEF RecoverSeek
<1>7. StartPos = IF offset > 0 THEN offset ELSE committed
  BY <1>3, <1>4, <1>5 DEF StartPos, OffsetGood
<1>8. committed' = committed
  BY <1>3, <1>5, <1>7 DEF RecoverSeek
<1>9. offsetLock = Free /\ offsetLock' # Free /\ last' = StartPos /\ fpos' = last'
  BY DEF RecoverSeek, Readers, Free
<1>10. Frontier' = Frontier
  BY <1>7, <1>9 DEF Frontier
<1>11. UNCHANGED <<file, ctl, lo, spc, delivered>>
  BY DEF RecoverSeek, disk, queue, snd, history
<1> QED BY <1>1, <1>2, <1>6, <1>8, <1>9, <1>10, <1>11

\* The end of a read saves the frontier.
LEMMA EndShape ==
  ASSUME IInv, NEW t \in Readers, RecoverEnd(t)
  PROVE  /\ Attached /\ Attached'
         /\ UNCHANGED <<file, ctl, lo, spc, delivered, committed>>
         /\ Frontier' = Frontier /\ offset' = Frontier
         /\ offsetLock' = Free
<1>0. DataOK /\ LockInv /\ UseInv /\ ChainInv
  BY DEF IInv, TypeOK
<1>1. Attached
  BY <1>0, InUse DEF RecoverEnd
<1>2. Attached'
  BY <1>0, <1>1 DEF RecoverEnd, Return, Attached, DataOK, Readers
<1>3. offsetLock = t /\ t # Free
  BY <1>0 DEF RecoverEnd, LockInv, Readers, Free
<1>4. Frontier = last
  BY <1>3 DEF Frontier
<1>5. committed \in Nat /\ last \in Nat /\ committed <= last
  BY <1>0, <1>1, <1>4 DEF DataOK, ChainInv
<1>6. offset' = last /\ offsetLock' = Free /\ committed' = committed
  BY DEF RecoverEnd
<1>7. Frontier' = last
  BY <1>5, <1>6 DEF Frontier
<1>8. UNCHANGED <<file, ctl, lo, spc, delivered>>
  BY DEF RecoverEnd, disk, queue, snd, history
<1> QED BY <1>1, <1>2, <1>4, <1>6, <1>7, <1>8

\* The reader hands the line at the frontier to the queue.
Enqueued(i) ==
  /\ ~throttle /\ file[i].start = Frontier
  /\ \E m \in Msgs : lo' = Append(lo, m) /\ IsLine(m, i)
  /\ Frontier' = Ends(file[i]) /\ fpos' = last'

\* The queue has refused this line or one before it.
Passed == lo' = lo /\ Frontier' = Frontier /\ throttle'

LEMMA LineShape ==
  ASSUME IInv, NEW t \in Readers, RecoverLine(t)
  PROVE  /\ Attached /\ Attached'
         /\ UNCHANGED <<file, ctl, delivered, committed, offset>>
         /\ Counted' <=> Counted
         /\ offsetLock # Free /\ offsetLock' # Free
         /\ Passed \/ \E i \in 1..Len(file) : Enqueued(i)
<1>0. DataOK /\ FileInv /\ LockInv /\ UseInv /\ ChainInv /\ PositionInv
  BY DEF IInv, TypeOK
<1>1. PICK i \in 1..Len(file) : RecoverLine(t)!2!(i)
  BY DEF RecoverLine
<1>2. Attached
  BY <1>0, InUse DEF RecoverLine
<1>3. Attached'
  BY <1>2 DEF RecoverLine, Attached, store
<1>4. offsetLock = t /\ t # Free /\ offsetLock' = offsetLock
  BY <1>0 DEF RecoverLine, LockInv, Readers, Free, locks
<1>5. Frontier = last /\ Frontier' = last'
  BY <1>4 DEF Frontier
<1>6. committed \in Nat /\ last \in Nat /\ last >= committed
  BY <1>0, <1>2, <1>5 DEF DataOK, ChainInv
<1>7. UNCHANGED <<file, ctl, delivered, committed, offset>>
  BY DEF RecoverLine, disk, store, history
<1>8. Counted' <=> Counted
  <2>1. PICK q : SndGoto(q) /\ (q = spc \/ (spc = "none" /\ q = "wait"))
    BY <1>1
  <2> QED BY <2>1 DEF SndGoto, Counted
<1>9. CASE throttle \/ Refuse
  <2>1. lo' = lo /\ last' = last /\ throttle'
    BY <1>1, <1>6, <1>9
  <2> QED BY <1>2, <1>3, <1>4, <1>5, <1>7, <1>8, <2>1 DEF Passed
<1>10. CASE ~throttle /\ ~Refuse
  <2> DEFINE msg == [id |-> file[i].id, offset |-> last, len |-> file[i].len,
                     gen |-> gen, pri |-> file[i].pri]
  <2>1. file[i].pri = "async" /\ file[i] \in Lines
    BY <1>0, FileTypes DEF FileInv
  <2>2. lo' = Append(lo, msg)
    BY <1>1, <1>6, <1>10, <2>1 DEF Insert
  <2>3. msg \in Msgs
    BY <1>0, <2>1 DEF Msgs, Lines, DataOK
  <2>4. fpos = last
    BY <1>0, <1>2, <1>4, <1>10 DEF PositionInv
  <2>5. file[i].start = last
    BY <1>1, <2>4 DEF LineAtFpos
  <2>6. IsLine(msg, i)
    BY <2>5 DEF IsLine
  <2>7. last' = Ends(file[i]) /\ fpos' = Ends(file[i])
    BY <1>1, <1>6, <1>10
  <2> HIDE DEF msg
  <2>8. Enqueued(i)
    BY <1>5, <1>10, <2>2, <2>3, <2>5, <2>6, <2>7 DEF Enqueued
  <2> QED BY <1>2, <1>3, <1>4, <1>7, <1>8, <2>8
<1> QED BY <1>9, <1>10

\* The counter moves over the event at the head of the queue.
LEMMA CountShape ==
  ASSUME IInv, CommitCount
  PROVE  /\ Attached /\ Attached'
         /\ UNCHANGED <<file, ctl, lo, delivered, offset, offsetLock, last, fpos, throttle>>
         /\ ~Counted /\ Counted' /\ Len(lo) \in Nat /\ Len(lo) >= 1
         /\ committed' = MsgEnd(lo[1]) /\ committed < committed'
         /\ Frontier' = Frontier
         /\ \E i \in 1..Len(file) : IsLine(lo[1], i)
         /\ lo[1].id \in delivered
<1>0. DataOK /\ FileInv /\ LockInv /\ UseInv /\ QueueInv /\ ChainInv
  BY DEF IInv, TypeOK
<1>1. ~Counted /\ Counted' /\ FirstUncounted = 1
  BY DEF CommitCount, SndGoto, Counted, FirstUncounted
<1>2. lo # <<>> /\ cur = lo[1] /\ cur.id \in delivered
  BY <1>0 DEF CommitCount, QueueInv
<1>3. Len(lo) \in Nat /\ Len(lo) >= 1
  BY <1>0, <1>2 DEF DataOK
<1>4. Attached
  BY <1>0, <1>1, <1>3 DEF QueueInv
<1>5. Attached'
  BY <1>4 DEF CommitCount, Attached, readers
<1>6. lo[1].offset = committed /\ MsgEnd(lo[1]) <= Frontier
  BY <1>0, <1>1, <1>3, <1>4 DEF ChainInv
<1>7. PICK i \in 1..Len(file) : IsLine(lo[1], i)
  BY <1>0, <1>1, <1>3, <1>4 DEF ChainInv
<1>8. lo[1].len > 0
  BY <1>0, <1>7 DEF IsLine, FileInv
<1>9. 1 \in 1..Len(lo)
  BY <1>3
<1>10. committed' = committed + lo[1].len
  BY <1>2 DEF CommitCount
<1>11. committed' = MsgEnd(lo[1]) /\ committed < committed' /\ committed < Frontier
  <2>1. /\ lo[1].offset \in Nat /\ lo[1].len \in Nat
        /\ MsgEnd(lo[1]) = lo[1].offset + lo[1].len
    BY <1>0, <1>9, MsgTypes
  <2>2. Frontier \in Nat /\ committed \in Nat
    BY <1>0, FrontierNat DEF DataOK
  <2> QED BY <1>6, <1>8, <1>10, <2>1, <2>2
<1>12. UNCHANGED <<file, ctl, lo, delivered, offset, offsetLock, last, fpos, throttle>>
  BY DEF CommitCount, disk, queue, history, readers
<1>13. Frontier' = Frontier
  <2>1. offsetLock # Free \/ offset > 0
    BY <1>0, <1>11 DEF Frontier, DataOK
  <2> QED BY <1>12, <2>1 DEF Frontier
<1> QED BY <1>1, <1>2, <1>3, <1>4, <1>5, <1>7, <1>11, <1>12, <1>13

\* The head, which has been counted, leaves the queue.
LEMMA RemoveShape ==
  ASSUME IInv, Remove
  PROVE  /\ Attached' <=> Attached
         /\ UNCHANGED <<file, ctl, delivered, committed, offset, offsetLock, last, fpos, throttle>>
         /\ Frontier' = Frontier
         /\ Counted /\ ~Counted'
         /\ Len(lo) \in Nat /\ Len(lo) >= 1 /\ Len(lo') = Len(lo) - 1
         /\ \A k \in 1..Len(lo') : lo'[k] = lo[k+1]
         /\ lo[1].id \in delivered
<1>0. DataOK /\ QueueInv
  BY DEF IInv, TypeOK
<1>1. /\ lo # <<>> /\ at = "lo" /\ hi = <<>> /\ lo[1].id \in delivered
      /\ Counted /\ ~Counted'
  BY <1>0 DEF Remove, SndGoto, QueueInv, Counted
<1>2. lo \in Seq(Msgs) /\ Len(lo) \in Nat /\ Len(lo) >= 1
  BY <1>0, <1>1 DEF DataOK
<1>3. Len(lo') = Len(lo) - 1 /\ \A k \in 1..Len(lo') : lo'[k] = lo[k+1]
  <2>1. CASE Len(lo) > 1
    <3>1. lo' = Tail(lo)
      BY <1>1, <2>1 DEF Remove
    <3>2. Len(Tail(lo)) = Len(lo) - 1 /\ \A k \in 1..Len(Tail(lo)) : Tail(lo)[k] = lo[k+1]
      <4>1. lo # <<>> /\ lo \in Seq(Msgs)
        BY <1>1, <1>2
      <4> QED BY ONLY <4>1, HeadTailProperties
    <3> QED BY <3>1, <3>2
  <2>2. CASE ~(Len(lo) > 1)
    <3>1. lo' = <<>> /\ Len(lo') = 0
      BY <1>1, <2>2 DEF Remove
    <3>2. Len(lo) = 1
      <4>1. \A n \in Nat : n >= 1 /\ ~(n > 1) => n = 1
        OBVIOUS
      <4>2. Len(lo) \in Nat /\ Len(lo) >= 1
        BY <1>2
      <4> QED BY ONLY <2>2, <4>1, <4>2
    <3> QED BY ONLY <3>1, <3>2
  <2> QED BY <2>1, <2>2
<1>4. UNCHANGED <<file, ctl, delivered, committed, offset, offsetLock, last, fpos, throttle>>
  BY DEF Remove, disk, history, store, locks, readers
<1>5. Frontier' = Frontier /\ (Attached' <=> Attached)
  BY <1>4 DEF Frontier, Attached, Remove, store, readers
<1> QED BY <1>1, <1>2, <1>3, <1>4, <1>5

-----------------------------------------------------------------------------
(* The chain of uncounted messages.                                         *)

\* Where a new store starts to read.
LEMMA AttachShape ==
  ASSUME IInv, Attach
  PROVE  /\ ~Attached /\ Attached'
         /\ offsetLock' = Free
         /\ Frontier' = committed'
         /\ FirstUncounted' = FirstUncounted
         /\ ~(FirstUncounted <= Len(lo))
<1>0. DataOK /\ LockInv /\ UseInv /\ QueueInv
  BY DEF IInv, TypeOK
<1>1. ~Attached /\ Attached'
  BY DEF Attach, Attached
<1>2. offsetLock = Free
  BY <1>0 DEF Attach, DataOK, LockInv, UseInv, Readers
<1>3. offsetLock' = Free /\ offset' = 0
  BY <1>2 DEF Attach
<1>4. Frontier' = committed'
  BY <1>3 DEF Frontier
<1>5. FirstUncounted' = FirstUncounted
  BY DEF Attach, FirstUncounted, Counted
<1>6. ~(FirstUncounted <= Len(lo))
  BY <1>0, <1>1 DEF QueueInv
<1> QED BY <1>1, <1>3, <1>4, <1>5, <1>6

LEMMA ChainStep ==
  ASSUME Exposures = {}, IInv, [Next]_vars
  PROVE  ChainInv'
<1>0. DataOK /\ FileInv /\ LockInv /\ UseInv /\ QueueInv /\ ChainInv
  BY DEF IInv, TypeOK
<1>1. CASE Quiet \/ CommitOpen \/ CommitWrite
  <2>1. Calm
    BY <1>1, CalmSteps
  <2>2. Frontier' = Frontier /\ FirstUncounted' = FirstUncounted
    BY <2>1 DEF Calm, Frontier, FirstUncounted
  <2> QED BY <1>0, <2>1, <2>2 DEF Calm, ChainInv, IsLine, MsgEnd
<1>2. CASE Attach
  <2>1. /\ Frontier' = committed' /\ FirstUncounted' = FirstUncounted /\ lo' = lo
        /\ ~(FirstUncounted <= Len(lo))
    BY <1>2, AttachShape DEF Attach
  <2>2. committed' \in Nat
    BY <1>0, <1>2 DEF Attach, CtlValue, DataOK
  <2>3. \A k \in FirstUncounted'..Len(lo') : FALSE
    BY <1>0, <2>1, FirstType, LenProperties DEF DataOK
  <2> QED BY <2>1, <2>2, <2>3 DEF ChainInv
<1>3. ASSUME NEW len \in Lens, NEW pri \in Kinds, Log(len, pri) PROVE ChainInv'
  <2>1. /\ UNCHANGED <<lo, committed, offset, offsetLock, last>>
        /\ FirstUncounted' = FirstUncounted
        /\ Attached' <=> Attached
    BY <1>3 DEF Log, queue, store, locks, readers, snd, FirstUncounted, Counted, Attached
  <2>2. Frontier' = Frontier
    BY <2>1 DEF Frontier
  <2>3. ASSUME NEW m, \E i \in 1..Len(file) : IsLine(m, i)
        PROVE  \E i \in 1..Len(file') : IsLine(m, i)'
    <3>1. PICK i \in 1..Len(file) : IsLine(m, i)
      BY <2>3
    <3>2. i \in 1..Len(file') /\ file'[i] = file[i]
      BY <1>0, <1>3, LogShape, LenProperties DEF DataOK
    <3> QED BY <3>1, <3>2 DEF IsLine
  <2> QED BY <1>0, <2>1, <2>2, <2>3 DEF ChainInv, IsLine, MsgEnd
<1>4. ASSUME NEW t \in Readers, RecoverSeek(t) \/ RecoverEnd(t) PROVE ChainInv'
  <2>1. /\ Attached /\ UNCHANGED <<file, lo, spc, committed>>
        /\ Frontier' = Frontier
    BY <1>4, SeekShape, EndShape
  <2>2. FirstUncounted' = FirstUncounted
    BY <2>1 DEF FirstUncounted, Counted
  <2> QED BY <1>0, <2>1, <2>2 DEF ChainInv, IsLine, MsgEnd
<1>5. ASSUME NEW t \in Readers, RecoverLine(t) PROVE ChainInv'
  <2>1. /\ Attached /\ UNCHANGED <<file, committed>>
        /\ Counted' <=> Counted
        /\ Passed \/ \E i \in 1..Len(file) : Enqueued(i)
    BY <1>5, LineShape
  <2>2. FirstUncounted' = FirstUncounted
    BY <2>1 DEF FirstUncounted
  <2>3. CASE Passed
    BY <1>0, <2>1, <2>2, <2>3 DEF Passed, ChainInv, IsLine, MsgEnd
  <2>4. ASSUME NEW i \in 1..Len(file), Enqueued(i) PROVE ChainInv'
    <3>1. PICK m \in Msgs : lo' = Append(lo, m) /\ IsLine(m, i)
      BY <2>4 DEF Enqueued
    <3> DEFINE n == Len(lo) + 1
               F == FirstUncounted
    <3>2. Len(lo') = n /\ (\A k \in 1..Len(lo) : lo'[k] = lo[k]) /\ lo'[n] = m
      BY <1>0, <3>1, AppendProperties DEF DataOK
    <3>3. Len(lo) \in Nat /\ F \in 1..2 /\ F' = F
      BY <1>0, <2>2, FirstType DEF DataOK
    <3>4. F <= n
      <4>1. Counted => lo # <<>>
        BY <1>0 DEF Counted, QueueInv
      <4>2. Counted => Len(lo) >= 1
        BY <1>0, <4>1 DEF DataOK
      <4> QED BY <3>3, <4>2, FirstType
    <3>5. m.offset = Frontier /\ MsgEnd(m) = Frontier' /\ m.len > 0
      <4>1. m.offset = Frontier /\ m.len = file[i].len
        BY <2>4, <3>1 DEF Enqueued, IsLine
      <4>2. Ends(file[i]) = MsgEnd(m)
        BY <2>4, <3>1, <4>1 DEF Enqueued, IsLine, Ends, MsgEnd
      <4> QED BY <1>0, <2>4, <4>1, <4>2 DEF Enqueued, FileInv
    <3>6. Frontier \in Nat /\ Frontier' \in Nat /\ Frontier <= Frontier' /\ committed \in Nat
      <4>1. m.offset \in Nat /\ m.len \in Nat
        BY DEF Msgs
      <4> QED BY <1>0, <3>5, <4>1, FrontierNat DEF MsgEnd, DataOK
    <3>7. ASSUME NEW k \in F..n
          PROVE  /\ MsgEnd(lo'[k]) <= Frontier'
                 /\ \E j \in 1..Len(file) : IsLine(lo'[k], j)
                 /\ k < n => lo'[k+1].offset = MsgEnd(lo'[k])
      <4>1. CASE k = n
        BY <3>1, <3>2, <3>3, <3>5, <3>6, <4>1
      <4>2. CASE k # n
        <5>1. k \in F..Len(lo) /\ k \in 1..Len(lo) /\ lo'[k] = lo[k]
          BY <3>2, <3>3, <4>2
        <5>2. MsgEnd(lo[k]) <= Frontier /\ \E j \in 1..Len(file) : IsLine(lo[k], j)
          BY <1>0, <2>1, <5>1 DEF ChainInv
        <5>3. MsgEnd(lo[k]) \in Nat
          BY <1>0, <5>1, MsgTypes
        <5>4. lo'[k+1].offset = MsgEnd(lo[k])
          <6>1. CASE k = Len(lo)
            <7>1. MsgEnd(lo[k]) = Frontier
              BY <1>0, <2>1, <3>3, <5>1, <6>1 DEF ChainInv
            <7> QED BY <3>2, <3>5, <6>1, <7>1
          <6>2. CASE k # Len(lo)
            <7>1. k < Len(lo) /\ k + 1 \in 1..Len(lo)
              BY <3>3, <5>1, <6>2
            <7>2. lo[k+1].offset = MsgEnd(lo[k])
              BY <1>0, <2>1, <5>1, <7>1 DEF ChainInv
            <7> QED BY <3>2, <7>1, <7>2
          <6> QED BY <6>1, <6>2
        <5> QED BY <3>6, <5>1, <5>2, <5>3, <5>4
      <4> QED BY <4>1, <4>2
    <3>8. lo'[F].offset = committed
      <4>1. CASE F = n
        <5>1. Frontier = committed
          BY <1>0, <2>1, <3>3, <4>1 DEF ChainInv
        <5> QED BY <3>2, <3>5, <4>1, <5>1
      <4>2. CASE F # n
        <5>1. F <= Len(lo) /\ F \in 1..Len(lo)
          BY <3>3, <3>4, <4>2
        <5>2. lo[F].offset = committed
          BY <1>0, <2>1, <5>1 DEF ChainInv
        <5> QED BY <3>2, <5>1, <5>2
      <4> QED BY <4>1, <4>2
    <3>9. MsgEnd(lo'[n]) = Frontier'
      BY <3>2, <3>5
    <3>10. committed <= Frontier'
      BY <1>0, <2>1, <3>6 DEF ChainInv
    <3>11. \A k \in F'..Len(lo') :
              /\ MsgEnd(lo'[k]) <= Frontier'
              /\ \E j \in 1..Len(file') : IsLine(lo[k], j)'
              /\ k < Len(lo') => lo'[k+1].offset = MsgEnd(lo'[k])
      BY <2>1, <3>2, <3>3, <3>7 DEF IsLine
    <3> QED BY <2>1, <3>2, <3>3, <3>4, <3>8, <3>9, <3>10, <3>11 DEF ChainInv, MsgEnd
  <2> QED BY <2>1, <2>3, <2>4
<1>6. CASE CommitCount
  <2>1. /\ Attached /\ UNCHANGED <<file, lo>>
        /\ Len(lo) \in Nat /\ Len(lo) >= 1
        /\ committed' = MsgEnd(lo[1]) /\ Frontier' = Frontier
    BY <1>6, CountShape
  <2>2. FirstUncounted = 1 /\ FirstUncounted' = 2
    BY <1>6, CountShape DEF FirstUncounted
  <2>3. \A k \in 1..Len(lo) :
          /\ MsgEnd(lo[k]) <= Frontier
          /\ \E i \in 1..Len(file) : IsLine(lo[k], i)
          /\ k < Len(lo) => lo[k+1].offset = MsgEnd(lo[k])
    BY <1>0, <2>1, <2>2 DEF ChainInv
  <2>4. MsgEnd(lo[Len(lo)]) = Frontier
    BY <1>0, <2>1, <2>2 DEF ChainInv
  <2>5. 2 <= Len(lo) => lo[2].offset = MsgEnd(lo[1])
    BY <2>1, <2>3
  <2>6. MsgEnd(lo[1]) <= Frontier
    BY <2>1, <2>3
  <2>7. 2 > Len(lo) => MsgEnd(lo[1]) = Frontier
    <3>1. Len(lo) \in Nat /\ Len(lo) >= 1
      BY <2>1
    <3>2. \A n \in Nat : n >= 1 /\ 2 > n => n = 1
      OBVIOUS
    <3> QED BY <2>4, <3>1, <3>2
  <2> QED BY <2>1, <2>2, <2>3, <2>4, <2>5, <2>6, <2>7 DEF ChainInv, IsLine, MsgEnd
<1>7. CASE Remove
  <2>1. /\ Attached' <=> Attached
        /\ UNCHANGED <<file, committed>> /\ Frontier' = Frontier
        /\ Len(lo) \in Nat /\ Len(lo) >= 1 /\ Len(lo') = Len(lo) - 1
        /\ \A k \in 1..Len(lo') : lo'[k] = lo[k+1]
    BY <1>7, RemoveShape
  <2>2. FirstUncounted = 2 /\ FirstUncounted' = 1
    BY <1>7, RemoveShape DEF FirstUncounted
  <2>3. SUFFICES ASSUME Attached PROVE ChainInv'
    BY <2>1 DEF ChainInv
  <2>4. ASSUME NEW k \in 1..Len(lo')
        PROVE  /\ MsgEnd(lo'[k]) <= Frontier
               /\ \E i \in 1..Len(file) : IsLine(lo'[k], i)
               /\ k < Len(lo') => lo'[k+1].offset = MsgEnd(lo'[k])
    <3>1. k + 1 \in 2..Len(lo) /\ lo'[k] = lo[k+1]
      BY <2>1
    <3>2. /\ MsgEnd(lo[k+1]) <= Frontier
          /\ \E i \in 1..Len(file) : IsLine(lo[k+1], i)
          /\ k + 1 < Len(lo) => lo[k+1+1].offset = MsgEnd(lo[k+1])
      BY <1>0, <2>2, <2>3, <3>1 DEF ChainInv
    <3>3. k < Len(lo') => /\ k + 1 < Len(lo) /\ k + 1 \in 1..Len(lo')
      BY <2>1
    <3> QED BY <2>1, <3>1, <3>2, <3>3
  <2>5. 1 <= Len(lo') => 2 <= Len(lo) /\ lo'[1] = lo[2] /\ lo'[Len(lo')] = lo[Len(lo)]
    BY <2>1
  <2>6. 1 <= Len(lo') => lo'[1].offset = committed /\ MsgEnd(lo'[Len(lo')]) = Frontier
    BY <1>0, <2>2, <2>3, <2>5 DEF ChainInv
  <2>7. 1 > Len(lo') => Frontier = committed
    BY <1>0, <2>1, <2>2, <2>3 DEF ChainInv
  <2>8. committed <= Frontier
    BY <1>0, <2>3 DEF ChainInv
  <2>9. \A k \in 1..Len(lo') :
          /\ MsgEnd(lo'[k]) <= Frontier
          /\ \E i \in 1..Len(file') : IsLine(lo[k], i)'
          /\ k < Len(lo') => lo'[k+1].offset = MsgEnd(lo'[k])
    BY <2>1, <2>4 DEF IsLine
  <2> QED BY <2>1, <2>2, <2>6, <2>7, <2>8, <2>9 DEF ChainInv, MsgEnd
<1>8. CASE CleanGone \/ CleanUnlink \/ CleanCtl \/ Crash
  BY <1>0, <1>8, DetachSteps DEF ChainInv
<1> QED BY <1>1, <1>2, <1>3, <1>4, <1>5, <1>6, <1>7, <1>8, Classes

-----------------------------------------------------------------------------
(* Positions, deliveries and the control file.                              *)

LEMMA LineBoundary ==
  ASSUME FileInv, NEW i \in 1..Len(file)
  PROVE  Boundary(Ends(file[i]))
  BY DEF FileInv, Boundary

\* A position in the file stays one when the file grows.
LEMMA LogKeepsBoundary ==
  ASSUME Exposures = {}, DataOK, FileInv,
         NEW len \in Lens, NEW pri \in Kinds, Log(len, pri), NEW p, Boundary(p)
  PROVE  Boundary(p)'
<1>1. PICK i \in 1..Len(file) : Ends(file[i]) = p /\ file[i].st # "part"
  BY DEF Boundary
<1>2. i \in 1..Len(file') /\ file'[i] = file[i]
  BY LogShape, LenProperties DEF DataOK
<1> QED BY <1>1, <1>2 DEF Boundary, Ends

\* The new line ends behind every position.
LEMMA NewLineEnd ==
  ASSUME Exposures = {}, DataOK, FileInv,
         NEW len \in Lens, NEW pri \in Kinds, Log(len, pri), NEW p \in Nat, Position(p)
  PROVE  ~(Ends(file'[Len(file) + 1]) <= p)
<1>1. p <= Size(file) /\ Size(file) \in Nat
  BY PositionBound, SizeNat
<1>2. file'[Len(file) + 1] = NewLine(len, "ok", "async")
  BY LogShape
<1>3. Ends(NewLine(len, "ok", "async")) = Size(file) + len
  BY DEF Ends, NewLine
<1>4. len \in Nat /\ len > 0
  BY StoreAssumption
<1>5. ~(Size(file) + len <= p)
  BY <1>1, <1>4
<1> QED BY <1>2, <1>3, <1>5

LEMMA PositionStep ==
  ASSUME Exposures = {}, IInv, [Next]_vars
  PROVE  PositionInv'
<1>0. DataOK /\ FileInv /\ PositionInv /\ CtlInv
  BY DEF IInv, TypeOK
<1>1. CASE Quiet \/ CommitOpen \/ CommitWrite
  <2>1. Calm
    BY <1>1, CalmSteps
  <2>2. Frontier' = Frontier
    BY <2>1 DEF Calm, Frontier
  <2> QED BY <1>0, <2>1, <2>2 DEF Calm, PositionInv, Position, Boundary
<1>2. CASE Attach
  <2>1. offsetLock' = Free /\ Frontier' = committed' /\ offset' = 0
    BY <1>2, AttachShape DEF Attach
  <2>2. committed' = CtlValue /\ file' = file
    BY <1>2 DEF Attach
  <2>3. Position(CtlValue)
    BY <1>0, <1>2 DEF Attach, CtlInv, CtlValue, Position, DataOK
  <2> QED BY <2>1, <2>2, <2>3 DEF PositionInv, Position, Boundary
<1>3. ASSUME NEW len \in Lens, NEW pri \in Kinds, Log(len, pri) PROVE PositionInv'
  <2>1. /\ UNCHANGED <<committed, offset, offsetLock, last, fpos, throttle>>
        /\ Attached' <=> Attached
    BY <1>3 DEF Log, store, locks, readers, Attached
  <2>2. Frontier' = Frontier
    BY <2>1 DEF Frontier
  <2>3. ASSUME NEW p, Position(p) PROVE Position(p)'
    BY <1>0, <1>3, <2>3, LogKeepsBoundary DEF Position
  <2>4. ASSUME Attached PROVE Position(committed)' /\ Position(offset)' /\ Position(Frontier)'
    <3>1. Position(committed) /\ Position(offset) /\ Position(Frontier)
      BY <1>0, <2>4 DEF PositionInv
    <3>2. \A p : Position(p) => p = 0 \/ Boundary(p)'
      BY <1>0, <1>3, LogKeepsBoundary DEF Position
    <3> QED BY <2>1, <2>2, <3>1, <3>2 DEF Position, Boundary
  <2> QED BY <1>0, <2>1, <2>4 DEF PositionInv
<1>4. ASSUME NEW t \in Readers, RecoverSeek(t) PROVE PositionInv'
  <2>1. /\ Attached /\ UNCHANGED <<file, committed, offset>>
        /\ Frontier' = Frontier /\ fpos' = last'
    BY <1>4, SeekShape
  <2> QED BY <1>0, <2>1 DEF PositionInv, Position, Boundary
<1>5. ASSUME NEW t \in Readers, RecoverEnd(t) PROVE PositionInv'
  <2>1. /\ Attached /\ UNCHANGED <<file, committed>>
        /\ Frontier' = Frontier /\ offset' = Frontier /\ offsetLock' = Free
    BY <1>5, EndShape
  <2> QED BY <1>0, <2>1 DEF PositionInv, Position, Boundary
<1>6. ASSUME NEW t \in Readers, RecoverLine(t) PROVE PositionInv'
  <2>1. /\ Attached /\ UNCHANGED <<file, committed, offset>>
        /\ Passed \/ \E i \in 1..Len(file) : Enqueued(i)
    BY <1>6, LineShape
  <2>2. CASE Passed
    BY <1>0, <2>1, <2>2 DEF Passed, PositionInv, Position, Boundary
  <2>3. ASSUME NEW i \in 1..Len(file), Enqueued(i) PROVE PositionInv'
    <3>1. Frontier' = Ends(file[i]) /\ fpos' = last'
      BY <2>3 DEF Enqueued
    <3>2. Boundary(Frontier')
      BY <1>0, <3>1, LineBoundary
    <3> QED BY <1>0, <2>1, <3>1, <3>2 DEF PositionInv, Position, Boundary
  <2> QED BY <2>1, <2>2, <2>3
<1>7. CASE CommitCount
  <2>1. /\ Attached /\ UNCHANGED <<file, offset, offsetLock, last, fpos, throttle>>
        /\ committed' = MsgEnd(lo[1]) /\ Frontier' = Frontier
    BY <1>7, CountShape
  <2>2. PICK i \in 1..Len(file) : IsLine(lo[1], i)
    BY <1>7, CountShape
  <2>3. committed' = Ends(file[i])
    BY <2>1, <2>2 DEF IsLine, MsgEnd, Ends
  <2>4. Boundary(committed')
    BY <1>0, <2>3, LineBoundary
  <2> QED BY <1>0, <2>1, <2>4 DEF PositionInv, Position, Boundary
<1>8. CASE Remove
  <2>1. /\ Attached' <=> Attached
        /\ UNCHANGED <<file, committed, offset, offsetLock, last, fpos, throttle>>
        /\ Frontier' = Frontier
    BY <1>8, RemoveShape
  <2> QED BY <1>0, <2>1 DEF PositionInv, Position, Boundary
<1>9. CASE CleanGone \/ CleanUnlink \/ CleanCtl \/ Crash
  BY <1>0, <1>9, DetachSteps DEF PositionInv
<1> QED BY <1>1, <1>2, <1>3, <1>4, <1>5, <1>6, <1>7, <1>8, <1>9, Classes

LEMMA DeliveryStep ==
  ASSUME Exposures = {}, IInv, [Next]_vars
  PROVE  DeliveryInv'
<1>0. DataOK /\ FileInv /\ QueueInv /\ ChainInv /\ PositionInv /\ DeliveryInv /\ CtlInv
  BY DEF IInv, TypeOK
<1>1. CASE Quiet \/ CommitOpen \/ CommitWrite
  <2>1. Calm
    BY <1>1, CalmSteps
  <2>2. Frontier' = Frontier
    BY <2>1 DEF Calm, Frontier
  <2> QED BY <1>0, <2>1, <2>2 DEF Calm, DeliveryInv, Ends
<1>2. CASE Attach
  <2>1. Frontier' = CtlValue /\ committed' = CtlValue /\ UNCHANGED <<file, delivered>>
    BY <1>2, AttachShape DEF Attach
  <2>2. ASSUME NEW i \in 1..Len(file), Ends(file[i]) <= CtlValue PROVE file[i].id \in delivered
    <3>1. file[i].len > 0
      BY <1>0 DEF FileInv
    <3>2. ~(Ends(file[i]) <= 0)
      BY <1>0, <3>1, LineTypes
    <3>3. CtlValue = ctl
      BY <2>2, <3>2 DEF CtlValue
    <3> QED BY <1>0, <1>2, <2>2, <3>3 DEF Attach, CtlInv
  <2> QED BY <2>1, <2>2 DEF DeliveryInv, Ends
<1>3. ASSUME NEW len \in Lens, NEW pri \in Kinds, Log(len, pri) PROVE DeliveryInv'
  <2>1. /\ UNCHANGED <<lo, committed, offset, offsetLock, last, delivered>>
        /\ Attached' <=> Attached
    BY <1>3 DEF Log, queue, store, locks, readers, Attached
  <2>2. Frontier' = Frontier
    BY <2>1 DEF Frontier
  <2>3. SUFFICES ASSUME Attached PROVE DeliveryInv'
    BY <2>1 DEF DeliveryInv
  <2>4. /\ Position(committed) /\ committed \in Nat
        /\ Position(Frontier) /\ Frontier \in Nat
    BY <1>0, <2>3, FrontierNat DEF PositionInv, DataOK
  <2>5. /\ ~(Ends(file'[Len(file) + 1]) <= committed)
        /\ ~(Ends(file'[Len(file) + 1]) <= Frontier)
    BY <1>0, <1>3, <2>4, NewLineEnd
  <2>6. ASSUME NEW i \in 1..Len(file')
        PROVE  /\ Ends(file'[i]) <= committed => file'[i].id \in delivered
               /\ Ends(file'[i]) <= Frontier =>
                    file'[i].id \in delivered \/ \E k \in 1..Len(lo) : lo[k].id = file'[i].id
    <3>1. i = Len(file) + 1 \/ (i \in 1..Len(file) /\ file'[i] = file[i])
      BY <1>0, <1>3, LogShape, LenProperties DEF DataOK
    <3> QED BY <1>0, <2>3, <2>5, <3>1 DEF DeliveryInv
  <2> QED BY <2>1, <2>2, <2>6 DEF DeliveryInv, Ends
<1>4. ASSUME NEW t \in Readers, RecoverSeek(t) \/ RecoverEnd(t) PROVE DeliveryInv'
  <2>1. /\ Attached /\ UNCHANGED <<file, lo, delivered, committed>>
        /\ Frontier' = Frontier
    BY <1>4, SeekShape, EndShape
  <2> QED BY <1>0, <2>1 DEF DeliveryInv, Ends
<1>5. ASSUME NEW t \in Readers, RecoverLine(t) PROVE DeliveryInv'
  <2>1. /\ Attached /\ UNCHANGED <<file, committed, delivered>>
        /\ Passed \/ \E i \in 1..Len(file) : Enqueued(i)
    BY <1>5, LineShape
  <2>2. CASE Passed
    BY <1>0, <2>1, <2>2 DEF Passed, DeliveryInv, Ends
  <2>3. ASSUME NEW i \in 1..Len(file), Enqueued(i) PROVE DeliveryInv'
    <3>1. PICK m \in Msgs : lo' = Append(lo, m) /\ IsLine(m, i)
      BY <2>3 DEF Enqueued
    <3>2. /\ Len(lo') = Len(lo) + 1 /\ Len(lo) \in Nat
          /\ (\A k \in 1..Len(lo) : lo'[k] = lo[k]) /\ lo'[Len(lo) + 1] = m
      BY <1>0, <3>1, AppendProperties, LenProperties DEF DataOK
    <3>3. Frontier' = Ends(file[i]) /\ file[i].start = Frontier
      BY <2>3 DEF Enqueued
    <3>4. ASSUME NEW j \in 1..Len(file), Ends(file[j]) <= Frontier'
          PROVE  file[j].id \in delivered \/ \E k \in 1..Len(lo') : lo'[k].id = file[j].id
      <4>1. j = i \/ Ends(file[j]) <= Frontier
        BY <1>0, <3>3, <3>4, LineOrder
      <4>2. CASE j = i
        <5>1. lo'[Len(lo) + 1].id = file[j].id /\ Len(lo) + 1 \in 1..Len(lo')
          BY <3>1, <3>2, <4>2 DEF IsLine
        <5> QED BY <5>1
      <4>3. CASE Ends(file[j]) <= Frontier
        <5>1. CASE file[j].id \in delivered
          BY <5>1
        <5>2. CASE \E k \in 1..Len(lo) : lo[k].id = file[j].id
          <6>1. PICK k \in 1..Len(lo) : lo[k].id = file[j].id
            BY <5>2
          <6>2. k \in 1..Len(lo') /\ lo'[k].id = file[j].id
            BY <3>2, <6>1
          <6> QED BY <6>2
        <5> QED BY <1>0, <2>1, <4>3, <5>1, <5>2 DEF DeliveryInv
      <4> QED BY <4>1, <4>2, <4>3
    <3> QED BY <1>0, <2>1, <3>4 DEF DeliveryInv, Ends
  <2> QED BY <2>1, <2>2, <2>3
<1>6. CASE CommitCount
  <2>1. /\ Attached /\ UNCHANGED <<file, lo, delivered>>
        /\ committed' = MsgEnd(lo[1]) /\ Frontier' = Frontier
        /\ lo[1].id \in delivered
    BY <1>6, CountShape
  <2>2. PICK i \in 1..Len(file) : IsLine(lo[1], i)
    BY <1>6, CountShape
  <2>3. committed' = Ends(file[i]) /\ file[i].id \in delivered
    BY <2>1, <2>2 DEF IsLine, MsgEnd, Ends
  <2>4. file[i].start = committed
    <3>1. FirstUncounted = 1 /\ 1 <= Len(lo)
      BY <1>6, CountShape DEF FirstUncounted
    <3>2. lo[1].offset = committed
      BY <1>0, <2>1, <3>1 DEF ChainInv
    <3> QED BY <2>2, <3>2 DEF IsLine
  <2>5. ASSUME NEW j \in 1..Len(file), Ends(file[j]) <= committed' PROVE file[j].id \in delivered
    <3>1. j = i \/ Ends(file[j]) <= committed
      BY <1>0, <2>3, <2>4, <2>5, LineOrder
    <3> QED BY <1>0, <2>1, <2>3, <3>1 DEF DeliveryInv
  <2> QED BY <1>0, <2>1, <2>5 DEF DeliveryInv, Ends
<1>7. CASE Remove
  <2>1. /\ Attached' <=> Attached
        /\ UNCHANGED <<file, delivered, committed>> /\ Frontier' = Frontier
        /\ Len(lo) \in Nat /\ Len(lo') = Len(lo) - 1
        /\ \A k \in 1..Len(lo') : lo'[k] = lo[k+1]
        /\ lo[1].id \in delivered
    BY <1>7, RemoveShape
  <2>2. ASSUME NEW j \in 1..Len(file), NEW k \in 1..Len(lo), lo[k].id = file[j].id
        PROVE  file[j].id \in delivered \/ \E n \in 1..Len(lo') : lo'[n].id = file[j].id
    <3>1. CASE k = 1
      BY <2>1, <2>2, <3>1
    <3>2. CASE k # 1
      <4>1. k - 1 \in 1..Len(lo') /\ k - 1 + 1 = k
        BY <2>1, <3>2
      <4>2. lo'[k-1].id = file[j].id
        BY <2>1, <2>2, <4>1
      <4> QED BY <4>1, <4>2
    <3> QED BY <3>1, <3>2
  <2> QED BY <1>0, <2>1, <2>2 DEF DeliveryInv, Ends
<1>8. CASE CleanGone \/ CleanUnlink \/ CleanCtl \/ Crash
  BY <1>0, <1>8, DetachSteps DEF DeliveryInv
<1> QED BY <1>1, <1>2, <1>3, <1>4, <1>5, <1>6, <1>7, <1>8, Classes

LEMMA CtlStep ==
  ASSUME Exposures = {}, IInv, [Next]_vars
  PROVE  CtlInv'
<1>0. DataOK /\ FileInv /\ LockInv /\ UseInv /\ QueueInv /\ PositionInv /\ DeliveryInv /\ CtlInv
  BY DEF IInv, TypeOK
<1>1. CASE Quiet
  <2>1. Attached' <=> Attached
    BY <1>1 DEF Quiet, Attached
  <2>2. CASE ctl' = ctl
    <3>1. UNCHANGED <<file, committed>> /\ delivered \subseteq delivered' /\ (present' <=> present)
      BY <1>1 DEF Quiet
    <3>2. Attached' => ctl' <= committed' /\ (ctl' > 0 => Boundary(ctl)')
      BY <1>0, <2>1, <2>2, <3>1 DEF CtlInv, Boundary, Ends
    <3>3. ~present' => /\ ctl' > 0 => Boundary(ctl)'
                       /\ \A i \in 1..Len(file') : Ends(file'[i]) <= ctl' => file'[i].id \in delivered'
      BY <1>0, <2>2, <3>1 DEF CtlInv, Boundary, Ends
    <3>4. ~present' /\ scanned' => ctl' <= 0
      <4>1. ~present' /\ scanned' => scanned \/ ctl' = -1
        BY <1>1 DEF Quiet
      <4>2. ~present /\ scanned => ctl <= 0
        BY <1>0 DEF CtlInv
      <4>3. ctl' = -1 => ctl' <= 0
        OBVIOUS
      <4> QED BY <2>2, <3>1, <4>1, <4>2, <4>3
    <3> QED BY <3>2, <3>3, <3>4 DEF CtlInv, Ends
  <2>3. CASE ctl' = -1
    <3>1. file' = file /\ committed' = committed /\ committed \in Nat
      BY <1>0, <1>1 DEF Quiet, DataOK
    <3>2. \A i \in 1..Len(file) : ~(Ends(file[i]) <= -1)
      BY <1>0, LineTypes
    <3> QED BY <2>3, <3>1, <3>2 DEF CtlInv, Ends
  <2> QED BY <1>1, <2>2, <2>3 DEF Quiet
<1>2. CASE Attach
  <2>1. committed' = CtlValue /\ UNCHANGED <<file, ctl>> /\ ~present /\ present'
    BY <1>2 DEF Attach
  <2>2. ctl <= CtlValue
    BY <1>0 DEF CtlValue, DataOK
  <2>3. ctl > 0 => Boundary(ctl)
    BY <1>0, <2>1 DEF CtlInv
  <2> QED BY <2>1, <2>2, <2>3 DEF CtlInv, Boundary
<1>3. ASSUME NEW len \in Lens, NEW pri \in Kinds, Log(len, pri) PROVE CtlInv'
  <2>1. /\ UNCHANGED <<ctl, committed, delivered, present, scanned>>
        /\ Attached' <=> Attached
    BY <1>3 DEF Log, store, process, readers, Attached
  <2>2. ctl > 0 /\ Boundary(ctl) => Boundary(ctl)'
    BY <1>0, <1>3, <2>1, LogKeepsBoundary DEF Boundary
  <2>3. ASSUME ~present, NEW i \in 1..Len(file'), Ends(file'[i]) <= ctl
        PROVE  file'[i].id \in delivered
    <3>1. i = Len(file) + 1 \/ (i \in 1..Len(file) /\ file'[i] = file[i])
      BY <1>0, <1>3, LogShape, LenProperties DEF DataOK
    <3>2. CtlValue \in Nat /\ Position(CtlValue) /\ ctl <= CtlValue /\ ctl \in Int
      BY <1>0, <2>3 DEF CtlInv, CtlValue, Position, DataOK
    <3>3. ~(Ends(file'[Len(file) + 1]) <= CtlValue)
      BY <1>0, <1>3, <3>2, NewLineEnd
    <3>4. CASE i = Len(file) + 1
      <4>1. Ends(file'[i]) = Size(file) + len /\ Size(file) \in Nat /\ len \in Nat
        <5>1. file'[i] = NewLine(len, "ok", "async")
          BY <1>0, <1>3, <3>4, LogShape
        <5>2. Ends(NewLine(len, "ok", "async")) = Size(file) + len
          BY DEF Ends, NewLine
        <5>3. Size(file) \in Nat /\ len \in Nat
          BY <1>0, SizeNat, StoreAssumption
        <5> QED BY <5>1, <5>2, <5>3
      <4>2. Size(file) + len <= ctl /\ ~(Size(file) + len <= CtlValue)
        BY <2>3, <3>3, <3>4, <4>1
      <4>3. \A x, y, z \in Int : x <= y /\ y <= z => x <= z
        OBVIOUS
      <4>4. Size(file) + len \in Int /\ CtlValue \in Int
        BY <3>2, <4>1
      <4> QED BY <3>2, <4>2, <4>3, <4>4
    <3>5. CASE i \in 1..Len(file) /\ file'[i] = file[i]
      BY <1>0, <2>3, <3>5 DEF CtlInv
    <3> QED BY <3>1, <3>4, <3>5
  <2> QED BY <1>0, <2>1, <2>2, <2>3 DEF CtlInv, Ends
<1>4. ASSUME NEW t \in Readers, RecoverSeek(t) \/ RecoverEnd(t) \/ RecoverLine(t) PROVE CtlInv'
  <2>1. Attached /\ Attached' /\ UNCHANGED <<file, ctl, committed>>
    BY <1>4, SeekShape, EndShape, LineShape
  <2> QED BY <1>0, <2>1 DEF CtlInv, Boundary, Attached
<1>5. CASE CommitCount
  <2>1. Attached /\ Attached' /\ UNCHANGED <<file, ctl>> /\ committed < committed'
    BY <1>5, CountShape
  <2>2. committed' \in Nat
    BY <1>0, <1>5 DEF CommitCount, DataOK, Msgs
  <2>3. ctl <= committed'
    BY <1>0, <2>1, <2>2 DEF CtlInv, DataOK
  <2> QED BY <1>0, <2>1, <2>3 DEF CtlInv, Boundary, Attached
<1>6. CASE CommitOpen \/ CommitWrite
  <2>1. Attached
    BY <1>0, <1>6 DEF CommitOpen, CommitWrite, QueueInv
  <2>2. Attached' /\ UNCHANGED <<file, committed>> /\ (ctl' = 0 \/ ctl' = committed)
    BY <1>6, <2>1 DEF CommitOpen, CommitWrite, Attached, store, readers
  <2>3. committed \in Nat /\ Position(committed)
    BY <1>0, <2>1 DEF DataOK, PositionInv
  <2> QED BY <2>2, <2>3 DEF CtlInv, Position, Boundary, Attached
<1>7. CASE Remove
  <2>1. (Attached' <=> Attached) /\ UNCHANGED <<file, ctl, committed, delivered>>
    BY <1>7, RemoveShape
  <2>2. UNCHANGED <<present, scanned>>
    BY <1>7 DEF Remove, store, process
  <2> QED BY <1>0, <2>1, <2>2 DEF CtlInv, Boundary, Ends
<1>8. CASE CleanGone
  <2>1. Attached /\ file = <<>>
    BY <1>0, <1>8, InUse DEF CleanGone, Readers
  <2>2. ctl <= 0
    BY <1>0, <2>1 DEF CtlInv, Boundary, DataOK
  <2>3. ~present' /\ UNCHANGED <<file, ctl>>
    BY <1>8 DEF CleanGone, ForgetStore, disk
  <2>4. ~(ctl > 0)
    BY <1>0, <2>2 DEF DataOK
  <2> QED BY <2>1, <2>2, <2>3, <2>4 DEF CtlInv, Attached
<1>9. CASE CleanUnlink
  <2>1. ~Attached'
    BY <1>0, <1>9, DetachSteps
  <2>2. present'
    BY <1>0, <1>9 DEF CleanUnlink, UseInv, Readers, store
  <2> QED BY <2>1, <2>2 DEF CtlInv
<1>10. CASE CleanCtl
  <2>1. ~Attached' /\ ctl' = -1 /\ file' = file
    BY <1>0, <1>10, DetachSteps DEF CleanCtl
  <2>2. \A i \in 1..Len(file) : ~(Ends(file[i]) <= -1)
    BY <1>0, LineTypes
  <2> QED BY <2>1, <2>2 DEF CtlInv, Ends
<1>11. CASE Crash
  <2>1. ~Attached' /\ ~scanned' /\ UNCHANGED <<file, ctl, delivered>>
    BY <1>0, <1>11, DetachSteps DEF Crash, disk, history
  <2>2. /\ ctl > 0 => Boundary(ctl)
        /\ \A i \in 1..Len(file) : Ends(file[i]) <= ctl => file[i].id \in delivered
    <3>1. CASE ~present
      BY <1>0, <3>1 DEF CtlInv
    <3>2. CASE present
      <4>1. Attached
        BY <1>11, <3>2 DEF Crash, Attached
      <4>2. ctl <= committed /\ (ctl > 0 => Boundary(ctl)) /\ ctl \in Int /\ committed \in Nat
        BY <1>0, <4>1 DEF CtlInv, DataOK
      <4>3. ASSUME NEW i \in 1..Len(file), Ends(file[i]) <= ctl PROVE file[i].id \in delivered
        <5>1. Ends(file[i]) <= committed
          BY <1>0, <4>2, <4>3, LineTypes
        <5> QED BY <1>0, <4>1, <5>1 DEF DeliveryInv
      <4> QED BY <4>2, <4>3
    <3> QED BY <3>1, <3>2
  <2> QED BY <2>1, <2>2 DEF CtlInv, Boundary, Ends
<1> QED
  BY <1>1, <1>2, <1>3, <1>4, <1>5, <1>6, <1>7, <1>8, <1>9, <1>10, <1>11, Classes

-----------------------------------------------------------------------------
(* The theorems.                                                            *)

LEMMA InvariantInit == Init => IInv
<1> SUFFICES ASSUME Init PROVE IInv
  OBVIOUS
<1> USE DEF Init, Free, Readers
<1>1. FlagsOK BY DEF FlagsOK
<1>2. DataOK BY EmptySeq, NoMsgType DEF DataOK
<1>3. ShapeInv /\ FileInv BY DEF ShapeInv, FileInv
<1>4. LockInv /\ UseInv BY DEF LockInv, UseInv
<1>5. QueueInv BY DEF QueueInv, FirstUncounted, Counted
<1>6. ~Attached BY DEF Attached
<1>7. ChainInv /\ PositionInv /\ DeliveryInv BY <1>6 DEF ChainInv, PositionInv, DeliveryInv
<1>8. CtlInv BY DEF CtlInv, Attached
<1> QED BY <1>1, <1>2, <1>3, <1>4, <1>5, <1>7, <1>8 DEF IInv, TypeOK

LEMMA InvariantStep == Exposures = {} /\ IInv /\ [Next]_vars => IInv'
<1> SUFFICES ASSUME Exposures = {}, IInv, [Next]_vars PROVE IInv'
  OBVIOUS
<1>1. FlagsOK /\ DataOK /\ ShapeInv /\ FileInv /\ LockInv /\ UseInv
  BY DEF IInv, TypeOK
<1>2. FlagsOK' /\ DataOK' /\ ShapeInv'
  BY <1>1, FlagsStep, DataStep, ShapeStep
<1>3. FileInv' /\ LockInv' /\ UseInv'
  BY <1>1, FileStep, LockStep, UseStep
<1>4. QueueInv' /\ ChainInv' /\ PositionInv' /\ DeliveryInv' /\ CtlInv'
  BY QueueStep, ChainStep, PositionStep, DeliveryStep, CtlStep
<1> QED BY <1>2, <1>3, <1>4 DEF IInv, TypeOK

\* The position a restart would read from is not ahead of the counter.
LEMMA CtlStartBound ==
  ASSUME DataOK, CtlInv, Attached
  PROVE  CtlStart \in Nat /\ CtlStart <= committed
  BY DEF CtlStart, CtlInv, DataOK

LEMMA SafeState ==
  ASSUME IInv
  PROVE  CrashSafe /\ SkipsOnlyHandled /\ NoDanglingStore /\ CommittedInFile
<1>0. DataOK /\ FileInv /\ QueueInv /\ PositionInv /\ DeliveryInv /\ CtlInv
  BY DEF IInv, TypeOK
<1>1. CrashSafe
  <2> SUFFICES ASSUME pc["recover"] # "unlink",
                      NEW i \in 1..Len(file), Ends(file[i]) <= CtlStart
               PROVE  file[i].id \in delivered
    BY DEF CrashSafe
  <2>1. CASE present
    <3>1. Attached
      BY <2>1 DEF Attached
    <3>2. Ends(file[i]) <= committed
      BY <1>0, <3>1, CtlStartBound, LineTypes DEF DataOK
    <3> QED BY <1>0, <3>1, <3>2 DEF DeliveryInv
  <2>2. CASE ~present
    <3>1. file[i].len > 0
      BY <1>0 DEF FileInv
    <3>2. ~(Ends(file[i]) <= 0)
      BY <1>0, <3>1, LineTypes
    <3>3. CtlStart = ctl
      BY <3>2 DEF CtlStart
    <3> QED BY <1>0, <2>2, <3>3 DEF CtlInv
  <2> QED BY <2>1, <2>2
<1>2. SkipsOnlyHandled
  <2> SUFFICES ASSUME Attached, NEW i \in 1..Len(file),
                      Ends(file[i]) <= (IF offsetLock = Free THEN StartPos ELSE last)
               PROVE  file[i].id \in delivered \cup Queued
    BY DEF SkipsOnlyHandled, Attached
  <2>1. offset \in Nat /\ committed \in Nat
    BY <1>0 DEF DataOK
  <2>2. (offset > 0 => OffsetGood) /\ (committed > 0 => Boundary(committed))
    BY <1>0, <2>1 DEF PositionInv, Position, OffsetGood
  <2>3. StartPos = IF offset > 0 THEN offset ELSE committed
    BY <2>1, <2>2 DEF StartPos, OffsetGood
  <2>4. Ends(file[i]) <= Frontier
    BY <2>3 DEF Frontier
  <2>5. file[i].id \in delivered \/ \E k \in 1..Len(lo) : lo[k].id = file[i].id
    BY <1>0, <2>4 DEF DeliveryInv
  <2>6. ASSUME NEW k \in 1..Len(lo) PROVE lo[k].id \in Queued
    BY DEF Queued
  <2> QED BY <2>5, <2>6
<1>3. NoDanglingStore
  <2> SUFFICES ASSUME QueueLen > 0, Uncommitted PROVE present
    BY DEF NoDanglingStore
  <2>1. hi = <<>> /\ Len(lo) \in Nat
    BY <1>0 DEF QueueInv, DataOK
  <2>2. QueueLen = Len(lo)
    BY <2>1 DEF QueueLen
  <2>3. CASE FirstUncounted <= Len(lo)
    BY <1>0, <2>3 DEF QueueInv, Attached
  <2>4. CASE ~(FirstUncounted <= Len(lo))
    <3>1. Counted /\ ~(QueueLen > 1)
      BY <2>1, <2>2, <2>4 DEF FirstUncounted
    <3>2. spc \in {"count", "ctl"}
      BY <3>1 DEF Counted, Uncommitted
    <3> QED BY <1>0, <3>2 DEF QueueInv, Attached
  <2> QED BY <2>3, <2>4
<1>4. CommittedInFile
  <2> SUFFICES ASSUME Attached PROVE committed <= Size(file)
    BY DEF CommittedInFile, Attached
  <2> QED BY <1>0, PositionBound DEF PositionInv, DataOK
<1> QED BY <1>1, <1>2, <1>3, <1>4

\* The inductive invariant holds in every reachable state, for every number and
\* length of events, queue limit and number of crashes.
LEMMA InvariantAlways ==
  ASSUME Exposures = {}
  PROVE  Spec => []IInv
<1>1. Init => IInv
  BY InvariantInit
<1>2. IInv /\ [Next]_vars => IInv'
  BY InvariantStep
<1> QED BY <1>1, <1>2, PTL DEF Spec

\* Without the hazards a crash loses no event: what the control file tells the
\* restarted recovery thread to skip has been taken by the server.
THEOREM CrashSafety ==
  ASSUME Exposures = {}
  PROVE  Spec => []CrashSafe
<1>1. IInv => CrashSafe
  BY SafeState
<1> QED BY <1>1, InvariantAlways, PTL

\* Without the hazards event_store_recover passes over no event that is neither
\* taken by the server nor in the queue, wherever its offset starts.
THEOREM ReadSafety ==
  ASSUME Exposures = {}
  PROVE  Spec => []SkipsOnlyHandled
<1>1. IInv => SkipsOnlyHandled
  BY SafeState
<1> QED BY <1>1, InvariantAlways, PTL

\* Without the hazards no queued message refers to an event_store that
\* event_store_cleanup has freed.
THEOREM StoreInUseKept ==
  ASSUME Exposures = {}
  PROVE  Spec => []NoDanglingStore
<1>1. IInv => NoDanglingStore
  BY SafeState
<1> QED BY <1>1, InvariantAlways, PTL

\* Without the hazards last_committed_bs stays within the event file.
THEOREM CommitBounded ==
  ASSUME Exposures = {}
  PROVE  Spec => []CommittedInFile
<1>1. IInv => CommittedInFile
  BY SafeState
<1> QED BY <1>1, InvariantAlways, PTL

\* Without the hazards event_store_clean removes an event file only when the
\* server has taken every event in it.
THEOREM RemovalSafety ==
  ASSUME Exposures = {}
  PROVE  Spec => RemovedWhenDelivered
<1>1. Init => IInv
  BY InvariantInit
<1>2. IInv /\ [Next]_vars => IInv'
  BY InvariantStep
<1>3. IInv /\ [Next]_vars =>
        [file # <<>> /\ file' = <<>> =>
           \A i \in 1..Len(file) : file[i].id \in delivered \cup quarantined']_vars
  <2> SUFFICES ASSUME IInv, [Next]_vars, file # <<>>, file' = <<>>,
                      NEW i \in 1..Len(file)
               PROVE  file[i].id \in delivered
    OBVIOUS
  <2>0. DataOK /\ FileInv /\ LockInv /\ UseInv /\ DeliveryInv
    BY DEF IInv, TypeOK
  <2>1. CleanUnlink
    <3>1. ASSUME NEW len \in Lens, NEW pri \in Kinds, Log(len, pri) PROVE FALSE
      <4>1. Len(file') = Len(file) + 1 /\ Len(file') = 0 /\ Len(file) \in Nat
        BY <2>0, <3>1, LogShape, LenProperties DEF DataOK
      <4> QED BY <4>1
    <3>2. ASSUME file' = file PROVE FALSE
      BY <3>2
    <3>3. ~Quiet /\ ~Attach
      BY <3>2 DEF Quiet, Attach
    <3>4. ASSUME NEW t \in Readers, RecoverSeek(t) \/ RecoverLine(t) \/ RecoverEnd(t) PROVE FALSE
      BY <3>2, <3>4 DEF RecoverSeek, RecoverLine, RecoverEnd, disk
    <3>5. ~CommitCount /\ ~CommitOpen /\ ~CommitWrite /\ ~Remove /\ ~CleanGone /\ ~CleanCtl /\ ~Crash
      BY <3>2 DEF CommitCount, CommitOpen, CommitWrite, Remove, CleanGone, CleanCtl, Crash, disk
    <3> QED BY <3>1, <3>3, <3>4, <3>5, Classes
  <2>2. Attached /\ committed = Size(file)
    BY <2>0, <2>1, InUse DEF CleanUnlink, Readers
  <2>3. Ends(file[i]) <= committed
    BY <2>0, <2>2, SizeBound
  <2> QED BY <2>0, <2>2, <2>3 DEF DeliveryInv
<1> QED BY <1>1, <1>2, <1>3, PTL DEF Spec, RemovedWhenDelivered
=============================================================================
