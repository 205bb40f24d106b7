--------------------------- MODULE LoggingProofs ---------------------------
(***************************************************************************)
(* Proofs about Logging: where an acknowledged event is in its event file   *)
(* and which event a sequence code stands for, for any number of writers,   *)
(* clients and connections, any calls and any faults; and what becomes of   *)
(* the files, the stores and the credentials of the inter-logger, for any   *)
(* files it finds and anything that comes to it.                            *)
(***************************************************************************)
EXTENDS Logging, DataFacts

-----------------------------------------------------------------------------
(* The event files: the inductive invariant.                                *)

\* Files and locks are sequences of inodes; a name stands for one of them.
FileShape ==
  /\ IsSeq(files) /\ IsSeq(lock) /\ Len(lock) = Len(files)
  /\ \A f \in 1..Len(files) : IsSeq(files[f])
  /\ name \in 0..Len(files) /\ (attached => name # 0)
  /\ DOMAIN wpc = Writers /\ DOMAIN ev = Writers /\ DOMAIN ino = Writers /\ DOMAIN filepos = Writers
  /\ \A w \in Writers : wpc[w] \in {"idle", "open", "lock", "stat", "seek", "write"}

\* A writer between its lock and its close holds the lock of its inode, and
\* its position is the end of the file.
WriterInv ==
  \A w \in Writers :
    /\ wpc[w] \in {"lock", "stat", "seek", "write"} => ino[w] \in 1..Len(files)
    /\ wpc[w] \in {"stat", "seek", "write"} => lock[ino[w]] = w
    /\ wpc[w] = "write" => filepos[w] = Len(files[ino[w]])

CleanerInv ==
  /\ cpc \in {"lock", "locked"} => cino \in 1..Len(files)
  /\ cpc = "locked" => lock[cino] = Cleaner

AckedInv == \A a \in acked : a.file \in 1..Len(files) /\ a.pos \in Nat

FileInv == FileShape /\ WriterInv /\ CleanerInv /\ AckedInv /\ PositionTrue

-----------------------------------------------------------------------------
(* Who changes an event file.                                               *)

\* The call of edg_wll_log_event_write, with any message.
Begins(w) == \E msg : Begin(w, msg)

FileStep(w) ==
  \/ Begins(w) \/ Open(w) \/ Lock(w) \/ LockBusy(w) \/ Stat(w) \/ Seek(w)
  \/ Write(w) \/ WriteFails(w) \/ Dies(w)

\* What the invariant is about, but for the inter-logger's store.
Watched == <<files, name, lock, wpc, ev, ino, filepos, cpc, cino, acked>>

\* A child of the local logger.
LEMMA ChildActions ==
  ASSUME NEW c \in Conns, ChildStep(c) \/ ChildFault(c)
  PROVE  UNCHANGED <<Watched, attached>> \/ \E w \in Writers : FileStep(w)
<1> USE DEF fileVars, fileSystem, writer, interlogger, Watched
<1>1. c \in Writers
  BY LoggerAssumption
<1>2. CASE Receive(c)
  BY <1>1, <1>2 DEF Receive, FileStep, Begins
<1>3. CASE Killed(c)
  BY <1>1, <1>3 DEF Killed, FileStep
<1>4. CASE Accept(c) \/ Eof(c) \/ Written(c) \/ Send(c) \/ SendFails(c) \/ Confirmed(c)
            \/ ConfirmTimeout(c) \/ Reply(c) \/ IdleClose(c)
  BY <1>4 DEF Accept, Eof, Written, Send, SendFails, Confirmed, ConfirmTimeout, Reply, IdleClose
<1> QED BY <1>2, <1>3, <1>4 DEF ChildStep, ChildFault

\* The inter-logger.
LEMMA IlActions ==
  ASSUME IlStep \/ IlFault
  PROVE  \/ UNCHANGED <<Watched, attached>> \/ (UNCHANGED Watched /\ Attach) \/ CleanOpen
         \/ Cleaning \/ Crash
<1> USE DEF fileVars, fileSystem, writer, interlogger, Watched
<1>1. CASE HandleMsg
  BY <1>1 DEF HandleMsg, Attach
<1>2. CASE HandleCmd \/ Confirm \/ Restart
  BY <1>2 DEF HandleCmd, Confirm, Restart
<1>3. CASE Recover
  BY <1>3 DEF Recover, Attach
<1>4. CASE Deliver \/ DeliverRefused
  BY <1>4 DEF Deliver, DeliverRefused, Commit
<1>5. CASE Clean
  BY <1>5 DEF Clean
<1> QED BY <1>1, <1>2, <1>3, <1>4, <1>5 DEF IlStep, IlFault

\* A client, which writes to the file itself when it is told to.
LEMMA ClientActions ==
  ASSUME NEW k \in Clients, ClientStep(k) \/ ClientFault(k)
  PROVE  UNCHANGED <<Watched, attached>> \/ \E w \in Writers : FileStep(w)
<1> USE DEF fileVars, fileSystem, writer, interlogger, Watched
<1>1. CASE WriteFile(k)
  BY <1>1, ProducerAssumption DEF WriteFile, FileStep, Begins
<1>2. CASE ClientStep(k) /\ ~WriteFile(k)
  BY <1>2 DEF ClientStep, Call, SetLoggingJob, Restore, Format, Flush, Connect, ConnectFails,
              WriteMsg, ReadAnswer, ReadEof, ConnectServers, Submit, ReadReplies, Notify, Return
<1>3. CASE ClientFault(k)
  BY <1>3 DEF ClientFault, FormatFails, ConnectServersFails, SubmitFails, ReadTimeout, NoReply
<1> QED BY <1>1, <1>2, <1>3

LEMMA FileActions ==
  ASSUME [Next]_<<vars, listVars>>
  PROVE  \/ UNCHANGED <<Watched, attached>> \/ (UNCHANGED Watched /\ Attach)
         \/ CleanOpen \/ Cleaning \/ Crash \/ \E w \in Writers : FileStep(w)
<1> USE DEF fileVars, fileSystem, writer, interlogger, Watched
<1>1. CASE UNCHANGED vars
  BY <1>1 DEF vars
<1>2. ASSUME NEW k \in Clients, ClientStep(k) \/ ClientFault(k)
      PROVE  UNCHANGED <<Watched, attached>> \/ \E w \in Writers : FileStep(w)
  BY <1>2, ClientActions
<1>3. ASSUME NEW d \in Dests, Store(d) \/ Reject(d) PROVE UNCHANGED <<Watched, attached>>
  BY <1>3 DEF Store, Reject
<1>4. ASSUME NEW w \in Writers, WriterStep(w) PROVE FileStep(w)
  BY <1>4 DEF WriterStep, Writing, FileStep
<1>5. CASE Logger
  BY <1>4, <1>5, ChildActions, IlActions DEF Logger
<1>6. CASE ProducerNext
  BY <1>2, <1>3, <1>5, <1>6 DEF ProducerNext
<1> QED BY <1>1, <1>6 DEF Next, vars, listVars

-----------------------------------------------------------------------------
(* The invariant of the event files.                                        *)

LEMMA FileTypes ==
  ASSUME FileInv
  PROVE  /\ Len(files) \in Nat
         /\ DOMAIN files = 1..Len(files) /\ DOMAIN lock = 1..Len(files)
         /\ \A f \in 1..Len(files) : Len(files[f]) \in Nat
  BY IsSeqLen DEF FileInv, FileShape

\* Only the lock changes, and only where it is free or given back.
LEMMA LockStep ==
  ASSUME FileInv, UNCHANGED <<files, name, ev, ino, filepos, cpc, cino, acked>>,
         attached' => name # 0, DOMAIN wpc' = Writers,
         IsSeq(lock'), Len(lock') = Len(lock),
         \A w \in Writers : wpc'[w] = wpc[w] \/ wpc'[w] \in {"idle", "open"}
                            \/ (wpc[w] = "lock" /\ wpc'[w] = "stat" /\ lock'[ino[w]] = w)
                            \/ (wpc[w] = "stat" /\ wpc'[w] = "seek"),
         \A w \in Writers : wpc'[w] \in {"stat", "seek", "write"} /\ wpc[w] # "lock" =>
                            lock'[ino[w]] = lock[ino[w]],
         cpc = "locked" => lock'[cino] = Cleaner
  PROVE  FileInv'
<1>1. FileShape /\ WriterInv /\ CleanerInv /\ AckedInv /\ PositionTrue
  BY DEF FileInv
<1>2. FileShape'
  <2>1. \A w \in Writers : wpc'[w] \in {"idle", "open", "lock", "stat", "seek", "write"}
    BY <1>1 DEF FileShape
  <2> QED BY <1>1, <2>1 DEF FileShape
<1>3. WriterInv'
  BY <1>1 DEF WriterInv
<1>4. CleanerInv' /\ AckedInv' /\ PositionTrue'
  BY <1>1 DEF CleanerInv, AckedInv, PositionTrue
<1> QED BY <1>2, <1>3, <1>4 DEF FileInv

\* The lock after a close.
LEMMA ClosedLock ==
  ASSUME FileInv, NEW w \in Writers, ino[w] \in 1..Len(files)
  PROVE  /\ IsSeq(Closed(w)) /\ Len(Closed(w)) = Len(lock)
         /\ \A f \in 1..Len(files) : lock[f] # w => Closed(w)[f] = lock[f]
<1>1. IsSeq(lock) /\ ino[w] \in 1..Len(lock) /\ Len(lock) = Len(files)
  BY DEF FileInv, FileShape
<1> DEFINE v == IF lock[ino[w]] = w THEN Free ELSE lock[ino[w]]
<1>2. Closed(w) = Updated(lock, ino[w], v)
  BY DEF Closed, Updated
<1> HIDE DEF v
<1>3. /\ IsSeq(Closed(w)) /\ Len(Closed(w)) = Len(lock)
      /\ \A j \in 1..Len(lock) : Closed(w)[j] = IF j = ino[w] THEN v ELSE lock[j]
  BY <1>1, <1>2, IsSeqUpdated
<1> QED BY <1>1, <1>3 DEF v

LEMMA BeginsStep ==
  ASSUME FileInv, NEW w \in Writers, Begins(w)
  PROVE  FileInv'
<1> USE DEF fileSystem, interlogger
<1>1. PICK msg : Begin(w, msg)
  BY DEF Begins
<1>2. FileShape /\ WriterInv /\ CleanerInv /\ AckedInv /\ PositionTrue
  BY DEF FileInv
<1>3. FileShape'
  BY <1>1, <1>2 DEF FileShape, Begin, GoTo
<1>4. WriterInv'
  BY <1>1, <1>2 DEF FileShape, WriterInv, Begin, GoTo
<1>5. CleanerInv' /\ AckedInv' /\ PositionTrue'
  BY <1>1, <1>2 DEF CleanerInv, AckedInv, PositionTrue, Begin
<1> QED BY <1>3, <1>4, <1>5 DEF FileInv

\* A new file is an inode of its own.
LEMMA OpenStep ==
  ASSUME FileInv, NEW w \in Writers, Open(w)
  PROVE  FileInv'
<1> USE DEF fileSystem, interlogger
<1>1. FileShape /\ WriterInv /\ CleanerInv /\ AckedInv /\ PositionTrue
  BY DEF FileInv
<1>2. Len(files) \in Nat /\ \A f \in 1..Len(files) : Len(files[f]) \in Nat
  BY FileTypes
<1>3. /\ IsSeq(files') /\ IsSeq(lock') /\ Len(lock') = Len(files') /\ Len(files') \in Nat
      /\ Len(files) <= Len(files')
      /\ \A f \in 1..Len(files) : files'[f] = files[f] /\ lock'[f] = lock[f]
      /\ \A f \in 1..Len(files') : IsSeq(files'[f])
      /\ name' \in 1..Len(files')
  <2>1. CASE name # 0
    <3>1. files' = files /\ lock' = lock /\ name' = name
      BY <2>1 DEF Open
    <3> QED BY <1>1, <1>2, <2>1, <3>1 DEF FileShape
  <2>2. CASE name = 0
    <3>1. files' = Append(files, <<>>) /\ lock' = Append(lock, Free) /\ name' = Len(files')
      BY <2>2 DEF Open
    <3>2. /\ IsSeq(files') /\ Len(files') = Len(files) + 1
          /\ \A i \in 1..Len(files) : files'[i] = files[i]
          /\ files'[Len(files) + 1] = <<>>
      <4>1. IsSeq(files)
        BY <1>1 DEF FileShape
      <4> QED BY ONLY <3>1, <4>1, IsSeqAppend
    <3>3. /\ IsSeq(lock') /\ Len(lock') = Len(lock) + 1
          /\ \A i \in 1..Len(lock) : lock'[i] = lock[i]
      <4>1. IsSeq(lock)
        BY <1>1 DEF FileShape
      <4> QED BY ONLY <3>1, <4>1, IsSeqAppend
    <3>4. IsSeq(<<>>)
      BY EmptySeq DEF IsSeq
    <3>5. ASSUME NEW f \in 1..Len(files') PROVE IsSeq(files'[f])
      <4>1. f \in 1..Len(files) \/ f = Len(files) + 1
        BY <1>2, <3>2
      <4> QED BY <1>1, <3>2, <3>4, <4>1 DEF FileShape
    <3> QED BY <1>1, <1>2, <3>1, <3>2, <3>3, <3>5 DEF FileShape
  <2> QED BY <2>1, <2>2
<1>4. ino' = [ino EXCEPT ![w] = name'] /\ wpc' = [wpc EXCEPT ![w] = "lock"]
      /\ UNCHANGED <<ev, filepos, attached, cpc, cino, acked>>
  BY DEF Open, GoTo
<1>5. FileShape'
  BY <1>1, <1>3, <1>4 DEF FileShape
<1>6. WriterInv'
  <2> SUFFICES ASSUME NEW u \in Writers
               PROVE  /\ wpc'[u] \in {"lock", "stat", "seek", "write"} => ino'[u] \in 1..Len(files')
                      /\ wpc'[u] \in {"stat", "seek", "write"} => lock'[ino'[u]] = u
                      /\ wpc'[u] = "write" => filepos'[u] = Len(files'[ino'[u]])
    BY DEF WriterInv
  <2>1. CASE u = w
    BY <1>1, <1>3, <1>4, <2>1 DEF FileShape
  <2>2. CASE u # w
    <3>1. wpc'[u] = wpc[u] /\ ino'[u] = ino[u] /\ filepos'[u] = filepos[u]
      BY <1>1, <1>4, <2>2 DEF FileShape
    <3>2. 1..Len(files) \subseteq 1..Len(files')
      BY <1>2, <1>3
    <3> QED BY <1>1, <1>3, <3>1, <3>2 DEF WriterInv
  <2> QED BY <2>1, <2>2
<1>7. 1..Len(files) \subseteq 1..Len(files')
  BY <1>2, <1>3
<1>8. CleanerInv' /\ AckedInv'
  BY <1>1, <1>3, <1>4, <1>7 DEF CleanerInv, AckedInv
<1>9. PositionTrue'
  BY <1>1, <1>3, <1>4 DEF AckedInv, PositionTrue
<1> QED BY <1>5, <1>6, <1>8, <1>9 DEF FileInv

LEMMA LockSteps ==
  ASSUME FileInv, NEW w \in Writers, Lock(w) \/ LockBusy(w) \/ Stat(w) \/ Dies(w)
  PROVE  FileInv'
<1> USE DEF fileSystem, interlogger
<1>1. FileShape /\ WriterInv /\ CleanerInv /\ FileAssumption
  BY FileAssumption DEF FileInv
<1>2. IsSeq(lock) /\ Len(lock) = Len(files)
  BY <1>1 DEF FileShape
<1>3. attached => name # 0
  BY <1>1 DEF FileShape
<1>4. CASE Lock(w)
  <2>1. ino[w] \in 1..Len(lock) /\ lock[ino[w]] = Free
    BY <1>1, <1>2, <1>4 DEF WriterInv, Lock
  <2>2. lock' = [lock EXCEPT ![ino[w]] = w] /\ wpc' = [wpc EXCEPT ![w] = "stat"] /\ wpc[w] = "lock"
        /\ UNCHANGED <<files, name, ev, ino, filepos, attached, cpc, cino, acked>>
    BY <1>4 DEF Lock, GoTo
  <2>3. /\ IsSeq(lock') /\ Len(lock') = Len(lock)
        /\ \A j \in 1..Len(lock) : lock'[j] = IF j = ino[w] THEN w ELSE lock[j]
    <3>1. lock' = Updated(lock, ino[w], w)
      BY <2>2 DEF Updated
    <3> QED BY <1>2, <2>1, <3>1, IsSeqUpdated
  <2>4. \A u \in Writers : wpc'[u] = IF u = w THEN "stat" ELSE wpc[u]
    BY <1>1, <2>2 DEF FileShape
  <2>5. DOMAIN wpc' = Writers
    BY <1>1, <2>2 DEF FileShape
  <2>6. ASSUME NEW u \in Writers, wpc'[u] \in {"stat", "seek", "write"}, wpc[u] # "lock"
        PROVE  lock'[ino[u]] = lock[ino[u]]
    <3>1. wpc[u] \in {"stat", "seek", "write"}
      BY <2>2, <2>4, <2>6
    <3>2. lock[ino[u]] = u /\ ino[u] \in 1..Len(lock)
      BY <1>1, <1>2, <3>1 DEF WriterInv
    <3>3. ino[u] # ino[w]
      BY <1>1, <2>1, <3>2 DEF FileAssumption
    <3> QED BY <2>3, <3>2, <3>3
  <2>7. cpc = "locked" => lock'[cino] = Cleaner
    <3>1. Cleaner # Free
      BY DEF Cleaner, Free
    <3> QED BY <1>1, <1>2, <2>1, <2>3, <3>1 DEF CleanerInv
  <2>8. lock'[ino[w]] = w
    BY <2>1, <2>3
  <2> QED BY <1>3, <2>2, <2>3, <2>4, <2>5, <2>6, <2>7, <2>8, LockStep
<1>5. CASE LockBusy(w)
  <2>1. UNCHANGED <<files, name, lock, ev, ino, filepos, attached, cpc, cino, acked>>
    BY <1>5 DEF LockBusy
  <2>2. wpc' = wpc \/ wpc' = [wpc EXCEPT ![w] = "idle"]
    BY <1>5 DEF LockBusy, Returns, GoTo
  <2>3. DOMAIN wpc' = Writers /\ \A u \in Writers : wpc'[u] = wpc[u] \/ wpc'[u] = "idle"
    BY <1>1, <2>2 DEF FileShape
  <2>4. cpc = "locked" => lock'[cino] = Cleaner
    BY <1>1, <2>1 DEF CleanerInv
  <2> QED BY <1>2, <1>3, <2>1, <2>3, <2>4, LockStep
<1>6. ASSUME ino[w] \in 1..Len(files), lock' = Closed(w), NEW p \in {"open", "idle"},
             wpc' = [wpc EXCEPT ![w] = p],
             UNCHANGED <<files, name, ev, ino, filepos, attached, cpc, cino, acked>>
      PROVE  FileInv'
  <2>1. /\ IsSeq(lock') /\ Len(lock') = Len(lock)
        /\ \A f \in 1..Len(files) : lock[f] # w => lock'[f] = lock[f]
    BY <1>6, ClosedLock
  <2>2. \A u \in Writers : wpc'[u] = IF u = w THEN p ELSE wpc[u]
    BY <1>1, <1>6 DEF FileShape
  <2>3. DOMAIN wpc' = Writers
    BY <1>1, <1>6 DEF FileShape
  <2>4. ASSUME NEW u \in Writers, wpc'[u] \in {"stat", "seek", "write"}, wpc[u] # "lock"
        PROVE  lock'[ino[u]] = lock[ino[u]]
    <3>1. u # w /\ wpc[u] \in {"stat", "seek", "write"}
      BY <2>2, <2>4
    <3>2. lock[ino[u]] = u /\ ino[u] \in 1..Len(files)
      BY <1>1, <3>1 DEF WriterInv
    <3> QED BY <2>1, <3>1, <3>2
  <2>5. cpc = "locked" => lock'[cino] = Cleaner
    BY <1>1, <2>1 DEF CleanerInv, FileAssumption
  <2> QED BY <1>3, <1>6, <2>1, <2>2, <2>3, <2>4, <2>5, LockStep
<1>7. CASE Stat(w) /\ name = 0
  <2>1. ino[w] \in 1..Len(files)
    BY <1>1, <1>7 DEF WriterInv, Stat
  <2> QED BY <1>6, <1>7, <2>1 DEF Stat, GoTo
<1>8. CASE Stat(w) /\ name # 0
  <2>1. UNCHANGED <<files, name, lock, ev, ino, filepos, attached, cpc, cino, acked>>
    BY <1>8 DEF Stat
  <2>2. wpc[w] = "stat" /\ wpc' = [wpc EXCEPT ![w] = "seek"]
    BY <1>8 DEF Stat, GoTo
  <2>3. DOMAIN wpc' = Writers /\ \A u \in Writers : wpc'[u] = IF u = w THEN "seek" ELSE wpc[u]
    BY <1>1, <2>2 DEF FileShape
  <2>4. cpc = "locked" => lock'[cino] = Cleaner
    BY <1>1, <2>1 DEF CleanerInv
  <2> QED BY <1>2, <1>3, <2>1, <2>2, <2>3, <2>4, LockStep
<1>9. CASE Dies(w) /\ wpc[w] \in {"lock", "stat", "seek", "write"}
  <2>1. ino[w] \in 1..Len(files)
    BY <1>1, <1>9 DEF WriterInv
  <2> QED BY <1>6, <1>9, <2>1 DEF Dies, Returns, GoTo
<1>10. CASE Dies(w) /\ wpc[w] \in {"idle", "open"}
  <2>1. UNCHANGED <<files, name, lock, ev, ino, filepos, attached, cpc, cino, acked>>
    BY <1>10 DEF Dies
  <2>2. wpc' = [wpc EXCEPT ![w] = "idle"]
    BY <1>10 DEF Dies, Returns, GoTo
  <2>3. DOMAIN wpc' = Writers /\ \A u \in Writers : wpc'[u] = wpc[u] \/ wpc'[u] = "idle"
    BY <1>1, <2>2 DEF FileShape
  <2>4. cpc = "locked" => lock'[cino] = Cleaner
    BY <1>1, <2>1 DEF CleanerInv
  <2> QED BY <1>2, <1>3, <2>1, <2>3, <2>4, LockStep
<1>11. wpc[w] \in {"idle", "open", "lock", "stat", "seek", "write"}
  BY <1>1 DEF FileShape
<1> QED BY <1>4, <1>5, <1>7, <1>8, <1>9, <1>10, <1>11

\* A call of the writer ends with another content of its file, which only
\* grows: what it acknowledges is there, and so is all that was there before.
LEMMA WrittenStep ==
  ASSUME FileInv, NEW w \in Writers, wpc[w] = "write", NEW g, IsSeq(g),
         Len(files[ino[w]]) <= Len(g),
         \A i \in 1..Len(files[ino[w]]) : g[i] = files[ino[w]][i],
         files' = [files EXCEPT ![ino[w]] = g],
         lock' = Closed(w), wpc' = [wpc EXCEPT ![w] = "idle"],
         \A a \in acked' : \/ a \in acked
                          \/ /\ a.file = ino[w] /\ a.pos = Len(files[ino[w]])
                             /\ a.pos < Len(g) /\ g[a.pos + 1] = a.msg,
         UNCHANGED <<name, ev, ino, filepos, attached, cpc, cino>>
  PROVE  FileInv'
<1>1. FileShape /\ WriterInv /\ CleanerInv /\ AckedInv /\ PositionTrue /\ FileAssumption
  BY FileAssumption DEF FileInv
<1> DEFINE f == ino[w]
<1>2. f \in 1..Len(files) /\ lock[f] = w /\ filepos[w] = Len(files[f])
  BY <1>1 DEF WriterInv
<1>3. Len(files) \in Nat /\ \A i \in 1..Len(files) : Len(files[i]) \in Nat
  BY FileTypes
<1>4. Len(g) \in Nat
  BY IsSeqLen
<1>5. /\ IsSeq(files') /\ Len(files') = Len(files)
      /\ \A j \in 1..Len(files) : files'[j] = IF j = f THEN g ELSE files[j]
  <2>1. files' = Updated(files, f, g)
    BY DEF Updated
  <2>2. IsSeq(files)
    BY <1>1 DEF FileShape
  <2> HIDE DEF f
  <2>3. /\ IsSeq(Updated(files, f, g)) /\ Len(Updated(files, f, g)) = Len(files)
        /\ \A j \in 1..Len(files) : Updated(files, f, g)[j] = IF j = f THEN g ELSE files[j]
    BY ONLY <1>2, <2>2, IsSeqUpdated
  <2> QED BY ONLY <2>1, <2>3
<1>6. /\ IsSeq(lock') /\ Len(lock') = Len(lock)
      /\ \A i \in 1..Len(files) : lock[i] # w => lock'[i] = lock[i]
  BY <1>2, ClosedLock
<1>7. DOMAIN wpc' = Writers /\ \A u \in Writers : wpc'[u] = IF u = w THEN "idle" ELSE wpc[u]
  BY <1>1 DEF FileShape
<1> HIDE DEF f
<1>8. FileShape'
  <2>1. \A i \in 1..Len(files') : IsSeq(files'[i])
    BY <1>1, <1>5 DEF FileShape
  <2>2. \A u \in Writers : wpc'[u] \in {"idle", "open", "lock", "stat", "seek", "write"}
    BY <1>1, <1>7 DEF FileShape
  <2> QED BY <1>1, <1>5, <1>6, <1>7, <2>1, <2>2 DEF FileShape
<1>9. WriterInv'
  <2> SUFFICES ASSUME NEW u \in Writers
               PROVE  /\ wpc'[u] \in {"lock", "stat", "seek", "write"} => ino[u] \in 1..Len(files')
                      /\ wpc'[u] \in {"stat", "seek", "write"} => lock'[ino[u]] = u
                      /\ wpc'[u] = "write" => filepos[u] = Len(files'[ino[u]])
    BY DEF WriterInv
  <2>1. CASE u = w
    BY <1>7, <2>1
  <2>2. CASE u # w
    <3>1. wpc'[u] = wpc[u]
      BY <1>7, <2>2
    <3>2. wpc[u] \in {"lock", "stat", "seek", "write"} => ino[u] \in 1..Len(files)
      BY <1>1 DEF WriterInv
    <3>3. wpc[u] \in {"stat", "seek", "write"} => lock[ino[u]] = u /\ ino[u] # f
      BY <1>1, <1>2, <2>2 DEF WriterInv
    <3>4. wpc[u] = "write" => filepos[u] = Len(files[ino[u]])
      BY <1>1 DEF WriterInv
    <3> QED BY <1>5, <1>6, <2>2, <3>1, <3>2, <3>3, <3>4
  <2> QED BY <2>1, <2>2
<1>10. CleanerInv'
  BY <1>1, <1>5, <1>6 DEF CleanerInv, FileAssumption
<1>11. AckedInv'
  BY <1>1, <1>2, <1>3, <1>5 DEF AckedInv, f
<1>12. PositionTrue'
  <2> SUFFICES ASSUME NEW a \in acked'
               PROVE  a.pos < Len(files'[a.file]) /\ files'[a.file][a.pos + 1] = a.msg
    BY DEF PositionTrue
  <2>1. CASE a \notin acked
    BY <1>2, <1>5, <2>1 DEF f
  <2>2. CASE a \in acked
    <3>1. a.file \in 1..Len(files) /\ a.pos \in Nat
          /\ a.pos < Len(files[a.file]) /\ files[a.file][a.pos + 1] = a.msg
      BY <1>1, <2>2 DEF AckedInv, PositionTrue
    <3>2. CASE a.file # f
      BY <1>5, <3>1, <3>2
    <3>3. CASE a.file = f
      <4>1. a.pos + 1 \in 1..Len(files[f]) /\ a.pos < Len(g)
        BY <1>2, <1>3, <1>4, <3>1, <3>3 DEF f
      <4>2. g[a.pos + 1] = files[f][a.pos + 1]
        BY <4>1 DEF f
      <4> QED BY <1>5, <3>1, <3>3, <4>1, <4>2
    <3> QED BY <3>2, <3>3
  <2> QED BY <2>1, <2>2
<1> QED BY <1>8, <1>9, <1>10, <1>11, <1>12 DEF FileInv

LEMMA WriteSteps ==
  ASSUME FileInv, NEW w \in Writers, Seek(w) \/ Write(w) \/ WriteFails(w)
  PROVE  FileInv'
<1> USE DEF fileSystem, interlogger
<1>1. FileShape /\ WriterInv /\ CleanerInv /\ AckedInv /\ PositionTrue
  BY DEF FileInv
<1>2. \A i \in 1..Len(files) : IsSeq(files[i]) /\ Len(files[i]) \in Nat
  BY <1>1, FileTypes DEF FileShape
<1>3. CASE Seek(w)
  <2>1. /\ wpc[w] = "seek" /\ filepos' = [filepos EXCEPT ![w] = Len(files[ino[w]])]
        /\ wpc' = [wpc EXCEPT ![w] = "write"]
        /\ UNCHANGED <<files, name, lock, ev, ino, attached, cpc, cino, acked>>
    BY <1>3 DEF Seek, GoTo
  <2>2. /\ DOMAIN wpc' = Writers /\ DOMAIN filepos' = Writers
        /\ wpc'[w] = "write" /\ filepos'[w] = Len(files[ino[w]])
        /\ \A u \in Writers : u # w => wpc'[u] = wpc[u] /\ filepos'[u] = filepos[u]
    BY <1>1, <2>1 DEF FileShape
  <2>3. FileShape'
    BY <1>1, <2>1, <2>2 DEF FileShape
  <2>4. WriterInv'
    BY <1>1, <2>1, <2>2 DEF WriterInv
  <2>5. CleanerInv' /\ AckedInv' /\ PositionTrue'
    BY <1>1, <2>1 DEF CleanerInv, AckedInv, PositionTrue
  <2> QED BY <2>3, <2>4, <2>5 DEF FileInv
<1>4. CASE Write(w)
  <2> DEFINE s == files[ino[w]]
             g == Append(s, ev[w])
  <2>1. /\ wpc[w] = "write" /\ files' = [files EXCEPT ![ino[w]] = g]
        /\ acked' = acked \cup {[msg |-> ev[w], file |-> ino[w], pos |-> filepos[w],
                               named |-> name = ino[w]]}
        /\ lock' = Closed(w) /\ wpc' = [wpc EXCEPT ![w] = "idle"]
        /\ UNCHANGED <<name, ev, ino, filepos, attached, cpc, cino>>
    BY <1>4 DEF Write, Returns, GoTo
  <2>2. ino[w] \in 1..Len(files) /\ filepos[w] = Len(s)
    BY <1>1, <2>1 DEF WriterInv
  <2>3. IsSeq(s) /\ Len(s) \in Nat
    BY <1>2, <2>2
  <2> HIDE DEF s
  <2>4. /\ IsSeq(g) /\ Len(g) = Len(s) + 1 /\ g[Len(s) + 1] = ev[w]
        /\ \A i \in 1..Len(s) : g[i] = s[i]
    BY <2>3, IsSeqAppend
  <2> HIDE DEF g
  <2>5. Len(s) <= Len(g)
    BY <2>3, <2>4
  <2>6. ASSUME NEW a \in acked', a \notin acked
        PROVE  a.file = ino[w] /\ a.pos = Len(s) /\ a.pos < Len(g) /\ g[a.pos + 1] = a.msg
    <3>1. a.file = ino[w] /\ a.pos = Len(s) /\ a.msg = ev[w]
      BY <2>1, <2>2, <2>6
    <3> QED BY <2>3, <2>4, <3>1
  <2> QED BY <2>1, <2>4, <2>5, <2>6, WrittenStep DEF s
<1>5. CASE WriteFails(w)
  <2> DEFINE s == files[ino[w]]
             g == SubSeq(s, 1, filepos[w])
  <2>1. /\ wpc[w] = "write" /\ files' = [files EXCEPT ![ino[w]] = g]
        /\ lock' = Closed(w) /\ wpc' = [wpc EXCEPT ![w] = "idle"]
        /\ UNCHANGED <<name, ev, ino, filepos, attached, cpc, cino, acked>>
    BY <1>5 DEF WriteFails, Returns, GoTo
  <2>2. ino[w] \in 1..Len(files) /\ filepos[w] = Len(s)
    BY <1>1, <2>1 DEF WriterInv
  <2>3. IsSeq(s) /\ Len(s) \in Nat
    BY <1>2, <2>2
  <2> HIDE DEF s
  <2>4. IsSeq(g) /\ Len(g) = Len(s) /\ \A i \in 1..Len(s) : g[i] = s[i]
    <3>1. filepos[w] \in 0..Len(s)
      BY <2>2, <2>3
    <3> QED BY <2>2, <2>3, <3>1, IsSeqPrefix
  <2> HIDE DEF g
  <2>5. Len(s) <= Len(g)
    BY <2>3, <2>4
  <2> QED BY <2>1, <2>4, <2>5, WrittenStep DEF s
<1> QED BY <1>3, <1>4, <1>5

-----------------------------------------------------------------------------
(* The inter-logger's side of the files.                                    *)

\* Locks that are neither a writer's, nor the cleaner's while it has one, may change.
LEMMA CleanStep ==
  ASSUME FileInv, UNCHANGED <<files, wpc, ev, ino, filepos, acked>>,
         IsSeq(lock'), Len(lock') = Len(lock),
         \A i \in 1..Len(files) : lock[i] \in Writers => lock'[i] = lock[i],
         name' \in 0..Len(files), attached' => name' # 0, CleanerInv'
  PROVE  FileInv'
<1>1. FileShape /\ WriterInv /\ AckedInv /\ PositionTrue
  BY DEF FileInv
<1>2. FileShape'
  BY <1>1 DEF FileShape
<1>3. WriterInv'
  BY <1>1 DEF WriterInv
<1>4. AckedInv' /\ PositionTrue'
  BY <1>1 DEF AckedInv, PositionTrue
<1> QED BY <1>2, <1>3, <1>4 DEF FileInv

LEMMA CleanSteps ==
  ASSUME FileInv, CleanOpen \/ Cleaning \/ Crash
  PROVE  FileInv'
<1> USE DEF fileSystem, writer, interlogger
<1>1. FileShape /\ CleanerInv /\ FileAssumption
  BY FileAssumption DEF FileInv
<1>2. /\ IsSeq(lock) /\ Len(lock) = Len(files) /\ DOMAIN lock = 1..Len(files)
      /\ Len(files) \in Nat
      /\ name \in 0..Len(files) /\ (attached => name # 0)
  BY <1>1, FileTypes DEF FileShape
<1>3. Free \notin Writers /\ Cleaner \notin Writers
  BY <1>1 DEF FileAssumption
<1>4. CASE CleanOpen
  <2>1. /\ attached /\ cino' = name /\ cpc' = "lock"
        /\ UNCHANGED <<files, name, lock, wpc, ev, ino, filepos, attached, acked>>
    BY <1>4 DEF CleanOpen
  <2>2. CleanerInv'
    BY <1>2, <2>1 DEF CleanerInv
  <2> QED BY <1>2, <2>1, <2>2, CleanStep
<1>5. ASSUME NEW v \in {Free, Cleaner}, lock[cino] \notin Writers, cino \in 1..Len(files),
             lock' = [lock EXCEPT ![cino] = v]
      PROVE  /\ IsSeq(lock') /\ Len(lock') = Len(lock) /\ lock'[cino] = v
             /\ \A i \in 1..Len(files) : lock[i] \in Writers => lock'[i] = lock[i]
  <2>1. lock' = Updated(lock, cino, v)
    BY <1>5 DEF Updated
  <2>2. /\ IsSeq(lock') /\ Len(lock') = Len(lock)
        /\ \A j \in 1..Len(lock) : lock'[j] = IF j = cino THEN v ELSE lock[j]
    <3>1. /\ IsSeq(Updated(lock, cino, v)) /\ Len(Updated(lock, cino, v)) = Len(lock)
          /\ \A j \in 1..Len(lock) : Updated(lock, cino, v)[j] = IF j = cino THEN v ELSE lock[j]
      BY ONLY <1>2, <1>5, IsSeqUpdated
    <3> QED BY ONLY <2>1, <3>1
  <2> QED BY <1>2, <1>5, <2>2
<1>6. CASE CleanLock
  <2>1. /\ cpc = "lock"
        /\ UNCHANGED <<files, name, wpc, ev, ino, filepos, attached, cino, acked>>
    BY <1>6 DEF CleanLock
  <2>2. cino \in 1..Len(files)
    BY <1>1, <2>1 DEF CleanerInv
  <2>3. CASE lock[cino] = Free
    <3>1. lock' = [lock EXCEPT ![cino] = Cleaner] /\ cpc' = "locked"
      BY <1>6, <2>3 DEF CleanLock
    <3>2. /\ IsSeq(lock') /\ Len(lock') = Len(lock) /\ lock'[cino] = Cleaner
          /\ \A i \in 1..Len(files) : lock[i] \in Writers => lock'[i] = lock[i]
      BY <1>3, <1>5, <2>2, <2>3, <3>1
    <3>3. CleanerInv'
      BY <2>1, <2>2, <3>1, <3>2 DEF CleanerInv
    <3> QED BY <1>2, <2>1, <3>2, <3>3, CleanStep
  <2>4. CASE lock[cino] # Free
    <3>1. UNCHANGED lock /\ cpc' = "idle"
      BY <1>6, <2>4 DEF CleanLock
    <3>2. CleanerInv'
      BY <3>1 DEF CleanerInv
    <3> QED BY <1>2, <2>1, <3>1, <3>2, CleanStep
  <2> QED BY <2>3, <2>4
<1>7. CASE CleanRemove
  <2>1. /\ cpc = "locked" /\ cpc' = "idle" /\ lock' = [lock EXCEPT ![cino] = Free]
        /\ UNCHANGED <<files, wpc, ev, ino, filepos, cino, acked>>
    BY <1>7 DEF CleanRemove
  <2>2. cino \in 1..Len(files) /\ lock[cino] = Cleaner
    BY <1>1, <2>1 DEF CleanerInv
  <2>3. name' \in 0..Len(files) /\ (attached' => name' # 0)
    BY <1>2, <1>7 DEF CleanRemove
  <2>4. /\ IsSeq(lock') /\ Len(lock') = Len(lock)
        /\ \A i \in 1..Len(files) : lock[i] \in Writers => lock'[i] = lock[i]
    BY <1>3, <1>5, <2>1, <2>2
  <2>5. CleanerInv'
    BY <2>1 DEF CleanerInv
  <2> QED BY <2>1, <2>3, <2>4, <2>5, CleanStep
<1>8. CASE Crash
  <2>1. /\ attached' = FALSE /\ cpc' = "idle"
        /\ lock' = [i \in DOMAIN lock |-> IF lock[i] = Cleaner THEN Free ELSE lock[i]]
        /\ UNCHANGED <<files, name, wpc, ev, ino, filepos, acked>>
    BY <1>8 DEF Crash
  <2>2. lock' \in Seq(ToSet(lock) \cup {Free}) /\ Len(lock') = Len(lock)
    <3> DEFINE S == ToSet(lock) \cup {Free}
    <3>1. \A i \in 1..Len(files) : lock[i] \in S
      BY <1>2 DEF ToSet
    <3> HIDE DEF S
    <3>2. lock' \in [1..Len(files) -> S \cup {Free}]
      BY <1>2, <2>1, <3>1
    <3>3. lock' \in Seq(S \cup {Free})
      BY <1>2, <3>2, SeqDef
    <3>4. Len(lock') = Len(files)
      BY <1>2, <3>2, <3>3, LenProperties
    <3> QED BY <1>2, <3>3, <3>4 DEF S
  <2>3. IsSeq(lock')
    BY <2>2, IsSeqIntro
  <2>4. \A i \in 1..Len(files) : lock[i] \in Writers => lock'[i] = lock[i]
    BY <1>2, <1>3, <2>1
  <2>5. CleanerInv'
    BY <2>1 DEF CleanerInv
  <2> QED BY <1>2, <2>1, <2>2, <2>3, <2>4, <2>5, CleanStep
<1> QED BY <1>4, <1>6, <1>7, <1>8 DEF Cleaning

-----------------------------------------------------------------------------
LEMMA FileInitial ==
  ASSUME Init
  PROVE  FileInv
<1>1. FileInit
  BY DEF Init, ProducerInit, LoggerInit
<1>2. IsSeq(<<>>) /\ Len(<<>>) = 0
  BY EmptySeq DEF IsSeq
<1>3. FileShape
  BY <1>1, <1>2 DEF FileInit, FileShape
<1>4. WriterInv /\ CleanerInv /\ AckedInv /\ PositionTrue
  BY <1>1 DEF FileInit, WriterInv, CleanerInv, AckedInv, PositionTrue
<1> QED BY <1>3, <1>4 DEF FileInv

LEMMA FileInductive ==
  ASSUME FileInv, [Next]_<<vars, listVars>>
  PROVE  FileInv'
<1>1. CASE UNCHANGED <<Watched, attached>>
  BY <1>1 DEF Watched, FileInv, FileShape, WriterInv, CleanerInv, AckedInv, PositionTrue
<1>2. CASE UNCHANGED Watched /\ Attach
  BY <1>2 DEF Watched, Attach, FileInv, FileShape, WriterInv, CleanerInv, AckedInv, PositionTrue
<1>3. ASSUME NEW w \in Writers, FileStep(w) PROVE FileInv'
  BY <1>3, BeginsStep, OpenStep, LockSteps, WriteSteps DEF FileStep
<1> QED BY <1>1, <1>2, <1>3, FileActions, CleanSteps

\* Whatever processes log events at the same time, die or fail, and whenever
\* the inter-logger removes the file: the event a writer acknowledged is at
\* the position it reported (edg_wll_log_event_write).
THEOREM AcknowledgedInPlace == Spec => []PositionTrue
<1>1. Init => FileInv
  BY FileInitial
<1>2. FileInv /\ [Next]_<<vars, listVars>> => FileInv'
  BY FileInductive
<1>3. FileInv => PositionTrue
  BY DEF FileInv
<1> QED BY <1>1, <1>2, <1>3, PTL DEF Spec

-----------------------------------------------------------------------------
(* Sequence codes: the inductive invariant.                                 *)

\* Control points of a context between the formatting of an event and the
\* end of its transfer.
Busy == {"connect", "write", "read", "servers", "submit", "answers", "file", "filed"}

Plain(s) == \A i \in 1..Len(s) : s[i].op # "restore"

\* What is left of edg_wll_RegisterSubjobsMaster before the code is set, after
\* that, and when only the old code is still to be restored.
Registers(x) ==
  \/ /\ Len(x.steps) = 3 /\ x.pc = "step"
     /\ x.steps[1].op = "set" /\ x.steps[2].op = "log" /\ x.steps[3].op = "restore"
  \/ /\ Len(x.steps) = 2 /\ x.series # x.old.series
     /\ x.steps[1].op = "log" /\ x.steps[2].op = "restore"
  \/ /\ Len(x.steps) = 1 /\ x.pc = "step" /\ x.steps[1].op = "restore"

\* The codes of the series that is to be restored are below the one it had.
OldBelow(k) ==
  \A h \in history.coded : h.client = k /\ h.series = cl[k].old.series => h.code < cl[k].old.code

StepsLeft(k) ==
  /\ IsSeq(cl[k].steps) /\ Len(cl[k].steps) > 0
  /\ Plain(cl[k].steps) \/ (Registers(cl[k]) /\ OldBelow(k))

\* A code that is in use belongs to an event that is under way, and will be
\* counted up when the transfer is over.
CodesBelow(k) ==
  \A h \in history.coded : h.client = k /\ h.series = cl[k].series =>
    h.code < cl[k].code \/ (h.code = cl[k].code /\ cl[k].pc \in Busy /\ cl[k].event # 0)

CallsShape(calls) == IsSeq(calls) /\ \A i \in 1..Len(calls) : calls[i].op \in CallOps

ContextShape(x) ==
  /\ DOMAIN x = DOMAIN Context(<<>>)
  /\ x.code \in Nat /\ x.series \in 0..history.series
  /\ x.old.code \in Nat /\ x.old.series \in 0..history.series
  /\ x.pc \in {"idle", "step", "return"} \cup Busy
  /\ CallsShape(x.calls)

ContextInv(k) ==
  /\ ContextShape(cl[k]) /\ CodesBelow(k)
  /\ cl[k].pc \in {"step"} \cup Busy => StepsLeft(k)

HistoryInv ==
  /\ DOMAIN history = {"last", "series", "coded", "done"}
  /\ history.last \in Nat /\ history.series \in Nat
  /\ \A h \in history.coded : h.code \in Nat /\ h.series \in 0..history.series
  /\ \E n \in Nat : \A h \in history.coded : h.code <= n

UniqueCodes ==
  \A g, h \in history.coded :
    g.client = h.client /\ g.series = h.series /\ g.code = h.code => g.event = h.event

CodeInv ==
  /\ DOMAIN cl = Clients /\ HistoryInv /\ UniqueCodes
  /\ \A k \in Clients : ContextInv(k)

-----------------------------------------------------------------------------
(* The steps of a call.                                                     *)

\* The end of edg_wll_RegisterSubjobsMaster is all that is left.
OnlyRestore(s) == IsSeq(s) /\ Len(s) = 1 /\ s[1].op = "restore"

\* A failure leaves the last step, if that is "restore".
LEMMA RestPlain ==
  ASSUME NEW s, Plain(s)
  PROVE  Rest(s) = <<>>
<1>1. {i \in 2..Len(s) : s[i].op = "restore"} = {}
  BY DEF Plain
<1> QED BY <1>1 DEF Rest

LEMMA RestRestores ==
  ASSUME NEW s, IsSeq(s), Len(s) \in {2, 3}, s[Len(s)].op = "restore",
         Len(s) = 3 => s[2].op # "restore"
  PROVE  OnlyRestore(Rest(s))
<1> DEFINE r == {i \in 2..Len(s) : s[i].op = "restore"}
<1>1. r = {Len(s)}
  <2>1. CASE Len(s) = 2
    BY <2>1
  <2>2. CASE Len(s) = 3
    <3>1. 2..3 = {2, 3}
      OBVIOUS
    <3> QED BY <2>2, <3>1
  <2> QED BY <2>1, <2>2
<1>2. Min(r) = Len(s)
  <2>1. r \in SUBSET Nat /\ r # {}
    BY <1>1
  <2> HIDE DEF r
  <2> QED BY <1>1, <2>1, MinProperty
<1>3. Rest(s) = SubSeq(s, Len(s), Len(s))
  BY <1>1, <1>2 DEF Rest
<1> HIDE DEF r
<1> QED BY <1>3, IsSeqLast DEF OnlyRestore

\* What a step leaves of the steps, with or without a failure.
LEMMA StepDoneLeft ==
  ASSUME NEW x, DOMAIN x = DOMAIN Context(<<>>), IsSeq(x.steps), Len(x.steps) > 0
  PROVE  /\ DOMAIN StepDone(x) = DOMAIN x
         /\ StepDone(x).calls = x.calls /\ StepDone(x).code = x.code
         /\ StepDone(x).series = x.series /\ StepDone(x).old = x.old /\ StepDone(x).event = x.event
         /\ StepDone(x).pc \in {"step", "return"}
         /\ StepDone(x).pc = "step" => StepDone(x).steps # <<>>
         /\ StepDone(x).steps # <<>> => StepDone(x).pc = "step"
         /\ StepDone(x).steps = IF x.err = "0" THEN Tail(x.steps) ELSE Rest(x.steps)
  BY DEF StepDone, Context

LEMMA PlainLeft ==
  ASSUME NEW x, DOMAIN x = DOMAIN Context(<<>>), IsSeq(x.steps), Len(x.steps) > 0, Plain(x.steps)
  PROVE  /\ StepDone(x).pc = "step" => IsSeq(StepDone(x).steps) /\ Len(StepDone(x).steps) > 0
         /\ Plain(StepDone(x).steps)
<1> DEFINE s == x.steps
           t == StepDone(x).steps
<1>1. Len(s) \in Nat
  BY IsSeqLen
<1>2. IsSeq(t) /\ Plain(t)
  <2>1. CASE x.err = "0"
    <3>1. t = Tail(s)
      BY <2>1, StepDoneLeft
    <3> HIDE DEF t, s
    <3>2. /\ IsSeq(t) /\ Len(t) = Len(s) - 1
          /\ \A i \in 1..Len(s) - 1 : t[i] = s[i + 1]
      BY <3>1, IsSeqTail DEF s
    <3>3. Plain(t)
      BY <1>1, <3>2 DEF Plain, s
    <3> QED BY <3>2, <3>3
  <2>2. CASE x.err # "0"
    <3>1. t = <<>>
      BY <2>2, StepDoneLeft, RestPlain
    <3>2. IsSeq(<<>>) /\ Len(<<>>) = 0
      BY EmptySeq DEF IsSeq
    <3> QED BY <3>1, <3>2 DEF Plain
  <2> QED BY <2>1, <2>2
<1>3. StepDone(x).pc = "step" => t # <<>>
  BY StepDoneLeft
<1> HIDE DEF t
<1> QED BY <1>2, <1>3, IsSeqEmpty DEF t

LEMMA RegistersLeft ==
  ASSUME NEW x, DOMAIN x = DOMAIN Context(<<>>), IsSeq(x.steps), Len(x.steps) \in {2, 3},
         Len(x.steps) = 3 => x.steps[2].op = "log",
         x.steps[Len(x.steps)].op = "restore"
  PROVE  /\ StepDone(x).pc = "step"
         /\ \/ OnlyRestore(StepDone(x).steps)
            \/ /\ x.err = "0" /\ Len(x.steps) = 3
               /\ IsSeq(StepDone(x).steps) /\ Len(StepDone(x).steps) = 2
               /\ StepDone(x).steps[1].op = "log" /\ StepDone(x).steps[2].op = "restore"
<1> DEFINE s == x.steps
           t == StepDone(x).steps
<1>1. Len(s) > 0
  OBVIOUS
<1>2. StepDone(x).pc = "step" \/ t = <<>>
  BY <1>1, StepDoneLeft
<1>3. IsSeq(<<>>) /\ Len(<<>>) = 0
  BY EmptySeq DEF IsSeq
<1>4. CASE x.err = "0"
  <2>1. t = Tail(s)
    BY <1>1, <1>4, StepDoneLeft
  <2>2. IsSeq(s)
    OBVIOUS
  <2>3. /\ IsSeq(t) /\ Len(t) = Len(s) - 1
        /\ \A i \in 1..Len(s) - 1 : t[i] = s[i + 1]
    <3> HIDE DEF s, t
    <3> QED BY <1>1, <2>1, <2>2, IsSeqTail
  <2> HIDE DEF t
  <2>4. CASE Len(s) = 2
    BY <1>2, <1>3, <2>3, <2>4 DEF OnlyRestore, t
  <2>5. CASE Len(s) = 3
    <3>1. Len(t) = 2 /\ t[1] = s[2] /\ t[2] = s[3]
      BY <2>3, <2>5
    <3> QED BY <1>2, <1>3, <1>4, <2>3, <2>5, <3>1 DEF t
  <2> QED BY <2>4, <2>5
<1>5. CASE x.err # "0"
  <2>1. t = Rest(s)
    BY <1>1, <1>5, StepDoneLeft
  <2>2. OnlyRestore(t)
    BY <2>1, RestRestores
  <2>3. t # <<>>
    BY <1>3, <2>2 DEF OnlyRestore
  <2> QED BY <1>2, <2>2, <2>3
<1> QED BY <1>4, <1>5

\* The steps of every function of the interface.
RegistersAll(s) ==
  IsSeq(s) /\ Len(s) = 3 /\ s[1].op = "set" /\ s[2].op = "log" /\ s[3].op = "restore"

LEMMA OneStep ==
  ASSUME NEW a, a.op # "restore"
  PROVE  IsSeq(<<a>>) /\ Len(<<a>>) > 0 /\ Plain(<<a>>)
<1>1. <<a>> \in Seq({a})
  OBVIOUS
<1>2. IsSeq(<<a>>)
  BY <1>1, IsSeqIntro
<1> QED BY <1>2 DEF Plain

LEMMA TwoSteps ==
  ASSUME NEW a, NEW b, a.op # "restore", b.op # "restore"
  PROVE  IsSeq(<<a, b>>) /\ Len(<<a, b>>) > 0 /\ Plain(<<a, b>>)
<1>1. <<a, b>> \in Seq({a, b})
  OBVIOUS
<1>2. IsSeq(<<a, b>>)
  BY <1>1, IsSeqIntro
<1>3. \A i \in 1..2 : i = 1 \/ i = 2
  OBVIOUS
<1> QED BY <1>2, <1>3 DEF Plain

LEMMA ThreeSteps ==
  ASSUME NEW a, NEW b, NEW c, a.op = "set", b.op = "log", c.op = "restore"
  PROVE  RegistersAll(<<a, b>> \o <<c>>)
<1>1. <<a, b>> \in Seq({a, b, c}) /\ <<c>> \in Seq({a, b, c}) /\ Len(<<a, b>>) = 2 /\ Len(<<c>>) = 1
  OBVIOUS
<1> DEFINE s == <<a, b>> \o <<c>>
<1>2. /\ s \in Seq({a, b, c}) /\ Len(s) = 3
      /\ \A i \in 1..3 : s[i] = IF i <= 2 THEN <<a, b>>[i] ELSE <<c>>[i - 2]
  BY <1>1, ConcatProperties
<1>3. s[1] = a /\ s[2] = b /\ s[3] = c
  BY <1>2
<1> HIDE DEF s
<1>4. RegistersAll(s)
  BY <1>2, <1>3, IsSeqIntro DEF RegistersAll
<1> QED BY <1>4 DEF s

LEMMA StepsShape ==
  ASSUME NEW c, c.op \in CallOps
  PROVE  \/ IsSeq(Steps(c)) /\ Len(Steps(c)) > 0 /\ Plain(Steps(c))
         \/ RegistersAll(Steps(c))
<1>1. ASSUME NEW flags PROVE LogTo(flags).op = "log"
  BY DEF LogTo
<1>2. ASSUME NEW job, NEW from PROVE SetJob(job, from).op = "set"
  BY DEF SetJob
<1>3. ASSUME NEW kind PROVE CommandFor(kind).op = "command"
  BY DEF CommandFor
<1>4. RestoreJob.op = "restore"
  BY DEF RestoreJob
<1>6. CASE c.op \in {"LogEvent", "LogBroken", "LogEventSync", "LogEventProxy", "LogEventFile"}
  <2>1. \E a : Steps(c) = <<a>> /\ a.op = "log"
    BY <1>1, <1>6 DEF Steps
  <2> QED BY <2>1, OneStep
<1>7. CASE c.op \in {"SetLoggingJob", "SetLoggingJobProxy"}
  <2>1. \E a : Steps(c) = <<a>> /\ a.op = "set"
    BY <1>2, <1>7 DEF Steps
  <2> QED BY <2>1, OneStep
<1>8. CASE c.op \in {"LogFlush", "LogFlushAll"}
  <2>1. \E a : Steps(c) = <<a>> /\ a.op = "command"
    BY <1>3, <1>8 DEF Steps
  <2> QED BY <2>1, OneStep
<1>9. CASE c.op \in {"ChangeACL", "RegisterJob", "RegisterJobProxy"}
  <2>1. \E g : Steps(c) = <<SetJob(c.job, "zero"), LogTo(g)>>
    BY <1>9 DEF Steps, RegisterJobMaster
  <2> QED BY <1>1, <1>2, <2>1, TwoSteps
<1>10. CASE c.op = "RegisterSubjobs"
  <2>1. Steps(c) = RegisterJobMaster({"local"}, c.job, FALSE) \o <<RestoreJob>>
    BY <1>10 DEF Steps
  <2>2. RegisterJobMaster({"local"}, c.job, FALSE) = <<SetJob(c.job, "zero"), LogTo({"local"})>>
    BY DEF RegisterJobMaster
  <2> QED BY <1>1, <1>2, <1>4, <2>1, <2>2, ThreeSteps
<1> QED BY <1>6, <1>7, <1>8, <1>9, <1>10 DEF CallOps

-----------------------------------------------------------------------------
(* A step of one context.                                                   *)

LEMMA OthersKept ==
  ASSUME CodeInv, NEW k \in Clients, NEW y, cl' = [cl EXCEPT ![k] = y],
         HistoryInv', UniqueCodes', history.series <= history'.series,
         \A h \in history'.coded : h \in history.coded \/ h.client = k,
         ContextInv(k)'
  PROVE  CodeInv'
<1>1. DOMAIN cl = Clients /\ HistoryInv /\ \A j \in Clients : ContextInv(j)
  BY DEF CodeInv
<1>2. DOMAIN cl' = Clients
  BY <1>1
<1>3. ASSUME NEW j \in Clients, j # k PROVE ContextInv(j)'
  <2>1. cl'[j] = cl[j] /\ ContextInv(j)
    BY <1>1, <1>3
  <2>2. ContextShape(cl[j])'
    <3>1. 0..history.series \subseteq 0..history'.series
      BY <1>1 DEF HistoryInv
    <3> QED BY <2>1, <3>1 DEF ContextInv, ContextShape
  <2>3. CodesBelow(j)'
    BY <1>3, <2>1 DEF ContextInv, CodesBelow
  <2>4. OldBelow(j) => OldBelow(j)'
    BY <1>3, <2>1 DEF OldBelow
  <2>5. StepsLeft(j) => StepsLeft(j)'
    BY <2>1, <2>4 DEF StepsLeft
  <2> QED BY <2>1, <2>2, <2>3, <2>5 DEF ContextInv
<1> QED BY <1>2, <1>3 DEF CodeInv

\* A step that leaves codes and history alone.
LEMMA MoveKept ==
  ASSUME CodeInv, NEW k \in Clients, NEW y, cl' = [cl EXCEPT ![k] = y],
         history' = history \/ history' = [history EXCEPT !.done = history'.done],
         DOMAIN y = DOMAIN cl[k], y.calls = cl[k].calls, y.steps = cl[k].steps, y.code = cl[k].code,
         y.series = cl[k].series, y.old = cl[k].old, y.event = cl[k].event,
         \/ y.pc = cl[k].pc
         \/ cl[k].pc \in Busy /\ y.pc \in Busy
         \/ cl[k].pc = "step" /\ y.pc \in Busy /\ Plain(cl[k].steps)
         \/ cl[k].pc = "return" /\ y.pc = "idle"
  PROVE  CodeInv'
<1>1. DOMAIN cl = Clients /\ HistoryInv /\ UniqueCodes /\ ContextInv(k)
  BY DEF CodeInv
<1>2. /\ history'.coded = history.coded /\ history'.series = history.series
      /\ history'.last = history.last /\ DOMAIN history' = DOMAIN history
  BY <1>1 DEF HistoryInv
<1>3. HistoryInv' /\ UniqueCodes' /\ history.series <= history'.series
  BY <1>1, <1>2 DEF HistoryInv, UniqueCodes
<1>4. cl'[k] = y
  BY <1>1
<1>5. ContextShape(cl[k])'
  BY <1>1, <1>2, <1>4 DEF ContextInv, ContextShape
<1>6. CodesBelow(k)'
  BY <1>1, <1>2, <1>4 DEF ContextInv, CodesBelow, Busy
<1>7. y.pc \in {"step"} \cup Busy => StepsLeft(k)'
  <2>1. OldBelow(k) => OldBelow(k)'
    BY <1>2, <1>4 DEF OldBelow
  <2>2. Registers(cl[k]) /\ (y.pc = cl[k].pc \/ cl[k].pc \in Busy) => Registers(y)
    BY DEF Registers, Busy
  <2> QED BY <1>1, <1>4, <2>1, <2>2 DEF ContextInv, StepsLeft, Busy
<1>8. ContextInv(k)'
  BY <1>4, <1>5, <1>6, <1>7 DEF ContextInv
<1> QED BY <1>2, <1>3, <1>8, OthersKept

\* The end of a step of the call, with a code that no event of its series has.
LEMMA StepDoneKept ==
  ASSUME CodeInv, NEW k \in Clients, cl[k].pc \in {"step"} \cup Busy, cl[k].steps[1].op # "restore",
         HistoryInv', history'.coded = history.coded, history.series <= history'.series,
         NEW v, DOMAIN v = DOMAIN cl[k], v.calls = cl[k].calls, v.steps = cl[k].steps,
         v.old = cl[k].old, v.code \in Nat, v.series \in 0..history'.series,
         \A h \in history.coded : h.client = k /\ h.series = v.series => h.code < v.code,
         cl[k].steps[1].op = "set" /\ ~Plain(cl[k].steps) => v.err # "0" \/ v.series # v.old.series,
         cl' = [cl EXCEPT ![k] = StepDone(v)]
  PROVE  CodeInv'
<1> DEFINE x == cl[k]
           y == StepDone(v)
<1>1. DOMAIN cl = Clients /\ HistoryInv /\ UniqueCodes /\ ContextInv(k)
  BY DEF CodeInv
<1>2. UniqueCodes'
  BY <1>1 DEF UniqueCodes
<1>3. cl'[k] = y
  BY <1>1
<1>4. ContextShape(x) /\ StepsLeft(k)
  BY <1>1 DEF ContextInv
<1>5. DOMAIN v = DOMAIN Context(<<>>)
  BY <1>4 DEF ContextShape
<1>6. IsSeq(v.steps) /\ Len(v.steps) > 0
  BY <1>4 DEF StepsLeft
<1>7. /\ DOMAIN y = DOMAIN v /\ y.calls = v.calls /\ y.series = v.series /\ y.old = v.old
      /\ y.code = v.code /\ y.pc \in {"step", "return"}
  BY <1>5, <1>6, StepDoneLeft
<1>8. Plain(x.steps) => (y.pc = "step" => IsSeq(y.steps) /\ Len(y.steps) > 0 /\ Plain(y.steps))
  BY <1>5, <1>6, PlainLeft
<1>9. ~Plain(x.steps) =>
        /\ OldBelow(k) /\ y.pc = "step" /\ IsSeq(y.steps) /\ Len(y.steps) > 0
        /\ Registers(y)
  <2> SUFFICES ASSUME ~Plain(x.steps)
               PROVE  /\ OldBelow(k) /\ y.pc = "step" /\ IsSeq(y.steps) /\ Len(y.steps) > 0
                      /\ Registers(y)
    OBVIOUS
  <2>1. Registers(x) /\ OldBelow(k)
    BY <1>4 DEF StepsLeft
  <2>2. /\ Len(v.steps) \in {2, 3} /\ v.steps[Len(v.steps)].op = "restore"
        /\ Len(v.steps) = 3 => v.steps[2].op = "log" /\ v.steps[1].op = "set"
    <3>1. v.steps = x.steps /\ x.steps[1].op # "restore"
      OBVIOUS
    <3> QED BY ONLY <2>1, <3>1 DEF Registers
  <2>3. /\ StepDone(v).pc = "step"
        /\ \/ OnlyRestore(StepDone(v).steps)
           \/ /\ v.err = "0" /\ Len(v.steps) = 3
              /\ IsSeq(StepDone(v).steps) /\ Len(StepDone(v).steps) = 2
              /\ StepDone(v).steps[1].op = "log" /\ StepDone(v).steps[2].op = "restore"
    BY ONLY <1>5, <1>6, <2>2, RegistersLeft
  <2>4. CASE OnlyRestore(StepDone(v).steps)
    BY <2>1, <2>3, <2>4 DEF OnlyRestore, Registers
  <2>5. CASE ~OnlyRestore(StepDone(v).steps)
    <3>1. y.series # y.old.series
      BY <1>7, <2>2, <2>3, <2>5
    <3> QED BY <2>1, <2>3, <2>5, <3>1 DEF Registers
  <2> QED BY <2>4, <2>5
<1> HIDE DEF y
<1>10. ContextShape(cl[k])'
  <2>1. 0..history.series \subseteq 0..history'.series
    BY <1>1 DEF HistoryInv
  <2> QED BY <1>3, <1>4, <1>7, <2>1 DEF ContextShape, x
<1>11. CodesBelow(k)'
  BY <1>3, <1>7 DEF CodesBelow
<1>12. y.pc \in {"step"} \cup Busy => StepsLeft(k)'
  <2>1. OldBelow(k) => OldBelow(k)'
    BY <1>3, <1>7 DEF OldBelow
  <2> QED BY <1>3, <1>7, <1>8, <1>9, <2>1 DEF StepsLeft, Busy
<1>13. ContextInv(k)'
  BY <1>3, <1>10, <1>11, <1>12 DEF ContextInv
<1> QED BY <1>2, <1>13, OthersKept

\* The end of a transfer uses the code up.
LEMMA FinishKept ==
  ASSUME CodeInv, NEW k \in Clients, cl[k].pc \in Busy, UNCHANGED history,
         NEW z, DOMAIN z = DOMAIN cl[k], z.calls = cl[k].calls, z.steps = cl[k].steps,
         z.code = cl[k].code, z.series = cl[k].series, z.old = cl[k].old, z.event = cl[k].event,
         NEW err, cl' = [cl EXCEPT ![k] = Logged(z, err)]
  PROVE  CodeInv'
<1>1. HistoryInv /\ ContextInv(k)
  BY DEF CodeInv
<1>2. HistoryInv' /\ history.series <= history'.series
  BY <1>1 DEF HistoryInv
<1> DEFINE x == cl[k]
           v == [z EXCEPT !.err = err, !.code = IF z.event # 0 THEN @ + 1 ELSE @]
<1>3. ContextShape(x) /\ CodesBelow(k) /\ StepsLeft(k)
  BY <1>1 DEF ContextInv
<1>4. /\ DOMAIN x = DOMAIN Context(<<>>)
      /\ x.code \in Nat /\ x.series \in 0..history.series
  BY <1>3 DEF ContextShape
<1>5. /\ DOMAIN v = DOMAIN x /\ v.calls = x.calls /\ v.steps = x.steps /\ v.series = x.series
      /\ v.old = x.old
      /\ v.code = IF x.event # 0 THEN x.code + 1 ELSE x.code
  BY <1>4 DEF Context
<1>6. cl' = [cl EXCEPT ![k] = StepDone(v)]
  BY DEF Logged
<1> HIDE DEF v
<1>7. ASSUME NEW h \in history.coded, h.client = k, h.series = v.series
      PROVE  h.code < v.code
  <2>1. h.code \in Nat
    BY <1>1 DEF HistoryInv
  <2>2. h.code < x.code \/ (h.code = x.code /\ x.event # 0)
    BY <1>3, <1>5, <1>7 DEF CodesBelow
  <2> QED BY <1>4, <1>5, <2>1, <2>2
<1>8. x.steps[1].op # "restore" /\ (x.steps[1].op = "set" => Plain(x.steps))
  <2>1. 1 \in 1..Len(x.steps)
    BY <1>3, IsSeqLen DEF StepsLeft
  <2>2. CASE Plain(x.steps)
    BY <2>1, <2>2 DEF Plain
  <2>3. CASE ~Plain(x.steps)
    BY <1>3, <2>3 DEF StepsLeft, Registers, Busy
  <2> QED BY <2>2, <2>3
<1>9. v.code \in Nat /\ v.series \in 0..history'.series
  BY <1>4, <1>5
<1>10. cl[k].pc \in {"step"} \cup Busy /\ history'.coded = history.coded
  OBVIOUS
<1> QED BY <1>2, <1>5, <1>6, <1>7, <1>8, <1>9, <1>10, StepDoneKept DEF x

-----------------------------------------------------------------------------
(* The steps of a context that change its code.                             *)

LEMMA CallKept ==
  ASSUME CodeInv, NEW k \in Clients, Call(k)
  PROVE  CodeInv'
<1> DEFINE x == cl[k]
           y == [x EXCEPT !.pc = "step", !.calls = Tail(@), !.steps = Steps(Head(x.calls)),
                          !.err = "0", !.event = 0, !.flags = {},
                          !.old = [job |-> x.job, code |-> x.code, series |-> x.series]]
<1>1. DOMAIN cl = Clients /\ HistoryInv /\ UniqueCodes /\ ContextInv(k)
  BY DEF CodeInv
<1>2. /\ x.pc = "idle" /\ x.calls # <<>>
      /\ cl' = [cl EXCEPT ![k] = y] /\ UNCHANGED history
  BY DEF Call, Update
<1>3. ContextShape(x) /\ CodesBelow(k)
  BY <1>1 DEF ContextInv
<1>4. DOMAIN x = DOMAIN Context(<<>>)
  BY <1>3 DEF ContextShape
<1>5. /\ DOMAIN y = DOMAIN x /\ y.pc = "step" /\ y.calls = Tail(x.calls)
      /\ y.steps = Steps(Head(x.calls)) /\ y.code = x.code /\ y.series = x.series
      /\ y.old.code = x.code /\ y.old.series = x.series
  BY <1>4 DEF Context
<1>6. cl'[k] = y
  BY <1>1, <1>2
<1> HIDE DEF y
<1>7. CallsShape(Tail(x.calls)) /\ Head(x.calls).op \in CallOps
  <2> DEFINE c == x.calls
  <2>1. IsSeq(c) /\ Len(c) > 0 /\ \A i \in 1..Len(c) : c[i].op \in CallOps
    BY <1>2, <1>3, IsSeqEmpty DEF ContextShape, CallsShape
  <2> HIDE DEF c
  <2>2. /\ IsSeq(Tail(c)) /\ Len(Tail(c)) = Len(c) - 1 /\ Head(c) = c[1]
        /\ \A i \in 1..Len(c) - 1 : Tail(c)[i] = c[i + 1]
    BY <2>1, IsSeqTail
  <2>3. Len(c) \in Nat
    BY <2>1, IsSeqLen
  <2>4. CallsShape(Tail(c)) /\ Head(c).op \in CallOps
    BY <2>1, <2>2, <2>3 DEF CallsShape
  <2> QED BY <2>4 DEF c
<1>8. ContextShape(cl[k])'
  BY <1>2, <1>3, <1>5, <1>6, <1>7 DEF ContextShape
<1>9. \A h \in history.coded : h.client = k /\ h.series = x.series => h.code < x.code
  BY <1>2, <1>3 DEF CodesBelow, Busy
<1>10. CodesBelow(k)' /\ OldBelow(k)'
  BY <1>2, <1>5, <1>6, <1>9 DEF CodesBelow, OldBelow
<1>11. StepsLeft(k)'
  <2>1. CASE IsSeq(y.steps) /\ Len(y.steps) > 0 /\ Plain(y.steps)
    BY <1>6, <2>1 DEF StepsLeft
  <2>2. CASE RegistersAll(y.steps)
    BY <1>5, <1>6, <1>10, <2>2 DEF StepsLeft, RegistersAll, Registers
  <2> QED BY <1>5, <1>7, <2>1, <2>2, StepsShape
<1>12. ContextInv(k)'
  BY <1>8, <1>10, <1>11 DEF ContextInv
<1>13. HistoryInv' /\ UniqueCodes' /\ history.series <= history'.series
  BY <1>1, <1>2 DEF HistoryInv, UniqueCodes
<1> QED BY <1>2, <1>12, <1>13, OthersKept

\* The first step of a call that is at a step.
LEMMA FirstStep ==
  ASSUME CodeInv, NEW k \in Clients, cl[k].pc = "step"
  PROVE  /\ Head(cl[k].steps) = cl[k].steps[1] /\ 1 \in 1..Len(cl[k].steps)
         /\ DOMAIN cl[k] = DOMAIN Context(<<>>)
         /\ \A h \in history.coded : h.client = k /\ h.series = cl[k].series => h.code < cl[k].code
<1>1. ContextShape(cl[k]) /\ CodesBelow(k) /\ StepsLeft(k)
  BY DEF CodeInv, ContextInv
<1>2. IsSeq(cl[k].steps) /\ Len(cl[k].steps) > 0
  BY <1>1 DEF StepsLeft
<1>3. Head(cl[k].steps) = cl[k].steps[1] /\ 1 \in 1..Len(cl[k].steps)
  BY <1>2, IsSeqTail, IsSeqLen
<1>4. DOMAIN cl[k] = DOMAIN Context(<<>>)
  BY <1>1 DEF ContextShape
<1> QED BY <1>1, <1>3, <1>4 DEF CodesBelow, Busy

LEMMA LastCodeNat ==
  ASSUME CodeInv, NEW job
  PROVE  LastCode(job) \in Nat
<1> DEFINE known == {h.code : h \in {g \in history.coded : g.job = job /\ g.event \in server["proxy"].stored}}
<1>1. PICK n \in Nat : \A h \in history.coded : h.code \in Nat /\ h.code <= n
  BY DEF CodeInv, HistoryInv
<1>2. known \in SUBSET Nat /\ \A c \in known : c <= n
  BY <1>1
<1>3. LastCode(job) = IF known = {} THEN 0 ELSE Max(known)
  BY DEF LastCode
<1> HIDE DEF known
<1>4. CASE known # {}
  <2>1. Max(known) \in known
    BY <1>1, <1>2, <1>4, MaxProperty
  <2>2. LastCode(job) = Max(known)
    BY <1>3, <1>4
  <2> QED BY <1>2, <2>1, <2>2
<1>5. CASE known = {}
  BY <1>3, <1>5
<1> QED BY <1>4, <1>5

LEMMA SetKept ==
  ASSUME CodeInv, NEW k \in Clients, SetLoggingJob(k)
  PROVE  CodeInv'
<1> DEFINE x == cl[k]
           s == Head(x.steps)
<1>1. x.pc = "step" /\ s.op = "set"
  BY DEF SetLoggingJob
<1>2. HistoryInv /\ ContextShape(x)
  BY DEF CodeInv, ContextInv
<1>3. /\ s = x.steps[1] /\ DOMAIN x = DOMAIN Context(<<>>)
      /\ \A h \in history.coded : h.client = k /\ h.series = x.series => h.code < x.code
  BY <1>1, FirstStep
<1>4. /\ x.code \in Nat /\ x.series \in 0..history.series /\ x.old.series \in 0..history.series
      /\ history.series \in Nat
  BY <1>2 DEF ContextShape, HistoryInv
<1>5. ASSUME NEW c \in Nat, cl' = [cl EXCEPT ![k] = StepDone(Coded(x, s.job, c, history.series + 1))],
             history' = [history EXCEPT !.series = @ + 1]
      PROVE  CodeInv'
  <2> DEFINE v == Coded(x, s.job, c, history.series + 1)
  <2>1. /\ DOMAIN v = DOMAIN x /\ v.calls = x.calls /\ v.steps = x.steps /\ v.old = x.old
        /\ v.code = c + 1 /\ v.series = history.series + 1
    BY <1>3 DEF Coded, Context
  <2>2. /\ history'.series = history.series + 1 /\ history'.coded = history.coded
        /\ history'.last = history.last /\ DOMAIN history' = DOMAIN history
    BY <1>2, <1>5 DEF HistoryInv
  <2> HIDE DEF v
  <2>3. HistoryInv'
    <3>1. 0..history.series \subseteq 0..history'.series
      BY <1>4, <2>2
    <3> QED BY <1>2, <1>4, <2>2, <3>1 DEF HistoryInv
  <2>4. \A h \in history.coded : h.series # v.series
    BY <1>2, <1>4, <2>1 DEF HistoryInv
  <2>5. v.code \in Nat /\ v.series \in 0..history'.series /\ v.series # v.old.series
        /\ history.series <= history'.series
    BY <1>4, <1>5, <2>1, <2>2
  <2>6. cl' = [cl EXCEPT ![k] = StepDone(v)]
    BY <1>5 DEF v
  <2>7. cl[k].pc \in {"step"} \cup Busy /\ cl[k].steps[1].op # "restore"
    BY <1>1, <1>3
  <2> HIDE DEF x
  <2>8. /\ DOMAIN v = DOMAIN cl[k] /\ v.calls = cl[k].calls /\ v.steps = cl[k].steps
        /\ v.old = cl[k].old
    BY <2>1 DEF x
  <2> QED BY <2>2, <2>3, <2>4, <2>5, <2>6, <2>7, <2>8, StepDoneKept
<1>6. ASSUME cl' = [cl EXCEPT ![k] = StepDone([x EXCEPT !.job = s.job, !.err = "ENOENT"])],
             UNCHANGED history
      PROVE  CodeInv'
  <2> DEFINE v == [x EXCEPT !.job = s.job, !.err = "ENOENT"]
  <2>1. /\ DOMAIN v = DOMAIN x /\ v.calls = x.calls /\ v.steps = x.steps /\ v.old = x.old
        /\ v.code = x.code /\ v.series = x.series /\ v.err = "ENOENT"
    BY <1>3 DEF Context
  <2>2. cl' = [cl EXCEPT ![k] = StepDone(v)]
    BY <1>6
  <2> HIDE DEF v
  <2>3. HistoryInv' /\ history.series <= history'.series
    BY <1>2, <1>6 DEF HistoryInv
  <2>4. /\ cl[k].pc \in {"step"} \cup Busy /\ cl[k].steps[1].op # "restore"
        /\ history'.coded = history.coded /\ v.code \in Nat /\ v.series \in 0..history'.series
        /\ v.err # "0"
    BY <1>1, <1>3, <1>4, <1>6, <2>1
  <2>5. /\ DOMAIN v = DOMAIN cl[k] /\ v.calls = cl[k].calls /\ v.steps = cl[k].steps
        /\ v.old = cl[k].old
        /\ \A h \in history.coded : h.client = k /\ h.series = v.series => h.code < v.code
    BY <1>3, <2>1
  <2> QED BY <2>2, <2>3, <2>4, <2>5, StepDoneKept
<1>7. LastCode(s.job) \in Nat
  BY LastCodeNat
<1> QED BY <1>5, <1>6, <1>7 DEF SetLoggingJob, Update

LEMMA RestoreKept ==
  ASSUME CodeInv, NEW k \in Clients, Restore(k)
  PROVE  CodeInv'
<1> DEFINE x == cl[k]
           y == [Coded(x, x.old.job, x.old.code, x.old.series) EXCEPT !.pc = "return", !.steps = <<>>]
<1>1. DOMAIN cl = Clients /\ HistoryInv /\ UniqueCodes /\ ContextInv(k)
  BY DEF CodeInv
<1>2. /\ x.pc = "step" /\ Head(x.steps).op = "restore"
      /\ cl' = [cl EXCEPT ![k] = y] /\ UNCHANGED history
  BY DEF Restore, Update
<1>3. ContextShape(x) /\ StepsLeft(k)
  BY <1>1, <1>2 DEF ContextInv
<1>4. DOMAIN x = DOMAIN Context(<<>>) /\ x.steps[1].op = "restore" /\ 1 \in 1..Len(x.steps)
  BY <1>2, FirstStep
<1>5. OldBelow(k)
  BY <1>3, <1>4 DEF StepsLeft, Plain
<1>6. /\ DOMAIN y = DOMAIN x /\ y.pc = "return" /\ y.calls = x.calls /\ y.old = x.old
      /\ y.code = x.old.code + 1 /\ y.series = x.old.series
  BY <1>4 DEF Context, Coded
<1>7. cl'[k] = y
  BY <1>1, <1>2
<1> HIDE DEF y
<1>8. ContextShape(cl[k])'
  BY <1>2, <1>3, <1>6, <1>7 DEF ContextShape
<1>9. CodesBelow(k)'
  <2>1. \A h \in history.coded : h.code \in Nat
    BY <1>1 DEF HistoryInv
  <2>2. x.old.code \in Nat
    BY <1>3 DEF ContextShape
  <2>3. \A h \in history.coded : h.client = k /\ h.series = x.old.series => h.code < x.old.code + 1
    BY <1>5, <2>1, <2>2 DEF OldBelow
  <2> QED BY <1>2, <1>6, <1>7, <2>3 DEF CodesBelow
<1>10. ContextInv(k)'
  BY <1>6, <1>7, <1>8, <1>9 DEF ContextInv, Busy
<1>11. HistoryInv' /\ UniqueCodes' /\ history.series <= history'.series
  BY <1>1, <1>2 DEF HistoryInv, UniqueCodes
<1> QED BY <1>2, <1>10, <1>11, OthersKept

LEMMA FormatKept ==
  ASSUME CodeInv, NEW k \in Clients, Format(k)
  PROVE  CodeInv'
<1> DEFINE x == cl[k]
           e == history.last + 1
           g == [event |-> e, client |-> k, job |-> x.job, code |-> x.code, series |-> x.series]
<1>1. DOMAIN cl = Clients /\ HistoryInv /\ UniqueCodes /\ ContextInv(k)
  BY DEF CodeInv
<1>2. /\ x.pc = "step" /\ Head(x.steps).op = "log"
      /\ history' = [history EXCEPT !.last = e, !.coded = @ \cup {g}]
  BY DEF Format
<1>3. PICK p \in {"connect", "servers", "file"} :
        cl' = [cl EXCEPT ![k] = [x EXCEPT !.pc = p, !.event = e, !.flags = Head(x.steps).flags,
                                          !.attempt = 1, !.spent = FALSE]]
  <2> DEFINE q == CASE Head(x.steps).flags \cap {"local"} # {} -> "connect"
                    [] Head(x.steps).flags \cap Dests # {} -> "servers"
                    [] OTHER -> "file"
  <2>1. q \in {"connect", "servers", "file"}
    OBVIOUS
  <2>2. cl' = [cl EXCEPT ![k] = [x EXCEPT !.pc = q, !.event = e, !.flags = Head(x.steps).flags,
                                          !.attempt = 1, !.spent = FALSE]]
    BY DEF Format, Update
  <2> HIDE DEF q
  <2> QED BY <2>1, <2>2
<1> DEFINE y == [x EXCEPT !.pc = p, !.event = e, !.flags = Head(x.steps).flags,
                          !.attempt = 1, !.spent = FALSE]
<1>4. ContextShape(x) /\ StepsLeft(k)
  BY <1>1, <1>2 DEF ContextInv
<1>5. /\ DOMAIN x = DOMAIN Context(<<>>) /\ x.steps[1].op = "log"
      /\ \A h \in history.coded : h.client = k /\ h.series = x.series => h.code < x.code
  BY <1>2, FirstStep
<1>6. /\ DOMAIN y = DOMAIN x /\ y.pc = p /\ y.calls = x.calls /\ y.old = x.old /\ y.steps = x.steps
      /\ y.code = x.code /\ y.series = x.series /\ y.event = e
  BY <1>5 DEF Context
<1>7. cl' = [cl EXCEPT ![k] = y] /\ cl'[k] = y
  BY <1>1, <1>3
<1> HIDE DEF y
<1>8. /\ history'.last = e /\ history'.coded = history.coded \cup {g}
      /\ history'.series = history.series /\ DOMAIN history' = DOMAIN history
  BY <1>1, <1>2 DEF HistoryInv
<1>9. /\ history.last \in Nat /\ e # 0 /\ x.code \in Nat /\ x.series \in 0..history.series
      /\ \A h \in history.coded : h.code \in Nat
  BY <1>1, <1>4 DEF HistoryInv, ContextShape
<1>10. g.client = k /\ g.code = x.code /\ g.series = x.series
  OBVIOUS
<1> HIDE DEF g
<1>11. HistoryInv'
  <2>1. PICK n \in Nat : \A h \in history.coded : h.code <= n
    BY <1>1 DEF HistoryInv
  <2>2. n + x.code \in Nat /\ \A h \in history.coded \cup {g} : h.code <= n + x.code
    BY <1>9, <1>10, <2>1
  <2>3. \E b \in Nat : \A h \in history'.coded : h.code <= b
    BY <1>8, <2>2
  <2>4. \A h \in history'.coded : h.code \in Nat /\ h.series \in 0..history'.series
    BY <1>1, <1>8, <1>9, <1>10 DEF HistoryInv
  <2>5. history'.last \in Nat /\ history'.series \in Nat
    BY <1>1, <1>8, <1>9 DEF HistoryInv
  <2> QED BY <1>1, <1>8, <2>3, <2>4, <2>5 DEF HistoryInv
<1>12. UniqueCodes'
  <2>1. ASSUME NEW h \in history.coded, h.client = g.client, h.series = g.series
        PROVE  h.code # g.code
    BY <1>5, <1>9, <1>10, <2>1
  <2> QED BY <1>1, <1>8, <2>1 DEF UniqueCodes
<1>13. ContextShape(cl[k])'
  BY <1>4, <1>6, <1>7, <1>8 DEF ContextShape, Busy
<1>14. CodesBelow(k)'
  BY <1>5, <1>6, <1>7, <1>8, <1>9, <1>10 DEF CodesBelow, Busy
<1>15. StepsLeft(k)'
  <2>1. CASE Plain(x.steps)
    BY <1>4, <1>6, <1>7, <2>1 DEF StepsLeft
  <2>2. CASE ~Plain(x.steps)
    <3>1. Registers(x) /\ OldBelow(k)
      BY <1>4, <2>2 DEF StepsLeft
    <3>2. Registers(y) /\ x.series # x.old.series
      BY <1>5, <1>6, <3>1 DEF Registers
    <3>3. OldBelow(k)'
      BY <1>6, <1>7, <1>8, <1>10, <3>1, <3>2 DEF OldBelow
    <3> QED BY <1>4, <1>6, <1>7, <3>2, <3>3 DEF StepsLeft
  <2> QED BY <2>1, <2>2
<1>16. ContextInv(k)'
  BY <1>13, <1>14, <1>15 DEF ContextInv
<1>17. history.series <= history'.series /\ \A h \in history'.coded : h \in history.coded \/ h.client = k
  BY <1>1, <1>8, <1>10 DEF HistoryInv
<1> QED BY <1>7, <1>11, <1>12, <1>16, <1>17, OthersKept

LEMMA FormatFailsKept ==
  ASSUME CodeInv, NEW k \in Clients, FormatFails(k)
  PROVE  CodeInv'
<1> DEFINE x == cl[k]
           z == [x EXCEPT !.event = history.last + 1, !.flags = Head(x.steps).flags]
           v == [z EXCEPT !.err = "EINVAL", !.code = IF z.event # 0 THEN @ + 1 ELSE @]
<1>1. HistoryInv /\ ContextShape(x)
  BY DEF CodeInv, ContextInv
<1>2. /\ x.pc = "step" /\ Head(x.steps).op = "log"
      /\ cl' = [cl EXCEPT ![k] = StepDone(v)]
      /\ history' = [history EXCEPT !.last = @ + 1]
  BY DEF FormatFails, Update, Logged
<1>3. /\ DOMAIN x = DOMAIN Context(<<>>) /\ x.steps[1].op = "log"
      /\ \A h \in history.coded : h.client = k /\ h.series = x.series => h.code < x.code
  BY <1>2, FirstStep
<1>4. /\ history.last \in Nat /\ x.code \in Nat /\ x.series \in 0..history.series
      /\ \A h \in history.coded : h.code \in Nat
  BY <1>1 DEF HistoryInv, ContextShape
<1>5. /\ DOMAIN z = DOMAIN x /\ z.calls = x.calls /\ z.steps = x.steps /\ z.old = x.old
      /\ z.code = x.code /\ z.series = x.series /\ z.event = history.last + 1
  BY <1>3 DEF Context
<1> HIDE DEF z
<1>6. /\ DOMAIN v = DOMAIN x /\ v.calls = x.calls /\ v.steps = x.steps /\ v.old = x.old
      /\ v.code = x.code + 1 /\ v.series = x.series
  BY <1>3, <1>4, <1>5 DEF Context
<1> HIDE DEF v
<1>7. /\ history'.series = history.series /\ history'.coded = history.coded
      /\ history'.last = history.last + 1 /\ DOMAIN history' = DOMAIN history
  BY <1>1, <1>2 DEF HistoryInv
<1>8. HistoryInv' /\ history.series <= history'.series
  BY <1>1, <1>4, <1>7 DEF HistoryInv
<1>9. ASSUME NEW h \in history.coded, h.client = k, h.series = v.series
      PROVE  h.code < v.code
  BY <1>3, <1>4, <1>6, <1>9
<1>10. /\ cl[k].pc \in {"step"} \cup Busy /\ cl[k].steps[1].op = "log"
       /\ v.code \in Nat /\ v.series \in 0..history'.series
  BY <1>2, <1>3, <1>4, <1>6, <1>7
<1> HIDE DEF x
<1>11. /\ DOMAIN v = DOMAIN cl[k] /\ v.calls = cl[k].calls /\ v.steps = cl[k].steps
       /\ v.old = cl[k].old
  BY <1>6 DEF x
<1> QED BY <1>2, <1>7, <1>8, <1>9, <1>10, <1>11, StepDoneKept

-----------------------------------------------------------------------------
(* The steps of a context that leave its code alone, and the ends of transfers. *)

LEMMA MovesKept ==
  ASSUME CodeInv, NEW k \in Clients,
         Flush(k) \/ Connect(k) \/ WriteMsg(k) \/ ConnectServers(k) \/ Submit(k) \/ WriteFile(k)
           \/ Return(k)
  PROVE  CodeInv'
<1> DEFINE x == cl[k]
<1>1. ContextInv(k) /\ DOMAIN history = {"last", "series", "coded", "done"}
  BY DEF CodeInv, HistoryInv
<1>2. DOMAIN x = DOMAIN Context(<<>>)
  BY <1>1 DEF ContextInv, ContextShape
<1>3. CASE Flush(k)
  <2> DEFINE y == [x EXCEPT !.pc = "connect", !.flags = {Head(x.steps).kind}, !.attempt = 1,
                            !.spent = FALSE]
  <2>1. /\ x.pc = "step" /\ Head(x.steps).op = "command"
        /\ cl' = [cl EXCEPT ![k] = y] /\ history' = history
    BY <1>3 DEF Flush, Update
  <2>2. Plain(x.steps)
    <3>1. x.steps[1].op = "command" /\ StepsLeft(k)
      BY <1>1, <2>1, FirstStep DEF ContextInv
    <3> QED BY <3>1 DEF StepsLeft, Registers
  <2>3. /\ DOMAIN y = DOMAIN x /\ y.calls = x.calls /\ y.steps = x.steps /\ y.code = x.code
        /\ y.series = x.series /\ y.old = x.old /\ y.event = x.event /\ y.pc \in Busy
    BY <1>2 DEF Context, Busy
  <2> HIDE DEF y
  <2> QED BY <2>1, <2>2, <2>3, MoveKept
<1>4. ASSUME NEW y, cl' = [cl EXCEPT ![k] = y], history' = history, x.pc \in Busy, y.pc \in Busy,
             /\ DOMAIN y = DOMAIN x /\ y.calls = x.calls /\ y.steps = x.steps /\ y.code = x.code
             /\ y.series = x.series /\ y.old = x.old /\ y.event = x.event
      PROVE  CodeInv'
  BY <1>4, MoveKept
<1>5. CASE Connect(k)
  <2>1. PICK c : /\ x.pc = "connect" /\ history' = history
                 /\ \/ cl' = [cl EXCEPT ![k] = [x EXCEPT !.pc = "write"]]
                    \/ cl' = [cl EXCEPT ![k] = [x EXCEPT !.pc = "write", !.conn = c]]
    BY <1>5 DEF Connect, Update
  <2>2. CASE cl' = [cl EXCEPT ![k] = [x EXCEPT !.pc = "write"]]
    BY <1>2, <1>4, <2>1, <2>2 DEF Context, Busy
  <2>3. CASE cl' = [cl EXCEPT ![k] = [x EXCEPT !.pc = "write", !.conn = c]]
    BY <1>2, <1>4, <2>1, <2>3 DEF Context, Busy
  <2> QED BY <2>1, <2>2, <2>3
<1>6. CASE WriteMsg(k)
  <2>1. x.pc = "write" /\ history' = history /\ cl' = [cl EXCEPT ![k] = [x EXCEPT !.pc = "read"]]
    BY <1>6 DEF WriteMsg, Update
  <2> QED BY <1>2, <1>4, <2>1 DEF Context, Busy
<1>7. CASE ConnectServers(k)
  <2>1. /\ x.pc = "servers" /\ history' = history
        /\ cl' = [cl EXCEPT ![k] = [x EXCEPT !.pc = "submit", !.waiting = x.flags \cap Dests,
                                              !.replies = NoReplies]]
    BY <1>7 DEF ConnectServers, Update
  <2> QED BY <1>2, <1>4, <2>1 DEF Context, Busy
<1>8. CASE Submit(k)
  <2>1. x.pc = "submit" /\ history' = history /\ cl' = [cl EXCEPT ![k] = [x EXCEPT !.pc = "answers"]]
    BY <1>8 DEF Submit, Update
  <2> QED BY <1>2, <1>4, <2>1 DEF Context, Busy
<1>9. CASE WriteFile(k)
  <2>1. x.pc = "file" /\ history' = history /\ cl' = [cl EXCEPT ![k] = [x EXCEPT !.pc = "filed"]]
    BY <1>9 DEF WriteFile, Update
  <2> QED BY <1>2, <1>4, <2>1 DEF Context, Busy
<1>10. CASE Return(k)
  <2> DEFINE y == [x EXCEPT !.pc = "idle"]
  <2>1. /\ x.pc = "return" /\ cl' = [cl EXCEPT ![k] = y]
        /\ history' = [history EXCEPT !.done = history'.done]
    BY <1>1, <1>10 DEF Return, Update
  <2>2. /\ DOMAIN y = DOMAIN x /\ y.calls = x.calls /\ y.steps = x.steps /\ y.code = x.code
        /\ y.series = x.series /\ y.old = x.old /\ y.event = x.event /\ y.pc = "idle"
    BY <1>2 DEF Context
  <2> HIDE DEF y
  <2> QED BY <2>1, <2>2, MoveKept
<1> QED BY <1>3, <1>5, <1>6, <1>7, <1>8, <1>9, <1>10

\* The transfer ends with an error or without.
Ends(k, err) ==
  cl[k].pc \in Busy /\ UNCHANGED history /\ cl' = [cl EXCEPT ![k] = Logged(cl[k], err)]

LEMMA FinishesKept ==
  ASSUME CodeInv, NEW k \in Clients,
         ConnectFails(k) \/ ReadAnswer(k) \/ ReadEof(k) \/ ReadTimeout(k) \/ ConnectServersFails(k)
           \/ SubmitFails(k) \/ ReadReplies(k) \/ NoReply(k) \/ Notify(k)
  PROVE  CodeInv'
<1> DEFINE x == cl[k]
<1>1. ContextInv(k)
  BY DEF CodeInv
<1>2. DOMAIN x = DOMAIN Context(<<>>)
  BY <1>1 DEF ContextInv, ContextShape
<1>3. ASSUME NEW err, Ends(k, err) PROVE CodeInv'
  BY <1>3, FinishKept DEF Ends
<1>4. CASE ConnectFails(k)
  <2>1. Ends(k, "IL_PROTO")
    BY <1>4 DEF ConnectFails, Update, Busy, Ends
  <2> QED BY <1>3, <2>1
<1>5. CASE ReadAnswer(k)
  <2>1. Ends(k, Head(net[x.conn].down))
    BY <1>5 DEF ReadAnswer, Update, Busy, Ends
  <2> QED BY <1>3, <2>1
<1>6. CASE ConnectServersFails(k) \/ SubmitFails(k) \/ NoReply(k)
  <2>1. Ends(k, "EAGAIN")
    BY <1>6 DEF ConnectServersFails, SubmitFails, NoReply, Update, Busy, Ends
  <2> QED BY <1>3, <2>1
<1>7. CASE Notify(k)
  <2>1. \E err : Ends(k, err)
    BY <1>7 DEF Notify, Update, Busy, Ends
  <2> QED BY <1>3, <2>1
<1>8. ASSUME NEW b, x.pc = "read", UNCHANGED history, cl' = [cl EXCEPT ![k] = Again(x, b)]
       PROVE  CodeInv'
  <2>1. CASE x.attempt = 1
    <3> DEFINE y == [x EXCEPT !.pc = "connect", !.attempt = 2, !.conn = NoConn, !.spent = b]
    <3>1. cl' = [cl EXCEPT ![k] = y]
      BY <1>8, <2>1 DEF Again
    <3>2. /\ DOMAIN y = DOMAIN x /\ y.calls = x.calls /\ y.steps = x.steps /\ y.code = x.code
          /\ y.series = x.series /\ y.old = x.old /\ y.event = x.event
          /\ x.pc \in Busy /\ y.pc \in Busy
      BY <1>2, <1>8 DEF Context, Busy
    <3> HIDE DEF y
    <3> QED BY <1>8, <3>1, <3>2, MoveKept
  <2>2. CASE x.attempt # 1
    <3> DEFINE z == [x EXCEPT !.conn = NoConn]
    <3>1. cl' = [cl EXCEPT ![k] = Logged(z, "ENOTCONN")]
      BY <1>8, <2>2 DEF Again
    <3>2. /\ DOMAIN z = DOMAIN x /\ z.calls = x.calls /\ z.steps = x.steps /\ z.code = x.code
          /\ z.series = x.series /\ z.old = x.old /\ z.event = x.event
          /\ x.pc \in Busy
      BY <1>2, <1>8 DEF Context, Busy
    <3> HIDE DEF z
    <3>3. /\ cl[k].pc \in Busy /\ UNCHANGED history
          /\ DOMAIN z = DOMAIN cl[k] /\ z.calls = cl[k].calls /\ z.steps = cl[k].steps
          /\ z.code = cl[k].code /\ z.series = cl[k].series /\ z.old = cl[k].old
          /\ z.event = cl[k].event
      BY <1>8, <3>2
    <3>4. CodeInv /\ k \in Clients
      OBVIOUS
    <3> QED BY ONLY <3>1, <3>3, <3>4, FinishKept
  <2> QED BY <2>1, <2>2
<1>9. CASE ReadEof(k) \/ ReadTimeout(k)
  BY <1>8, <1>9 DEF ReadEof, ReadTimeout, Update
<1>10. CASE ReadReplies(k)
  <2>1. /\ x.pc = "answers" /\ UNCHANGED history
        /\ \/ \E r : Ends(k, r)
           \/ \E r, left : cl' = [cl EXCEPT ![k] = [x EXCEPT !.err = r, !.waiting = left]]
    BY <1>10 DEF ReadReplies, Update, Ends, Busy
  <2>2. ASSUME NEW r, Ends(k, r) PROVE CodeInv'
    BY <1>3, <2>2
  <2>3. ASSUME NEW r, NEW left, cl' = [cl EXCEPT ![k] = [x EXCEPT !.err = r, !.waiting = left]]
        PROVE  CodeInv'
    <3> DEFINE y == [x EXCEPT !.err = r, !.waiting = left]
    <3>1. cl' = [cl EXCEPT ![k] = y]
      BY <2>3
    <3>2. /\ DOMAIN y = DOMAIN x /\ y.calls = x.calls /\ y.steps = x.steps /\ y.code = x.code
          /\ y.series = x.series /\ y.old = x.old /\ y.event = x.event /\ y.pc = x.pc
      BY <1>2 DEF Context
    <3> HIDE DEF y
    <3> QED BY <2>1, <3>1, <3>2, MoveKept
  <2> QED BY <2>1, <2>2, <2>3
<1> QED BY <1>4, <1>5, <1>6, <1>7, <1>9, <1>10

\* The proxy's or the server's answer to a context.
LEMMA RepliedKept ==
  ASSUME CodeInv, NEW d, NEW a, Replied(d, a), UNCHANGED history
  PROVE  CodeInv'
<1>1. DOMAIN cl = Clients /\ HistoryInv /\ UniqueCodes
  BY DEF CodeInv
<1> DEFINE c == Head(server[d].inbox).client
           y == [cl[c] EXCEPT !.replies[d] = a]
<1>2. UNCHANGED cl \/ cl' = [cl EXCEPT ![c] = y]
  BY DEF Replied, Update
<1>3. CASE UNCHANGED cl
  BY <1>3 DEF CodeInv, HistoryInv, UniqueCodes, ContextInv, ContextShape, CodesBelow, StepsLeft, OldBelow
<1>4. CASE cl' = [cl EXCEPT ![c] = y] /\ c \notin Clients
  <2>1. DOMAIN cl' = Clients /\ \A j \in Clients : cl'[j] = cl[j]
    BY <1>1, <1>4
  <2>2. HistoryInv' /\ UniqueCodes'
    BY <1>1 DEF HistoryInv, UniqueCodes
  <2>3. ASSUME NEW j \in Clients PROVE ContextInv(j)'
    <3>1. cl'[j] = cl[j] /\ ContextInv(j)
      BY <2>1 DEF CodeInv
    <3> QED BY <3>1 DEF ContextInv, ContextShape, CodesBelow, StepsLeft, OldBelow
  <2> QED BY <2>1, <2>2, <2>3 DEF CodeInv
<1>5. CASE cl' = [cl EXCEPT ![c] = y] /\ c \in Clients
  <2>1. DOMAIN cl[c] = DOMAIN Context(<<>>)
    BY <1>5 DEF CodeInv, ContextInv, ContextShape
  <2> DEFINE x == cl[c]
  <2>2. /\ DOMAIN y = DOMAIN x /\ y.calls = x.calls /\ y.steps = x.steps /\ y.code = x.code
        /\ y.series = x.series /\ y.old = x.old /\ y.event = x.event /\ y.pc = x.pc
    BY <2>1 DEF Context
  <2> HIDE DEF y, c
  <2> QED BY <1>5, <2>2, MoveKept
<1> QED BY <1>2, <1>3, <1>4, <1>5

-----------------------------------------------------------------------------
LEMMA CodeInitial ==
  ASSUME Init
  PROVE  CodeInv
<1>1. PICK s : /\ cl = [k \in Clients |-> Context(s.calls[k])]
               /\ history = [last |-> 0, series |-> 0, coded |-> {}, done |-> {}]
               /\ s \in Scenarios \/ s = NoCalls
  BY DEF Init, ProducerInit
<1>2. ASSUME NEW k \in Clients PROVE CallsShape(s.calls[k])
  <2>1. CASE s \in Scenarios
    BY <2>1, ProducerAssumption DEF CallsShape, IsSeq
  <2>2. CASE s = NoCalls
    <3>1. s.calls[k] = <<>>
      BY <2>2 DEF NoCalls
    <3>2. IsSeq(<<>>) /\ Len(<<>>) = 0
      BY EmptySeq DEF IsSeq
    <3> QED BY <3>1, <3>2 DEF CallsShape
  <2> QED BY <1>1, <2>1, <2>2
<1>3. HistoryInv /\ UniqueCodes
  BY <1>1 DEF HistoryInv, UniqueCodes
<1>4. ASSUME NEW k \in Clients PROVE ContextInv(k)
  <2>1. cl[k] = Context(s.calls[k])
    BY <1>1
  <2>2. ContextShape(cl[k])
    BY <1>1, <1>2, <2>1 DEF ContextShape, Context, Busy
  <2>3. CodesBelow(k) /\ cl[k].pc \notin {"step"} \cup Busy
    BY <1>1, <2>1 DEF CodesBelow, Context, Busy
  <2> QED BY <2>2, <2>3 DEF ContextInv
<1> QED BY <1>1, <1>3, <1>4 DEF CodeInv

LEMMA CodeInductive ==
  ASSUME CodeInv, [Next]_<<vars, listVars>>
  PROVE  CodeInv'
<1>1. CASE UNCHANGED <<cl, history>>
  BY <1>1 DEF CodeInv, HistoryInv, UniqueCodes, ContextInv, ContextShape, CodesBelow, StepsLeft, OldBelow
<1>2. ASSUME NEW k \in Clients, ClientStep(k) \/ ClientFault(k) PROVE CodeInv'
  BY <1>2, CallKept, SetKept, RestoreKept, FormatKept, FormatFailsKept, MovesKept, FinishesKept
     DEF ClientStep, ClientFault
<1>3. ASSUME NEW d \in Dests, Store(d) \/ Reject(d) PROVE CodeInv'
  BY <1>3, RepliedKept DEF Store, Reject
<1>4. CASE ProducerNext
  BY <1>1, <1>2, <1>3, <1>4 DEF ProducerNext, Logger
<1> QED BY <1>1, <1>4 DEF Next, vars

\* A sequence code stands for one event, whatever calls a program makes,
\* whichever of them fail and whenever the old code is restored: a code is
\* used up with the event that was formatted with it (edg_wll_LogEventMasterVa,
\* edg_wll_RegisterSubjobsMaster).
THEOREM CodeIdentifiesEvent == Spec => []OneEventPerCode
<1>1. Init => CodeInv
  BY CodeInitial
<1>2. CodeInv /\ [Next]_<<vars, listVars>> => CodeInv'
  BY CodeInductive
<1>3. CodeInv => OneEventPerCode
  BY DEF CodeInv, UniqueCodes, OneEventPerCode
<1> QED BY <1>1, <1>2, <1>3, PTL DEF Spec

-----------------------------------------------------------------------------
(* The inter-logger's list of stores: the inductive invariant.              *)

StoreFields == {"job", "file", "committed", "offset", "live", "jobid_next"}

\* The stores st that are live are those of the list sl, one for a file; they
\* are linked in rings.
Listed(st, sl) ==
  /\ IsSeq(st) /\ IsSeq(sl)
  /\ \A k \in 1..Len(sl) : sl[k] \in 1..Len(st)
  /\ \A k, l \in 1..Len(sl) : sl[k] = sl[l] => k = l
  /\ \A s \in 1..Len(st) :
       /\ DOMAIN st[s] = StoreFields /\ st[s].committed \in Nat /\ st[s].offset \in Nat
       /\ st[s].live <=> \E k \in 1..Len(sl) : sl[k] = s
       /\ st[s].live =>
            /\ IsName(st[s].file) /\ st[s].job = st[s].file[1]
            /\ st[s].jobid_next \in 1..Len(st) /\ st[st[s].jobid_next].live
  /\ \A s, t \in 1..Len(st) : st[s].live /\ st[t].live =>
       /\ st[s].jobid_next = st[t].jobid_next => s = t
       /\ st[s].file = st[t].file => s = t

\* The files d, with the positions c in them: what is before them is in the set
\* S of the events the server has got.
Positioned(d, c, S) ==
  /\ \A n \in DOMAIN d : IsName(n) /\ IsSeq(d[n])
  /\ \A n \in DOMAIN c :
       /\ IsName(n) /\ c[n] \in Nat
       /\ n \in DOMAIN d => c[n] <= Len(d[n]) /\ \A i \in 1..c[n] : d[n][i] \in S
       /\ n \notin DOMAIN d => n[2] = 0

\* A live store is somewhere in its file; without a file, nowhere yet.
StoreAt(es, d, S) ==
  /\ es.file \in DOMAIN d =>
       /\ es.committed <= Len(d[es.file]) /\ es.offset <= Len(d[es.file])
       /\ es.offset > 0 => es.committed <= es.offset
       /\ \A i \in 1..es.committed : d[es.file][i] \in S
  /\ es.file \notin DOMAIN d => es.committed = 0 /\ es.offset = 0 /\ es.file[2] = 0

\* The queue q holds, in order, what the stores have read and not committed;
\* pos is where its events are in their files.
Queued(q, pos, st, d) ==
  /\ \A k \in 1..Len(q) :
       LET es == st[q[k].s]
       IN /\ q[k].s \in 1..Len(st) /\ es.live /\ es.file \in DOMAIN d
          /\ pos[k] \in Nat /\ es.committed < pos[k] /\ pos[k] <= es.offset
          /\ q[k].e = d[es.file][pos[k]]
  /\ \A k, l \in 1..Len(q) : q[k].s = q[l].s /\ k < l => pos[k] < pos[l]
  /\ \A s \in 1..Len(st) : st[s].live =>
       \A i \in Nat : st[s].committed < i /\ i <= st[s].offset => \E k \in 1..Len(q) : q[k].s = s /\ pos[k] = i

InOrder(q, st, d) == \E pos \in [1..Len(q) -> Nat] : Queued(q, pos, st, d)

\* Every event is still to come, in a file, or with the server.
Somewhere(d, S, in) ==
  /\ DOMAIN in = {"log", "get", "crash", "renew", "connect", "total"} /\ IsSeq(in.log) /\ in.total \in Nat
  /\ \A e \in 1..in.total :
       e \in S \/ e <= Len(in.log) \/ \E n \in DOMAIN d : \E i \in 1..Len(d[n]) : d[n][i] = e

\* What the threads t hold of the stores, and of the list and its lock l.
ThreadFields == {"pc", "es", "p", "rest", "kept", "skipped", "todo", "alone"}
Live(st, s) == s \in 1..Len(st) /\ st[s].live

\* A cleanup v has come to the last part of the list.
Halfway(v, sl) ==
  /\ IsSeq(v.kept) /\ IsSeq(v.skipped) /\ IsSeq(v.rest)
  /\ sl = (v.kept \o v.skipped) \o v.rest

Holding(t, l, st, sl) ==
  /\ DOMAIN t = {"main", "recovery"} /\ \A x \in DOMAIN t : DOMAIN t[x] = ThreadFields
  /\ t["main"].pc \in {"idle", "read", "step", "all"}
  /\ t["recovery"].pc \in {"asleep", "begin", "scan", "stale", "all", "clean", "cleaning", "watch"}
  /\ t["main"].pc \in {"read", "step"} => Live(st, t["main"].es) /\ t["main"].p \in 1..Len(st)
  /\ t["main"].pc = "read" => st[t["main"].p].live
  /\ DOMAIN l = {"readers", "writer"} /\ l.readers = {x \in {"main", "recovery"} : t[x].pc = "all"}
  /\ \A x \in DOMAIN t : t[x].pc = "all" => IsSeq(t[x].rest) /\ \A k \in 1..Len(t[x].rest) : Live(st, t[x].rest[k])
  /\ t["recovery"].pc = "scan" => \A n \in t["recovery"].todo : IsName(n)
  /\ l.writer = IF t["recovery"].pc = "cleaning" THEN "recovery" ELSE ""
  /\ t["recovery"].pc = "cleaning" => l.readers = {} /\ Halfway(t["recovery"], sl)

ListInv ==
  exposed = {} =>
    /\ Listed(stores, store_list)
    /\ Positioned(dir, ctl, sent)
    /\ \A s \in 1..Len(stores) : stores[s].live => StoreAt(stores[s], dir, sent)
    /\ IsSeq(out) /\ InOrder(out, stores, dir)
    /\ Somewhere(dir, sent, input)
    /\ Holding(th, list_lock, stores, store_list)

\* The handles of the credentials, with as many users as are counted.
Holders(c, h) == {q \in Senders : c.held[q] = h}

Counted(c) ==
  /\ DOMAIN c = {"cur", "handles", "held"} /\ IsSeq(c.handles)
  /\ c.cur \in 1..Len(c.handles) /\ c.held \in [Senders -> 0..Len(c.handles)]
  /\ \A h \in 1..Len(c.handles) :
       c.handles[h] = [counter |-> Cardinality(Holders(c, h)),
                       released |-> IF h = c.cur \/ Holders(c, h) # {} THEN 0 ELSE 1]

CredInv == Counted(creds)

-----------------------------------------------------------------------------
(* What the invariant says.                                                 *)

LEMMA ListedRange ==
  ASSUME NEW st, NEW sl, Listed(st, sl)
  PROVE  /\ DOMAIN st = 1..Len(st) /\ DOMAIN sl = 1..Len(sl) /\ Len(st) \in Nat /\ Len(sl) \in Nat
         /\ \A s \in 1..Len(st) : st[s].live <=> s \in Range(sl)
         /\ \A k \in 1..Len(sl) : st[sl[k]].live
<1>1. DOMAIN st = 1..Len(st) /\ DOMAIN sl = 1..Len(sl) /\ Len(st) \in Nat /\ Len(sl) \in Nat
  BY IsSeqLen DEF Listed
<1>2. \A s : s \in Range(sl) <=> \E k \in 1..Len(sl) : sl[k] = s
  BY <1>1 DEF Range
<1> QED BY <1>1, <1>2 DEF Listed

LEMMA ListRotation == ListInv => RotationSafe
<1> SUFFICES ASSUME ListInv, exposed = {} PROVE RotationSafe
  BY DEF RotationSafe
<1>1. Positioned(dir, ctl, sent) /\ Somewhere(dir, sent, input)
  BY DEF ListInv
<1>2. \A n \in DOMAIN dir : DOMAIN dir[n] = 1..Len(dir[n]) /\ Len(dir[n]) \in Nat
  BY <1>1, IsSeqLen DEF Positioned
<1>3. ASSUME NEW n \in DOMAIN dir, NEW i \in 1..Len(dir[n])
      PROVE  dir[n][i] \in InFiles
  BY <1>2 DEF InFiles, Range
<1>4. ASSUME NEW e \in 1..input.total PROVE e \in sent \cup InFiles \/ e <= Len(input.log)
  BY <1>1, <1>3 DEF Somewhere
<1>5. ASSUME NEW n \in DOMAIN dir \cap DOMAIN ctl, NEW i \in 1..Len(dir[n]), i <= ctl[n]
      PROVE  dir[n][i] \in sent
  BY <1>1, <1>2, <1>5 DEF Positioned
<1> QED BY <1>4, <1>5 DEF RotationSafe

LEMMA ListInUse == ListInv /\ CredInv => InUseKept
<1> SUFFICES ASSUME ListInv, CredInv PROVE InUseKept
  OBVIOUS
<1>1. ASSUME exposed = {}
      PROVE  /\ \A k \in DOMAIN out : stores[out[k].s].live
             /\ \A s \in DOMAIN stores : InUse(s) => stores[s].live /\ s \in Range(store_list)
             /\ \A k \in DOMAIN store_list : stores[store_list[k]].live
             /\ \A k, l \in DOMAIN store_list :
                  stores[store_list[k]].file = stores[store_list[l]].file => k = l
  <2>1. /\ Listed(stores, store_list) /\ Holding(th, list_lock, stores, store_list)
        /\ IsSeq(out) /\ InOrder(out, stores, dir)
    BY <1>1 DEF ListInv
  <2>2. \A k \in DOMAIN out : stores[out[k].s].live
    BY <2>1, IsSeqLen DEF InOrder, Queued
  <2>3. /\ DOMAIN stores = 1..Len(stores) /\ DOMAIN store_list = 1..Len(store_list)
        /\ \A s \in 1..Len(stores) : stores[s].live <=> s \in Range(store_list)
        /\ \A k \in 1..Len(store_list) : stores[store_list[k]].live
    BY <2>1, ListedRange
  <2>4. \A s \in DOMAIN stores : InUse(s) => stores[s].live
    BY <2>1 DEF Holding, InUse, Live
  <2>5. \A k, l \in DOMAIN store_list : stores[store_list[k]].file = stores[store_list[l]].file => k = l
    BY <2>1, <2>3 DEF Listed
  <2> QED BY <2>2, <2>3, <2>4, <2>5
<1>2. DOMAIN creds.handles = 1..Len(creds.handles)
  BY IsSeqLen DEF CredInv, Counted
<1>3. \A h \in DOMAIN creds.handles : Holders(creds, h) # {} <=> \E q \in Senders : creds.held[q] = h
  BY DEF Holders
<1>4. ASSUME NEW h \in DOMAIN creds.handles
      PROVE  creds.handles[h].released = IF h = creds.cur \/ Holders(creds, h) # {} THEN 0 ELSE 1
  <2> DEFINE n == Cardinality(Holders(creds, h))
             r == IF h = creds.cur \/ Holders(creds, h) # {} THEN 0 ELSE 1
  <2>1. creds.handles[h] = [counter |-> n, released |-> r]
    BY <1>2 DEF CredInv, Counted
  <2> HIDE DEF n, r
  <2>2. creds.handles[h].released = r
    BY <2>1
  <2> QED BY <2>2 DEF r
<1>5. \A q \in Senders : creds.held[q] # 0 => creds.held[q] \in DOMAIN creds.handles
  BY <1>2 DEF CredInv, Counted
<1>6. \A q \in Senders : creds.held[q] # 0 => creds.handles[creds.held[q]].released = 0
  BY <1>3, <1>4, <1>5
<1> QED BY <1>1, <1>3, <1>4, <1>6 DEF InUseKept

-----------------------------------------------------------------------------
(* The credentials.                                                         *)

LEMMA HoldersFinite ==
  ASSUME NEW c, NEW h
  PROVE  IsFiniteSet(Holders(c, h)) /\ Cardinality(Holders(c, h)) \in Nat
         /\ (Cardinality(Holders(c, h)) = 0 <=> Holders(c, h) = {})
<1>1. Holders(c, h) \subseteq Senders
  BY DEF Holders
<1>2. IsFiniteSet(Holders(c, h))
  BY <1>1, FS_Subset, ListAssumption
<1> QED BY <1>2, FS_CardinalityType, FS_EmptySet

LEMMA CredStarted ==
  ASSUME NEW c, c = NoCreds
  PROVE  Counted(c)
<1> DEFINE x == [counter |-> 0, released |-> 0]
<1>1. DOMAIN c = {"cur", "handles", "held"} /\ c.cur = 1 /\ c.handles = <<x>>
      /\ c.held = [q \in Senders |-> 0]
  BY DEF NoCreds
<1> HIDE DEF x
<1>2. IsSeq(<<x>>) /\ Len(<<x>>) = 1 /\ <<x>>[1] = x
  BY OneIsSeq
<1>3. Holders(c, 1) = {}
  BY <1>1 DEF Holders
<1>4. Cardinality(Holders(c, 1)) = 0
  BY <1>3, HoldersFinite
<1>5. \A h \in 1..Len(c.handles) : h = 1
  BY <1>1, <1>2
<1> QED BY <1>1, <1>2, <1>3, <1>4, <1>5 DEF Counted, x

LEMMA CredNew ==
  ASSUME CredInv, NewCreds
  PROVE  CredInv'
<1> DEFINE old == creds.cur
           rest == IF creds.handles[old].counter = 0 THEN Released(creds.handles, old) ELSE creds.handles
           x == [counter |-> 0, released |-> 0]
           new == Len(rest) + 1
           N == Len(creds.handles)
<1>1. /\ DOMAIN creds = {"cur", "handles", "held"} /\ IsSeq(creds.handles) /\ N \in Nat /\ DOMAIN creds.handles = 1..N
      /\ old \in 1..N /\ creds.held \in [Senders -> 0..N]
      /\ \A h \in 1..N : creds.handles[h] = [counter |-> Cardinality(Holders(creds, h)),
                           released |-> IF h = old \/ Holders(creds, h) # {} THEN 0 ELSE 1]
  BY IsSeqLen DEF CredInv, Counted
<1>2. creds' = [creds EXCEPT !.cur = new, !.handles = Append(rest, x)]
  BY DEF NewCreds
<1>3. creds.handles[old] = [counter |-> Cardinality(Holders(creds, old)), released |-> 0]
  BY <1>1
<1>4. /\ IsSeq(rest) /\ Len(rest) = N
      /\ \A h \in 1..N : rest[h] = [counter |-> Cardinality(Holders(creds, h)),
                                    released |-> IF Holders(creds, h) # {} THEN 0 ELSE 1]
  <2>1. CASE Holders(creds, old) # {}
    <3>1. rest = creds.handles
      BY <1>3, <2>1, HoldersFinite
    <3> QED BY <1>1, <2>1, <3>1
  <2>2. CASE Holders(creds, old) = {}
    <3>1. creds.handles[old].counter = 0
      BY <1>3, <2>2, HoldersFinite
    <3> DEFINE y == [counter |-> Cardinality(Holders(creds, old)), released |-> 1]
    <3>2. rest = Updated(creds.handles, old, y)
      BY <1>1, <1>3, <3>1 DEF Released, Updated
    <3> HIDE DEF y, rest
    <3>3. /\ IsSeq(rest) /\ Len(rest) = N /\ \A h \in 1..N : rest[h] = IF h = old THEN y ELSE creds.handles[h]
      BY <1>1, <3>2, IsSeqUpdated
    <3> QED BY <1>1, <2>2, <3>3 DEF y
  <2> QED BY <2>1, <2>2
<1> HIDE DEF rest, x
<1>5. /\ DOMAIN creds' = DOMAIN creds /\ creds'.cur = new /\ creds'.handles = Append(rest, x)
      /\ creds'.held = creds.held
  BY <1>1, <1>2
<1>6. \A h : Holders(creds', h) = Holders(creds, h)
  BY <1>5 DEF Holders
<1>7. /\ IsSeq(creds'.handles) /\ Len(creds'.handles) = N + 1 /\ creds'.handles[N + 1] = x
      /\ \A h \in 1..N : creds'.handles[h] = rest[h]
  BY <1>4, <1>5, IsSeqAppend
<1>8. Holders(creds, N + 1) = {}
  BY <1>1 DEF Holders
<1>9. creds'.cur \in 1..N + 1 /\ creds'.held \in [Senders -> 0..N + 1] /\ creds'.cur = N + 1
  BY <1>1, <1>4, <1>5
<1>10. ASSUME NEW h \in 1..N + 1
       PROVE  creds'.handles[h] = [counter |-> Cardinality(Holders(creds', h)),
                                   released |-> IF h = creds'.cur \/ Holders(creds', h) # {} THEN 0 ELSE 1]
  <2>1. CASE h = N + 1
    <3>1. Holders(creds', h) = {} /\ Cardinality(Holders(creds', h)) = 0
      BY <1>6, <1>8, <2>1, HoldersFinite
    <3> QED BY <1>7, <1>9, <2>1, <3>1 DEF x
  <2>2. CASE h # N + 1
    <3>1. h \in 1..N /\ h # creds'.cur
      BY <1>1, <1>9, <2>2
    <3> QED BY <1>4, <1>6, <1>7, <3>1
  <2> QED BY <2>1, <2>2
<1> QED BY <1>1, <1>5, <1>7, <1>9, <1>10 DEF CredInv, Counted

\* A sender begins to use a handle, and ends.
LEMMA CredBegin ==
  ASSUME CredInv, NEW q \in Senders, ConnectBegin(q)
  PROVE  CredInv'
<1> DEFINE h == creds.cur
           N == Len(creds.handles)
           H(i) == Holders(creds, i)
           x == [counter |-> Cardinality(H(h)) + 1, released |-> 0]
<1>1. /\ DOMAIN creds = {"cur", "handles", "held"} /\ IsSeq(creds.handles) /\ N \in Nat /\ DOMAIN creds.handles = 1..N
      /\ h \in 1..N /\ creds.held \in [Senders -> 0..N] /\ creds.held[q] = 0
      /\ \A i \in 1..N : creds.handles[i] = [counter |-> Cardinality(Holders(creds, i)),
                           released |-> IF i = h \/ Holders(creds, i) # {} THEN 0 ELSE 1]
  BY IsSeqLen DEF CredInv, Counted, ConnectBegin
<1>2. creds' = [creds EXCEPT !.held[q] = creds.cur, !.handles[creds.cur].counter = @ + 1]
  BY DEF ConnectBegin
<1>3. creds.handles[h] = [counter |-> Cardinality(H(h)), released |-> 0]
  BY <1>1
<1>4. /\ DOMAIN creds' = DOMAIN creds /\ creds'.cur = h /\ creds'.handles = Updated(creds.handles, h, x)
      /\ creds'.held = [creds.held EXCEPT ![q] = h]
  BY <1>1, <1>2, <1>3 DEF Updated
<1>5. H(h) # {} => Cardinality(H(h)) \in Nat
  BY HoldersFinite
<1> HIDE DEF x, h
<1>6. /\ IsSeq(creds'.handles) /\ Len(creds'.handles) = N
      /\ \A i \in 1..N : creds'.handles[i] = IF i = h THEN x ELSE creds.handles[i]
  BY <1>1, <1>4, IsSeqUpdated
<1>7. creds'.held \in [Senders -> 0..N] /\ creds'.held[q] = h /\ \A r \in Senders \ {q} : creds'.held[r] = creds.held[r]
  BY <1>1, <1>4
<1>8. Holders(creds', h) = H(h) \cup {q} /\ q \notin H(h)
  BY <1>1, <1>7 DEF Holders
<1>9. \A i \in 1..N \ {h} : Holders(creds', i) = H(i)
  BY <1>1, <1>7 DEF Holders
<1>10. IsFiniteSet(H(h))
  BY HoldersFinite
<1> HIDE DEF H
<1>11. Cardinality(Holders(creds', h)) = Cardinality(H(h)) + 1
  BY <1>8, <1>10, FS_AddElement
<1>12. ASSUME NEW i \in 1..N
       PROVE  creds'.handles[i] = [counter |-> Cardinality(Holders(creds', i)),
                                   released |-> IF i = creds'.cur \/ Holders(creds', i) # {} THEN 0 ELSE 1]
  BY <1>1, <1>4, <1>6, <1>9, <1>11 DEF x, H
<1> QED BY <1>1, <1>4, <1>6, <1>7, <1>12 DEF CredInv, Counted

LEMMA CredEnd ==
  ASSUME CredInv, NEW q \in Senders, ConnectEnd(q)
  PROVE  CredInv'
<1> DEFINE h == creds.held[q]
           N == Len(creds.handles)
           H(i) == Holders(creds, i)
           left == [creds.handles EXCEPT ![h].counter = @ - 1]
           handles == IF h # creds.cur /\ left[h].counter = 0 THEN Released(left, h) ELSE left
           n == Cardinality(H(h))
           R == IF h # creds.cur /\ n = 1 THEN 1 ELSE 0
           x == [counter |-> n - 1, released |-> R]
<1>1. /\ DOMAIN creds = {"cur", "handles", "held"} /\ IsSeq(creds.handles) /\ N \in Nat /\ DOMAIN creds.handles = 1..N
      /\ h \in 0..N /\ creds.held \in [Senders -> 0..N] /\ creds.cur \in 1..N /\ h # 0
      /\ \A i \in 1..N : creds.handles[i] = [counter |-> Cardinality(Holders(creds, i)),
                           released |-> IF i = creds.cur \/ Holders(creds, i) # {} THEN 0 ELSE 1]
  BY IsSeqLen DEF CredInv, Counted, ConnectEnd
<1>2. h \in 1..N /\ q \in H(h) /\ n \in Nat /\ n # 0
  <2>1. h \in 1..N
    BY <1>1
  <2>2. q \in H(h)
    BY DEF Holders
  <2>3. n \in Nat /\ (n = 0 <=> H(h) = {})
    BY HoldersFinite
  <2> QED BY <2>1, <2>2, <2>3
<1>3. creds.handles[h] = [counter |-> n, released |-> 0]
  BY <1>1, <1>2
<1>4. creds' = [creds EXCEPT !.held[q] = 0, !.handles = handles]
  BY DEF ConnectEnd
<1>5. handles = Updated(creds.handles, h, x)
  <2>1. left = [creds.handles EXCEPT ![h] = [counter |-> n - 1, released |-> 0]]
    BY <1>3, <1>1, <1>2
  <2>2. left[h] = [counter |-> n - 1, released |-> 0]
    BY <1>1, <1>2, <2>1
  <2> HIDE DEF left, n, h
  <2>3. CASE h # creds.cur /\ n = 1
    <3>1. handles = [left EXCEPT ![h] = [counter |-> n - 1, released |-> 1]]
      BY <1>1, <1>2, <2>1, <2>2, <2>3 DEF Released
    <3> QED BY <1>1, <1>2, <2>1, <2>3, <3>1 DEF Updated
  <2>4. CASE ~(h # creds.cur /\ n = 1)
    <3>1. handles = left
      BY <1>2, <2>2, <2>4
    <3> QED BY <1>1, <1>2, <2>1, <2>4, <3>1 DEF Updated
  <2> QED BY <2>3, <2>4
<1> HIDE DEF handles
<1>6. /\ DOMAIN creds' = DOMAIN creds /\ creds'.cur = creds.cur /\ creds'.handles = handles
      /\ creds'.held = [creds.held EXCEPT ![q] = 0]
  BY <1>1, <1>4
<1>7. creds'.held \in [Senders -> 0..N] /\ creds'.held[q] = 0 /\ \A r \in Senders \ {q} : creds'.held[r] = creds.held[r]
  BY <1>1, <1>6
<1>8. Holders(creds', h) = H(h) \ {q}
  BY <1>1, <1>7 DEF Holders
<1>9. \A i \in 1..N \ {h} : Holders(creds', i) = H(i)
  BY <1>1, <1>7, SMTT(30) DEF Holders
<1>10. IsFiniteSet(H(h)) /\ Cardinality(Holders(creds', h)) \in Nat
       /\ (Cardinality(Holders(creds', h)) = 0 <=> Holders(creds', h) = {})
  BY HoldersFinite
<1> HIDE DEF x, h, H
<1>11. Cardinality(Holders(creds', h)) = Cardinality(H(h)) - 1
  BY <1>2, <1>8, <1>10, FS_RemoveElement
<1>12. /\ IsSeq(creds'.handles) /\ Len(creds'.handles) = N
       /\ \A i \in 1..N : creds'.handles[i] = IF i = h THEN x ELSE creds.handles[i]
  BY <1>1, <1>2, <1>5, <1>6, IsSeqUpdated
<1>13. ASSUME NEW i \in 1..N
       PROVE  creds'.handles[i] = [counter |-> Cardinality(Holders(creds', i)),
                                   released |-> IF i = creds'.cur \/ Holders(creds', i) # {} THEN 0 ELSE 1]
  <2>1. CASE i = h
    <3>1. Holders(creds', h) = {} <=> n = 1
      BY <1>2, <1>10, <1>11
    <3> QED BY <1>6, <1>11, <1>12, <2>1, <3>1 DEF x
  <2>2. CASE i # h
    BY <1>1, <1>6, <1>9, <1>12, <2>2 DEF H
  <2> QED BY <2>1, <2>2
<1> QED BY <1>1, <1>6, <1>7, <1>12, <1>13 DEF CredInv, Counted

-----------------------------------------------------------------------------
(* Steps of the threads that leave files, stores and the queue alone.       *)

\* Nothing that was exposed is forgotten.
LEMMA ExposedKept ==
  ASSUME ListNext \/ UNCHANGED listVars
  PROVE  exposed' = {} => exposed = {}
<1> USE DEF Started, event_store_recover
<1>1. CASE UNCHANGED listVars
  BY <1>1 DEF listVars
<1>2. CASE LogLine \/ SendNext \/ LoopEnds \/ ProcessDies
  BY <1>2 DEF LogLine, SendNext, LoopEnds, ProcessDies
<1>3. CASE MainLoop
  <2>1. CASE GetMessage \/ GetAll
    BY <2>1 DEF GetMessage, GetAll
  <2>2. CASE RingRead
    BY <2>2 DEF RingRead
  <2>3. CASE RingNext
    BY <2>3 DEF RingNext
  <2>4. CASE AllRead("main") \/ AllEnd("main")
    BY <2>4 DEF AllRead, AllEnd
  <2> QED BY <1>3, <2>1, <2>2, <2>3, <2>4 DEF MainLoop
<1>4. CASE recover_thread
  <2>1. CASE ScanBegin \/ ScanFile \/ ScanEnd \/ RemoveStale \/ ReadAll
    BY <2>1 DEF ScanBegin, ScanFile, ScanEnd, RemoveStale, ReadAll
  <2>2. CASE AllRead("recovery") \/ AllEnd("recovery")
    BY <2>2 DEF AllRead, AllEnd
  <2>3. CASE CleanupBegin \/ CleanupBusy \/ CleanupStays \/ CleanupRemoves \/ CleanupEnd
    BY <2>3 DEF CleanupBegin, CleanupBusy, CleanupStays, CleanupRemoves, CleanupEnd
  <2>4. CASE WatchNothing \/ NewCreds
    BY <2>4 DEF WatchNothing, NewCreds
  <2> QED BY <1>4, <2>1, <2>2, <2>3, <2>4 DEF recover_thread
<1>5. ASSUME NEW q \in Senders, ConnectBegin(q) \/ ConnectEnd(q) PROVE exposed' = exposed
  BY <1>5 DEF ConnectBegin, ConnectEnd
<1> QED BY <1>1, <1>2, <1>3, <1>4, <1>5 DEF ListNext

\* What comes to the main loop says nothing of the events.
LEMMA InputKept ==
  ASSUME NEW d, NEW S, NEW in, Somewhere(d, S, in), NEW x,
         NEW in2 \in {in, [in EXCEPT !.get = x], [in EXCEPT !.crash = x], [in EXCEPT !.renew = x],
                      [in EXCEPT !.connect = x]}
  PROVE  Somewhere(d, S, in2)
<1>1. DOMAIN in2 = DOMAIN in /\ in2.log = in.log /\ in2.total = in.total
  BY DEF Somewhere
<1> QED BY <1>1 DEF Somewhere

LEMMA ThreadsStep ==
  ASSUME exposed = {}, ListInv, UNCHANGED <<dir, ctl, stores, store_list, out, sent>>,
         Holding(th', list_lock', stores, store_list), Somewhere(dir, sent, input')
  PROVE  ListInv'
BY DEF ListInv

LEMMA ThreadShape ==
  ASSUME NEW pc
  PROVE  DOMAIN Thread(pc) = ThreadFields /\ Thread(pc).pc = pc
BY DEF Thread, ThreadFields

\* The main loop is idle again, or goes on in the ring.
LEMMA MainHolding ==
  ASSUME NEW t, NEW l, NEW st, NEW sl, Holding(t, l, st, sl), t["main"].pc # "all",
         NEW v, DOMAIN v = ThreadFields,
         \/ v.pc = "idle"
         \/ v.pc = "read" /\ Live(st, v.es) /\ Live(st, v.p)
         \/ v.pc = "step" /\ Live(st, v.es) /\ v.p \in 1..Len(st)
  PROVE  Holding([t EXCEPT !["main"] = v], l, st, sl)
<1> DEFINE u == [t EXCEPT !["main"] = v]
<1>1. DOMAIN t = {"main", "recovery"}
  BY DEF Holding
<1>2. DOMAIN u = {"main", "recovery"} /\ u["main"] = v /\ u["recovery"] = t["recovery"]
  BY <1>1
<1> HIDE DEF u
<1>3. v.pc \notin {"all", "scan", "cleaning"} /\ v.pc \in {"idle", "read", "step"}
  OBVIOUS
<1>4. {x \in {"main", "recovery"} : u[x].pc = "all"} = {x \in {"main", "recovery"} : t[x].pc = "all"}
  BY <1>2, <1>3
<1>5. Live(st, v.p) => v.p \in 1..Len(st) /\ st[v.p].live
  BY DEF Live
<1>6. Holding(u, l, st, sl)
  BY <1>1, <1>2, <1>3, <1>4, <1>5, ZenonT(60) DEF Holding
<1> QED BY <1>6 DEF u

\* The recovery thread is somewhere that it holds nothing.
LEMMA RecoveryHolding ==
  ASSUME NEW t, NEW l, NEW st, NEW sl, Holding(t, l, st, sl), t["recovery"].pc \notin {"all", "cleaning"},
         NEW v, DOMAIN v = ThreadFields,
         \/ v.pc \in {"asleep", "begin", "stale", "clean", "watch"}
         \/ v.pc = "scan" /\ \A n \in v.todo : IsName(n)
  PROVE  Holding([t EXCEPT !["recovery"] = v], l, st, sl)
<1> DEFINE u == [t EXCEPT !["recovery"] = v]
<1>1. DOMAIN t = {"main", "recovery"}
  BY DEF Holding
<1>2. DOMAIN u = {"main", "recovery"} /\ u["main"] = t["main"] /\ u["recovery"] = v
  BY <1>1
<1> HIDE DEF u
<1>3. v.pc \notin {"all", "cleaning"} /\ v.pc \in {"asleep", "begin", "stale", "clean", "watch", "scan"}
  OBVIOUS
<1>4. {x \in {"main", "recovery"} : u[x].pc = "all"} = {x \in {"main", "recovery"} : t[x].pc = "all"}
  BY <1>2, <1>3
<1>5. v.pc = "scan" => \A n \in v.todo : IsName(n)
  OBVIOUS
<1>6. /\ DOMAIN u = {"main", "recovery"} /\ \A x \in DOMAIN u : DOMAIN u[x] = ThreadFields
      /\ u["main"].pc \in {"idle", "read", "step", "all"}
      /\ u["recovery"].pc \in {"asleep", "begin", "scan", "stale", "all", "clean", "cleaning", "watch"}
  <2>1. \A x \in DOMAIN t : DOMAIN t[x] = ThreadFields
    BY DEF Holding
  <2>2. t["main"].pc \in {"idle", "read", "step", "all"}
    BY DEF Holding
  <2>3. \A x \in DOMAIN u : DOMAIN u[x] = ThreadFields
    BY <1>1, <1>2, <2>1
  <2> QED BY <1>2, <1>3, <2>2, <2>3
<1>7. /\ u["main"].pc \in {"read", "step"} => Live(st, u["main"].es) /\ u["main"].p \in 1..Len(st)
      /\ u["main"].pc = "read" => st[u["main"].p].live
  BY <1>2 DEF Holding
<1>8. /\ DOMAIN l = {"readers", "writer"} /\ l.readers = {x \in {"main", "recovery"} : u[x].pc = "all"}
      /\ l.writer = IF u["recovery"].pc = "cleaning" THEN "recovery" ELSE ""
  BY <1>2, <1>3, <1>4 DEF Holding
<1>9. \A x \in DOMAIN u : u[x].pc = "all" => IsSeq(u[x].rest) /\ \A k \in 1..Len(u[x].rest) : Live(st, u[x].rest[k])
  BY <1>1, <1>2, <1>3, ZenonT(30) DEF Holding
<1>10. Holding(u, l, st, sl)
  BY <1>2, <1>3, <1>5, <1>6, <1>7, <1>8, <1>9 DEF Holding
<1> QED BY <1>10 DEF u

\* A thread begins, continues and ends event_store_recover_all.
LEMMA AllHolding ==
  ASSUME NEW t, NEW l, NEW st, NEW sl, Holding(t, l, st, sl), Listed(st, sl),
         NEW x \in {"main", "recovery"}, NEW v, DOMAIN v = ThreadFields, NEW m,
         \/ /\ x = "main" => t[x].pc = "idle"
            /\ x = "recovery" => t[x].pc = "stale"
            /\ l.writer = "" /\ v.pc = "all" /\ v.rest = sl
            /\ m = [l EXCEPT !.readers = l.readers \cup {x}]
         \/ /\ t[x].pc = "all" /\ v.pc = "all" /\ m = l
            /\ IsSeq(v.rest) /\ \A k \in 1..Len(v.rest) : Live(st, v.rest[k])
         \/ /\ t[x].pc = "all" /\ v.pc = IF x = "main" THEN "idle" ELSE "clean"
            /\ m = [l EXCEPT !.readers = l.readers \ {x}]
  PROVE  Holding([t EXCEPT ![x] = v], m, st, sl)
<1> DEFINE u == [t EXCEPT ![x] = v]
           R(w) == {y \in {"main", "recovery"} : w[y].pc = "all"}
<1>1. DOMAIN t = {"main", "recovery"} /\ DOMAIN l = {"readers", "writer"}
      /\ \A y \in DOMAIN t : DOMAIN t[y] = ThreadFields
  BY DEF Holding
<1>2. DOMAIN u = {"main", "recovery"} /\ u[x] = v
      /\ \A y \in {"main", "recovery"} : y # x => u[y] = t[y]
  BY <1>1
<1> HIDE DEF u
<1>3. l.readers = R(t) /\ l.writer = IF t["recovery"].pc = "cleaning" THEN "recovery" ELSE ""
  BY DEF Holding
<1>4. t["recovery"].pc # "cleaning" /\ l.writer = ""
  <2>1. t["recovery"].pc = "cleaning" => l.readers = {} /\ l.writer = "recovery"
    BY <1>3 DEF Holding
  <2>2. t[x].pc = "all" => l.readers # {}
    BY <1>3
  <2> QED BY <1>3, <2>1, <2>2
<1>5. v.pc = "all" => IsSeq(v.rest) /\ \A k \in 1..Len(v.rest) : Live(st, v.rest[k])
  <2>1. IsSeq(sl) /\ \A k \in 1..Len(sl) : Live(st, sl[k])
    BY ListedRange DEF Listed, Live
  <2> QED BY <2>1
<1>6. DOMAIN m = {"readers", "writer"} /\ m.readers = R(u) /\ m.writer = ""
  <2>1. CASE t[x].pc # "all"
    <3>1. m.readers = l.readers \cup {x} /\ DOMAIN m = DOMAIN l /\ m.writer = l.writer /\ v.pc = "all"
      BY <1>1, <2>1
    <3>2. \A y : y \in m.readers <=> y \in R(u)
      BY <1>2, <1>3, <3>1
    <3>3. m.readers = R(u)
      BY ONLY <3>2
    <3> QED BY <1>1, <1>4, <3>1, <3>3
  <2>2. CASE t[x].pc = "all" /\ v.pc = "all"
    <3>1. m = l
      BY <2>2
    <3>2. \A y : y \in R(t) <=> y \in R(u)
      BY <1>2, <2>2
    <3>3. R(t) = R(u)
      BY ONLY <3>2
    <3> QED BY <1>1, <1>3, <1>4, <3>1, <3>3
  <2>3. CASE t[x].pc = "all" /\ v.pc # "all"
    <3>1. m.readers = l.readers \ {x} /\ DOMAIN m = DOMAIN l /\ m.writer = l.writer
      BY <1>1, <2>3
    <3>2. \A y : y \in m.readers <=> y \in R(u)
      BY <1>2, <1>3, <2>3, <3>1
    <3>3. m.readers = R(u)
      BY ONLY <3>2
    <3> QED BY <1>1, <1>4, <3>1, <3>3
  <2> QED BY <2>1, <2>2, <2>3
<1>7. \A y \in DOMAIN u : DOMAIN u[y] = ThreadFields
  BY <1>1, <1>2
<1>8. v.pc \in {"all", "idle", "clean"} /\ (x = "main" => v.pc # "clean") /\ (x = "recovery" => v.pc # "idle")
  OBVIOUS
<1>9. /\ u["main"].pc \in {"idle", "read", "step", "all"}
      /\ u["recovery"].pc \in {"asleep", "begin", "scan", "stale", "all", "clean", "cleaning", "watch"}
      /\ u["recovery"].pc # "cleaning"
  <2>1. /\ t["main"].pc \in {"idle", "read", "step", "all"}
        /\ t["recovery"].pc \in {"asleep", "begin", "scan", "stale", "all", "clean", "cleaning", "watch"}
    BY DEF Holding
  <2> QED BY <1>2, <1>4, <1>8, <2>1
<1>10. v.pc \notin {"read", "step"} /\ v.pc # "read" /\ v.pc # "scan"
  BY <1>8
<1>11. /\ u["main"].pc \in {"read", "step"} => Live(st, u["main"].es) /\ u["main"].p \in 1..Len(st)
       /\ u["main"].pc = "read" => st[u["main"].p].live
       /\ u["recovery"].pc = "scan" => \A n \in u["recovery"].todo : IsName(n)
  <2>1. /\ t["main"].pc \in {"read", "step"} => Live(st, t["main"].es) /\ t["main"].p \in 1..Len(st)
        /\ t["main"].pc = "read" => st[t["main"].p].live
        /\ t["recovery"].pc = "scan" => \A n \in t["recovery"].todo : IsName(n)
    BY DEF Holding
  <2>2. CASE x = "main"
    <3>1. u["main"] = v /\ u["recovery"] = t["recovery"]
      BY <1>2, <2>2
    <3> QED BY <1>10, <2>1, <3>1, Zenon
  <2>3. CASE x = "recovery"
    <3>1. u["main"] = t["main"] /\ u["recovery"] = v
      BY <1>2, <2>3
    <3> QED BY <1>10, <2>1, <3>1, Zenon
  <2> QED BY <2>2, <2>3
<1>12. \A y \in DOMAIN u : u[y].pc = "all" => IsSeq(u[y].rest) /\ \A k \in 1..Len(u[y].rest) : Live(st, u[y].rest[k])
  <2>1. \A y \in DOMAIN t : t[y].pc = "all" => IsSeq(t[y].rest) /\ \A k \in 1..Len(t[y].rest) : Live(st, t[y].rest[k])
    BY DEF Holding
  <2> QED BY <1>1, <1>2, <1>5, <2>1
<1>13. m.writer = IF u["recovery"].pc = "cleaning" THEN "recovery" ELSE ""
  BY <1>6, <1>9
<1>14. Holding(u, m, st, sl)
  BY <1>2, <1>6, <1>7, <1>9, <1>11, <1>12, <1>13 DEF Holding
<1> QED BY <1>14 DEF u

\* event_store_cleanup, with the list locked for writing.
LEMMA CleanHolding ==
  ASSUME NEW t, NEW l, NEW st, NEW sl, Holding(t, l, st, sl), l.readers = {},
         t["recovery"].pc \in {"clean", "cleaning"}, NEW v, DOMAIN v = ThreadFields,
         NEW m, DOMAIN m = {"readers", "writer"}, m.readers = {},
         \/ v.pc = "watch" /\ m.writer = ""
         \/ v.pc = "cleaning" /\ m.writer = "recovery" /\ Halfway(v, sl)
  PROVE  Holding([t EXCEPT !["recovery"] = v], m, st, sl)
<1> DEFINE u == [t EXCEPT !["recovery"] = v]
<1>1. DOMAIN t = {"main", "recovery"} /\ \A y \in DOMAIN t : DOMAIN t[y] = ThreadFields
  BY DEF Holding
<1>2. DOMAIN u = {"main", "recovery"} /\ u["recovery"] = v /\ u["main"] = t["main"]
  BY <1>1
<1> HIDE DEF u
<1>3. v.pc \in {"watch", "cleaning"} /\ v.pc # "all" /\ v.pc # "scan"
  OBVIOUS
<1>4. \A y \in {"main", "recovery"} : t[y].pc # "all"
  <2>1. l.readers = {y \in {"main", "recovery"} : t[y].pc = "all"}
    BY DEF Holding
  <2> QED BY <2>1
<1>5. \A y \in {"main", "recovery"} : u[y].pc # "all"
  BY <1>2, <1>3, <1>4
<1>6. m.readers = {y \in {"main", "recovery"} : u[y].pc = "all"}
  BY <1>5
<1>7. \A y \in DOMAIN u : DOMAIN u[y] = ThreadFields
  BY <1>1, <1>2
<1>8. u["main"].pc \in {"idle", "read", "step", "all"}
      /\ u["recovery"].pc \in {"asleep", "begin", "scan", "stale", "all", "clean", "cleaning", "watch"}
  <2>1. t["main"].pc \in {"idle", "read", "step", "all"}
    BY DEF Holding
  <2> QED BY <1>2, <1>3, <2>1
<1>9. /\ u["main"].pc \in {"read", "step"} => Live(st, u["main"].es) /\ u["main"].p \in 1..Len(st)
      /\ u["main"].pc = "read" => st[u["main"].p].live
  BY <1>2 DEF Holding
<1>10. m.writer = IF u["recovery"].pc = "cleaning" THEN "recovery" ELSE ""
  BY <1>2
<1>11. u["recovery"].pc = "cleaning" => Halfway(u["recovery"], sl)
  BY <1>2
<1>12. u["recovery"].pc # "scan"
  BY <1>2, <1>3
<1>13. Holding(u, m, st, sl)
  BY <1>2, <1>5, <1>6, <1>7, <1>8, <1>9, <1>10, <1>11, <1>12 DEF Holding
<1> QED BY <1>13 DEF u

LEMMA AppendConcat ==
  ASSUME NEW a, IsSeq(a), NEW x
  PROVE  a \o <<x>> = Append(a, x)
<1> DEFINE b == <<x>>
<1>1. IsSeq(b) /\ Len(b) = 1 /\ b[1] = x
  BY OneIsSeq
<1> HIDE DEF b
<1>2. /\ IsSeq(a \o b) /\ Len(a \o b) = Len(a) + 1 /\ Len(a) \in Nat
      /\ \A i \in 1..Len(a) + 1 : (a \o b)[i] = IF i <= Len(a) THEN a[i] ELSE b[i - Len(a)]
  BY <1>1, IsSeqConcat, IsSeqLen
<1>3. /\ IsSeq(Append(a, x)) /\ Len(Append(a, x)) = Len(a) + 1
      /\ \A i \in 1..Len(a) : Append(a, x)[i] = a[i]
      /\ Append(a, x)[Len(a) + 1] = x
  BY IsSeqAppend
<1>4. \A i \in 1..Len(a) + 1 : (a \o b)[i] = Append(a, x)[i]
  BY <1>1, <1>2, <1>3
<1>5. a \o b = Append(a, x)
  BY <1>2, <1>3, <1>4, IsSeqEqual
<1> QED BY <1>5 DEF b

\* A store is passed over, or stays.
LEMMA PassedOver ==
  ASSUME NEW v, NEW sl, Halfway(v, sl), v.rest # <<>>,
         NEW w, w.kept = v.kept, w.skipped = Append(v.skipped, Head(v.rest)), w.rest = Tail(v.rest)
  PROVE  Halfway(w, sl)
<1>1. PICK k, s, r, s2, r2 : k = v.kept /\ s = v.skipped /\ r = v.rest /\ s2 = w.skipped /\ r2 = w.rest
  OBVIOUS
<1>2. IsSeq(k) /\ IsSeq(s) /\ IsSeq(r) /\ r # <<>> /\ s2 = Append(s, Head(r)) /\ r2 = Tail(r)
  BY <1>1 DEF Halfway
<1>3. Len(r) > 0
  BY <1>2, IsSeqEmpty
<1>4. IsSeq(s2) /\ IsSeq(r2) /\ s2 \o r2 = s \o r
  BY <1>2, <1>3, IsSeqAppend, IsSeqTail, ConcatShift
<1>5. (k \o s2) \o r2 = k \o (s2 \o r2)
  <2>1. IsSeq(k) /\ IsSeq(s2) /\ IsSeq(r2)
    BY <1>2, <1>4
  <2> QED BY ONLY <2>1, ConcatAssoc, SMTT(30)
<1>6. (k \o s) \o r = k \o (s \o r)
  BY <1>2, ConcatAssoc
<1>7. sl = (k \o s) \o r
  BY <1>1 DEF Halfway
<1>8. sl = (k \o s2) \o r2
  BY ONLY <1>4, <1>5, <1>6, <1>7, Zenon
<1> QED BY <1>1, <1>2, <1>4, <1>8 DEF Halfway

LEMMA Stays ==
  ASSUME NEW v, NEW sl, Halfway(v, sl), v.rest # <<>>,
         NEW w, w.kept = (v.kept \o v.skipped) \o <<Head(v.rest)>>, w.skipped = <<>>, w.rest = Tail(v.rest)
  PROVE  Halfway(w, sl)
<1>1. PICK k, s, r, a, k2, r2 : k = v.kept /\ s = v.skipped /\ r = v.rest /\ a = k \o s /\ k2 = w.kept /\ r2 = w.rest
  OBVIOUS
<1>2. IsSeq(k) /\ IsSeq(s) /\ IsSeq(r) /\ r # <<>> /\ k2 = a \o <<Head(r)>> /\ r2 = Tail(r) /\ sl = a \o r
  BY <1>1 DEF Halfway
<1>3. Len(r) > 0 /\ IsSeq(a)
  BY <1>1, <1>2, IsSeqEmpty, IsSeqConcat
<1>4. k2 = Append(a, Head(r)) /\ IsSeq(k2)
  <2>1. PICK x : x = Head(r)
    OBVIOUS
  <2>2. a \o <<x>> = Append(a, x) /\ IsSeq(Append(a, x))
    BY ONLY <1>3, AppendConcat, IsSeqAppend
  <2> QED BY ONLY <1>2, <2>1, <2>2, Zenon
<1>5. IsSeq(r2) /\ k2 \o r2 = a \o r
  BY <1>2, <1>3, <1>4, ConcatShift, IsSeqTail
<1>6. k2 \o <<>> = k2 /\ IsSeq(<<>>)
  BY <1>4, ConcatEmpty, EmptyIsSeq
<1>7. sl = (k2 \o <<>>) \o r2
  BY ONLY <1>2, <1>5, <1>6, Zenon
<1> QED BY <1>1, <1>4, <1>5, <1>6, <1>7 DEF Halfway

-----------------------------------------------------------------------------
(* The steps of the threads.                                                *)

LEMMA InvParts ==
  ASSUME ListInv, exposed = {}
  PROVE  /\ Listed(stores, store_list) /\ Positioned(dir, ctl, sent) /\ Somewhere(dir, sent, input)
         /\ Holding(th, list_lock, stores, store_list) /\ IsSeq(out) /\ InOrder(out, stores, dir)
         /\ \A s \in 1..Len(stores) : stores[s].live => StoreAt(stores[s], dir, sent)
BY DEF ListInv

LEMMA ReadSteps ==
  ASSUME ListInv, exposed = {}, GetAll \/ ReadAll \/ AllEnd("main") \/ AllEnd("recovery")
  PROVE  ListInv'
<1> USE InvParts
<1>1. UNCHANGED <<dir, ctl, stores, store_list, out, sent>>
  BY DEF GetAll, ReadAll, AllEnd
<1>2. Somewhere(dir, sent, input')
  <2>1. input' \in {input, [input EXCEPT !.get = Tail(input.get)]}
    BY DEF GetAll, ReadAll, AllEnd
  <2> QED BY <2>1, InputKept
<1>3. DOMAIN th = {"main", "recovery"} /\ th["main"].pc \in {"idle", "read", "step", "all"}
  BY DEF Holding
<1>4. ASSUME NEW x \in {"main", "recovery"}, AllBegin(x), list_lock.writer = "",
             x = "main" => th[x].pc = "idle", x = "recovery" => th[x].pc = "stale"
      PROVE  Holding(th', list_lock', stores, store_list)
  <2> DEFINE v == [Thread("all") EXCEPT !.rest = store_list]
  <2>1. th' = [th EXCEPT ![x] = v] /\ list_lock' = [list_lock EXCEPT !.readers = list_lock.readers \cup {x}]
    BY <1>4 DEF AllBegin
  <2>2. DOMAIN v = ThreadFields /\ v.pc = "all" /\ v.rest = store_list
    BY DEF Thread, ThreadFields
  <2> HIDE DEF v
  <2> QED BY <1>4, <2>1, <2>2, AllHolding
<1>5. ASSUME NEW x \in {"main", "recovery"}, AllEnd(x)
      PROVE  Holding(th', list_lock', stores, store_list)
  <2> DEFINE v == Thread(IF x = "main" THEN "idle" ELSE "clean")
  <2>1. th' = [th EXCEPT ![x] = v] /\ list_lock' = [list_lock EXCEPT !.readers = list_lock.readers \ {x}]
        /\ th[x].pc = "all"
    BY <1>5 DEF AllEnd
  <2>2. DOMAIN v = ThreadFields /\ v.pc = IF x = "main" THEN "idle" ELSE "clean"
    BY ThreadShape
  <2> HIDE DEF v
  <2> QED BY <2>1, <2>2, AllHolding
<1>6. Holding(th', list_lock', stores, store_list)
  <2>1. CASE GetAll
    BY <1>4, <2>1 DEF GetAll, ReadLockable
  <2>2. CASE ReadAll
    BY <1>4, <2>2 DEF ReadAll, ReadLockable
  <2> QED BY <1>5, <2>1, <2>2
<1> QED BY <1>1, <1>2, <1>6, ThreadsStep

LEMMA ScanSteps ==
  ASSUME ListInv, exposed = {}, ScanBegin \/ ScanEnd \/ WatchNothing \/ NewCreds
  PROVE  ListInv'
<1> USE InvParts
<1>1. UNCHANGED <<dir, ctl, stores, store_list, out, sent, list_lock>>
  BY DEF ScanBegin, ScanEnd, WatchNothing, NewCreds
<1>2. Somewhere(dir, sent, input')
  <2>1. input' \in {input, [input EXCEPT !.renew = input.renew - 1]}
    BY DEF ScanBegin, ScanEnd, WatchNothing, NewCreds
  <2> QED BY <2>1, InputKept
<1>3. PICK v : /\ th' = [th EXCEPT !["recovery"] = v] /\ th["recovery"].pc \notin {"all", "cleaning"}
               /\ \/ v = [Thread("scan") EXCEPT !.todo = DOMAIN dir]
                  \/ v = [Thread("stale") EXCEPT !.todo = DOMAIN ctl]
                  \/ v = Thread("begin")
  BY DEF ScanBegin, ScanEnd, WatchNothing, NewCreds
<1>4. DOMAIN v = ThreadFields
  BY <1>3 DEF Thread, ThreadFields
<1>5. \/ v.pc \in {"stale", "begin"}
      \/ v.pc = "scan" /\ v.todo = DOMAIN dir
  BY <1>3 DEF Thread
<1>6. \A n \in DOMAIN dir : IsName(n)
  BY DEF Positioned
<1>7. Holding(th', list_lock, stores, store_list)
  BY <1>3, <1>4, <1>5, <1>6, RecoveryHolding
<1> QED BY <1>1, <1>2, <1>7, ThreadsStep

LEMMA ConnectSteps ==
  ASSUME ListInv, exposed = {}, NEW q \in Senders, ConnectBegin(q) \/ ConnectEnd(q)
  PROVE  ListInv'
<1> USE InvParts
<1>1. UNCHANGED <<dir, ctl, stores, store_list, out, sent, list_lock, th>>
  BY DEF ConnectBegin, ConnectEnd
<1>2. Somewhere(dir, sent, input')
  <2>1. input' \in {input, [input EXCEPT !.connect = input.connect - 1]}
    BY DEF ConnectBegin, ConnectEnd
  <2> QED BY <2>1, InputKept
<1> QED BY <1>1, <1>2, ThreadsStep

LEMMA RingNextStep ==
  ASSUME ListInv, exposed = {}, RingNext, exposed' = {}
  PROVE  ListInv'
<1> USE InvParts
<1> DEFINE m == th["main"]
           p == stores[m.p].jobid_next
           v == IF p = m.es THEN Thread("idle") ELSE [m EXCEPT !.pc = "read", !.p = p]
<1>1. m.pc = "step" /\ stores[m.p].live
  BY DEF RingNext
<1>2. UNCHANGED <<dir, ctl, stores, store_list, out, sent, list_lock, input>> /\ th' = [th EXCEPT !["main"] = v]
  BY <1>1 DEF RingNext
<1>3. Live(stores, m.es) /\ m.p \in 1..Len(stores) /\ DOMAIN m = ThreadFields
  BY <1>1 DEF Holding
<1>4. Live(stores, p)
  BY <1>1, <1>3 DEF Listed, Live
<1> HIDE DEF p, m
<1>5. DOMAIN v = ThreadFields /\ (v.pc = "idle" \/ (v.pc = "read" /\ v.es = m.es /\ v.p = p))
  <2>1. CASE p = m.es
    <3>1. v = Thread("idle")
      BY <2>1
    <3> QED BY <3>1, ThreadShape
  <2>2. CASE p # m.es
    BY <1>3, <2>2 DEF ThreadFields
  <2> QED BY <2>1, <2>2
<1> HIDE DEF v
<1>6. Holding(th', list_lock, stores, store_list)
  BY <1>1, <1>2, <1>3, <1>4, <1>5, MainHolding DEF m
<1> QED BY <1>2, <1>6, ThreadsStep

LEMMA CleanupSteps ==
  ASSUME ListInv, exposed = {}, CleanupBegin \/ CleanupBusy \/ CleanupStays \/ CleanupEnd
  PROVE  ListInv'
<1> USE InvParts
<1> DEFINE t == th["recovery"]
<1>1. UNCHANGED <<dir, ctl, stores, store_list, out, sent, input>>
  BY DEF CleanupBegin, CleanupBusy, CleanupStays, CleanupEnd
<1>2. DOMAIN th = {"main", "recovery"} /\ DOMAIN t = ThreadFields /\ DOMAIN list_lock = {"readers", "writer"}
  BY DEF Holding
<1>3. ASSUME t.pc = "cleaning"
      PROVE  /\ list_lock.readers = {} /\ list_lock.writer = "recovery"
             /\ Halfway(t, store_list)
  BY <1>3 DEF Holding
<1>4. CASE CleanupBegin
  <2> DEFINE v == [Thread("cleaning") EXCEPT !.rest = store_list]
  <2>1. t.pc = "clean" /\ list_lock.readers = {} /\ th' = [th EXCEPT !["recovery"] = v]
        /\ list_lock' = [list_lock EXCEPT !.writer = "recovery"]
    BY <1>4 DEF CleanupBegin, WriteLockable
  <2>2. DOMAIN v = ThreadFields /\ v.pc = "cleaning" /\ v.kept = <<>> /\ v.skipped = <<>> /\ v.rest = store_list
    BY DEF Thread, ThreadFields
  <2> HIDE DEF v
  <2>3. DOMAIN list_lock' = {"readers", "writer"} /\ list_lock'.readers = {} /\ list_lock'.writer = "recovery"
    BY <1>2, <2>1
  <2>4. IsSeq(store_list)
    BY DEF Listed
  <2>5. Halfway(v, store_list)
    BY <2>2, <2>4, ConcatEmpty, EmptyIsSeq DEF Halfway
  <2>6. Holding(th', list_lock', stores, store_list)
    BY <2>1, <2>2, <2>3, <2>5, CleanHolding
  <2> QED BY <1>1, <2>6, ThreadsStep
<1>5. CASE CleanupBusy
  <2> DEFINE v == [t EXCEPT !.rest = Tail(t.rest), !.skipped = Append(t.skipped, Head(t.rest))]
  <2>1. t.pc = "cleaning" /\ t.rest # <<>> /\ list_lock' = list_lock
        /\ th' = [th EXCEPT !["recovery"].rest = Tail(@), !["recovery"].skipped = Append(@, Head(t.rest))]
    BY <1>5 DEF CleanupBusy
  <2>2. th' = [th EXCEPT !["recovery"] = v]
    BY <1>2, <2>1 DEF ThreadFields
  <2>3. DOMAIN v = ThreadFields /\ v.pc = "cleaning" /\ v.kept = t.kept
        /\ v.skipped = Append(t.skipped, Head(t.rest)) /\ v.rest = Tail(t.rest)
    BY <1>2, <2>1 DEF ThreadFields
  <2> HIDE DEF v, t
  <2>4. Halfway(v, store_list)
    BY <1>3, <2>1, <2>3, PassedOver
  <2>5. list_lock.readers = {} /\ list_lock.writer = "recovery"
    BY <1>3, <2>1
  <2>6. Holding(th', list_lock', stores, store_list)
    <3>1. DOMAIN list_lock' = {"readers", "writer"} /\ list_lock'.readers = {} /\ list_lock'.writer = "recovery"
      BY <1>2, <2>1, <2>5
    <3>2. th["recovery"].pc \in {"clean", "cleaning"}
      BY <2>1 DEF t
    <3> QED BY <2>2, <2>3, <2>4, <2>5, <3>1, <3>2, CleanHolding
  <2> QED BY <1>1, <2>6, ThreadsStep
<1>6. CASE CleanupStays
  <2> DEFINE v == [t EXCEPT !.rest = Tail(t.rest), !.skipped = <<>>,
                            !.kept = t.kept \o t.skipped \o <<Head(t.rest)>>]
  <2>1. t.pc = "cleaning" /\ t.rest # <<>> /\ list_lock' = list_lock /\ th' = [th EXCEPT !["recovery"] = v]
    BY <1>6 DEF CleanupStays
  <2>2. DOMAIN v = ThreadFields /\ v.pc = "cleaning" /\ v.kept = (t.kept \o t.skipped) \o <<Head(t.rest)>>
        /\ v.skipped = <<>> /\ v.rest = Tail(t.rest)
    BY <1>2, <2>1 DEF ThreadFields
  <2> HIDE DEF v, t
  <2>3. Halfway(v, store_list)
    BY <1>3, <2>1, <2>2, Stays
  <2>4. list_lock.readers = {} /\ list_lock.writer = "recovery"
    BY <1>3, <2>1
  <2>5. Holding(th', list_lock', stores, store_list)
    BY <1>2, <2>1, <2>2, <2>3, <2>4, CleanHolding DEF t
  <2> QED BY <1>1, <2>5, ThreadsStep
<1>7. CASE CleanupEnd
  <2>1. t.pc = "cleaning" /\ th' = [th EXCEPT !["recovery"] = Thread("watch")]
        /\ list_lock' = [list_lock EXCEPT !.writer = ""]
    BY <1>7 DEF CleanupEnd
  <2>2. DOMAIN list_lock' = {"readers", "writer"} /\ list_lock'.readers = {} /\ list_lock'.writer = ""
    BY <1>2, <1>3, <2>1
  <2>3. Holding(th', list_lock', stores, store_list)
    BY <1>3, <2>1, <2>2, ThreadShape, CleanHolding
  <2> QED BY <1>1, <2>3, ThreadsStep
<1> QED BY <1>4, <1>5, <1>6, <1>7

\* No list, no stores and nothing in the queue: the process has started.
LEMMA NoStores ==
  ASSUME NEW d, NEW pc \in {"begin", "asleep"}
  PROVE  /\ Listed(<<>>, <<>>) /\ IsSeq(<<>>) /\ 1..Len(<<>>) = {}
         /\ InOrder(<<>>, <<>>, d)
         /\ Holding([main |-> Thread("idle"), recovery |-> Thread(pc)], [readers |-> {}, writer |-> ""], <<>>, <<>>)
<1>1. IsSeq(<<>>) /\ Len(<<>>) = 0 /\ 1..Len(<<>>) = {}
  BY EmptyIsSeq
<1>2. Listed(<<>>, <<>>)
  BY <1>1 DEF Listed
<1>3. InOrder(<<>>, <<>>, d)
  <2>1. [i \in 1..Len(<<>>) |-> 0] \in [1..Len(<<>>) -> Nat]
    OBVIOUS
  <2>2. \A pos : Queued(<<>>, pos, <<>>, d)
    BY <1>1 DEF Queued
  <2> QED BY <2>1, <2>2 DEF InOrder
<1>4. Holding([main |-> Thread("idle"), recovery |-> Thread(pc)], [readers |-> {}, writer |-> ""], <<>>, <<>>)
  <2> DEFINE t == [main |-> Thread("idle"), recovery |-> Thread(pc)]
             l == [readers |-> {}, writer |-> ""]
  <2>1. DOMAIN t = {"main", "recovery"} /\ t["main"] = Thread("idle") /\ t["recovery"] = Thread(pc)
    OBVIOUS
  <2>2. DOMAIN l = {"readers", "writer"} /\ l.readers = {} /\ l.writer = ""
    OBVIOUS
  <2> HIDE DEF t, l
  <2>3. DOMAIN t["main"] = ThreadFields /\ t["main"].pc = "idle" /\ DOMAIN t["recovery"] = ThreadFields /\ t["recovery"].pc = pc
    BY <2>1, ThreadShape
  <2>4. \A x \in {"main", "recovery"} : t[x].pc # "all"
    BY <2>3
  <2>5. l.readers = {x \in {"main", "recovery"} : t[x].pc = "all"}
    BY <2>2, <2>4
  <2>6. \A x \in DOMAIN t : DOMAIN t[x] = ThreadFields
    BY <2>1, <2>3
  <2>7. Holding(t, l, <<>>, <<>>)
    BY <2>1, <2>2, <2>3, <2>4, <2>5, <2>6 DEF Holding
  <2> QED BY <2>7 DEF t, l
<1> QED BY <1>1, <1>2, <1>3, <1>4

LEMMA StartSteps ==
  ASSUME ListInv, exposed = {}, LoopEnds \/ ProcessDies
  PROVE  ListInv'
<1> USE InvParts
<1>1. Started /\ UNCHANGED <<dir, ctl, sent>>
  BY DEF LoopEnds, ProcessDies
<1>2. Somewhere(dir, sent, input')
  <2>1. input' = [input EXCEPT !.get = Tail(input.get)] \/ input' = [input EXCEPT !.crash = input.crash - 1]
    BY DEF LoopEnds, ProcessDies
  <2> QED BY <2>1, InputKept
<1>3. /\ stores' = <<>> /\ store_list' = <<>> /\ out' = <<>>
      /\ list_lock' = [readers |-> {}, writer |-> ""]
      /\ th' = [main |-> Thread("idle"), recovery |-> Thread("begin")]
  BY <1>1 DEF Started
<1>4. Positioned(dir', ctl', sent') /\ Somewhere(dir', sent', input')
  BY <1>1, <1>2
<1>5. Listed(stores', store_list') /\ IsSeq(out') /\ Holding(th', list_lock', stores', store_list')
      /\ 1..Len(stores') = {}
  BY <1>3, NoStores
<1>6. InOrder(out', stores', dir')
  BY <1>3, NoStores
<1> QED BY <1>4, <1>5, <1>6 DEF ListInv

LEMMA RemoveStaleStep ==
  ASSUME ListInv, exposed = {}, RemoveStale
  PROVE  ListInv'
<1> USE InvParts
<1>1. PICK n \in th["recovery"].todo :
        /\ th["recovery"].pc = "stale" /\ th' = [th EXCEPT !["recovery"].todo = @ \ {n}]
        /\ ctl' = IF n \in DOMAIN dir THEN ctl ELSE Without(ctl, n)
        /\ UNCHANGED <<dir, stores, store_list, list_lock, out, input, sent, creds, exposed>>
  BY DEF RemoveStale
<1>2. DOMAIN th = {"main", "recovery"} /\ DOMAIN th["recovery"] = ThreadFields
  BY DEF Holding
<1> DEFINE v == [th["recovery"] EXCEPT !.todo = th["recovery"].todo \ {n}]
<1>3. th' = [th EXCEPT !["recovery"] = v]
  BY <1>1, <1>2
<1>4. DOMAIN v = ThreadFields /\ v.pc = "stale"
  BY <1>1, <1>2 DEF ThreadFields
<1>5. th["recovery"].pc \notin {"all", "cleaning"}
  BY <1>1
<1> HIDE DEF v
<1>6. Holding(th', list_lock, stores, store_list)
  BY <1>3, <1>4, <1>5, RecoveryHolding
<1>7. DOMAIN ctl' \subseteq DOMAIN ctl /\ \A m \in DOMAIN ctl' : ctl'[m] = ctl[m]
  BY <1>1 DEF Without
<1>8. Positioned(dir, ctl', sent)
  BY <1>7 DEF Positioned
<1> QED BY <1>1, <1>6, <1>8 DEF ListInv

-----------------------------------------------------------------------------
(* Stores that are not the same, for a list that may have got a new one.    *)

LEMMA HoldingStores ==
  ASSUME NEW t, NEW l, NEW st, NEW sl, Holding(t, l, st, sl),
         NEW st2, NEW sl2, Len(st) \in Nat, Len(st2) \in Nat, Len(st) <= Len(st2),
         \A s \in 1..Len(st) : st[s].live => st2[s].live,
         sl2 = sl \/ l.writer = ""
  PROVE  Holding(t, l, st2, sl2)
<1>1. \A s : s \in 1..Len(st) => s \in 1..Len(st2)
  <2>1. PICK m, n : m = Len(st) /\ n = Len(st2)
    OBVIOUS
  <2>2. m \in Nat /\ n \in Nat /\ m <= n
    BY <2>1
  <2>3. \A s : s \in 1..m => s \in 1..n
    BY ONLY <2>2
  <2> QED BY <2>1, <2>3
<1>2. \A s : Live(st, s) => Live(st2, s)
  BY <1>1 DEF Live
<1>3. /\ DOMAIN t = {"main", "recovery"} /\ \A x \in DOMAIN t : DOMAIN t[x] = ThreadFields
      /\ t["main"].pc \in {"idle", "read", "step", "all"}
      /\ t["recovery"].pc \in {"asleep", "begin", "scan", "stale", "all", "clean", "cleaning", "watch"}
      /\ DOMAIN l = {"readers", "writer"} /\ l.readers = {x \in {"main", "recovery"} : t[x].pc = "all"}
      /\ t["recovery"].pc = "scan" => \A n \in t["recovery"].todo : IsName(n)
      /\ l.writer = IF t["recovery"].pc = "cleaning" THEN "recovery" ELSE ""
  BY DEF Holding
<1>4. t["main"].pc \in {"read", "step"} => Live(st2, t["main"].es) /\ t["main"].p \in 1..Len(st2)
  BY <1>1, <1>2 DEF Holding
<1>5. t["main"].pc = "read" => st2[t["main"].p].live
  BY <1>3 DEF Holding
<1>6. \A x \in DOMAIN t : t[x].pc = "all" => IsSeq(t[x].rest) /\ \A k \in 1..Len(t[x].rest) : Live(st2, t[x].rest[k])
  BY <1>2 DEF Holding
<1>7. t["recovery"].pc = "cleaning" => l.readers = {} /\ Halfway(t["recovery"], sl2)
  <2>1. t["recovery"].pc = "cleaning" => l.writer = "recovery" /\ l.readers = {} /\ Halfway(t["recovery"], sl)
    BY DEF Holding
  <2> QED BY <2>1
<1> QED BY <1>3, <1>4, <1>5, <1>6, <1>7 DEF Holding

\* Stores that have moved on, or have another file.
LEMMA ListedMoved ==
  ASSUME NEW st, NEW sl, Listed(st, sl), NEW st2, IsSeq(st2), Len(st2) = Len(st),
         \A s \in 1..Len(st) :
           /\ DOMAIN st2[s] = StoreFields /\ st2[s].committed \in Nat /\ st2[s].offset \in Nat
           /\ st2[s].live = st[s].live /\ st2[s].job = st[s].job /\ st2[s].jobid_next = st[s].jobid_next
           /\ st2[s].file = st[s].file \/ (IsName(st2[s].file) /\ st2[s].file[1] = st[s].job),
         \A s, r \in 1..Len(st) : st[s].live /\ st[r].live /\ st2[s].file = st2[r].file => s = r
  PROVE  Listed(st2, sl)
<1>1. ASSUME NEW s \in 1..Len(st), st2[s].live
      PROVE  IsName(st2[s].file) /\ st2[s].job = st2[s].file[1]
  BY <1>1 DEF Listed
<1>2. ASSUME NEW s \in 1..Len(st), st2[s].live
      PROVE  st2[s].jobid_next \in 1..Len(st2) /\ st2[st2[s].jobid_next].live
  BY <1>2 DEF Listed
<1>3. \A s \in 1..Len(st2) : st2[s].live <=> \E k \in 1..Len(sl) : sl[k] = s
  BY DEF Listed
<1>4. ASSUME NEW s \in 1..Len(st2), NEW r \in 1..Len(st2), st2[s].live, st2[r].live
      PROVE  /\ st2[s].jobid_next = st2[r].jobid_next => s = r
             /\ st2[s].file = st2[r].file => s = r
  <2>1. s \in 1..Len(st) /\ r \in 1..Len(st) /\ st[s].live /\ st[r].live
    BY <1>4
  <2>2. st2[s].jobid_next = st2[r].jobid_next => s = r
    BY <2>1 DEF Listed
  <2>3. st2[s].file = st2[r].file => s = r
    BY <2>1
  <2> QED BY <2>2, <2>3
<1>5. IsSeq(sl) /\ (\A k \in 1..Len(sl) : sl[k] \in 1..Len(st2)) /\ \A k, l \in 1..Len(sl) : sl[k] = sl[l] => k = l
  BY DEF Listed
<1> QED BY <1>1, <1>2, <1>3, <1>4, <1>5 DEF Listed

-----------------------------------------------------------------------------
(* The local logger writes.                                                 *)

\* The files d2 have what d has, and more.
Grown(d, d2) ==
  /\ DOMAIN d \subseteq DOMAIN d2
  /\ \A n \in DOMAIN d2 : IsName(n) /\ IsSeq(d2[n])
  /\ \A n \in DOMAIN d : Len(d[n]) <= Len(d2[n]) /\ \A i \in 1..Len(d[n]) : d2[n][i] = d[n][i]

LEMMA GrownPositions ==
  ASSUME NEW d, NEW d2, Grown(d, d2), NEW c, NEW S, Positioned(d, c, S),
         \A n \in DOMAIN c : n \in DOMAIN d2 => n \in DOMAIN d
  PROVE  Positioned(d2, c, S)
<1>1. \A n \in DOMAIN d : Len(d[n]) \in Nat
  BY IsSeqLen DEF Positioned
<1>2. \A n \in DOMAIN d2 : Len(d2[n]) \in Nat
  BY IsSeqLen DEF Grown
<1> QED BY <1>1, <1>2 DEF Positioned, Grown

LEMMA GrownStore ==
  ASSUME NEW d, NEW d2, Grown(d, d2), NEW S, \A n \in DOMAIN d : IsSeq(d[n]),
         NEW es, StoreAt(es, d, S), es.committed \in Nat, es.offset \in Nat
  PROVE  StoreAt(es, d2, S)
<1>1. \A n \in DOMAIN d : Len(d[n]) \in Nat
  BY IsSeqLen
<1>2. \A n \in DOMAIN d2 : Len(d2[n]) \in Nat
  BY IsSeqLen DEF Grown
<1>3. CASE es.file \in DOMAIN d
  BY <1>1, <1>2, <1>3 DEF StoreAt, Grown
<1>4. CASE es.file \notin DOMAIN d
  BY <1>2, <1>4 DEF StoreAt, Grown
<1> QED BY <1>3, <1>4

LEMMA GrownQueue ==
  ASSUME NEW d, NEW d2, Grown(d, d2), NEW S, NEW q, NEW st, InOrder(q, st, d),
         \A n \in DOMAIN d : IsSeq(d[n]),
         \A s \in 1..Len(st) : st[s].committed \in Nat /\ st[s].offset \in Nat,
         \A s \in 1..Len(st) : st[s].live => StoreAt(st[s], d, S)
  PROVE  InOrder(q, st, d2)
<1>1. PICK pos \in [1..Len(q) -> Nat] : Queued(q, pos, st, d)
  BY DEF InOrder
<1>2. ASSUME NEW k \in 1..Len(q)
      PROVE  LET es == st[q[k].s]
             IN /\ q[k].s \in 1..Len(st) /\ es.live /\ es.file \in DOMAIN d2
                /\ pos[k] \in Nat /\ es.committed < pos[k] /\ pos[k] <= es.offset
                /\ q[k].e = d2[es.file][pos[k]]
  <2> DEFINE es == st[q[k].s]
             f == es.file
  <2>1. /\ q[k].s \in 1..Len(st) /\ es.live /\ f \in DOMAIN d
        /\ pos[k] \in Nat /\ es.committed < pos[k] /\ pos[k] <= es.offset
        /\ q[k].e = d[f][pos[k]]
    BY <1>1 DEF Queued
  <2>2. es.offset <= Len(d[f]) /\ Len(d[f]) \in Nat /\ es.offset \in Nat /\ es.committed \in Nat
    BY <2>1, IsSeqLen DEF StoreAt
  <2>3. pos[k] \in 1..Len(d[f])
    BY <2>1, <2>2
  <2>4. f \in DOMAIN d2 /\ d2[f][pos[k]] = d[f][pos[k]]
    BY <2>1, <2>3 DEF Grown
  <2> QED BY <2>1, <2>4
<1>3. Queued(q, pos, st, d2)
  BY <1>2, <1>1 DEF Queued
<1> QED BY <1>1, <1>3 DEF InOrder

LEMMA LogLineStep ==
  ASSUME ListInv, exposed = {}, LogLine, exposed' = {}
  PROVE  ListInv'
<1> USE InvParts
<1> DEFINE n == <<Head(input.log), 0>>
           e == Len(input.log)
           new == n \notin DOMAIN dir
           x == IF new THEN <<e>> ELSE Append(dir[n], e)
<1>1. /\ input.log # <<>> /\ dir' = With(dir, n, x) /\ (new => n \notin DOMAIN ctl)
      /\ input' = [input EXCEPT !.log = Tail(input.log)]
      /\ UNCHANGED <<ctl, stores, store_list, list_lock, th, out, sent>>
  BY DEF LogLine
<1>2. IsName(n)
  BY DEF IsName
<1>3. /\ IsSeq(x) /\ Len(x) \in 1..Len(x) /\ x[Len(x)] = e
      /\ ~new => Len(dir[n]) <= Len(x) /\ \A i \in 1..Len(dir[n]) : x[i] = dir[n][i]
  <2> HIDE DEF n, e
  <2>1. CASE new
    BY <2>1, OneIsSeq
  <2>2. CASE ~new
    <3>1. x = Append(dir[n], e) /\ IsSeq(dir[n]) /\ Len(dir[n]) \in Nat
      BY <2>2, IsSeqLen DEF Positioned
    <3> HIDE DEF x
    <3> QED BY <2>2, <3>1, IsSeqAppend
  <2> QED BY <2>1, <2>2
<1> HIDE DEF n, e, x
<1>4. DOMAIN dir' = DOMAIN dir \cup {n} /\ dir'[n] = x /\ \A m \in DOMAIN dir \ {n} : dir'[m] = dir[m]
  BY <1>1 DEF With
<1>5. Grown(dir, dir')
  <2>1. \A m \in DOMAIN dir : IsSeq(dir[m]) /\ IsName(m) /\ Len(dir[m]) \in Nat
    BY IsSeqLen DEF Positioned
  <2>2. ASSUME NEW m \in DOMAIN dir PROVE Len(dir[m]) <= Len(dir'[m]) /\ \A i \in 1..Len(dir[m]) : dir'[m][i] = dir[m][i]
    BY <1>3, <1>4, <2>1
  <2> QED BY <1>2, <1>3, <1>4, <2>1, <2>2 DEF Grown
<1>6. \A s \in 1..Len(stores) : stores[s].committed \in Nat /\ stores[s].offset \in Nat
  BY DEF Listed
<1>7. \A m \in DOMAIN ctl : m \in DOMAIN dir' => m \in DOMAIN dir
  BY <1>1, <1>4
<1>8. Positioned(dir', ctl, sent) /\ \A s \in 1..Len(stores) : stores[s].live => StoreAt(stores[s], dir', sent)
  <2>1. \A m \in DOMAIN dir : IsSeq(dir[m])
    BY DEF Positioned
  <2> QED BY <1>5, <1>6, <1>7, <2>1, GrownPositions, GrownStore
<1>9. InOrder(out, stores, dir')
  <2>1. \A m \in DOMAIN dir : IsSeq(dir[m])
    BY DEF Positioned
  <2> QED BY <1>5, <1>6, <2>1, GrownQueue
<1>10. Somewhere(dir', sent, input')
  <2>1. DOMAIN input = {"log", "get", "crash", "renew", "connect", "total"} /\ IsSeq(input.log) /\ input.total \in Nat
    BY DEF Somewhere
  <2>2. Len(input.log) > 0 /\ Len(input.log) \in Nat
    BY <1>1, <2>1, IsSeqEmpty, IsSeqLen
  <2>3. DOMAIN input' = DOMAIN input /\ input'.log = Tail(input.log) /\ input'.total = input.total
    BY <1>1, <2>1
  <2>4. IsSeq(input'.log) /\ Len(input'.log) = Len(input.log) - 1
    BY <2>1, <2>2, <2>3, IsSeqTail
  <2>5. ASSUME NEW y \in 1..input.total
        PROVE  y \in sent \/ y <= Len(input'.log) \/ \E m \in DOMAIN dir' : \E i \in 1..Len(dir'[m]) : dir'[m][i] = y
    <3>1. y \in sent \/ y <= Len(input.log) \/ \E m \in DOMAIN dir : \E i \in 1..Len(dir[m]) : dir[m][i] = y
      BY DEF Somewhere
    <3>2. CASE \E m \in DOMAIN dir : \E i \in 1..Len(dir[m]) : dir[m][i] = y
      <4>1. PICK m \in DOMAIN dir : \E i \in 1..Len(dir[m]) : dir[m][i] = y
        BY <3>2
      <4>2. PICK i \in 1..Len(dir[m]) : dir[m][i] = y
        BY <4>1
      <4>3. m \in DOMAIN dir' /\ Len(dir[m]) <= Len(dir'[m]) /\ dir'[m][i] = y
        BY <1>5, <4>2 DEF Grown
      <4>4. Len(dir[m]) \in Nat /\ Len(dir'[m]) \in Nat
        BY <1>5, <4>3, IsSeqLen DEF Grown, Positioned
      <4>5. i \in 1..Len(dir'[m])
        BY <4>3, <4>4
      <4> QED BY <4>3, <4>5
    <3>3. CASE y <= Len(input.log) /\ y > Len(input'.log)
      <4>1. y = e
        BY <2>1, <2>2, <2>4, <3>3 DEF e
      <4>2. n \in DOMAIN dir' /\ dir'[n] = x
        BY <1>4
      <4> QED BY <1>3, <4>1, <4>2
    <3>4. Len(input'.log) \in Nat
      BY <2>2, <2>4
    <3> QED BY <2>1, <3>1, <3>2, <3>3, <3>4
  <2> QED BY <2>1, <2>3, <2>4, <2>5 DEF Somewhere
<1> QED BY <1>1, <1>8, <1>9, <1>10 DEF ListInv

-----------------------------------------------------------------------------
(* A queue thread sends.                                                    *)

\* The first event of the queue is the next one of its store.
LEMMA HeadIsNext ==
  ASSUME NEW q, NEW pos \in [1..Len(q) -> Nat], NEW st, NEW d, Queued(q, pos, st, d), Len(q) \in Nat, Len(q) > 0,
         \A s \in 1..Len(st) : st[s].committed \in Nat /\ st[s].offset \in Nat
  PROVE  pos[1] = st[q[1].s].committed + 1
<1> DEFINE s == q[1].s
           c == st[s].committed
           o == st[s].offset
<1>1. 1 \in 1..Len(q)
  OBVIOUS
<1>2. s \in 1..Len(st) /\ st[s].live /\ pos[1] \in Nat /\ c < pos[1] /\ pos[1] <= o
  BY <1>1 DEF Queued
<1>3. c \in Nat /\ o \in Nat
  BY <1>2
<1> HIDE DEF s, c, o
<1>4. c + 1 \in Nat /\ c < c + 1 /\ c + 1 <= o
  BY <1>2, <1>3
<1>5. PICK k \in 1..Len(q) : q[k].s = s /\ pos[k] = c + 1
  BY <1>2, <1>4 DEF Queued, c, o
<1>6. CASE k = 1
  BY <1>5, <1>6 DEF c, s
<1>7. CASE k # 1
  <2>1. 1 < k
    BY <1>7
  <2>2. pos[1] < pos[k]
    BY <1>1, <1>5, <2>1 DEF Queued, s
  <2> QED BY <1>2, <1>3, <1>5, <2>2
<1> QED BY <1>6, <1>7

\* Store s has committed one event more; the queue p is q without its first event.
Numbers(st) == \A r \in 1..Len(st) : st[r].committed \in Nat /\ st[r].offset \in Nat

CommittedOne(st, st2, s) ==
  /\ Len(st2) = Len(st) /\ st2[s].committed = st[s].committed + 1
  /\ \A r \in 1..Len(st) : /\ st2[r].live = st[r].live /\ st2[r].file = st[r].file /\ st2[r].offset = st[r].offset
                           /\ (r # s => st2[r].committed = st[r].committed)

Shifted(q, p) == Len(p) = Len(q) - 1 /\ \A k \in 1..Len(q) - 1 : p[k] = q[k + 1]

LEMMA QueueTail ==
  ASSUME NEW q, NEW st, NEW d, InOrder(q, st, d), IsSeq(q), Len(q) > 0, Numbers(st), NEW s, s = q[1].s, NEW st2, CommittedOne(st, st2, s), NEW p, Shifted(q, p)
  PROVE  InOrder(p, st2, d)
<1>1. PICK pos \in [1..Len(q) -> Nat] : Queued(q, pos, st, d)
  BY DEF InOrder
<1> DEFINE N == Len(q) - 1
           pos2 == [k \in 1..N |-> pos[k + 1]]
<1>2. Len(q) \in Nat /\ N \in Nat /\ Len(p) = N /\ \A k \in 1..N : p[k] = q[k + 1]
  BY IsSeqLen DEF Shifted
<1>3. pos2 \in [1..N -> Nat] /\ \A k \in 1..N : k + 1 \in 1..Len(q) /\ pos2[k] = pos[k + 1]
  BY <1>2
<1>4. pos[1] = st[s].committed + 1
  BY <1>2, <1>1, HeadIsNext DEF Numbers
<1>5. s \in 1..Len(st)
  BY <1>2, <1>1 DEF Queued
<1> HIDE DEF pos2
<1>6. /\ Len(st2) = Len(st) /\ st2[s].committed = st[s].committed + 1
      /\ \A r \in 1..Len(st) : /\ st2[r].live = st[r].live /\ st2[r].file = st[r].file
                                /\ st2[r].offset = st[r].offset /\ (r # s => st2[r].committed = st[r].committed)
                                /\ st[r].committed \in Nat /\ st[r].offset \in Nat
  <2>1. \A r \in 1..Len(st) : st[r].committed \in Nat /\ st[r].offset \in Nat
    BY DEF Numbers
  <2>2. Len(st2) = Len(st) /\ st2[s].committed = st[s].committed + 1
    BY DEF CommittedOne
  <2>3. \A r \in 1..Len(st) : /\ st2[r].live = st[r].live /\ st2[r].file = st[r].file
                               /\ st2[r].offset = st[r].offset /\ (r # s => st2[r].committed = st[r].committed)
    BY DEF CommittedOne
  <2> QED BY <2>1, <2>2, <2>3
<1>7. ASSUME NEW k \in 1..N
      PROVE  /\ p[k].s \in 1..Len(st2) /\ st2[p[k].s].live /\ st2[p[k].s].file \in DOMAIN d
             /\ pos2[k] \in Nat /\ st2[p[k].s].committed < pos2[k] /\ pos2[k] <= st2[p[k].s].offset
             /\ p[k].e = d[st2[p[k].s].file][pos2[k]]
  <2> DEFINE r == p[k].s
  <2>1. p[k] = q[k + 1] /\ pos2[k] = pos[k + 1] /\ k + 1 \in 1..Len(q)
    BY <1>2, <1>3
  <2>2. /\ r \in 1..Len(st) /\ st[r].live /\ st[r].file \in DOMAIN d
        /\ pos[k + 1] \in Nat /\ st[r].committed < pos[k + 1] /\ pos[k + 1] <= st[r].offset
        /\ p[k].e = d[st[r].file][pos[k + 1]]
    BY <1>1, <2>1 DEF Queued
  <2> HIDE DEF r
  <2>3. st2[r].committed < pos2[k]
    <3>1. CASE r # s
      BY <1>6, <2>1, <2>2, <3>1
    <3>2. CASE r = s
      <4>1. 1 \in 1..Len(q) /\ 1 < k + 1
        BY <1>2
      <4>2. q[1].s = q[k + 1].s
        BY <2>1, <3>2 DEF r
      <4>3. pos[1] < pos[k + 1]
        BY <1>1, <2>1, <4>1, <4>2 DEF Queued
      <4> QED BY <1>4, <1>6, <2>1, <3>2, <4>3
    <3> QED BY <3>1, <3>2
  <2>4. /\ r \in 1..Len(st2) /\ st2[r].live /\ st2[r].file = st[r].file /\ st2[r].offset = st[r].offset
    BY <1>6, <2>2
  <2>5. p[k].e = d[st2[r].file][pos2[k]] /\ st2[r].file \in DOMAIN d /\ pos2[k] \in Nat /\ pos2[k] <= st2[r].offset
    BY <2>1, <2>2, <2>4
  <2> QED BY <2>3, <2>4, <2>5 DEF r
<1>8. ASSUME NEW k \in 1..N, NEW l \in 1..N, p[k].s = p[l].s, k < l PROVE pos2[k] < pos2[l]
  <2>1. k + 1 \in 1..Len(q) /\ l + 1 \in 1..Len(q) /\ k + 1 < l + 1 /\ q[k + 1].s = q[l + 1].s
    BY <1>2, <1>3, <1>8
  <2>2. pos[k + 1] < pos[l + 1]
    BY <1>1, <2>1 DEF Queued
  <2> QED BY <1>3, <2>2
<1>9. ASSUME NEW r \in 1..Len(st2), st2[r].live, NEW i \in Nat, st2[r].committed < i, i <= st2[r].offset
      PROVE  \E k \in 1..N : p[k].s = r /\ pos2[k] = i
  <2>1. r \in 1..Len(st) /\ st[r].live /\ i <= st[r].offset /\ st[r].committed \in Nat /\ st[s].committed \in Nat
    BY <1>5, <1>9, <1>6
  <2>2. st[r].committed < i /\ (r = s => i # pos[1])
    BY <1>4, <1>9, <1>6, <2>1
  <2>3. PICK k \in 1..Len(q) : q[k].s = r /\ pos[k] = i
    BY <1>1, <2>1, <2>2 DEF Queued
  <2>4. k # 1
    BY <2>2, <2>3
  <2>5. k - 1 \in 1..N /\ (k - 1) + 1 = k
    BY <1>2, <2>4
  <2>6. p[k - 1] = q[k] /\ pos2[k - 1] = pos[k]
    BY <1>2, <1>3, <2>5
  <2> QED BY <2>3, <2>5, <2>6
<1>10. Queued(p, pos2, st2, d)
  BY <1>2, <1>7, <1>8, <1>9 DEF Queued
<1> QED BY <1>2, <1>3, <1>10 DEF InOrder

LEMMA SendNextStep ==
  ASSUME ListInv, exposed = {}, SendNext
  PROVE  ListInv'
<1> USE InvParts
<1> DEFINE s == Head(out).s
           f == stores[s].file
           done == stores[s].committed + 1
<1>1. /\ out # <<>> /\ out' = Tail(out) /\ sent' = sent \cup {Head(out).e}
      /\ stores' = [stores EXCEPT ![s].committed = done] /\ ctl' = With(ctl, f, done)
      /\ UNCHANGED <<dir, store_list, list_lock, th, input>>
  BY DEF SendNext
<1>2. IsSeq(out) /\ Len(out) \in Nat /\ Len(out) > 0 /\ Head(out) = out[1]
  BY <1>1, IsSeqEmpty, IsSeqLen, IsSeqTail
<1>3. PICK pos \in [1..Len(out) -> Nat] : Queued(out, pos, stores, dir)
  BY DEF InOrder
<1>4. /\ s \in 1..Len(stores) /\ stores[s].live /\ f \in DOMAIN dir
      /\ pos[1] \in Nat /\ pos[1] <= stores[s].offset /\ Head(out).e = dir[f][pos[1]]
  <2>1. 1 \in 1..Len(out)
    BY <1>2
  <2> QED BY <1>2, <1>3, <2>1 DEF Queued
<1>5. /\ \A r \in 1..Len(stores) : /\ DOMAIN stores[r] = StoreFields
                                   /\ stores[r].committed \in Nat /\ stores[r].offset \in Nat
      /\ IsSeq(stores) /\ DOMAIN stores = 1..Len(stores) /\ Len(stores) \in Nat
  BY IsSeqLen DEF Listed
<1>6. pos[1] = done /\ done \in Nat
  BY <1>2, <1>3, <1>4, <1>5, HeadIsNext
<1> DEFINE es2 == [stores[s] EXCEPT !.committed = done]
<1>7. stores' = Updated(stores, s, es2)
  BY <1>1, <1>4, <1>5 DEF Updated
<1>8. /\ DOMAIN es2 = StoreFields /\ es2.committed = done /\ es2.offset = stores[s].offset /\ es2.live = stores[s].live
      /\ es2.file = f /\ es2.job = stores[s].job /\ es2.jobid_next = stores[s].jobid_next
  BY <1>4, <1>5 DEF StoreFields
<1> HIDE DEF es2
<1>9. IsSeq(stores') /\ Len(stores') = Len(stores)
      /\ \A r \in 1..Len(stores) : stores'[r] = IF r = s THEN es2 ELSE stores[r]
  BY <1>4, <1>5, <1>7, IsSeqUpdated
<1> HIDE DEF s, f, done
<1>10. stores'[s] = es2 /\ \A r \in 1..Len(stores) : r # s => stores'[r] = stores[r]
  BY <1>4, <1>9
<1>11. \A r \in 1..Len(stores) :
         /\ DOMAIN stores'[r] = StoreFields /\ stores'[r].committed \in Nat /\ stores'[r].offset = stores[r].offset
         /\ stores'[r].live = stores[r].live /\ stores'[r].job = stores[r].job
         /\ stores'[r].jobid_next = stores[r].jobid_next /\ stores'[r].file = stores[r].file
         /\ r # s => stores'[r].committed = stores[r].committed
  BY <1>5, <1>6, <1>8, <1>10 DEF f
<1>12. Listed(stores', store_list)
  <2>1. \A r, u \in 1..Len(stores) : stores[r].live /\ stores[u].live /\ stores'[r].file = stores'[u].file => r = u
    BY <1>11 DEF Listed
  <2> QED BY <1>5, <1>9, <1>11, <2>1, ListedMoved
<1>13. Holding(th, list_lock, stores', store_list)
  <2>1. Len(stores) \in Nat /\ Len(stores') \in Nat /\ Len(stores) <= Len(stores')
    BY <1>5, <1>9
  <2>2. \A r \in 1..Len(stores) : stores[r].live => stores'[r].live
    BY <1>11
  <2> QED BY <2>1, <2>2, HoldingStores
<1>14. done <= Len(dir[f]) /\ Len(dir[f]) \in Nat /\ \A i \in 1..done : dir[f][i] \in sent'
  <2>1. StoreAt(stores[s], dir, sent)
    BY <1>4
  <2>2. stores[s].offset <= Len(dir[f]) /\ \A i \in 1..stores[s].committed : dir[f][i] \in sent
    BY <1>4, <2>1 DEF StoreAt, f
  <2>3. Len(dir[f]) \in Nat /\ stores[s].offset \in Nat /\ stores[s].committed \in Nat
    BY <1>4, <1>5, IsSeqLen DEF Positioned
  <2>4. \A i \in 1..done : i \in 1..stores[s].committed \/ i = done
    BY <2>3 DEF done
  <2>5. dir[f][done] \in sent' /\ sent \subseteq sent'
    BY <1>1, <1>4, <1>6
  <2>6. ASSUME NEW i \in 1..done PROVE dir[f][i] \in sent'
    BY <2>2, <2>4, <2>5
  <2>7. done <= Len(dir[f])
    BY <1>4, <1>6, <2>2, <2>3
  <2> QED BY <2>3, <2>6, <2>7
<1>15. Positioned(dir, ctl', sent')
  <2>1. DOMAIN ctl' = DOMAIN ctl \cup {f} /\ ctl'[f] = done /\ \A m \in DOMAIN ctl \ {f} : ctl'[m] = ctl[m]
    BY <1>1 DEF With
  <2>2. sent \subseteq sent'
    BY <1>1
  <2>3. IsName(f)
    BY <1>4 DEF Listed, f
  <2> QED BY <1>4, <1>6, <1>14, <2>1, <2>2, <2>3 DEF Positioned
<1>16. ASSUME NEW r \in 1..Len(stores'), stores'[r].live PROVE StoreAt(stores'[r], dir, sent')
  <2>1. r \in 1..Len(stores) /\ stores[r].live
    BY <1>9, <1>11, <1>16
  <2>2. StoreAt(stores[r], dir, sent) /\ sent \subseteq sent'
    BY <1>1, <2>1
  <2>3. CASE r # s
    <3>1. stores'[r] = stores[r]
      BY <1>10, <2>1, <2>3
    <3> QED BY <2>2, <3>1 DEF StoreAt
  <2>4. CASE r = s
    <3>1. stores'[r] = es2 /\ stores[r].file = f
      BY <1>10, <2>4 DEF f
    <3>2. stores[r].offset <= Len(dir[f]) /\ done <= stores[r].offset
      BY <1>4, <1>6, <2>2, <2>4, <3>1 DEF StoreAt
    <3> QED BY <1>4, <1>8, <1>14, <2>4, <3>1, <3>2 DEF StoreAt
  <2> QED BY <2>3, <2>4
<1>17. IsSeq(out') /\ InOrder(out', stores', dir)
  <2>1. stores'[s].committed = stores[s].committed + 1
    BY <1>8, <1>10 DEF done
  <2>2. IsSeq(out') /\ s = out[1].s
    BY <1>1, <1>2, IsSeqTail DEF s
  <2>3. InOrder(out', stores', dir)
    <3>1. \A r \in 1..Len(stores) : stores[r].committed \in Nat /\ stores[r].offset \in Nat
      BY <1>5
    <3>2. \A r \in 1..Len(stores) : /\ stores'[r].live = stores[r].live /\ stores'[r].file = stores[r].file
                                    /\ stores'[r].offset = stores[r].offset
                                    /\ (r # s => stores'[r].committed = stores[r].committed)
      BY <1>11
    <3>3. Len(stores') = Len(stores) /\ IsSeq(out) /\ Len(out) > 0
      BY <1>2, <1>9
    <3>4. Len(out') = Len(out) - 1 /\ \A k \in 1..Len(out) - 1 : out'[k] = out[k + 1]
      BY <1>1, <3>3, IsSeqTail
    <3>5. Numbers(stores)
      BY <3>1 DEF Numbers
    <3>6. CommittedOne(stores, stores', s)
      BY <2>1, <3>2, <3>3 DEF CommittedOne
    <3>7. Shifted(out, out')
      BY <3>4 DEF Shifted
    <3> QED BY <2>2, <3>3, <3>5, <3>6, <3>7, QueueTail
  <2> QED BY <2>2, <2>3
<1>18. Somewhere(dir, sent', input)
  BY <1>1 DEF Somewhere
<1> QED BY <1>1, <1>12, <1>13, <1>15, <1>16, <1>17, <1>18 DEF ListInv

-----------------------------------------------------------------------------
(* Stores are found and made.                                               *)

\* The list sl2 is sl with x put in at p.
PutIn(sl, sl2, p, x) ==
  /\ IsSeq(sl2) /\ Len(sl2) = Len(sl) + 1 /\ p \in 1..Len(sl) + 1 /\ sl2[p] = x
  /\ \A k \in 1..Len(sl) : (k < p => sl2[k] = sl[k]) /\ (k >= p => sl2[k + 1] = sl[k])

LEMMA PutFirst ==
  ASSUME NEW sl, IsSeq(sl), NEW x
  PROVE  PutIn(sl, <<x>> \o sl, 1, x)
<1> DEFINE o == <<x>>
<1>1. IsSeq(o) /\ Len(o) = 1 /\ o[1] = x
  BY OneIsSeq
<1> HIDE DEF o
<1>2. /\ IsSeq(o \o sl) /\ Len(o \o sl) = 1 + Len(sl) /\ Len(sl) \in Nat
      /\ \A i \in 1..1 + Len(sl) : (o \o sl)[i] = IF i <= 1 THEN o[i] ELSE sl[i - 1]
  <2>1. /\ IsSeq(o \o sl) /\ Len(o \o sl) = Len(o) + Len(sl)
        /\ \A i \in 1..Len(o) + Len(sl) : (o \o sl)[i] = IF i <= Len(o) THEN o[i] ELSE sl[i - Len(o)]
    BY <1>1, IsSeqConcat
  <2>2. Len(o) = 1 /\ Len(sl) \in Nat
    BY <1>1, IsSeqLen
  <2> QED BY <2>1, <2>2
<1> DEFINE r == o \o sl
<1> HIDE DEF r
<1>3. \A k \in 1..Len(sl) : r[k + 1] = sl[k]
  <2> SUFFICES ASSUME NEW k \in 1..Len(sl) PROVE r[k + 1] = sl[k]
    OBVIOUS
  <2>1. k + 1 \in 1..1 + Len(sl) /\ ~(k + 1 <= 1) /\ (k + 1) - 1 = k
    BY <1>2
  <2> QED BY <1>2, <2>1 DEF r
<1>4. r[1] = x /\ IsSeq(r) /\ Len(r) = Len(sl) + 1
  BY <1>1, <1>2 DEF r
<1>5. PutIn(sl, r, 1, x)
  BY <1>2, <1>3, <1>4 DEF PutIn
<1> QED BY <1>5 DEF r, o

LEMMA PutBehind ==
  ASSUME NEW sl, IsSeq(sl), NEW d \in 1..Len(sl), NEW x
  PROVE  PutIn(sl, InsertAt(sl, d + 1, x), d + 1, x)
<1> DEFINE a == SubSeq(sl, 1, d)
           o == <<x>>
           b == SubSeq(sl, d + 1, Len(sl))
           c == a \o o
           r == c \o b
<1>1. Len(sl) \in Nat /\ d \in 0..Len(sl)
  BY IsSeqLen
<1>2. IsSeq(a) /\ Len(a) = d /\ \A i \in 1..d : a[i] = sl[i]
  BY <1>1, IsSeqPrefix
<1>3. IsSeq(b) /\ Len(b) = Len(sl) - d /\ \A i \in 1..Len(sl) - d : b[i] = sl[i + d]
  BY <1>1, IsSeqSuffix
<1>4. IsSeq(o) /\ Len(o) = 1 /\ o[1] = x
  BY OneIsSeq
<1>5. InsertAt(sl, d + 1, x) = r
  <2>1. (d + 1) - 1 = d
    BY <1>1
  <2> QED BY <2>1 DEF InsertAt
<1> HIDE DEF a, o, b
<1>6. IsSeq(c) /\ Len(c) = d + 1 /\ \A i \in 1..d + 1 : c[i] = IF i <= d THEN a[i] ELSE o[i - d]
  <2>1. /\ IsSeq(a \o o) /\ Len(a \o o) = Len(a) + Len(o)
        /\ \A i \in 1..Len(a) + Len(o) : (a \o o)[i] = IF i <= Len(a) THEN a[i] ELSE o[i - Len(a)]
    BY <1>2, <1>4, IsSeqConcat
  <2>2. Len(a) = d /\ Len(o) = 1
    BY <1>2, <1>4
  <2> QED BY <2>1, <2>2
<1> HIDE DEF c
<1>7. IsSeq(r) /\ Len(r) = (d + 1) + (Len(sl) - d)
      /\ \A i \in 1..(d + 1) + (Len(sl) - d) : r[i] = IF i <= d + 1 THEN c[i] ELSE b[i - (d + 1)]
  <2>1. /\ IsSeq(c \o b) /\ Len(c \o b) = Len(c) + Len(b)
        /\ \A i \in 1..Len(c) + Len(b) : (c \o b)[i] = IF i <= Len(c) THEN c[i] ELSE b[i - Len(c)]
    BY <1>3, <1>6, IsSeqConcat
  <2>2. Len(c) = d + 1 /\ Len(b) = Len(sl) - d
    BY <1>3, <1>6
  <2> QED BY <2>1, <2>2
<1> HIDE DEF r
<1>8. Len(r) = Len(sl) + 1 /\ d + 1 \in 1..Len(sl) + 1 /\ Len(sl) + 1 = (d + 1) + (Len(sl) - d)
  BY <1>1, <1>7
<1>9. r[d + 1] = x
  BY <1>1, <1>4, <1>6, <1>7, <1>8
<1>10. ASSUME NEW k \in 1..Len(sl), k < d + 1 PROVE r[k] = sl[k]
  <2>1. k \in 1..d /\ k \in 1..d + 1 /\ k \in 1..Len(sl) + 1 /\ k <= d /\ k <= d + 1
    BY <1>1, <1>10
  <2> QED BY <1>2, <1>6, <1>7, <1>8, <2>1
<1>11. ASSUME NEW k \in 1..Len(sl), k >= d + 1 PROVE r[k + 1] = sl[k]
  <2>1. k + 1 \in 1..Len(sl) + 1 /\ ~(k + 1 <= d + 1) /\ (k + 1) - (d + 1) = k - d
    BY <1>1, <1>11
  <2>2. k - d \in 1..Len(sl) - d /\ (k - d) + d = k
    BY <1>1, <1>11
  <2> QED BY <1>3, <1>7, <1>8, <2>1, <2>2
<1>12. PutIn(sl, r, d + 1, x)
  BY <1>7, <1>8, <1>9, <1>10, <1>11 DEF PutIn
<1> QED BY <1>5, <1>12

\* A list without x, without repetitions, and with x.
Lacks(sl, x) == \A k \in 1..Len(sl) : sl[k] # x
OnceIn(sl) == \A k, l \in 1..Len(sl) : sl[k] = sl[l] => k = l
Widened(sl, sl2, x) ==
  /\ \A s : (\E k \in 1..Len(sl2) : sl2[k] = s) <=> (s = x \/ \E k \in 1..Len(sl) : sl[k] = s)
  /\ OnceIn(sl2)

LEMMA PutInRange ==
  ASSUME NEW sl, NEW sl2, NEW p, NEW x, IsSeq(sl), PutIn(sl, sl2, p, x),
         Lacks(sl, x), OnceIn(sl)
  PROVE  Widened(sl, sl2, x)
<1> USE DEF Lacks, OnceIn, Widened
<1> DEFINE N == Len(sl)
<1>1. N \in Nat /\ Len(sl2) = N + 1 /\ p \in 1..N + 1 /\ sl2[p] = x
  BY IsSeqLen DEF PutIn
<1>2. ASSUME NEW k \in 1..N + 1, k # p
      PROVE  \E j \in 1..N : sl2[k] = sl[j] /\ j = IF k < p THEN k ELSE k - 1
  <2>1. CASE k < p
    <3>1. k \in 1..N
      BY <1>1, <2>1
    <3> QED BY <2>1, <3>1 DEF PutIn
  <2>2. CASE ~(k < p)
    <3>1. k - 1 \in 1..N /\ k - 1 >= p /\ (k - 1) + 1 = k
      BY <1>1, <1>2, <2>2
    <3>2. sl2[k] = sl[k - 1]
      BY <3>1 DEF PutIn
    <3> QED BY <2>2, <3>1, <3>2
  <2> QED BY <2>1, <2>2
<1>3. ASSUME NEW j \in 1..N PROVE \E k \in 1..N + 1 : sl2[k] = sl[j]
  <2>1. CASE j < p
    <3>1. j \in 1..N + 1 /\ sl2[j] = sl[j]
      BY <1>1, <2>1 DEF PutIn
    <3> QED BY <3>1
  <2>2. CASE ~(j < p)
    <3>1. j + 1 \in 1..N + 1 /\ j >= p
      BY <1>1, <2>2
    <3>2. sl2[j + 1] = sl[j]
      BY <3>1 DEF PutIn
    <3> QED BY <3>1, <3>2
  <2> QED BY <2>1, <2>2
<1>4. ASSUME NEW k \in 1..N + 1, NEW l \in 1..N + 1, sl2[k] = sl2[l] PROVE k = l
  <2>1. CASE k = p \/ l = p
    BY <1>1, <1>2, <1>4, <2>1
  <2>2. CASE k # p /\ l # p
    <3>1. PICK i \in 1..N : sl2[k] = sl[i] /\ i = IF k < p THEN k ELSE k - 1
      BY <1>2, <2>2
    <3>2. PICK j \in 1..N : sl2[l] = sl[j] /\ j = IF l < p THEN l ELSE l - 1
      BY <1>2, <2>2
    <3>3. i = j
      BY <1>4, <3>1, <3>2
    <3> QED BY <1>1, <2>2, <3>1, <3>2, <3>3
  <2> QED BY <2>1, <2>2
<1>5. ASSUME NEW s PROVE (\E k \in 1..N + 1 : sl2[k] = s) <=> (s = x \/ \E k \in 1..N : sl[k] = s)
  BY <1>1, <1>2, <1>3, SMTT(30)
<1> QED BY <1>1, <1>4, <1>5

\* The stores st2 are st and a new one, that of a file without a store.
Known(st, st2) ==
  \A s \in 1..Len(st) :
    /\ DOMAIN st2[s] = DOMAIN st[s] /\ st2[s].committed = st[s].committed /\ st2[s].offset = st[s].offset
    /\ st2[s].live = st[s].live /\ st2[s].job = st[s].job /\ st2[s].file = st[s].file

Ringed(st, st2, n) ==
  \/ /\ st2[n].jobid_next = n
     /\ \A s \in 1..Len(st) : st2[s].jobid_next = st[s].jobid_next
  \/ \E a \in 1..Len(st) :
       /\ st[a].live /\ st2[a].jobid_next = n /\ st2[n].jobid_next = st[a].jobid_next
       /\ \A s \in 1..Len(st) : s # a => st2[s].jobid_next = st[s].jobid_next

LEMMA ListedNew ==
  ASSUME NEW st, NEW sl, Listed(st, sl), NEW n, n = Len(st) + 1, NEW st2, IsSeq(st2), Len(st2) = n, Known(st, st2),
         DOMAIN st2[n] = StoreFields, st2[n].committed = 0, st2[n].offset = 0, st2[n].live = TRUE,
         IsName(st2[n].file), st2[n].job = st2[n].file[1], Ringed(st, st2, n),
         \A s \in 1..Len(st) : st[s].live => st[s].file # st2[n].file,
         NEW sl2, NEW p, PutIn(sl, sl2, p, n)
  PROVE  Listed(st2, sl2)
<1> DEFINE N == Len(st)
<1>1. /\ N \in Nat /\ Len(sl) \in Nat /\ n = N + 1 /\ IsSeq(sl)
      /\ (\A k \in 1..Len(sl) : sl[k] \in 1..N) /\ \A k, l \in 1..Len(sl) : sl[k] = sl[l] => k = l
  BY ListedRange DEF Listed
<1>2. /\ \A s \in 1..N : DOMAIN st[s] = StoreFields /\ st[s].committed \in Nat /\ st[s].offset \in Nat
      /\ \A s \in 1..N : st[s].live <=> \E k \in 1..Len(sl) : sl[k] = s
  BY DEF Listed
<1>3. /\ \A s : (\E k \in 1..Len(sl2) : sl2[k] = s) <=> (s = n \/ \E k \in 1..Len(sl) : sl[k] = s)
      /\ \A k, l \in 1..Len(sl2) : sl2[k] = sl2[l] => k = l
  <2>1. Lacks(sl, n) /\ OnceIn(sl) /\ IsSeq(sl) /\ PutIn(sl, sl2, p, n)
    BY <1>1 DEF Lacks, OnceIn
  <2>2. Widened(sl, sl2, n)
    BY ONLY <2>1, PutInRange
  <2> QED BY ONLY <2>2 DEF Widened, OnceIn
<1>4. \A s \in 1..n : s \in 1..N \/ s = n
  BY <1>1
<1>5. n \in 1..n /\ n \notin 1..N /\ \A s \in 1..N : s \in 1..n
  BY <1>1
<1>6. \A k \in 1..Len(sl2) : sl2[k] \in 1..n
  <2> SUFFICES ASSUME NEW k \in 1..Len(sl2) PROVE sl2[k] \in 1..n
    OBVIOUS
  <2>1. sl2[k] = n \/ \E j \in 1..Len(sl) : sl[j] = sl2[k]
    BY <1>3
  <2> QED BY <1>1, <1>5, <2>1
<1>7. \A s \in 1..n : DOMAIN st2[s] = StoreFields /\ st2[s].committed \in Nat /\ st2[s].offset \in Nat
  <2> SUFFICES ASSUME NEW s \in 1..n PROVE DOMAIN st2[s] = StoreFields /\ st2[s].committed \in Nat /\ st2[s].offset \in Nat
    OBVIOUS
  <2> QED BY <1>2, <1>4 DEF Known
<1>8. ASSUME NEW s \in 1..n PROVE st2[s].live <=> \E k \in 1..Len(sl2) : sl2[k] = s
  <2>1. CASE s = n
    BY <1>3, <2>1
  <2>2. CASE s \in 1..N
    <3>1. s # n /\ st2[s].live = st[s].live
      BY <1>5, <2>2 DEF Known
    <3>2. (\E k \in 1..Len(sl2) : sl2[k] = s) <=> \E k \in 1..Len(sl) : sl[k] = s
      BY <1>3, <3>1
    <3> QED BY <1>2, <2>2, <3>1, <3>2
  <2> QED BY <1>4, <2>1, <2>2
<1>9. ASSUME NEW s \in 1..N, st[s].live
      PROVE  IsName(st[s].file) /\ st[s].job = st[s].file[1] /\ st[s].jobid_next \in 1..N /\ st[st[s].jobid_next].live
  BY <1>9 DEF Listed
<1>10. ASSUME NEW s \in 1..n, st2[s].live
       PROVE  IsName(st2[s].file) /\ st2[s].job = st2[s].file[1]
  <2>1. CASE s = n
    BY <2>1
  <2>2. CASE s \in 1..N
    <3>1. st[s].live /\ st2[s].file = st[s].file /\ st2[s].job = st[s].job
      BY <1>10, <2>2 DEF Known
    <3> QED BY <1>9, <2>2, <3>1
  <2> QED BY <1>4, <2>1, <2>2
<1>11. ASSUME NEW s \in 1..n, st2[s].live
       PROVE  st2[s].jobid_next \in 1..n /\ st2[st2[s].jobid_next].live
  <2>1. \A r \in 1..N : st[r].live => r \in 1..n /\ st2[r].live
    BY <1>5 DEF Known
  <2>2. n \in 1..n /\ st2[n].live
    BY <1>5
  <2>3. CASE s = n
    <3>1. st2[n].jobid_next = n \/ \E a \in 1..N : st[a].live /\ st2[n].jobid_next = st[a].jobid_next
      BY DEF Ringed
    <3> QED BY <1>9, <2>1, <2>2, <2>3, <3>1
  <2>4. CASE s \in 1..N
    <3>1. st2[s].jobid_next = n \/ st2[s].jobid_next = st[s].jobid_next
      BY <2>4 DEF Ringed
    <3>2. st[s].live
      BY <1>11, <2>4 DEF Known
    <3>3. st[s].jobid_next \in 1..N /\ st[st[s].jobid_next].live
      BY <1>9, <2>4, <3>2
    <3> QED BY <2>1, <2>2, <3>1, <3>3
  <2> QED BY <1>4, <2>3, <2>4
<1>12. ASSUME NEW s \in 1..n, NEW r \in 1..n, st2[s].live, st2[r].live, st2[s].jobid_next = st2[r].jobid_next
       PROVE  s = r
  <2>1. \A u \in 1..N : st2[u].live => st[u].live
    BY DEF Known
  <2>2. \A u, v \in 1..N : st[u].live /\ st[v].live /\ st[u].jobid_next = st[v].jobid_next => u = v
    BY DEF Listed
  <2>3. \A u \in 1..N : st2[u].live => st[u].jobid_next # n
    BY <1>5, <1>9, <2>1
  <2>4. CASE /\ st2[n].jobid_next = n
             /\ \A u \in 1..N : st2[u].jobid_next = st[u].jobid_next
    BY <1>4, <1>12, <2>1, <2>2, <2>3, <2>4
  <2>5. ASSUME NEW a \in 1..N, st[a].live, st2[a].jobid_next = n, st2[n].jobid_next = st[a].jobid_next,
               \A u \in 1..N : u # a => st2[u].jobid_next = st[u].jobid_next
        PROVE  s = r
    <3>1. st[a].jobid_next # n
      BY <1>5, <1>9, <2>5
    <3>2. \A u \in 1..N : st2[u].live /\ u # a => st2[u].jobid_next # n /\ st2[u].jobid_next # st[a].jobid_next
      BY <2>1, <2>2, <2>3, <2>5
    <3>3. CASE s = n \/ r = n
      BY <1>4, <1>12, <2>5, <3>1, <3>2, <3>3
    <3>4. CASE s \in 1..N /\ r \in 1..N
      BY <1>12, <2>1, <2>2, <2>5, <3>2, <3>4
    <3> QED BY <1>4, <3>3, <3>4
  <2> QED BY <2>4, <2>5 DEF Ringed
<1>13. ASSUME NEW s \in 1..n, NEW r \in 1..n, st2[s].live, st2[r].live, st2[s].file = st2[r].file
       PROVE  s = r
  <2>1. \A u \in 1..N : st2[u].live => st[u].live /\ st2[u].file = st[u].file /\ st[u].file # st2[n].file
    BY DEF Known
  <2>2. \A u, v \in 1..N : st[u].live /\ st[v].live /\ st[u].file = st[v].file => u = v
    BY DEF Listed
  <2> QED BY <1>4, <1>13, <2>1, <2>2
<1>14. IsSeq(sl2) /\ Len(st2) = n
  BY DEF PutIn
<1>15. \A s \in 1..n :
         /\ DOMAIN st2[s] = StoreFields /\ st2[s].committed \in Nat /\ st2[s].offset \in Nat
         /\ st2[s].live <=> \E k \in 1..Len(sl2) : sl2[k] = s
         /\ st2[s].live =>
              /\ IsName(st2[s].file) /\ st2[s].job = st2[s].file[1]
              /\ st2[s].jobid_next \in 1..n /\ st2[st2[s].jobid_next].live
  BY <1>7, <1>8, <1>10, <1>11
<1>16. \A s, r \in 1..n : st2[s].live /\ st2[r].live =>
         /\ st2[s].jobid_next = st2[r].jobid_next => s = r
         /\ st2[s].file = st2[r].file => s = r
  BY <1>12, <1>13
<1> HIDE DEF N
<1> QED BY <1>3, <1>6, <1>14, <1>15, <1>16 DEF Listed

\* What event_store_find gives: a store of the file n, and the others as they were.
FoundIn(r, n) ==
  /\ Listed(r.stores, r.list) /\ Len(stores) <= Len(r.stores) /\ Known(stores, r.stores)
  /\ r.s \in 1..Len(r.stores) /\ r.stores[r.s].live /\ r.stores[r.s].file = n
  /\ \A s \in 1..Len(r.stores) : s \notin 1..Len(stores) =>
       s = r.s /\ r.stores[s].committed = 0 /\ r.stores[s].offset = 0

LEMMA InsertedFound ==
  ASSUME Listed(stores, store_list), NEW job, NEW filename, filename = NoName \/ IsName(filename),
         filename # NoName => filename[1] = job, Matching(job, filename) = {}
  PROVE  FoundIn(Inserted(job, filename), IF filename = NoName THEN <<job, 0>> ELSE filename)
<1> DEFINE f == IF filename = NoName THEN <<job, 0>> ELSE filename
           N == Len(stores)
           new == N + 1
           d == IF OfJob(job) = {} THEN 0 ELSE Max(OfJob(job))
           joins == filename # NoName /\ d # 0
           es == event_store_create(job, filename)
           a == store_list[d]
           sa == [stores[a] EXCEPT !.jobid_next = new]
           en == [es EXCEPT !.jobid_next = stores[a].jobid_next]
           st2 == IF joins THEN Append([stores EXCEPT ![a].jobid_next = new], en) ELSE Append(stores, es)
           sl2 == IF joins /\ filename[2] = 0 THEN InsertAt(store_list, d + 1, new) ELSE <<new>> \o store_list
<1>1. /\ Inserted(job, filename).s = new /\ Inserted(job, filename).stores = st2 /\ Inserted(job, filename).list = sl2
  BY DEF Inserted
<1>2. /\ DOMAIN stores = 1..N /\ N \in Nat /\ Len(store_list) \in Nat /\ IsSeq(stores) /\ IsSeq(store_list)
      /\ \A k \in 1..Len(store_list) : store_list[k] \in 1..N /\ stores[store_list[k]].live
      /\ \A s \in 1..N : DOMAIN stores[s] = StoreFields
  BY ListedRange DEF Listed
<1>3. IsName(f) /\ f[1] = job
  BY DEF IsName
<1>4. ASSUME NEW s \in 1..N, stores[s].live PROVE stores[s].file # f
  <2>1. PICK k \in 1..Len(store_list) : store_list[k] = s
    BY <1>4 DEF Listed
  <2>2. stores[s].job = stores[s].file[1]
    BY <1>4 DEF Listed
  <2>3. CASE stores[s].file = f
    <3>1. k \in OfJob(job)
      BY <1>3, <2>1, <2>2, <2>3 DEF OfJob
    <3>2. k \in Matching(job, filename)
      BY <2>1, <2>3, <3>1 DEF Matching
    <3> QED BY <3>2
  <2> QED BY <2>3
<1>5. d # 0 => d \in 1..Len(store_list)
  <2>1. CASE OfJob(job) = {}
    BY <2>1
  <2>2. CASE OfJob(job) # {}
    <3>1. OfJob(job) \in SUBSET Nat /\ \A k \in OfJob(job) : k <= Len(store_list) /\ k \in 1..Len(store_list)
      BY <1>2 DEF OfJob
    <3>2. Max(OfJob(job)) \in OfJob(job)
      BY <1>2, <2>2, <3>1, MaxProperty
    <3> QED BY <2>2, <3>1, <3>2
  <2> QED BY <2>1, <2>2
<1>6. /\ DOMAIN es = StoreFields /\ es.committed = 0 /\ es.offset = 0 /\ es.live = TRUE /\ es.job = job
      /\ es.file = f /\ es.jobid_next = new
  BY DEF event_store_create, StoreFields
<1> HIDE DEF f, d, es
<1>7. \E p : PutIn(store_list, sl2, p, new)
  <2>1. CASE joins /\ filename[2] = 0
    <3>1. sl2 = InsertAt(store_list, d + 1, new)
      BY <2>1
    <3> HIDE DEF sl2, new
    <3> QED BY <1>2, <1>5, <2>1, <3>1, PutBehind
  <2>2. CASE ~(joins /\ filename[2] = 0)
    <3>1. sl2 = <<new>> \o store_list
      BY <2>2
    <3> HIDE DEF sl2, new
    <3> QED BY <1>2, <3>1, PutFirst
  <2> QED BY <2>1, <2>2
<1>8. /\ IsSeq(st2) /\ Len(st2) = new /\ Known(stores, st2) /\ Ringed(stores, st2, new)
      /\ DOMAIN st2[new] = StoreFields /\ st2[new].committed = 0 /\ st2[new].offset = 0 /\ st2[new].live = TRUE
      /\ st2[new].file = f /\ st2[new].job = job
  <2>1. CASE ~joins
    <3>1. st2 = Append(stores, es)
      BY <2>1
    <3> HIDE DEF st2
    <3>2. IsSeq(st2) /\ Len(st2) = new /\ st2[new] = es /\ \A s \in 1..N : st2[s] = stores[s]
      BY <1>2, <3>1, IsSeqAppend
    <3>3. Known(stores, st2)
      BY <3>2 DEF Known
    <3>4. Ringed(stores, st2, new)
      BY <1>6, <3>2 DEF Ringed
    <3> QED BY <1>6, <3>2, <3>3, <3>4
  <2>2. CASE joins
    <3>1. a \in 1..N /\ stores[a].live /\ DOMAIN stores[a] = StoreFields
      BY <1>2, <1>5, <2>2
    <3> HIDE DEF a
    <3>2. [stores EXCEPT ![a].jobid_next = new] = Updated(stores, a, sa)
      BY <1>2, <3>1 DEF Updated
    <3>3. /\ DOMAIN sa = StoreFields /\ sa.committed = stores[a].committed /\ sa.offset = stores[a].offset
          /\ sa.live = stores[a].live /\ sa.job = stores[a].job /\ sa.file = stores[a].file /\ sa.jobid_next = new
      BY <3>1 DEF StoreFields
    <3>4. /\ DOMAIN en = StoreFields /\ en.committed = 0 /\ en.offset = 0 /\ en.live = TRUE /\ en.job = job
          /\ en.file = f /\ en.jobid_next = stores[a].jobid_next
      BY <1>6 DEF StoreFields
    <3>5. st2 = Append(Updated(stores, a, sa), en)
      BY <2>2, <3>2
    <3> HIDE DEF st2, sa, en
    <3> DEFINE u == Updated(stores, a, sa)
    <3>6. IsSeq(u) /\ Len(u) = N /\ \A s \in 1..N : u[s] = IF s = a THEN sa ELSE stores[s]
      BY <1>2, <3>1, IsSeqUpdated
    <3> HIDE DEF u
    <3>7. st2 = Append(u, en)
      BY <3>5 DEF u
    <3>8. IsSeq(st2) /\ Len(st2) = new /\ st2[new] = en /\ \A s \in 1..N : st2[s] = u[s]
      BY <3>6, <3>7, IsSeqAppend
    <3>9. st2[a] = sa /\ \A s \in 1..N : s # a => st2[s] = stores[s]
      BY <3>1, <3>6, <3>8
    <3>10. Known(stores, st2)
      BY <3>1, <3>3, <3>9 DEF Known
    <3>11. Ringed(stores, st2, new)
      BY <3>1, <3>3, <3>4, <3>8, <3>9 DEF Ringed
    <3> QED BY <3>4, <3>8, <3>10, <3>11
  <2> QED BY <2>1, <2>2
<1> HIDE DEF st2, sl2
<1>9. Listed(st2, sl2)
  <2>1. PICK p : PutIn(store_list, sl2, p, new)
    BY <1>7
  <2>2. IsName(st2[new].file) /\ st2[new].job = st2[new].file[1]
    BY <1>3, <1>8
  <2>3. \A s \in 1..N : stores[s].live => stores[s].file # st2[new].file
    BY <1>4, <1>8
  <2> QED BY <1>8, <2>1, <2>2, <2>3, ListedNew
<1>10. \A s \in 1..new : s \notin 1..N => s = new
  BY <1>2
<1>11. new \in 1..new /\ N <= new
  BY <1>2
<1> QED BY <1>1, <1>8, <1>9, <1>10, <1>11 DEF FoundIn, f

LEMMA FindFound ==
  ASSUME Listed(stores, store_list), NEW job, NEW filename, filename = NoName \/ IsName(filename),
         filename # NoName => filename[1] = job
  PROVE  FoundIn(event_store_find(job, filename), IF filename = NoName THEN <<job, 0>> ELSE filename)
<1> DEFINE f == IF filename = NoName THEN <<job, 0>> ELSE filename
           k == Matching(job, filename)
           r == [s |-> store_list[Min(k)], stores |-> stores, list |-> store_list]
<1>1. CASE k = {}
  BY <1>1, InsertedFound DEF event_store_find
<1>2. CASE k # {}
  <2>1. event_store_find(job, filename) = r
    BY <1>2 DEF event_store_find
  <2>2. /\ Len(stores) \in Nat /\ Len(store_list) \in Nat
        /\ \A j \in 1..Len(store_list) : store_list[j] \in 1..Len(stores) /\ stores[store_list[j]].live
    BY ListedRange DEF Listed
  <2>3. k \in SUBSET Nat /\ \A j \in k : j \in 1..Len(store_list) /\ stores[store_list[j]].file = f
    BY <2>2 DEF Matching, OfJob
  <2>4. Min(k) \in k
    BY <1>2, <2>3, MinProperty
  <2> DEFINE s == store_list[Min(k)]
  <2>5. s \in 1..Len(stores) /\ stores[s].live /\ stores[s].file = f
    BY <2>2, <2>3, <2>4
  <2>6. r.s = s /\ r.stores = stores /\ r.list = store_list
    OBVIOUS
  <2> HIDE DEF s, r, f
  <2>7. Known(stores, stores)
    BY DEF Known
  <2>8. FoundIn(r, f)
    BY <2>2, <2>5, <2>6, <2>7 DEF FoundIn
  <2> QED BY <2>1, <2>8 DEF f
<1> QED BY <1>1, <1>2

\* The queue is as it was, and a new store has nothing in it.
LEMMA FoundKept ==
  ASSUME ListInv, exposed = {}, NEW st2, NEW n, NEW s2,
         Len(st2) \in Nat, Len(stores) <= Len(st2), Known(stores, st2), st2[s2].file = n,
         \A s \in 1..Len(st2) : s \notin 1..Len(stores) => s = s2 /\ st2[s].committed = 0 /\ st2[s].offset = 0,
         n \in DOMAIN dir \/ n[2] = 0
  PROVE  /\ InOrder(out, st2, dir)
         /\ \A s \in 1..Len(st2) : st2[s].live => StoreAt(st2[s], dir, sent)
<1> USE InvParts
<1> DEFINE N == Len(stores)
           M == Len(st2)
<1>1. N \in Nat /\ \A s \in 1..N : s \in 1..M
  BY ListedRange
<1>2. \A s \in 1..N : /\ st2[s].committed = stores[s].committed /\ st2[s].offset = stores[s].offset
                      /\ st2[s].live = stores[s].live /\ st2[s].file = stores[s].file
  BY DEF Known
<1>3. PICK pos \in [1..Len(out) -> Nat] : Queued(out, pos, stores, dir)
  BY DEF InOrder
<1>4. ASSUME NEW k \in 1..Len(out)
      PROVE  /\ out[k].s \in 1..M /\ st2[out[k].s].live /\ st2[out[k].s].file \in DOMAIN dir
             /\ pos[k] \in Nat /\ st2[out[k].s].committed < pos[k] /\ pos[k] <= st2[out[k].s].offset
             /\ out[k].e = dir[st2[out[k].s].file][pos[k]]
  <2>1. out[k].s \in 1..N
    BY <1>3 DEF Queued
  <2> QED BY <1>1, <1>2, <1>3, <2>1 DEF Queued
<1>5. ASSUME NEW s \in 1..M, st2[s].live, NEW i \in Nat, st2[s].committed < i, i <= st2[s].offset
      PROVE  \E k \in 1..Len(out) : out[k].s = s /\ pos[k] = i
  <2>1. s \in 1..N
    BY <1>5
  <2>2. stores[s].live /\ stores[s].committed < i /\ i <= stores[s].offset
    BY <1>2, <1>5, <2>1
  <2>3. \A r \in 1..N : stores[r].live => \A j \in Nat : stores[r].committed < j /\ j <= stores[r].offset =>
                                            \E k \in 1..Len(out) : out[k].s = r /\ pos[k] = j
    BY ONLY <1>3, Zenon DEF Queued, N
  <2> HIDE DEF N, M
  <2> QED BY ONLY <2>1, <2>2, <2>3, i \in Nat, SMT
<1>6. Queued(out, pos, st2, dir)
  BY <1>3, <1>4, <1>5 DEF Queued
<1>7. InOrder(out, st2, dir)
  BY <1>3, <1>6 DEF InOrder
<1>8. ASSUME NEW s \in 1..M, st2[s].live PROVE StoreAt(st2[s], dir, sent)
  <2>1. CASE s \in 1..N
    <3>1. StoreAt(stores[s], dir, sent)
      BY <1>2, <1>8, <2>1
    <3> QED BY <1>2, <2>1, <3>1 DEF StoreAt
  <2>2. CASE s \notin 1..N
    <3>1. st2[s].committed = 0 /\ st2[s].offset = 0 /\ st2[s].file = n
      BY <2>2
    <3>2. \A m \in DOMAIN dir : Len(dir[m]) \in Nat
      BY IsSeqLen DEF Positioned
    <3> QED BY <3>1, <3>2 DEF StoreAt
  <2> QED BY <2>1, <2>2
<1> QED BY <1>7, <1>8

LEMMA GetMessageStep ==
  ASSUME ListInv, exposed = {}, GetMessage
  PROVE  ListInv'
<1> USE InvParts
<1> DEFINE m == Head(input.get)
           n == <<m.job, 0>>
           r == event_store_find(m.job, NoName)
           v == [Thread("read") EXCEPT !.es = r.s, !.p = r.s, !.alone = parse_cmd(m) = "flush"]
<1>1. /\ th["main"].pc = "idle" /\ list_lock.writer = "" /\ stores' = r.stores /\ store_list' = r.list
      /\ th' = [th EXCEPT !["main"] = v] /\ input' = [input EXCEPT !.get = Tail(input.get)]
      /\ UNCHANGED <<dir, ctl, list_lock, out, sent>>
  BY DEF GetMessage, WriteLockable, ReadLockable
<1>2. FoundIn(r, n)
  BY FindFound
<1>3. n[2] = 0
  OBVIOUS
<1>4. DOMAIN v = ThreadFields /\ v.pc = "read" /\ v.es = r.s /\ v.p = r.s
  BY DEF Thread, ThreadFields
<1> HIDE DEF n, r, v
<1>5. /\ Listed(stores', store_list') /\ Len(stores) <= Len(stores') /\ Known(stores, stores')
      /\ r.s \in 1..Len(stores') /\ stores'[r.s].live /\ stores'[r.s].file = n
      /\ \A s \in 1..Len(stores') : s \notin 1..Len(stores) =>
           s = r.s /\ stores'[s].committed = 0 /\ stores'[s].offset = 0
  BY <1>1, <1>2 DEF FoundIn
<1>6. Len(stores) \in Nat /\ Len(stores') \in Nat
  BY <1>5, ListedRange
<1>7. InOrder(out, stores', dir) /\ \A s \in 1..Len(stores') : stores'[s].live => StoreAt(stores'[s], dir, sent)
  BY <1>3, <1>5, <1>6, FoundKept, SMTT(30)
<1>8. Holding(th, list_lock, stores', store_list')
  <2>1. \A s \in 1..Len(stores) : stores[s].live => stores'[s].live
    BY <1>5 DEF Known
  <2> QED BY <1>1, <1>5, <1>6, <2>1, HoldingStores
<1>9. Live(stores', r.s)
  BY <1>5 DEF Live
<1>10. Holding(th', list_lock, stores', store_list')
  BY <1>1, <1>4, <1>8, <1>9, MainHolding
<1>11. Somewhere(dir, sent, input')
  BY <1>1, InputKept
<1> QED BY <1>1, <1>5, <1>7, <1>10, <1>11 DEF ListInv

\* The position of a control file, for a store of which nothing is in the queue.
Repositioned(e, e2, i) ==
  /\ DOMAIN e2 = StoreFields /\ e2.committed = i /\ e2.offset = e.offset /\ e2.live = e.live
  /\ e2.job = e.job /\ e2.file = e.file /\ e2.jobid_next = e.jobid_next

LEMMA FreshKept ==
  ASSUME NEW st, NEW sl, Listed(st, sl), NEW d, NEW c, NEW S, Positioned(d, c, S),
         NEW q, InOrder(q, st, d), \A s \in 1..Len(st) : st[s].live => StoreAt(st[s], d, S),
         NEW r \in 1..Len(st), st[r].live, st[r].offset = 0, st[r].file \in DOMAIN c, st[r].file \in DOMAIN d,
         NEW e2, Repositioned(st[r], e2, c[st[r].file]), NEW st2, st2 = Updated(st, r, e2)
  PROVE  /\ Listed(st2, sl) /\ InOrder(q, st2, d) /\ Len(st2) = Len(st)
         /\ \A s \in 1..Len(st) : st2[s].live = st[s].live
         /\ \A s \in 1..Len(st2) : st2[s].live => StoreAt(st2[s], d, S)
<1> DEFINE n == st[r].file
<1>1. /\ IsSeq(st) /\ DOMAIN st = 1..Len(st) /\ Len(st) \in Nat
      /\ \A s \in 1..Len(st) : DOMAIN st[s] = StoreFields /\ st[s].committed \in Nat /\ st[s].offset \in Nat
  BY IsSeqLen DEF Listed
<1>2. c[n] \in Nat /\ Len(d[n]) \in Nat /\ c[n] <= Len(d[n]) /\ \A i \in 1..c[n] : d[n][i] \in S
  BY IsSeqLen DEF Positioned
<1>3. /\ DOMAIN e2 = StoreFields /\ e2.committed = c[n] /\ e2.offset = 0 /\ e2.live = st[r].live
      /\ e2.job = st[r].job /\ e2.file = n /\ e2.jobid_next = st[r].jobid_next
  BY DEF Repositioned
<1> HIDE DEF n
<1>4. IsSeq(st2) /\ Len(st2) = Len(st) /\ \A s \in 1..Len(st) : st2[s] = IF s = r THEN e2 ELSE st[s]
  BY <1>1, IsSeqUpdated
<1>5. \A s \in 1..Len(st) :
        /\ DOMAIN st2[s] = StoreFields /\ st2[s].committed \in Nat /\ st2[s].offset \in Nat
        /\ st2[s].live = st[s].live /\ st2[s].job = st[s].job /\ st2[s].jobid_next = st[s].jobid_next
        /\ st2[s].file = st[s].file /\ st2[s].offset = st[s].offset
        /\ (s # r => st2[s].committed = st[s].committed)
  BY <1>1, <1>2, <1>3, <1>4 DEF n
<1>6. Listed(st2, sl)
  <2>1. \A s, u \in 1..Len(st) : st[s].live /\ st[u].live /\ st2[s].file = st2[u].file => s = u
    BY <1>5 DEF Listed
  <2>2. \A s \in 1..Len(st) :
          /\ DOMAIN st2[s] = StoreFields /\ st2[s].committed \in Nat /\ st2[s].offset \in Nat
          /\ st2[s].live = st[s].live /\ st2[s].job = st[s].job /\ st2[s].jobid_next = st[s].jobid_next
          /\ st2[s].file = st[s].file \/ (IsName(st2[s].file) /\ st2[s].file[1] = st[s].job)
    BY <1>5
  <2> QED BY <1>4, <2>1, <2>2, ListedMoved
<1>7. InOrder(q, st2, d)
  <2>1. PICK pos \in [1..Len(q) -> Nat] : Queued(q, pos, st, d)
    BY DEF InOrder
  <2>2. ASSUME NEW k \in 1..Len(q)
        PROVE  /\ q[k].s \in 1..Len(st2) /\ st2[q[k].s].live /\ st2[q[k].s].file \in DOMAIN d
               /\ pos[k] \in Nat /\ st2[q[k].s].committed < pos[k] /\ pos[k] <= st2[q[k].s].offset
               /\ q[k].e = d[st2[q[k].s].file][pos[k]]
    <3> DEFINE s == q[k].s
    <3>1. /\ s \in 1..Len(st) /\ st[s].live /\ st[s].file \in DOMAIN d
          /\ pos[k] \in Nat /\ st[s].committed < pos[k] /\ pos[k] <= st[s].offset
          /\ q[k].e = d[st[s].file][pos[k]]
      BY <2>1 DEF Queued
    <3>2. s # r
      BY <1>1, <3>1
    <3> QED BY <1>4, <1>5, <3>1, <3>2
  <2>3. ASSUME NEW s \in 1..Len(st2), st2[s].live, NEW i \in Nat, st2[s].committed < i, i <= st2[s].offset
        PROVE  \E k \in 1..Len(q) : q[k].s = s /\ pos[k] = i
    <3>1. s \in 1..Len(st) /\ st[s].live /\ i <= st[s].offset
      BY <1>4, <1>5, <2>3
    <3>2. s # r
      <4>1. CASE s = r
        <5>1. st2[s] = e2
          BY <1>4, <4>1
        <5> QED BY <1>2, <1>3, <2>3, <5>1
      <4> QED BY <4>1
    <3>3. st[s].committed < i
      BY <1>5, <2>3, <3>1, <3>2
    <3> QED BY <2>1, <3>1, <3>3 DEF Queued
  <2>4. Queued(q, pos, st2, d)
    BY <2>1, <2>2, <2>3 DEF Queued
  <2> QED BY <2>1, <2>4 DEF InOrder
<1>8. ASSUME NEW s \in 1..Len(st2), st2[s].live PROVE StoreAt(st2[s], d, S)
  <2>1. CASE s = r
    <3>1. st2[s] = e2 /\ n \in DOMAIN d
      BY <1>4, <2>1 DEF n
    <3>2. e2.committed <= Len(d[n]) /\ e2.offset <= Len(d[n]) /\ ~(e2.offset > 0) /\ e2.file = n
      BY <1>2, <1>3
    <3>3. \A i \in 1..e2.committed : d[n][i] \in S
      BY <1>2, <1>3
    <3> QED BY <3>1, <3>2, <3>3 DEF StoreAt
  <2>2. CASE s # r
    <3>1. st2[s] = st[s] /\ s \in 1..Len(st)
      BY <1>4, <2>2
    <3> QED BY <1>8, <3>1
  <2> QED BY <2>1, <2>2
<1> QED BY <1>4, <1>5, <1>6, <1>7, <1>8

LEMMA ScanFileStep ==
  ASSUME ListInv, exposed = {}, ScanFile
  PROVE  ListInv'
<1> USE InvParts
<1> DEFINE r(n) == event_store_find(n[1], n)
           es(n) == r(n).stores[r(n).s]
           fresh(n) == es(n).committed = 0 /\ es(n).offset = 0 /\ n \in DOMAIN ctl
<1>1. PICK n \in th["recovery"].todo :
        /\ th["recovery"].pc = "scan"
        /\ th' = [th EXCEPT !["recovery"].todo = @ \ {n}]
        /\ IF n \notin DOMAIN dir \/ dir[n] = <<>> THEN UNCHANGED <<stores, store_list>>
           ELSE /\ WriteLockable
                /\ store_list' = r(n).list
                /\ stores' = IF fresh(n) THEN [r(n).stores EXCEPT ![r(n).s].committed = ctl[n]] ELSE r(n).stores
        /\ UNCHANGED <<dir, ctl, list_lock, out, input, sent, creds, exposed>>
  BY DEF ScanFile
<1>2. DOMAIN th = {"main", "recovery"} /\ DOMAIN th["recovery"] = ThreadFields /\ th["recovery"].pc = "scan"
      /\ \A m \in th["recovery"].todo : IsName(m)
  BY <1>1 DEF Holding
<1> DEFINE v == [th["recovery"] EXCEPT !.todo = th["recovery"].todo \ {n}]
<1>3. th' = [th EXCEPT !["recovery"] = v]
  BY <1>1, <1>2
<1>4. DOMAIN v = ThreadFields /\ v.pc = "scan" /\ v.todo \subseteq th["recovery"].todo
  BY <1>2 DEF ThreadFields
<1>5. th["recovery"].pc \notin {"all", "cleaning"} /\ UNCHANGED <<dir, ctl, list_lock, out, input, sent>>
  BY <1>1
<1> HIDE DEF v
<1>6. ASSUME NEW st, NEW sl, Holding(th, list_lock, st, sl) PROVE Holding(th', list_lock, st, sl)
  BY <1>2, <1>3, <1>4, <1>5, <1>6, RecoveryHolding
<1>7. CASE n \notin DOMAIN dir \/ dir[n] = <<>>
  <2>1. UNCHANGED <<stores, store_list>>
    BY <1>1, <1>7
  <2>2. Holding(th', list_lock, stores, store_list)
    BY <1>6
  <2> QED BY <1>5, <2>1, <2>2, ThreadsStep
<1>8. CASE ~(n \notin DOMAIN dir \/ dir[n] = <<>>)
  <2>1. /\ list_lock.writer = "" /\ store_list' = r(n).list
        /\ stores' = IF fresh(n) THEN [r(n).stores EXCEPT ![r(n).s].committed = ctl[n]] ELSE r(n).stores
    BY <1>1, <1>8 DEF WriteLockable, ReadLockable
  <2>2. FoundIn(r(n), n) /\ n \in DOMAIN dir
    <3>1. IsName(n) /\ n # NoName
      <4>1. IsName(n)
        BY <1>1, <1>2
      <4>2. n = <<n[1], n[2]>>
        BY <4>1 DEF IsName
      <4> QED BY <4>1, <4>2 DEF NoName
    <3> QED BY <1>8, <3>1, FindFound
  <2>3. PICK st, sl, u : st = r(n).stores /\ sl = r(n).list /\ u = r(n).s
    OBVIOUS
  <2>4. /\ Listed(st, sl) /\ Len(stores) <= Len(st) /\ Known(stores, st)
        /\ u \in 1..Len(st) /\ st[u].live /\ st[u].file = n
        /\ \A s \in 1..Len(st) : s \notin 1..Len(stores) => s = u /\ st[s].committed = 0 /\ st[s].offset = 0
    BY <2>2, <2>3 DEF FoundIn
  <2>5. /\ store_list' = sl
        /\ stores' = IF st[u].committed = 0 /\ st[u].offset = 0 /\ n \in DOMAIN ctl
                     THEN [st EXCEPT ![u].committed = ctl[n]] ELSE st
    BY <2>1, <2>3
  <2> HIDE DEF r, es, fresh
  <2>6. Len(stores) \in Nat /\ Len(st) \in Nat
    BY <2>4, ListedRange
  <2>7. InOrder(out, st, dir) /\ \A s \in 1..Len(st) : st[s].live => StoreAt(st[s], dir, sent)
    BY <2>2, <2>4, <2>6, FoundKept
  <2>8. \A s \in 1..Len(stores) : stores[s].live => st[s].live
    BY <2>4 DEF Known
  <2>9. /\ Listed(stores', sl) /\ InOrder(out, stores', dir) /\ Len(stores') = Len(st)
        /\ \A s \in 1..Len(stores) : stores[s].live => stores'[s].live
        /\ \A s \in 1..Len(stores') : stores'[s].live => StoreAt(stores'[s], dir, sent)
    <3>1. CASE st[u].committed = 0 /\ st[u].offset = 0 /\ n \in DOMAIN ctl
      <4> DEFINE e2 == [st[u] EXCEPT !.committed = ctl[n]]
      <4>1. DOMAIN st = 1..Len(st) /\ DOMAIN st[u] = StoreFields
        BY <2>4, ListedRange DEF Listed
      <4>2. stores' = Updated(st, u, e2)
        BY <2>4, <2>5, <3>1, <4>1 DEF Updated
      <4>3. Repositioned(st[u], e2, ctl[n])
        BY <4>1 DEF Repositioned, StoreFields
      <4> HIDE DEF e2
      <4>4. stores' = Updated(st, u, e2) /\ Repositioned(st[u], e2, ctl[st[u].file])
            /\ st[u].file \in DOMAIN ctl /\ st[u].file \in DOMAIN dir /\ st[u].offset = 0
        BY <2>2, <2>4, <3>1, <4>2, <4>3
      <4>5. /\ Listed(stores', sl) /\ InOrder(out, stores', dir) /\ Len(stores') = Len(st)
            /\ \A s \in 1..Len(st) : stores'[s].live = st[s].live
            /\ \A s \in 1..Len(stores') : stores'[s].live => StoreAt(stores'[s], dir, sent)
        BY <2>4, <2>7, <4>4, FreshKept
      <4>6. \A s \in 1..Len(stores) : s \in 1..Len(st)
        BY <2>4, <2>6
      <4> QED BY <2>8, <4>5, <4>6
    <3>2. CASE ~(st[u].committed = 0 /\ st[u].offset = 0 /\ n \in DOMAIN ctl)
      <4>1. stores' = st
        BY <2>5, <3>2
      <4> QED BY <2>4, <2>7, <2>8, <4>1
    <3> QED BY <3>1, <3>2
  <2>10. Holding(th', list_lock, stores', sl)
    <3>1. Len(stores) \in Nat /\ Len(stores') \in Nat /\ Len(stores) <= Len(stores')
      BY <2>4, <2>6, <2>9
    <3>2. Holding(th, list_lock, stores', sl)
      BY <2>1, <2>9, <3>1, HoldingStores
    <3> QED BY <1>6, <3>2
  <2> QED BY <1>5, <2>5, <2>9, <2>10 DEF ListInv
<1> QED BY <1>7, <1>8

-----------------------------------------------------------------------------
(* A store is read, and its file rotated.                                   *)

\* The file f of the directory d is called g in d2, a name that was free.
Renamed(d, d2, f, g) ==
  /\ f \in DOMAIN d /\ DOMAIN d2 = (DOMAIN d \ {f}) \cup {g} /\ d2[g] = d[f]
  /\ \A m \in DOMAIN d : m # f => m # g /\ d2[m] = d[m]
  /\ IsName(g) /\ g[1] = f[1] /\ (g # f => f[2] = 0 /\ g[2] # 0 /\ g \notin DOMAIN d)

LEMMA RenamedPositions ==
  ASSUME NEW d, NEW d2, NEW f, NEW g, Renamed(d, d2, f, g), NEW c, NEW S, Positioned(d, c, S)
  PROVE  Positioned(d2, c, S)
<1>1. ASSUME NEW n \in DOMAIN d2 PROVE IsName(n) /\ IsSeq(d2[n])
  <2>1. CASE n = g
    BY <2>1 DEF Renamed, Positioned
  <2>2. CASE n # g
    <3>1. n \in DOMAIN d /\ n # f
      BY <2>2 DEF Renamed
    <3> QED BY <3>1 DEF Renamed, Positioned
  <2> QED BY <2>1, <2>2
<1>2. ASSUME NEW n \in DOMAIN c
      PROVE  /\ IsName(n) /\ c[n] \in Nat
             /\ n \in DOMAIN d2 => c[n] <= Len(d2[n]) /\ \A i \in 1..c[n] : d2[n][i] \in S
             /\ n \notin DOMAIN d2 => n[2] = 0
  <2>1. /\ IsName(n) /\ c[n] \in Nat
        /\ n \in DOMAIN d => c[n] <= Len(d[n]) /\ \A i \in 1..c[n] : d[n][i] \in S
        /\ n \notin DOMAIN d => n[2] = 0
    BY DEF Positioned
  <2>2. CASE n = f
    <3>1. CASE g = f
      BY <2>1, <2>2, <3>1 DEF Renamed
    <3>2. CASE g # f
      BY <2>1, <2>2, <3>2 DEF Renamed
    <3> QED BY <3>1, <3>2
  <2>3. CASE n # f /\ n \in DOMAIN d
    BY <2>1, <2>3 DEF Renamed
  <2>4. CASE n # f /\ n \notin DOMAIN d
    BY <2>1, <2>4 DEF Renamed
  <2> QED BY <2>2, <2>3, <2>4
<1> QED BY <1>1, <1>2 DEF Positioned

\* The other stores.
LEMMA RenamedOthers ==
  ASSUME NEW d, NEW d2, NEW f, NEW g, Renamed(d, d2, f, g), NEW S, NEW es, StoreAt(es, d, S), es.file # f
  PROVE  /\ StoreAt(es, d2, S) /\ es.file # g
         /\ es.file \in DOMAIN d => es.file \in DOMAIN d2 /\ d2[es.file] = d[es.file]
<1>1. es.file # g
  <2>1. CASE g # f
    BY <2>1 DEF Renamed, StoreAt
  <2> QED BY <2>1
<1>2. es.file \in DOMAIN d => es.file \in DOMAIN d2 /\ d2[es.file] = d[es.file]
  BY DEF Renamed
<1>3. es.file \notin DOMAIN d => es.file \notin DOMAIN d2
  BY <1>1 DEF Renamed
<1>4. StoreAt(es, d2, S)
  <2>1. CASE es.file \in DOMAIN d
    BY <1>2, <2>1 DEF StoreAt
  <2>2. CASE es.file \notin DOMAIN d
    BY <1>3, <2>2 DEF StoreAt
  <2> QED BY <2>1, <2>2
<1> QED BY <1>1, <1>2, <1>4

LEMMA RenamedEvents ==
  ASSUME NEW d, NEW d2, NEW f, NEW g, Renamed(d, d2, f, g), NEW S, NEW in, Somewhere(d, S, in)
  PROVE  Somewhere(d2, S, in)
<1>1. ASSUME NEW e, \E n \in DOMAIN d : \E i \in 1..Len(d[n]) : d[n][i] = e
      PROVE  \E n \in DOMAIN d2 : \E i \in 1..Len(d2[n]) : d2[n][i] = e
  <2>1. PICK n \in DOMAIN d : \E i \in 1..Len(d[n]) : d[n][i] = e
    BY <1>1
  <2>2. CASE n = f
    <3>1. g \in DOMAIN d2 /\ d2[g] = d[n]
      BY <2>2 DEF Renamed
    <3> QED BY <2>1, <3>1
  <2>3. CASE n # f
    <3>1. n \in DOMAIN d2 /\ d2[n] = d[n]
      BY <2>3 DEF Renamed
    <3> QED BY <2>1, <3>1
  <2> QED BY <2>2, <2>3
<1> QED BY <1>1 DEF Somewhere

\* The store e becomes e2: its file is g, and read up to its length n.
ReadUp(e, e2, g, n) ==
  /\ DOMAIN e2 = StoreFields /\ e2.file = g /\ e2.offset = n /\ e2.committed = e.committed
  /\ e2.live = e.live /\ e2.job = e.job /\ e2.jobid_next = e.jobid_next

\* The events behind position i of the file x are queued for store s.
Queues(q, q2, s, x, i) ==
  /\ IsSeq(q2) /\ Len(q2) = Len(q) + (Len(x) - i)
  /\ \A k \in 1..Len(q) : q2[k] = q[k]
  /\ \A j \in 1..Len(x) - i : q2[Len(q) + j].s = s /\ q2[Len(q) + j].e = x[i + j]

StartOf(e) == IF e.offset > 0 THEN e.offset ELSE e.committed
Replaced(st, st2, s, e2) == Len(st2) = Len(st) /\ \A r \in 1..Len(st) : st2[r] = IF r = s THEN e2 ELSE st[r]
Apart(st, d, S, s) ==
  \A r \in 1..Len(st) : st[r].live => StoreAt(st[r], d, S) /\ (r # s => st[r].file # st[s].file)

LEMMA RecoverQueue ==
  ASSUME NEW d, NEW d2, NEW f, NEW g, Renamed(d, d2, f, g), NEW S, IsSeq(d[f]),
         NEW st, NEW s \in 1..Len(st), st[s].live, st[s].file = f, Numbers(st),
         Apart(st, d, S, s), NEW q, IsSeq(q), InOrder(q, st, d), NEW start, start = StartOf(st[s]),
         NEW e2, ReadUp(st[s], e2, g, Len(d[f])), NEW st2, Replaced(st, st2, s, e2),
         NEW q2, Queues(q, q2, s, d[f], start)
  PROVE  InOrder(q2, st2, d2)
<1> DEFINE L == Len(d[f])
           N == Len(q)
           c == st[s].committed
           o == st[s].offset
<1>1. PICK pos \in [1..Len(q) -> Nat] : Queued(q, pos, st, d)
  BY DEF InOrder
<1>2. L \in Nat /\ N \in Nat /\ c \in Nat /\ o \in Nat /\ c <= L /\ o <= L /\ (o > 0 => c <= o)
  <2>1. f \in DOMAIN d /\ StoreAt(st[s], d, S)
    BY DEF Renamed, Apart
  <2> QED BY <2>1, IsSeqLen DEF StoreAt, Numbers
<1>3. start \in Nat /\ c <= start /\ start <= L /\ (o > 0 => start = o) /\ (o = 0 => start = c)
  BY <1>2 DEF StartOf
<1> DEFINE M == L - start
           pos2 == [k \in 1..N + M |-> IF k <= N THEN pos[k] ELSE start + (k - N)]
<1>4. M \in Nat /\ Len(q2) = N + M
  BY <1>2, <1>3 DEF Queues
<1>5. pos2 \in [1..N + M -> Nat]
  <2>1. \A k \in 1..N + M : k <= N => k \in 1..Len(q)
    BY <1>2, <1>4
  <2>2. \A k \in 1..N + M : ~(k <= N) => start + (k - N) \in Nat
    BY <1>2, <1>3, <1>4
  <2> QED BY ONLY <1>1, <2>1, <2>2
<1>6. \A k \in 1..N : k \in 1..N + M /\ pos2[k] = pos[k] /\ q2[k] = q[k]
  BY <1>2, <1>4 DEF Queues
<1>7. \A j \in 1..M : N + j \in 1..N + M /\ pos2[N + j] = start + j /\ q2[N + j].s = s /\ q2[N + j].e = d[f][start + j]
  BY <1>2, <1>3, <1>4 DEF Queues
<1>8. \A k \in 1..N + M : k \in 1..N \/ \E j \in 1..M : k = N + j
  <2> SUFFICES ASSUME NEW k \in 1..N + M, k \notin 1..N PROVE \E j \in 1..M : k = N + j
    OBVIOUS
  <2>1. k - N \in 1..M /\ k = N + (k - N)
    BY <1>2, <1>4
  <2> QED BY <2>1
<1> HIDE DEF M, pos2
<1>9. /\ s \in 1..Len(st2) /\ st2[s] = e2 /\ e2.live /\ e2.file = g /\ e2.offset = L /\ e2.committed = c
      /\ g \in DOMAIN d2 /\ d2[g] = d[f]
  BY DEF ReadUp, Renamed, Replaced
<1>10. Len(st2) = Len(st) /\ \A r \in 1..Len(st) : st2[r] = IF r = s THEN e2 ELSE st[r]
  BY DEF Replaced
<1>11. ASSUME NEW k \in 1..N
       PROVE  /\ q[k].s \in 1..Len(st) /\ st[q[k].s].live /\ st[q[k].s].file \in DOMAIN d
              /\ pos[k] \in Nat /\ st[q[k].s].committed < pos[k] /\ pos[k] <= st[q[k].s].offset
              /\ q[k].e = d[st[q[k].s].file][pos[k]]
  BY <1>1 DEF Queued
<1>12. ASSUME NEW k \in 1..N + M
       PROVE  /\ q2[k].s \in 1..Len(st2) /\ st2[q2[k].s].live /\ st2[q2[k].s].file \in DOMAIN d2
              /\ pos2[k] \in Nat /\ st2[q2[k].s].committed < pos2[k] /\ pos2[k] <= st2[q2[k].s].offset
              /\ q2[k].e = d2[st2[q2[k].s].file][pos2[k]]
  <2>1. CASE k \in 1..N /\ q[k].s = s
    <3>1. q2[k] = q[k] /\ pos2[k] = pos[k]
      BY <1>6, <2>1
    <3>2. pos[k] \in Nat /\ c < pos[k] /\ pos[k] <= o /\ q[k].e = d[f][pos[k]]
      BY <1>11, <2>1
    <3>3. pos[k] <= L
      BY <1>2, <3>2
    <3> QED BY <1>9, <2>1, <3>1, <3>2, <3>3
  <2>2. CASE k \in 1..N /\ q[k].s # s
    <3>1. q2[k] = q[k] /\ pos2[k] = pos[k]
      BY <1>6, <2>2
    <3> DEFINE r == q[k].s
    <3>2. r \in 1..Len(st) /\ st[r].live /\ st[r].file \in DOMAIN d /\ r # s
      BY <1>11, <2>2
    <3> HIDE DEF r
    <3>3. st2[r] = st[r] /\ StoreAt(st[r], d, S) /\ st[r].file # f
      BY <1>10, <3>2 DEF Apart
    <3>4. st[r].file \in DOMAIN d2 /\ d2[st[r].file] = d[st[r].file]
      BY <3>2, <3>3, RenamedOthers
    <3>5. /\ q[k].s = r /\ pos[k] \in Nat /\ st[r].committed < pos[k] /\ pos[k] <= st[r].offset
          /\ q[k].e = d[st[r].file][pos[k]]
      BY <1>11, <2>2 DEF r
    <3>6. Len(st2) = Len(st)
      BY <1>10
    <3> QED BY ONLY <3>1, <3>2, <3>3, <3>4, <3>5, <3>6
  <2>3. CASE k \notin 1..N
    <3>1. PICK j \in 1..M : k = N + j
      BY <1>8, <2>3
    <3>2. q2[k].s = s /\ q2[k].e = d[f][start + j] /\ pos2[k] = start + j
      BY <1>7, <3>1
    <3>3. start + j \in Nat /\ c < start + j /\ start + j <= L
      <4>1. j \in Nat /\ 1 <= j /\ j <= L - start
        BY <1>2, <1>3, <3>1 DEF M
      <4> HIDE DEF c, o, L
      <4> QED BY ONLY <1>2, <1>3, <4>1
    <3> QED BY <1>9, <3>2, <3>3
  <2> QED BY <2>1, <2>2, <2>3
<1>13. ASSUME NEW k \in 1..N + M, NEW l \in 1..N + M, q2[k].s = q2[l].s, k < l
       PROVE  pos2[k] < pos2[l]
  <2>1. CASE k \in 1..N /\ l \in 1..N
    BY <1>1, <1>6, <1>13, <2>1, SMTT(30) DEF Queued
  <2>2. CASE k \in 1..N /\ l \notin 1..N
    <3>1. PICK j \in 1..M : l = N + j
      BY <1>8, <2>2
    <3>2. q[k].s = s /\ pos2[l] = start + j /\ pos2[k] = pos[k]
      BY <1>6, <1>7, <1>13, <2>2, <3>1
    <3>3. pos[k] \in Nat /\ c < pos[k] /\ pos[k] <= o
      BY <1>11, <2>2, <3>2
    <3> QED BY <1>2, <1>3, <3>1, <3>2, <3>3, SMTT(30)
  <2>3. CASE k \notin 1..N
    <3>1. PICK i \in 1..M : k = N + i
      BY <1>8, <2>3
    <3>2. l \notin 1..N
      BY <1>2, <1>13, <3>1
    <3>3. PICK j \in 1..M : l = N + j
      BY <1>8, <3>2
    <3>4. pos2[k] = start + i /\ pos2[l] = start + j
      BY <1>7, <3>1, <3>3
    <3> QED BY <1>2, <1>3, <1>13, <3>1, <3>3, <3>4
  <2> QED BY <2>1, <2>2, <2>3
<1>14. ASSUME NEW r \in 1..Len(st2), st2[r].live, NEW i \in Nat, st2[r].committed < i, i <= st2[r].offset
       PROVE  \E k \in 1..N + M : q2[k].s = r /\ pos2[k] = i
  <2>1. ASSUME NEW u \in 1..Len(st), st[u].live, u = r, st[u].committed < i, i <= st[u].offset
        PROVE  \E k \in 1..N + M : q2[k].s = r /\ pos2[k] = i
    <3>1. PICK k \in 1..N : q[k].s = u /\ pos[k] = i
      BY <1>1, <2>1 DEF Queued
    <3>2. k \in 1..N + M /\ q2[k].s = r /\ pos2[k] = i
      BY <1>6, <2>1, <3>1
    <3> QED BY <3>2
  <2>2. CASE r # s
    <3>1. st2[r] = st[r] /\ r \in 1..Len(st)
      BY <1>10, <2>2
    <3> QED BY <1>14, <2>1, <3>1
  <2>3. CASE r = s /\ i <= start
    <3>1. c < i /\ i <= L
      BY <1>9, <1>14, <2>3
    <3>2. o > 0 /\ start = o
      BY <1>2, <1>3, <2>3, <3>1
    <3>3. i <= o
      BY <2>3, <3>2
    <3> QED BY <2>1, <2>3, <3>1, <3>3
  <2>4. CASE r = s /\ ~(i <= start)
    <3>1. i <= L
      BY <1>9, <1>14, <2>4
    <3>2. i - start \in 1..M /\ start + (i - start) = i
      BY <1>2, <1>3, <2>4, <3>1 DEF M
    <3>3. N + (i - start) \in 1..N + M /\ q2[N + (i - start)].s = s /\ pos2[N + (i - start)] = start + (i - start)
      BY <1>7, <3>2
    <3> QED BY <2>4, <3>2, <3>3
  <2> QED BY <2>2, <2>3, <2>4
<1>15. Queued(q2, pos2, st2, d2)
  BY <1>4, <1>12, <1>13, <1>14 DEF Queued
<1> QED BY <1>4, <1>5, <1>15 DEF InOrder

\* The name a rotation gives is another one only if it was tried and free.
LEMMA NewNameFree ==
  ASSUME NEW f, IsName(f), f[2] = 0, NEW g, g = NewName(f[1]), g # f, g \notin DOMAIN dir
  PROVE  IsName(g) /\ g[1] = f[1] /\ g[2] # 0
<1> DEFINE job == f[1]
           free == {i \in 1..Tries : <<job, i>> \notin DOMAIN dir}
           i == IF free = {} THEN Tries ELSE Min(free)
<1>1. g = <<job, i>>
  BY DEF NewName
<1>2. Tries \in Nat /\ free \in SUBSET Nat
  BY ListAssumption
<1>3. f = <<job, 0>>
  BY DEF IsName
<1>4. i \in Nat /\ i # 0
  <2>1. CASE free # {}
    <3>1. Min(free) \in free
      BY <1>2, <2>1, MinProperty
    <3> QED BY <1>2, <2>1, <3>1
  <2>2. CASE free = {}
    <3>1. i = Tries
      BY <2>2
    <3>2. CASE Tries = 0
      BY <1>1, <1>3, <3>1, <3>2
    <3> QED BY <1>2, <3>1, <3>2
  <2> QED BY <2>1, <2>2
<1> HIDE DEF i, job
<1>5. g[1] = job /\ g[2] = i
  BY <1>1
<1> QED BY <1>1, <1>4, <1>5 DEF IsName, job

\* event_store_recover keeps what the invariant says of files, stores and queue.
Kept ==
  /\ Listed(stores', store_list') /\ Positioned(dir', ctl', sent') /\ Somewhere(dir', sent', input')
  /\ IsSeq(out') /\ InOrder(out', stores', dir')
  /\ \A s \in 1..Len(stores') : stores'[s].live => StoreAt(stores'[s], dir', sent')

LEMMA RecoverKept ==
  ASSUME ListInv, exposed = {}, exposed' = {}, NEW s \in 1..Len(stores), stores[s].live, event_store_recover(s),
         UNCHANGED <<ctl, store_list, input, sent>>
  PROVE  Kept /\ Len(stores') = Len(stores) /\ \A r \in 1..Len(stores) : stores[r].live => stores'[r].live
<1> USE InvParts
<1> DEFINE es == stores[s]
           f == es.file
           g == IF Rotates(f) THEN NewName(es.job) ELSE f
           L == Len(dir[f])
           start == StartOf(es)
<1>1. CASE f \notin DOMAIN dir \/ es.offset = L
  <2>1. UNCHANGED <<dir, stores, out>>
    BY <1>1 DEF event_store_recover
  <2> QED BY <2>1 DEF Kept
<1>2. CASE f \in DOMAIN dir /\ es.offset # L
  <2>1. /\ DOMAIN es = StoreFields /\ es.committed \in Nat /\ es.offset \in Nat /\ IsName(f) /\ es.job = f[1]
        /\ IsSeq(stores) /\ DOMAIN stores = 1..Len(stores) /\ Len(stores) \in Nat
    BY ListedRange DEF Listed
  <2>2. L \in Nat /\ IsSeq(dir[f]) /\ es.offset <= L /\ es.committed <= L /\ (es.offset > 0 => es.committed <= es.offset)
        /\ \A i \in 1..es.committed : dir[f][i] \in sent
    BY <1>2, IsSeqLen DEF Positioned, StoreAt
  <2>3. StartAt(es) = start /\ start \in Nat /\ es.committed <= start /\ start <= L
    <3>1. CASE es.offset > 0
      BY <2>1, <2>2, <3>1 DEF StartAt, StartOf
    <3>2. CASE ~(es.offset > 0)
      BY <2>1, <2>2, <3>2 DEF StartAt, StartOf
    <3> QED BY <3>1, <3>2
  <2>4. /\ dir' = With(Without(dir, f), g, dir[f])
        /\ stores' = [stores EXCEPT ![s].file = g, ![s].offset = L,
                                    ![s].committed = IF StartAt(es) < @ THEN StartAt(es) ELSE @]
        /\ out' = out \o [i \in 1..L - StartAt(es) |-> [s |-> s, e |-> dir[f][StartAt(es) + i]]]
        /\ g = f \/ g \notin DOMAIN dir
    BY <1>2 DEF event_store_recover
  <2> HIDE DEF start
  <2>5. Renamed(dir, dir', f, g)
    <3>1. /\ DOMAIN dir' = (DOMAIN dir \ {f}) \cup {g} /\ dir'[g] = dir[f]
          /\ \A m \in DOMAIN dir : m # f => m # g /\ dir'[m] = dir[m]
      BY <2>4 DEF With, Without
    <3>2. IsName(g) /\ g[1] = f[1] /\ (g # f => f[2] = 0 /\ g[2] # 0 /\ g \notin DOMAIN dir)
      <4>1. CASE g = f
        BY <2>1, <4>1
      <4>2. CASE g # f
        <5>1. f[2] = 0 /\ g = NewName(f[1]) /\ g \notin DOMAIN dir
          BY <2>1, <2>4, <4>2 DEF Rotates
        <5> HIDE DEF g, f
        <5> QED BY <2>1, <4>2, <5>1, NewNameFree
      <4> QED BY <4>1, <4>2
    <3> QED BY <1>2, <3>1, <3>2 DEF Renamed
  <2> DEFINE e2 == [es EXCEPT !.file = g, !.offset = L]
  <2>6. stores' = Updated(stores, s, e2)
    <3>1. ~(StartAt(es) < es.committed)
      BY <2>1, <2>3
    <3>2. stores' = [stores EXCEPT ![s] = [es EXCEPT !.file = g, !.offset = L, !.committed = es.committed]]
      BY <2>1, <2>4, <3>1
    <3>3. [es EXCEPT !.file = g, !.offset = L, !.committed = es.committed] = e2
      BY <2>1 DEF StoreFields
    <3> QED BY <3>2, <3>3 DEF Updated
  <2>7. ReadUp(es, e2, g, L)
    BY <2>1 DEF ReadUp, StoreFields
  <2> HIDE DEF e2, g, L
  <2>8. IsSeq(stores') /\ Len(stores') = Len(stores)
        /\ \A r \in 1..Len(stores) : stores'[r] = IF r = s THEN e2 ELSE stores[r]
    BY <2>1, <2>6, IsSeqUpdated
  <2>9. stores'[s] = e2 /\ \A r \in 1..Len(stores) : r # s => stores'[r] = stores[r]
    BY <2>8
  <2>10. \A r \in 1..Len(stores) : stores[r].live => StoreAt(stores[r], dir, sent) /\ (r # s => stores[r].file # f)
    BY DEF Listed
  <2>11. ASSUME NEW r \in 1..Len(stores), stores[r].live, r # s
         PROVE  StoreAt(stores[r], dir', sent) /\ stores[r].file # g
    BY <2>5, <2>10, <2>11, RenamedOthers
  <2>12. Listed(stores', store_list)
    <3>1. e2.file = g /\ e2.live = es.live
      BY <2>7 DEF ReadUp
    <3>2. \A r, u \in 1..Len(stores) : stores[r].live /\ stores[u].live /\ stores'[r].file = stores'[u].file => r = u
      <4> SUFFICES ASSUME NEW r \in 1..Len(stores), NEW u \in 1..Len(stores), stores[r].live, stores[u].live,
                          stores'[r].file = stores'[u].file, r # u
                   PROVE  FALSE
        OBVIOUS
      <4>1. CASE r = s \/ u = s
        BY <2>9, <2>11, <3>1, <4>1
      <4>2. CASE r # s /\ u # s
        BY <2>9, <4>2 DEF Listed
      <4> QED BY <4>1, <4>2
    <3>3. ASSUME NEW r \in 1..Len(stores)
          PROVE  /\ DOMAIN stores'[r] = StoreFields /\ stores'[r].committed \in Nat /\ stores'[r].offset \in Nat
                 /\ stores'[r].live = stores[r].live /\ stores'[r].job = stores[r].job
                 /\ stores'[r].jobid_next = stores[r].jobid_next
                 /\ stores'[r].file = stores[r].file \/ (IsName(stores'[r].file) /\ stores'[r].file[1] = stores[r].job)
      <4>1. CASE r = s
        <5>1. IsName(g) /\ g[1] = es.job
          BY <2>1, <2>5 DEF Renamed
        <5> QED BY <2>1, <2>2, <2>7, <2>9, <4>1, <5>1 DEF ReadUp
      <4>2. CASE r # s
        BY <2>9, <4>2 DEF Listed
      <4> QED BY <4>1, <4>2
    <3> QED BY <2>8, <3>2, <3>3, ListedMoved
  <2>13. ASSUME NEW r \in 1..Len(stores'), stores'[r].live PROVE StoreAt(stores'[r], dir', sent)
    <3>1. CASE r = s
      <4>1. stores'[r] = e2 /\ e2.file = g /\ e2.offset = L /\ e2.committed = es.committed
        BY <2>7, <2>9, <3>1 DEF ReadUp
      <4>2. g \in DOMAIN dir' /\ dir'[g] = dir[f]
        BY <2>5 DEF Renamed
      <4> QED BY <2>1, <2>2, <4>1, <4>2 DEF StoreAt, L
    <3>2. CASE r # s
      BY <2>8, <2>9, <2>11, <2>13, <3>2
    <3> QED BY <3>1, <3>2
  <2>14. Queues(out, out', s, dir[f], start)
    <3> DEFINE x == [i \in 1..L - start |-> [s |-> s, e |-> dir[f][start + i]]]
    <3>1. out' = out \o x
      BY <2>3, <2>4
    <3>2. L - start \in Nat
      BY <2>2, <2>3
    <3>3. IsSeq(x) /\ Len(x) = L - start
      <4>1. x \in Seq({[s |-> s, e |-> dir[f][start + i]] : i \in 1..L - start})
        BY <3>2
      <4>2. Len(x) = L - start
        BY <3>2, <4>1
      <4> HIDE DEF x
      <4> QED BY <4>1, <4>2, IsSeqIntro
    <3>4. \A j \in 1..L - start : x[j].s = s /\ x[j].e = dir[f][start + j]
      OBVIOUS
    <3> HIDE DEF x
    <3>5. /\ IsSeq(out') /\ Len(out') = Len(out) + Len(x)
          /\ \A i \in 1..Len(out) + Len(x) : out'[i] = IF i <= Len(out) THEN out[i] ELSE x[i - Len(out)]
      BY <3>1, <3>3, IsSeqConcat
    <3>6. Len(out) \in Nat
      BY IsSeqLen
    <3>7. \A k \in 1..Len(out) : out'[k] = out[k]
      BY <3>2, <3>3, <3>5, <3>6
    <3>8. \A j \in 1..L - start : out'[Len(out) + j] = x[j]
      <4> SUFFICES ASSUME NEW j \in 1..L - start PROVE out'[Len(out) + j] = x[j]
        OBVIOUS
      <4>1. Len(out) + j \in 1..Len(out) + Len(x) /\ ~(Len(out) + j <= Len(out)) /\ (Len(out) + j) - Len(out) = j
        BY <3>2, <3>3, <3>6
      <4> QED BY <3>5, <4>1
    <3>9. Len(out') = Len(out) + (Len(dir[f]) - start)
      BY <3>3, <3>5 DEF L
    <3>10. \A j \in 1..Len(dir[f]) - start : out'[Len(out) + j].s = s /\ out'[Len(out) + j].e = dir[f][start + j]
      BY ONLY <3>4, <3>8, Zenon DEF L
    <3> QED BY ONLY <3>5, <3>7, <3>9, <3>10, Zenon DEF Queues
  <2>15. InOrder(out', stores', dir')
    <3>1. Numbers(stores)
      BY DEF Listed, Numbers
    <3>2. start = StartOf(stores[s])
      BY DEF start
    <3>3. ReadUp(stores[s], e2, g, Len(dir[f])) /\ stores[s].file = f /\ IsSeq(dir[f])
      BY <2>2, <2>7 DEF L
    <3>4. Apart(stores, dir, sent, s)
      BY <2>10 DEF Apart
    <3>5. Replaced(stores, stores', s, e2)
      BY <2>8 DEF Replaced
    <3> HIDE DEF f
    <3> QED BY <2>5, <2>14, <3>1, <3>2, <3>3, <3>4, <3>5, RecoverQueue
  <2>16. Positioned(dir', ctl, sent) /\ Somewhere(dir', sent, input)
    BY <2>5, RenamedPositions, RenamedEvents
  <2>17. IsSeq(out')
    BY <2>14 DEF Queues
  <2>18. \A r \in 1..Len(stores) : stores[r].live => stores'[r].live
    BY <2>7, <2>9 DEF ReadUp
  <2>19. Kept
    BY <2>12, <2>13, <2>15, <2>16, <2>17 DEF Kept
  <2> QED BY <2>8, <2>18, <2>19
<1> QED BY <1>1, <1>2

LEMMA KeptInv ==
  ASSUME Kept, Holding(th', list_lock', stores', store_list')
  PROVE  ListInv'
BY DEF Kept, ListInv

LEMMA RingReadStep ==
  ASSUME ListInv, exposed = {}, RingRead, exposed' = {}
  PROVE  ListInv'
<1> USE InvParts
<1> DEFINE m == th["main"]
           v == IF m.alone THEN Thread("idle") ELSE [m EXCEPT !.pc = "step"]
<1>1. /\ m.pc = "read" /\ event_store_recover(m.p) /\ th' = [th EXCEPT !["main"] = v]
      /\ UNCHANGED <<ctl, store_list, list_lock, input, sent>>
  BY DEF RingRead
<1>2. Live(stores, m.es) /\ m.p \in 1..Len(stores) /\ stores[m.p].live /\ DOMAIN m = ThreadFields
  BY <1>1 DEF Holding
<1>3. Kept /\ Len(stores') = Len(stores) /\ \A r \in 1..Len(stores) : stores[r].live => stores'[r].live
  <2> HIDE DEF m, v
  <2> QED BY <1>1, <1>2, RecoverKept
<1>4. Len(stores) \in Nat
  BY ListedRange
<1>5. Holding(th, list_lock, stores', store_list')
  <2>1. Len(stores') \in Nat /\ Len(stores) <= Len(stores') /\ store_list' = store_list
    BY <1>1, <1>3, <1>4
  <2> QED BY <1>3, <1>4, <2>1, HoldingStores
<1>6. DOMAIN v = ThreadFields /\ (v.pc = "idle" \/ (v.pc = "step" /\ v.es = m.es /\ v.p = m.p))
  <2>1. CASE m.alone
    <3>1. v = Thread("idle")
      BY <2>1
    <3> QED BY <3>1, ThreadShape
  <2>2. CASE ~m.alone
    <3>1. v = [m EXCEPT !.pc = "step"]
      BY <2>2
    <3> HIDE DEF v, m
    <3> QED BY <1>2, <3>1 DEF ThreadFields
  <2> QED BY <2>1, <2>2
<1> HIDE DEF v
<1>7. Live(stores', m.es) /\ m.p \in 1..Len(stores')
  BY <1>2, <1>3 DEF Live
<1>8. Holding(th', list_lock', stores', store_list')
  BY <1>1, <1>5, <1>6, <1>7, MainHolding
<1> QED BY <1>3, <1>8, KeptInv

LEMMA AllReadStep ==
  ASSUME ListInv, exposed = {}, NEW t \in {"main", "recovery"}, AllRead(t), exposed' = {}
  PROVE  ListInv'
<1> USE InvParts
<1> DEFINE m == th[t]
           v == [m EXCEPT !.rest = Tail(m.rest)]
<1>1. DOMAIN th = {"main", "recovery"} /\ DOMAIN m = ThreadFields
  BY DEF Holding
<1>2. /\ m.pc = "all" /\ m.rest # <<>> /\ event_store_recover(Head(m.rest))
      /\ UNCHANGED <<ctl, store_list, list_lock, input, sent>>
  BY DEF AllRead
<1>3. th' = [th EXCEPT ![t] = v]
  BY <1>1 DEF AllRead, ThreadFields
<1>4. IsSeq(m.rest) /\ \A k \in 1..Len(m.rest) : Live(stores, m.rest[k])
  BY <1>1, <1>2 DEF Holding
<1>5. DOMAIN v = ThreadFields /\ v.pc = "all" /\ v.rest = Tail(m.rest)
  BY <1>1, <1>2 DEF ThreadFields
<1>6. Len(m.rest) \in Nat \ {0} /\ Head(m.rest) = m.rest[1] /\ IsSeq(Tail(m.rest)) /\ Len(Tail(m.rest)) = Len(m.rest) - 1
      /\ \A k \in 1..Len(m.rest) - 1 : Tail(m.rest)[k] = m.rest[k + 1]
  BY <1>2, <1>4, IsSeqTail, IsSeqLen
<1> HIDE DEF v, m
<1>7. Live(stores, Head(m.rest))
  BY <1>4, <1>6
<1>8. Kept /\ Len(stores') = Len(stores) /\ \A r \in 1..Len(stores) : stores[r].live => stores'[r].live
  BY <1>2, <1>7, RecoverKept DEF Live
<1>9. Len(stores) \in Nat
  BY ListedRange
<1>10. Holding(th, list_lock, stores', store_list')
  <2>1. Len(stores') \in Nat /\ Len(stores) <= Len(stores') /\ store_list' = store_list
    BY <1>2, <1>8, <1>9
  <2> QED BY <1>8, <1>9, <2>1, HoldingStores
<1>11. ASSUME NEW k \in 1..Len(v.rest) PROVE Live(stores', v.rest[k])
  <2>1. k + 1 \in 1..Len(m.rest) /\ v.rest[k] = m.rest[k + 1]
    BY <1>5, <1>6, <1>11
  <2>2. Live(stores, v.rest[k])
    BY <1>4, <2>1
  <2> QED BY <1>8, <2>2 DEF Live
<1>12. Listed(stores', store_list')
  BY <1>8 DEF Kept
<1>13. IsSeq(v.rest) /\ th[t].pc = "all"
  BY <1>2, <1>5, <1>6 DEF m
<1>14. Holding(th', list_lock', stores', store_list')
  BY <1>2, <1>3, <1>5, <1>10, <1>11, <1>12, <1>13, AllHolding
<1> QED BY <1>8, <1>14, KeptInv

-----------------------------------------------------------------------------
(* A store is removed.                                                      *)

\* The stores st2 are st without s, the stores before it in the ring linked to
\* the one behind it.
Gone(st, st2, s) ==
  /\ IsSeq(st2) /\ Len(st2) = Len(st)
  /\ \A k \in 1..Len(st) :
       /\ DOMAIN st2[k] = StoreFields /\ st2[k].committed = st[k].committed /\ st2[k].offset = st[k].offset
       /\ st2[k].job = st[k].job /\ st2[k].file = st[k].file
       /\ st2[k].live <=> (st[k].live /\ k # s)
       /\ st2[k].jobid_next = IF k # s /\ st[k].live /\ st[k].jobid_next = s THEN st[s].jobid_next
                              ELSE st[k].jobid_next

\* The list sl2 is sl without s.
TakenOut(sl, sl2, s) ==
  /\ IsSeq(sl2)
  /\ \A k, l \in 1..Len(sl2) : sl2[k] = sl2[l] => k = l
  /\ \A x : (\E k \in 1..Len(sl2) : sl2[k] = x) <=> (x # s /\ \E k \in 1..Len(sl) : sl[k] = x)

LEMMA FreedGone ==
  ASSUME Listed(stores, store_list), NEW s \in 1..Len(stores)
  PROVE  Gone(stores, Freed(s), s)
<1> DEFINE N == Len(stores)
<1>1. DOMAIN stores = 1..N /\ N \in Nat
  BY ListedRange
<1>2. /\ DOMAIN Freed(s) = 1..N
      /\ \A k \in 1..N :
           Freed(s)[k] = IF k = s THEN [stores[k] EXCEPT !.live = FALSE]
                         ELSE IF stores[k].jobid_next = s /\ stores[k].live
                         THEN [stores[k] EXCEPT !.jobid_next = stores[s].jobid_next] ELSE stores[k]
  BY <1>1 DEF Freed
<1>3. IsSeq(Freed(s)) /\ Len(Freed(s)) = N
  <2>1. Freed(s) = [k \in 1..N |-> Freed(s)[k]]
    BY <1>1 DEF Freed
  <2>2. PICK F : F = Freed(s)
    OBVIOUS
  <2>3. F = [k \in 1..N |-> F[k]]
    BY <2>1, <2>2
  <2>4. F \in [1..N -> {F[k] : k \in 1..N}]
    BY ONLY <2>3
  <2>5. F \in Seq({F[k] : k \in 1..N}) /\ Len(F) = N
    <3> HIDE DEF N
    <3> QED BY <1>1, <2>3, <2>4
  <2> QED BY <2>2, <2>5, IsSeqIntro
<1>4. ASSUME NEW k \in 1..N
      PROVE  /\ DOMAIN Freed(s)[k] = StoreFields /\ Freed(s)[k].committed = stores[k].committed
             /\ Freed(s)[k].offset = stores[k].offset
             /\ Freed(s)[k].job = stores[k].job /\ Freed(s)[k].file = stores[k].file
             /\ Freed(s)[k].live <=> (stores[k].live /\ k # s)
             /\ Freed(s)[k].jobid_next = IF k # s /\ stores[k].live /\ stores[k].jobid_next = s
                                         THEN stores[s].jobid_next ELSE stores[k].jobid_next
  <2>1. DOMAIN stores[k] = StoreFields
    BY DEF Listed
  <2>2. CASE k = s
    <3>1. Freed(s)[k] = [stores[k] EXCEPT !.live = FALSE]
      BY <1>2, <2>2
    <3> QED BY <2>1, <2>2, <3>1 DEF StoreFields
  <2>3. CASE k # s /\ stores[k].jobid_next = s /\ stores[k].live
    <3>1. Freed(s)[k] = [stores[k] EXCEPT !.jobid_next = stores[s].jobid_next]
      BY <1>2, <2>3
    <3> QED BY <2>1, <2>3, <3>1 DEF StoreFields
  <2>4. CASE k # s /\ ~(stores[k].jobid_next = s /\ stores[k].live)
    <3>1. Freed(s)[k] = stores[k]
      BY <1>2, <2>4
    <3> QED BY <2>1, <2>4, <3>1
  <2> QED BY <2>2, <2>3, <2>4
<1> QED BY <1>3, <1>4 DEF Gone

LEMMA ListedGone ==
  ASSUME NEW st, NEW sl, Listed(st, sl), NEW s \in 1..Len(st), st[s].live,
         NEW st2, Gone(st, st2, s), NEW sl2, TakenOut(sl, sl2, s)
  PROVE  Listed(st2, sl2)
<1>1. Len(st2) = Len(st) /\ IsSeq(st2) /\ IsSeq(sl2)
  BY DEF Gone, TakenOut
<1>2. ASSUME NEW k \in 1..Len(st)
      PROVE  /\ DOMAIN st2[k] = StoreFields /\ st2[k].committed \in Nat /\ st2[k].offset \in Nat
             /\ st2[k].live <=> \E j \in 1..Len(sl2) : sl2[j] = k
  <2>1. DOMAIN st2[k] = StoreFields /\ st2[k].committed \in Nat /\ st2[k].offset \in Nat
    BY DEF Gone, Listed
  <2>2. st2[k].live <=> st[k].live /\ k # s
    BY DEF Gone
  <2>3. st[k].live <=> \E j \in 1..Len(sl) : sl[j] = k
    BY DEF Listed
  <2>4. (\E j \in 1..Len(sl2) : sl2[j] = k) <=> (k # s /\ \E j \in 1..Len(sl) : sl[j] = k)
    BY DEF TakenOut
  <2> QED BY <2>1, <2>2, <2>3, <2>4
<1>3. ASSUME NEW k \in 1..Len(st), st2[k].live
      PROVE  /\ st[k].live /\ k # s /\ IsName(st2[k].file) /\ st2[k].job = st2[k].file[1]
             /\ st2[k].jobid_next \in 1..Len(st) /\ st2[st2[k].jobid_next].live
  <2>1. st[k].live /\ k # s
    BY <1>3 DEF Gone
  <2>2. IsName(st2[k].file) /\ st2[k].job = st2[k].file[1]
    BY <2>1 DEF Gone, Listed
  <2>3. PICK j : j = st2[k].jobid_next
    OBVIOUS
  <2>4. j \in 1..Len(st) /\ st[j].live /\ j # s
    <3>1. CASE st[k].jobid_next = s
      <4>1. j = st[s].jobid_next
        BY <2>1, <2>3, <3>1 DEF Gone
      <4>2. j \in 1..Len(st) /\ st[j].live
        BY <4>1 DEF Listed
      <4>3. j # s
        BY <2>1, <3>1, <4>1 DEF Listed
      <4> QED BY <4>2, <4>3
    <3>2. CASE st[k].jobid_next # s
      <4>1. j = st[k].jobid_next
        BY <2>1, <2>3, <3>2 DEF Gone
      <4> QED BY <2>1, <3>2, <4>1 DEF Listed
    <3> QED BY <3>1, <3>2
  <2>5. st2[j].live
    BY <2>4 DEF Gone
  <2> QED BY <2>1, <2>2, <2>3, <2>4, <2>5
<1>4. ASSUME NEW k \in 1..Len(st), NEW l \in 1..Len(st), st2[k].live, st2[l].live
      PROVE  /\ st2[k].jobid_next = st2[l].jobid_next => k = l
             /\ st2[k].file = st2[l].file => k = l
  <2>1. st[k].live /\ st[l].live /\ k # s /\ l # s
    BY <1>4 DEF Gone
  <2>2. st2[k].file = st2[l].file => k = l
    BY <2>1 DEF Gone, Listed
  <2>3. /\ st2[k].jobid_next = IF st[k].jobid_next = s THEN st[s].jobid_next ELSE st[k].jobid_next
        /\ st2[l].jobid_next = IF st[l].jobid_next = s THEN st[s].jobid_next ELSE st[l].jobid_next
    BY <2>1 DEF Gone
  <2>4. \A i, j \in 1..Len(st) : st[i].live /\ st[j].live => (st[i].jobid_next = st[j].jobid_next => i = j)
    BY DEF Listed
  <2>5. st2[k].jobid_next = st2[l].jobid_next => k = l
    BY <2>1, <2>3, <2>4
  <2> QED BY <2>2, <2>5
<1>5. \A k \in 1..Len(sl2) : sl2[k] \in 1..Len(st)
  BY DEF TakenOut, Listed
<1>6. \A k, l \in 1..Len(sl2) : sl2[k] = sl2[l] => k = l
  BY DEF TakenOut
<1> QED BY <1>1, <1>2, <1>3, <1>4, <1>5, <1>6 DEF Listed

\* (*prev) = slnext, with no store passed over since prev.
CutOut(v, sl2) == sl2 = v.kept \o Tail(v.rest)

LEMMA ListTakenOut ==
  ASSUME NEW v, NEW sl, Halfway(v, sl), v.skipped = <<>>, v.rest # <<>>,
         \A k, l \in 1..Len(sl) : sl[k] = sl[l] => k = l,
         NEW w, w.kept = v.kept, w.skipped = <<>>, w.rest = Tail(v.rest),
         NEW sl2, CutOut(v, sl2)
  PROVE  /\ TakenOut(sl, sl2, Head(v.rest)) /\ Halfway(w, sl2)
         /\ \E k \in 1..Len(sl) : sl[k] = Head(v.rest)
<1>1. PICK a, b, c, s : a = v.kept /\ b = v.rest /\ c = Tail(v.rest) /\ s = Head(v.rest)
  OBVIOUS
<1>2. IsSeq(a) /\ IsSeq(b) /\ b # <<>> /\ c = Tail(b) /\ s = Head(b)
  BY <1>1 DEF Halfway
<1>3. /\ Len(b) > 0 /\ Len(b) \in Nat /\ Len(a) \in Nat /\ IsSeq(c) /\ Len(c) = Len(b) - 1 /\ s = b[1]
      /\ \A i \in 1..Len(b) - 1 : c[i] = b[i + 1]
  BY <1>2, IsSeqEmpty, IsSeqTail, IsSeqLen
<1>4. sl = a \o b
  <2>1. sl = (a \o <<>>) \o b
    BY <1>1 DEF Halfway
  <2>2. a \o <<>> = a
    BY <1>2, ConcatEmpty
  <2> QED BY ONLY <2>1, <2>2, Zenon
<1>5. /\ Len(sl) = Len(a) + Len(b)
      /\ \A i \in 1..Len(a) + Len(b) : sl[i] = IF i <= Len(a) THEN a[i] ELSE b[i - Len(a)]
  BY <1>2, <1>4, IsSeqConcat
<1>6. sl2 = a \o c
  BY <1>1, Zenon DEF CutOut
<1>7. /\ IsSeq(sl2) /\ Len(sl2) = Len(a) + Len(c)
      /\ \A i \in 1..Len(a) + Len(c) : sl2[i] = IF i <= Len(a) THEN a[i] ELSE c[i - Len(a)]
  BY <1>2, <1>3, <1>6, IsSeqConcat
<1> DEFINE n == Len(a)
           m == Len(b)
<1>8. n \in Nat /\ m \in Nat /\ m > 0 /\ Len(sl) = n + m /\ Len(sl2) = n + m - 1
  BY <1>3, <1>5, <1>7
<1>9. sl[n + 1] = s
  BY <1>3, <1>5
<1>10. /\ \A i \in 1..n : sl2[i] = sl[i]
       /\ \A i \in n + 1..n + m - 1 : sl2[i] = sl[i + 1]
  <2>1. \A i \in 1..n : sl2[i] = sl[i]
    BY <1>3, <1>5, <1>7
  <2>2. ASSUME NEW i \in n + 1..n + m - 1 PROVE sl2[i] = sl[i + 1]
    <3>1. i \in Int /\ i - n \in 1..m - 1 /\ ~(i <= n) /\ ~(i + 1 <= n) /\ i + 1 - n = (i - n) + 1
          /\ i \in 1..n + Len(c) /\ i + 1 \in 1..n + m
      BY <1>3
    <3>2. sl2[i] = c[i - n] /\ sl[i + 1] = b[(i + 1) - n]
      BY <1>5, <1>7, <3>1
    <3> QED BY <1>3, <3>1, <3>2
  <2> QED BY <2>1, <2>2
<1> HIDE DEF n, m
<1>11. \A k, l \in 1..n + m : sl[k] = sl[l] => k = l
  BY <1>8
<1>12. ASSUME NEW k \in 1..Len(sl2), NEW l \in 1..Len(sl2), sl2[k] = sl2[l] PROVE k = l
  <2> DEFINE at(i) == IF i <= n THEN i ELSE i + 1
  <2>1. \A i \in 1..n + m - 1 : i \in Int /\ at(i) \in 1..n + m /\ sl2[i] = sl[at(i)]
    BY <1>8, <1>10
  <2>2. k \in 1..n + m - 1 /\ l \in 1..n + m - 1
    BY <1>8
  <2>3. at(k) = at(l)
    <3> HIDE DEF at
    <3> QED BY <1>11, <1>12, <2>1, <2>2
  <2> QED BY <1>8, <2>1, <2>2, <2>3
<1>13. ASSUME NEW x PROVE (\E k \in 1..Len(sl2) : sl2[k] = x) <=> (x # s /\ \E k \in 1..Len(sl) : sl[k] = x)
  <2>1. ASSUME NEW k \in 1..Len(sl2), sl2[k] = x PROVE x # s /\ \E j \in 1..Len(sl) : sl[j] = x
    <3>1. CASE k <= n
      <4>1. k \in 1..n /\ k \in 1..n + m /\ k # n + 1 /\ n + 1 \in 1..n + m
        BY <1>8, <3>1
      <4> QED BY <1>8, <1>9, <1>10, <1>11, <2>1, <4>1
    <3>2. CASE ~(k <= n)
      <4>1. k \in n + 1..n + m - 1 /\ k + 1 \in 1..n + m /\ k + 1 # n + 1 /\ n + 1 \in 1..n + m
        BY <1>8, <3>2
      <4> QED BY <1>8, <1>9, <1>10, <1>11, <2>1, <4>1
    <3> QED BY <3>1, <3>2
  <2>2. ASSUME x # s, NEW j \in 1..Len(sl), sl[j] = x PROVE \E k \in 1..Len(sl2) : sl2[k] = x
    <3>1. CASE j <= n
      <4>1. j \in 1..n /\ j \in 1..Len(sl2)
        BY <1>8, <3>1
      <4> QED BY <1>10, <2>2, <4>1
    <3>2. CASE ~(j <= n)
      <4>1. j # n + 1
        BY <1>9, <2>2
      <4>2. j - 1 \in n + 1..n + m - 1 /\ j - 1 \in 1..Len(sl2) /\ (j - 1) + 1 = j
        BY <1>8, <3>2, <4>1
      <4>3. sl2[j - 1] = x
        BY <1>10, <2>2, <4>2
      <4> QED BY <4>2, <4>3
    <3> QED BY <3>1, <3>2
  <2> QED BY <2>1, <2>2
<1>14. TakenOut(sl, sl2, s)
  BY <1>7, <1>12, <1>13 DEF TakenOut
<1>15. Halfway(w, sl2)
  <2>1. a \o <<>> = a /\ IsSeq(<<>>)
    BY <1>2, ConcatEmpty, EmptyIsSeq
  <2>2. PICK wk, ws, wr : wk = w.kept /\ ws = w.skipped /\ wr = w.rest
    OBVIOUS
  <2>3. wk = a /\ ws = <<>> /\ wr = c
    BY <1>1, <2>2
  <2>4. sl2 = (wk \o ws) \o wr
    BY ONLY <1>6, <2>1, <2>3, Zenon
  <2> QED BY <1>2, <1>3, <2>1, <2>2, <2>3, <2>4 DEF Halfway
<1>16. \E k \in 1..Len(sl) : sl[k] = s
  <2>1. n + 1 \in 1..Len(sl)
    BY <1>8
  <2> QED BY <1>9, <2>1
<1> QED BY <1>1, <1>14, <1>15, <1>16

\* The files, positions, stores and queue without what belonged to s.
Emptied(d, d2, f) ==
  /\ DOMAIN d2 = DOMAIN d \ {f}
  /\ \A n \in DOMAIN d2 : d2[n] = d[n]

LEMMA GoneQueue ==
  ASSUME NEW st, NEW sl, Listed(st, sl), NEW s \in 1..Len(st), st[s].live, NEW st2, Gone(st, st2, s),
         NEW d, NEW S, StoreAt(st[s], d, S), NEW d2, Emptied(d, d2, st[s].file),
         st[s].file \in DOMAIN d => st[s].committed = Len(d[st[s].file]),
         NEW q, InOrder(q, st, d)
  PROVE  InOrder(q, st2, d2)
<1>1. PICK pos \in [1..Len(q) -> Nat] : Queued(q, pos, st, d)
  BY DEF InOrder
<1>2. ASSUME NEW k \in 1..Len(q)
      PROVE  /\ q[k].s \in 1..Len(st) /\ st[q[k].s].live /\ st[q[k].s].file \in DOMAIN d
             /\ pos[k] \in Nat /\ st[q[k].s].committed < pos[k] /\ pos[k] <= st[q[k].s].offset
             /\ q[k].e = d[st[q[k].s].file][pos[k]]
  BY <1>1 DEF Queued
<1>3. ASSUME NEW k \in 1..Len(q) PROVE q[k].s # s
  <2>1. SUFFICES ASSUME q[k].s = s PROVE FALSE
    OBVIOUS
  <2>2. st[s].file \in DOMAIN d /\ st[s].committed < pos[k] /\ pos[k] <= st[s].offset /\ pos[k] \in Nat
    BY <1>2, <2>1
  <2>3. st[s].offset <= st[s].committed
    BY <2>2 DEF StoreAt
  <2>4. st[s].offset \in Nat /\ st[s].committed \in Nat
    BY DEF Listed
  <2> QED BY <2>2, <2>3, <2>4
<1>4. ASSUME NEW r \in 1..Len(st), r # s
      PROVE  /\ st2[r].live <=> st[r].live
             /\ st2[r].committed = st[r].committed /\ st2[r].offset = st[r].offset /\ st2[r].file = st[r].file
  BY <1>4 DEF Gone
<1>5. ASSUME NEW r \in 1..Len(st), r # s, st[r].live PROVE st[r].file # st[s].file
  BY <1>5 DEF Listed
<1>6. Len(st2) = Len(st) /\ (\A r \in 1..Len(st) : st2[r].live => r # s)
  BY DEF Gone
<1>7. ASSUME NEW k \in 1..Len(q)
      PROVE  /\ q[k].s \in 1..Len(st2) /\ st2[q[k].s].live /\ st2[q[k].s].file \in DOMAIN d2
             /\ pos[k] \in Nat /\ st2[q[k].s].committed < pos[k] /\ pos[k] <= st2[q[k].s].offset
             /\ q[k].e = d2[st2[q[k].s].file][pos[k]]
  <2>1. PICK r : r = q[k].s
    OBVIOUS
  <2>2. r \in 1..Len(st) /\ r # s /\ st[r].live /\ st[r].file # st[s].file /\ st[r].file \in DOMAIN d
    BY <1>2, <1>3, <1>5, <2>1
  <2>3. st[r].file \in DOMAIN d2 /\ d2[st[r].file] = d[st[r].file]
    BY <2>2 DEF Emptied
  <2>4. st2[r].live /\ st2[r].committed = st[r].committed /\ st2[r].offset = st[r].offset /\ st2[r].file = st[r].file
    BY <1>4, <2>2
  <2>5. /\ pos[k] \in Nat /\ st[r].committed < pos[k] /\ pos[k] <= st[r].offset
        /\ q[k].e = d[st[r].file][pos[k]]
    BY <1>2, <2>1
  <2>6. /\ r \in 1..Len(st2) /\ st2[r].live /\ st2[r].file \in DOMAIN d2
        /\ pos[k] \in Nat /\ st2[r].committed < pos[k] /\ pos[k] <= st2[r].offset
        /\ q[k].e = d2[st2[r].file][pos[k]]
    BY ONLY <1>6, <2>2, <2>3, <2>4, <2>5
  <2> QED BY ONLY <2>1, <2>6
<1>8. \A k, l \in 1..Len(q) : q[k].s = q[l].s /\ k < l => pos[k] < pos[l]
  BY <1>1 DEF Queued
<1>9. ASSUME NEW r \in 1..Len(st2), st2[r].live, NEW i \in Nat, st2[r].committed < i, i <= st2[r].offset
      PROVE  \E k \in 1..Len(q) : q[k].s = r /\ pos[k] = i
  <2>1. r \in 1..Len(st) /\ r # s
    BY <1>6, <1>9
  <2>2. st[r].live /\ st[r].committed < i /\ i <= st[r].offset
    BY <1>4, <1>9, <2>1
  <2> QED BY <1>1, <2>1, <2>2 DEF Queued
<1>10. Queued(q, pos, st2, d2)
  BY <1>7, <1>8, <1>9 DEF Queued
<1> QED BY <1>1, <1>10 DEF InOrder

LEMMA GoneFiles ==
  ASSUME NEW d, NEW c, NEW S, Positioned(d, c, S), NEW in, Somewhere(d, S, in),
         NEW es, es.committed \in Nat, StoreAt(es, d, S), es.file \in DOMAIN d => es.committed = Len(d[es.file]),
         NEW d2, Emptied(d, d2, es.file), NEW c2, es.file \in DOMAIN d => Emptied(c, c2, es.file),
         es.file \notin DOMAIN d => c2 = c
  PROVE  Positioned(d2, c2, S) /\ Somewhere(d2, S, in)
<1> DEFINE f == es.file
<1>1. DOMAIN d2 = DOMAIN d \ {f} /\ \A n \in DOMAIN d2 : d2[n] = d[n]
  BY DEF Emptied
<1>2. \A n \in DOMAIN d2 : IsName(n) /\ IsSeq(d2[n])
  BY <1>1 DEF Positioned
<1>3. ASSUME NEW n \in DOMAIN c2
      PROVE  n \in DOMAIN c /\ c2[n] = c[n] /\ (n \in DOMAIN d2 <=> n \in DOMAIN d)
  <2>1. CASE f \in DOMAIN d
    <3>1. DOMAIN c2 = DOMAIN c \ {f} /\ \A k \in DOMAIN c2 : c2[k] = c[k]
      BY <2>1 DEF Emptied
    <3> QED BY <1>1, <3>1
  <2>2. CASE f \notin DOMAIN d
    BY <1>1, <2>2
  <2> QED BY <2>1, <2>2
<1>4. ASSUME NEW n \in DOMAIN c2
      PROVE  /\ IsName(n) /\ c2[n] \in Nat
             /\ n \in DOMAIN d2 => c2[n] <= Len(d2[n]) /\ \A i \in 1..c2[n] : d2[n][i] \in S
             /\ n \notin DOMAIN d2 => n[2] = 0
  BY <1>1, <1>3 DEF Positioned
<1>5. Positioned(d2, c2, S)
  BY <1>2, <1>4 DEF Positioned
<1>6. ASSUME NEW e \in 1..in.total, e \notin S, ~(e <= Len(in.log))
      PROVE  \E n \in DOMAIN d2 : \E i \in 1..Len(d2[n]) : d2[n][i] = e
  <2>1. PICK n \in DOMAIN d : \E i \in 1..Len(d[n]) : d[n][i] = e
    BY <1>6 DEF Somewhere
  <2>2. n # f
    BY <1>6, <2>1 DEF StoreAt
  <2> QED BY <1>1, <2>1, <2>2
<1>7. Somewhere(d2, S, in)
  BY <1>6 DEF Somewhere
<1> QED BY <1>5, <1>7

\* The recovery thread goes on with its cleanup, with other stores.
LEMMA GoneHolding ==
  ASSUME NEW t, NEW l, NEW st, NEW sl, Holding(t, l, st, sl), t["recovery"].pc = "cleaning",
         NEW v, DOMAIN v = ThreadFields, v.pc = "cleaning", NEW st2, NEW sl2, Halfway(v, sl2),
         t["main"].pc \in {"read", "step"} => Live(st2, t["main"].es) /\ t["main"].p \in 1..Len(st2),
         t["main"].pc = "read" => st2[t["main"].p].live
  PROVE  Holding([t EXCEPT !["recovery"] = v], l, st2, sl2)
<1> DEFINE u == [t EXCEPT !["recovery"] = v]
<1>1. DOMAIN t = {"main", "recovery"} /\ \A y \in DOMAIN t : DOMAIN t[y] = ThreadFields
  BY DEF Holding
<1>2. DOMAIN u = {"main", "recovery"} /\ u["recovery"] = v /\ u["main"] = t["main"]
  BY <1>1
<1> HIDE DEF u
<1>3. DOMAIN l = {"readers", "writer"} /\ l.readers = {} /\ l.writer = "recovery"
      /\ t["main"].pc \in {"idle", "read", "step", "all"}
  BY DEF Holding
<1>4. \A y \in {"main", "recovery"} : t[y].pc # "all"
  <2>1. l.readers = {y \in {"main", "recovery"} : t[y].pc = "all"}
    BY DEF Holding
  <2> QED BY <1>3, <2>1
<1>5. \A y \in {"main", "recovery"} : u[y].pc # "all"
  BY <1>2, <1>4
<1>6. l.readers = {y \in {"main", "recovery"} : u[y].pc = "all"}
  BY <1>3, <1>5
<1>7. \A y \in DOMAIN u : DOMAIN u[y] = ThreadFields
  BY <1>1, <1>2
<1>8. u["main"].pc \in {"idle", "read", "step", "all"} /\ u["recovery"].pc = "cleaning" /\ u["recovery"].pc # "scan"
      /\ u["recovery"].pc \in {"asleep", "begin", "scan", "stale", "all", "clean", "cleaning", "watch"}
  BY <1>2, <1>3
<1>9. /\ u["main"].pc \in {"read", "step"} => Live(st2, u["main"].es) /\ u["main"].p \in 1..Len(st2)
      /\ u["main"].pc = "read" => st2[u["main"].p].live
  BY <1>2
<1>10. l.writer = IF u["recovery"].pc = "cleaning" THEN "recovery" ELSE ""
  BY <1>3, <1>8
<1>11. u["recovery"].pc = "cleaning" => l.readers = {} /\ Halfway(u["recovery"], sl2)
  BY <1>2, <1>3
<1>12. Holding(u, l, st2, sl2)
  BY <1>2, <1>3, <1>5, <1>6, <1>7, <1>8, <1>9, <1>10, <1>11 DEF Holding
<1> QED BY <1>12 DEF u

LEMMA CleanupRemovesStep ==
  ASSUME ListInv, exposed = {}, CleanupRemoves, exposed' = {}
  PROVE  ListInv'
<1> USE InvParts
<1> DEFINE t == th["recovery"]
           s == Head(t.rest)
           f == stores[s].file
           v == [t EXCEPT !.rest = Tail(t.rest), !.skipped = <<>>]
<1>1. /\ t.pc = "cleaning" /\ t.rest # <<>> /\ ~InUse(s) /\ Cleanable(s)
      /\ stores' = Freed(s) /\ dir' = Without(dir, f)
      /\ ctl' = IF f \in DOMAIN dir THEN Without(ctl, f) ELSE ctl
      /\ th' = [th EXCEPT !["recovery"] = v]
      /\ UNCHANGED <<list_lock, out, input, sent>>
  BY DEF CleanupRemoves
<1>2. t.skipped = <<>>
  BY DEF CleanupRemoves
<1>3. CutOut(t, store_list')
  BY DEF CleanupRemoves, CutOut
<1>4. DOMAIN t = ThreadFields /\ Halfway(t, store_list)
  BY <1>1 DEF Holding
<1> HIDE DEF t
<1>5. DOMAIN v = ThreadFields /\ v.pc = "cleaning" /\ v.kept = t.kept /\ v.skipped = <<>> /\ v.rest = Tail(t.rest)
  BY <1>1, <1>4 DEF ThreadFields
<1> HIDE DEF v, s
<1>6. \A k, l \in 1..Len(store_list) : store_list[k] = store_list[l] => k = l
  BY DEF Listed
<1>7. /\ TakenOut(store_list, store_list', s) /\ Halfway(v, store_list')
      /\ \E k \in 1..Len(store_list) : store_list[k] = s
  BY <1>1, <1>2, <1>3, <1>4, <1>5, <1>6, ListTakenOut DEF s
<1>8. s \in 1..Len(stores) /\ stores[s].live /\ stores[s].committed \in Nat /\ StoreAt(stores[s], dir, sent)
  <2>1. s \in 1..Len(stores)
    BY <1>7 DEF Listed
  <2>2. stores[s].live /\ stores[s].committed \in Nat
    BY <1>7, <2>1 DEF Listed
  <2> QED BY <2>1, <2>2
<1>9. Gone(stores, stores', s)
  BY <1>1, <1>8, FreedGone
<1>10. Listed(stores', store_list')
  BY <1>7, <1>8, <1>9, ListedGone
<1>11. f \in DOMAIN dir => stores[s].committed = Len(dir[f])
  BY <1>1 DEF Cleanable
<1>12. Emptied(dir, dir', f)
  BY <1>1 DEF Emptied, Without
<1>13. (f \in DOMAIN dir => Emptied(ctl, ctl', f)) /\ (f \notin DOMAIN dir => ctl' = ctl)
  BY <1>1 DEF Emptied, Without
<1>14. InOrder(out', stores', dir')
  <2>1. InOrder(out, stores', dir')
    BY <1>8, <1>9, <1>11, <1>12, GoneQueue
  <2> QED BY <1>1, <2>1
<1>15. Positioned(dir', ctl', sent') /\ Somewhere(dir', sent', input')
  <2>1. Positioned(dir', ctl', sent) /\ Somewhere(dir', sent, input)
    BY <1>8, <1>11, <1>12, <1>13, GoneFiles
  <2> QED BY <1>1, <2>1
<1>16. ASSUME NEW r \in 1..Len(stores'), stores'[r].live PROVE StoreAt(stores'[r], dir', sent')
  <2>1. /\ r \in 1..Len(stores) /\ r # s /\ stores[r].live
        /\ stores'[r].committed = stores[r].committed /\ stores'[r].offset = stores[r].offset
        /\ stores'[r].file = stores[r].file
    BY <1>9, <1>16 DEF Gone
  <2>2. stores[r].file # f
    BY <1>8, <2>1 DEF Listed
  <2>3. StoreAt(stores[r], dir, sent)
    BY <2>1
  <2>4. StoreAt(stores'[r], dir', sent)
    BY <1>12, <2>1, <2>2, <2>3 DEF StoreAt, Emptied
  <2> QED BY <1>1, <2>4
<1>17. Holding(th', list_lock', stores', store_list')
  <2> DEFINE m == th["main"]
  <2>1. /\ m.pc \in {"read", "step"} => Live(stores, m.es) /\ m.p \in 1..Len(stores)
        /\ m.pc = "read" => stores[m.p].live
    BY DEF Holding
  <2>2. (m.pc \in {"read", "step"} => m.es # s) /\ (m.pc = "read" => m.p # s)
    BY <1>1 DEF InUse
  <2>3. Len(stores') = Len(stores) /\ \A r \in 1..Len(stores) : r # s /\ stores[r].live => stores'[r].live
    BY <1>9 DEF Gone
  <2>4. /\ m.pc \in {"read", "step"} => Live(stores', m.es) /\ m.p \in 1..Len(stores')
        /\ m.pc = "read" => stores'[m.p].live
    BY <2>1, <2>2, <2>3 DEF Live
  <2>5. th["recovery"].pc = "cleaning"
    BY <1>1 DEF t
  <2>6. Holding([th EXCEPT !["recovery"] = v], list_lock, stores', store_list')
    BY <1>5, <1>7, <2>4, <2>5, GoneHolding
  <2> QED BY <1>1, <2>6
<1>18. Kept
  BY <1>1, <1>10, <1>14, <1>15, <1>16 DEF Kept
<1> QED BY <1>17, <1>18, KeptInv

-----------------------------------------------------------------------------
(* The invariant holds.                                                     *)

\* The only steps that the credentials take.
LEMMA CredKept ==
  ASSUME ListNext
  PROVE  creds' = creds \/ creds' = NoCreds \/ NewCreds \/ \E q \in Senders : ConnectBegin(q) \/ ConnectEnd(q)
<1> USE DEF Started
<1>1. CASE LogLine \/ SendNext \/ LoopEnds \/ ProcessDies
  BY <1>1 DEF LogLine, SendNext, LoopEnds, ProcessDies
<1>2. CASE MainLoop
  <2>1. CASE GetMessage \/ GetAll
    BY <2>1 DEF GetMessage, GetAll
  <2>2. CASE RingRead \/ RingNext
    BY <2>2 DEF RingRead, RingNext
  <2>3. CASE AllRead("main") \/ AllEnd("main")
    BY <2>3 DEF AllRead, AllEnd
  <2> QED BY <1>2, <2>1, <2>2, <2>3 DEF MainLoop
<1>3. CASE recover_thread
  <2>1. CASE ScanBegin \/ ScanFile \/ ScanEnd \/ RemoveStale \/ ReadAll
    BY <2>1 DEF ScanBegin, ScanFile, ScanEnd, RemoveStale, ReadAll
  <2>2. CASE AllRead("recovery") \/ AllEnd("recovery")
    BY <2>2 DEF AllRead, AllEnd
  <2>3. CASE CleanupBegin \/ CleanupBusy \/ CleanupStays \/ CleanupRemoves \/ CleanupEnd \/ WatchNothing
    BY <2>3 DEF CleanupBegin, CleanupBusy, CleanupStays, CleanupRemoves, CleanupEnd, WatchNothing
  <2> QED BY <1>3, <2>1, <2>2, <2>3 DEF recover_thread
<1> QED BY <1>1, <1>2, <1>3 DEF ListNext

LEMMA CredInductive ==
  ASSUME CredInv, [Next]_<<vars, listVars>>
  PROVE  CredInv'
<1>1. CASE creds' = creds
  BY <1>1 DEF CredInv, Counted, Holders
<1>2. CASE ListNext
  BY <1>1, <1>2, CredKept, CredStarted, CredNew, CredBegin, CredEnd DEF CredInv
<1>3. UNCHANGED listVars => creds' = creds
  BY DEF listVars
<1> QED BY <1>1, <1>2, <1>3 DEF Next

LEMMA ListInductive ==
  ASSUME ListInv, [Next]_<<vars, listVars>>
  PROVE  ListInv'
<1>1. CASE UNCHANGED listVars
  BY <1>1 DEF listVars, ListInv
<1>2. CASE ListNext
  <2>1. SUFFICES ASSUME exposed' = {} PROVE ListInv'
    BY DEF ListInv
  <2>2. exposed = {}
    BY <1>2, <2>1, ExposedKept
  <2>3. CASE MainLoop
    BY <2>1, <2>2, <2>3, GetMessageStep, ReadSteps, RingReadStep, RingNextStep, AllReadStep DEF MainLoop
  <2>4. CASE recover_thread
    BY <2>1, <2>2, <2>4, ScanSteps, ScanFileStep, RemoveStaleStep, ReadSteps, AllReadStep, CleanupSteps,
       CleanupRemovesStep DEF recover_thread
  <2>5. CASE LogLine \/ SendNext \/ LoopEnds \/ ProcessDies
    BY <2>1, <2>2, <2>5, LogLineStep, SendNextStep, StartSteps
  <2>6. ASSUME NEW q \in Senders, ConnectBegin(q) \/ ConnectEnd(q) PROVE ListInv'
    BY <2>2, <2>6, ConnectSteps
  <2> QED BY <1>2, <2>3, <2>4, <2>5, <2>6 DEF ListNext
<1>3. [Next]_<<vars, listVars>> => UNCHANGED listVars \/ ListNext
  BY DEF Next
<1> QED BY <1>1, <1>2, <1>3

LEMMA NothingFindable == Findable(NoPlan)
<1> DEFINE i == [log |-> <<>>, get |-> <<>>, crash |-> 0, renew |-> 0, connect |-> 0, total |-> 0]
<1>1. NoPlan.dir = NoFiles /\ NoPlan.ctl = NoFiles /\ NoPlan.sent = {} /\ NoPlan.input = i
  BY DEF NoPlan
<1>2. DOMAIN NoFiles = {}
  BY DEF NoFiles
<1>3. DOMAIN i = {"log", "get", "crash", "renew", "connect", "total"} /\ i.log = <<>> /\ i.total = 0
  OBVIOUS
<1>4. <<>> \in Seq(Range(<<>>)) /\ 1..0 = {}
  BY EmptySeq
<1> HIDE DEF i
<1> QED BY <1>1, <1>2, <1>3, <1>4 DEF Findable

LEMMA ListInitial ==
  ASSUME NEW p, Findable(p), NEW pc \in {"begin", "asleep"}, ListInit(p, pc)
  PROVE  ListInv /\ CredInv
<1>1. /\ dir = p.dir /\ ctl = p.ctl /\ sent = p.sent /\ input = p.input
      /\ stores = <<>> /\ store_list = <<>> /\ out = <<>>
      /\ list_lock = [readers |-> {}, writer |-> ""]
      /\ th = [main |-> Thread("idle"), recovery |-> Thread(pc)] /\ creds = NoCreds
  BY DEF ListInit
<1>2. Positioned(dir, ctl, sent)
  <2>1. ASSUME NEW n \in DOMAIN dir PROVE IsName(n) /\ IsSeq(dir[n])
    <3>1. IsName(n) /\ dir[n] \in Seq(Nat)
      BY <1>1 DEF Findable
    <3> QED BY <3>1, IsSeqIntro
  <2>2. ASSUME NEW n \in DOMAIN ctl
        PROVE  /\ IsName(n) /\ ctl[n] \in Nat
               /\ n \in DOMAIN dir => ctl[n] <= Len(dir[n]) /\ \A i \in 1..ctl[n] : dir[n][i] \in sent
               /\ n \notin DOMAIN dir => n[2] = 0
    BY <1>1 DEF Findable
  <2> QED BY <2>1, <2>2 DEF Positioned
<1>3. Somewhere(dir, sent, input)
  <2>1. /\ DOMAIN input = {"log", "get", "crash", "renew", "connect", "total"}
        /\ input.log \in Seq(Range(input.log)) /\ input.total \in Nat
    BY <1>1 DEF Findable
  <2>2. IsSeq(input.log)
    BY <2>1, IsSeqIntro
  <2>3. ASSUME NEW e \in 1..input.total, e \notin sent, ~(e <= Len(input.log))
        PROVE  \E n \in DOMAIN dir : \E i \in 1..Len(dir[n]) : dir[n][i] = e
    <3>1. e \in UNION {Range(dir[n]) : n \in DOMAIN dir}
      BY <1>1, <2>3 DEF Findable
    <3>2. PICK n \in DOMAIN dir : e \in Range(dir[n])
      BY <3>1
    <3>3. DOMAIN dir[n] = 1..Len(dir[n])
      BY <1>2, IsSeqLen DEF Positioned
    <3> QED BY <3>2, <3>3 DEF Range
  <2> QED BY <2>1, <2>2, <2>3 DEF Somewhere
<1>4. /\ Listed(stores, store_list) /\ IsSeq(out) /\ 1..Len(stores) = {} /\ InOrder(out, stores, dir)
      /\ Holding(th, list_lock, stores, store_list)
  <2>1. /\ Listed(<<>>, <<>>) /\ IsSeq(<<>>) /\ 1..Len(<<>>) = {} /\ InOrder(<<>>, <<>>, dir)
        /\ Holding([main |-> Thread("idle"), recovery |-> Thread(pc)], [readers |-> {}, writer |-> ""], <<>>, <<>>)
    BY NoStores
  <2> QED BY <1>1, <2>1
<1>5. ListInv
  BY <1>2, <1>3, <1>4 DEF ListInv
<1>6. CredInv
  BY <1>1, CredStarted DEF CredInv
<1> QED BY <1>5, <1>6

LEMMA ListInvInitial == Init => ListInv /\ CredInv
<1>1. ASSUME NEW s \in Scenarios, ListInit(NoPlan, "asleep") PROVE ListInv /\ CredInv
  BY <1>1, NothingFindable, ListInitial
<1>2. ASSUME NEW p \in Plans, ListInit(p, "begin") PROVE ListInv /\ CredInv
  BY <1>2, PlansAssumption, ListInitial
<1> QED BY <1>1, <1>2 DEF Init

\* What a thread of the inter-logger uses has not been freed, whatever is read,
\* sent, rotated and removed at the same time and wherever the process dies:
\* stores of queued messages, those the main loop has locked, those in the list,
\* one for a file (event_store.c), and the credentials of every connection being
\* made, which are released once (recover.c, send_event.c).
THEOREM StoresKept == Spec => []InUseKept
<1>1. Init => ListInv /\ CredInv
  BY ListInvInitial
<1>2. ListInv /\ CredInv /\ [Next]_<<vars, listVars>> => ListInv' /\ CredInv'
  BY ListInductive, CredInductive
<1>3. ListInv /\ CredInv => InUseKept
  BY ListInUse
<1> QED BY <1>1, <1>2, <1>3, PTL DEF Spec

\* An event that the server has not got is in a file, and no control file has a
\* restart skip it, however many files there are, however they are rotated
\* (event_store_rotate_file), committed and removed (event_store_clean).
THEOREM RotationKeeps == Spec => []RotationSafe
<1>1. Init => ListInv
  BY ListInvInitial
<1>2. ListInv /\ [Next]_<<vars, listVars>> => ListInv'
  BY ListInductive
<1>3. ListInv => RotationSafe
  BY ListRotation
<1> QED BY <1>1, <1>2, <1>3, PTL DEF Spec
=============================================================================
