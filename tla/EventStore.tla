----------------------------- MODULE EventStore -----------------------------
(***************************************************************************)
(* The inter-logger's path of one job's events from the event file to the  *)
(* bookkeeping server (org.glite.lb.logger/src/event_store.c, il_master.c,  *)
(* recover.c, send_event.c, queue_thread.c).                                *)
(*                                                                          *)
(* The local logger appends events to a file.  Two inter-logger threads,    *)
(* the main loop ("main") and the recovery thread ("recover"), read the     *)
(* file from es->offset and insert what they find into the output queue;    *)
(* the queue thread ("sender") delivers, and counts what the server has     *)
(* taken in last_committed_bs, saved in a control file; the recovery thread *)
(* removes the file when everything in it has been counted.                 *)
(*                                                                          *)
(* One store, one queue, one queue thread (parallel = 1, the default; other *)
(* threads never serve a job that one of them is serving).  bs_only = 1, so *)
(* last_committed_ls always equals last_committed_bs: both are committed.   *)
(* max_store_size = 0, the default of the job-event inter-logger: the file  *)
(* is not rotated.                                                          *)
(***************************************************************************)
EXTENDS Naturals, Integers, Sequences, FiniteSets

CONSTANTS MaxEvents,    \* bound: events the local logger writes
          Lens,         \* lengths of an event, the separator included
          QueueHigh,    \* queue_size_high: 0 means no limit
          QueueLow,     \* queue_size_low
          MaxCrashes,   \* bound: crashes of the inter-logger
          Exposures     \* the hazards this instance is exposed to

\* "sync"        some events are priority (synchronous) events
\* "ctl_write"   writing the control file may fail
\* "confirm"     the confirmation of a priority event may fail
\* "crash_clean" the process may die between the two unlinks of a clean
\* "early"       the main loop may get a message before the first scan
\* "torn"        the local logger may die in the middle of a write
ExposureKinds == {"sync", "ctl_write", "confirm", "crash_clean", "early", "torn"}

ASSUME StoreAssumption ==
  /\ MaxEvents \in Nat
  /\ Lens \subseteq Nat \ {0}
  /\ QueueHigh \in Nat
  /\ QueueLow \in Nat
  /\ MaxCrashes \in Nat
  /\ Exposures \subseteq ExposureKinds

VARIABLES
  file,        \* the event file: its lines, in order; <<>> when it is absent
  ctl,         \* the number in the control file, -1 when it is absent
  nextId,      \* next event of the local logger
  notices,     \* messages on the socket announcing an event
  up,          \* is the inter-logger running
  scanned,     \* event_store_init has run since the start
  present,     \* there is an event_store for the job
  committed,   \* es->last_committed_bs
  offset,      \* es->offset
  gen,         \* es->generation
  commitLock,  \* holder of es->commit_lock
  offsetLock,  \* holder of es->offset_lock
  pc,          \* control point of the two reading threads
  last, fpos, throttle, \* locals of event_store_recover, of the offset_lock holder
  hi, lo,      \* the output queue: messages before eq->tail_ems, and from it
  throttling,  \* eq->throttling
  spc,         \* control point of the queue thread
  cur, at,     \* me->current: the message, and in which part of the queue
  logged,      \* history: events whose write was acknowledged
  delivered,   \* history: events the server has answered for
  quarantined, \* history: events moved away in a damaged file
  crashes

disk == <<file, ctl>>
store == <<present, committed, offset, gen>>
locks == <<commitLock, offsetLock>>
locals == <<last, fpos, throttle>>
readers == <<pc, last, fpos, throttle>>
queue == <<hi, lo, throttling>>
snd == <<spc, cur, at>>
history == <<logged, delivered, quarantined>>
process == <<up, scanned, crashes>>
vars == <<file, ctl, nextId, notices, up, scanned, present, committed, offset,
          gen, commitLock, offsetLock, pc, last, fpos, throttle, hi, lo, throttling, spc, cur, at, logged,
          delivered, quarantined, crashes>>

Readers == {"main", "recover"}
Free == "free"
NoMsg == [id |-> 0, offset |-> 0, len |-> 0, gen |-> 0, pri |-> "async"]

Kinds == {"async", "sync"}
Lines == [id : Nat, start : Nat, len : Nat, st : {"ok", "bad", "part"}, pri : Kinds]
Msgs == [id : Nat, offset : Nat, len : Nat, gen : Nat, pri : Kinds]

Ends(line) == line.start + line.len
Size(f) == IF f = <<>> THEN 0 ELSE Ends(f[Len(f)])
HasPart(f) == f # <<>> /\ f[Len(f)].st = "part"

\* A position behind a separator: the byte before it ends a line.
Boundary(p) == \E i \in 1..Len(file) : Ends(file[i]) = p /\ file[i].st # "part"

QueueLen == Len(hi) + Len(lo)

FlagsOK ==
  /\ up \in BOOLEAN /\ scanned \in BOOLEAN /\ present \in BOOLEAN
  /\ throttle \in BOOLEAN /\ throttling \in BOOLEAN

DataOK ==
  /\ file \in Seq(Lines)
  /\ ctl \in Nat \cup {-1}
  /\ nextId \in Nat /\ notices \in Nat
  /\ committed \in Nat /\ offset \in Nat /\ gen \in Nat
  /\ commitLock \in Readers \cup {"sender", Free}
  /\ offsetLock \in Readers \cup {Free}
  /\ pc \in [Readers -> {"idle", "found", "locked", "reading", "clean", "unlink"}]
  /\ last \in Nat /\ fpos \in Nat
  /\ hi \in Seq(Msgs) /\ lo \in Seq(Msgs)
  /\ spc \in {"none", "wait", "sending", "replied", "commit", "count", "ctl", "committed"}
  /\ cur \in Msgs /\ at \in {"hi", "lo"}
  /\ logged \subseteq Nat /\ delivered \subseteq Nat /\ quarantined \subseteq Nat
  /\ crashes \in Nat

\* The types of the state of event_store.c, its queue and its files.
TypeOK == FlagsOK /\ DataOK

Init ==
  /\ file = <<>> /\ ctl = -1
  /\ nextId = 1 /\ notices = 0
  /\ up = TRUE /\ scanned = FALSE
  /\ present = FALSE /\ committed = 0 /\ offset = 0 /\ gen = 0
  /\ commitLock = Free /\ offsetLock = Free
  /\ pc = [t \in Readers |-> "idle"]
  /\ last = 0 /\ fpos = 0 /\ throttle = FALSE
  /\ hi = <<>> /\ lo = <<>> /\ throttling = FALSE
  /\ spc = "none" /\ cur = NoMsg /\ at = "lo"
  /\ logged = {} /\ delivered = {} /\ quarantined = {}
  /\ crashes = 0

-----------------------------------------------------------------------------
(* The local logger (edg_wll_log_event_write).  The write itself is atomic  *)
(* for the readers: it is done under a file lock, and a reader ignores a    *)
(* line without a separator.  A reader does not block it for long, and the  *)
(* lock of a reader is in any case dropped when event_store_from_file       *)
(* closes its own descriptor of the same file.                              *)

NewLine(len, st, pri) ==
  [id |-> nextId, start |-> Size(file), len |-> len, st |-> st, pri |-> pri]

\* An event written behind an incomplete one makes one unreadable line of both.
GluedLine(line, len) ==
  [id |-> nextId, start |-> line.start, len |-> line.len + len, st |-> "bad", pri |-> line.pri]
Glued(len) == [file EXCEPT ![Len(file)] = GluedLine(file[Len(file)], len)]

Log(len, pri) ==
  /\ nextId <= MaxEvents
  /\ pri = "sync" => "sync" \in Exposures
  /\ file' = IF HasPart(file) THEN Glued(len) ELSE Append(file, NewLine(len, "ok", pri))
  /\ logged' = logged \cup {nextId}
  /\ nextId' = nextId + 1
  /\ notices' = IF up THEN notices + 1 ELSE notices
  /\ UNCHANGED <<ctl, process, store, locks, readers, queue, snd, delivered, quarantined>>

\* The local logger dies in fwrite: the tail of the event is missing.
LogTorn(len) ==
  /\ "torn" \in Exposures
  /\ nextId <= MaxEvents
  /\ ~HasPart(file)
  /\ file' = Append(file, NewLine(len, "part", "async"))
  /\ nextId' = nextId + 1
  /\ UNCHANGED <<ctl, notices, process, store, locks, readers, queue, snd, history>>

-----------------------------------------------------------------------------
(* Finding the event store.                                                 *)

\* Mutant: read_ctl without its branch for a missing control file.
MutCtlValue == ctl

\* read_ctl: a missing or just truncated control file means nothing committed.
CtlValue == IF ctl = -1 THEN 0 ELSE ctl

\* handle_msg -> event_store_find(job, NULL); use_lock is held until the end
\* of the read (pc # "idle").  The list lock keeps it out while the recovery
\* thread is in event_store_recover_all or event_store_cleanup.
Find ==
  /\ up /\ pc["main"] = "idle" /\ pc["recover"] = "idle"
  /\ notices > 0
  /\ scanned \/ "early" \in Exposures
  /\ notices' = notices - 1
  /\ IF present THEN UNCHANGED store
     ELSE present' = TRUE /\ committed' = 0 /\ offset' = 0 /\ gen' = 0
  /\ pc' = [pc EXCEPT !["main"] = "found"]
  /\ UNCHANGED <<disk, nextId, process, locks, locals, queue, snd, history>>

\* event_store_init of the recovery thread: attach to the file if its first
\* line can be read, reading the control file into a store that is all zero;
\* remove a control file whose event file is gone.
Scan ==
  /\ up /\ pc["recover"] = "idle"
  /\ commitLock = Free
  /\ scanned' = TRUE
  /\ LET readable == file # <<>> /\ file[1].st = "ok" IN
     /\ present' = (present \/ readable)
     /\ IF readable /\ (~present \/ (committed = 0 /\ offset = 0))
        THEN /\ committed' = CtlValue
             /\ offset' = 0
             /\ gen' = IF present THEN gen ELSE 0
        ELSE UNCHANGED <<committed, offset, gen>>
     /\ ctl' = IF file = <<>> THEN -1 ELSE ctl
     /\ pc' = [pc EXCEPT !["recover"] = IF present' THEN "found" ELSE "idle"]
  /\ UNCHANGED <<file, nextId, notices, up, crashes, locks, locals, queue, snd, history>>

-----------------------------------------------------------------------------
(* event_store_recover                                                      *)

LocalsGone == last' = 0 /\ fpos' = 0 /\ throttle' = FALSE

\* The main loop goes back to its socket, the recovery thread to the cleanup.
Return(t) == [pc EXCEPT ![t] = IF t = "main" THEN "idle" ELSE "clean"]

\* event_store_lock, before waiting for the offset lock
RecoverLock(t) ==
  /\ up /\ pc[t] = "found"
  /\ commitLock = Free
  /\ commitLock' = t
  /\ pc' = [pc EXCEPT ![t] = "locked"]
  /\ UNCHANGED <<disk, nextId, notices, process, store, offsetLock, locals, queue, snd, history>>

RecoverNoFile(t) ==
  /\ up /\ pc[t] = "locked" /\ offsetLock = Free
  /\ file = <<>>
  /\ commitLock' = Free
  /\ pc' = Return(t)
  /\ UNCHANGED <<disk, nextId, notices, process, store, offsetLock, locals, queue, snd, history>>

\* Mutant: always start at the last commit.
MutStartPos == IF committed > 0 /\ Boundary(committed) THEN committed ELSE 0

\* Where to start: at offset, else at the last commit, else at the beginning;
\* a position that is not behind a separator is given up.
OffsetGood == offset > 0 /\ Boundary(offset)
StartPos == IF OffsetGood THEN offset
            ELSE IF committed > 0 /\ Boundary(committed) THEN committed ELSE 0

RecoverSeek(t) ==
  /\ up /\ pc[t] = "locked" /\ offsetLock = Free
  /\ file # <<>>
  /\ offset' = IF OffsetGood THEN offset ELSE 0
  /\ committed' = IF OffsetGood \/ StartPos = committed THEN committed ELSE 0
  /\ last' = StartPos /\ fpos' = StartPos /\ throttle' = FALSE
  /\ commitLock' = Free
  /\ offsetLock' = t
  /\ pc' = [pc EXCEPT ![t] = "reading"]
  /\ UNCHANGED <<disk, nextId, notices, process, present, gen, queue, snd, history>>

SndGoto(p) == spc' = p /\ UNCHANGED <<cur, at>>

\* event_queue_insert: a priority message goes right before tail_ems.
Insert(msg) ==
  IF lo = <<>> \/ msg.pri = "async"
  THEN lo' = Append(lo, msg) /\ UNCHANGED hi
  ELSE hi' = Append(hi, msg) /\ UNCHANGED lo

Refuse == QueueHigh > 0 /\ (QueueLen >= QueueHigh \/ throttling)

LineAtFpos(i) == i \in 1..Len(file) /\ file[i].start = fpos /\ file[i].st # "part"

\* Mutant: last moves on although the queue refused the event.
MutRecoverLine(t) ==
  /\ up /\ pc[t] = "reading"
  /\ \E i \in 1..Len(file) :
       /\ LineAtFpos(i) /\ file[i].st = "ok"
       /\ IF Refuse THEN UNCHANGED <<hi, lo>> /\ throttling' = TRUE
          ELSE /\ Insert([id |-> file[i].id, offset |-> last, len |-> file[i].len,
                          gen |-> gen, pri |-> file[i].pri])
               /\ UNCHANGED throttling
       /\ SndGoto(IF spc = "none" THEN "wait" ELSE spc)
       /\ last' = Ends(file[i]) /\ fpos' = Ends(file[i]) /\ throttle' = FALSE
  /\ UNCHANGED <<disk, nextId, notices, process, store, locks, pc, history>>

\* One turn of the reading loop.  After a refused insert the loop reads on,
\* but last stays at the first event that was refused.
RecoverLine(t) ==
  /\ up /\ pc[t] = "reading"
  /\ \E i \in 1..Len(file) :
       /\ LineAtFpos(i) /\ file[i].st = "ok"
       /\ LET wanted == ~throttle /\ last >= committed
              stop == throttle \/ (wanted /\ Refuse)
              msg == [id |-> file[i].id, offset |-> last, len |-> file[i].len,
                      gen |-> gen, pri |-> file[i].pri]
          IN /\ IF wanted /\ ~Refuse
                THEN Insert(msg) /\ UNCHANGED throttling
                ELSE UNCHANGED <<hi, lo>> /\ throttling' = (throttling \/ wanted)
             /\ SndGoto(IF wanted /\ spc = "none" THEN "wait" ELSE spc)
             /\ last' = IF stop THEN last ELSE Ends(file[i])
             /\ fpos' = Ends(file[i])
             /\ throttle' = stop
  /\ UNCHANGED <<disk, nextId, notices, process, store, locks, pc, history>>

RecoverEnd(t) ==
  /\ up /\ pc[t] = "reading"
  /\ \A i \in 1..Len(file) : ~LineAtFpos(i)
  /\ offset' = last
  /\ offsetLock' = Free
  /\ LocalsGone
  /\ pc' = Return(t)
  /\ UNCHANGED <<disk, nextId, notices, process, present, committed, gen, commitLock,
                 queue, snd, history>>

\* Mutant: the damaged file keeps its name.
MutQuarantine(t) ==
  /\ up /\ pc[t] = "reading"
  /\ \E i \in 1..Len(file) : LineAtFpos(i) /\ file[i].st = "bad"
  /\ committed' = 0 /\ offset' = 0 /\ gen' = gen
  /\ offsetLock' = Free /\ LocalsGone /\ pc' = Return(t)
  /\ UNCHANGED <<disk, nextId, notices, process, present, commitLock, queue, snd, history>>

\* event_store_quarantine: a line that is no event sends the file away.  The
\* control file stays where it is.
Quarantine(t) ==
  /\ up /\ pc[t] = "reading"
  /\ \E i \in 1..Len(file) : LineAtFpos(i) /\ file[i].st = "bad"
  /\ quarantined' = quarantined \cup {file[i].id : i \in 1..Len(file)}
  /\ file' = <<>>
  /\ committed' = 0 /\ offset' = 0 /\ gen' = gen + 1
  /\ offsetLock' = Free
  /\ LocalsGone
  /\ pc' = Return(t)
  /\ UNCHANGED <<ctl, nextId, notices, process, present, commitLock, queue, snd, logged, delivered>>

\* No name for the file is found or it cannot be renamed: "we could not do
\* more", the read ends and the next one meets the same line.
QuarantineFails(t) ==
  /\ up /\ pc[t] = "reading"
  /\ \E i \in 1..Len(file) : LineAtFpos(i) /\ file[i].st = "bad"
  /\ offsetLock' = Free
  /\ LocalsGone
  /\ pc' = Return(t)
  /\ UNCHANGED <<disk, nextId, notices, process, store, commitLock, queue, snd, history>>

-----------------------------------------------------------------------------
(* The queue thread: event_queue_send                                       *)

\* event_queue_get: the head of the queue
Get ==
  /\ up /\ spc = "wait" /\ QueueLen > 0
  /\ spc' = "sending"
  /\ IF hi # <<>> THEN cur' = hi[1] /\ at' = "hi" ELSE cur' = lo[1] /\ at' = "lo"
  /\ UNCHANGED <<disk, nextId, notices, process, store, locks, readers, queue, history>>

\* Mutant: a temporary failure of the server is taken for an answer.
MutSendFails ==
  /\ up /\ spc = "sending"
  /\ SndGoto("replied")
  /\ UNCHANGED <<disk, nextId, notices, process, store, locks, readers, queue, history>>

\* No connection, a broken one, LB_NOMEM or LB_DBERR: try again later.
SendFails ==
  /\ up /\ spc = "sending"
  /\ SndGoto("wait")
  /\ UNCHANGED <<disk, nextId, notices, process, store, locks, readers, queue, history>>

\* The server has stored the event and the answer does not come back.
ReplyLost ==
  /\ up /\ spc = "sending"
  /\ delivered' = delivered \cup {cur.id}
  /\ SndGoto("wait")
  /\ UNCHANGED <<disk, nextId, notices, process, store, locks, readers, queue, logged, quarantined>>

\* The server has taken the event, or refused it for good.
Reply ==
  /\ up /\ spc = "sending"
  /\ delivered' = delivered \cup {cur.id}
  /\ SndGoto("replied")
  /\ UNCHANGED <<disk, nextId, notices, process, store, locks, readers, queue, logged, quarantined>>

\* event_store_commit compares generations before it takes the lock.
CheckGeneration ==
  /\ up /\ spc = "replied"
  /\ SndGoto(IF present /\ cur.gen = gen THEN "commit" ELSE "committed")
  /\ UNCHANGED <<disk, nextId, notices, process, store, locks, readers, queue, history>>

\* Under the commit lock: the counter moves ...
CommitCount ==
  /\ up /\ spc = "commit"
  /\ commitLock = Free
  /\ commitLock' = "sender"
  /\ committed' = committed + cur.len
  /\ SndGoto("count")
  /\ UNCHANGED <<disk, nextId, notices, process, present, offset, gen, offsetLock, readers,
                 queue, history>>

\* ... fopen(..., "w") empties the control file, which then reads as zero ...
CommitOpen ==
  /\ up /\ spc = "count"
  /\ ctl' = 0
  /\ SndGoto("ctl")
  /\ UNCHANGED <<file, nextId, notices, process, store, locks, readers, queue, history>>

\* ... and the new value is written to it.
CommitWrite ==
  /\ up /\ spc = "ctl"
  /\ ctl' = committed
  /\ commitLock' = Free
  /\ SndGoto("committed")
  /\ UNCHANGED <<file, nextId, notices, process, store, offsetLock, readers, queue, history>>

\* Mutant: the error return forgets event_store_unlock.
MutCommitFails ==
  /\ "ctl_write" \in Exposures
  /\ up /\ spc \in {"count", "ctl"}
  /\ SndGoto("none")
  /\ UNCHANGED <<disk, nextId, notices, process, store, locks, readers, queue, history>>

\* The control file cannot be opened or written: event_queue_send returns -1
\* and the thread ends; the message stays in the queue, the counter moved.
CommitFails ==
  /\ "ctl_write" \in Exposures
  /\ up /\ spc \in {"count", "ctl"}
  /\ commitLock' = Free
  /\ SndGoto("none")
  /\ UNCHANGED <<disk, nextId, notices, process, store, offsetLock, readers, queue, history>>

\* confirm_msg fails for lack of a socket: the thread ends the same way.
ConfirmFails ==
  /\ "confirm" \in Exposures
  /\ up /\ spc = "committed" /\ cur.pri = "sync"
  /\ SndGoto("none")
  /\ UNCHANGED <<disk, nextId, notices, process, store, locks, readers, queue, history>>

\* Mutant: throttling is not lifted when the queue has been served.
MutRemoveThrottled ==
  /\ up /\ spc = "committed"
  /\ lo' = Tail(lo)
  /\ SndGoto("wait")
  /\ UNCHANGED <<disk, nextId, notices, process, store, locks, readers, hi, throttling, history>>

\* event_queue_remove: when the message was tail_ems, the next one takes its
\* place; behind the end of the queue that is the head.
Remove ==
  /\ up /\ spc = "committed"
  /\ IF at = "hi" THEN hi' = Tail(hi) /\ UNCHANGED lo
     ELSE IF Len(lo) > 1 THEN lo' = Tail(lo) /\ UNCHANGED hi
     ELSE lo' = hi /\ hi' = <<>>
  /\ throttling' = (throttling /\ QueueLen - 1 > QueueLow)
  /\ SndGoto("wait")
  /\ UNCHANGED <<disk, nextId, notices, process, store, locks, readers, history>>

-----------------------------------------------------------------------------
(* event_store_cleanup and event_store_clean, in the recovery thread        *)

ForgetStore ==
  /\ present' = FALSE /\ committed' = 0 /\ offset' = 0 /\ gen' = 0

\* trywrlock(use_lock) fails, or something is still to be sent
CleanSkip ==
  /\ up /\ pc["recover"] = "clean"
  /\ \/ pc["main"] # "idle"
     \/ commitLock = Free /\ offsetLock = Free /\ file # <<>> /\ committed # Size(file)
  /\ pc' = [pc EXCEPT !["recover"] = "idle"]
  /\ UNCHANGED <<disk, nextId, notices, process, store, locks, locals, queue, snd, history>>

\* The event file cannot be opened: the struct is removed.
CleanGone ==
  /\ up /\ pc["recover"] = "clean" /\ pc["main"] = "idle"
  /\ commitLock = Free /\ offsetLock = Free
  /\ file = <<>>
  /\ ForgetStore
  /\ pc' = [pc EXCEPT !["recover"] = "idle"]
  /\ UNCHANGED <<disk, nextId, notices, process, locks, locals, queue, snd, history>>

\* Mutant: the file goes when all of it has been read.
MutCleanRead ==
  /\ up /\ pc["recover"] = "clean" /\ pc["main"] = "idle"
  /\ commitLock = Free /\ offsetLock = Free
  /\ file # <<>> /\ offset = Size(file)
  /\ file' = <<>>
  /\ commitLock' = "recover"
  /\ pc' = [pc EXCEPT !["recover"] = "unlink"]
  /\ UNCHANGED <<ctl, nextId, notices, process, store, offsetLock, locals, queue, snd, history>>

\* Mutant: an off-by-one in the comparison with the end of the file.
MutCleanBeyond ==
  /\ up /\ pc["recover"] = "clean" /\ pc["main"] = "idle"
  /\ commitLock = Free /\ offsetLock = Free
  /\ file # <<>> /\ committed = Size(file) + 1
  /\ file' = <<>>
  /\ commitLock' = "recover"
  /\ pc' = [pc EXCEPT !["recover"] = "unlink"]
  /\ UNCHANGED <<ctl, nextId, notices, process, store, offsetLock, locals, queue, snd, history>>

\* Everything in the file has been committed: unlink it ...
CleanUnlink ==
  /\ up /\ pc["recover"] = "clean" /\ pc["main"] = "idle"
  /\ commitLock = Free /\ offsetLock = Free
  /\ file # <<>> /\ committed = Size(file)
  /\ file' = <<>>
  /\ commitLock' = "recover"
  /\ pc' = [pc EXCEPT !["recover"] = "unlink"]
  /\ UNCHANGED <<ctl, nextId, notices, process, store, offsetLock, locals, queue, snd, history>>

\* ... then the control file, and forget the store.
CleanCtl ==
  /\ up /\ pc["recover"] = "unlink"
  /\ ctl' = -1
  /\ ForgetStore
  /\ commitLock' = Free
  /\ pc' = [pc EXCEPT !["recover"] = "idle"]
  /\ UNCHANGED <<file, nextId, notices, process, offsetLock, locals, queue, snd, history>>

-----------------------------------------------------------------------------
(* The process dies; only the files survive.                                *)

Crash ==
  /\ up /\ crashes < MaxCrashes
  /\ pc["recover"] = "unlink" => "crash_clean" \in Exposures
  /\ crashes' = crashes + 1
  /\ up' = FALSE /\ scanned' = FALSE
  /\ ForgetStore
  /\ commitLock' = Free /\ offsetLock' = Free
  /\ pc' = [t \in Readers |-> "idle"] /\ LocalsGone
  /\ hi' = <<>> /\ lo' = <<>> /\ throttling' = FALSE
  /\ spc' = "none" /\ cur' = NoMsg /\ at' = "lo"
  /\ notices' = 0
  /\ UNCHANGED <<disk, nextId, history>>

Restart ==
  /\ ~up /\ up' = TRUE
  /\ UNCHANGED <<disk, nextId, notices, scanned, crashes, store, locks, readers, queue, snd, history>>

-----------------------------------------------------------------------------
Recover(t) == \/ RecoverLock(t) \/ RecoverNoFile(t) \/ RecoverSeek(t)
              \/ RecoverLine(t) \/ RecoverEnd(t) \/ Quarantine(t)
              \/ QuarantineFails(t)

Sender == \/ Get \/ SendFails \/ ReplyLost \/ Reply \/ CheckGeneration
          \/ CommitCount \/ CommitOpen \/ CommitWrite \/ CommitFails \/ ConfirmFails \/ Remove

Clean == CleanSkip \/ CleanGone \/ CleanUnlink \/ CleanCtl

Next == \/ \E len \in Lens, pri \in Kinds : Log(len, pri)
        \/ \E len \in Lens : LogTorn(len)
        \/ Find \/ Scan
        \/ \E t \in Readers : Recover(t)
        \/ Sender \/ Clean \/ Crash \/ Restart

Spec == Init /\ [][Next]_vars

\* The recovery thread runs forever and the threads are scheduled; a server
\* that is asked again and again answers in the end, and a damaged file that is
\* to be renamed again and again is renamed in the end.
Fairness ==
  /\ WF_vars(Restart)
  /\ WF_vars(Scan) /\ WF_vars(Clean)
  /\ \A t \in Readers : WF_vars(Recover(t)) /\ SF_vars(RecoverLock(t))
                     /\ SF_vars(Quarantine(t))
  /\ SF_vars(Find)
  /\ WF_vars(Get) /\ WF_vars(CheckGeneration) /\ SF_vars(CommitCount)
  /\ WF_vars(CommitOpen) /\ WF_vars(CommitWrite) /\ WF_vars(Remove)
  /\ SF_vars(Reply)

FairSpec == Spec /\ Fairness

-----------------------------------------------------------------------------
(* Properties                                                               *)

Queued == {m.id : m \in {hi[k] : k \in 1..Len(hi)} \cup {lo[k] : k \in 1..Len(lo)}}

\* What a restart would start from, if the process died now.
CtlStart == IF ctl > 0 /\ Boundary(ctl) THEN ctl ELSE 0

\* No event is lost by a crash: an event of the file that recovery would skip
\* (it ends at or before the position in the control file) has been taken by
\* the server.  event_store_commit and event_store_recover promise this.
\* (While a clean is between its two unlinks the control file is about to go;
\* the states a crash there leaves are covered.)
CrashSafe ==
  pc["recover"] # "unlink" =>
  \A i \in 1..Len(file) : Ends(file[i]) <= CtlStart => file[i].id \in delivered

\* event_store_recover "skip[s] all committed or already enqueued events" and
\* no others: an event before the position the next read starts at has been
\* taken by the server or is in the queue.
SkipsOnlyHandled ==
  present /\ pc["recover"] # "unlink" =>
    \A i \in 1..Len(file) :
      Ends(file[i]) <= (IF offsetLock = Free THEN StartPos ELSE last)
        => file[i].id \in delivered \cup Queued

\* The comments in event_store_clean: when a store is removed "the event
\* queues are 'empty'".  A message that is still to be committed refers to an
\* event_store that has not been freed.
Uncommitted == spc # "committed" \/ QueueLen > 1
NoDanglingStore == up /\ QueueLen > 0 /\ Uncommitted => present

\* The counter never runs past the file: commits count every event once.
CommittedInFile == present /\ pc["recover"] # "unlink" => committed <= Size(file)

\* event_store_clean removes an event file only when the server has taken
\* every event in it; a damaged file is moved away, not removed.
RemovedWhenDelivered ==
  [][file # <<>> /\ file' = <<>> =>
       \A i \in 1..Len(file) : file[i].id \in delivered \cup quarantined']_vars

\* "Reliable transfer": every event the local logger has acknowledged is
\* taken by the server in the end.
EventuallyDelivered ==
  \A e \in 1..MaxEvents : e \in logged ~> e \in delivered

\* A damaged line does not block its file: the file is moved away.
DamagedMovedAway ==
  (\E i \in 1..Len(file) : file[i].st = "bad") ~> (\A i \in 1..Len(file) : file[i].st # "bad")

\* Every call of event_store_recover comes to its end, whatever fails in the
\* queue thread meanwhile: no error path keeps the commit or the offset lock.
ReadersReturn == \A t \in Readers : pc[t] = "found" ~> pc[t] = "idle"

\* "Eventually, when all events from a file are delivered the file is removed."
EventuallyRemoved == <>[](file = <<>> /\ ctl = -1 /\ ~present)

=============================================================================
