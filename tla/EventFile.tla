------------------------------ MODULE EventFile ------------------------------
(***************************************************************************)
(* The event file between its writers and its remover: the processes that  *)
(* append events to a job's file (edg_wll_log_event_write of                *)
(* org.glite.lb.common/src/log_msg.c, called by every child of the local    *)
(* logger) and the inter-logger that unlinks it (event_store_clean).        *)
(*                                                                          *)
(* A file is an inode: the name may be gone, or stand for another file,     *)
(* while a process still has the old one open.  An fcntl lock belongs to    *)
(* the inode and goes with the descriptor.  EventStore has what happens     *)
(* inside the inter-logger; here it attaches to the file, commits its       *)
(* events one by one and cleans.  LocalLogger has who calls what is here.   *)
(***************************************************************************)
EXTENDS Naturals, Sequences, FiniteSets, SequencesExt

CONSTANTS Writers,   \* the processes that log events of the job
          Attempts   \* fcntl_attempts

\* Who holds a lock when no writer does
Free == "free"
Cleaner == "interlogd"

ASSUME FileAssumption ==
  /\ Attempts \in Nat \ {0}
  /\ Free \notin Writers /\ Cleaner \notin Writers

VARIABLES
  files,      \* the inodes there ever were: sequences of messages
  name,       \* the inode the file name stands for, 0 when there is no file
  lock,       \* holder of the fcntl lock of each inode
  wpc, ev,    \* control point of a writer and the message it logs
  wret,       \* what its last call returned
  ino, tries, \* its descriptor, and its loop variable i
  filepos,
  attached,   \* the inter-logger has an event_store for the file
  committed,  \* its last_committed_bs: events of the file
  cpc, cino,  \* control point of event_store_clean and its descriptor
  acked       \* history: messages whose write returned success, where they are,
              \* and whether the name stood for that file then

fileSystem == <<files, name, lock>>
writer == <<wpc, ev, wret, ino, tries, filepos>>
interlogger == <<attached, committed, cpc, cino>>
fileVars == <<fileSystem, writer, interlogger, acked>>

\* A message, and the name of the socket its confirmation is to go to.
NoReceipt == <<0, 0>>
NoMsg == [id |-> 0, kind |-> "none", rcpt |-> NoReceipt]

FileInit ==
  /\ files = <<>> /\ name = 0 /\ lock = <<>>
  /\ wpc = [w \in Writers |-> "idle"] /\ ev = [w \in Writers |-> NoMsg]
  /\ wret = [w \in Writers |-> "none"]
  /\ ino = [w \in Writers |-> 0] /\ tries = [w \in Writers |-> 0]
  /\ filepos = [w \in Writers |-> 0]
  /\ attached = FALSE /\ committed = 0 /\ cpc = "idle" /\ cino = 0
  /\ acked = {}

-----------------------------------------------------------------------------
(* edg_wll_log_event_write                                                  *)

GoTo(w, p) == wpc' = [wpc EXCEPT ![w] = p]

Returns(w, r) == GoTo(w, "idle") /\ wret' = [wret EXCEPT ![w] = r]

\* The call, of a child of the local logger or of edg_wll_DoLogEventFile.
Begin(w, msg) ==
  /\ wpc[w] = "idle"
  /\ ev' = [ev EXCEPT ![w] = msg]
  /\ wret' = [wret EXCEPT ![w] = "none"]
  /\ GoTo(w, "open")
  /\ UNCHANGED <<fileSystem, ino, tries, filepos, interlogger, acked>>

\* try_again: fopen(event_file, "a") creates the file if it is not there.
Open(w) ==
  /\ wpc[w] = "open"
  /\ IF name # 0 THEN UNCHANGED fileSystem
     ELSE /\ files' = Append(files, <<>>) /\ lock' = Append(lock, Free)
          /\ name' = Len(files')
  /\ ino' = [ino EXCEPT ![w] = name']
  /\ tries' = [tries EXCEPT ![w] = 0]
  /\ GoTo(w, "lock")
  /\ UNCHANGED <<ev, wret, filepos, interlogger, acked>>

\* Mutant: F_RDLCK for F_WRLCK, which does not keep other writers out.
MutLock(w) ==
  /\ wpc[w] = "lock"
  /\ lock' = [lock EXCEPT ![ino[w]] = w]
  /\ GoTo(w, "stat")
  /\ UNCHANGED <<files, name, ev, wret, ino, tries, filepos, interlogger, acked>>

Lock(w) ==
  /\ wpc[w] = "lock" /\ lock[ino[w]] = Free
  /\ lock' = [lock EXCEPT ![ino[w]] = w]
  /\ GoTo(w, "stat")
  /\ UNCHANGED <<files, name, ev, wret, ino, tries, filepos, interlogger, acked>>

\* F_SETLK fails: sleep and try again, or give up.
LockBusy(w) ==
  /\ wpc[w] = "lock" /\ lock[ino[w]] # Free
  /\ IF tries[w] + 1 < Attempts
     THEN tries' = [tries EXCEPT ![w] = @ + 1] /\ UNCHANGED <<wpc, wret>>
     ELSE Returns(w, "error") /\ UNCHANGED tries
  /\ UNCHANGED <<fileSystem, ev, ino, filepos, interlogger, acked>>

\* The lock goes with the descriptor.
Closed(w) == [lock EXCEPT ![ino[w]] = IF @ = w THEN Free ELSE @]

\* Mutant: the old descriptor is kept, and locked once more.
MutStatKeep(w) ==
  /\ wpc[w] = "stat"
  /\ IF name = 0 THEN lock' = Closed(w) /\ GoTo(w, "lock") ELSE UNCHANGED lock /\ GoTo(w, "seek")
  /\ UNCHANGED <<files, name, ev, wret, ino, tries, filepos, interlogger, acked>>

\* "check that the file still exists": a file of that name, not this one.
Stat(w) ==
  /\ wpc[w] = "stat"
  /\ IF name = 0 THEN lock' = Closed(w) /\ GoTo(w, "open") ELSE UNCHANGED lock /\ GoTo(w, "seek")
  /\ UNCHANGED <<files, name, ev, wret, ino, tries, filepos, interlogger, acked>>

Seek(w) ==
  /\ wpc[w] = "seek"
  /\ filepos' = [filepos EXCEPT ![w] = Len(files[ino[w]])]
  /\ GoTo(w, "write")
  /\ UNCHANGED <<fileSystem, ev, wret, ino, tries, interlogger, acked>>

\* fwrite, fflush and fsync, then fclose; the caller is told it is done.
Write(w) ==
  /\ wpc[w] = "write"
  /\ files' = [files EXCEPT ![ino[w]] = Append(@, ev[w])]
  /\ acked' = acked \cup {[msg |-> ev[w], file |-> ino[w], pos |-> filepos[w],
                           named |-> name = ino[w]]}
  /\ lock' = Closed(w)
  /\ Returns(w, "ok")
  /\ UNCHANGED <<name, ev, ino, tries, filepos, interlogger>>

\* One of them fails: what has been written is cut off again.
WriteFails(w) ==
  /\ wpc[w] = "write"
  /\ files' = [files EXCEPT ![ino[w]] = SubSeq(@, 1, filepos[w])]
  /\ lock' = Closed(w)
  /\ Returns(w, "error")
  /\ UNCHANGED <<name, ev, ino, tries, filepos, interlogger, acked>>

\* The process dies.
Dies(w) ==
  /\ lock' = IF wpc[w] \in {"idle", "open"} THEN lock ELSE Closed(w)
  /\ Returns(w, "none")
  /\ UNCHANGED <<files, name, ev, ino, tries, filepos, interlogger, acked>>

-----------------------------------------------------------------------------
(* The inter-logger                                                         *)

\* event_store_from_file, or the message of the local logger
Attach ==
  /\ ~attached /\ name # 0 /\ files[name] # <<>>
  /\ attached' = TRUE
  /\ UNCHANGED <<fileSystem, writer, committed, cpc, cino, acked>>

Commit ==
  /\ attached /\ cpc = "idle" /\ committed < Len(files[name])
  /\ committed' = committed + 1
  /\ UNCHANGED <<fileSystem, writer, attached, cpc, cino, acked>>

\* event_store_clean: fopen, ...
CleanOpen ==
  /\ attached /\ cpc = "idle"
  /\ cino' = name
  /\ cpc' = "lock"
  /\ UNCHANGED <<fileSystem, writer, attached, committed, acked>>

\* ... fcntl, which fails when a writer has the lock, ...
CleanLock ==
  /\ cpc = "lock"
  /\ IF lock[cino] = Free THEN lock' = [lock EXCEPT ![cino] = Cleaner] /\ cpc' = "locked"
     ELSE UNCHANGED lock /\ cpc' = "idle"
  /\ UNCHANGED <<files, name, writer, attached, committed, cino, acked>>

\* ... and unlink, if everything in it has been committed.
CleanRemove ==
  /\ cpc = "locked"
  /\ IF committed = Len(files[cino]) THEN name' = 0 /\ attached' = FALSE /\ committed' = 0
     ELSE UNCHANGED <<name, attached, committed>>
  /\ lock' = [lock EXCEPT ![cino] = Free]
  /\ cpc' = "idle"
  /\ UNCHANGED <<files, writer, cino, acked>>

-----------------------------------------------------------------------------
Writing(w) == Open(w) \/ Lock(w) \/ LockBusy(w) \/ Stat(w) \/ Seek(w) \/ Write(w)
Cleaning == CleanLock \/ CleanRemove

-----------------------------------------------------------------------------
(* Properties                                                               *)

\* The position a writer reports to the inter-logger is where its event is,
\* and no failed write of another process cuts an acknowledged event off.
PositionTrue ==
  \A a \in acked : a.pos < Len(files[a.file]) /\ files[a.file][a.pos + 1] = a.msg

=============================================================================
