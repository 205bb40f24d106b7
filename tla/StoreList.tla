----------------------------- MODULE StoreList -----------------------------
(***************************************************************************)
(* The inter-logger's list of event stores (event_store.c), which its main  *)
(* loop (il_master.c, input_queue_socket.c) and its recovery thread         *)
(* (recover.c) share: stores are found and made, read one after the other,  *)
(* rotated when their file has grown too large, and removed.  The recovery  *)
(* thread also renews the credentials that the queue threads connect with   *)
(* (send_event.c).  EventStore has the inside of one store: a read, a       *)
(* commit and a clean are single steps here, and every event has length 1.  *)
(*                                                                          *)
(* A file name is <<job, index>>: index 0 is the name the local logger      *)
(* writes to, the others are given by a rotation (event_store's             *)
(* rotate_index), in the order of the time in them.                         *)
(***************************************************************************)
EXTENDS Naturals, Sequences, FiniteSets, FiniteSetsExt, SequencesExt

CONSTANTS max_store_size, \* events in a file that is not rotated yet; 0: no rotation
          Tries,          \* bound: names a rotation tries (256 in one second)
          Senders         \* queue threads that connect to the server

ASSUME ListAssumption == max_store_size \in Nat /\ Tries \in Nat /\ IsFiniteSet(Senders)

VARIABLES
  dir,        \* the event files: name -> events
  ctl,        \* the control files: name -> position
  stores,     \* every event_store there was; live until it is freed
  store_list, \* numbers of the stores, in the order of the list
  list_lock,  \* store_list_lock: readers and writer
  th,         \* the two threads
  out,        \* output queue: events, each with its store
  input,      \* what will come: events to log, and what the main loop will get
  sent,       \* events the server has got
  creds,      \* cred_handle, all handles there were, and what each sender holds
  exposed     \* things that have happened that the code does not survive

listVars == <<dir, ctl, stores, store_list, list_lock, th, out, input, sent, creds, exposed>>

NoName == <<>>
Thread(pc) == [pc |-> pc, es |-> 0, p |-> 0, rest |-> <<>>, kept |-> <<>>, skipped |-> <<>>,
               todo |-> {}, alone |-> FALSE]

With(f, n, v) == [m \in DOMAIN f \cup {n} |-> IF m = n THEN v ELSE f[m]]
Without(f, n) == [m \in DOMAIN f \ {n} |-> f[m]]

\* A store that the main loop has locked for use.
InUse(s) ==
  \/ th["main"].pc \in {"read", "step"} /\ s = th["main"].es
  \/ th["main"].pc = "read" /\ s = th["main"].p

ReadLockable == list_lock.writer = ""
WriteLockable == ReadLockable /\ list_lock.readers = {}

-----------------------------------------------------------------------------
(* The list                                                                 *)

\* event_store_create; alone in the ring of its job.
event_store_create(job, filename) ==
  [job |-> job, file |-> IF filename = NoName THEN <<job, 0>> ELSE filename,
   committed |-> 0, offset |-> 0, live |-> TRUE, jobid_next |-> Len(stores) + 1]

OfJob(job) == {k \in 1..Len(store_list) : stores[store_list[k]].job = job}

\* The store of that file; without a name, that of the file being written to.
Matching(job, filename) ==
  {k \in OfJob(job) : stores[store_list[k]].file = IF filename = NoName THEN <<job, 0>> ELSE filename}

\* A new store goes to the head of the list, the one of a plain file behind the
\* last store d of its job.  One that was made for a file joins the ring of
\* its job, behind d: the loop that is to find the place of a rotated file by
\* its index ends before it starts.
Inserted(job, filename) ==
  LET new == Len(stores) + 1
      d == IF OfJob(job) = {} THEN 0 ELSE Max(OfJob(job))
      joins == filename # NoName /\ d # 0
      es == event_store_create(job, filename)
  IN [s |-> new,
      stores |-> IF joins
                 THEN Append([stores EXCEPT ![store_list[d]].jobid_next = new],
                             [es EXCEPT !.jobid_next = stores[store_list[d]].jobid_next])
                 ELSE Append(stores, es),
      list |-> IF joins /\ filename[2] = 0 THEN InsertAt(store_list, d + 1, new)
               ELSE <<new>> \o store_list]

event_store_find(job, filename) ==
  LET k == Matching(job, filename)
  IN IF k # {} THEN [s |-> store_list[Min(k)], stores |-> stores, list |-> store_list]
     ELSE Inserted(job, filename)

-----------------------------------------------------------------------------
(* Reading a store                                                          *)

\* event_store_rotate_file: the file gets the first name that is free.  When
\* none is, the last one tried is used all the same.  The control file stays.
NewName(job) ==
  LET free == {i \in 1..Tries : <<job, i>> \notin DOMAIN dir}
  IN <<job, IF free = {} THEN Tries ELSE Min(free)>>

Rotates(f) == f[2] = 0 /\ max_store_size > 0 /\ Len(dir[f]) > max_store_size

\* A position behind the end of the file is backed off from.
StartAt(es) ==
  LET end == Len(dir[es.file])
  IN IF es.offset > 0 /\ es.offset <= end THEN es.offset
     ELSE IF es.committed <= end THEN es.committed ELSE 0

\* event_store_recover: the file is rotated, then the new events are queued.
event_store_recover(s) ==
  LET es == stores[s]
      f == es.file
      g == IF Rotates(f) THEN NewName(es.job) ELSE f
      start == StartAt(es)
  IN IF f \notin DOMAIN dir \/ es.offset = Len(dir[f])
     THEN UNCHANGED <<dir, stores, out, exposed>>
     ELSE /\ dir' = With(Without(dir, f), g, dir[f])
          /\ stores' = [stores EXCEPT ![s].file = g, ![s].offset = Len(dir[f]),
                                      ![s].committed = IF start < @ THEN start ELSE @]
          /\ out' = out \o [i \in 1..Len(dir[f]) - start |-> [s |-> s, e |-> dir[f][start + i]]]
          /\ exposed' = IF g # f /\ g \in DOMAIN dir THEN exposed \cup {"overwritten"} ELSE exposed

\* event_store_recover_all: the list is locked for reading, the stores are not.
AllBegin(t) ==
  /\ list_lock' = [list_lock EXCEPT !.readers = @ \cup {t}]
  /\ th' = [th EXCEPT ![t] = [Thread("all") EXCEPT !.rest = store_list]]

AllRead(t) ==
  /\ th[t].pc = "all" /\ th[t].rest # <<>>
  /\ event_store_recover(Head(th[t].rest))
  /\ th' = [th EXCEPT ![t].rest = Tail(@)]
  /\ UNCHANGED <<ctl, store_list, list_lock, input, sent, creds>>

AllEnd(t) ==
  /\ th[t].pc = "all" /\ th[t].rest = <<>>
  /\ list_lock' = [list_lock EXCEPT !.readers = @ \ {t}]
  /\ th' = [th EXCEPT ![t] = Thread(IF t = "main" THEN "idle" ELSE "clean")]
  /\ UNCHANGED <<dir, ctl, stores, store_list, out, input, sent, creds, exposed>>

-----------------------------------------------------------------------------
(* The local logger and the server                                          *)

\* A new file under the name of one that was rotated may meet its control file.
LogLine ==
  LET n == <<Head(input.log), 0>>
      e == Len(input.log)
      new == n \notin DOMAIN dir
  IN /\ input.log # <<>>
     /\ dir' = With(dir, n, IF new THEN <<e>> ELSE Append(dir[n], e))
     /\ exposed' = IF new /\ n \in DOMAIN ctl THEN exposed \cup {"stale control file"} ELSE exposed
     /\ input' = [input EXCEPT !.log = Tail(@)]
     /\ UNCHANGED <<ctl, stores, store_list, list_lock, th, out, sent, creds>>

\* A queue thread sends the next event and commits it to its store.
SendNext ==
  LET s == Head(out).s
      done == stores[s].committed + 1
  IN /\ out # <<>>
     /\ out' = Tail(out)
     /\ sent' = sent \cup {Head(out).e}
     /\ stores' = [stores EXCEPT ![s].committed = done]
     /\ ctl' = With(ctl, stores[s].file, done)
     /\ UNCHANGED <<dir, store_list, list_lock, th, input, creds, exposed>>

-----------------------------------------------------------------------------
(* The main loop                                                            *)

NoCreds == [cur |-> 1, handles |-> <<[counter |-> 0, released |-> 0]>>, held |-> [q \in Senders |-> 0]]

\* Only the files are left.
Started ==
  /\ stores' = <<>> /\ store_list' = <<>> /\ out' = <<>>
  /\ list_lock' = [readers |-> {}, writer |-> ""]
  /\ th' = [main |-> Thread("idle"), recovery |-> Thread("begin")]
  /\ creds' = NoCreds

\* parse_cmd: a command that is not known, or of which a token cannot be read,
\* is a flush, too; without a job it is one of all queues.
parse_cmd(m) == IF m.kind # "cmd" THEN "event" ELSE IF m.job = 0 THEN "flushall" ELSE "flush"

\* input_queue_get gives a message; loop passes it to handle_cmd or handle_msg,
\* which find the store of its job.
GetMessage ==
  LET m == Head(input.get)
      r == event_store_find(m.job, NoName)
  IN /\ th["main"].pc = "idle" /\ input.get # <<>> /\ m.kind \in {"event", "cmd"}
     /\ parse_cmd(m) # "flushall"
     /\ WriteLockable
     /\ stores' = r.stores /\ store_list' = r.list
     /\ th' = [th EXCEPT !["main"] = [Thread("read") EXCEPT !.es = r.s, !.p = r.s,
                                                            !.alone = parse_cmd(m) = "flush"]]
     /\ input' = [input EXCEPT !.get = Tail(@)]
     /\ UNCHANGED <<dir, ctl, list_lock, out, sent, creds, exposed>>

\* A flush of all queues, and a message that ends before its separator: all
\* files are read.
GetAll ==
  LET m == Head(input.get)
  IN /\ th["main"].pc = "idle" /\ input.get # <<>>
     /\ m.kind = "eof" \/ (m.kind = "cmd" /\ parse_cmd(m) = "flushall")
     /\ ReadLockable
     /\ AllBegin("main")
     /\ input' = [input EXCEPT !.get = Tail(@)]
     /\ UNCHANGED <<dir, ctl, stores, store_list, out, sent, creds, exposed>>

\* The socket fails, or a signal comes: loop returns, and the process ends.
\* A crash is the same, anywhere.  It is started again.
LoopEnds ==
  /\ input.get # <<>> /\ Head(input.get).kind = "fail" /\ th["main"].pc = "idle"
  /\ Started
  /\ input' = [input EXCEPT !.get = Tail(@)]
  /\ UNCHANGED <<dir, ctl, sent, exposed>>

ProcessDies ==
  /\ input.crash > 0
  /\ Started
  /\ input' = [input EXCEPT !.crash = @ - 1]
  /\ UNCHANGED <<dir, ctl, sent, exposed>>

\* event_store_recover_jobid: a store is read and, unless it is the first one,
\* released.  A flush reads the first one only.
RingRead ==
  LET m == th["main"]
  IN /\ m.pc = "read"
     /\ event_store_recover(m.p)
     /\ th' = [th EXCEPT !["main"] = IF m.alone THEN Thread("idle") ELSE [m EXCEPT !.pc = "step"]]
     /\ UNCHANGED <<ctl, store_list, list_lock, input, sent, creds>>

\* The next one of the ring is looked up when the one before it may have been
\* freed already: either its memory is still there, or the process dies.
RingNext ==
  LET m == th["main"]
      p == stores[m.p].jobid_next
  IN /\ m.pc = "step" /\ ReadLockable
     /\ exposed' = IF stores[m.p].live THEN exposed ELSE exposed \cup {"freed in the ring"}
     /\ \/ /\ th' = [th EXCEPT !["main"] = IF p = m.es THEN Thread("idle")
                                           ELSE [m EXCEPT !.pc = "read", !.p = p]]
           /\ UNCHANGED <<stores, store_list, list_lock, out, creds>>
        \/ ~stores[m.p].live /\ Started
     /\ UNCHANGED <<dir, ctl, input, sent>>

-----------------------------------------------------------------------------
(* The recovery thread                                                      *)

\* event_store_init: the names in the directory,
ScanBegin ==
  /\ th["recovery"].pc = "begin"
  /\ th' = [th EXCEPT !["recovery"] = [Thread("scan") EXCEPT !.todo = DOMAIN dir]]
  /\ UNCHANGED <<dir, ctl, stores, store_list, list_lock, out, input, sent, creds, exposed>>

\* event_store_from_file for each of them: an empty file is left alone, and the
\* control file is read unless the store has moved.
ScanFile ==
  \E n \in th["recovery"].todo :
    LET r == event_store_find(n[1], n)
        es == r.stores[r.s]
        fresh == es.committed = 0 /\ es.offset = 0 /\ n \in DOMAIN ctl
    IN /\ th["recovery"].pc = "scan"
       /\ th' = [th EXCEPT !["recovery"].todo = @ \ {n}]
       /\ IF n \notin DOMAIN dir \/ dir[n] = <<>> THEN UNCHANGED <<stores, store_list>>
          ELSE /\ WriteLockable
               /\ store_list' = r.list
               /\ stores' = IF fresh THEN [r.stores EXCEPT ![r.s].committed = ctl[n]] ELSE r.stores
       /\ UNCHANGED <<dir, ctl, list_lock, out, input, sent, creds, exposed>>

\* the second pass: control files without an event file,
ScanEnd ==
  /\ th["recovery"].pc = "scan" /\ th["recovery"].todo = {}
  /\ th' = [th EXCEPT !["recovery"] = [Thread("stale") EXCEPT !.todo = DOMAIN ctl]]
  /\ UNCHANGED <<dir, ctl, stores, store_list, list_lock, out, input, sent, creds, exposed>>

RemoveStale ==
  \E n \in th["recovery"].todo :
    /\ th["recovery"].pc = "stale"
    /\ th' = [th EXCEPT !["recovery"].todo = @ \ {n}]
    /\ ctl' = IF n \in DOMAIN dir THEN ctl ELSE Without(ctl, n)
    /\ UNCHANGED <<dir, stores, store_list, list_lock, out, input, sent, creds, exposed>>

\* then event_store_recover_all,
ReadAll ==
  /\ th["recovery"].pc = "stale" /\ th["recovery"].todo = {}
  /\ ReadLockable
  /\ AllBegin("recovery")
  /\ UNCHANGED <<dir, ctl, stores, store_list, out, input, sent, creds, exposed>>

\* and event_store_cleanup, with the list locked for writing.
CleanupBegin ==
  /\ th["recovery"].pc = "clean" /\ WriteLockable
  /\ list_lock' = [list_lock EXCEPT !.writer = "recovery"]
  /\ th' = [th EXCEPT !["recovery"] = [Thread("cleaning") EXCEPT !.rest = store_list]]
  /\ UNCHANGED <<dir, ctl, stores, store_list, out, input, sent, creds, exposed>>

\* A store in use is passed over, but prev stays where it is.
CleanupBusy ==
  LET t == th["recovery"]
  IN /\ t.pc = "cleaning" /\ t.rest # <<>> /\ InUse(Head(t.rest))
     /\ th' = [th EXCEPT !["recovery"].rest = Tail(@), !["recovery"].skipped = Append(@, Head(t.rest))]
     /\ UNCHANGED <<dir, ctl, stores, store_list, list_lock, out, input, sent, creds, exposed>>

\* Mutant: all has been read.
MutCleanable(s) ==
  LET f == stores[s].file
  IN f \in DOMAIN dir => stores[s].offset = Len(dir[f])

\* event_store_clean: all has been committed, or the file cannot be opened.
Cleanable(s) ==
  LET f == stores[s].file
  IN f \in DOMAIN dir => stores[s].committed = Len(dir[f])

CleanupStays ==
  LET t == th["recovery"]
      s == Head(t.rest)
  IN /\ t.pc = "cleaning" /\ t.rest # <<>> /\ ~InUse(s) /\ ~Cleanable(s)
     /\ th' = [th EXCEPT !["recovery"] = [t EXCEPT !.rest = Tail(@), !.skipped = <<>>,
                                                   !.kept = @ \o t.skipped \o <<s>>]]
     /\ UNCHANGED <<dir, ctl, stores, store_list, list_lock, out, input, sent, creds, exposed>>

\* (*prev) = slnext takes out the stores passed over since prev, too.
Freed(s) ==
  [k \in DOMAIN stores |->
     IF k = s THEN [stores[k] EXCEPT !.live = FALSE]
     ELSE IF stores[k].jobid_next = s /\ stores[k].live
     THEN [stores[k] EXCEPT !.jobid_next = stores[s].jobid_next] ELSE stores[k]]

CleanupRemoves ==
  LET t == th["recovery"]
      s == Head(t.rest)
      f == stores[s].file
  IN /\ t.pc = "cleaning" /\ t.rest # <<>> /\ ~InUse(s) /\ Cleanable(s)
     /\ store_list' = t.kept \o Tail(t.rest)
     /\ stores' = Freed(s)
     /\ dir' = Without(dir, f)
     /\ ctl' = IF f \in DOMAIN dir THEN Without(ctl, f) ELSE ctl
     /\ exposed' = IF t.skipped # <<>> THEN exposed \cup {"unlinked"} ELSE exposed
     /\ th' = [th EXCEPT !["recovery"] = [t EXCEPT !.rest = Tail(@), !.skipped = <<>>]]
     /\ UNCHANGED <<list_lock, out, input, sent, creds>>

CleanupEnd ==
  /\ th["recovery"].pc = "cleaning" /\ th["recovery"].rest = <<>>
  /\ list_lock' = [list_lock EXCEPT !.writer = ""]
  /\ th' = [th EXCEPT !["recovery"] = Thread("watch")]
  /\ UNCHANGED <<dir, ctl, stores, store_list, out, input, sent, creds, exposed>>

-----------------------------------------------------------------------------
(* Credentials                                                              *)

\* edg_wll_gss_watch_creds: nothing new.
WatchNothing ==
  /\ th["recovery"].pc = "watch"
  /\ th' = [th EXCEPT !["recovery"] = Thread("begin")]
  /\ UNCHANGED <<dir, ctl, stores, store_list, list_lock, out, input, sent, creds, exposed>>

Released(handles, h) == [handles EXCEPT ![h].released = @ + 1]

\* A new certificate: the old handle is released here if nobody uses it, and
\* by its last user otherwise.
NewCreds ==
  LET old == creds.cur
      rest == IF creds.handles[old].counter = 0 THEN Released(creds.handles, old) ELSE creds.handles
  IN /\ th["recovery"].pc = "watch" /\ input.renew > 0
     /\ input' = [input EXCEPT !.renew = @ - 1]
     /\ creds' = [creds EXCEPT !.cur = Len(rest) + 1,
                               !.handles = Append(rest, [counter |-> 0, released |-> 0])]
     /\ th' = [th EXCEPT !["recovery"] = Thread("begin")]
     /\ UNCHANGED <<dir, ctl, stores, store_list, list_lock, out, sent, exposed>>

\* event_queue_connect, before and after edg_wll_gss_connect.
ConnectBegin(q) ==
  /\ creds.held[q] = 0 /\ input.connect > 0
  /\ creds' = [creds EXCEPT !.held[q] = creds.cur, !.handles[creds.cur].counter = @ + 1]
  /\ input' = [input EXCEPT !.connect = @ - 1]
  /\ UNCHANGED <<dir, ctl, stores, store_list, list_lock, th, out, sent, exposed>>

\* Mutant: the last user releases the handle even if it is still the one to use.
ConnectEndReleases(q) ==
  LET h == creds.held[q]
      left == [creds.handles EXCEPT ![h].counter = @ - 1]
  IN /\ h # 0
     /\ creds' = [creds EXCEPT !.held[q] = 0,
                    !.handles = IF left[h].counter = 0 THEN Released(left, h) ELSE left]
     /\ UNCHANGED <<dir, ctl, stores, store_list, list_lock, th, out, input, sent, exposed>>

ConnectEnd(q) ==
  LET h == creds.held[q]
      left == [creds.handles EXCEPT ![h].counter = @ - 1]
  IN /\ h # 0
     /\ creds' = [creds EXCEPT !.held[q] = 0,
                    !.handles = IF h # creds.cur /\ left[h].counter = 0 THEN Released(left, h) ELSE left]
     /\ UNCHANGED <<dir, ctl, stores, store_list, list_lock, th, out, input, sent, exposed>>

-----------------------------------------------------------------------------
ListInit(plan, recovery) ==
  /\ dir = plan.dir /\ ctl = plan.ctl
  /\ stores = <<>> /\ store_list = <<>> /\ out = <<>> /\ sent = plan.sent
  /\ list_lock = [readers |-> {}, writer |-> ""]
  /\ th = [main |-> Thread("idle"), recovery |-> Thread(recovery)]
  /\ input = plan.input /\ creds = NoCreds /\ exposed = {}

MainLoop == GetMessage \/ GetAll \/ RingRead \/ RingNext \/ AllRead("main") \/ AllEnd("main")

recover_thread ==
  \/ ScanBegin \/ ScanFile \/ ScanEnd \/ RemoveStale \/ ReadAll \/ AllRead("recovery")
  \/ AllEnd("recovery") \/ CleanupBegin \/ CleanupBusy \/ CleanupStays \/ CleanupRemoves
  \/ CleanupEnd \/ WatchNothing \/ NewCreds

ListNext ==
  \/ LogLine \/ SendNext \/ MainLoop \/ LoopEnds \/ ProcessDies \/ recover_thread
  \/ \E q \in Senders : ConnectBegin(q) \/ ConnectEnd(q)

-----------------------------------------------------------------------------
(* Properties                                                               *)

InFiles == UNION {Range(dir[n]) : n \in DOMAIN dir}

\* Whatever is read, sent, rotated and removed at the same time, and wherever
\* the process dies: an event that the server has not got is in a file, and no
\* control file has a restart skip it.  (A control file that a rotation leaves
\* to the next file of the name does, and so does a rotation onto a taken name.)
RotationSafe ==
  exposed = {} =>
    /\ \A e \in 1..input.total : e \in sent \cup InFiles \/ e <= Len(input.log)
    /\ \A n \in DOMAIN dir \cap DOMAIN ctl :
         \A i \in 1..Len(dir[n]) : i <= ctl[n] => dir[n][i] \in sent

\* What a thread uses has not been freed: the store of a message in the queue,
\* the stores the main loop is at, those in the list, of which there is one for
\* a file; the credentials of a connection being made.  And credentials that
\* nobody uses any more are released, once.  (The code frees a store in the
\* ring too early, and loses one from the list that is in use in a cleanup.)
InUseKept ==
  /\ exposed = {} =>
       /\ \A k \in DOMAIN out : stores[out[k].s].live
       /\ \A s \in DOMAIN stores : InUse(s) => stores[s].live /\ s \in Range(store_list)
       /\ \A k \in DOMAIN store_list : stores[store_list[k]].live
       /\ \A k, l \in DOMAIN store_list :
            stores[store_list[k]].file = stores[store_list[l]].file => k = l
  /\ \A q \in Senders : creds.held[q] # 0 => creds.handles[creds.held[q]].released = 0
  /\ \A h \in DOMAIN creds.handles :
       creds.handles[h].released = IF h = creds.cur \/ \E q \in Senders : creds.held[q] = h THEN 0 ELSE 1
=============================================================================
