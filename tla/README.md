# A TLA+ verification of gLite Logging and Bookkeeping

The Logging and Bookkeeping service (L&B) tracks grid jobs by the events that
their components log. An event, once accepted, gets to the bookkeeping server,
whatever crashes on the way; the server keeps the events and the state of the
job they amount to, answers queries, notifies clients of changes, and hands
the events on to an archive when it forgets the job. This project models these
parts, checks them with TLC on small instances, and proves with TLAPS, for all
instances, central invariants of the event store and of the list of stores, of
the queue threads, of the event file writer and the client library, of the
server skeleton, of the storing of events, of access control lists and of
requests.

Paths below are relative to the repository; `logger/` stands for
`org.glite.lb.logger/src/`, `server/` for `org.glite.lb.server/src/`, `client/`
for `org.glite.lb.client/src/`, `common/` for `org.glite.lb.common/src/` and
`state-machine/` for `org.glite.lb.state-machine/src/`.

## Inventory

| Part | State | Operations | Talks to |
|---|---|---|---|
| client library, logging (`client/producer.c`, `prod_proto.c`) | context: job, sequence code | log, register, flush | local logger, proxy, server, event file |
| local logger (`logger/logd.c`, `logd_proto.c`) | a child per connection, sockets for confirmations | read, write to the file, answer, pass on | event file; inter-logger by a socket |
| event file writer (`common/log_msg.c`) | one file per job, an fcntl lock | append under the lock, truncate on failure | local logger; inter-logger by the file |
| inter-logger: stores (`logger/event_store.c`) | per file: `last_committed_bs`, `offset`, `generation`, three locks, control file; the list and the rings of stores | find, scan, read, commit, quarantine, rotate, clean | event file, output queue |
| inter-logger: queues and threads (`event_queue.c`, `queue_thread.c`, `send_event.c`) | messages, throttling; connection, credentials | insert, get, move, expire, send, commit, confirm | server or listening client, stores |
| inter-logger: main loop, recovery thread (`il_master.c`, `recover.c`) | flush lock, credential handle | take a message, flush, scan, clean, renew | socket, stores, queues |
| server skeleton (`org.glite.lbjp-common.server-bones`) | two counters; slaves | accept, dispatch, report, reject, respawn | clients, request handlers |
| server: requests (`server/bkserverd.c`, `lb_http.c`, `lb_proto.c`) | a slave's connection and buffer | handshake, read, answer, close | client library over `mini_http.c`, `glite_gss.c` |
| server: storing and states (`db_store.c`, `store.c.T`, `jobstat.c`) | tables jobs, states, events | store, step, recompute, status | state machine, database, notifications, statistics |
| server: queries and authorization (`query.c`, `lb_authz.c`, `authz_policy.c`) | table acls, indices | query jobs and events, change an ACL | database |
| server: notifications (`notification.c`, `notif_match.c`, `il_notification.c`) | registrations | new, change, bind, refresh, drop, expire, match | notification inter-logger by event files |
| server: purge and statistics (`srv_purge.c`, `stats.c`) | dump files, mail directory, rings of cells | purge, export, import; count, query | database, Job Provenance |
| server: dump and load (`dump.c`, `load.c`, `server_state.c`) | times of the last dump | dump what arrived in a window, load a file | database, tools `dump` and `load` |
| state machine (`state-machine/`) | a job's state | one event; the order of sequence codes | server, provenance plugin (`lb_plugin.c`) |
| client library, queries and notifications (`client/consumer.c`, `connection.c`, `notification.c`) | pool of connections shared by threads | send a request, receive, receive a notification | server, notification inter-logger |
| harvester (`org.glite.lb.harvester`) | registrations and their validity, in memory and in a file | register, bootstrap, refresh, receive, store | client library |
| formats, security and database wrappers, utilities, bindings | - | - | - |

Every part, with what is left out of it, is in `PROJECT.json` under
`components`.

The way of an event, and what follows from it:

    client -> logd child --append--> event file --read--> event store -> queue
                  \--- notice ---> main loop --/                           |
                        control file <-- commit -- queue thread <----------+
                                                        |
      query <-- slave <-- database <-- db_store <-------+--> statistics
                             |            \--> state machine
                           purge           \--> notif_match -> event file
                             |                     -> notification inter-logger
               dump -> export -> mail directory        -> client, harvester

What is hard here: the position in a control file is a *number of bytes*, so
each event must be counted exactly once and in the order of the file; files
disappear and are renamed under those who have them open; threads end when they
are idle while others are about to give them work; a crash can come between any
two system calls; an answer may be lost or come too late, and the request is
made again; events come in any order and the state must not depend on it; server
processes work on the same rows from snapshots that are already old; queries
read in pages what others change; a purge moves the only copy of an event
through four programs. The list, at the lines where it bites, is in
`PROJECT.json` under `hazards`.

What makes each part correct:

- event store: recovery skips only what the server has; the counter stays in
  the file; a file goes only when all of it has been delivered; nothing in use
  is freed; everything logged is delivered;
- queue and threads: the server gets a job's events in order, nothing stays in
  the queue, a flush tells the truth and returns;
- logging: a call that returns 0 has handed its event over; a sequence code is
  used once; every call returns;
- server skeleton: the limit on waiting connections holds and every connection
  is taken, although slaves die and counters wrap around;
- state machine: the state is a function of the set of the events, not of their
  order (as far as the code's "best effort" goes); what belongs to a past attempt
  does not show;
- storing: events are numbered without a gap and none is lost or doubled; the
  state has taken in each of them once; changes are notified and counted;
- purge: a deleted event is in some file of the way to the archive;
- notifications: a registration's messages are settled in order, each once; the
  harvester's row of a job ends up with its last state;
- requests: an answer is that of the request, given to its owner's identity;
- queries: what is returned matched and could be read, what matched throughout
  is returned.

## Modules

Modules that belong together extend each other and share their variables; the
last one of a chain has the initial condition and the next-state relation.
Where the constants are more than a configuration can name, an `MC` module gives
them values, above all *scenarios*: what the actors will do and how many faults
of each kind may happen. A `...Proofs` module extends what it proves about.

| Module | Models |
|---|---|
| `EventStore` | one store, its files, two readers, the queue, one queue thread |
| `QueueThread` | one queue, its threads, those who enqueue, the flush command |
| `EventFile` -> `LocalLogger` -> `Producer` | the writers of the event file; the local logger's children with the confirmations; the calls of the client library |
| `StoreList` | the inter-logger's list of stores with rotation, scan and cleanup; the credential handle |
| `Logging` | `Producer` and `StoreList`: both ends of the event files |
| `SrvBones` | master and slaves of the server skeleton |
| `SeqCode` -> `JobState` -> `BatchState` -> `JobLife` -> `LbPlugin` | the order of sequence codes; the state machine of gLite jobs; those of the other job types and the form of a state in the database; events arriving in any order; the provenance plugin |
| `BatchState` -> `LBStore` -> `Purge`, with `Stats` and `DumpLoad`, in `Bookkeeping` | server processes on the database; purge, export and mail directory; statistics; dumps and their load |
| `NotifServer` -> `NotifIL` -> `NotifClient` -> `Harvester` -> `Notif` | registrations and matching; the notification inter-logger; the client's side; the harvester; all together |
| `NotifChannel` | what the notification inter-logger promises: the abstract specification that `Notif` implements |
| `Gss`, with `LbProto`, -> `BkServer` -> `ConnPool` -> `Request` | connections and messages in pieces; what is answered; the slaves; the threads and the pool of a client; all together |
| `Authz` -> `Query` -> `QueryServer` | policy and ACLs; conditions in the database and in the filter; queries while others change the database |
| `MCJobLife`, `MCLBStore`, `MCLogging`, `MCNotif`, `MCQuery`, `MCRequest` | instances for TLC; the other runs use a module itself |
| `EventStoreProofs`, `QueueThreadProofs`, `SrvBonesProofs`, `LoggingProofs`, `AclProofs`, `RequestProofs`, `BookkeepingProofs` | proofs about `EventStore`, `QueueThread`, `SrvBones`, `Logging`, `QueryServer`, `Request` and `Bookkeeping` |
| `DataFacts` | lemmas on sequences, sets, records and cardinalities that these proofs share |

The cases of a `CASE` stand in the order of the code's tests: where two of them
hold the first one counts, as TLC reads it. A proof holds for whichever is taken.

**EventStore.** A line of the file has an identity, a start, a length and a
state: readable, unreadable, or without its separator. `pc` is the control
point of `event_store_recover` and `event_store_clean` for the main loop and
the recovery thread, `spc` that of the queue thread. `hi` and `lo` are the
queue before and from `tail_ems`. `RecoverLock`, `RecoverSeek`, `RecoverLine`,
`RecoverEnd`, `RecoverNoFile`, `Quarantine` and `QuarantineFails` are
`event_store_recover`, cut where it takes and releases locks and once per line; `Get` to `Remove` are
`event_queue_send`, with the commit cut into the count, the truncation of the
control file and the write; `Clean...` is `event_store_clean`, cut between its
two unlinks. `Crash` keeps the files only.

**QueueThread.** An event is a number within its job. `tpc` follows
`queue_thread` from creation to `queue_thread_cleanup`, `epc` follows
`enqueue_msg` and the flush part of `handle_cmd`. `condLock` and `flushLock`
are the mutexes; `update_lock` covers single accesses and needs no variable. The
wait of a thread is four actions, since a thread whose time is up runs again
only when it has the mutex.

**EventFile, LocalLogger, Producer.** A file is an inode; `name` says which
inode the file name stands for. The actions of a writer are the system calls of
`edg_wll_log_event_write`. A child of the local logger goes from `Receive` over
`Written`, `Send` and, for a priority message, `Confirmed` or `ConfirmTimeout` to
`Reply`; the inter-logger is what it can tell of it. A client's call is a
sequence of library steps (`Steps`), each with its own failures; `history` has
the codes that were given and what the calls returned.

**StoreList.** A store is an element of `stores` for good, and `live` until it
is freed, so that a dangling use can be seen; `store_list` and `jobid_next` are
the list and the rings. A read, a commit and a clean of one store are single
steps: their inside is `EventStore`. Locks of the list are the guards
`ReadLockable` and `WriteLockable`; `use_lock` is `InUse`.

**SrvBones.** The socket pair is two sequences; a connection carries the number
the master gave it. `Pass` is one pass of the master's loop (`Reap` when a
child has died), the actions of a slave are the branches of its loop. Counters
wrap at `Modulus`.

**SeqCode, JobState, BatchState, JobLife, LbPlugin.** Pure operators under the
names of the code: `compare_seq_full`, `processEvent_glite` with one operator
per event type, and so on. A job state has the fields the code branches on and
those the properties speak of. `JobLife` lets the events of a scenario arrive in
every order, with a recomputation in between, and notes in `exposed` what the
machine does not make good; `LbPlugin` answers from the same
events after the purge.

**LBStore, Purge, Stats, DumpLoad.** The database is external and modelled as the code
uses it: rows locked by `SELECT ... FOR UPDATE`, plain selects on the snapshot
made by the first one of the transaction, gap locks, a deadlock that rolls one
transaction back. A server process goes through `db_store` statement by
statement where another process can come in between. The registration of a
collection ends with that of its subjobs, an action of its own
(`register_subjobs_embryonic`): it has the locks of all of them, and may be
rolled back with what came before. An event that changes an access control list
is stored and makes no step of the state (`ChangesAcl`); the state then carries an
earlier number, and is computed anew with the next event. A registration that does
not come from the job's user, or is exclusive and meets a job, is turned down
(`Objection`). Two events are the same if their columns in table `events` are
(`Header`). `Purge` continues through
`dump_exporter`, `export.sh` and the mail directory; `Stats` has the rings with
their intervals, and a table of groups for each process. `DumpLoad` is about
time: an event gets its second before it is committed, a dump takes its window
before it makes two queries, and the next window begins at a second the last dump
noted; the files are then loaded, one after the other, into another server.

**NotifServer to Notif.** `file[id]` is the event file of a registration, `pos`
and `comm` how much of it is read and committed, `q[d]` the queue of an address,
`th[d]` its thread, which ends when it is idle or a control file cannot be
written, and is made again with the next message (`event_queue_create_thread`).
The harvester's thread follows `notify_thread`: its entries, their copy on disk,
the time of the next refresh, the bootstrap window. `seen` has its row of each
job, which every notification and every bootstrap overwrites, and a purge
deletes.

**Gss to Request.** A connection is two sequences of tokens; a message is
written in pieces, and a reader may have the rest of another one in its buffer.
The pool's lock and counter are separate, as the code changes the counter
outside of the lock.

**Authz, Query, QueryServer.** Conditions are translated twice, into the
`where` part and for the filter, as the code does; a query goes page by page and
row by row, while others register, step and purge jobs and change ACLs. A change
of an ACL goes through `edg_wll_UpdateACL` statement by statement, in a transaction
with row locks; `Failed` is what becomes of it when the database gives the
transaction up, which two of the calls do not notice. `stale` counts the references
of jobs that were purged.

### The refinement

`NotifChannel` says: the messages of a channel are settled one after another,
delivered or given up, none is passed over, and what is recorded is what is
settled, so that a restart goes on with the first unsettled message. `Notif`
implements it (property `ChannelSpec`) for registrations that stay at their
address, are not shortened and whose control file can be written, with `written` the length of the event file, `settled` the last message
given to the client or expired, and `record` the position in the control file.
The others are left out, since the code does not keep the promise for them (see
below).

## Exposures

Some hazards the code does not survive. Where they are events of the
environment or rare interleavings, a constant, a variable or a flag of the
scenario tells them apart, and the properties speak of what holds without them.

| Where | Exposure | What happens | Fails |
|---|---|---|---|
| `EventStore` | `sync`: there are priority events | one overtakes an older event; its length moves the position past the older one, which recovery skips after a crash | `SkipsOnlyHandled` |
| | `ctl_write`, `confirm`: the control file cannot be written, or the confirmation not be sent | the counter has moved, the message stays; it is counted twice, and a file with an undelivered event is removed | `RemovedWhenDelivered` |
| | `crash_clean`: a crash between the two unlinks | the control file is left for the next event file of the job | `SkipsOnlyHandled` |
| | `early`: a message before the first scan | events sent again are counted on top of the control file | `SkipsOnlyHandled` |
| | `torn`: the local logger dies in a write | the store is quarantined and freed with messages in the queue, which are later counted in another file | `NoDanglingStore`, `CommittedInFile` |
| | the rename of a damaged file fails for ever, or 1024 quarantined files have its name (`event_store.c:353-386`) | the result is not looked at; every read ends at the line, and what is behind it is not sent. A rename that fails for some time is in the model | `DamagedMovedAway`, which assumes that the rename succeeds in the end |
| `QueueThread` | `idle_race`: an event arrives while an idle thread gives up | the event stays in the queue without a thread until another one comes (for notifications see `left` below) | `EventuallyAll` |
| | `throttle_race`: a thread runs between the test and the set of throttling | throttling is set on an empty queue, and only a removal would lift it | `EventuallyAll` |
| | `dies`: a commit fails and the thread ends | a flush waits for an answer that nobody will give: `pthread_cond_timedwait` returns a positive error number, taken for no error (`il_master.c:238`) | `FlushReturns` |
| `StoreList` | `stale control file`: a rotation leaves the control file | the next file of the name starts at the old position | `RotationSafe` |
| | `overwritten`: 256 names are taken | the give-up test asks for 1024, and the last name tried is renamed onto | `RotationSafe` |
| | `unlinked`: the cleanup passes over a store in use | `prev` stays, and the next removal drops that store from the list | `InUseKept` |
| | `freed in the ring`: a store is freed between its release and the look at `jobid_next` | the ring is followed from freed memory | `InUseKept` |
| `Producer` | the inter-logger removes the file and another writer makes a new one between the open and the check (`log_msg.c:177`) | the event is written to a file that has lost its name, and acknowledged | `TakenOver`, which asks for the event only if the file had its name (`named`) |
| | `late`: a wait for a confirmation has timed out (`logd_proto.c:266`) | its late confirmation is taken for that of a later event at the same socket name | `TakenOver` for synchronous events |
| | an event for the proxy and the server | each answer resets the error of the other (`producer.c:253`) | `TakenOver` asks for the event in one of the two |
| `SrvBones` | `dies_taking`, `send_fails`, `sig_race` | a slave dies between receiving and reporting; a connection cannot be passed on; SIGCHLD comes just before `select` | `EveryoneTaken` |
| `Purge` | `exposed` | a line that cannot be written to the dump is deleted all the same; a short write is taken for complete (`dump_exporter.c`, `maildir.c:138`); `export.sh` removes the input of a failed exporter; a dump that cannot be linked to its name is removed (`srv_purge.c:437`); a message is given up, or its importer dies, or fails, after `maildir.c:173` has removed it from `work` and before line 189 has linked it to `post` | `Archived`, a part of `KeptInFiles` |
| `JobLife` | `branch`: ReallyRunning comes when events of another shallow branch have been taken for the newest | what was seen of its own branch is not looked at again (`process_event.c:665`: "best effort -- if we are lucky"): Running, where the sorted events give Done | `Converged`, `Provenance` |
| | `end`: a Done comes after a newer one | it overwrites `done_code` (`process_event.c:790`) | the part of `Converged` on `done_code` |
| `LBStore` | `lost`: a deadlock or a lost connection while a collection's subjobs are registered | the transaction is gone, but the error is not seen and the request is acknowledged (`db_store.c:90`) | `EventsIntact` |
| `DumpLoad` | `DumpRequest`: windows from the end of the last dump, the tool's default | what arrived between the window's end and the end of that dump is in no window | `Restorable`, a part of `KeptInFiles` |
| | `Late`: an event is committed after the query, with a second the window has | the next window begins at that second or later, and excludes it | `Restorable` |
| | `unwritten`: a write fails, or the file cannot be named | the error is reset with the next event, and the times of the dump are noted before the file has its name | `Restorable` |
| `Stats` | `raced` | `flock` does not exclude processes that inherited the descriptor; an update is lost; two updates that overlap are told apart, and those that follow each other are checked | `StatsRight` |
| `Notif` | no `calm`: a change of address is read together with later messages | those behind the change stay in the old queue (`event_queue.c:446`; `harvester.c:1960` relies on "reliable delivery") | `Harvested` |
| | `moves`: a message is moved while it is sent | the sender finds it "not ours" after the commit; it is committed twice, and after a restart an undelivered one is skipped | `ChannelSpec` |
| | `shortens`: the validity of a registration is made shorter, and longer again, before its messages are read | `cmp_expires` discards the one in the middle first (`queue_thread.c:195`, before `event_store.c:900` has given all of them the last expiration); its length moves the position over the older one, which a restart skips | `ChannelSpec` |
| | not `lossless`: a notification cannot be written; is discarded as expired while its registration is there; is acknowledged and not returned (`client/notification.c:859`), or not stored, as the harvester dies or the database reports an error, which is only logged (`harvester.c:1018-1110`) | it is not told again; `lossless` becomes FALSE at that moment | `Harvested` |
| | the JDL registration tells a state last | its notifications have an event file of their own: an older state overwrites a newer one (`harvester.c:1051`, `1073`) | `Harvested`, which excepts a row with that source |
| | a job is purged before the registration is there | no bootstrap tells it, and the row of the job stays | `Harvested` |
| | `left`: a message comes while an idle thread gives up, or a thread ends as a control file cannot be written (`queue_thread.c:164`, `245`) | the queue has no thread until another message comes | `ExpiredLeave` |
| | `miscounts`: a control file cannot be written (`send_event.c:380`) | the counter has moved and the message stays: it is counted twice | `ChannelSpec` |
| `Request` | the rest of another message in a buffer | a slave's buffer, the proxy's and a re-authenticated connection's are not cleared; a late answer is taken for the next request's | `AnswerIsOwn` |
| | `dead` | `connOpened` is changed outside of the lock and an assertion stops the process (`connection.c:211`) | `CallsReturn` |
| `QueryServer` | rows come or go between two pages | `LIMIT` with an offset, each page on its own: rows are skipped or repeated (`query.c:518`) | `QueryRight` |
| | `stray`: in a query for events with conditions on states, the first event of a job was passed over, or the job's status refused | `j_old` is set all the same (`query.c:285-289`), and the job's other events go by the verdict on the job before, also those that the reader may not see ("Auth checked in edg_wll_JobStatusServer above", `query.c:244`) | `QueryRight` |
| | `exposed`: the database fails in `update jobs` of `edg_wll_UpdateACL` (also by a deadlock), or a connection is lost in the increment | the failure is taken for a changed list, and a count is decremented that was not incremented (`lb_authz.c:844-849`); the increment is repeated outside of the transaction (`lb_authz.c:732`) | `AclCounted` |

Other disagreements met while modelling, visible in the definitions:

- *State machine.* Because of `end` above, the server may tell Done (Failed) of a
  job that the plugin, which sorts, tells to be Done (OK). Condor codes do not parse
  in a recomputation; CREAM, virtual machine and transfer jobs take whatever
  arrives last. `lb_plugin.c` keeps a pointer into an array that it enlarges
  later, and writes one element behind it when the last event fills it.
- *Storing.* The histogram of a collection is read from the snapshot, not from
  the locked row (run `histogram_lost`). The parent is told only if the state
  changed, though its class depends on `done_code`, too. A failed COMMIT is not
  retried (`db_supp.c:134`). `get_job_type` inside a purge commits the purge's
  transaction (`srv_purge.c:788`); a process that dies then leaves half of a job.
  A deadlock on the row of a collection refuses the event of the subjob with
  EINVAL, where that on its own row would be tried again.
- *Statistics.* A time on the border of an interval counts for the one before;
  the sum of durations is not reset when a cell is used again; a retried
  transaction counts again.
- *Queries.* An error on the last row drops all results; alternatives of
  which only some have an index select too little.
- *Access control lists.* A purge deletes the row of a job and leaves the count of
  its list (`srv_purge.c:814`), so that the list is never deleted; the script of a performance test,
  which purges by SQL, counts it down ("UPDATE acls, jobs SET acls.refcnt =
  acls.refcnt - 1", `server/perftest_proxy.sh:63`). A job that is purged after the
  lock of its row was lost in a change of its list makes `edg_wll_UpdateACL` try for
  ever, as there is no row to be updated.
- *Logging.* A flush of all queues is always refused by the local logger.
- *Requests.* A bad request without a body is never answered; a request is sent
  twice when the answer is lost.
- *Notifications.* Changes between the harvester's time and the commit of its
  registration are in neither the bootstrap nor the notifications; expiry may
  remove a registration that was just refreshed.
- *Load.* A line that `db_store` refuses is passed over before the code that
  writes the reject file (`load.c:92`), and the answer is the result of the last
  line.

## Runs

| Run | Checks | Bounds, and why they are enough |
|---|---|---|
| `store` | `TypeOK`, `CrashSafe`, `SkipsOnlyHandled`, `NoDanglingStore`, `CommittedInFile`, `RemovedWhenDelivered`, `EventuallyDelivered`, `EventuallyRemoved` | three events in a queue of two: one committed, one queued, one refused; one crash at any point. The length 2 makes every off-by-one a position inside a line. Other lengths, limits and more crashes are covered by the proofs |
| `store_faults` | `ReadersReturn`, `DamagedMovedAway` | two events (a torn one and one glued to it, a priority one and a normal one), all faults of the queue thread |
| `queue` | `NoStaleAnswer`, `ServerOrder` | two threads and one job, so that they always compete for it; three events in a queue of two; a flush; all exposures |
| `queue_live` | `EventuallyAll`, `FlushReturns` | one thread that comes and goes and closes its connection lazily, three events in a queue of two, two flushes |
| `bones` | `QueueBounded`, `EveryoneTaken` | two slaves that end after two requests, a limit of one, counters modulo 4 and five connections: they wrap around; with faults three connections and one death |
| `joblife` | `TagIsNewest`, `SelectedBranch`, `Converged`, `Provenance`, `OldAttemptSilent` | scenarios of five to seven events, in every order, with one recomputation anywhere; among them shallow and deep resubmission, with ReallyRunning on the last and on an earlier branch, the end of a job told by several sources, tags, collections, and each other job type |
| `lbstore` | `EventsIntact`, `StateFollows`, `Notified`, `KeptInFiles`, `StatsRight` | two server processes, a collection of two subjobs and a job; requests that overlap or come twice, among them changes of access control lists and registrations that are turned down; one fault anywhere. Two importers; two processes that count, rings of two cells; two dumps in three seconds, so that an event falls before, between, inside and on the edge of their windows |
| `notif` | `Harvested`, `ChannelSpec`, `ExpiredLeave` | one job with two changes, three registrations, two addresses; a start, refreshes, purges, restarts of either side, deaths of the harvester with changes before and after them, threads that end, lost calls, the tool's calls, each in its own scenario with one or two faults |
| `request` | `AnswerIsOwn`, `AnsweredAs`, `CallsReturn` | two threads, a pool of one or two connections, two servers and a proxy with one slave each; every kind of request with every outcome; timeouts, renewed credentials, refused and idle connections, slaves that die |
| `query` | `QueryRight`, `AclCounted` | four jobs, pages of one or two rows, every attribute of a condition, conditions on events with those on states for readers with all, some and no rights, one or two changes during the query; three changes of ACLs in two processes, with purges and a new registration, deadlocks and one lost connection |
| `logging` | `PositionTrue`, `TakenOver`, `OneEventPerCode`, `RotationSafe`, `InUseKept`, `LoggingReturns` | two clients with up to four calls and at most four faults, among them those of the table above; two files of a job, one to be rotated, two events to come, one crash; a name for one rotated file, so that it is taken |
| `histogram_lost` | `HistogramTrue` (violated) | as `lbstore`. Two subjobs change at once; the second process locks the row of the collection but reads its histogram from its older snapshot. The finding in `PROJECT.json` quotes the comments |

Deadlock is not checked where all actors may be done with what the scenario has
for them; it is in `EventStore`, `Bookkeeping` and `Notif`, in which something
can always go on.

A pass of the bounds in the sense that matters: each action occurs in some
scenario, and so does each exposure named above (with its constant or flag set, and
but for a rename that fails for ever), and for each property a mutated definition
(`mutants` in `PROJECT.json`; the definitions named `Mut...` and others marked
"Mutant") makes TLC find it violated.

### Fairness

Weak fairness stands for scheduling: a thread or process that can go on does.
Strong fairness is used where a thread competes: for a mutex (one who keeps
asking is granted it), for a connection to be taken, and for the server's
answers (a server that is tried again and again answers in the end; the queue
thread retries forever), and for the rename of a damaged file (each read tries it
again). Nobody has to log events, to flush, to connect, to time
out, to die or to crash, and no clock has to go on. The recovery thread's loop
is fair: it is an endless loop with a sleep. In `Producer` and `Request` a wait
that nobody answers ends by its timeout, as every wait of the code has one; a
local logger or inter-logger that has died is started again.

## Proofs

Each theorem is `Spec => []Inv`, or `Spec => [][A]_vars` for `ServerOrder`: for
all values of the constants that satisfy the named assumptions, and with every
fault and exposure of the module unless said otherwise. The assumptions
(`StoreAssumption`, `QueueAssumption`, `BonesAssumption`, `FileAssumption`,
`LoggerAssumption`, `ProducerAssumption`, `ListAssumption`, `PlansAssumption`,
`JobsAssumption`, `ScenariosAssumption`, `QueryAssumption`, `PoolAssumption`,
`AddressAssumption`, `SlaveAssumption`) only say that limits are numbers, that
scenarios have the form the modules read, and that different things have
different names. Some of them say more: `QueueAssumption` wants the lower limit of
a throttled queue between 1 and the upper one, `BonesAssumption` a width of
the counters that exceeds the overload limit, `JobsAssumption` that no two jobs
are each other's parents, and `PlansAssumption` and `ScenariosAssumption` that
what the inter-logger and the server find at their start could have been left by
earlier ones: positions inside of files and behind delivered events only, events
that are numbered without a gap. No number of actors, of events, of calls or of
faults is bounded by them, and of the sets only slaves, jobs and senders are
taken to be finite.

Few of the properties are inductive; the others are proved from the strengthening
in the table.

| Theorem | Property | Inductive invariant |
|---|---|---|
| `EventStoreProofs!TypeCorrect` | `TypeOK` | itself |
| `CrashSafety`, `ReadSafety`, `StoreInUseKept`, `CommitBounded`, `RemovalSafety` | `CrashSafe`, `SkipsOnlyHandled`, `NoDanglingStore`, `CommittedInFile`, `RemovedWhenDelivered` | `IInv`, below; with `Exposures = {}` |
| `QueueThreadProofs!TypeCorrect`, `FlushAnswers`, `ServerInOrder` | `TypeOK`, `NoStaleAnswer`, `ServerOrder` | `TypeOK /\ EnqueueInv /\ ThreadInv /\ QueueInv /\ FirstInv /\ NoStaleAnswer` |
| `SrvBonesProofs!TypeCorrect`, `OverloadLimit` | `TypeOK`, `QueueBounded` | `TypeOK /\ SlaveInv /\ CountInv /\ NumberInv` |
| `LoggingProofs!AcknowledgedInPlace` | `PositionTrue` | `FileShape /\ WriterInv /\ CleanerInv /\ AckedInv /\ PositionTrue` |
| `LoggingProofs!CodeIdentifiesEvent` | `OneEventPerCode` | `CodeInv`: `HistoryInv`, `UniqueCodes` and `ContextInv` of each client |
| `LoggingProofs!StoresKept`, `RotationKeeps` | `InUseKept`, `RotationSafe` | `ListInv /\ CredInv`; the part on stores and files as long as `exposed = {}`, that on credentials always |
| `AclProofs!CountsRight` | `AclCounted` | `JobsInv /\ TodoInv /\ CountsInv /\ WorksInv` as long as not `exposed` |
| `BookkeepingProofs!EventsAlwaysIntact` | `EventsIntact` | `Inv`: the database is `Sound`, each process is as `Storing` and `AtParent` say, and two of them are `Apart` |
| `RequestProofs!AnsweredAsOwner` | `AnsweredAs` | `AsInv`: `BudInv /\ AnsweredAs /\ (dead \/ RunInv)` |
| `RequestProofs!AnswerOwned` | `AnswerIsOwn` | `AsInv /\ OwnInv`, the latter `AnswerIsOwn /\ (dead \/ RunOwn)` |

**EventStore.** `IInv` is

    TypeOK /\ ShapeInv /\ FileInv /\ LockInv /\ UseInv /\ QueueInv
    /\ ChainInv /\ PositionInv /\ DeliveryInv /\ CtlInv

- `FileInv`: the lines of the file follow each other without gaps, their ends
  grow, the identities are below `nextId`;
- `LockInv`, `UseInv`: who holds which lock at which control point, and when a
  clean excludes readers;
- `QueueInv`: the queued messages are lines of the file, of the present
  generation;
- `ChainInv`: they are *consecutive* lines, from `last_committed_bs` to the
  position the readers have reached. This is the heart of the argument: the
  code adds lengths, and the sum is a position only because the queue is a
  gapless chain from that position;
- `PositionInv`, `DeliveryInv`: what lies before the chain has been delivered;
- `CtlInv`: the control file holds the counter, or is behind it by the event
  that is being committed, or is empty.

`sync` breaks `ChainInv` (the chain is no longer in file order), `ctl_write`
and `confirm` break the one-commit-per-event part of it, `early` makes a chain
that starts before the counter, `crash_clean` breaks `CtlInv` for the next
file, and `torn` breaks `QueueInv`: each exposure is one conjunct the proof
needs, and without it the property fails. The exposure-free assumption
is stated in the theorems.

**QueueThread.** The server gets an event of a job only when it is the next
one or the one it got last. For this the queue has to hold *all* of the job's
events behind the last one delivered, in order (`QueueInv`); a thread's message
has to be the first of its job in the queue (`FirstInv`), also while others
insert and remove; and no two threads may have messages of one job
(`ThreadInv`), which is what `event_queue_get` sees to by skipping the jobs of
other threads. `EnqueueInv` keeps the events of a job in the hands of one
enqueuing thread.

**SrvBones.** The master compares the number of the last connection it passed
on with the highest one that was reported. The limit holds because numbers in the channel
grow, by at least one each, and all of them are above those that were taken or
reported (`NumberInv`): at most `dispatched - accepted` connections can be in
the channel. A slave that dies with a connection, and a report that comes late
or never, only make the estimate larger. When the counters wrap around this
order is lost, and so is the limit, until the first report of a new number: the
theorem, like the property, is about the time before.

**Logging.** A writer from `fcntl` to `close` has the lock of the *inode*, and
its position is the end of that file (`WriterInv`); the inter-logger truncates
or removes with the same lock (`CleanerInv`). So an acknowledged event stays
where the writer was told that it is, though perhaps in a file without a name.
For codes: all codes of a context's present series are below its counter, but
for the one of the event that is under way, and that is counted up at the
end of the transfer, whether it succeeds or not (`CodesBelow`). The registration of
subjobs replaces the code and restores the old one; `Registers` and `OldBelow`
say at which point of the call it is and that nothing above the old code was
given meanwhile.

**StoreList.** Two things must be known of a store: that it is still there when
a message, a thread or the list leads to it, and that what it counts is a position
in its file. `Listed` says that the live stores are those of the list, one for
each file, and that `jobid_next` leads from a live store to a live store and from
no two to the same one, so that taking one out leaves a ring. `Positioned` and
`StoreAt`: what is before a position, in a control file or in a store, is with the
server. A commit only adds one, so this needs `InOrder`: the queue holds *exactly*
what the stores have read and not committed, each store's part in the order of its
file; the first message of a store is then the one behind its position. `Somewhere`
says that no event gets lost: it is still to be logged, in a file, or with the
server; a rotation gives a file and its position another name, and a file is
removed only when its store is at its end. `Holding` has what the threads hold:
which stores, which of the list's locks, and how far the cleanup is in the list
(`Halfway`). Each exposure of the table above breaks one of them: `stale control
file` and `overwritten` break `Positioned` and `Somewhere`, `unlinked` and `freed in
the ring` break `Listed` and `Holding`. For credentials, the counter of a handle is
the number of those who hold it, and a handle has been released, once, if it is
not the present one and nobody holds it (`Counted`).

**Bookkeeping.** An event gets the number that the job's row has, and the row is
counted up. Between the two, and until the commit, only the transaction that has
locked the row may add to the job. `Pending` tells what a transaction has done to a
job as against the committed tables: nothing, or one event with the next number
that was not there. Two transactions write to no common row and to none that the
other one has locked (`Apart`), so a commit or a rollback of one leaves what is
pending of the other as it was (`Fits`). The row of the collection is locked after
the snapshot has been made: until then `AtParent` only knows that the snapshot is
an `Earlier` state of it, a prefix of its events, and that is why the number has to be
taken again from the locked row. A purge removes all rows of a job; what is said of
a job is said as long as it is not purged. An acknowledged event is there because
every way to an acknowledgement goes through a commit of a transaction that had
inserted it or seen it, but for `lost` in the table above.

**QueryServer.** The count of an ACL is the number of the jobs that refer to it,
and of those that were purged while they did: `stale` never goes down, so a list
that a purged job has left is never deleted, and the others go with their last
job. A transaction may be between the increment and the decrement, so `Writes`
tells what it has written relative to the committed count (`Delta`), at each
control point, also while it takes its increment back; `WorkShape` that it has the
lock of the job's row, and the row the list it has read, when it decrements; and
`Apart` that two transactions write to no common row, to none the other has locked,
and hold different jobs' rows. The counts then change, with the commit, together
with the job. A lock may be lost on the way, when the increment met a deadlock and
went on in a new transaction: then the update of the job either still finds the
list that was read, or the increment is undone, and both keep the counts. When the
update of the job itself fails, what is taken back was rolled back already; from
there on the counts are wrong, and the theorem is about the time before.
`DataFacts` has what happens to the number of elements with a property when one
element changes.

**Request.** A thread gets an answer that was made for the owner of its
certificate. The invariant follows the identity along the whole way: a slave has
the identity of its connection (`AuthInv` while that is being authenticated,
`ServedInv` after it), a connection has one owner in the client (`HolderInv`) and
at most one slave (`SlavesInv`), an entry of the pool one thread (`LockInv`), and
all that an entry's reader will see, in the entry's buffer, in the network and in
what the slave has still to write, is a `Stream` of pieces of answers to the
owner of the entry's certificate, cut in the middle of a message as the reader's
state allows (`EntryInv`). That a late rest may be in the stream is the reason
why `AnswerIsOwn` needs an exposure and `AnsweredAs` does not: the rest is another
answer to the *same* identity, since an entry whose certificate changes drops its
connection and its buffer. After the assertion on `connOpened` has stopped
the process (`dead`), the client does nothing more, and only
`AnsweredAs` and `AnswerIsOwn` are kept.

That an answer is the one to the request of the call is proved on top of this, as
the first part says which thread, entry, connection and slave belong
together. `RunOwn` says what is under way between them, as one `Exchange` of two
messages at a time:

- a thread that sends or reads has sent `sent` pieces of its request, and either
  there is no answer (`Pending`): the slave has read some number of these pieces
  and the others are in the connection, or it has read all, serves the request,
  has failed or is about to close; or one answer `A` is `Coming`: the thread has
  read some pieces of it, the next are in the connection, the last ones are still
  in the slave, which has nothing else to write and reads nothing more of this
  request. `A` is an answer to the identity of the call, in its first line and
  in its body, or is marked as not clean, or answers a request that could not be
  read and names no identity (`OwnAnswer`);
- between two calls an entry of the pool has an empty buffer and a connection on
  which nothing is under way (`EntryOwn`, `Resting`). This is what `CloseConnection`
  after every failed exchange and the reset of the buffer are for, and what the
  mutant of `AnswerIsOwn` breaks: a late answer would otherwise still be `Coming`
  when the next request is sent;
- a connection that waits for a slave holds the token of its authentication only
  (`QueuedOwn`), and a slave that is free has begun no message (`SlaveOwn`).
  Buffers of slaves outlive connections; the invariant says that all that can be in
  one are first lines, so that a rest is taken for the beginning of the next
  message and marks it, and never for the body of one;
- the connection to the proxy is the thread's own and its buffer is not
  cleared, so there the `Exchange` is claimed only while it is clean
  (`ProxyOwn`).

The lemmas on `Under` follow one reader through `http_recv`, once for all
places where it is called: on a message cut at any place it wants more, fails, or
returns the first line and the body of that message and leaves nothing behind.

### Only model-checked

- all liveness properties (`EventuallyDelivered`, `EventuallyRemoved`,
  `ReadersReturn`, `DamagedMovedAway`, `EventuallyAll`, `FlushReturns`,
  `EveryoneTaken`, `ExpiredLeave`, `CallsReturn`, `LoggingReturns`): they rest on
  fairness, which the prover does not treat;
- what needs an induction over data, of which the prover is not capable: the
  state of a job as a fold over its events, in the state machine and in the
  provenance plugin (`TagIsNewest`, `SelectedBranch`, `Converged`, `Provenance`,
  `OldAttemptSilent`), and what the server makes of it (`StateFollows`,
  `Notified`);
- `KeptInFiles`, `StatsRight`, `Harvested` and `QueryRight`: each is about a sum,
  an order or a set of rows that many steps build up element by element (the files
  an event goes through, the cells of a ring, the last state in the harvester's
  hands, the pages of a query), and would need the state machine or the evaluation
  of a condition as an induction over data;
- `TakenOver` and the refinement `ChannelSpec`: not proved. An attempt on the
  last one found the exposure `shortens`;
- the safety of `EventStore` with exposures, since it fails.

## Not modelled

Formats, parsers and printers; web services; the wrappers of libraries, but for
what connections and transactions do; the HTTP variants, the
messaging plugin and the unfinished rewrite of the inter-logger; the flush of
all queues with its combined answer; the termination of the server and of the
harvester's other threads; options and start-up. Durations are not modelled: a
timeout may come at any moment; where times are compared (registrations,
statistics, purge) there is a clock of few ticks. Memory does not run out. Sizes
of counters matter in `SrvBones` only (a file position does not overflow before
the disk is full).

Of the operations that are modelled, these branches are left out: in `db_store`,
asynchronous registrations and grey jobs, the connections between jobs, the changes
of an access control list that come with a payload owner or a registration, the
purge of a job from the proxy, and the proxy's skipping of events it did not get
directly; in `stats.c`, what happens after a failed `mmap`; in the
client's pool, credentials with a lifetime of 0, which are read again for every
call, with a new connection (`connection.c:350`); in the harvester, the option to keep purged
jobs and running without a database; and a connection to the database that is
lost and opened again in the middle of a transaction, which from then on commits
each statement (`db-mysql.c:782`: "may result in weird behaviour in the middle of
transaction"), but for the counts of access control lists.

## Plan

1. *Done:* the modules above with their runs.
2. *Done:* the theorems above.
3. Proofs next: the refinement `ChannelSpec` of `Notif`, for behaviours in which
   a registration's messages name one address and their expirations grow up to
   the last one. Its invariant is that the queue of the address has the messages
   of the registration from `comm` to `pos`, in order, and in the order of their
   expirations. Then `TakenOver`, which now names its exposures and should hold for
   any faults.
4. Possible extensions: an abstract specification of reliable transfer that
   `EventStore` and `QueueThread` implement together; the flush of all queues.
