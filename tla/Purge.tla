------------------------------- MODULE Purge -------------------------------
(***************************************************************************)
(* Purging jobs from the server's database (srv_purge.c), and the way of   *)
(* their events from there: the dump a purge writes, its split into a file *)
(* for each job (dump_exporter.c, run by export.sh), and the mail          *)
(* directory (maildir.c) from which importers of Job Provenance, which are *)
(* external, take the messages that name the files.                        *)
(*                                                                         *)
(* A line of a file is [job, ev].  A file of the dump directory is         *)
(* [id, kind, lines]: "tmp" while it is written, "purge" when complete.    *)
(* A message is [id, job, lines], with the file it names.                  *)
(***************************************************************************)
EXTENDS LBStore, SequencesExt

CONSTANTS Importers,    \* processes that take messages from the mail directory
          Now           \* the time; timestamps of events are before it

VARIABLES
    pass,      \* the purge a server process is in the middle of
    files,     \* dump directory
    ex,        \* the exporter, and whether the script is to keep the purge files
    mail,      \* mail directory: the messages in each of its parts
    im,        \* the message each importer is working on, and how that has ended
    imported,  \* messages Job Provenance has got
    gone,      \* lines whose event a purge with a dump has deleted
    exposed    \* something happened that the code lets lose a line
avars == <<pass, files, ex, mail, im, imported, gone, exposed>>

Dirs == {"tmp", "new", "work", "post", "undeliverable"}
NoPass == [req |-> None]
NoFile == [id |-> 0, kind |-> None, lines |-> <<>>]
NoMsg == [id |-> 0, job |-> None, lines |-> <<>>]
NoWork == [msg |-> NoMsg, end |-> None]
NotExporting(keep) == [file |-> NoFile, out |-> <<>>, failed |-> FALSE, keep |-> keep]

Fault == faults < MaxFaults /\ faults' = faults + 1

---------------------------------------------------------------------------
(* edg_wll_PurgeServer.  A request names jobs, or all the server's jobs,   *)
(* which are purged when a timeout of their state has passed.              *)

LastUpdate(v, j) == Max({x.timestamp : x \in EventsIn(v, j)} \cup {0})

\* lastUpdateTime of a job, which a subjob without events has from its
\* registration.
Updated(v, j) ==
    IF EventsIn(v, j) = {} /\ Parent[j] # None THEN LastUpdate(v, Parent[j]) ELSE LastUpdate(v, j)

Over(v, j, timeout) ==
    LET t == timeout[v.states[j].js.state]
    IN  t >= 0 /\ Updated(v, j) > 0 /\ Now - Updated(v, j) > t

\* A subjob goes with its collection, unless that is gone; a collection goes
\* when all of its subjobs may.
purge_check(v, j, timeout) ==
    /\ Over(v, j, timeout)
    /\ Parent[j] # None => v.jobs[Parent[j]] < 0
    /\ \A c \in Children(v, j) : Over(v, c, timeout)

\* The next file: names are times, a name that is taken is not used again.
NewId == 1 + Max({f.id : f \in files} \cup {pass[p].id : p \in {q \in Workers : pass[q] # NoPass}} \cup {0})

OfJob(j) == [kind |-> "purge", job |-> j, ev |-> NoEvent, again |-> FALSE]

\* The request is taken up, and a temporary file is made for the dump.
PassBegin(p, r) ==
    /\ w[p].pc = "idle" /\ r \in inbox /\ r.kind = "purge"
    /\ inbox' = inbox \ {r}
    /\ \/ r.allowed /\ w' = [w EXCEPT ![p] = [Idle EXCEPT !.pc = "pass", !.ask = "look", !.req = OfJob(None)]]
                    /\ pass' = [pass EXCEPT ![p] =
                         [req |-> r, id |-> NewId, file |-> <<>>, kids |-> {}, abort |-> None,
                          todo |-> IF r.jobs # {} THEN r.jobs
                                   ELSE {j \in Jobs : db.jobs[j] >= 0 /\ "server" \in db.members[j]}]]
       \/ ~r.allowed /\ UNCHANGED <<w, pass>>
    /\ UNCHANGED <<db, acked, sent, jp, faults, files, ex, mail, im, imported, gone, exposed>>

\* edg_wll_JobStatusServer for the next job.
PassLook(p) ==
    /\ w[p].pc = "pass" /\ w[p].err = None /\ pass[p].kids = {} /\ pass[p].abort = None
    /\ \E j \in pass[p].todo :
          /\ w' = [w EXCEPT ![p] = [Idle EXCEPT !.pc = "status", !.ask = "look", !.req = OfJob(j)]]
          /\ pass' = [pass EXCEPT ![p].todo = @ \ {j}]
    /\ UNCHANGED <<db, inbox, acked, sent, jp, faults, files, ex, mail, im, imported, gone, exposed>>

\* The state of the job is known, from the database or just computed and stored.
Known_(p) ==
    LET j == w[p].req.job
    IN  /\ w[p].req.kind = "purge"
        /\ \/ /\ w[p].pc = "status" /\ Granted(p)
              /\ db.jobs[j] >= 0 /\ db.states[j] # NoRow
              /\ UNCHANGED db
           \/ w[p].pc = "commit" /\ db' = Committed(p)

\* A job that is to stay is left, the other one is purged, with the subjobs it
\* has by now.
PassLooked(p) ==
    LET j == w[p].req.job
        r == pass[p].req
        go == r.jobs # {} \/ purge_check(db', j, r.timeout)
    IN  /\ pass[p] # NoPass /\ w[p].ask = "look" /\ Known_(p)
        /\ w' = [w EXCEPT ![p] = [Idle EXCEPT !.pc = IF go THEN "purge" ELSE "pass", !.req = w[p].req,
                                              !.ask = IF go THEN "type" ELSE "look"]]
        /\ pass' = [pass EXCEPT ![p].kids = IF go THEN Children(db', j) ELSE {}]
        /\ UNCHANGED <<inbox, acked, sent, jp, faults, files, ex, mail, im, imported, gone, exposed>>

\* purge_one_with_subjobs: the next subjob.
PassSubjob(p) ==
    /\ w[p].pc = "pass" /\ w[p].err = None
    /\ \E c \in pass[p].kids :
          /\ w' = [w EXCEPT ![p] = [Idle EXCEPT !.pc = "purge", !.ask = "type", !.req = OfJob(c)]]
          /\ pass' = [pass EXCEPT ![p].kids = @ \ {c}]
    /\ UNCHANGED <<db, inbox, acked, sent, jp, faults, files, ex, mail, im, imported, gone, exposed>>

\* A job that somebody else has purged is left out, with the rest of its
\* subjobs; any other error ends the purge.  Named jobs that have become
\* zombies since they were looked at are such an error.
Skipped(p) ==
    \/ w[p].err = "ENOENT"
    \/ w[p].err = "EIDRM" /\ (w[p].ask # "look" => pass[p].req.jobs = {})

PassError(p) ==
    /\ w[p].pc = "pass" /\ w[p].err # None
    /\ w' = [w EXCEPT ![p].err = None, ![p].ask = "look"]
    /\ pass' = [pass EXCEPT ![p].kids = {}, ![p].abort = IF Skipped(p) THEN None ELSE w[p].err]
    /\ UNCHANGED <<db, inbox, acked, sent, jp, faults, files, ex, mail, im, imported, gone, exposed>>

Dumped(p, kind) == [id |-> pass[p].id, kind |-> kind, lines |-> pass[p].file]

\* Mutant: the temporary file is removed after every purge.
PassEndUnlinks(p) ==
    /\ w[p].pc = "pass" /\ w[p].err = None /\ pass[p].kids = {}
    /\ pass[p].todo = {} \/ pass[p].abort # None
    /\ files' = IF pass[p].req.dump /\ pass[p].abort = None
                THEN files \cup {Dumped(p, "purge")} ELSE files
    /\ w' = [w EXCEPT ![p] = Idle]
    /\ pass' = [pass EXCEPT ![p] = NoPass]
    /\ UNCHANGED <<db, inbox, acked, sent, jp, faults, ex, mail, im, imported, gone, exposed>>

\* The end: the dump gets its name, unless the purge was given up.  When the name
\* cannot be linked, the temporary file is removed all the same.
PassEnd(p) ==
    LET named == pass[p].req.dump /\ pass[p].abort \in {None, "ENOENT", "EPERM", "EINVAL"}
    IN  /\ w[p].pc = "pass" /\ w[p].err = None /\ pass[p].kids = {}
        /\ pass[p].todo = {} \/ pass[p].abort # None
        /\ \/ /\ files' = IF pass[p].req.dump
                          THEN files \cup {Dumped(p, IF named THEN "purge" ELSE "tmp")} ELSE files
              /\ UNCHANGED <<faults, exposed>>
           \/ named /\ Fault /\ exposed' = TRUE /\ UNCHANGED files
        /\ w' = [w EXCEPT ![p] = Idle]
        /\ pass' = [pass EXCEPT ![p] = NoPass]
        /\ UNCHANGED <<db, inbox, acked, sent, jp, ex, mail, im, imported, gone>>

\* purge_quit: the signal to end is looked at before each job.
PassQuit(p) ==
    /\ w[p].pc = "pass" /\ pass[p].todo # {} /\ Fault
    /\ pass' = [pass EXCEPT ![p].todo = {}]
    /\ UNCHANGED <<db, inbox, w, acked, sent, jp, files, ex, mail, im, imported, gone, exposed>>

\* The server process dies in the middle of a purge.
PassDies(p) ==
    /\ pass[p] # NoPass /\ Fault
    /\ files' = IF pass[p].req.dump THEN files \cup {Dumped(p, "tmp")} ELSE files
    /\ w' = [w EXCEPT ![p] = Idle]
    /\ pass' = [pass EXCEPT ![p] = NoPass]
    /\ UNCHANGED <<db, inbox, acked, sent, jp, ex, mail, im, imported, gone, exposed>>

---------------------------------------------------------------------------
(* purge_one.  The transaction it opens is committed by the one of         *)
(* get_job_type within it; every statement after that is on its own.  A    *)
(* job that is the proxy's, too, only loses the server's mark, in one      *)
(* transaction with the dump.                                              *)

Listed(p, v, lock) ==
    [Idle EXCEPT !.req = w[p].req, !.ask = "type", !.pc = "events", !.lock = lock,
                 !.ins = {x.n : x \in v.events[w[p].req.job]}]

\* Nothing more to do for this job.
OneDone(p) == [Idle EXCEPT !.pc = "pass", !.ask = "look", !.req = w[p].req]

\* The request neither purges nor dumps: it only lists jobs.
OnlyLists(p) == ~pass[p].req.really /\ ~pass[p].req.dump

PurgeBegin(p) ==
    LET j == w[p].req.job
        r == pass[p].req
        both == db.members[j] = {"server", "proxy"}
    IN  /\ w[p].pc = "purge" /\ ~OnlyLists(p) /\ Granted(p) /\ db.jobs[j] >= 0
        /\ db' = [db EXCEPT !.members[j] = IF both THEN {"proxy"} ELSE @]
        /\ w' = [w EXCEPT ![p] = CASE db.members[j] = {"proxy"} -> OneDone(p)
                                   [] r.really /\ ~both -> [@ EXCEPT !.pc = "status"]
                                   [] OTHER -> IF r.dump THEN Listed(p, db, {j}) ELSE OneDone(p)]
        /\ UNCHANGED <<inbox, acked, sent, jp, faults>> /\ UNCHANGED avars

PurgeNothing(p) ==
    /\ w[p].pc = "purge" /\ OnlyLists(p)
    /\ w' = [w EXCEPT ![p] = OneDone(p)]
    /\ UNCHANGED <<db, inbox, acked, sent, jp, faults>> /\ UNCHANGED avars

PurgeUnknown(p) ==
    /\ w[p].pc = "purge" /\ ~OnlyLists(p) /\ Granted(p)
    /\ db.jobs[w[p].req.job] < 0
    /\ Refuse(p, "ENOENT") /\ UNCHANGED avars

\* get_job_type; the state in the database may be stored on the way.
PurgeType(p) ==
    /\ pass[p] # NoPass /\ w[p].ask = "type" /\ Known_(p)
    /\ w' = [w EXCEPT ![p] = [Idle EXCEPT !.pc = "delete", !.ask = "type", !.req = w[p].req]]
    /\ sent' = sent \cup {<<w[p].req.job, "PURGED">>}
    /\ UNCHANGED <<inbox, acked, jp, faults>> /\ UNCHANGED avars

PurgeJobs(p) ==
    /\ w[p].pc = "delete" /\ Granted(p)
    /\ db' = [db EXCEPT !.jobs[w[p].req.job] = -1, !.members[w[p].req.job] = {},
                         !.purged = @ \cup {w[p].req.job}]
    /\ w' = [w EXCEPT ![p].pc = "states"]
    /\ UNCHANGED <<inbox, acked, sent, jp, faults>> /\ UNCHANGED avars

PurgeStates(p) ==
    /\ w[p].pc = "states" /\ Granted(p)
    /\ db' = [db EXCEPT !.states[w[p].req.job] = NoRow]
    /\ w' = [w EXCEPT ![p].pc = "zombie"]
    /\ UNCHANGED <<inbox, acked, sent, jp, faults>> /\ UNCHANGED avars

\* The job joins the zombies, and its events are listed.
PurgeZombie(p) ==
    /\ w[p].pc = "zombie"
    /\ db' = [db EXCEPT !.zombies = @ \cup {w[p].req.job}]
    /\ w' = [w EXCEPT ![p] = Listed(p, db, {})]
    /\ UNCHANGED <<inbox, acked, sent, jp, faults>> /\ UNCHANGED avars

\* The event is to be deleted, or not.
Next_(p, n) ==
    [w[p] EXCEPT !.pc = IF w[p].lock = {} THEN "remove" ELSE "events",
                 !.ins = IF w[p].lock = {} THEN @ ELSE @ \ {n}]

\* dump_events: the event is read again and written to the file.  One that is
\* not there any more is no error.  When the time of arrival cannot be written,
\* that is an error; when the event itself cannot, it is deleted all the same.
PurgeDump(p) ==
    LET j == w[p].req.job
        n == Min(w[p].ins)
        lines == {[job |-> j, ev |-> x.ev] : x \in {y \in db.events[j] : y.n = n}}
    IN  /\ w[p].pc = "events" /\ w[p].ins # {} /\ pass[p].req.dump
        /\ \/ /\ w' = [w EXCEPT ![p] = Next_(p, n)]
              /\ pass' = [pass EXCEPT ![p].file = @ \o SetToSeq(lines)]
              /\ UNCHANGED <<faults, exposed>>
           \/ /\ Fault /\ lines # {}
              /\ w' = [w EXCEPT ![p] = [Idle EXCEPT !.pc = "pass", !.ask = "type",
                                                    !.req = w[p].req, !.err = "EIO"]]
              /\ UNCHANGED <<pass, exposed>>
           \/ /\ Fault /\ lines # {}
              /\ w' = [w EXCEPT ![p] = Next_(p, n)]
              /\ exposed' = TRUE
              /\ UNCHANGED pass
        /\ UNCHANGED <<db, inbox, acked, sent, jp, files, ex, mail, im, imported, gone>>

\* edg_wll_delete_event, by the number of the event.
PurgeEvent(p) ==
    LET j == w[p].req.job
        n == Min(w[p].ins)
        rows == {x \in db.events[j] : x.n = n}
    IN  /\ \/ w[p].pc = "remove"
           \/ w[p].pc = "events" /\ w[p].ins # {} /\ ~pass[p].req.dump
        /\ db' = [db EXCEPT !.events[j] = @ \ rows]
        /\ w' = [w EXCEPT ![p].pc = "events", ![p].ins = @ \ {n}]
        /\ gone' = IF pass[p].req.dump THEN gone \cup {[job |-> j, ev |-> x.ev] : x \in rows} ELSE gone
        /\ UNCHANGED <<inbox, acked, sent, jp, faults, pass, files, ex, mail, im, imported, exposed>>

PurgeDone(p) ==
    /\ w[p].pc = "events" /\ w[p].ins = {}
    /\ w' = [w EXCEPT ![p] = OneDone(p)]
    /\ UNCHANGED <<db, inbox, acked, sent, jp, faults>> /\ UNCHANGED avars

PurgeOne(p) ==
    \/ PurgeBegin(p) \/ PurgeNothing(p) \/ PurgeUnknown(p) \/ PurgeType(p) \/ PurgeJobs(p) \/ PurgeStates(p)
    \/ PurgeZombie(p) \/ PurgeDump(p) \/ PurgeEvent(p) \/ PurgeDone(p)

PurgeServer(p) ==
    \/ \E r \in inbox : PassBegin(p, r)
    \/ PassLook(p) \/ PassLooked(p) \/ PassSubjob(p) \/ PassError(p) \/ PassEnd(p)
    \/ PassQuit(p) \/ PassDies(p)
    \/ PurgeOne(p)

---------------------------------------------------------------------------
(* export.sh and dump_exporter: a purge file is split by jobs, which come   *)
(* one after the other in it, and a message is stored for each part.        *)

dvars == <<db, inbox, w, acked, sent, jp, pass>>

\* dump_storage_find_sorted: a line goes to the last file, or to a new one.
AddLine(out, l) ==
    IF out # <<>> /\ Last(out).job = l.job THEN [out EXCEPT ![Len(out)].lines = Append(@, l)]
    ELSE Append(out, [job |-> l.job, lines |-> <<l>>])

Split(lines) == FoldLeft(AddLine, <<>>, lines)

\* The script runs the exporter on a file, which writes a file for each job.
\* After an error no message is stored.  After a short write, the rest of the
\* line is left out.
Export(f) ==
    /\ ex.file = NoFile /\ f \in files /\ f.kind = "purge" /\ f.lines # <<>>
    /\ files' = files \ {f}
    /\ \/ /\ ex' = [ex EXCEPT !.file = f, !.out = Split(f.lines)]
          /\ UNCHANGED <<faults, exposed>>
       \/ Fault /\ ex' = [ex EXCEPT !.file = f, !.failed = TRUE] /\ UNCHANGED exposed
       \/ Fault /\ ex' = [ex EXCEPT !.file = f, !.out = Split(Tail(f.lines))] /\ exposed' = TRUE
    /\ UNCHANGED dvars /\ UNCHANGED <<mail, im, imported, gone>>

\* An empty file is removed.
ExportEmpty(f) ==
    /\ ex.file = NoFile /\ f \in files /\ f.kind = "purge" /\ f.lines = <<>>
    /\ files' = files \ {f}
    /\ UNCHANGED dvars /\ UNCHANGED <<faults, ex, mail, im, imported, gone, exposed>>

NewMsg == [id |-> 1 + Max({m.id : m \in mail["tmp"] \cup mail["undeliverable"] \cup imported} \cup {0}),
           job |-> Head(ex.out).job, lines |-> Head(ex.out).lines]

\* glite_lbu_MaildirStoreMsg: written to tmp, and linked to new when it is
\* complete.  A failure in between leaves it in tmp; the exporter ends.  The
\* message itself may be short, too.
MaildirStoreMsg ==
    /\ ex.out # <<>>
    /\ \/ /\ mail' = [mail EXCEPT !["tmp"] = @ \cup {NewMsg}, !["new"] = @ \cup {NewMsg}]
          /\ ex' = [ex EXCEPT !.out = Tail(@)]
          /\ UNCHANGED <<faults, exposed>>
       \/ /\ Fault
          /\ mail' = [mail EXCEPT !["tmp"] = @ \cup {NewMsg}]
          /\ ex' = [ex EXCEPT !.out = <<>>, !.failed = TRUE]
          /\ UNCHANGED exposed
       \/ /\ Fault /\ exposed' = TRUE
          /\ LET m == [NewMsg EXCEPT !.lines = <<>>]
             IN  mail' = [mail EXCEPT !["tmp"] = @ \cup {m}, !["new"] = @ \cup {m}]
          /\ ex' = [ex EXCEPT !.out = Tail(@)]
    /\ UNCHANGED dvars /\ UNCHANGED <<files, im, imported, gone>>

\* The script moves the file away when it is told to keep the files, and removes
\* it otherwise, whether the exporter has succeeded or not.
ExportEnd ==
    /\ ex.file # NoFile /\ ex.out = <<>>
    /\ files' = IF ex.keep THEN files \cup {[ex.file EXCEPT !.kind = "kept"]} ELSE files
    /\ exposed' = (exposed \/ (ex.failed /\ ~ex.keep))
    /\ ex' = NotExporting(ex.keep)
    /\ UNCHANGED dvars /\ UNCHANGED <<faults, mail, im, imported, gone>>

\* The machine stops; the next run of the script finds the file again.
ExportDies ==
    /\ ex.file # NoFile /\ Fault
    /\ files' = files \cup {ex.file}
    /\ ex' = NotExporting(ex.keep)
    /\ UNCHANGED dvars /\ UNCHANGED <<mail, im, imported, gone, exposed>>

Exporting ==
    \/ \E f \in files : Export(f) \/ ExportEmpty(f)
    \/ MaildirStoreMsg \/ ExportEnd \/ ExportDies

---------------------------------------------------------------------------
(* The importers' side of the mail directory.                              *)

\* glite_lbu_MaildirTransStart, and glite_lbu_MaildirRetryTransStart from post:
\* the message is renamed, which only one importer succeeds in.
MaildirTransStart(i, from) ==
    /\ im[i] = NoWork
    /\ \E m \in mail[from] :
          /\ im' = [im EXCEPT ![i].msg = m]
          /\ mail' = [mail EXCEPT ![from] = @ \ {m}, !["work"] = @ \cup {m}]
    /\ UNCHANGED dvars /\ UNCHANGED <<faults, files, ex, imported, gone, exposed>>

\* One that has been waiting in post for too long is set aside.
MaildirExpire(i) ==
    /\ im[i] = NoWork
    /\ \E m \in mail["post"] :
          mail' = [mail EXCEPT !["post"] = @ \ {m}, !["undeliverable"] = @ \cup {m},
                               !["tmp"] = @ \ {m}]
    /\ UNCHANGED dvars /\ UNCHANGED <<faults, files, ex, im, imported, gone, exposed>>

\* glite_lbu_MaildirTransEnd: the message is removed from work.  One that failed
\* for good stays in tmp only.
MaildirTransEnd(i, tstate) ==
    LET m == im[i].msg
    IN  /\ im[i] # NoWork /\ im[i].end = None
        /\ mail' = [mail EXCEPT !["work"] = @ \ {m}]
        /\ imported' = IF tstate = "OK" THEN imported \cup {m} ELSE imported
        /\ exposed' = (exposed \/ tstate = "FAILED")
        /\ im' = [im EXCEPT ![i] = IF tstate = "FAILED" THEN NoWork ELSE [@ EXCEPT !.end = tstate]]
        /\ UNCHANGED dvars /\ UNCHANGED <<faults, files, ex, gone>>

\* Then it is removed from tmp, too, or linked from there to post; when that
\* fails, it stays in tmp only.
MaildirTransEnded(i) ==
    LET m == im[i].msg
    IN  /\ im[i].end # None
        /\ \/ /\ mail' = IF im[i].end = "OK" THEN [mail EXCEPT !["tmp"] = @ \ {m}]
                         ELSE [mail EXCEPT !["post"] = @ \cup {m}]
              /\ UNCHANGED <<faults, exposed>>
           \/ Fault /\ im[i].end = "FAILED_RETRY" /\ exposed' = TRUE /\ UNCHANGED mail
        /\ im' = [im EXCEPT ![i] = NoWork]
        /\ UNCHANGED dvars /\ UNCHANGED <<files, ex, imported, gone>>

\* An importer that ends in the middle leaves its message in work, where nobody
\* looks for it again; or in tmp only, between the two steps of the end.
ImporterDies(i) ==
    /\ im[i] # NoWork /\ Fault
    /\ exposed' = (exposed \/ im[i].end = "FAILED_RETRY")
    /\ im' = [im EXCEPT ![i] = NoWork]
    /\ UNCHANGED dvars /\ UNCHANGED <<files, ex, mail, imported, gone>>

Importing(i) ==
    \/ MaildirTransStart(i, "new") \/ MaildirTransStart(i, "post") \/ MaildirExpire(i)
    \/ \E tstate \in {"OK", "FAILED", "FAILED_RETRY"} : MaildirTransEnd(i, tstate)
    \/ MaildirTransEnded(i) \/ ImporterDies(i)

---------------------------------------------------------------------------
PurgeInit(keep) ==
    /\ StoreInit
    /\ pass = [p \in Workers |-> NoPass]
    /\ files = {} /\ ex = NotExporting(keep)
    /\ mail = [d \in Dirs |-> {}]
    /\ im = [i \in Importers |-> NoWork]
    /\ imported = {} /\ gone = {} /\ exposed = FALSE

PurgeNext ==
    \/ \E p \in Workers : \/ Work(p) /\ UNCHANGED avars
                          \/ PurgeServer(p)
    \/ Exporting
    \/ \E i \in Importers : Importing(i)

---------------------------------------------------------------------------
LinesOf(q) == {q[k] : k \in DOMAIN q}

\* Where the lines of purged jobs are.
Filed == UNION {LinesOf(f.lines) : f \in files \cup {ex.file}}
Writing == UNION {LinesOf(pass[p].file) : p \in {q \in Workers : pass[q] # NoPass}}
InHand == {im[i].msg : i \in Importers}
Mailed == UNION {LinesOf(m.lines) : m \in mail["new"] \cup mail["work"] \cup mail["post"]
                                            \cup mail["undeliverable"] \cup InHand \cup imported}

\* An event that a purge with a dump has deleted is in a file of the dump
\* directory, or in one that a message of the mail directory or of an importer
\* names, or it has been imported: two purges of one job at once, a purge given
\* up, a server process, an exporter, or an importer that dies at its work do not
\* lose it.  (The exposures do: a line that could not be written, a short write, a
\* dump that could not be named, a failed exporter whose input is removed, a message
\* given up, and one to be tried again whose importer dies, or fails, between its
\* removal from work and its link to post.)  And one importer at a time has a
\* message, which is nowhere that another could take it from.
Archived ==
    /\ ~exposed => gone \subseteq Filed \cup Writing \cup Mailed
    /\ \A i \in Importers : im[i] # NoWork =>
          /\ im[i].msg \in mail["work"] \/ im[i].end # None
          /\ im[i].msg \notin mail["new"] \cup mail["post"]
          /\ \A k \in Importers \ {i} : im[k].msg # im[i].msg

=============================================================================
