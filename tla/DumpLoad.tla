----------------------------- MODULE DumpLoad -----------------------------
(***************************************************************************)
(* Dumps of the events that arrived in a window of time (dump.c of the     *)
(* server, asked for by the tool dump), and loading them into another      *)
(* server (load.c).  A window begins where an earlier dump has begun or    *)
(* ended, so that dumps follow each other.                                 *)
(*                                                                         *)
(* row[e]   an event: new, being stored, stored or purged; when it arrived *)
(*          (in seconds); and how many dumps had made each of their two    *)
(*          queries when it was committed                                  *)
(* dumps    the dumps that ended: [from, to, start, end, lines]            *)
(* A line is [e, kid]: the event itself (0), or the registration of a      *)
(* subjob that the registration e of its collection implies.               *)
(***************************************************************************)
EXTENDS Integers, Sequences, FiniteSets, FiniteSetsExt, SequencesExt

CONSTANTS Arrivals,     \* the events of a dump's scenario
          Kids,         \* how many subjobs an event registers
          Seconds       \* bound of the clock

VARIABLES
    second,    \* time(), from 1
    row,
    marks,     \* table server_state: start and end of the last dump
    asked,     \* the dump requests to come: [from, to]
    dump,      \* the dump in progress
    dumps,
    loading,   \* the load in progress: [lines, err]
    copy,      \* the rows of the server loaded into: [line, at]
    refused,   \* lines that server does not take
    unwritten, \* lines lost by a failing write or link
    harm       \* faults to come
dlvars == <<second, row, marks, asked, dump, dumps, loading, copy, refused, unwritten, harm>>

NoDump == [pc |-> "idle"]
NoLoad == [pc |-> "idle"]
LinesFor(e) == {[e |-> e, kid |-> k] : k \in 0..Kids[e]}

Harm == harm > 0 /\ harm' = harm - 1

---------------------------------------------------------------------------
(* Events                                                                  *)

Tick ==
    /\ second < Seconds /\ second' = second + 1
    /\ UNCHANGED <<row, marks, asked, dump, dumps, loading, copy, refused, unwritten, harm>>

\* Dumps that have made their first query, or their second one.
Queried(n) == Len(dumps) + (IF dump.pc \in n THEN 1 ELSE 0)

\* edg_wll_StoreEvent takes the time inside of the transaction.
RowArrives(e) ==
    /\ row[e].st = "new"
    /\ row' = [row EXCEPT ![e].st = "storing", ![e].at = second]
    /\ UNCHANGED <<second, marks, asked, dump, dumps, loading, copy, refused, unwritten, harm>>

RowCommitted(e) ==
    /\ row[e].st = "storing"
    /\ row' = [row EXCEPT ![e].st = "stored", ![e].first = Queried({"subjobs", "events", "end"}),
                          ![e].second = Queried({"events", "end"})]
    /\ UNCHANGED <<second, marks, asked, dump, dumps, loading, copy, refused, unwritten, harm>>

\* A purge takes the event away.
RowPurged(e) ==
    /\ row[e].st = "stored" /\ Harm
    /\ row' = [row EXCEPT ![e].st = "purged"]
    /\ UNCHANGED <<second, marks, asked, dump, dumps, loading, copy, refused, unwritten>>

---------------------------------------------------------------------------
(* edg_wll_DumpEventsServer                                                *)

EDG_WLL_DUMP_NOW == -1
EDG_WLL_DUMP_LAST_START == -2
EDG_WLL_DUMP_LAST_END == -3

\* What the tool asks for when it is given no times.
DumpRequest == [from |-> EDG_WLL_DUMP_LAST_END, to |-> EDG_WLL_DUMP_NOW]

\* A time limit, or what stands for one; the time is 0 before the first dump.
handle_specials(t) ==
    CASE t = EDG_WLL_DUMP_NOW -> second
      [] t = EDG_WLL_DUMP_LAST_START -> marks.start
      [] t = EDG_WLL_DUMP_LAST_END -> marks.end
      [] OTHER -> t

DumpBegin ==
    /\ dump.pc = "idle" /\ asked # <<>>
    /\ asked' = Tail(asked)
    /\ dump' = [pc |-> "limits", req |-> Head(asked), start |-> second, from |-> 0, to |-> 0,
                todo |-> <<>>, lines |-> <<>>]
    /\ UNCHANGED <<second, row, marks, dumps, loading, copy, refused, unwritten, harm>>

\* Mutant: the end of the window is left out.
WindowClosed(e) == row[e].st = "stored" /\ row[e].at > dump.from /\ row[e].at < dump.to

\* arrived > from and arrived <= to
Window(e) == row[e].st = "stored" /\ row[e].at > dump.from /\ row[e].at <= dump.to

\* The limits; one that is not known is an error.
DumpLimits ==
    LET from == handle_specials(dump.req.from)
        to == handle_specials(dump.req.to)
    IN  /\ dump.pc = "limits"
        /\ dump' = IF from < 0 \/ to < 0 THEN NoDump
                   ELSE [dump EXCEPT !.pc = "first", !.from = from, !.to = to]
        /\ UNCHANGED <<second, row, marks, asked, dumps, loading, copy, refused, unwritten, harm>>

\* The first query: the registrations of the subjobs.
DumpSubjobs ==
    /\ dump.pc = "first"
    /\ dump' = [dump EXCEPT !.pc = "subjobs",
                  !.todo = SetToSeq({l \in UNION {LinesFor(e) : e \in {x \in Arrivals : Window(x)}} : l.kid > 0})]
    /\ UNCHANGED <<second, row, marks, asked, dumps, loading, copy, refused, unwritten, harm>>

\* The second query: the events, in the order they arrived.
DumpEvents ==
    /\ dump.pc = "subjobs" /\ dump.todo = <<>>
    /\ dump' = [dump EXCEPT !.pc = "events",
                  !.todo = SetToSortSeq({[e |-> e, kid |-> 0] : e \in {x \in Arrivals : Window(x)}},
                                        LAMBDA x, y : row[x.e].at < row[y.e].at)]
    /\ UNCHANGED <<second, row, marks, asked, dumps, loading, copy, refused, unwritten, harm>>

\* A line is written.  One whose event a purge has deleted since is left out;
\* what the first query needs is in its own result.
DumpWrite ==
    LET l == Head(dump.todo)
        there == l.kid > 0 \/ row[l.e].st = "stored"
    IN  /\ dump.pc \in {"subjobs", "events"} /\ dump.todo # <<>>
        /\ dump' = [dump EXCEPT !.todo = Tail(@), !.lines = IF there THEN Append(@, l) ELSE @]
        /\ UNCHANGED <<second, row, marks, asked, dumps, loading, copy, refused, unwritten, harm>>

\* A dump without a file and without a time.
GivenUp(r) == [req |-> r, from |-> 0, to |-> 0, start |-> 0, end |-> 0, lines |-> <<>>]

\* A query or a write fails.  Up to the second query this ends the dump; an
\* event is left out, and the error is forgotten with the next event.
DumpWriteFails ==
    /\ Harm
    /\ \/ /\ dump.pc \in {"first", "subjobs"}
          /\ dump' = NoDump
          /\ dumps' = Append(dumps, GivenUp(dump.req))
          /\ UNCHANGED unwritten
       \/ /\ dump.pc = "events" /\ dump.todo # <<>> /\ row[Head(dump.todo).e].st = "stored"
          /\ dump' = [dump EXCEPT !.todo = Tail(@)]
          /\ unwritten' = unwritten \cup {Head(dump.todo)}
          /\ UNCHANGED dumps
    /\ UNCHANGED <<second, row, marks, asked, loading, copy, refused>>

\* Mutant: both marks are the time of the end.
DumpEndMarks ==
    /\ dump.pc = "events" /\ dump.todo = <<>>
    /\ marks' = [start |-> second, end |-> second]
    /\ dumps' = Append(dumps, [req |-> dump.req, from |-> dump.from, to |-> dump.to, start |-> dump.start,
                               end |-> second, lines |-> dump.lines])
    /\ dump' = NoDump
    /\ UNCHANGED <<second, row, asked, loading, copy, refused, unwritten, harm>>

\* The times go to the database, then the file gets its name; when that fails,
\* it is removed all the same.
DumpEnd ==
    /\ dump.pc = "events" /\ dump.todo = <<>>
    /\ marks' = [start |-> dump.start, end |-> second]
    /\ LET ended == [req |-> dump.req, from |-> dump.from, to |-> dump.to, start |-> dump.start,
                     end |-> second, lines |-> dump.lines]
       IN  \/ dumps' = Append(dumps, ended) /\ UNCHANGED <<unwritten, harm>>
           \/ /\ Harm /\ dump.lines # <<>>
              /\ dumps' = Append(dumps, [ended EXCEPT !.lines = <<>>])
              /\ unwritten' = unwritten \cup ToSet(dump.lines)
    /\ dump' = NoDump
    /\ UNCHANGED <<second, row, asked, loading, copy, refused>>

---------------------------------------------------------------------------
(* edg_wll_LoadEventsServer on the dump files, one after the other         *)

LoadBegin ==
    /\ loading.pc = "idle" /\ asked = <<>> /\ dump.pc = "idle" /\ dumps # <<>>
    /\ loading' = [pc |-> "lines", file |-> 1, lines |-> dumps[1].lines]
    /\ UNCHANGED <<second, row, marks, asked, dump, dumps, copy, refused, unwritten, harm>>

\* Mutant: event_load is not set, and the time of arrival is that of the load.
LoadedNow(l) == [line |-> l, at |-> second]

\* db_store of a loaded line keeps the time it arrived at.
Loaded(l) == [line |-> l, at |-> row[l.e].at]

\* A line is stored, unless it is there already; or db_store refuses it, and it
\* is passed over, without getting into the file of the rejected lines.
LoadLine ==
    LET l == Head(loading.lines)
    IN  /\ loading.pc = "lines" /\ loading.lines # <<>>
        /\ loading' = [loading EXCEPT !.lines = Tail(@)]
        /\ \/ /\ copy' = IF \E x \in copy : x.line = l THEN copy ELSE copy \cup {Loaded(l)}
              /\ UNCHANGED <<refused, harm>>
           \/ Harm /\ refused' = refused \cup {l} /\ UNCHANGED copy
        /\ UNCHANGED <<second, row, marks, asked, dump, dumps, unwritten>>

\* The end of a file, and the next one.
LoadNext ==
    /\ loading.pc = "lines" /\ loading.lines = <<>>
    /\ loading' = IF loading.file < Len(dumps)
                  THEN [loading EXCEPT !.file = @ + 1, !.lines = dumps[loading.file + 1].lines]
                  ELSE [pc |-> "loaded"]
    /\ UNCHANGED <<second, row, marks, asked, dump, dumps, copy, refused, unwritten, harm>>

---------------------------------------------------------------------------
DumpLoadInit(requests, faultsToCome) ==
    /\ second = 1
    /\ row = [e \in Arrivals |-> [st |-> IF requests = <<>> THEN "none" ELSE "new",
                                  at |-> 0, first |-> 0, second |-> 0]]
    /\ marks = [start |-> 0, end |-> 0]
    /\ asked = requests /\ dump = NoDump /\ dumps = <<>>
    /\ loading = NoLoad /\ copy = {} /\ refused = {} /\ unwritten = {}
    /\ harm = faultsToCome

Dumping == DumpBegin \/ DumpLimits \/ DumpSubjobs \/ DumpEvents \/ DumpWrite \/ DumpWriteFails \/ DumpEnd
Loading == LoadBegin \/ LoadLine \/ LoadNext

\* Nothing more is asked for, and everything is loaded.
DumpLoadDone == asked = <<>> /\ dump.pc = "idle" /\ (dumps = <<>> \/ loading.pc = "loaded")

DumpLoadNext ==
    /\ ~DumpLoadDone
    /\ \/ (asked # <<>> \/ dump.pc # "idle") /\ (Tick \/ \E e \in Arrivals : RowArrives(e) \/ RowCommitted(e) \/ RowPurged(e))
       \/ Dumping \/ Loading

---------------------------------------------------------------------------
\* The dumps that had made the query for the line when it was committed.
QueriesMade(l) == IF l.kid > 0 THEN row[l.e].first ELSE row[l.e].second

\* The line was committed after the query of a dump at whose beginning, or in
\* whose first second, it had arrived: no window is for it any more.
Late(l) ==
    \E k \in 1..QueriesMade(l) : row[l.e].at <= dumps[k].start

Since(t) == \A k \in 1..Len(dumps) : dumps[k].req = [from |-> t, to |-> EDG_WLL_DUMP_NOW]

\* Dumps that each begin where the one before has begun leave no event out that
\* had arrived when the last one looked at the clock, however events and dumps
\* overlap, but for those that were still being stored when a dump looked for
\* them: those have arrived before it began, or in the second it did.  (Dumps
\* that begin where the one before has ended do, and a write that fails, too.)
\* And the files, which overlap, bring each event back once, with the time it
\* had arrived at, unless it was refused.
Restorable ==
    /\ dumps # <<>> /\ Since(EDG_WLL_DUMP_LAST_START) =>
          \A e \in Arrivals : row[e].st = "stored" /\ row[e].at <= Last(dumps).to =>
              \A l \in LinesFor(e) \ unwritten :
                  \/ QueriesMade(l) >= Len(dumps)
                  \/ \E k \in 1..Len(dumps) : l \in ToSet(dumps[k].lines)
                  \/ Late(l)
    /\ \A x \in copy : x.at = row[x.line.e].at /\ \A y \in copy : y.line = x.line => y = x
    /\ loading.pc = "loaded" =>
          \A k \in 1..Len(dumps) : ToSet(dumps[k].lines) \subseteq refused \cup {x.line : x \in copy}
=============================================================================
