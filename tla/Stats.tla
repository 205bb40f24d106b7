------------------------------- MODULE Stats -------------------------------
(***************************************************************************)
(* The statistics of the bookkeeping server (stats.c): how many jobs of a  *)
(* destination enter a state, and how long it took them, in rings of cells *)
(* of growing intervals.  They are in files that all server processes map; *)
(* each process has its own table of where the group of a destination is.  *)
(*                                                                         *)
(* The lock on the file does not keep the processes apart, since they      *)
(* inherit its descriptor: updates may overlap (`raced').                  *)
(***************************************************************************)
EXTENDS Integers, Sequences, FiniteSets, FiniteSetsExt, TLC

CONSTANTS Archives,     \* sequence of [interval, length]
          Entries,      \* sequence of [type, base, final, minor]: what is counted
          Destinations, \* those that are known and not too long
          Feeders,      \* server processes
          HtabSize      \* GROUPS_HASHTABLE_SIZE

ASSUME StatsConstants ==
    \A a \in 1..Len(Archives) : Archives[a].interval > 0 /\ Archives[a].length > 0

VARIABLES
    map,     \* the groups of each entry, and their number as the file has it
    view,    \* of each process: the number of groups it knows, its table
    upd,     \* the update each process is in the middle of
    feed,    \* the state changes still to come
    done,    \* the updates made
    raced
stvars == <<map, view, upd, feed, done, raced>>

NoUpdate == [pc |-> "idle"]
Slots == 1..(2 * Cardinality(Destinations))
NoGroup == [dest |-> "none", last_update |-> 0, archive |-> <<>>]

\* All cells of a new group are invalid.
NewGroup(d, t) ==
    [dest |-> d, last_update |-> t,
     archive |-> [a \in 1..Len(Archives) |->
                    [ptr |-> 0, cells |-> [k \in 0..(Archives[a].length - 1) |-> [cnt |-> -1, value |-> 0]]]]]

---------------------------------------------------------------------------
(* Updates                                                                 *)

\* edg_wll_UpdateStatistics: the entries that the change of a state is for; the
\* end of a job has to be the one the entry is about.  A job without a destination
\* (or with too long a one) is not counted.
Applies(e, c) ==
    /\ c.dest \in Destinations /\ c.from # c.to
    /\ c.to = "DONE" => c.done_code = e.minor
    /\ CASE e.type = "COUNT" -> c.to = e.base
         [] e.type = "DURATION_FROMTO" -> c.from # "NONE" /\ c.to = e.final
         [] OTHER -> FALSE

Full(n, size) == n * 100 > size * 80

\* stats_double_htable, stats_remap: the table gets the groups that are new; while
\* it is too full it is made anew, of twice the size.
Filled(v, e, n) ==
    LET full == Full(n, v.size)
        known(k) == k > v.grpno \/ full
    IN  [grpno |-> n, size |-> Min({s \in {v.size * 2^i : i \in 0..n} : ~Full(n, s)}),
         htab |-> [d \in Destinations |->
                      IF \E k \in 1..n : known(k) /\ map[e].slots[k].dest = d
                      THEN CHOOSE k \in 1..n : known(k) /\ map[e].slots[k].dest = d
                      ELSE v.htab[d]]]

stats_remap(f, e) ==
    IF map[e].grpno # view[f][e].grpno THEN Filled(view[f][e], e, map[e].grpno) ELSE view[f][e]

\* A state change is taken up.
Begin(f) ==
    /\ upd[f].pc = "idle" /\ feed # <<>>
    /\ feed' = Tail(feed)
    /\ upd' = [upd EXCEPT ![f] = [pc |-> "search", change |-> Head(feed), e |-> 1, at |-> 0]]
    /\ raced' = (raced \/ \E g \in Feeders \ {f} : upd[g].pc # "idle")
    /\ UNCHANGED <<map, view, done>>

Advance(u) == IF u.e < Len(Entries) THEN [u EXCEPT !.e = @ + 1, !.pc = "search"] ELSE NoUpdate

\* stats_search_existing_group, after the file has been mapped again if somebody
\* has changed its size.
Search(f) ==
    LET u == upd[f]
        v == stats_remap(f, u.e)
        at == v.htab[u.change.dest]
    IN  /\ u.pc = "search"
        /\ IF Applies(Entries[u.e], u.change)
           THEN /\ view' = [view EXCEPT ![f][u.e] = v]
                /\ upd' = [upd EXCEPT ![f].at = at, ![f].pc = IF at = 0 THEN "alloc" ELSE "count"]
           ELSE UNCHANGED view /\ upd' = [upd EXCEPT ![f] = Advance(u)]
        /\ UNCHANGED <<map, feed, done, raced>>

\* stats_search_group: the file gets one more group, whose number is one more
\* than this process knows of.
Alloc(f) ==
    LET u == upd[f]
        v == view[f][u.e]
        n == v.grpno + 1
    IN  /\ u.pc = "alloc"
        /\ map' = [map EXCEPT ![u.e].grpno = @ + 1,
                              ![u.e].slots[n] = NewGroup(u.change.dest, u.change.time)]
        /\ view' = [view EXCEPT ![f][u.e] = [grpno |-> n, size |-> IF Full(n, v.size) THEN v.size * 2 ELSE v.size,
                                             htab |-> [v.htab EXCEPT ![u.change.dest] = n]]]
        /\ upd' = [upd EXCEPT ![f].at = n, ![f].pc = "count"]
        /\ UNCHANGED <<feed, done, raced>>

\* Mutant: one interval more is taken for untouched.
MovedFar(arc, a, last, now) ==
    LET I == Archives[a].interval
        L == Archives[a].length
        steps == Cardinality({k \in 1..L : last + k * I < now})
        at == (arc.ptr + steps) % L
    IN  [ptr |-> at, cells |-> [k \in 0..(L - 1) |->
            IF \E s \in 1..steps : k = (arc.ptr + s) % L THEN [arc.cells[k] EXCEPT !.cnt = 0]
            ELSE arc.cells[k]]]

\* The ring is brought up to the time now: the cells of the intervals between
\* are cleared, all of them after a long time.  Only the counts are.
Moved(arc, a, last, now) ==
    LET I == Archives[a].interval
        L == Archives[a].length
        pt == last - (last % I)
        steps == Cardinality({k \in 1..L : pt + k * I < now})
        at == (arc.ptr + steps) % L
        clear(S) == [k \in 0..(L - 1) |-> IF k \in S THEN [arc.cells[k] EXCEPT !.cnt = 0] ELSE arc.cells[k]]
    IN  IF now - pt > I * L THEN [ptr |-> 0, cells |-> clear(0..(L - 1))]
        ELSE [ptr |-> at, cells |-> clear({(arc.ptr + s) % L : s \in 1..steps})]

\* One more in the newest cell, which is validated.
Hit(arc, dur) ==
    [arc EXCEPT !.cells[arc.ptr] = [cnt |-> IF @.cnt < 0 THEN 1 ELSE @.cnt + 1, value |-> @.value + dur]]

\* stats_inc_counter and stats_record_duration_fromto.  A change whose earlier
\* time is not known is not counted, but it moves the time of the group.
Count(f) ==
    LET u == upd[f]
        c == u.change
        counts == Entries[u.e].type = "COUNT" \/ (c.since > 0 /\ c.time > c.since)
        dur == IF Entries[u.e].type = "COUNT" THEN 0 ELSE c.time - c.since
    IN  /\ u.pc = "count"
        /\ map' = [map EXCEPT ![u.e].slots[u.at] =
                     [@ EXCEPT !.last_update = c.time,
                               !.archive = IF ~counts THEN @
                                           ELSE [a \in 1..Len(Archives) |->
                                                    Hit(Moved(@[a], a, map[u.e].slots[u.at].last_update, c.time), dur)]]]
        /\ done' = Append(done, [e |-> u.e, dest |-> c.dest, time |-> c.time, dur |-> dur, counts |-> counts])
        /\ upd' = [upd EXCEPT ![f] = Advance(u)]
        /\ UNCHANGED <<view, feed, raced>>

---------------------------------------------------------------------------
(* Queries                                                                 *)

\* The time an archive of the group begins at, and the one it ends at.
Begins(g, a) ==
    g.last_update - (g.last_update % Archives[a].interval)
        - Archives[a].interval * (Archives[a].length - 1)
Ends(g, a) == Begins(g, a) + Archives[a].interval * Archives[a].length

Overlap(g, a, from, to) == Min({Ends(g, a), to}) - Max({Begins(g, a), from})

\* The first archive with the largest part of the time asked for; 0: none.
BestMatch(g, from, to) ==
    LET best == {a \in 1..Len(Archives) :
                    /\ Overlap(g, a, from, to) > 0
                    /\ \A b \in 1..Len(Archives) : Overlap(g, b, from, to) <= Overlap(g, a, from, to)}
    IN  IF best = {} THEN 0 ELSE Min(best)

\* How much of the cell that begins at t is asked for.  (When the time asked
\* for ends within the cell, it is the part after that.)
Share(t, I, from, to) ==
    CASE from >= t /\ to < t + I -> to - from
      [] from < t /\ to >= t + I -> I
      [] from >= t /\ from < t + I -> t + I - from
      [] to >= t /\ to < t + I -> t + I - to
      [] OTHER -> 0

\* The cells looked at: from the oldest one to the one the time ends in.
Looked(g, a, from, to) ==
    LET t(j) == Begins(g, a) + j * Archives[a].interval
    IN  {j \in 0..(Archives[a].length - 1) :
            /\ \A k \in 0..(j - 1) : ~(to >= t(k) /\ to < t(k) + Archives[a].interval)
            /\ g.archive[a].cells[(g.archive[a].ptr + j + 1) % Archives[a].length].cnt >= 0}

\* The sum of the fractions num(j) / den(j), as a fraction.
SumOfFractions(num(_), den(_), S) ==
    LET D == MapThenFoldSet(LAMBDA x, y : x * y, 1, den, LAMBDA T : CHOOSE j \in T : TRUE, S)
    IN  [num |-> MapThenSumSet(LAMBDA j : num(j) * (D \div den(j)), S), den |-> D]

Divided(q, n) == [q EXCEPT !.den = @ * n]
SameFraction(q, r) == q.num * r.den = r.num * q.den

\* stateRateRequest and stateDurationFromToRequest, from the archive a: the time
\* that jobs were counted in, how many of them there were in a second of it, and the
\* mean of their durations, which is that of the cells' means.  (The code computes
\* with floating point numbers.)
Request(g, a, from0, to0) ==
    LET I == Archives[a].interval
        from == Max({Begins(g, a), from0})
        to == Min({Ends(g, a), to0})
        cell(j) == g.archive[a].cells[(g.archive[a].ptr + j + 1) % Archives[a].length]
        diff(j) == Share(Begins(g, a) + j * I, I, from, to)
        S == Looked(g, a, from, to)
        match == MapThenSumSet(diff, S)
        over == IF match > 0 THEN match ELSE 1
    IN  [match |-> match,
         rate |-> Divided(SumOfFractions(LAMBDA j : cell(j).cnt * diff(j), LAMBDA j : I, S), over),
         duration |-> Divided(SumOfFractions(LAMBDA j : cell(j).value * diff(j), LAMBDA j : cell(j).cnt,
                                          {j \in S : cell(j).cnt > 0}), over)]

\* edg_wll_StateRateServer, edg_wll_StateDurationFromToServer: a process that is
\* asked maps the file again, too.
Ask(f) ==
    /\ upd[f].pc = "idle"
    /\ \E e \in 1..Len(Entries) :
          /\ map[e].grpno # view[f][e].grpno
          /\ view' = [view EXCEPT ![f][e] = stats_remap(f, e)]
    /\ UNCHANGED <<map, upd, feed, done, raced>>

---------------------------------------------------------------------------
\* edg_wll_InitStatistics
StatsInit(changes) ==
    /\ map = [e \in 1..Len(Entries) |-> [grpno |-> 0, slots |-> [k \in Slots |-> NoGroup]]]
    /\ view = [f \in Feeders |-> [e \in 1..Len(Entries) |->
                 [grpno |-> 0, size |-> HtabSize, htab |-> [d \in Destinations |-> 0]]]]
    /\ upd = [f \in Feeders |-> NoUpdate]
    /\ feed = changes /\ done = <<>> /\ raced = FALSE

StatsNext == \E f \in Feeders : Begin(f) \/ Search(f) \/ Alloc(f) \/ Count(f) \/ Ask(f)

---------------------------------------------------------------------------
\* The updates of an entry for a destination.
Of(e, d) == SelectSeq(done, LAMBDA x : x.e = e /\ x.dest = d)

\* The statistics' time goes on, and no time is the first of an interval: the
\* code counts such a one with the interval before.
Orderly(e, d) ==
    LET s == Of(e, d)
    IN  /\ \A k \in 1..Len(s) : s[k].counts
        /\ \A k \in 1..(Len(s) - 1) : s[k].time <= s[k + 1].time
        /\ \A k \in 2..Len(s) : \A a \in 1..Len(Archives) : s[k].time % Archives[a].interval # 0

Between(e, d, from, to) ==
    LET s == Of(e, d) IN {k \in 1..Len(s) : s[k].time >= from /\ s[k].time < to}

\* The mean over the intervals [t, t + I) of what the jobs of each took; one without
\* jobs counts as if they had taken no time.
MeanOfMeans(e, d, I, from, to, match) ==
    LET s == Of(e, d)
        in(t) == Between(e, d, t, t + I)
        used == {t \in {from + n * I : n \in 0..(to - from)} : t < to /\ in(t) # {}}
    IN  Divided(SumOfFractions(LAMBDA t : I * MapThenSumSet(LAMBDA k : s[k].dur, in(t)),
                            LAMBDA t : Cardinality(in(t)), used), match)

\* As long as no two updates have overlapped: every process finds the group of a
\* destination that any process has counted, as soon as it looks; and the answer for
\* a time that begins with an interval and is not over yet is the number of jobs in
\* that time over the time they were counted in, and the mean of the intervals'
\* mean durations, until a cell is used again.
StatsRight ==
    ~raced => \A e \in 1..Len(Entries), d \in Destinations :
        LET at == {k \in Slots : map[e].slots[k].dest = d}
        IN  /\ Cardinality(at) <= 1
            /\ \A f \in Feeders : stats_remap(f, e).htab[d] = IF at = {} THEN 0 ELSE Max(at)
            /\ Of(e, d) # <<>> /\ Orderly(e, d) /\ (\A f \in Feeders : upd[f].pc = "idle") =>
                 LET g == map[e].slots[Max(at)]
                     s == Of(e, d)
                     to == Max({Ends(g, a) : a \in 1..Len(Archives)})
                 IN  \A a \in 1..Len(Archives) : \A j \in 0..(Archives[a].length - 1) :
                        LET from == Begins(g, a) + j * Archives[a].interval
                            q == Request(g, a, from, to)
                        IN  BestMatch(g, from, to) = a =>
                              /\ q.match > 0
                              /\ SameFraction(q.rate, [num |-> Cardinality(Between(e, d, from, to)), den |-> q.match])
                              /\ s[1].time >= Begins(g, a) =>
                                   SameFraction(q.duration, MeanOfMeans(e, d, Archives[a].interval, from, Ends(g, a), q.match))
=============================================================================
