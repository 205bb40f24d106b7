------------------------- MODULE BookkeepingProofs -------------------------
(***************************************************************************)
(* The events in the bookkeeping server's database, for any number of jobs, *)
(* server processes, requests and lost connections.                         *)
(***************************************************************************)
EXTENDS Bookkeeping, FiniteSetTheorems, TLAPS

-----------------------------------------------------------------------------
(* The inductive invariant.                                                 *)

\* The rows of table events that the transaction r has inserted for the job i.
InsOf(r, i) == {x.row : x \in {y \in r.ins : y.job = i}}

\* The number of events of i in the database d.
Base(d, i) == IF d.jobs[i] < 0 THEN 0 ELSE d.jobs[i]

\* What the transaction r does to the job i: nothing, or one event more, which
\* has the next number and is not there yet.
Pending(d, r, i) ==
    \/ InsOf(r, i) = {} /\ r.view.jobs[i] = Base(d, i)
    \/ /\ r.view.jobs[i] = Base(d, i) + 1
       /\ \E x \in InsOf(r, i) : InsOf(r, i) = {x} /\ x.n = Base(d, i) /\ Header(x.ev) \notin HeadersIn(d, i)

\* The view v of an earlier snapshot, of a job P that was there then.
Earlier(v, d, P) ==
    v.states[P] # NoRow =>
        /\ 0 <= v.jobs[P] /\ v.jobs[P] <= d.jobs[P]
        /\ v.events[P] \subseteq d.events[P]
        /\ {x.n : x \in v.events[P]} = 0..(v.jobs[P] - 1)

\* A transaction that stores an event, once its own row is locked.
Storing(d, r) ==
    LET j == r.req.job
    IN  /\ Tables(r.view)
        /\ r.lock \subseteq Jobs /\ r.shared \subseteq Jobs /\ r.wr \subseteq r.lock \cup r.shared
        /\ \A i \in r.wr : r.view.jobs[i] >= 0
        /\ r.subs \subseteq Sub(j) /\ r.subs \cap r.wr = {}
        /\ r.hist \subseteq r.lock /\ \A i \in r.hist : d.jobs[i] >= 0
        /\ \A i \in r.shared : d.jobs[i] >= 0
        /\ \A x \in r.ins : x.job \in r.wr \cap r.lock
        /\ \A i \in r.wr \ d.purged : Pending(d, r, i)
        /\ ~r.lost /\ j \notin d.purged =>
              Header(r.req.ev) \in HeadersIn(d, j) \/ \E x \in InsOf(r, j) : Header(x.ev) = Header(r.req.ev)

\* ... and has come to its collection.
AtParent(d, r) ==
    LET j == r.req.job
        P == Parent[j]
    IN  /\ P \in Jobs
        /\ r.wr = {j} /\ r.lock = {j} /\ r.hist = {} /\ r.shared = {}
        /\ \A i \in Jobs : r.view.jobs[i] >= -1
        /\ P \notin d.purged => Earlier(r.view, d, P)

\* Nothing is locked or written.
Fresh(r) ==
    r.lock = {} /\ r.shared = {} /\ r.wr = {} /\ r.hist = {} /\ r.ins = {} /\ r.subs = {}

Pcs == {"idle", "begin", "insert", "parent", "subs", "status", "upgrade", "commit", "pass", "purge",
        "delete", "states", "zombie", "events", "remove"}

\* What a server process is doing, pp being the purge it is in.
Own(d, r, pp) ==
    LET j == r.req.job
    IN  /\ DOMAIN r = DOMAIN Idle /\ r.pc \in Pcs
        /\ r.pc = "idle" => r = Idle
        /\ r.pc \notin {"idle", "pass"} => j \in Jobs
        /\ r.pc # "idle" /\ r.req.kind = "purge" => pp # NoPass
        /\ r.pc \in {"begin", "insert", "parent", "subs"} => r.req.kind = "store"
        /\ r.pc \in {"status", "upgrade"} => r.req.kind \in {"status", "purge"}
        /\ r.pc = "commit" => r.req.kind \in {"store", "status", "purge"}
        /\ r.pc \in {"pass", "purge", "delete", "states", "zombie", "events", "remove"} => r.req.kind = "purge"
        /\ r.pc \in {"begin", "status", "pass", "purge", "delete", "states", "zombie"} => Fresh(r)
        /\ r.pc # "insert" => r.gap = {}
        /\ r.pc = "insert" => Fresh(r) /\ r.gap = {j} /\ d.jobs[j] < 0
        /\ r.pc = "upgrade" =>
              /\ r.shared = {j} /\ d.jobs[j] >= 0
              /\ r.lock = {} /\ r.wr = {} /\ r.hist = {} /\ r.ins = {}
        /\ r.pc \in {"events", "remove"} => r.lock \subseteq {j} /\ r.shared = {} /\ r.wr = {} /\ r.hist = {}
        /\ r.pc = "remove" => r.lock = {}
        /\ r.pc \in {"states", "zombie", "remove"} \/ (r.pc = "events" /\ r.lock = {}) => j \in d.purged
        /\ r.pc = "events" /\ r.lock # {} => pp.req.dump
        /\ r.pc = "commit" /\ r.req.kind # "store" =>
              /\ r.wr = {j} /\ r.lock = {j} /\ r.shared = {} /\ r.hist = {} /\ r.ins = {}
              /\ d.jobs[j] >= 0
        /\ r.pc \in {"parent", "subs"} \/ (r.pc = "commit" /\ r.req.kind = "store") => Storing(d, r)
        /\ r.pc = "parent" => AtParent(d, r)
        /\ r.pc = "subs" => r.subs # {}

\* The locks of two server processes.
Apart(r, s) ==
    /\ r.lock \cap (s.lock \cup s.shared) = {}
    /\ r.gap \cap (s.lock \cup s.shared) = {}

\* What is acknowledged is stored.
Kept(d, A) ==
    \A r \in A : r.kind = "store" =>
        /\ r.job \in Jobs
        /\ r.job \notin d.purged /\ r \notin d.dropped => Header(r.ev) \in HeadersIn(d, r.job)

\* A purge has jobs of the database to look at.
Todo(pp) ==
    pp # NoPass => /\ DOMAIN pp = {"req", "id", "file", "kids", "abort", "todo"}
                   /\ pp.todo \subseteq Jobs /\ pp.kids \subseteq Jobs

Inv ==
    /\ Sound(db)
    /\ DOMAIN w = Workers /\ DOMAIN pass = Workers
    /\ \A p \in Workers : Own(db, w[p], pass[p]) /\ Todo(pass[p])
    /\ \A p, q \in Workers : p # q => Apart(w[p], w[q])
    /\ \A r \in inbox : Proper(r)
    /\ Kept(db, acked)

-----------------------------------------------------------------------------
(* What the invariant says of the events.                                   *)

\* As many events as there are numbers.
LEMMA NumberedCount ==
  ASSUME NEW E, NEW k \in Nat, Numbered(E, k)
  PROVE  Cardinality(E) = k /\ Cardinality({Header(x.ev) : x \in E}) = k
<1> DEFINE N == 0..(k - 1)
           V == {Header(x.ev) : x \in E}
           f == [x \in E |-> x.n]
           g == [x \in E |-> Header(x.ev)]
<1>1. IsFiniteSet(N) /\ Cardinality(N) = k
  BY FS_Interval
<1>2. \A x \in E : x.n \in N
  BY DEF Numbered
<1>3. \A m \in N : \E x \in E : x.n = m
  BY DEF Numbered
<1>4. f \in Bijection(E, N)
  <2>1. f \in [E -> N]
    BY <1>2
  <2>2. \A x, y \in E : f[x] = f[y] => x = y
    BY DEF Numbered
  <2>3. \A m \in N : \E x \in E : f[x] = m
    BY <1>3
  <2> HIDE DEF f, N
  <2> QED BY <2>1, <2>2, <2>3 DEF Bijection, Injection, Surjection, IsInjective
<1>5. g \in Bijection(E, V)
  <2>1. g \in [E -> V]
    OBVIOUS
  <2>2. \A x, y \in E : g[x] = g[y] => x = y
    BY DEF Numbered
  <2>3. \A m \in V : \E x \in E : g[x] = m
    OBVIOUS
  <2> HIDE DEF g, V
  <2> QED BY <2>1, <2>2, <2>3 DEF Bijection, Injection, Surjection, IsInjective
<1> HIDE DEF N, V, f, g
<1>6. f \in Injection(E, N) /\ f \in Surjection(E, N) /\ g \in Injection(E, V) /\ g \in Surjection(E, V)
  BY <1>4, <1>5 DEF Bijection
<1>7. IsFiniteSet(E) /\ Cardinality(E) = Cardinality(N)
  BY <1>1, <1>6, FS_Injection
<1>8. Cardinality(V) = Cardinality(E)
  BY <1>6, <1>7, FS_Surjection
<1> QED BY <1>1, <1>7, <1>8 DEF V

LEMMA InvEvents == Inv => EventsIntact
<1> SUFFICES ASSUME Inv PROVE EventsIntact
  OBVIOUS
<1>1. Sound(db) /\ Kept(db, acked)
  BY DEF Inv
<1>2. ASSUME NEW j \in Jobs, Whole(j)
      PROVE  /\ {x.n : x \in db.events[j]} = 0..(db.jobs[j] - 1)
             /\ Cardinality(db.events[j]) = db.jobs[j]
             /\ Cardinality(HeadersIn(db, j)) = db.jobs[j]
  <2>1. Numbered(db.events[j], db.jobs[j]) /\ db.jobs[j] \in Nat
    BY <1>1, <1>2 DEF Sound, Tables, Whole, Purged
  <2>2. {x.n : x \in db.events[j]} = 0..(db.jobs[j] - 1)
    BY <2>1 DEF Numbered
  <2> QED BY <2>1, <2>2, NumberedCount DEF HeadersIn
<1>3. ASSUME NEW r \in acked, r.kind = "store", ~Purged(r.job), r \notin db.dropped
      PROVE  Header(r.ev) \in HeadersIn(db, r.job)
  BY <1>1, <1>3 DEF Kept, Purged
<1> QED BY <1>2, <1>3 DEF EventsIntact

-----------------------------------------------------------------------------
(* A step of one process, as the others see it.                             *)

\* The database e follows d, and what the process r has locked is as it was.
Fits(d, e, r) ==
    /\ d.purged \subseteq e.purged
    /\ \A i \in r.lock : e.jobs[i] = d.jobs[i]
    /\ \A i \in r.gap : e.jobs[i] < 0
    /\ \A i \in r.shared : e.jobs[i] >= 0
    /\ \A i \in r.lock \cup r.shared : i \notin e.purged => e.jobs[i] = d.jobs[i] /\ e.events[i] = d.events[i]
    /\ \A i \in Jobs : i \notin e.purged => d.jobs[i] <= e.jobs[i] /\ d.events[i] \subseteq e.events[i]

LEMMA EventsGrow ==
  ASSUME NEW d, NEW e, NEW i, d.events[i] \subseteq e.events[i]
  PROVE  HeadersIn(d, i) \subseteq HeadersIn(e, i)
  BY DEF HeadersIn

LEMMA StoringKept ==
  ASSUME NEW d, NEW e, NEW r, Fits(d, e, r), Storing(d, r), r.req.job \in Jobs
  PROVE  Storing(e, r)
<1> DEFINE j == r.req.job
<1>1. \A i \in r.hist : e.jobs[i] >= 0
  BY DEF Fits, Storing
<1>2. \A i \in r.shared : e.jobs[i] >= 0
  BY DEF Fits
<1>3. ASSUME NEW i \in r.wr \ e.purged PROVE Pending(e, r, i)
  <2>1. Pending(d, r, i) /\ i \in r.lock \cup r.shared
    BY DEF Fits, Storing
  <2>2. e.jobs[i] = d.jobs[i] /\ e.events[i] = d.events[i]
    BY <2>1 DEF Fits
  <2>3. Base(e, i) = Base(d, i) /\ HeadersIn(e, i) = HeadersIn(d, i)
    BY <2>2 DEF Base, HeadersIn
  <2> QED BY <2>1, <2>3 DEF Pending
<1>4. ~r.lost /\ j \notin e.purged => Header(r.req.ev) \in HeadersIn(e, j) \/ \E x \in InsOf(r, j) : Header(x.ev) = Header(r.req.ev)
  BY EventsGrow DEF Fits, Storing
<1> QED BY <1>1, <1>2, <1>3, <1>4 DEF Storing

LEMMA EarlierKept ==
  ASSUME NEW d, NEW e, NEW r, Fits(d, e, r), AtParent(d, r), Sound(d), Sound(e), Storing(d, r)
  PROVE  AtParent(e, r)
<1> DEFINE P == Parent[r.req.job]
           v == r.view
<1>1. P \in Jobs /\ (P \notin e.purged => Earlier(v, d, P))
  BY DEF AtParent, Fits
<1>2. P \notin e.purged => d.jobs[P] <= e.jobs[P] /\ d.events[P] \subseteq e.events[P]
  BY <1>1 DEF Fits
<1>3. d.jobs[P] \in Int /\ e.jobs[P] \in Int /\ v.jobs[P] \in Int
  BY <1>1 DEF Sound, Storing, Tables
<1>4. P \notin e.purged => Earlier(v, e, P)
  <2> SUFFICES ASSUME P \notin e.purged, v.states[P] # NoRow
               PROVE  /\ 0 <= v.jobs[P] /\ v.jobs[P] <= e.jobs[P] /\ v.events[P] \subseteq e.events[P]
                      /\ {x.n : x \in v.events[P]} = 0..(v.jobs[P] - 1)
    BY DEF Earlier
  <2>1. /\ 0 <= v.jobs[P] /\ v.jobs[P] <= d.jobs[P] /\ v.events[P] \subseteq d.events[P]
        /\ {x.n : x \in v.events[P]} = 0..(v.jobs[P] - 1)
    BY <1>1 DEF Earlier
  <2>2. d.jobs[P] <= e.jobs[P] /\ d.events[P] \subseteq e.events[P]
    BY <1>2
  <2> HIDE DEF P, v
  <2>3. v.jobs[P] <= e.jobs[P]
    BY <1>3, <2>1, <2>2
  <2> QED BY <2>1, <2>2, <2>3
<1> QED BY <1>4 DEF AtParent

LEMMA OwnKept ==
  ASSUME NEW d, NEW e, NEW r, NEW pp, Fits(d, e, r), Own(d, r, pp), Sound(d), Sound(e)
  PROVE  Own(e, r, pp)
<1>1. r.pc \in {"parent", "subs"} \/ (r.pc = "commit" /\ r.req.kind = "store") => Storing(e, r)
  BY StoringKept DEF Own
<1>2. r.pc = "parent" => AtParent(e, r)
  BY EarlierKept DEF Own
<1>3. r.pc = "insert" => e.jobs[r.req.job] < 0
  BY DEF Own, Fits
<1>4. r.pc = "upgrade" => e.jobs[r.req.job] >= 0
  BY DEF Own, Fits
<1>5. r.pc = "commit" /\ r.req.kind # "store" => e.jobs[r.req.job] >= 0
  BY DEF Own, Fits
<1>6. r.req.job \in d.purged => r.req.job \in e.purged
  BY DEF Fits
<1> QED BY <1>1, <1>2, <1>3, <1>4, <1>5, <1>6 DEF Own

\* The step of p keeps the invariant when it does so for p, and for the rows.
LEMMA Step ==
  ASSUME Inv, NEW p \in Workers,
         DOMAIN w' = Workers, \A q \in Workers \ {p} : w'[q] = w[q],
         DOMAIN pass' = Workers, \A q \in Workers \ {p} : pass'[q] = pass[q],
         Sound(db'), \A q \in Workers \ {p} : Fits(db, db', w[q]),
         Own(db', w'[p], pass'[p]), Todo(pass'[p]),
         \A q \in Workers \ {p} : Apart(w'[p], w[q]) /\ Apart(w[q], w'[p]),
         \A r \in inbox' : Proper(r), Kept(db', acked')
  PROVE  Inv'
<1>1. ASSUME NEW q \in Workers PROVE Own(db', w'[q], pass'[q]) /\ Todo(pass'[q])
  <2>1. CASE q = p
    BY <2>1
  <2>2. CASE q # p
    <3>1. w'[q] = w[q] /\ pass'[q] = pass[q] /\ Fits(db, db', w[q])
      BY <2>2
    <3>2. Own(db, w[q], pass[q]) /\ Todo(pass[q]) /\ Sound(db)
      BY DEF Inv
    <3> QED BY <3>1, <3>2, OwnKept
  <2> QED BY <2>1, <2>2
<1>2. ASSUME NEW a \in Workers, NEW b \in Workers, a # b PROVE Apart(w'[a], w'[b])
  <2>1. CASE a = p
    <3>1. w'[b] = w[b]
      BY <1>2, <2>1
    <3> QED BY <1>2, <2>1, <3>1
  <2>2. CASE b = p
    <3>1. w'[a] = w[a]
      BY <1>2, <2>2
    <3> QED BY <1>2, <2>2, <3>1
  <2>3. CASE a # p /\ b # p
    <3>1. w'[a] = w[a] /\ w'[b] = w[b]
      BY <2>3
    <3> QED BY <1>2, <3>1 DEF Inv
  <2> QED BY <2>1, <2>2, <2>3
<1> QED BY <1>1, <1>2 DEF Inv

LEMMA FitsSame ==
  ASSUME Inv, NEW q \in Workers
  PROVE  Fits(db, db, w[q])
<1>1. Own(db, w[q], pass[q]) /\ Sound(db)
  BY DEF Inv
<1>2. w[q].pc # "insert" => w[q].gap = {}
  BY <1>1 DEF Own
<1>3. \A i \in w[q].gap : db.jobs[i] < 0
  BY <1>1 DEF Own
<1>4. \A i \in w[q].shared : db.jobs[i] >= 0
  BY <1>1 DEF Own, Fresh, Storing, Idle, Pcs
<1>5. \A i \in Jobs : db.jobs[i] \in Int
  BY <1>1 DEF Sound, Tables
<1> QED BY <1>3, <1>4, <1>5 DEF Fits

\* A step of p that leaves the database alone.
LEMMA Still ==
  ASSUME Inv, NEW p \in Workers, db' = db, acked' = acked,
         DOMAIN w' = Workers, \A q \in Workers \ {p} : w'[q] = w[q],
         DOMAIN pass' = Workers, \A q \in Workers \ {p} : pass'[q] = pass[q],
         Own(db, w'[p], pass'[p]), Todo(pass'[p]),
         \A q \in Workers \ {p} : Apart(w'[p], w[q]) /\ Apart(w[q], w'[p]),
         \A r \in inbox' : Proper(r)
  PROVE  Inv'
<1>1. Sound(db) /\ Kept(db, acked)
  BY DEF Inv
<1>2. \A q \in Workers \ {p} : Fits(db, db, w[q])
  BY FitsSame
<1> QED BY <1>1, <1>2, Step

\* A process that gives its locks back, and one that keeps them.
LEMMA ApartFree ==
  ASSUME NEW r, NEW s, s.lock = {}, s.shared = {}, s.gap = {}
  PROVE  Apart(s, r) /\ Apart(r, s)
  BY DEF Apart

LEMMA ApartMore ==
  ASSUME NEW r, NEW s, NEW t, Apart(r, t), Apart(t, r), NEW L, NEW S, NEW G,
         s.lock \subseteq r.lock \cup L, s.shared \subseteq r.shared \cup S, s.gap \subseteq r.gap \cup G,
         L \cap (t.lock \cup t.shared \cup t.gap) = {}, S \cap (t.lock \cup t.gap) = {},
         G \cap (t.lock \cup t.shared) = {}
  PROVE  Apart(s, t) /\ Apart(t, s)
  BY DEF Apart

\* What a lock that is granted says of the others.
LEMMA GrantedFree ==
  ASSUME Inv, NEW p \in Workers, w[p].pc # "idle", Granted(p), NEW j \in Jobs, NEW m,
         Wants(p) = [job |-> j, mode |-> m], NEW q \in Workers \ {p}
  PROVE  /\ j \notin w[q].lock
         /\ m = "X" => j \notin w[q].shared
         /\ m = "I" => j \notin w[q].gap
         /\ db.jobs[j] >= 0 => j \notin w[q].gap
         /\ db.jobs[j] < 0 => j \notin w[q].shared
<1>1. j # None
  BY JobsAssumption
<1>2. Blockers(p, j, m) = {}
  BY <1>1 DEF Granted, WaitsFor
<1>3. q \in Others(p)
  BY DEF Others
<1>4. Fits(db, db, w[q])
  BY FitsSame
<1>5. db.jobs[j] \in Int
  BY DEF Inv, Sound, Tables
<1> QED BY <1>2, <1>3, <1>4, <1>5 DEF Blockers, Fits

-----------------------------------------------------------------------------
(* The steps of a process that leave the database alone.                    *)

LEMMA IdleFields ==
  /\ DOMAIN Idle = {"pc", "req", "view", "wr", "hist", "ins", "lock", "shared", "gap", "old", "new",
                    "reg", "subs", "lost", "ask", "err"}
  /\ Idle.pc = "idle" /\ Fresh(Idle) /\ Idle.gap = {} /\ Idle.subs = {}
  BY DEF Idle, Fresh

\* A process that does nothing, and one that has just begun, has no locks.
LEMMA OwnFresh ==
  ASSUME NEW d, NEW r, NEW pp, DOMAIN r = DOMAIN Idle, Fresh(r), r.gap = {},
         r = Idle \/ r.req.kind # "purge" \/ pp # NoPass,
         \/ r = Idle
         \/ r.pc = "pass" /\ r.req.kind = "purge"
         \/ r.pc = "begin" /\ r.req.kind = "store" /\ r.req.job \in Jobs
         \/ r.pc = "status" /\ r.req.kind \in {"status", "purge"} /\ r.req.job \in Jobs
         \/ r.pc \in {"purge", "delete"} /\ r.req.kind = "purge" /\ r.req.job \in Jobs
         \/ r.pc \in {"states", "zombie"} /\ r.req.kind = "purge" /\ r.req.job \in Jobs /\ r.req.job \in d.purged
  PROVE  Own(d, r, pp)
  BY IdleFields DEF Own, Pcs

\* A step to such a state.
LEMMA ToFresh ==
  ASSUME Inv, NEW p \in Workers, db' = db, acked' = acked, UNCHANGED pass \/ Todo(pass'[p]),
         DOMAIN w' = Workers, \A q \in Workers \ {p} : w'[q] = w[q],
         DOMAIN pass' = Workers, \A q \in Workers \ {p} : pass'[q] = pass[q],
         Own(db, w'[p], pass'[p]), Fresh(w'[p]), w'[p].gap = {},
         \A r \in inbox' : Proper(r)
  PROVE  Inv'
<1>1. \A q \in Workers \ {p} : Apart(w'[p], w[q]) /\ Apart(w[q], w'[p])
  BY ApartFree DEF Fresh
<1>2. Todo(pass'[p])
  BY DEF Inv
<1> QED BY <1>1, <1>2, Still

LEMMA RefuseStep ==
  ASSUME Inv, NEW p \in Workers, w[p].pc # "idle", NEW err, Refuse(p, err), UNCHANGED pass
  PROVE  Inv'
<1>1. DOMAIN w = Workers /\ DOMAIN pass = Workers
  BY DEF Inv
<1>2. \/ w'[p] = Idle
      \/ w[p].req.kind = "purge" /\ w'[p] = [Idle EXCEPT !.pc = "pass", !.req = w[p].req, !.ask = w[p].ask, !.err = err]
  BY <1>1 DEF Refuse
<1>3. /\ DOMAIN w' = Workers /\ \A q \in Workers \ {p} : w'[q] = w[q]
      /\ db' = db /\ acked' = acked /\ inbox' = inbox
  BY <1>1 DEF Refuse
<1>4. /\ DOMAIN w'[p] = DOMAIN Idle /\ Fresh(w'[p]) /\ w'[p].gap = {}
      /\ \/ w'[p] = Idle
         \/ w'[p].pc = "pass" /\ w[p].req.kind = "purge" /\ w'[p].req = w[p].req
  BY <1>2, IdleFields DEF Fresh
<1>5. w[p].req.kind = "purge" => pass'[p] # NoPass
  BY DEF Inv, Own
<1>6. Own(db, w'[p], pass'[p])
  BY <1>4, <1>5, OwnFresh
<1> QED BY <1>1, <1>3, <1>4, <1>6, ToFresh DEF Inv

LEMMA TakeStep ==
  ASSUME Inv, NEW p \in Workers, NEW r \in inbox, Take(p, r), UNCHANGED pass
  PROVE  Inv'
<1>1. DOMAIN w = Workers /\ DOMAIN pass = Workers /\ Proper(r) /\ w[p] = Idle
  BY DEF Inv, Own, Take
<1>3. /\ DOMAIN w' = Workers /\ \A q \in Workers \ {p} : w'[q] = w[q]
      /\ db' = db /\ acked' = acked /\ inbox' = inbox \ {r}
      /\ w'[p] = [Idle EXCEPT !.req = r, !.pc = IF r.kind = "store" THEN "begin" ELSE "status"]
  BY <1>1 DEF Take
<1>4. /\ DOMAIN w'[p] = DOMAIN Idle /\ Fresh(w'[p]) /\ w'[p].gap = {} /\ w'[p].req = r
      /\ w'[p].pc = IF r.kind = "store" THEN "begin" ELSE "status"
  BY <1>3, IdleFields DEF Fresh
<1>5. r.kind \in {"store", "status"} /\ r.job \in Jobs
  BY <1>1 DEF Take, Proper
<1>6. Own(db, w'[p], pass'[p])
  BY <1>4, <1>5, OwnFresh
<1> QED BY <1>1, <1>3, <1>4, <1>6, ToFresh DEF Inv

LEMMA LockAbsentStep ==
  ASSUME Inv, NEW p \in Workers, LockAbsent(p), UNCHANGED pass
  PROVE  Inv'
<1> DEFINE j == w[p].req.job
<1>1. /\ DOMAIN w = Workers /\ DOMAIN pass = Workers /\ Own(db, w[p], pass[p]) /\ Todo(pass[p])
      /\ w[p].pc = "begin" /\ Granted(p) /\ db.jobs[j] < 0
  BY DEF Inv, LockAbsent
<1>2. DOMAIN w[p] = DOMAIN Idle /\ Fresh(w[p]) /\ w[p].gap = {} /\ j \in Jobs /\ w[p].req.kind = "store"
  BY <1>1 DEF Own
<1>3. /\ DOMAIN w' = Workers /\ \A q \in Workers \ {p} : w'[q] = w[q]
      /\ db' = db /\ acked' = acked /\ inbox' = inbox
      /\ w'[p] = [w[p] EXCEPT !.pc = "insert", !.gap = {j}]
  BY <1>1 DEF LockAbsent
<1>4. /\ DOMAIN w'[p] = DOMAIN Idle /\ Fresh(w'[p]) /\ w'[p].gap = {j} /\ w'[p].req = w[p].req
      /\ w'[p].pc = "insert"
  BY <1>2, <1>3, IdleFields DEF Fresh
<1>5. Own(db, w'[p], pass'[p])
  BY <1>1, <1>2, <1>4 DEF Own, Pcs
<1>6. Wants(p) = [job |-> j, mode |-> "X"]
  BY <1>1 DEF Wants
<1>7. ASSUME NEW q \in Workers \ {p} PROVE Apart(w'[p], w[q]) /\ Apart(w[q], w'[p])
  <2>1. j \notin w[q].lock /\ j \notin w[q].shared
    BY <1>1, <1>2, <1>6, GrantedFree
  <2> QED BY <1>4, <2>1 DEF Apart, Fresh
<1> QED BY <1>1, <1>3, <1>5, <1>7, Still DEF Inv

-----------------------------------------------------------------------------
(* The event is stored in the view of the transaction.                      *)

\* The views u and v differ in the state of the job i at most.
SameBut(u, v, i) ==
    /\ Tables(u) /\ u.jobs = v.jobs /\ u.events = v.events
    /\ \A k \in Jobs \ {i} : u.states[k] = v.states[k]

LEMMA StepStateView ==
  ASSUME NEW v, Tables(v), NEW j \in Jobs, NEW e, NEW seq, NEW s \in StepState(v, j, e, seq)
  PROVE  SameBut(s.v, v, j)
<1>1. PICK r : s.v = [v EXCEPT !.states[j] = r]
  <2>1. \E js, h, k : s.v = StoreIntState(v, j, js, h, k)
    BY DEF StepState
  <2> QED BY <2>1 DEF StoreIntState
<1> QED BY <1>1 DEF SameBut, Tables

LEMMA StoreEventView ==
  ASSUME NEW v, Tables(v), NEW j \in Jobs, NEW e
  PROVE  /\ Tables(StoreEvent(v, j, e)) /\ StoreEvent(v, j, e).states = v.states
         /\ StoreEvent(v, j, e).jobs[j] = v.jobs[j] + 1
         /\ StoreEvent(v, j, e).events[j] = v.events[j] \cup {[n |-> v.jobs[j], ev |-> e]}
         /\ \A k \in Jobs \ {j} : /\ StoreEvent(v, j, e).jobs[k] = v.jobs[k]
                                  /\ StoreEvent(v, j, e).events[k] = v.events[k]
  BY DEF StoreEvent, Tables

\* The view with the job's row, there or made.
LEMMA LockedView ==
  ASSUME NEW d, Tables(d), NEW j \in Jobs
  PROVE  /\ Tables(store_job(d, j)) /\ store_job(d, j).states = d.states
         /\ store_job(d, j).events = d.events /\ store_job(d, j).jobs[j] = 0
         /\ \A k \in Jobs \ {j} : store_job(d, j).jobs[k] = d.jobs[k]
         /\ Tables(Joined(d, j)) /\ Joined(d, j).states = d.states
         /\ Joined(d, j).events = d.events /\ Joined(d, j).jobs = d.jobs
<1>1. /\ Tables(store_job(d, j)) /\ store_job(d, j).states = d.states
      /\ store_job(d, j).events = d.events /\ store_job(d, j).jobs[j] = 0
      /\ \A k \in Jobs \ {j} : store_job(d, j).jobs[k] = d.jobs[k]
  BY DEF store_job, Tables
<1>2. /\ Tables(Joined(d, j)) /\ Joined(d, j).states = d.states
      /\ Joined(d, j).events = d.events /\ Joined(d, j).jobs = d.jobs
  BY DEF Joined, Tables
<1> QED BY <1>1, <1>2

\* The number of an event that is to be stored next is free, when no purge has
\* come to the job.
LEMMA NotTaken ==
  ASSUME Sound(db), NEW v, NEW j \in Jobs, j \notin db.purged, v.jobs[j] = Base(db, j)
  PROVE  ~Taken(v, j)
<1>1. ASSUME db.jobs[j] < 0 PROVE db.events[j] = {}
  BY <1>1 DEF Sound
<1>2. ASSUME db.jobs[j] >= 0 PROVE \A x \in db.events[j] : x.n # db.jobs[j]
  <2>1. db.jobs[j] \in Int /\ {x.n : x \in db.events[j]} = 0..(db.jobs[j] - 1)
    BY <1>2 DEF Sound, Tables, Numbered
  <2>2. \A x \in db.events[j] : x.n \in 0..(db.jobs[j] - 1)
    BY <2>1
  <2> QED BY <2>1, <2>2
<1>3. db.jobs[j] \in Int
  BY DEF Sound, Tables
<1> QED BY <1>1, <1>2, <1>3 DEF Taken, Base

\* What the view is to be when the row of j has been locked or made.
Begun(v, j) ==
    /\ Tables(v) /\ v.jobs[j] = Base(db, j) /\ v.states = db.states /\ v.events = db.events
    /\ \A k \in Jobs \ {j} : v.jobs[k] = db.jobs[k]

LEMMA StoreDuplicate ==
  ASSUME Sound(db), NEW r, NEW v, r.req.job \in Jobs, Begun(v, r.req.job),
         Duplicate(v, r.req.job, r.req.ev) \/ Taken(v, r.req.job),
         r.view = v, r.wr = {r.req.job}, r.lock = {r.req.job}, r.shared = {}, r.hist = {}, r.ins = {}, r.subs = {}
  PROVE  Storing(db, r)
<1> DEFINE j == r.req.job
<1>1. v.jobs[j] >= 0
  BY DEF Begun, Base, Sound, Tables
<1>2. \A i : InsOf(r, i) = {}
  BY DEF InsOf
<1>3. Pending(db, r, j)
  BY <1>2 DEF Pending, Begun
<1>4. j \notin db.purged => Header(r.req.ev) \in HeadersIn(db, j)
  <2>1. j \notin db.purged => ~Taken(v, j)
    BY NotTaken DEF Begun
  <2> QED BY <2>1 DEF Duplicate, HeadersIn, Begun
<1> QED BY <1>1, <1>3, <1>4 DEF Storing, Begun

LEMMA StoreNew ==
  ASSUME Sound(db), NEW r, NEW v, r.req.job \in Jobs, Begun(v, r.req.job),
         ~Duplicate(v, r.req.job, r.req.ev), SameBut(r.view, StoreEvent(v, r.req.job, r.req.ev), r.req.job),
         r.wr = {r.req.job}, r.lock = {r.req.job}, r.shared = {}, r.hist = {},
         r.ins = {[job |-> r.req.job, row |-> [n |-> v.jobs[r.req.job], ev |-> r.req.ev]]},
         r.subs \subseteq Sub(r.req.job)
  PROVE  /\ Storing(db, r)
         /\ Parent[r.req.job] # None => AtParent(db, r)
<1> DEFINE j == r.req.job
           e == r.req.ev
           u == StoreEvent(v, j, e)
           x == [n |-> v.jobs[j], ev |-> e]
           P == Parent[j]
<1>0. Tables(v) /\ v.jobs[j] \in Int /\ v.jobs[j] >= 0
  BY DEF Begun, Base, Sound, Tables
<1>1. /\ Tables(u) /\ u.states = v.states /\ u.jobs[j] = v.jobs[j] + 1
      /\ \A k \in Jobs \ {j} : u.jobs[k] = v.jobs[k] /\ u.events[k] = v.events[k]
  BY <1>0, StoreEventView
<1> HIDE DEF u
<1>2. /\ Tables(r.view) /\ r.view.jobs = u.jobs /\ r.view.events = u.events
      /\ \A k \in Jobs \ {j} : r.view.states[k] = u.states[k]
  BY DEF SameBut, u
<1>3. InsOf(r, j) = {x}
  <2> DEFINE y == [job |-> j, row |-> x]
  <2>1. r.ins = {y} /\ y.job = j /\ y.row = x
    OBVIOUS
  <2> HIDE DEF y, x
  <2>2. {z \in r.ins : z.job = j} = {y}
    BY <2>1
  <2> QED BY <2>1, <2>2 DEF InsOf
<1>4. Header(e) \notin HeadersIn(db, j)
  BY DEF Duplicate, HeadersIn, Begun
<1>5. Pending(db, r, j)
  BY <1>1, <1>2, <1>3, <1>4 DEF Pending, Begun
<1>6. j \notin r.subs
  BY JobsAssumption DEF Sub
<1>7. r.view.jobs[j] >= 0
  BY <1>0, <1>1, <1>2
<1>8. \E y \in InsOf(r, j) : Header(y.ev) = Header(r.req.ev)
  BY <1>3
<1>9. Storing(db, r)
  BY <1>2, <1>5, <1>6, <1>7, <1>8 DEF Storing
<1>10. ASSUME P # None PROVE AtParent(db, r)
  <2>1. P \in Jobs \ {j}
    BY <1>10, JobsAssumption
  <2>2. r.view.jobs[P] = db.jobs[P] /\ r.view.states[P] = db.states[P] /\ r.view.events[P] = db.events[P]
    BY <1>1, <1>2, <2>1 DEF Begun
  <2>3. \A i \in Jobs : r.view.jobs[i] >= -1
    BY <1>0, <1>1, <1>2 DEF Begun, Sound
  <2>4. P \notin db.purged => Earlier(r.view, db, P)
    <3>1. db.jobs[P] \in Int
      BY <2>1 DEF Sound, Tables
    <3> HAVE P \notin db.purged
    <3>2. db.jobs[P] >= 0 => {x0.n : x0 \in db.events[P]} = 0..(db.jobs[P] - 1)
      BY <2>1, <3>1 DEF Sound, Numbered
    <3>3. db.states[P] # NoRow => db.jobs[P] >= 0
      BY <2>1, <3>1 DEF Sound
    <3>4. ASSUME db.states[P] # NoRow
          PROVE  /\ 0 <= db.jobs[P] /\ db.jobs[P] <= db.jobs[P] /\ db.events[P] \subseteq db.events[P]
                 /\ {x0.n : x0 \in db.events[P]} = 0..(db.jobs[P] - 1)
      BY ONLY <3>1, <3>2, <3>3, <3>4
    <3> QED BY ZenonT(30), <2>2, <3>4 DEF Earlier
  <2> QED BY <2>1, <2>3, <2>4 DEF AtParent
<1> QED BY <1>9, <1>10

LEMMA StoreLockedStep ==
  ASSUME Inv, NEW p \in Workers, StoreLocked(p), UNCHANGED pass
  PROVE  Inv'
<1> DEFINE j == w[p].req.job
           e == w[p].req.ev
<1>1. /\ DOMAIN w = Workers /\ DOMAIN pass = Workers /\ Own(db, w[p], pass[p]) /\ Todo(pass[p])
      /\ Sound(db) /\ Granted(p)
      /\ (w[p].pc = "begin" /\ db.jobs[j] >= 0) \/ w[p].pc = "insert"
      /\ db' = db /\ acked' = acked /\ inbox' = inbox
  BY DEF Inv, StoreLocked
<1>2. /\ DOMAIN w[p] = DOMAIN Idle /\ Fresh(w[p]) /\ j \in Jobs /\ w[p].req.kind = "store"
      /\ w[p].pc = "begin" => w[p].gap = {}
      /\ w[p].pc = "insert" => w[p].gap = {j} /\ db.jobs[j] < 0
      /\ Tables(db)
  BY <1>1 DEF Own, Sound
<1>3. PICK v, reg : Begun(v, j) /\ Store(p, v, reg)
  <2>1. CASE w[p].pc = "insert"
    <3>1. Store(p, store_job(db, j), {j})
      BY <2>1 DEF StoreLocked
    <3>2. Begun(store_job(db, j), j)
      BY <1>2, <2>1, LockedView DEF Begun, Base
    <3> QED BY <3>1, <3>2
  <2>2. CASE w[p].pc = "begin" /\ db.jobs[j] >= 0
    <3>1. Store(p, Joined(db, j), {})
      BY <2>2 DEF StoreLocked
    <3>2. db.jobs[j] \in Int
      BY <1>2 DEF Tables
    <3>3. Base(db, j) = db.jobs[j]
      BY <2>2, <3>2 DEF Base
    <3>4. /\ Tables(Joined(db, j)) /\ Joined(db, j).states = db.states
          /\ Joined(db, j).events = db.events /\ Joined(db, j).jobs = db.jobs
      BY <1>2, LockedView
    <3>5. Begun(Joined(db, j), j)
      BY <3>3, <3>4 DEF Begun
    <3> QED BY <3>1, <3>5
  <2> QED BY <1>1, <2>1, <2>2
<1>4. ASSUME NEW q \in Workers \ {p} PROVE j \notin w[q].lock /\ j \notin w[q].shared /\ j \notin w[q].gap
  <2>1. CASE w[p].pc = "insert"
    <3>1. Wants(p) = [job |-> j, mode |-> "I"]
      BY <2>1 DEF Wants
    <3> QED BY <1>1, <1>2, <2>1, <3>1, GrantedFree
  <2>2. CASE w[p].pc = "begin" /\ db.jobs[j] >= 0
    <3>1. Wants(p) = [job |-> j, mode |-> "X"]
      BY <2>2 DEF Wants
    <3> QED BY <1>1, <1>2, <2>2, <3>1, GrantedFree
  <2> QED BY <1>1, <2>1, <2>2
<1>5. /\ DOMAIN w' = Workers /\ \A q \in Workers \ {p} : w'[q] = w[q]
      /\ DOMAIN w'[p] = DOMAIN Idle /\ w'[p].req = w[p].req
      /\ w'[p].wr = {j} /\ w'[p].lock = {j} /\ w'[p].gap = {} /\ w'[p].shared = {} /\ w'[p].hist = {}
      /\ \/ /\ Duplicate(v, j, e) \/ Taken(v, j)
            /\ w'[p].pc = "commit" /\ w'[p].view = v /\ w'[p].ins = {} /\ w'[p].subs = {}
         \/ /\ ~Duplicate(v, j, e)
            /\ SameBut(w'[p].view, StoreEvent(v, j, e), j)
            /\ w'[p].ins = {[job |-> j, row |-> [n |-> v.jobs[j], ev |-> e]]}
            /\ w'[p].subs \subseteq Sub(j)
            /\ \/ w'[p].pc = "parent" /\ Parent[j] # None
               \/ w'[p].pc = Then(w'[p].subs)
  <2>0. Tables(StoreEvent(v, j, e))
    BY <1>2, <1>3, StoreEventView DEF Begun
  <2>1. CASE Duplicate(v, j, e) \/ Taken(v, j)
    <3>1. w' = [w EXCEPT ![p].pc = "commit", ![p].view = v, ![p].wr = {j},
                         ![p].lock = @ \cup {j}, ![p].gap = {}, ![p].reg = @ \cup reg]
      BY ZenonT(30), <1>3, <2>1 DEF Store
    <3> QED BY <1>1, <1>2, <2>1, <3>1, IdleFields DEF Fresh
  <2>3. CASE ~(Duplicate(v, j, e) \/ Taken(v, j)) /\ ChangesAcl(e)
    <3> DEFINE x == [job |-> j, row |-> [n |-> v.jobs[j], ev |-> e]]
               u == StoreEvent(v, j, e)
    <3>1. w' = [w EXCEPT ![p].pc = "commit", ![p].view = u, ![p].wr = {j}, ![p].ins = {x},
                         ![p].lock = @ \cup {j}, ![p].gap = {}, ![p].reg = @ \cup reg]
      BY ZenonT(30), <1>3, <2>3 DEF Store
    <3>2. SameBut(u, u, j)
      BY <2>0 DEF SameBut
    <3> HIDE DEF x, u
    <3>3. /\ DOMAIN w' = Workers /\ \A q \in Workers \ {p} : w'[q] = w[q]
          /\ DOMAIN w'[p] = DOMAIN Idle /\ w'[p].req = w[p].req
          /\ w'[p].wr = {j} /\ w'[p].lock = {j} /\ w'[p].gap = {} /\ w'[p].shared = {} /\ w'[p].hist = {}
          /\ w'[p].pc = "commit" /\ w'[p].view = u /\ w'[p].ins = {x} /\ w'[p].subs = {}
      BY <1>1, <1>2, <3>1, IdleFields DEF Fresh
    <3>4. w'[p].pc = Then(w'[p].subs) /\ w'[p].subs \subseteq Sub(j)
      BY <3>3 DEF Then
    <3> QED BY <2>3, <3>2, <3>3, <3>4 DEF x, u
  <2>2. CASE ~(Duplicate(v, j, e) \/ Taken(v, j)) /\ ~ChangesAcl(e)
    <3> DEFINE x == [job |-> j, row |-> [n |-> v.jobs[j], ev |-> e]]
               sub == IF IsCollection(e) THEN Sub(j) ELSE {}
    <3>1. PICK s \in StepState(StoreEvent(v, j, e), j, e, v.jobs[j]) :
            LET up == /\ Parent[j] # None /\ s.old # NoState
                      /\ s.old.state # s.js.state /\ class(s.old) # class(s.js)
            IN  w' = [w EXCEPT ![p].pc = IF up THEN "parent" ELSE Then(sub),
                               ![p].view = s.v, ![p].wr = {j}, ![p].subs = sub,
                               ![p].ins = {x},
                               ![p].lock = @ \cup {j},
                               ![p].gap = {},
                               ![p].old = s.old,
                               ![p].new = [job |-> j, js |-> s.js],
                               ![p].reg = @ \cup reg \cup sub]
      BY ZenonT(30), <1>3, <2>2 DEF Store
    <3> DEFINE up == /\ Parent[j] # None /\ s.old # NoState
                     /\ s.old.state # s.js.state /\ class(s.old) # class(s.js)
               pc == IF up THEN "parent" ELSE Then(sub)
               new == [job |-> j, js |-> s.js]
    <3>2. sub \subseteq Sub(j) /\ ((pc = "parent" /\ Parent[j] # None) \/ pc = Then(sub))
      OBVIOUS
    <3>3. w' = [w EXCEPT ![p].pc = pc, ![p].view = s.v, ![p].wr = {j}, ![p].subs = sub, ![p].ins = {x},
                         ![p].lock = @ \cup {j}, ![p].gap = {}, ![p].old = s.old, ![p].new = new,
                         ![p].reg = @ \cup reg \cup sub]
      BY ZenonT(30), <3>1
    <3> HIDE DEF up, pc, new, sub, x
    <3>4. /\ DOMAIN w' = Workers /\ \A q \in Workers \ {p} : w'[q] = w[q]
          /\ DOMAIN w'[p] = DOMAIN Idle /\ w'[p].req = w[p].req
          /\ w'[p].wr = {j} /\ w'[p].lock = {j} /\ w'[p].gap = {} /\ w'[p].shared = {} /\ w'[p].hist = {}
          /\ w'[p].pc = pc /\ w'[p].view = s.v /\ w'[p].ins = {x} /\ w'[p].subs = sub
      <4>1. DOMAIN w' = Workers /\ \A q \in Workers \ {p} : w'[q] = w[q]
        BY ZenonT(60), <1>1, <3>3
      <4>2. w'[p] = [w[p] EXCEPT !.pc = pc, !.view = s.v, !.wr = {j}, !.subs = sub, !.ins = {x},
                                 !.lock = w[p].lock \cup {j}, !.gap = {}, !.old = s.old, !.new = new,
                                 !.reg = w[p].reg \cup reg \cup sub]
        BY ZenonT(30), <1>1, <3>3
      <4>3. DOMAIN w[p] = DOMAIN Idle /\ w[p].lock = {} /\ w[p].shared = {} /\ w[p].hist = {}
        BY <1>2 DEF Fresh
      <4> DEFINE o == w[p]
                 n == w'[p]
      <4>4. DOMAIN o = {"pc", "req", "view", "wr", "hist", "ins", "lock", "shared", "gap", "old", "new",
                    "reg", "subs", "lost", "ask", "err"}
        BY <4>3, IdleFields
      <4>5. n = [o EXCEPT !.pc = pc, !.view = s.v, !.wr = {j}, !.subs = sub, !.ins = {x},
                          !.lock = o.lock \cup {j}, !.gap = {}, !.old = s.old, !.new = new,
                          !.reg = o.reg \cup reg \cup sub]
        BY <4>2
      <4> HIDE DEF o, n
      <4>6. /\ DOMAIN n = DOMAIN o /\ n.req = o.req /\ n.shared = o.shared /\ n.hist = o.hist
            /\ n.lock = o.lock \cup {j} /\ n.gap = {} /\ n.wr = {j}
            /\ n.pc = pc /\ n.view = s.v /\ n.ins = {x} /\ n.subs = sub
        BY ONLY ZenonT(30), <4>4, <4>5
      <4> QED BY <4>1, <4>3, <4>6 DEF n, o
    <3>5. SameBut(s.v, StoreEvent(v, j, e), j)
      BY <1>2, <2>0, StepStateView
    <3> QED BY <2>2, <3>2, <3>4, <3>5 DEF x
  <2> QED BY <2>1, <2>2, <2>3
<1>6. /\ Storing(db, w'[p])
      /\ w'[p].pc = "parent" => AtParent(db, w'[p])
  <2>1. CASE /\ Duplicate(v, j, e) \/ Taken(v, j)
             /\ w'[p].pc = "commit" /\ w'[p].view = v /\ w'[p].ins = {} /\ w'[p].subs = {}
    BY <1>1, <1>2, <1>3, <1>5, <2>1, StoreDuplicate
  <2>2. CASE /\ ~Duplicate(v, j, e)
             /\ SameBut(w'[p].view, StoreEvent(v, j, e), j)
             /\ w'[p].ins = {[job |-> j, row |-> [n |-> v.jobs[j], ev |-> e]]}
             /\ w'[p].subs \subseteq Sub(j)
             /\ \/ w'[p].pc = "parent" /\ Parent[j] # None
                \/ w'[p].pc = Then(w'[p].subs)
    <3>3. w'[p].pc = "parent" => Parent[j] # None
      BY <2>2 DEF Then
    <3> DEFINE n == w'[p]
    <3>4. /\ Sound(db) /\ n.req.job = j /\ n.req.ev = e /\ j \in Jobs /\ Begun(v, j) /\ ~Duplicate(v, j, e)
          /\ SameBut(n.view, StoreEvent(v, j, e), j)
          /\ n.wr = {j} /\ n.lock = {j} /\ n.shared = {} /\ n.hist = {}
          /\ n.ins = {[job |-> j, row |-> [n |-> v.jobs[j], ev |-> e]]} /\ n.subs \subseteq Sub(j)
          /\ n.pc = "parent" => Parent[j] # None
      BY <1>1, <1>2, <1>3, <1>5, <2>2, <3>3
    <3> HIDE DEF n, j, e
    <3>5. Storing(db, n) /\ (Parent[j] # None => AtParent(db, n))
      BY ONLY <3>4, StoreNew
    <3> QED BY <3>4, <3>5 DEF n
  <2> QED BY <1>5, <2>1, <2>2
<1>7. w'[p].pc \in {"commit", "subs", "parent"} /\ (w'[p].pc = "subs" => w'[p].subs # {})
  BY <1>5 DEF Then
<1>8. Own(db, w'[p], pass'[p])
  BY <1>2, <1>5, <1>6, <1>7 DEF Own, Pcs
<1>9. ASSUME NEW q \in Workers \ {p} PROVE Apart(w'[p], w[q]) /\ Apart(w[q], w'[p])
  <2>1. w'[p].lock = {j} /\ w'[p].shared = {} /\ w'[p].gap = {}
    BY <1>5
  <2>2. j \notin w[q].lock /\ j \notin w[q].shared /\ j \notin w[q].gap
    BY <1>4
  <2> QED BY ONLY <2>1, <2>2 DEF Apart
<1> QED BY <1>1, <1>5, <1>8, <1>9, Still DEF Inv

-----------------------------------------------------------------------------
(* The collection is updated.                                               *)

\* When the next number of the snapshot is free, the snapshot is the present.
LEMMA SnapshotCurrent ==
  ASSUME Sound(db), NEW v, NEW P \in Jobs, P \notin db.purged, db.jobs[P] >= 0, v.jobs[P] \in Int,
         0 <= v.jobs[P], v.jobs[P] <= db.jobs[P], v.events[P] \subseteq db.events[P],
         {x.n : x \in v.events[P]} = 0..(v.jobs[P] - 1), ~Taken(v, P)
  PROVE  v.jobs[P] = db.jobs[P] /\ v.events[P] = db.events[P]
<1>1. db.jobs[P] \in Int /\ Numbered(db.events[P], db.jobs[P])
  BY DEF Sound, Tables
<1>2. {x.n : x \in db.events[P]} = 0..(db.jobs[P] - 1)
  BY <1>1 DEF Numbered
<1>3. v.jobs[P] \notin 0..(db.jobs[P] - 1)
  BY <1>2 DEF Taken
<1>4. v.jobs[P] = db.jobs[P]
  BY <1>1, <1>3
<1>5. ASSUME NEW x \in db.events[P] PROVE x \in v.events[P]
  <2>1. x.n \in {y.n : y \in v.events[P]}
    BY <1>2, <1>4
  <2>2. PICK y \in v.events[P] : y.n = x.n
    BY <2>1
  <2> QED BY <1>1, <2>2 DEF Numbered
<1> QED BY <1>4, <1>5

\* One more job is in the transaction, without an event or with a new one.
LEMMA PendingMore ==
  ASSUME NEW d, NEW r, NEW s, NEW i, Pending(d, r, i), NEW X, s.ins = r.ins \cup X,
         \A x \in X : x.job # i, s.view.jobs[i] = r.view.jobs[i]
  PROVE  Pending(d, s, i)
<1>1. InsOf(s, i) = InsOf(r, i)
  <2>1. {y \in s.ins : y.job = i} = {y \in r.ins : y.job = i}
    OBVIOUS
  <2> QED BY <2>1 DEF InsOf
<1> QED BY <1>1 DEF Pending

LEMMA Collected ==
  ASSUME Sound(db), NEW r, Storing(db, r), AtParent(db, r), r.req.job \in Jobs,
         NEW s, s.req = r.req, s.subs = r.subs, s.shared = r.shared, s.lost = r.lost,
         s.lock = r.lock \cup {Parent[r.req.job]}, db.jobs[Parent[r.req.job]] >= 0,
         NEW X, s.ins = r.ins \cup X, Tables(s.view),
         \A k \in Jobs \ {Parent[r.req.job]} : s.view.jobs[k] = r.view.jobs[k],
         \/ X = {} /\ s.wr = r.wr /\ s.hist = {Parent[r.req.job]}
         \/ /\ s.wr = r.wr \cup {Parent[r.req.job]} /\ s.hist = r.hist
            /\ \A x \in X : x.job = Parent[r.req.job]
            /\ s.view.jobs[Parent[r.req.job]] >= 0
            /\ Parent[r.req.job] \notin db.purged => Pending(db, s, Parent[r.req.job])
  PROVE  Storing(db, s)
<1> DEFINE j == r.req.job
           P == Parent[j]
<1>1. P \in Jobs /\ P # j /\ Parent[P] # j
  BY JobsAssumption DEF AtParent
<1>2. r.wr = {j} /\ r.lock = {j} /\ r.hist = {} /\ r.shared = {}
  BY DEF AtParent
<1>3. \A x \in X : x.job = P
  OBVIOUS
<1>4. s.lock \subseteq Jobs /\ s.shared \subseteq Jobs /\ s.wr \subseteq s.lock \cup s.shared /\ s.wr \subseteq {j, P}
  BY <1>1, <1>2
<1>5. ASSUME NEW i \in s.wr PROVE s.view.jobs[i] >= 0
  <2>1. CASE i = j
    <3>1. s.view.jobs[j] = r.view.jobs[j] /\ r.view.jobs[j] >= 0
      BY <1>1, <1>2 DEF Storing
    <3> QED BY <2>1, <3>1
  <2>2. CASE i = P
    BY <1>1, <1>2, <1>5, <2>2
  <2> QED BY <1>4, <2>1, <2>2
<1>6. ASSUME NEW i \in s.wr \ db.purged PROVE Pending(db, s, i)
  <2>1. CASE i = j
    <3>1. Pending(db, r, i) /\ s.view.jobs[i] = r.view.jobs[i] /\ \A x \in X : x.job # i
      BY <1>1, <1>2, <1>3, <1>6, <2>1 DEF Storing
    <3> QED BY <3>1, PendingMore
  <2>2. CASE i = P
    BY <1>1, <1>2, <1>6, <2>2
  <2> QED BY <1>4, <2>1, <2>2
<1>7. s.subs \subseteq Sub(j) /\ s.subs \cap s.wr = {}
  <2>1. r.subs \subseteq Sub(j) /\ r.subs \cap {j} = {}
    BY <1>2 DEF Storing
  <2>2. P \notin Sub(j)
    BY <1>1 DEF Sub
  <2> QED BY <1>4, <2>1, <2>2
<1>8. s.hist \subseteq s.lock /\ (\A i \in s.hist : db.jobs[i] >= 0) /\ s.shared = {}
  BY <1>2
<1>9. \A x \in s.ins : x.job \in s.wr \cap s.lock
  BY <1>2, <1>3 DEF Storing
<1>10. ~s.lost /\ j \notin db.purged =>
          Header(s.req.ev) \in HeadersIn(db, j) \/ \E x \in InsOf(s, j) : Header(x.ev) = Header(s.req.ev)
  <2>1. InsOf(r, j) \subseteq InsOf(s, j)
    BY DEF InsOf
  <2> QED BY <2>1 DEF Storing
<1> QED BY <1>4, <1>5, <1>6, <1>7, <1>8, <1>9, <1>10 DEF Storing

LEMMA ParentStep ==
  ASSUME Inv, NEW p \in Workers, update_parent_status(p), UNCHANGED pass
  PROVE  Inv'
<1> DEFINE j == w[p].req.job
           P == Parent[j]
           v0 == w[p].view
           prow == v0.states[P]
           hist == Counted(prow.hist, w[p].old, w[p].new.js)
           v == [v0 EXCEPT !.states[P].hist = hist]
           state == ParentState(prow, hist, Cardinality(Sub(P)))
           e == CollectionEvent(prow.js, state)
<1>1. /\ DOMAIN w = Workers /\ DOMAIN pass = Workers /\ Own(db, w[p], pass[p]) /\ Todo(pass[p])
      /\ Sound(db) /\ Granted(p) /\ w[p].pc = "parent"
  BY ZenonT(30) DEF Inv, update_parent_status
<1>2. /\ DOMAIN w[p] = DOMAIN Idle /\ j \in Jobs /\ w[p].req.kind = "store" /\ w[p].gap = {}
      /\ Storing(db, w[p]) /\ AtParent(db, w[p])
  BY <1>1 DEF Own
<1>3. P \in Jobs /\ Tables(v0) /\ v0.jobs[P] \in Int /\ v0.jobs[P] >= -1
  BY <1>2 DEF Storing, AtParent, Tables
<1>4. SameBut(v, v0, P)
  BY ZenonT(30), <1>3 DEF SameBut, Tables
<1>5. CASE \E err : Refuse(p, err)
  BY <1>1, <1>5, RefuseStep
<1>6. CASE /\ db.jobs[P] >= 0 /\ prow # NoRow
           /\ \/ ParentCounted(p, P, v)
              \/ ~(Taken(v, P) \/ Duplicate(v, P, e)) /\ ParentMoves(p, P, v, e)
           /\ UNCHANGED <<db, inbox, acked, jp, faults>>
  <2> HIDE DEF v, e
  <2>1. PICK X :
          /\ DOMAIN w' = Workers /\ \A q \in Workers \ {p} : w'[q] = w[q]
          /\ DOMAIN w'[p] = DOMAIN Idle /\ w'[p].req = w[p].req /\ w'[p].subs = w[p].subs
          /\ w'[p].shared = w[p].shared /\ w'[p].gap = w[p].gap /\ w'[p].lost = w[p].lost
          /\ w'[p].lock = w[p].lock \cup {P} /\ w'[p].pc = Then(w[p].subs)
          /\ w'[p].ins = w[p].ins \cup X
          /\ \/ X = {} /\ w'[p].wr = w[p].wr /\ w'[p].hist = {P} /\ w'[p].view = v
             \/ /\ w'[p].wr = w[p].wr \cup {P} /\ w'[p].hist = w[p].hist
                /\ X = {[job |-> P, row |-> [n |-> v.jobs[P], ev |-> e]]}
                /\ \E s \in StepState(StoreEvent(v, P, e), P, e, v.jobs[P]) : w'[p].view = s.v
                /\ ~Taken(v, P) /\ ~Duplicate(v, P, e)
    <3> DEFINE o == w[p]
               n == w'[p]
               pc == Then(w[p].subs)
    <3>1. DOMAIN o = {"pc", "req", "view", "wr", "hist", "ins", "lock", "shared", "gap", "old", "new",
                      "reg", "subs", "lost", "ask", "err"}
      BY <1>2, IdleFields
    <3>3. CASE ParentCounted(p, P, v)
      <4>1. DOMAIN w' = Workers /\ \A q \in Workers \ {p} : w'[q] = w[q]
        BY <1>1, <3>3 DEF ParentCounted
      <4>2. n = [o EXCEPT !.pc = pc, !.view = v, !.hist = {P}, !.lock = o.lock \cup {P}]
        BY <1>1, <3>3 DEF ParentCounted
      <4> HIDE DEF o, n, pc
      <4>3. /\ DOMAIN n = DOMAIN o /\ n.req = o.req /\ n.shared = o.shared /\ n.hist = {P} /\ n.wr = o.wr
            /\ n.lock = o.lock \cup {P} /\ n.gap = o.gap /\ n.pc = pc /\ n.view = v /\ n.ins = o.ins
            /\ n.subs = o.subs /\ n.lost = o.lost
        BY ONLY <3>1, <4>2
      <4>4. n.ins = o.ins \cup {}
        BY <4>3
      <4> QED BY <1>2, <4>1, <4>3, <4>4 DEF n, o, pc
    <3>4. CASE ~(Taken(v, P) \/ Duplicate(v, P, e)) /\ ParentMoves(p, P, v, e)
      <4> DEFINE x == [job |-> P, row |-> [n |-> v.jobs[P], ev |-> e]]
      <4>1. PICK s \in StepState(StoreEvent(v, P, e), P, e, v.jobs[P]) :
              w' = [w EXCEPT ![p].pc = pc, ![p].view = s.v,
                              ![p].wr = @ \cup {P}, ![p].lock = @ \cup {P},
                              ![p].ins = @ \cup {x}]
        BY ZenonT(30), <3>4 DEF ParentMoves
      <4>2. DOMAIN w' = Workers /\ \A q \in Workers \ {p} : w'[q] = w[q]
        BY <1>1, <4>1
      <4>3. n = [o EXCEPT !.pc = pc, !.view = s.v, !.wr = o.wr \cup {P}, !.lock = o.lock \cup {P},
                          !.ins = o.ins \cup {x}]
        BY <1>1, <4>1
      <4> HIDE DEF o, n, pc, x
      <4>4. /\ DOMAIN n = DOMAIN o /\ n.req = o.req /\ n.shared = o.shared /\ n.hist = o.hist
            /\ n.wr = o.wr \cup {P} /\ n.lock = o.lock \cup {P} /\ n.gap = o.gap /\ n.pc = pc
            /\ n.view = s.v /\ n.ins = o.ins \cup {x} /\ n.subs = o.subs /\ n.lost = o.lost
        BY ONLY <3>1, <4>3
      <4> QED BY ZenonT(30), <1>2, <3>4, <4>2, <4>4 DEF n, o, x, pc
    <3> QED BY ZenonT(30), <1>6, <3>3, <3>4
  <2>2. /\ Tables(v) /\ v.jobs = v0.jobs /\ v.events = v0.events
    BY <1>4 DEF SameBut
  <2>3. Storing(db, w'[p])
    <3>1. CASE X = {} /\ w'[p].wr = w[p].wr /\ w'[p].hist = {P} /\ w'[p].view = v
      <4>1. \A k \in Jobs \ {P} : w'[p].view.jobs[k] = v0.jobs[k]
        BY <2>2, <3>1
      <4> QED BY <1>1, <1>2, <1>6, <2>1, <2>2, <3>1, <4>1, Collected
    <3>2. CASE /\ w'[p].wr = w[p].wr \cup {P} /\ w'[p].hist = w[p].hist
               /\ X = {[job |-> P, row |-> [n |-> v.jobs[P], ev |-> e]]}
               /\ \E s \in StepState(StoreEvent(v, P, e), P, e, v.jobs[P]) : w'[p].view = s.v
               /\ ~Taken(v, P) /\ ~Duplicate(v, P, e)
      <4> DEFINE u == StoreEvent(v, P, e)
                 x == [n |-> v.jobs[P], ev |-> e]
      <4>1. /\ Tables(u) /\ u.jobs[P] = v.jobs[P] + 1
            /\ \A k \in Jobs \ {P} : u.jobs[k] = v.jobs[k]
        BY <1>3, <2>2, StoreEventView, SMTT(30)
      <4>2. SameBut(w'[p].view, u, P)
        <5>1. PICK s \in StepState(u, P, e, v.jobs[P]) : w'[p].view = s.v
          BY <3>2
        <5> HIDE DEF u
        <5>2. SameBut(s.v, u, P)
          BY <1>3, <4>1, StepStateView
        <5> QED BY <5>1, <5>2
      <4> HIDE DEF u
      <4>3. /\ Tables(w'[p].view) /\ w'[p].view.jobs[P] = v0.jobs[P] + 1
            /\ \A k \in Jobs \ {P} : w'[p].view.jobs[k] = v0.jobs[k]
        BY <2>2, <4>1, <4>2 DEF SameBut
      <4>4. w'[p].view.jobs[P] >= 0
        <5>1. v0.jobs[P] \in Int /\ v0.jobs[P] >= -1 /\ w'[p].view.jobs[P] = v0.jobs[P] + 1
          BY <1>3, <4>3
        <5> QED BY ONLY <5>1
      <4>5. \A y \in X : y.job = P
        <5> DEFINE z == [job |-> P, row |-> x]
        <5>1. X = {z} /\ z.job = P
          BY <3>2
        <5> QED BY ONLY <5>1
      <4>6. ASSUME P \notin db.purged PROVE Pending(db, w'[p], P)
        <5>1. Earlier(v0, db, P)
          BY <1>2, <4>6 DEF AtParent
        <5>2. /\ 0 <= v.jobs[P] /\ v.jobs[P] <= db.jobs[P] /\ v.events[P] \subseteq db.events[P]
              /\ {z.n : z \in v.events[P]} = 0..(v.jobs[P] - 1)
          BY ZenonT(30), <1>6, <2>2, <5>1 DEF Earlier
        <5>3. v.jobs[P] \in Int
          BY <1>3, <2>2
        <5>4. v.jobs[P] = db.jobs[P] /\ v.events[P] = db.events[P]
          BY ZenonT(30), <1>1, <1>3, <1>6, <3>2, <4>6, <5>2, <5>3, SnapshotCurrent
        <5>5. Base(db, P) = v.jobs[P]
          BY <1>6, <5>3, <5>4 DEF Base
        <5>6. Header(e) \notin HeadersIn(db, P)
          BY ZenonT(30), <3>2, <5>4 DEF Duplicate, HeadersIn
        <5>7. InsOf(w'[p], P) = {x}
          <6>1. \A y \in w[p].ins : y.job # P
            BY <1>2, JobsAssumption DEF Storing, AtParent
          <6> DEFINE y == [job |-> P, row |-> x]
          <6>2. y.job = P /\ y.row = x /\ w'[p].ins = w[p].ins \cup {y}
            BY ZenonT(30), <2>1, <3>2
          <6> HIDE DEF x, y
          <6>3. {z \in w'[p].ins : z.job = P} = {y}
            BY <6>1, <6>2
          <6> QED BY <6>2, <6>3 DEF InsOf
        <5>8. x.n = Base(db, P) /\ Header(x.ev) \notin HeadersIn(db, P) /\ w'[p].view.jobs[P] = Base(db, P) + 1
          BY <2>2, <4>3, <5>5, <5>6
        <5> HIDE DEF x
        <5> QED BY <5>7, <5>8 DEF Pending
      <4> QED BY ZenonT(30), <1>1, <1>2, <1>6, <2>1, <3>2, <4>3, <4>4, <4>5, <4>6, Collected
    <3> QED BY ZenonT(30), <2>1, <3>1, <3>2
  <2>4. Own(db, w'[p], pass'[p])
    BY ZenonT(30), <1>2, <2>1, <2>3 DEF Own, Pcs, Then
  <2>5. Wants(p) = [job |-> P, mode |-> "X"]
    BY <1>1 DEF Wants
  <2>6. ASSUME NEW q \in Workers \ {p} PROVE Apart(w'[p], w[q]) /\ Apart(w[q], w'[p])
    <3>1. P \notin w[q].lock /\ P \notin w[q].shared /\ P \notin w[q].gap
      BY <1>1, <1>3, <1>6, <2>5, GrantedFree
    <3>2. Apart(w[p], w[q]) /\ Apart(w[q], w[p])
      BY DEF Inv
    <3>3. w'[p].lock = w[p].lock \cup {P} /\ w'[p].shared = w[p].shared /\ w'[p].gap = w[p].gap
      BY <2>1
    <3> QED BY ONLY <3>1, <3>2, <3>3 DEF Apart
  <2>7. \A r \in inbox' : Proper(r)
    BY <1>6 DEF Inv
  <2> QED BY ZenonT(30), <1>1, <1>6, <2>1, <2>4, <2>6, <2>7, Still
<1> QED BY ZenonT(30), <1>5, <1>6 DEF update_parent_status

-----------------------------------------------------------------------------
(* The subjobs are registered.                                              *)

\* The view v with the rows of c that are in d.
Renewed(v, d, c) ==
    [v EXCEPT !.jobs[c] = d.jobs[c], !.members[c] = d.members[c], !.states[c] = d.states[c]]

LEMMA RegisterView ==
  ASSUME NEW d, Tables(d), NEW v, Tables(v), NEW c \in Jobs, NEW j, NEW e, NEW u, u = Renewed(v, d, c)
  PROVE  /\ Tables(RegisterSubjob(u, c, j, e)) /\ RegisterSubjob(u, c, j, e).jobs[c] = Base(d, c)
         /\ \A k \in Jobs \ {c} : RegisterSubjob(u, c, j, e).jobs[k] = v.jobs[k]
<1>1. Tables(u) /\ u.jobs[c] = d.jobs[c] /\ \A k \in Jobs \ {c} : u.jobs[k] = v.jobs[k]
  BY DEF Tables, Renewed
<1> DEFINE x == IF u.jobs[c] < 0 THEN 0 ELSE u.jobs[c]
<1>2. \E m, t : RegisterSubjob(u, c, j, e) = [u EXCEPT !.jobs[c] = x, !.members[c] = m, !.states[c] = t]
  BY ZenonT(30) DEF RegisterSubjob
<1>3. x \in Int /\ x = Base(d, c)
  BY <1>1 DEF Tables, Base
<1> HIDE DEF x
<1> DEFINE a == RegisterSubjob(u, c, j, e)
<1>4. PICK m, t : a = [u EXCEPT !.jobs[c] = x, !.members[c] = m, !.states[c] = t]
  BY ZenonT(30), <1>2
<1> HIDE DEF a
<1>5. /\ DOMAIN a = DOMAIN u /\ a.jobs = [u.jobs EXCEPT ![c] = x] /\ a.events = u.events
      /\ a.states = [u.states EXCEPT ![c] = t] /\ a.members = [u.members EXCEPT ![c] = m]
  BY <1>1, <1>4 DEF Tables
<1>6. Tables(a) /\ a.jobs[c] = x /\ \A k \in Jobs \ {c} : a.jobs[k] = u.jobs[k]
  BY <1>1, <1>3, <1>5 DEF Tables
<1> QED BY <1>1, <1>3, <1>6 DEF a

LEMMA SubjobsStep ==
  ASSUME Inv, NEW p \in Workers, register_subjobs_embryonic(p), UNCHANGED pass
  PROVE  Inv'
<1> DEFINE j == w[p].req.job
           c == NextSub(p)
           rest == w[p].subs \ {c}
           there == IF db.jobs[c] < 0 THEN {} ELSE {c}
           pc == Then(rest)
           u == [w[p].view EXCEPT !.jobs[c] = db.jobs[c], !.members[c] = db.members[c], !.states[c] = db.states[c]]
           v == RegisterSubjob(u, c, j, w[p].req.ev)
<1>1. /\ DOMAIN w = Workers /\ DOMAIN pass = Workers /\ Own(db, w[p], pass[p]) /\ Todo(pass[p])
      /\ Sound(db) /\ Granted(p) /\ w[p].pc = "subs"
      /\ db' = db /\ acked' = acked /\ inbox' = inbox
  BY DEF Inv, register_subjobs_embryonic
<1>2. /\ DOMAIN w[p] = DOMAIN Idle /\ j \in Jobs /\ w[p].req.kind = "store" /\ w[p].gap = {}
      /\ Storing(db, w[p])
  BY <1>1 DEF Own
<1>3. c \in w[p].subs
  BY <1>1 DEF Own, NextSub
<1>4. c \in Jobs /\ Parent[c] = j /\ c # j /\ c \notin w[p].wr /\ Tables(w[p].view) /\ Tables(db)
  BY <1>1, <1>2, <1>3, JobsAssumption DEF Storing, Sub, Sound
<1>5. /\ Tables(v) /\ v.jobs[c] = Base(db, c) /\ \A k \in Jobs \ {c} : v.jobs[k] = w[p].view.jobs[k]
  <2>1. u = Renewed(w[p].view, db, c)
    BY DEF Renewed
  <2> HIDE DEF c, u
  <2> QED BY <1>4, <2>1, RegisterView
<1>6. /\ DOMAIN w' = Workers /\ \A q \in Workers \ {p} : w'[q] = w[q]
      /\ DOMAIN w'[p] = DOMAIN Idle /\ w'[p].req = w[p].req /\ w'[p].gap = w[p].gap /\ w'[p].lost = w[p].lost
      /\ w'[p].hist = w[p].hist /\ w'[p].ins = w[p].ins
      /\ w'[p].pc = pc /\ w'[p].subs = rest /\ w'[p].view = v /\ w'[p].wr = w[p].wr \cup {c}
      /\ w'[p].shared = w[p].shared \cup there /\ w'[p].lock = w[p].lock \cup ({c} \ there)
  <2> DEFINE o == w[p]
             n == w'[p]
  <2>1. DOMAIN o = {"pc", "req", "view", "wr", "hist", "ins", "lock", "shared", "gap", "old", "new",
                    "reg", "subs", "lost", "ask", "err"}
    BY <1>2, IdleFields
  <2>2. w' = [w EXCEPT ![p].pc = pc, ![p].subs = rest, ![p].view = v, ![p].wr = @ \cup {c},
                       ![p].shared = @ \cup there, ![p].lock = @ \cup ({c} \ there)]
    BY DEF register_subjobs_embryonic
  <2> HIDE DEF pc, rest, v, c, there
  <2>3. DOMAIN w' = Workers /\ \A q \in Workers \ {p} : w'[q] = w[q]
    BY <1>1, <2>2
  <2>4. n = [o EXCEPT !.pc = pc, !.subs = rest, !.view = v, !.wr = o.wr \cup {c},
                      !.shared = o.shared \cup there, !.lock = o.lock \cup ({c} \ there)]
    BY <1>1, <2>2
  <2> HIDE DEF o, n
  <2>5. /\ DOMAIN n = DOMAIN o /\ n.req = o.req /\ n.gap = o.gap /\ n.lost = o.lost
        /\ n.hist = o.hist /\ n.ins = o.ins
        /\ n.pc = pc /\ n.subs = rest /\ n.view = v /\ n.wr = o.wr \cup {c}
        /\ n.shared = o.shared \cup there /\ n.lock = o.lock \cup ({c} \ there)
    BY ONLY <2>1, <2>4
  <2> QED BY <1>2, <2>3, <2>5 DEF n, o
<1> HIDE DEF v, u, c
<1>7. Storing(db, w'[p])
  <2> DEFINE s == w'[p]
             r == w[p]
  <2>1. Base(db, c) >= 0
    BY <1>4 DEF Base, Tables
  <2>2. s.lock \subseteq Jobs /\ s.shared \subseteq Jobs /\ s.wr \subseteq s.lock \cup s.shared
    BY <1>2, <1>4, <1>6 DEF Storing
  <2>3. \A i \in s.wr : s.view.jobs[i] >= 0
    BY <1>2, <1>4, <1>5, <1>6, <2>1 DEF Storing
  <2>4. s.subs \subseteq Sub(j) /\ s.subs \cap s.wr = {}
    BY <1>2, <1>6 DEF Storing
  <2>5. s.hist \subseteq s.lock /\ (\A i \in s.hist : db.jobs[i] >= 0)
    BY <1>2, <1>6 DEF Storing
  <2>6. \A i \in s.shared : db.jobs[i] >= 0
    <3>1. \A i \in there : db.jobs[i] >= 0
      BY <1>4 DEF Tables
    <3> QED BY <1>2, <1>6, <3>1 DEF Storing
  <2>7. \A x \in s.ins : x.job \in s.wr \cap s.lock
    BY <1>2, <1>6 DEF Storing
  <2>8. ASSUME NEW i \in s.wr \ db.purged PROVE Pending(db, s, i)
    <3>1. CASE i = c
      <4>1. \A x \in r.ins : x.job # c
        BY <1>2, <1>4 DEF Storing
      <4>2. InsOf(s, c) = {}
        BY <1>6, <4>1 DEF InsOf
      <4> QED BY <1>5, <1>6, <3>1, <4>2 DEF Pending
    <3>2. CASE i # c
      <4>1. Pending(db, r, i) /\ i \in Jobs
        BY <1>2, <1>6, <3>2 DEF Storing
      <4>2. s.ins = r.ins /\ s.view.jobs[i] = r.view.jobs[i]
        BY <1>5, <1>6, <3>2, <4>1
      <4> HIDE DEF s, r
      <4> QED BY <4>1, <4>2 DEF Pending, InsOf
    <3> QED BY <3>1, <3>2
  <2>9. ~s.lost /\ j \notin db.purged =>
          Header(s.req.ev) \in HeadersIn(db, j) \/ \E x \in InsOf(s, j) : Header(x.ev) = Header(s.req.ev)
    BY <1>2, <1>6 DEF Storing, InsOf
  <2>10. Tables(s.view) /\ s.req.job = j
    BY <1>5, <1>6
  <2> HIDE DEF s
  <2> QED BY <2>2, <2>3, <2>4, <2>5, <2>6, <2>7, <2>8, <2>9, <2>10 DEF Storing, s
<1>8. Own(db, w'[p], pass'[p])
  <2>1. pc = "commit" \/ (pc = "subs" /\ rest # {})
    BY DEF Then
  <2> HIDE DEF pc, rest
  <2> QED BY <1>2, <1>6, <1>7, <2>1 DEF Own, Pcs
<1>9. Wants(p) = [job |-> c, mode |-> IF db.jobs[c] < 0 THEN "I" ELSE "S"]
  BY <1>1 DEF Wants, c
<1>10. ASSUME NEW q \in Workers \ {p} PROVE Apart(w'[p], w[q]) /\ Apart(w[q], w'[p])
  <2>1. /\ c \notin w[q].lock
        /\ IF db.jobs[c] < 0 THEN c \notin w[q].gap /\ c \notin w[q].shared ELSE c \notin w[q].gap
    <3>1. db.jobs[c] \in Int
      BY <1>4 DEF Tables
    <3>2. CASE db.jobs[c] < 0
      <4>1. Wants(p) = [job |-> c, mode |-> "I"]
        BY <1>9, <3>2
      <4> QED BY <1>1, <1>4, <3>2, <4>1, GrantedFree
    <3>3. CASE db.jobs[c] >= 0
      <4>1. Wants(p) = [job |-> c, mode |-> "S"]
        BY <1>9, <3>1, <3>3
      <4> QED BY <1>1, <1>4, <3>1, <3>3, <4>1, GrantedFree
    <3> QED BY <3>1, <3>2, <3>3
  <2>2. Apart(w[p], w[q]) /\ Apart(w[q], w[p])
    BY DEF Inv
  <2>3. CASE db.jobs[c] < 0
    BY <1>2, <1>6, <2>1, <2>2, <2>3 DEF Apart
  <2>4. CASE ~(db.jobs[c] < 0)
    BY <1>2, <1>6, <2>1, <2>2, <2>4 DEF Apart
  <2> QED BY <2>3, <2>4
<1> QED BY <1>1, <1>6, <1>8, <1>10, Still DEF Inv

-----------------------------------------------------------------------------
(* The transaction is rolled back.                                          *)

LEMMA RolledBackStep ==
  ASSUME Inv, NEW p \in Workers, InTransaction(p), w' = [w EXCEPT ![p] = RolledBack(p)],
         UNCHANGED <<db, inbox, acked, pass>>
  PROVE  Inv'
<1> DEFINE j == w[p].req.job
           rest == w[p].subs \ {NextSub(p)}
           r == RolledBack(p)
           back == Retried(p)
<1>1. /\ DOMAIN w = Workers /\ DOMAIN pass = Workers /\ Own(db, w[p], pass[p]) /\ Todo(pass[p]) /\ Sound(db)
      /\ w[p].pc \in {"insert", "parent", "subs", "upgrade", "commit"}
  BY DEF Inv, InTransaction
<1>2. /\ j \in Jobs /\ w[p].req.kind \in {"store", "status", "purge"}
      /\ w[p].req.kind = "purge" => pass[p] # NoPass
  BY <1>1 DEF Own
<1>3. /\ DOMAIN back = DOMAIN Idle /\ Fresh(back) /\ back.gap = {} /\ back.req = w[p].req
      /\ back.pc = IF w[p].req.kind = "store" THEN "begin" ELSE "status"
  BY IdleFields DEF Retried, Fresh
<1>4. Own(db, back, pass[p])
  BY <1>2, <1>3, OwnFresh
<1>5. DOMAIN w' = Workers /\ (\A q \in Workers \ {p} : w'[q] = w[q]) /\ w'[p] = r
  BY <1>1
<1>6. Own(db, r, pass[p]) /\ r.lock = {} /\ r.shared = {} /\ r.gap = {}
  <2>1. CASE w[p].pc = "parent"
    <3>1. r = Idle
      BY <2>1 DEF RolledBack
    <3> QED BY <3>1, IdleFields, OwnFresh DEF Fresh
  <2>2. CASE w[p].pc = "subs"
    <3> DEFINE v == [db EXCEPT !.members[w[p].req.job] = w[p].view.members[w[p].req.job]]
               pc == Then(rest)
    <3>1. r = [back EXCEPT !.pc = pc, !.subs = rest, !.lost = TRUE, !.view = v]
      BY <2>2 DEF RolledBack
    <3>2. Tables(v) /\ w[p].subs \subseteq Sub(j) /\ w[p].req.kind = "store"
      BY <1>1, <2>2 DEF Sound, Tables, Own, Storing
    <3> HIDE DEF v, pc, r, back, rest
    <3>3. /\ DOMAIN r = DOMAIN Idle /\ r.req = w[p].req /\ r.gap = {} /\ r.lock = {} /\ r.shared = {}
          /\ r.wr = {} /\ r.hist = {} /\ r.ins = {} /\ r.pc = pc /\ r.subs = rest /\ r.lost = TRUE /\ r.view = v
      BY <1>3, <3>1, IdleFields DEF Fresh
    <3>4. rest \subseteq Sub(j)
      BY <3>2 DEF rest
    <3>5. Storing(db, r)
      BY <3>2, <3>3, <3>4 DEF Storing
    <3>6. pc = "commit" \/ (pc = "subs" /\ rest # {})
      BY DEF pc, Then
    <3>7. Own(db, r, pass[p])
      BY <1>2, <3>2, <3>3, <3>5, <3>6 DEF Own, Pcs
    <3> QED BY <3>3, <3>7
  <2>3. CASE w[p].pc \notin {"parent", "subs"}
    <3>1. r = back
      BY <2>3 DEF RolledBack
    <3> HIDE DEF r, back
    <3> QED BY <1>3, <1>4, <3>1 DEF Fresh
  <2> QED BY <2>1, <2>2, <2>3
<1> HIDE DEF r
<1>7. \A q \in Workers \ {p} : Apart(w'[p], w[q]) /\ Apart(w[q], w'[p])
  BY <1>5, <1>6, ApartFree
<1> QED BY <1>1, <1>5, <1>6, <1>7, Still DEF Inv

-----------------------------------------------------------------------------
(* The state of a job is asked for.                                         *)

LEMMA StatusMissingStep ==
  ASSUME Inv, NEW p \in Workers, StatusMissing(p), UNCHANGED pass
  PROVE  Inv'
<1> DEFINE j == w[p].req.job
<1>1. /\ DOMAIN w = Workers /\ DOMAIN pass = Workers /\ Own(db, w[p], pass[p]) /\ Todo(pass[p])
      /\ w[p].pc = "status" /\ Granted(p) /\ db.jobs[j] >= 0
  BY DEF Inv, StatusMissing
<1>2. DOMAIN w[p] = DOMAIN Idle /\ Fresh(w[p]) /\ w[p].gap = {} /\ j \in Jobs /\ w[p].req.kind \in {"status", "purge"}
  BY <1>1 DEF Own
<1>3. /\ DOMAIN w' = Workers /\ \A q \in Workers \ {p} : w'[q] = w[q]
      /\ db' = db /\ acked' = acked /\ inbox' = inbox
      /\ w'[p] = [w[p] EXCEPT !.pc = "upgrade", !.shared = {j}, !.view = db]
  BY <1>1 DEF StatusMissing
<1>4. /\ DOMAIN w'[p] = DOMAIN Idle /\ w'[p].gap = {} /\ w'[p].req = w[p].req
      /\ w'[p].pc = "upgrade" /\ w'[p].shared = {j} /\ w'[p].lock = {} /\ w'[p].wr = {} /\ w'[p].hist = {}
      /\ w'[p].ins = {}
  BY <1>2, <1>3, IdleFields DEF Fresh
<1>5. Own(db, w'[p], pass'[p])
  BY <1>1, <1>2, <1>4 DEF Own, Pcs
<1>6. Wants(p) = [job |-> j, mode |-> "S"]
  BY <1>1 DEF Wants
<1>7. ASSUME NEW q \in Workers \ {p} PROVE Apart(w'[p], w[q]) /\ Apart(w[q], w'[p])
  <2>1. j \notin w[q].lock /\ j \notin w[q].gap
    BY <1>1, <1>2, <1>6, GrantedFree
  <2> QED BY <1>4, <2>1 DEF Apart
<1> QED BY <1>1, <1>3, <1>5, <1>7, Still DEF Inv

LEMMA StatusComputedStep ==
  ASSUME Inv, NEW p \in Workers, StatusComputed(p), UNCHANGED pass
  PROVE  Inv'
<1> DEFINE j == w[p].req.job
<1>1. /\ DOMAIN w = Workers /\ DOMAIN pass = Workers /\ Own(db, w[p], pass[p]) /\ Todo(pass[p])
      /\ w[p].pc = "upgrade" /\ Granted(p)
  BY DEF Inv, StatusComputed
<1>2. /\ DOMAIN w[p] = DOMAIN Idle /\ w[p].gap = {} /\ j \in Jobs /\ w[p].req.kind \in {"status", "purge"}
      /\ w[p].hist = {} /\ w[p].ins = {} /\ db.jobs[j] >= 0
  BY <1>1 DEF Own
<1>3. PICK v : w' = [w EXCEPT ![p].pc = "commit", ![p].wr = {j}, ![p].lock = {j}, ![p].shared = {}, ![p].view = v]
  BY DEF StatusComputed
<1>4. /\ DOMAIN w' = Workers /\ \A q \in Workers \ {p} : w'[q] = w[q]
      /\ db' = db /\ acked' = acked /\ inbox' = inbox
      /\ w'[p] = [w[p] EXCEPT !.pc = "commit", !.wr = {j}, !.lock = {j}, !.shared = {}, !.view = v]
  BY <1>1, <1>3 DEF StatusComputed
<1>5. /\ DOMAIN w'[p] = DOMAIN Idle /\ w'[p].gap = {} /\ w'[p].req = w[p].req
      /\ w'[p].pc = "commit" /\ w'[p].shared = {} /\ w'[p].lock = {j} /\ w'[p].wr = {j} /\ w'[p].hist = {}
      /\ w'[p].ins = {}
  BY <1>2, <1>4, IdleFields
<1>6. Own(db, w'[p], pass'[p])
  BY <1>1, <1>2, <1>5 DEF Own, Pcs
<1>7. Wants(p) = [job |-> j, mode |-> "X"]
  BY <1>1 DEF Wants
<1>8. ASSUME NEW q \in Workers \ {p} PROVE Apart(w'[p], w[q]) /\ Apart(w[q], w'[p])
  <2>1. j \notin w[q].lock /\ j \notin w[q].shared /\ j \notin w[q].gap
    BY <1>1, <1>2, <1>7, GrantedFree
  <2> QED BY <1>5, <2>1 DEF Apart
<1> QED BY <1>1, <1>4, <1>6, <1>8, Still DEF Inv

\* The answer needs no change.
LEMMA StatusStoredStep ==
  ASSUME Inv, NEW p \in Workers, StatusStored(p), UNCHANGED pass
  PROVE  Inv'
<1>1. /\ DOMAIN w = Workers /\ DOMAIN pass = Workers /\ Todo(pass[p]) /\ w[p].req.kind = "status"
      /\ Sound(db) /\ Kept(db, acked)
  BY DEF Inv, StatusStored
<1>2. /\ DOMAIN w' = Workers /\ \A q \in Workers \ {p} : w'[q] = w[q]
      /\ db' = db /\ acked' = acked \cup {w[p].req} /\ inbox' = inbox /\ w'[p] = Idle
  BY <1>1 DEF StatusStored, Answered
<1>3. Own(db, Idle, pass[p]) /\ Idle.lock = {} /\ Idle.shared = {} /\ Idle.gap = {}
  BY IdleFields, OwnFresh DEF Fresh
<1>4. Kept(db, acked')
  BY <1>1, <1>2 DEF Kept
<1>5. \A q \in Workers \ {p} : Fits(db, db, w[q]) /\ Apart(w'[p], w[q]) /\ Apart(w[q], w'[p])
  BY <1>2, <1>3, FitsSame, ApartFree
<1> QED BY <1>1, <1>2, <1>3, <1>4, <1>5, Step DEF Inv

-----------------------------------------------------------------------------
(* The transaction is committed.                                            *)

LEMMA NumberedMore ==
  ASSUME NEW E, NEW k \in Nat, Numbered(E, k), NEW x, x.n = k, Header(x.ev) \notin {Header(y.ev) : y \in E}
  PROVE  Numbered(E \cup {x}, k + 1)
<1>1. {y.n : y \in E \cup {x}} = {y.n : y \in E} \cup {k}
  OBVIOUS
<1>2. {y.n : y \in E} = 0..(k - 1)
  BY DEF Numbered
<1>3. 0..(k - 1) \cup {k} = 0..((k + 1) - 1)
  OBVIOUS
<1>4. \A y \in E : y.n # x.n
  BY <1>2
<1>5. \A y \in E : Header(y.ev) # Header(x.ev)
  OBVIOUS
<1>6. ASSUME NEW y \in E \cup {x}, NEW z \in E \cup {x}, y.n = z.n \/ y.ev = z.ev PROVE y = z
  BY <1>4, <1>5, <1>6 DEF Numbered
<1> QED BY <1>1, <1>2, <1>3, <1>6 DEF Numbered

LEMMA NumberedNone == Numbered({}, 0)
  BY DEF Numbered

LEMMA LocksAreJobs ==
  ASSUME Inv, NEW q \in Workers
  PROVE  w[q].lock \subseteq Jobs /\ w[q].shared \subseteq Jobs /\ w[q].gap \subseteq Jobs
<1>1. Own(db, w[q], pass[q])
  BY DEF Inv
<1>2. w[q].gap \subseteq Jobs
  BY <1>1 DEF Own, Pcs
<1>3. w[q].lock \subseteq Jobs /\ w[q].shared \subseteq Jobs
  BY <1>1 DEF Own, Pcs, Fresh, Storing, Idle
<1> QED BY <1>2, <1>3

\* The database e after the commit of the transaction r on d.
Outcome(d, e, r) ==
    /\ DOMAIN e = {"jobs", "states", "events", "members", "zombies", "purged", "dropped"}
    /\ DOMAIN e.jobs = Jobs /\ DOMAIN e.states = Jobs /\ DOMAIN e.events = Jobs /\ DOMAIN e.members = Jobs
    /\ e.jobs = [i \in Jobs |-> e.jobs[i]]
    /\ \A i \in Jobs :
         /\ e.jobs[i] = IF i \in r.wr /\ r.req.kind = "store" THEN r.view.jobs[i] ELSE d.jobs[i]
         /\ e.events[i] = d.events[i] \cup InsOf(r, i)
         /\ i \notin r.wr \cup r.hist => e.states[i] = d.states[i]
    /\ e.purged = d.purged
    /\ e.dropped = IF r.lost THEN d.dropped \cup {r.req} ELSE d.dropped \ {r.req}

LEMMA CommittedFields ==
  ASSUME NEW p, NEW e, e = Committed(p)
  PROVE  Outcome(db, e, w[p])
  BY DEF Committed, InsOf, Outcome

\* What the commit does to a job: nothing; or its row is made; or an event is
\* added, with the next number.  Other jobs than those of the transaction stay.
LEMMA CommittedJob ==
  ASSUME Inv, NEW p \in Workers, w[p].pc = "commit", NEW e, e = Committed(p), NEW i \in Jobs
  PROVE  /\ i \notin w[p].lock \cup w[p].shared =>
              e.jobs[i] = db.jobs[i] /\ e.events[i] = db.events[i] /\ e.states[i] = db.states[i]
         /\ e.jobs[i] \in Int /\ e.jobs[i] >= -1 /\ (db.jobs[i] >= 0 => e.jobs[i] >= 0)
         /\ e.events[i] = db.events[i] \cup InsOf(w[p], i)
         /\ i \notin db.purged =>
              \/ e.jobs[i] = db.jobs[i] /\ e.events[i] = db.events[i] /\ (db.jobs[i] < 0 => e.states[i] = db.states[i])
              \/ i \in w[p].wr /\ db.jobs[i] < 0 /\ e.jobs[i] = 0 /\ e.events[i] = db.events[i]
              \/ /\ i \in w[p].wr \cap w[p].lock /\ e.jobs[i] = Base(db, i) + 1
                 /\ \E x : e.events[i] = db.events[i] \cup {x} /\ x.n = Base(db, i) /\ Header(x.ev) \notin HeadersIn(db, i)
<1> DEFINE r == w[p]
<1>1. Sound(db) /\ Own(db, r, pass[p]) /\ db.jobs[i] \in Int /\ db.jobs[i] >= -1
  BY DEF Inv, Sound, Tables
<1>2. /\ e.jobs[i] = IF i \in r.wr /\ r.req.kind = "store" THEN r.view.jobs[i] ELSE db.jobs[i]
      /\ e.events[i] = db.events[i] \cup InsOf(r, i)
      /\ i \notin r.wr \cup r.hist => e.states[i] = db.states[i]
  <2>1. Outcome(db, e, r)
    BY CommittedFields
  <2> QED BY <2>1 DEF Outcome
<1>3. CASE r.req.kind # "store"
  <2>1. r.wr = {r.req.job} /\ r.lock = {r.req.job} /\ r.hist = {} /\ r.ins = {} /\ db.jobs[r.req.job] >= 0
    BY <1>1, <1>3 DEF Own
  <2>2. InsOf(r, i) = {}
    BY <2>1 DEF InsOf
  <2> HIDE DEF r
  <2>3. e.jobs[i] = db.jobs[i] /\ e.events[i] = db.events[i] /\ (i \notin {r.req.job} => e.states[i] = db.states[i])
    BY <1>2, <1>3, <2>1, <2>2
  <2>4. db.jobs[i] < 0 => i \notin {r.req.job}
    BY <1>1, <2>1
  <2> QED BY <1>1, <1>2, <2>1, <2>3, <2>4 DEF r
<1>4. CASE r.req.kind = "store"
  <2>1. Storing(db, r)
    BY <1>1, <1>4 DEF Own
  <2>2. CASE i \notin r.wr
    <3>1. InsOf(r, i) = {}
      BY <2>1, <2>2 DEF Storing, InsOf
    <3>2. e.jobs[i] = db.jobs[i] /\ e.events[i] = db.events[i]
      BY <1>2, <2>2, <3>1
    <3>3. i \in r.hist => i \in r.lock /\ db.jobs[i] >= 0
      BY <2>1 DEF Storing
    <3> QED BY <1>1, <1>2, <2>2, <3>2, <3>3
  <2>3. CASE i \in r.wr
    <3>1. /\ e.jobs[i] = r.view.jobs[i] /\ r.view.jobs[i] >= 0 /\ r.view.jobs[i] \in Int
          /\ i \in r.lock \cup r.shared
      BY <1>2, <1>4, <2>1, <2>3 DEF Storing, Tables
    <3>2. ASSUME i \notin db.purged, InsOf(r, i) = {}, r.view.jobs[i] = Base(db, i)
          PROVE  \/ e.jobs[i] = db.jobs[i] /\ e.events[i] = db.events[i] /\ ~(db.jobs[i] < 0)
                 \/ i \in r.wr /\ db.jobs[i] < 0 /\ e.jobs[i] = 0 /\ e.events[i] = db.events[i]
      BY <1>1, <1>2, <2>3, <3>1, <3>2 DEF Base
    <3>3. ASSUME i \notin db.purged, r.view.jobs[i] = Base(db, i) + 1, NEW x \in InsOf(r, i),
                 InsOf(r, i) = {x}, x.n = Base(db, i), Header(x.ev) \notin HeadersIn(db, i)
          PROVE  /\ i \in r.wr \cap r.lock /\ e.jobs[i] = Base(db, i) + 1
                 /\ \E y : e.events[i] = db.events[i] \cup {y} /\ y.n = Base(db, i) /\ Header(y.ev) \notin HeadersIn(db, i)
      <4>1. i \in r.lock
        BY <2>1, <3>3 DEF Storing, InsOf
      <4>2. e.events[i] = db.events[i] \cup {x}
        BY <1>2, <3>3
      <4> QED BY <2>3, <3>1, <3>3, <4>1, <4>2
    <3>4. i \notin db.purged => Pending(db, r, i)
      BY <2>1, <2>3 DEF Storing
    <3> HIDE DEF r
    <3>5. i \notin db.purged =>
              \/ e.jobs[i] = db.jobs[i] /\ e.events[i] = db.events[i] /\ ~(db.jobs[i] < 0)
              \/ i \in r.wr /\ db.jobs[i] < 0 /\ e.jobs[i] = 0 /\ e.events[i] = db.events[i]
              \/ /\ i \in r.wr \cap r.lock /\ e.jobs[i] = Base(db, i) + 1
                 /\ \E x : e.events[i] = db.events[i] \cup {x} /\ x.n = Base(db, i) /\ Header(x.ev) \notin HeadersIn(db, i)
      BY <3>2, <3>3, <3>4 DEF Pending
    <3> QED BY <1>1, <1>2, <3>1, <3>5 DEF r
  <2> QED BY <2>2, <2>3
<1> QED BY <1>3, <1>4

LEMMA CommittedSound ==
  ASSUME Inv, NEW p \in Workers, w[p].pc = "commit", NEW e, e = Committed(p)
  PROVE  Sound(e)
<1>1. Sound(db)
  BY DEF Inv
<1>2. Tables(e)
  <2>1. \A i \in Jobs : e.jobs[i] \in Int
    BY CommittedJob
  <2> QED BY <2>1, CommittedFields DEF Tables, Outcome
<1>3. e.purged = db.purged
  BY CommittedFields DEF Outcome
<1>4. ASSUME NEW i \in Jobs \ e.purged
      PROVE  IF e.jobs[i] < 0 THEN e.events[i] = {} /\ e.states[i] = NoRow
             ELSE Numbered(e.events[i], e.jobs[i])
  <2>1. i \in Jobs \ db.purged /\ db.jobs[i] \in Int /\ db.jobs[i] >= -1
    BY <1>1, <1>3 DEF Sound, Tables
  <2>2. IF db.jobs[i] < 0 THEN db.events[i] = {} /\ db.states[i] = NoRow
        ELSE Numbered(db.events[i], db.jobs[i])
    BY <1>1, <2>1 DEF Sound
  <2>3. CASE e.jobs[i] = db.jobs[i] /\ e.events[i] = db.events[i] /\ (db.jobs[i] < 0 => e.states[i] = db.states[i])
    BY <2>2, <2>3
  <2>4. CASE db.jobs[i] < 0 /\ e.jobs[i] = 0 /\ e.events[i] = db.events[i]
    BY <2>2, <2>4, NumberedNone
  <2>5. CASE /\ e.jobs[i] = Base(db, i) + 1
             /\ \E x : e.events[i] = db.events[i] \cup {x} /\ x.n = Base(db, i) /\ Header(x.ev) \notin HeadersIn(db, i)
    <3>1. PICK x : e.events[i] = db.events[i] \cup {x} /\ x.n = Base(db, i) /\ Header(x.ev) \notin HeadersIn(db, i)
      BY <2>5
    <3>2. Base(db, i) \in Nat /\ Numbered(db.events[i], Base(db, i))
      BY SMTT(30), <2>1, <2>2, NumberedNone DEF Base
    <3>3. Header(x.ev) \notin {Header(y.ev) : y \in db.events[i]}
      BY <3>1 DEF HeadersIn
    <3>4. Numbered(db.events[i] \cup {x}, Base(db, i) + 1)
      BY <3>1, <3>2, <3>3, NumberedMore
    <3>5. ~(e.jobs[i] < 0)
      BY <2>5, <3>2
    <3> QED BY <2>5, <3>1, <3>4, <3>5
  <2> QED BY <2>1, <2>3, <2>4, <2>5, CommittedJob
<1>5. \A i \in Jobs : e.jobs[i] >= -1
  BY CommittedJob
<1> QED BY <1>2, <1>4, <1>5 DEF Sound

LEMMA CommittedFits ==
  ASSUME Inv, NEW p \in Workers, w[p].pc = "commit", NEW e, e = Committed(p), NEW q \in Workers \ {p}
  PROVE  Fits(db, e, w[q])
<1>1. Fits(db, db, w[q]) /\ w[q].lock \subseteq Jobs /\ w[q].shared \subseteq Jobs /\ w[q].gap \subseteq Jobs
  BY FitsSame, LocksAreJobs
<1>2. Apart(w[p], w[q]) /\ Apart(w[q], w[p]) /\ Sound(db)
  BY DEF Inv
<1>3. e.purged = db.purged
  BY CommittedFields DEF Outcome
<1>4. ASSUME NEW i \in w[q].lock PROVE e.jobs[i] = db.jobs[i] /\ e.events[i] = db.events[i]
  <2>1. i \in Jobs /\ i \notin w[p].lock \cup w[p].shared
    BY <1>1, <1>2 DEF Apart
  <2> QED BY <2>1, CommittedJob
<1>5. ASSUME NEW i \in w[q].gap PROVE e.jobs[i] < 0
  <2>1. i \in Jobs /\ i \notin w[p].lock \cup w[p].shared /\ db.jobs[i] < 0
    BY <1>1, <1>2 DEF Apart, Fits
  <2> QED BY <2>1, CommittedJob
<1>6. ASSUME NEW i \in w[q].shared PROVE e.jobs[i] >= 0
  <2>1. i \in Jobs /\ db.jobs[i] >= 0
    BY <1>1 DEF Fits
  <2> QED BY <2>1, CommittedJob
<1>7. ASSUME NEW i \in w[q].shared, i \notin e.purged PROVE e.jobs[i] = db.jobs[i] /\ e.events[i] = db.events[i]
  <2>1. i \in Jobs /\ i \notin w[p].lock /\ db.jobs[i] >= 0 /\ i \notin db.purged
    BY <1>1, <1>2, <1>3, <1>7 DEF Apart, Fits
  <2>2. ~(db.jobs[i] < 0)
    BY <1>2, <2>1 DEF Sound, Tables
  <2> QED BY <2>1, <2>2, CommittedJob
<1>8. ASSUME NEW i \in Jobs, i \notin e.purged PROVE db.jobs[i] <= e.jobs[i] /\ db.events[i] \subseteq e.events[i]
  <2>1. db.jobs[i] \in Int /\ i \notin db.purged
    BY <1>2, <1>3, <1>8 DEF Sound, Tables
  <2>2. e.jobs[i] \in Int /\ e.events[i] = db.events[i] \cup InsOf(w[p], i)
    BY CommittedJob
  <2>3. e.jobs[i] = db.jobs[i] \/ (db.jobs[i] < 0 /\ e.jobs[i] = 0) \/ e.jobs[i] = Base(db, i) + 1
    BY <2>1, CommittedJob
  <2>4. db.jobs[i] <= e.jobs[i]
    BY <2>1, <2>2, <2>3 DEF Base
  <2> QED BY <2>2, <2>4
<1> QED BY <1>3, <1>4, <1>5, <1>6, <1>7, <1>8 DEF Fits

\* The acknowledged events are still there, and so is that of the request.
LEMMA CommittedKept ==
  ASSUME Inv, NEW p \in Workers, w[p].pc = "commit", NEW e, e = Committed(p)
  PROVE  Kept(e, acked \cup {w[p].req})
<1>1. Own(db, w[p], pass[p]) /\ Kept(db, acked)
  BY DEF Inv
<1>2. /\ e.purged = db.purged
      /\ e.dropped = IF w[p].lost THEN db.dropped \cup {w[p].req} ELSE db.dropped \ {w[p].req}
      /\ \A i \in Jobs : e.events[i] = db.events[i] \cup InsOf(w[p], i)
  <2>1. Outcome(db, e, w[p])
    BY CommittedFields
  <2> QED BY <2>1 DEF Outcome
<1>3. \A i \in Jobs : HeadersIn(db, i) \subseteq HeadersIn(e, i)
  BY <1>2, EventsGrow
<1>4. ASSUME NEW r \in acked \cup {w[p].req}, r.kind = "store"
      PROVE  r.job \in Jobs /\ (r.job \notin e.purged /\ r \notin e.dropped => Header(r.ev) \in HeadersIn(e, r.job))
  <2>1. CASE r # w[p].req
    <3>1. r \notin e.dropped => r \notin db.dropped
      BY <1>2, <2>1
    <3>2. r.job \in Jobs /\ (r.job \notin db.purged /\ r \notin db.dropped => Header(r.ev) \in HeadersIn(db, r.job))
      BY <1>1, <1>4, <2>1 DEF Kept
    <3> QED BY <1>2, <1>3, <3>1, <3>2
  <2>2. CASE r = w[p].req
    <3>1. r.job \in Jobs /\ Storing(db, w[p])
      BY <1>1, <1>4, <2>2 DEF Own
    <3>2. w[p].lost => r \in e.dropped
      BY <1>2, <2>2
    <3>3. ASSUME ~w[p].lost, r.job \notin db.purged PROVE Header(r.ev) \in HeadersIn(e, r.job)
      <4>1. Header(r.ev) \in HeadersIn(db, r.job) \/ \E x \in InsOf(w[p], r.job) : Header(x.ev) = Header(r.ev)
        BY <2>2, <3>1, <3>3 DEF Storing
      <4>2. InsOf(w[p], r.job) \subseteq e.events[r.job]
        BY <1>2, <3>1
      <4> QED BY <1>3, <3>1, <4>1, <4>2 DEF HeadersIn
    <3> QED BY <1>2, <3>1, <3>2, <3>3
  <2> QED BY <2>1, <2>2
<1> QED BY <1>4 DEF Kept

\* The commit, and what the process does next.
LEMMA CommittedStep ==
  ASSUME Inv, NEW p \in Workers, w[p].pc = "commit", db' = Committed(p), acked' \subseteq acked \cup {w[p].req},
         DOMAIN w' = Workers, \A q \in Workers \ {p} : w'[q] = w[q],
         DOMAIN pass' = Workers, \A q \in Workers \ {p} : pass'[q] = pass[q],
         Own(db', w'[p], pass'[p]), Todo(pass'[p]), Fresh(w'[p]), w'[p].gap = {},
         \A r \in inbox' : Proper(r)
  PROVE  Inv'
<1>1. \A q \in Workers \ {p} : Apart(w'[p], w[q]) /\ Apart(w[q], w'[p])
  BY ApartFree DEF Fresh
<1>2. Sound(db') /\ (\A q \in Workers \ {p} : Fits(db, db', w[q])) /\ Kept(db', acked \cup {w[p].req})
  BY CommittedSound, CommittedFits, CommittedKept
<1>3. Kept(db', acked')
  BY <1>2 DEF Kept
<1> QED BY <1>1, <1>2, <1>3, Step

LEMMA CommitStep ==
  ASSUME Inv, NEW p \in Workers, Commit(p), UNCHANGED pass
  PROVE  Inv'
<1>1. DOMAIN w = Workers /\ DOMAIN pass = Workers /\ Todo(pass[p]) /\ w[p].pc = "commit"
  BY DEF Inv, Commit
<1>2. /\ DOMAIN w' = Workers /\ \A q \in Workers \ {p} : w'[q] = w[q]
      /\ db' = Committed(p) /\ acked' = acked \cup {w[p].req} /\ inbox' = inbox /\ w'[p] = Idle
  BY <1>1 DEF Commit
<1>3. Own(db', Idle, pass[p]) /\ Fresh(Idle) /\ Idle.gap = {}
  BY IdleFields, OwnFresh
<1> QED BY <1>1, <1>2, <1>3, CommittedStep DEF Inv

LEMMA CommitLostStep ==
  ASSUME Inv, NEW p \in Workers, CommitLost(p), UNCHANGED pass
  PROVE  Inv'
<1>1. /\ DOMAIN w = Workers /\ DOMAIN pass = Workers /\ Todo(pass[p]) /\ w[p].pc = "commit"
      /\ Own(db, w[p], pass[p]) /\ w[p].req.kind = "store"
  BY DEF Inv, CommitLost
<1>2. /\ DOMAIN w' = Workers /\ \A q \in Workers \ {p} : w'[q] = w[q]
      /\ acked' = acked /\ inbox' = inbox \cup {w[p].req} /\ w'[p] = Idle /\ db' \in {db, Committed(p)}
  BY <1>1 DEF CommitLost
<1>3. Own(db', Idle, pass[p]) /\ Fresh(Idle) /\ Idle.gap = {}
  BY IdleFields, OwnFresh
<1>4. \A r \in inbox' : Proper(r)
  BY <1>1, <1>2 DEF Inv, Own, Proper
<1>5. CASE db' = db
  BY <1>1, <1>2, <1>3, <1>4, <1>5, ToFresh
<1>6. CASE db' = Committed(p)
  BY <1>1, <1>2, <1>3, <1>4, <1>6, CommittedStep
<1> QED BY <1>2, <1>5, <1>6

\* A step of a request to store an event or for a state.
LEMMA WorkStep ==
  ASSUME Inv, NEW p \in Workers, Work(p), UNCHANGED avars
  PROVE  Inv'
<1>0. UNCHANGED pass
  BY DEF avars
<1>1. ASSUME NEW r \in inbox, Take(p, r) PROVE Inv'
  BY <1>0, <1>1, TakeStep
<1>2. CASE StoreLocked(p)
  BY <1>0, <1>2, StoreLockedStep
<1>3. CASE LockAbsent(p)
  BY <1>0, <1>3, LockAbsentStep
<1>4. CASE NotRegistered(p)
  BY <1>0, <1>4, RefuseStep DEF NotRegistered
<1>5. CASE update_parent_status(p)
  BY <1>0, <1>5, ParentStep
<1>6. CASE register_subjobs_embryonic(p)
  BY <1>0, <1>6, SubjobsStep
<1>7. CASE Commit(p)
  BY <1>0, <1>7, CommitStep
<1>8. CASE Deadlock(p)
  BY <1>0, <1>8, RolledBackStep DEF Deadlock
<1>9. CASE StatusStored(p)
  BY <1>0, <1>9, StatusStoredStep
<1>10. CASE StatusUnknown(p)
  BY <1>0, <1>10, RefuseStep DEF StatusUnknown
<1>11. CASE StatusMissing(p)
  BY <1>0, <1>11, StatusMissingStep
<1>12. CASE StatusComputed(p)
  BY <1>0, <1>12, StatusComputedStep
<1>13. CASE LostConnection(p)
  BY <1>0, <1>13, RolledBackStep DEF LostConnection
<1>14. CASE CommitLost(p)
  BY <1>0, <1>14, CommitLostStep
<1>15. CASE RegistrationRejected(p)
  BY <1>0, <1>15, RefuseStep DEF RegistrationRejected
<1>16. CASE AclRejected(p)
  BY <1>0, <1>16, RefuseStep DEF AclRejected
<1> QED
  BY <1>1, <1>2, <1>3, <1>4, <1>5, <1>6, <1>7, <1>8, <1>9, <1>10, <1>11, <1>12, <1>13, <1>14, <1>15, <1>16
  DEF Work

-----------------------------------------------------------------------------
(* Purge: the pass over the jobs.                                           *)

LEMMA PassBeginStep ==
  ASSUME Inv, NEW p \in Workers, NEW r \in inbox, PassBegin(p, r)
  PROVE  Inv'
<1>1. DOMAIN w = Workers /\ DOMAIN pass = Workers /\ Proper(r) /\ w[p] = Idle /\ r.kind = "purge" /\ Todo(pass[p])
  BY DEF Inv, Own, PassBegin
<1>2. db' = db /\ acked' = acked /\ inbox' = inbox \ {r}
  BY DEF PassBegin
<1>3. \A i \in inbox' : Proper(i)
  BY <1>2 DEF Inv
<1>4. CASE UNCHANGED <<w, pass>>
  <2>1. Own(db, w'[p], pass'[p]) /\ Fresh(w'[p]) /\ w'[p].gap = {}
    BY <1>1, <1>4, IdleFields, OwnFresh
  <2> QED BY <1>1, <1>2, <1>3, <1>4, <2>1, ToFresh
<1>5. CASE /\ w' = [w EXCEPT ![p] = [Idle EXCEPT !.pc = "pass", !.ask = "look", !.req = OfJob(None)]]
           /\ pass' = [pass EXCEPT ![p] =
                         [req |-> r, id |-> NewId, file |-> <<>>, kids |-> {}, abort |-> None,
                          todo |-> IF r.jobs # {} THEN r.jobs
                                   ELSE {j \in Jobs : db.jobs[j] >= 0 /\ "server" \in db.members[j]}]]
  <2>1. /\ DOMAIN w' = Workers /\ \A q \in Workers \ {p} : w'[q] = w[q]
        /\ DOMAIN pass' = Workers /\ \A q \in Workers \ {p} : pass'[q] = pass[q]
    BY <1>1, <1>5
  <2>2. w'[p] = [Idle EXCEPT !.pc = "pass", !.ask = "look", !.req = OfJob(None)]
    BY <1>1, <1>5
  <2>3. /\ DOMAIN w'[p] = DOMAIN Idle /\ Fresh(w'[p]) /\ w'[p].gap = {} /\ w'[p].pc = "pass"
        /\ w'[p].req.kind = "purge"
    BY <2>2, IdleFields DEF Fresh, OfJob
  <2>4. r.jobs \subseteq Jobs
    BY <1>1 DEF Proper
  <2>5. /\ pass'[p].todo \subseteq Jobs /\ pass'[p].kids = {}
        /\ DOMAIN pass'[p] = {"req", "id", "file", "kids", "abort", "todo"}
    BY <1>1, <1>5, <2>4
  <2>6. pass'[p] # NoPass
    <3>1. DOMAIN NoPass = {"req"}
      BY DEF NoPass
    <3> QED BY <2>5, <3>1
  <2>7. Own(db, w'[p], pass'[p]) /\ Todo(pass'[p])
    BY <2>3, <2>5, <2>6, OwnFresh DEF Todo
  <2> QED BY <1>2, <1>3, <2>1, <2>3, <2>7, ToFresh
<1> QED BY <1>4, <1>5 DEF PassBegin

\* A process in a purge begins with the next job, or a new part of it.
Began(r, j, pc) ==
    /\ DOMAIN r = DOMAIN Idle /\ Fresh(r) /\ r.gap = {} /\ r.pc = pc
    /\ r.req.kind = "purge" /\ r.req.job = j

LEMMA BeganStep ==
  ASSUME Inv, NEW p \in Workers, db' = db, acked' = acked, inbox' = inbox, pass'[p] # NoPass, Todo(pass'[p]),
         DOMAIN w' = Workers, \A q \in Workers \ {p} : w'[q] = w[q],
         DOMAIN pass' = Workers, \A q \in Workers \ {p} : pass'[q] = pass[q],
         NEW j, NEW pc, Began(w'[p], j, pc), pc = "pass" \/ (pc \in {"purge", "delete", "status"} /\ j \in Jobs)
  PROVE  Inv'
<1>1. Own(db, w'[p], pass'[p]) /\ Fresh(w'[p]) /\ w'[p].gap = {}
  BY OwnFresh DEF Began
<1> QED BY <1>1, ToFresh DEF Inv

\* A purge that is left with the jobs or the subjobs in t to do.
LeftJobs(a, t) == [a EXCEPT !.todo = t]
LeftKids(a, t) == [a EXCEPT !.kids = t]

LEMMA LessToDo ==
  ASSUME NEW a, a # NoPass, Todo(a), NEW t, t \subseteq Jobs
  PROVE  /\ LeftJobs(a, t) # NoPass /\ Todo(LeftJobs(a, t)) /\ LeftJobs(a, t).req = a.req
         /\ LeftKids(a, t) # NoPass /\ Todo(LeftKids(a, t)) /\ LeftKids(a, t).req = a.req
<1>1. DOMAIN NoPass = {"req"} /\ DOMAIN a = {"req", "id", "file", "kids", "abort", "todo"}
  BY DEF NoPass, Todo
<1> DEFINE b == LeftJobs(a, t)
           c == LeftKids(a, t)
<1>2. DOMAIN b = DOMAIN a /\ b.todo = t /\ b.kids = a.kids /\ b.req = a.req
  BY <1>1 DEF LeftJobs
<1>3. DOMAIN c = DOMAIN a /\ c.todo = a.todo /\ c.kids = t /\ c.req = a.req
  BY <1>1 DEF LeftKids
<1>4. b # NoPass /\ c # NoPass
  BY <1>1, <1>2, <1>3
<1> HIDE DEF b, c
<1>5. Todo(b) /\ Todo(c)
  BY <1>1, <1>2, <1>3 DEF Todo
<1> QED BY <1>2, <1>3, <1>4, <1>5 DEF b, c

LEMMA PassLookStep ==
  ASSUME Inv, NEW p \in Workers, PassLook(p)
  PROVE  Inv'
<1>1. DOMAIN w = Workers /\ DOMAIN pass = Workers /\ Todo(pass[p]) /\ pass[p] # NoPass
  BY DEF Inv, Own, PassLook
<1>2. PICK j \in pass[p].todo :
        /\ w' = [w EXCEPT ![p] = [Idle EXCEPT !.pc = "status", !.ask = "look", !.req = OfJob(j)]]
        /\ pass' = [pass EXCEPT ![p].todo = @ \ {j}]
  BY ZenonT(30) DEF PassLook
<1>3. /\ DOMAIN w' = Workers /\ \A q \in Workers \ {p} : w'[q] = w[q]
      /\ DOMAIN pass' = Workers /\ \A q \in Workers \ {p} : pass'[q] = pass[q]
      /\ w'[p] = [Idle EXCEPT !.pc = "status", !.ask = "look", !.req = OfJob(j)]
      /\ pass'[p] = LeftJobs(pass[p], pass[p].todo \ {j})
  BY <1>1, <1>2 DEF LeftJobs
<1>4. Began(w'[p], j, "status")
  BY <1>3, IdleFields DEF Began, Fresh, OfJob
<1>5. j \in Jobs /\ pass[p].todo \ {j} \subseteq Jobs
  BY <1>1, <1>2 DEF Todo
<1>6. pass'[p] # NoPass /\ Todo(pass'[p])
  BY <1>1, <1>3, <1>5, LessToDo
<1>7. db' = db /\ acked' = acked /\ inbox' = inbox
  BY DEF PassLook
<1> QED BY <1>3, <1>4, <1>5, <1>6, <1>7, BeganStep

LEMMA PassSubjobStep ==
  ASSUME Inv, NEW p \in Workers, PassSubjob(p)
  PROVE  Inv'
<1>1. DOMAIN w = Workers /\ DOMAIN pass = Workers /\ Todo(pass[p]) /\ pass[p] # NoPass
  BY DEF Inv, Own, PassSubjob
<1>2. PICK c \in pass[p].kids :
        /\ w' = [w EXCEPT ![p] = [Idle EXCEPT !.pc = "purge", !.ask = "type", !.req = OfJob(c)]]
        /\ pass' = [pass EXCEPT ![p].kids = @ \ {c}]
  BY ZenonT(30) DEF PassSubjob
<1>3. /\ DOMAIN w' = Workers /\ \A q \in Workers \ {p} : w'[q] = w[q]
      /\ DOMAIN pass' = Workers /\ \A q \in Workers \ {p} : pass'[q] = pass[q]
      /\ w'[p] = [Idle EXCEPT !.pc = "purge", !.ask = "type", !.req = OfJob(c)]
      /\ pass'[p] = LeftKids(pass[p], pass[p].kids \ {c})
  BY <1>1, <1>2 DEF LeftKids
<1>4. Began(w'[p], c, "purge")
  BY <1>3, IdleFields DEF Began, Fresh, OfJob
<1>5. c \in Jobs /\ pass[p].kids \ {c} \subseteq Jobs
  BY <1>1, <1>2 DEF Todo
<1>6. pass'[p] # NoPass /\ Todo(pass'[p])
  BY <1>1, <1>3, <1>5, LessToDo
<1>7. db' = db /\ acked' = acked /\ inbox' = inbox
  BY DEF PassSubjob
<1> QED BY <1>3, <1>4, <1>5, <1>6, <1>7, BeganStep

LEMMA PassErrorStep ==
  ASSUME Inv, NEW p \in Workers, PassError(p)
  PROVE  Inv'
<1>1. /\ DOMAIN w = Workers /\ DOMAIN pass = Workers /\ Todo(pass[p]) /\ pass[p] # NoPass
      /\ DOMAIN w[p] = DOMAIN Idle /\ Fresh(w[p]) /\ w[p].gap = {} /\ w[p].req.kind = "purge" /\ w[p].pc = "pass"
  BY DEF Inv, Own, PassError
<1>2. PICK a : pass' = [pass EXCEPT ![p].kids = {}, ![p].abort = a]
  BY DEF PassError
<1>3. /\ DOMAIN w' = Workers /\ \A q \in Workers \ {p} : w'[q] = w[q]
      /\ DOMAIN pass' = Workers /\ \A q \in Workers \ {p} : pass'[q] = pass[q]
      /\ w'[p] = [w[p] EXCEPT !.err = None, !.ask = "look"]
      /\ pass'[p] = [pass[p] EXCEPT !.kids = {}, !.abort = a]
  BY <1>1, <1>2 DEF PassError
<1>4. Began(w'[p], w[p].req.job, "pass")
  BY <1>1, <1>3, IdleFields DEF Began, Fresh
<1>5. DOMAIN NoPass = {"req"} /\ DOMAIN pass[p] = {"req", "id", "file", "kids", "abort", "todo"}
  BY <1>1 DEF NoPass, Todo
<1>6. DOMAIN pass'[p] = DOMAIN pass[p] /\ pass'[p].todo = pass[p].todo /\ pass'[p].kids = {}
  BY <1>3, <1>5
<1>7. pass'[p] # NoPass
  BY <1>5, <1>6
<1>8. Todo(pass'[p])
  BY <1>1, <1>5, <1>6, <1>7 DEF Todo
<1>9. db' = db /\ acked' = acked /\ inbox' = inbox
  BY DEF PassError
<1> QED BY <1>3, <1>4, <1>7, <1>8, <1>9, BeganStep

\* The end, and the death of the process.
LEMMA PassOverStep ==
  ASSUME Inv, NEW p \in Workers, w' = [w EXCEPT ![p] = Idle], pass' = [pass EXCEPT ![p] = NoPass],
         UNCHANGED <<db, inbox, acked>>
  PROVE  Inv'
<1>1. /\ DOMAIN w' = Workers /\ \A q \in Workers \ {p} : w'[q] = w[q]
      /\ DOMAIN pass' = Workers /\ \A q \in Workers \ {p} : pass'[q] = pass[q]
      /\ w'[p] = Idle /\ pass'[p] = NoPass
  BY DEF Inv
<1>2. Own(db, w'[p], pass'[p]) /\ Fresh(w'[p]) /\ w'[p].gap = {} /\ Todo(pass'[p])
  BY <1>1, IdleFields, OwnFresh DEF Todo
<1> QED BY <1>1, <1>2, ToFresh DEF Inv

LEMMA PassQuitStep ==
  ASSUME Inv, NEW p \in Workers, PassQuit(p)
  PROVE  Inv'
<1>1. /\ DOMAIN w = Workers /\ DOMAIN pass = Workers /\ Todo(pass[p]) /\ pass[p] # NoPass
      /\ DOMAIN w[p] = DOMAIN Idle /\ Fresh(w[p]) /\ w[p].gap = {} /\ w[p].req.kind = "purge" /\ w[p].pc = "pass"
  BY DEF Inv, Own, PassQuit
<1>2. /\ w' = w /\ DOMAIN pass' = Workers /\ (\A q \in Workers \ {p} : pass'[q] = pass[q])
      /\ pass'[p] = LeftJobs(pass[p], {}) /\ db' = db /\ acked' = acked /\ inbox' = inbox
  BY <1>1 DEF PassQuit, LeftJobs
<1>3. pass'[p] # NoPass /\ Todo(pass'[p])
  BY <1>1, <1>2, LessToDo
<1>4. Began(w'[p], w[p].req.job, "pass")
  BY <1>1, <1>2 DEF Began
<1> QED BY <1>1, <1>2, <1>3, <1>4, BeganStep

\* The state of a job is known: it was in the database, or is committed now.
LEMMA KnownStep ==
  ASSUME Inv, NEW p \in Workers, Known_(p), acked' = acked, inbox' = inbox, pass'[p] # NoPass, Todo(pass'[p]),
         DOMAIN w' = Workers, \A q \in Workers \ {p} : w'[q] = w[q],
         DOMAIN pass' = Workers, \A q \in Workers \ {p} : pass'[q] = pass[q],
         NEW j, NEW pc, Began(w'[p], j, pc), pc = "pass" \/ (pc \in {"purge", "delete", "status"} /\ j \in Jobs)
  PROVE  Inv'
<1>1. CASE db' = db
  BY <1>1, BeganStep
<1>2. CASE w[p].pc = "commit" /\ db' = Committed(p)
  <2>1. Own(db', w'[p], pass'[p]) /\ Fresh(w'[p]) /\ w'[p].gap = {}
    BY OwnFresh DEF Began
  <2>2. \A r \in inbox' : Proper(r)
    BY DEF Inv
  <2> QED BY <1>2, <2>1, <2>2, CommittedStep
<1> QED BY <1>1, <1>2 DEF Known_

LEMMA PassLookedStep ==
  ASSUME Inv, NEW p \in Workers, PassLooked(p)
  PROVE  Inv'
<1> DEFINE j == w[p].req.job
           go == pass[p].req.jobs # {} \/ purge_check(db', j, pass[p].req.timeout)
           pc == IF go THEN "purge" ELSE "pass"
           ask == IF go THEN "type" ELSE "look"
           kids == IF go THEN Children(db', j) ELSE {}
<1>1. DOMAIN w = Workers /\ DOMAIN pass = Workers /\ Todo(pass[p]) /\ pass[p] # NoPass /\ Known_(p)
  BY DEF Inv, PassLooked
<1>2. j \in Jobs /\ w[p].req.kind = "purge"
  BY <1>1 DEF Inv, Own, Known_
<1>3. /\ w' = [w EXCEPT ![p] = [Idle EXCEPT !.pc = pc, !.req = w[p].req, !.ask = ask]]
      /\ pass' = [pass EXCEPT ![p].kids = kids]
      /\ acked' = acked /\ inbox' = inbox
  BY DEF PassLooked
<1>4. kids \subseteq Jobs
  BY DEF Children, Sub
<1>5. pc \in {"purge", "pass"}
  OBVIOUS
<1> HIDE DEF pc, ask, kids
<1>6. /\ DOMAIN w' = Workers /\ \A q \in Workers \ {p} : w'[q] = w[q]
      /\ DOMAIN pass' = Workers /\ \A q \in Workers \ {p} : pass'[q] = pass[q]
      /\ w'[p] = [Idle EXCEPT !.pc = pc, !.req = w[p].req, !.ask = ask]
      /\ pass'[p] = LeftKids(pass[p], kids)
  BY <1>1, <1>3 DEF LeftKids
<1>7. Began(w'[p], j, pc)
  BY <1>2, <1>6, IdleFields DEF Began, Fresh
<1>8. pass'[p] # NoPass /\ Todo(pass'[p])
  BY <1>1, <1>4, <1>6, LessToDo
<1> QED BY <1>1, <1>2, <1>3, <1>5, <1>6, <1>7, <1>8, KnownStep

LEMMA PurgeTypeStep ==
  ASSUME Inv, NEW p \in Workers, PurgeType(p)
  PROVE  Inv'
<1> DEFINE j == w[p].req.job
<1>1. DOMAIN w = Workers /\ DOMAIN pass = Workers /\ Todo(pass[p]) /\ pass[p] # NoPass /\ Known_(p)
  BY DEF Inv, PurgeType
<1>2. j \in Jobs /\ w[p].req.kind = "purge"
  BY <1>1 DEF Inv, Own, Known_
<1>3. /\ DOMAIN w' = Workers /\ \A q \in Workers \ {p} : w'[q] = w[q]
      /\ w'[p] = [Idle EXCEPT !.pc = "delete", !.ask = "type", !.req = w[p].req]
      /\ pass' = pass /\ acked' = acked /\ inbox' = inbox
  BY <1>1 DEF PurgeType, avars
<1>4. Began(w'[p], j, "delete")
  BY <1>2, <1>3, IdleFields DEF Began, Fresh
<1> QED BY <1>1, <1>2, <1>3, <1>4, KnownStep

-----------------------------------------------------------------------------
(* Purge: the rows of one job.                                              *)

\* Only rows of the job j change, of which the events, their number and the
\* state only when the job counts as purged.
RowsOf(p, j, e) ==
    /\ Tables(e) /\ e.dropped = db.dropped /\ db.purged \subseteq e.purged /\ e.purged \subseteq db.purged \cup {j}
    /\ \A i \in Jobs : i # j \/ j \notin e.purged =>
          e.jobs[i] = db.jobs[i] /\ e.events[i] = db.events[i] /\ e.states[i] = db.states[i]
    /\ \/ e.jobs[j] = db.jobs[j]
       \/ e.jobs[j] = -1 /\ \A q \in Workers \ {p} : j \notin w[q].lock \cup w[q].shared

LEMMA RowsChange ==
  ASSUME Inv, NEW p \in Workers, NEW j \in Jobs, NEW e, RowsOf(p, j, e)
  PROVE  Sound(e) /\ (\A q \in Workers \ {p} : Fits(db, e, w[q])) /\ Kept(e, acked)
<1>1. Sound(db) /\ Kept(db, acked)
  BY DEF Inv
<1>2. \A i \in Jobs : i \notin e.purged =>
        /\ i \notin db.purged
        /\ e.jobs[i] = db.jobs[i] /\ e.events[i] = db.events[i] /\ e.states[i] = db.states[i]
  BY DEF RowsOf
<1>3. \A i \in Jobs : e.jobs[i] = db.jobs[i] \/ e.jobs[i] = -1
  BY DEF RowsOf
<1>4. Sound(e)
  <2>1. \A i \in Jobs : e.jobs[i] >= -1
    BY <1>1, <1>3 DEF Sound
  <2>2. ASSUME NEW i \in Jobs \ e.purged
        PROVE  IF e.jobs[i] < 0 THEN e.events[i] = {} /\ e.states[i] = NoRow ELSE Numbered(e.events[i], e.jobs[i])
    <3>1. IF db.jobs[i] < 0 THEN db.events[i] = {} /\ db.states[i] = NoRow ELSE Numbered(db.events[i], db.jobs[i])
      BY <1>1, <1>2 DEF Sound
    <3> QED BY <1>2, <3>1
  <2> QED BY <2>1, <2>2 DEF Sound, RowsOf
<1>5. ASSUME NEW q \in Workers \ {p} PROVE Fits(db, e, w[q])
  <2>1. Fits(db, db, w[q]) /\ w[q].lock \subseteq Jobs /\ w[q].shared \subseteq Jobs /\ w[q].gap \subseteq Jobs
    BY FitsSame, LocksAreJobs
  <2>2. \A i \in w[q].lock \cup w[q].shared : e.jobs[i] = db.jobs[i]
    BY <2>1 DEF RowsOf
  <2>3. \A i \in w[q].gap : e.jobs[i] < 0
    BY <1>3, <2>1 DEF Fits
  <2>4. \A i \in w[q].shared : e.jobs[i] >= 0
    BY <2>1, <2>2 DEF Fits
  <2>5. \A i \in Jobs : i \notin e.purged => db.jobs[i] <= e.jobs[i] /\ db.events[i] \subseteq e.events[i]
    BY <1>1, <1>2 DEF Sound, Tables
  <2>6. db.purged \subseteq e.purged
    BY DEF RowsOf
  <2> QED BY <1>2, <2>1, <2>2, <2>3, <2>4, <2>5, <2>6 DEF Fits
<1>6. Kept(e, acked)
  <2>1. \A i \in Jobs : i \notin e.purged => i \notin db.purged /\ HeadersIn(e, i) = HeadersIn(db, i)
    BY <1>2 DEF HeadersIn
  <2>2. e.dropped = db.dropped
    BY DEF RowsOf
  <2> QED BY <1>1, <2>1, <2>2 DEF Kept
<1> QED BY <1>4, <1>5, <1>6

LEMMA RowsStep ==
  ASSUME Inv, NEW p \in Workers, NEW j \in Jobs, RowsOf(p, j, db'),
         DOMAIN w' = Workers, \A q \in Workers \ {p} : w'[q] = w[q],
         DOMAIN pass' = Workers, \A q \in Workers \ {p} : pass'[q] = pass[q],
         inbox' = inbox, acked' = acked, Own(db', w'[p], pass'[p]), Todo(pass'[p]),
         \A q \in Workers \ {p} : Apart(w'[p], w[q]) /\ Apart(w[q], w'[p])
  PROVE  Inv'
<1>1. Sound(db') /\ (\A q \in Workers \ {p} : Fits(db, db', w[q])) /\ Kept(db', acked')
  BY RowsChange
<1>2. \A r \in inbox' : Proper(r)
  BY DEF Inv
<1> QED BY <1>1, <1>2, Step

\* The events of the job are gone through, with the job locked when they are
\* only to be dumped.
Listing(r, j, pc, lock) ==
    /\ DOMAIN r = DOMAIN Idle /\ r.pc = pc /\ r.req.kind = "purge" /\ r.req.job = j
    /\ r.lock = lock /\ r.shared = {} /\ r.gap = {} /\ r.wr = {} /\ r.hist = {}

LEMMA OwnListing ==
  ASSUME NEW d, NEW r, NEW pp, NEW j \in Jobs, NEW pc, NEW lock, Listing(r, j, pc, lock), pp # NoPass,
         \/ pc \in {"events", "remove"} /\ lock = {} /\ j \in d.purged
         \/ pc = "events" /\ lock = {j} /\ pp.req.dump
  PROVE  Own(d, r, pp)
  BY DEF Own, Listing, Pcs

LEMMA ListedIs ==
  ASSUME NEW p, NEW v, NEW lock, w[p].req.kind = "purge"
  PROVE  Listing(Listed(p, v, lock), w[p].req.job, "events", lock)
  BY IdleFields DEF Listed, Listing, Fresh

LEMMA OneDoneIs ==
  ASSUME NEW p, w[p].req.kind = "purge"
  PROVE  Began(OneDone(p), w[p].req.job, "pass")
  BY IdleFields DEF OneDone, Began, Fresh

\* The purge of one job begins.
LEMMA PurgeBeginStep ==
  ASSUME Inv, NEW p \in Workers, PurgeBegin(p)
  PROVE  Inv'
<1> DEFINE j == w[p].req.job
           r == pass[p].req
           both == db.members[j] = {"server", "proxy"}
           m == IF both THEN {"proxy"} ELSE db.members[j]
<1>1. /\ DOMAIN w = Workers /\ DOMAIN pass = Workers /\ Todo(pass[p]) /\ Own(db, w[p], pass[p]) /\ Sound(db)
      /\ w[p].pc = "purge" /\ Granted(p) /\ db.jobs[j] >= 0
  BY DEF Inv, PurgeBegin
<1>2. /\ j \in Jobs /\ w[p].req.kind = "purge" /\ pass[p] # NoPass /\ Tables(db)
      /\ DOMAIN w[p] = DOMAIN Idle /\ Fresh(w[p]) /\ w[p].gap = {}
  BY <1>1 DEF Own, Sound
<1>3. /\ db' = [db EXCEPT !.members[j] = m]
      /\ DOMAIN w' = Workers /\ \A q \in Workers \ {p} : w'[q] = w[q]
      /\ pass' = pass /\ acked' = acked /\ inbox' = inbox
      /\ \/ w'[p] = OneDone(p)
         \/ w'[p] = [w[p] EXCEPT !.pc = "status"]
         \/ r.dump /\ w'[p] = Listed(p, db, {j})
  <2>1. db' = [db EXCEPT !.members[j] = m] /\ pass' = pass /\ acked' = acked /\ inbox' = inbox
    BY DEF PurgeBegin, avars
  <2>2. w' = [w EXCEPT ![p] = CASE db.members[j] = {"proxy"} -> OneDone(p)
                                [] r.really /\ ~both -> [@ EXCEPT !.pc = "status"]
                                [] OTHER -> IF r.dump THEN Listed(p, db, {j}) ELSE OneDone(p)]
    BY DEF PurgeBegin
  <2> QED BY SMTT(30), <1>1, <2>1, <2>2
<1> HIDE DEF m, r
<1>4. RowsOf(p, j, db')
  BY <1>2, <1>3 DEF RowsOf, Tables
<1>5. CASE w'[p] = OneDone(p) \/ w'[p] = [w[p] EXCEPT !.pc = "status"]
  <2>1. Began(w'[p], j, "pass") \/ Began(w'[p], j, "status")
    <3>1. CASE w'[p] = OneDone(p)
      BY <1>2, <3>1, OneDoneIs
    <3>2. CASE w'[p] = [w[p] EXCEPT !.pc = "status"]
      BY <1>2, <3>2, IdleFields DEF Began, Fresh
    <3> QED BY <1>5, <3>1, <3>2
  <2>2. Own(db', w'[p], pass'[p]) /\ Fresh(w'[p]) /\ w'[p].gap = {}
    BY <1>2, <1>3, <2>1, OwnFresh DEF Began
  <2>3. \A q \in Workers \ {p} : Apart(w'[p], w[q]) /\ Apart(w[q], w'[p])
    BY <2>2, ApartFree DEF Fresh
  <2> QED BY <1>1, <1>2, <1>3, <1>4, <2>2, <2>3, RowsStep
<1>6. CASE r.dump /\ w'[p] = Listed(p, db, {j})
  <2>1. Listing(w'[p], j, "events", {j})
    BY <1>2, <1>6, ListedIs
  <2>2. Own(db', w'[p], pass'[p])
    BY <1>2, <1>3, <1>6, <2>1, OwnListing DEF r
  <2>3. Wants(p) = [job |-> j, mode |-> "X"]
    BY <1>1 DEF Wants
  <2>4. ASSUME NEW q \in Workers \ {p} PROVE Apart(w'[p], w[q]) /\ Apart(w[q], w'[p])
    <3>1. j \notin w[q].lock /\ j \notin w[q].shared /\ j \notin w[q].gap
      BY <1>1, <1>2, <2>3, GrantedFree
    <3> QED BY <2>1, <3>1 DEF Apart, Listing
  <2> QED BY <1>1, <1>2, <1>3, <1>4, <2>2, <2>4, RowsStep
<1> QED BY <1>3, <1>5, <1>6

\* Nothing is to be done for the job, or no more.
LEMMA OneDoneStep ==
  ASSUME Inv, NEW p \in Workers, w[p].pc \in {"purge", "events"}, w' = [w EXCEPT ![p] = OneDone(p)],
         UNCHANGED <<db, inbox, acked, pass>>
  PROVE  Inv'
<1>1. /\ DOMAIN w = Workers /\ DOMAIN pass = Workers /\ Todo(pass[p])
      /\ w[p].req.kind = "purge" /\ pass[p] # NoPass
  BY DEF Inv, Own
<1>2. DOMAIN w' = Workers /\ (\A q \in Workers \ {p} : w'[q] = w[q]) /\ w'[p] = OneDone(p)
  BY <1>1
<1>3. Began(w'[p], w[p].req.job, "pass")
  BY <1>1, <1>2, OneDoneIs
<1> QED BY <1>1, <1>2, <1>3, BeganStep

\* The row of table jobs goes.
LEMMA PurgeJobsStep ==
  ASSUME Inv, NEW p \in Workers, PurgeJobs(p)
  PROVE  Inv'
<1> DEFINE j == w[p].req.job
<1>1. /\ DOMAIN w = Workers /\ DOMAIN pass = Workers /\ Todo(pass[p]) /\ Own(db, w[p], pass[p]) /\ Sound(db)
      /\ w[p].pc = "delete" /\ Granted(p)
  BY DEF Inv, PurgeJobs
<1>2. /\ j \in Jobs /\ w[p].req.kind = "purge" /\ pass[p] # NoPass /\ Tables(db)
      /\ DOMAIN w[p] = DOMAIN Idle /\ Fresh(w[p]) /\ w[p].gap = {}
  BY <1>1 DEF Own, Sound
<1>3. /\ db' = [db EXCEPT !.jobs[j] = -1, !.members[j] = {}, !.purged = db.purged \cup {j}]
      /\ DOMAIN w' = Workers /\ \A q \in Workers \ {p} : w'[q] = w[q]
      /\ pass' = pass /\ acked' = acked /\ inbox' = inbox
      /\ w'[p] = [w[p] EXCEPT !.pc = "states"]
  BY <1>1, <1>2 DEF PurgeJobs, avars
<1>4. Began(w'[p], j, "states")
  BY <1>2, <1>3, IdleFields DEF Began, Fresh
<1>5. Wants(p) = [job |-> j, mode |-> "X"]
  BY <1>1 DEF Wants
<1>6. \A q \in Workers \ {p} : j \notin w[q].lock \cup w[q].shared
  BY <1>1, <1>2, <1>5, GrantedFree
<1>7. /\ Tables(db') /\ db'.dropped = db.dropped /\ db'.purged = db.purged \cup {j} /\ db'.jobs[j] = -1
      /\ \A i \in Jobs \ {j} : db'.jobs[i] = db.jobs[i] /\ db'.events[i] = db.events[i] /\ db'.states[i] = db.states[i]
  BY <1>2, <1>3 DEF Tables
<1>8. RowsOf(p, j, db')
  BY <1>6, <1>7 DEF RowsOf
<1>9. Own(db', w'[p], pass'[p]) /\ Fresh(w'[p]) /\ w'[p].gap = {}
  BY <1>2, <1>3, <1>4, <1>7, OwnFresh DEF Began
<1>10. \A q \in Workers \ {p} : Apart(w'[p], w[q]) /\ Apart(w[q], w'[p])
  BY <1>9, ApartFree DEF Fresh
<1> QED BY <1>1, <1>2, <1>3, <1>8, <1>9, <1>10, RowsStep

\* The state goes, and the job joins the zombies.
LEMMA PurgeStatesStep ==
  ASSUME Inv, NEW p \in Workers, PurgeStates(p)
  PROVE  Inv'
<1> DEFINE j == w[p].req.job
<1>1. /\ DOMAIN w = Workers /\ DOMAIN pass = Workers /\ Todo(pass[p]) /\ Own(db, w[p], pass[p]) /\ Sound(db)
      /\ w[p].pc = "states"
  BY DEF Inv, PurgeStates
<1>2. /\ j \in Jobs /\ w[p].req.kind = "purge" /\ pass[p] # NoPass /\ Tables(db) /\ j \in db.purged
      /\ DOMAIN w[p] = DOMAIN Idle /\ Fresh(w[p]) /\ w[p].gap = {}
  BY <1>1 DEF Own, Sound
<1>3. /\ db' = [db EXCEPT !.states[j] = NoRow]
      /\ DOMAIN w' = Workers /\ \A q \in Workers \ {p} : w'[q] = w[q]
      /\ pass' = pass /\ acked' = acked /\ inbox' = inbox
      /\ w'[p] = [w[p] EXCEPT !.pc = "zombie"]
  BY <1>1, <1>2 DEF PurgeStates, avars
<1>4. Began(w'[p], j, "zombie")
  BY <1>2, <1>3, IdleFields DEF Began, Fresh
<1>5. /\ Tables(db') /\ db'.dropped = db.dropped /\ db'.purged = db.purged /\ db'.jobs = db.jobs
      /\ \A i \in Jobs \ {j} : db'.events[i] = db.events[i] /\ db'.states[i] = db.states[i]
  BY <1>2, <1>3 DEF Tables
<1>6. RowsOf(p, j, db')
  BY <1>2, <1>5 DEF RowsOf
<1>7. Own(db', w'[p], pass'[p]) /\ Fresh(w'[p]) /\ w'[p].gap = {}
  BY <1>2, <1>3, <1>4, <1>5, OwnFresh DEF Began
<1>8. \A q \in Workers \ {p} : Apart(w'[p], w[q]) /\ Apart(w[q], w'[p])
  BY <1>7, ApartFree DEF Fresh
<1> QED BY <1>1, <1>2, <1>3, <1>6, <1>7, <1>8, RowsStep

LEMMA PurgeZombieStep ==
  ASSUME Inv, NEW p \in Workers, PurgeZombie(p)
  PROVE  Inv'
<1> DEFINE j == w[p].req.job
<1>1. /\ DOMAIN w = Workers /\ DOMAIN pass = Workers /\ Todo(pass[p]) /\ Own(db, w[p], pass[p]) /\ Sound(db)
      /\ w[p].pc = "zombie"
  BY DEF Inv, PurgeZombie
<1>2. /\ j \in Jobs /\ w[p].req.kind = "purge" /\ pass[p] # NoPass /\ Tables(db) /\ j \in db.purged
  BY <1>1 DEF Own, Sound
<1>3. /\ db' = [db EXCEPT !.zombies = db.zombies \cup {j}]
      /\ DOMAIN w' = Workers /\ \A q \in Workers \ {p} : w'[q] = w[q]
      /\ pass' = pass /\ acked' = acked /\ inbox' = inbox
      /\ w'[p] = Listed(p, db, {})
  BY <1>1, <1>2 DEF PurgeZombie, avars
<1>4. Listing(w'[p], j, "events", {})
  BY <1>2, <1>3, ListedIs
<1>5. /\ Tables(db') /\ db'.dropped = db.dropped /\ db'.purged = db.purged /\ db'.jobs = db.jobs
      /\ db'.events = db.events /\ db'.states = db.states
  BY <1>2, <1>3 DEF Tables
<1>6. RowsOf(p, j, db')
  BY <1>2, <1>5 DEF RowsOf
<1>7. Own(db', w'[p], pass'[p])
  BY <1>2, <1>3, <1>4, <1>5, OwnListing
<1>8. \A q \in Workers \ {p} : Apart(w'[p], w[q]) /\ Apart(w[q], w'[p])
  BY <1>4, ApartFree DEF Listing
<1> QED BY <1>1, <1>2, <1>3, <1>6, <1>7, <1>8, RowsStep

\* The events are gone through: the next one is dumped, or left to be removed.
LEMMA NextListed ==
  ASSUME Inv, NEW p \in Workers, w[p].pc = "events", NEW n
  PROVE  LET j == w[p].req.job
         IN  \/ w[p].lock = {} /\ j \in db.purged /\ Listing(Next_(p, n), j, "remove", {})
             \/ w[p].lock = {j} /\ pass[p].req.dump /\ Listing(Next_(p, n), j, "events", {j})
<1> DEFINE j == w[p].req.job
           o == w[p]
<1>1. /\ DOMAIN o = DOMAIN Idle /\ o.req.kind = "purge" /\ o.gap = {}
      /\ o.lock \subseteq {j} /\ o.shared = {} /\ o.wr = {} /\ o.hist = {}
      /\ o.lock = {} => j \in db.purged
      /\ o.lock # {} => pass[p].req.dump
  BY DEF Inv, Own
<1>2. DOMAIN o = {"pc", "req", "view", "wr", "hist", "ins", "lock", "shared", "gap", "old", "new",
                  "reg", "subs", "lost", "ask", "err"}
  BY <1>1, IdleFields
<1>3. CASE o.lock = {}
  <2>1. Next_(p, n) = [o EXCEPT !.pc = "remove", !.ins = o.ins]
    BY <1>3 DEF Next_
  <2>2. Listing(Next_(p, n), j, "remove", {})
    BY <1>1, <1>2, <1>3, <2>1 DEF Listing
  <2> QED BY <1>1, <1>3, <2>2
<1>4. CASE o.lock # {}
  <2>1. Next_(p, n) = [o EXCEPT !.pc = "events", !.ins = o.ins \ {n}]
    BY <1>4 DEF Next_
  <2>2. o.lock = {j}
    BY <1>1, <1>4
  <2>3. Listing(Next_(p, n), j, "events", {j})
    BY <1>1, <1>2, <2>1, <2>2 DEF Listing
  <2> QED BY <1>1, <1>4, <2>2, <2>3
<1> QED BY <1>3, <1>4

\* The purge's file gets more lines.
Longer(a, f) == [a EXCEPT !.file = f]

LEMMA LongerToDo ==
  ASSUME NEW a, a # NoPass, Todo(a), NEW f
  PROVE  Longer(a, f) # NoPass /\ Todo(Longer(a, f)) /\ Longer(a, f).req = a.req
<1>1. DOMAIN NoPass = {"req"} /\ DOMAIN a = {"req", "id", "file", "kids", "abort", "todo"}
  BY DEF NoPass, Todo
<1> DEFINE b == Longer(a, f)
<1>2. DOMAIN b = DOMAIN a /\ b.todo = a.todo /\ b.kids = a.kids /\ b.req = a.req
  BY <1>1 DEF Longer
<1>3. b # NoPass
  BY <1>1, <1>2
<1> HIDE DEF b
<1>4. Todo(b)
  BY <1>1, <1>2, <1>3 DEF Todo
<1> QED BY <1>2, <1>3, <1>4 DEF b

LEMMA DumpedStep ==
  ASSUME Inv, NEW p \in Workers, w[p].pc = "events", NEW n, w' = [w EXCEPT ![p] = Next_(p, n)],
         UNCHANGED <<db, inbox, acked>>,
         DOMAIN pass' = Workers, \A q \in Workers \ {p} : pass'[q] = pass[q],
         pass'[p] # NoPass, Todo(pass'[p]), pass'[p].req = pass[p].req
  PROVE  Inv'
<1> DEFINE j == w[p].req.job
<1>1. /\ DOMAIN w = Workers /\ j \in Jobs
      /\ \A q \in Workers \ {p} : Apart(w[p], w[q]) /\ Apart(w[q], w[p])
  BY DEF Inv, Own
<1>2. DOMAIN w' = Workers /\ (\A q \in Workers \ {p} : w'[q] = w[q]) /\ w'[p] = Next_(p, n)
  BY <1>1
<1>3. \/ w[p].lock = {} /\ j \in db.purged /\ Listing(w'[p], j, "remove", {})
      \/ w[p].lock = {j} /\ pass'[p].req.dump /\ Listing(w'[p], j, "events", {j})
  BY <1>2, NextListed
<1>4. Own(db, w'[p], pass'[p])
  BY <1>1, <1>3, OwnListing
<1>5. w'[p].lock = w[p].lock /\ w'[p].shared = {} /\ w'[p].gap = {}
  BY <1>3 DEF Listing
<1>6. \A q \in Workers \ {p} : Apart(w'[p], w[q]) /\ Apart(w[q], w'[p])
  BY <1>1, <1>5 DEF Apart
<1>7. \A r \in inbox' : Proper(r)
  BY DEF Inv
<1> QED BY <1>2, <1>4, <1>6, <1>7, Still

LEMMA PurgeDumpStep ==
  ASSUME Inv, NEW p \in Workers, PurgeDump(p)
  PROVE  Inv'
<1> DEFINE j == w[p].req.job
           n == Min(w[p].ins)
           lines == {[job |-> j, ev |-> x.ev] : x \in {y \in db.events[j] : y.n = n}}
           file == pass[p].file \o SetToSeq(lines)
<1>1. /\ DOMAIN w = Workers /\ DOMAIN pass = Workers /\ Todo(pass[p]) /\ pass[p] # NoPass
      /\ w[p].pc = "events" /\ w[p].req.kind = "purge"
  BY ZenonT(30) DEF Inv, Own, PurgeDump
<1>2. db' = db /\ inbox' = inbox /\ acked' = acked
  BY ZenonT(30) DEF PurgeDump
<1>3. \/ w' = [w EXCEPT ![p] = Next_(p, n)] /\ pass' = [pass EXCEPT ![p].file = @ \o SetToSeq(lines)]
      \/ /\ w' = [w EXCEPT ![p] = [Idle EXCEPT !.pc = "pass", !.ask = "type", !.req = w[p].req, !.err = "EIO"]]
         /\ pass' = pass
      \/ w' = [w EXCEPT ![p] = Next_(p, n)] /\ pass' = pass
  BY ZenonT(30) DEF PurgeDump
<1> HIDE DEF n, lines, file
<1>4. CASE w' = [w EXCEPT ![p] = Next_(p, n)] /\ pass' = [pass EXCEPT ![p].file = @ \o SetToSeq(lines)]
  <2>1. /\ DOMAIN pass' = Workers /\ \A q \in Workers \ {p} : pass'[q] = pass[q]
        /\ pass'[p] = Longer(pass[p], file)
    BY <1>1, <1>4 DEF Longer, file
  <2>2. pass'[p] # NoPass /\ Todo(pass'[p]) /\ pass'[p].req = pass[p].req
    BY <1>1, <2>1, LongerToDo
  <2> QED BY <1>1, <1>2, <1>4, <2>1, <2>2, DumpedStep
<1>5. CASE w' = [w EXCEPT ![p] = Next_(p, n)] /\ pass' = pass
  BY <1>1, <1>2, <1>5, DumpedStep
<1>6. CASE /\ w' = [w EXCEPT ![p] = [Idle EXCEPT !.pc = "pass", !.ask = "type", !.req = w[p].req, !.err = "EIO"]]
           /\ pass' = pass
  <2>1. /\ DOMAIN w' = Workers /\ \A q \in Workers \ {p} : w'[q] = w[q]
        /\ w'[p] = [Idle EXCEPT !.pc = "pass", !.ask = "type", !.req = w[p].req, !.err = "EIO"]
    BY <1>1, <1>6
  <2>2. Began(w'[p], j, "pass")
    BY <1>1, <2>1, IdleFields DEF Began, Fresh
  <2> QED BY <1>1, <1>2, <1>6, <2>1, <2>2, BeganStep
<1> QED BY <1>3, <1>4, <1>5, <1>6

\* An event goes, of a job whose row is gone.
LEMMA PurgeEventStep ==
  ASSUME Inv, NEW p \in Workers, PurgeEvent(p)
  PROVE  Inv'
<1> DEFINE j == w[p].req.job
           n == Min(w[p].ins)
           rest == db.events[j] \ {x \in db.events[j] : x.n = n}
           left == w[p].ins \ {n}
<1>1. /\ DOMAIN w = Workers /\ DOMAIN pass = Workers /\ Todo(pass[p]) /\ Own(db, w[p], pass[p]) /\ Sound(db)
      /\ w[p].pc = "remove" \/ (w[p].pc = "events" /\ ~pass[p].req.dump)
  BY DEF Inv, PurgeEvent
<1>2. /\ j \in Jobs /\ w[p].req.kind = "purge" /\ pass[p] # NoPass /\ Tables(db)
      /\ DOMAIN w[p] = DOMAIN Idle /\ w[p].gap = {} /\ w[p].lock = {} /\ w[p].shared = {}
      /\ w[p].wr = {} /\ w[p].hist = {} /\ j \in db.purged
  BY <1>1 DEF Own, Sound
<1>3. /\ db' = [db EXCEPT !.events[j] = rest]
      /\ DOMAIN w' = Workers /\ \A q \in Workers \ {p} : w'[q] = w[q]
      /\ pass' = pass /\ acked' = acked /\ inbox' = inbox
      /\ w'[p] = [w[p] EXCEPT !.pc = "events", !.ins = left]
  BY <1>1, <1>2 DEF PurgeEvent
<1> HIDE DEF rest, left
<1>4. Listing(w'[p], j, "events", {})
  BY <1>2, <1>3, IdleFields DEF Listing
<1>5. /\ Tables(db') /\ db'.dropped = db.dropped /\ db'.purged = db.purged /\ db'.jobs = db.jobs
      /\ db'.states = db.states /\ \A i \in Jobs \ {j} : db'.events[i] = db.events[i]
  BY <1>2, <1>3 DEF Tables
<1>6. RowsOf(p, j, db')
  BY <1>2, <1>5 DEF RowsOf
<1>7. Own(db', w'[p], pass'[p])
  BY <1>2, <1>3, <1>4, <1>5, OwnListing
<1>8. \A q \in Workers \ {p} : Apart(w'[p], w[q]) /\ Apart(w[q], w'[p])
  BY <1>4, ApartFree DEF Listing
<1> QED BY <1>1, <1>2, <1>3, <1>6, <1>7, <1>8, RowsStep

-----------------------------------------------------------------------------
(* All steps.                                                               *)

LEMMA PurgeServerStep ==
  ASSUME Inv, NEW p \in Workers, PurgeServer(p)
  PROVE  Inv'
<1>1. ASSUME NEW r \in inbox, PassBegin(p, r) PROVE Inv'
  BY <1>1, PassBeginStep
<1>2. CASE PassLook(p)
  BY <1>2, PassLookStep
<1>3. CASE PassLooked(p)
  BY <1>3, PassLookedStep
<1>4. CASE PassSubjob(p)
  BY <1>4, PassSubjobStep
<1>5. CASE PassError(p)
  BY <1>5, PassErrorStep
<1>6. CASE PassEnd(p)
  BY <1>6, PassOverStep DEF PassEnd
<1>7. CASE PassQuit(p)
  BY <1>7, PassQuitStep
<1>8. CASE PassDies(p)
  BY <1>8, PassOverStep DEF PassDies
<1>9. CASE PurgeBegin(p)
  BY <1>9, PurgeBeginStep
<1>10. CASE PurgeNothing(p)
  BY <1>10, OneDoneStep DEF PurgeNothing, avars
<1>11. CASE PurgeUnknown(p)
  BY <1>11, RefuseStep DEF PurgeUnknown, avars
<1>12. CASE PurgeType(p)
  BY <1>12, PurgeTypeStep
<1>13. CASE PurgeJobs(p)
  BY <1>13, PurgeJobsStep
<1>14. CASE PurgeStates(p)
  BY <1>14, PurgeStatesStep
<1>15. CASE PurgeZombie(p)
  BY <1>15, PurgeZombieStep
<1>16. CASE PurgeDump(p)
  BY <1>16, PurgeDumpStep
<1>17. CASE PurgeEvent(p)
  BY <1>17, PurgeEventStep
<1>18. CASE PurgeDone(p)
  BY <1>18, OneDoneStep DEF PurgeDone, avars
<1> QED
  BY <1>1, <1>2, <1>3, <1>4, <1>5, <1>6, <1>7, <1>8, <1>9, <1>10, <1>11, <1>12, <1>13, <1>14, <1>15,
     <1>16, <1>17, <1>18 DEF PurgeServer, PurgeOne

\* The exporter, the importers, the statistics and the dumps.
LEMMA OutsideStep ==
  ASSUME Inv, UNCHANGED <<db, inbox, w, acked, pass>>
  PROVE  Inv'
  BY DEF Inv

LEMMA NextStep ==
  ASSUME Inv, [Next]_<<bvars, stvars, dlvars>>
  PROVE  Inv'
<1>1. CASE UNCHANGED bvars
  BY <1>1, OutsideStep DEF bvars, avars
<1>2. CASE PurgeNext
  <2>1. ASSUME NEW p \in Workers, Work(p), UNCHANGED avars PROVE Inv'
    BY <2>1, WorkStep
  <2>2. ASSUME NEW p \in Workers, PurgeServer(p) PROVE Inv'
    BY <2>2, PurgeServerStep
  <2>3. CASE Exporting
    <3>1. UNCHANGED dvars
      BY ZenonT(30), <2>3 DEF Exporting, Export, ExportEmpty, MaildirStoreMsg, ExportEnd, ExportDies
    <3> QED BY <3>1, OutsideStep DEF dvars
  <2>4. ASSUME NEW i \in Importers, Importing(i) PROVE Inv'
    <3>1. UNCHANGED dvars
      BY <2>4 DEF Importing, MaildirTransStart, MaildirExpire, MaildirTransEnd, MaildirTransEnded, ImporterDies
    <3> QED BY <3>1, OutsideStep DEF dvars
  <2> QED BY <1>2, <2>1, <2>2, <2>3, <2>4 DEF PurgeNext
<1> QED BY <1>1, <1>2 DEF Next

LEMMA InitInv == Init => Inv
<1> SUFFICES ASSUME Init PROVE Inv
  OBVIOUS
<1>1. PICK s \in Scenarios : db = s.db /\ inbox = s.inbox /\ PurgeInit(s.keep)
  BY DEF Init
<1>2. Sound(db) /\ \A r \in inbox : Proper(r)
  BY <1>1, ScenariosAssumption
<1>3. w = [p \in Workers |-> Idle] /\ pass = [p \in Workers |-> NoPass] /\ acked = {}
  BY <1>1 DEF PurgeInit, StoreInit
<1>4. ASSUME NEW p \in Workers PROVE Own(db, w[p], pass[p]) /\ Todo(pass[p])
  <2>1. w[p] = Idle /\ pass[p] = NoPass
    BY <1>3
  <2> QED BY <2>1, IdleFields, OwnFresh DEF Todo
<1>5. ASSUME NEW p \in Workers, NEW q \in Workers PROVE Apart(w[p], w[q])
  <2>1. w[p] = Idle /\ w[q] = Idle
    BY <1>3
  <2> QED BY <2>1, IdleFields, ApartFree DEF Fresh
<1>6. Kept(db, acked)
  BY <1>3 DEF Kept
<1> QED BY <1>2, <1>3, <1>4, <1>5, <1>6 DEF Inv

\* However the requests to store events of any number of jobs and collections
\* overlap with one another, with queries, with purges and their dumps, are
\* rolled back by a deadlock or a lost connection and tried again: the events of
\* a job that is not purged are numbered without a gap, none is there twice, and
\* one acknowledged to its sender is there (edg_wll_StoreEvent under the row
\* locks of edg_wll_LockJobRowForUpdate), but for the registrations in dropped.
THEOREM EventsAlwaysIntact == Spec => []EventsIntact
<1>1. Init => Inv
  BY InitInv
<1>2. Inv /\ [Next]_<<bvars, stvars, dlvars>> => Inv'
  BY NextStep
<1>3. Inv => EventsIntact
  BY InvEvents
<1> QED BY <1>1, <1>2, <1>3, PTL DEF Spec
=============================================================================
