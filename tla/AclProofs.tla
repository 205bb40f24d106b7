----------------------------- MODULE AclProofs -----------------------------
(***************************************************************************)
(* Proofs about QueryServer: the reference counts of access control lists,  *)
(* for any jobs, processes and changes.                                     *)
(***************************************************************************)
EXTENDS QueryServer, DataFacts

-----------------------------------------------------------------------------
(* The inductive invariant, which holds until the history says otherwise.   *)

Fields == {"pc", "ch", "old", "new", "wr", "shared", "held", "err"}
Points == {"idle", "begin", "again", "insert", "incr", "update", "undo", "decr", "commit", "close"}
\* A transaction that knows its new ACL, and one that has counted it.
Past == {"insert", "incr", "update", "undo", "decr", "commit"}
Counting == {"update", "undo", "decr", "commit"}

\* The committed count of an ACL, 0 when it is not there.
Count(a) == IF a \in DOMAIN acls THEN acls[a] ELSE 0

\* What a transaction has added to a count before its commit.
Delta(x, a) == (IF x.pc \in Counting /\ a = x.new THEN 1 ELSE 0)
               - (IF x.pc = "commit" /\ a = x.old THEN 1 ELSE 0)

Writes(x) ==
  /\ x.pc \in {"idle", "begin"} => DOMAIN x.wr = {}
  /\ NoAcl \notin DOMAIN x.wr
  /\ \A a \in DOMAIN x.wr : x.wr[a] = Count(a) + Delta(x, a)
  /\ x.pc \in Counting => x.new \in DOMAIN x.wr
  /\ x.pc = "commit" => x.old = NoAcl \/ x.old \in DOMAIN x.wr

\* The row of the job is locked, and has the old ACL, once it is updated.
WorkShape(x) ==
  /\ DOMAIN x = Fields
  /\ x.pc \in Points /\ x.held \in BOOLEAN /\ x.err \in BOOLEAN
  /\ x.pc # "idle" => x.ch.job \in Jobs
  /\ x.pc \in {"idle", "begin"} => ~x.held
  /\ x.pc \in Past => IsAcl(x.new) /\ (x.old = NoAcl \/ IsAcl(x.old))
  /\ x.pc \in {"decr", "commit"} =>
       x.held /\ job[x.ch.job].here /\ x.old = job[x.ch.job].aclid
  /\ x.pc = "decr" => x.old # NoAcl
  /\ x.shared = IF x.pc = "incr" THEN x.new ELSE NoAcl
  /\ x.pc = "incr" => x.new \in DOMAIN x.wr \cup DOMAIN acls

WorkInv(x) == WorkShape(x) /\ Writes(x)

\* Two transactions write to different rows, no row is written to that the
\* other one has a shared lock on, and they have locked different jobs.
Apart(x, y) ==
  /\ DOMAIN x.wr \cap DOMAIN y.wr = {}
  /\ x.shared \notin DOMAIN y.wr
  /\ x.held /\ y.held => x.ch.job # y.ch.job

JobsInv ==
  /\ DOMAIN job = Jobs
  /\ \A j \in Jobs : /\ IsRow(job[j]) /\ (job[j].aclid = NoAcl \/ IsAcl(job[j].aclid))
                     /\ ~job[j].here => job[j].aclid = NoAcl

TodoInv ==
  /\ DOMAIN todo = {"ask", "change", "env"}
  /\ IsSeq(todo.change) /\ \A i \in 1..Len(todo.change) : todo.change[i].job \in Jobs
  /\ IsSeq(todo.env)
  /\ \A i \in 1..Len(todo.env) : todo.env[i].job \in Jobs /\ IsRow(todo.env[i].row)

Counted ==
  /\ \A a \in DOMAIN acls : acls[a] = Uses(a) + Stale(a) /\ acls[a] > 0
  /\ \A j \in Jobs : job[j].here /\ job[j].aclid # NoAcl => job[j].aclid \in DOMAIN acls

\* What purges have left stays: no count falls to 0 over it.
CountsInv ==
  /\ Counted
  /\ NoAcl \notin DOMAIN acls
  /\ \A a \in DOMAIN stale : a \in DOMAIN acls /\ stale[a] \in Nat /\ stale[a] > 0

WorksInv ==
  /\ DOMAIN w = Changers
  /\ \A p \in Changers : WorkInv(w[p])
  /\ \A p, o \in Changers : p # o => Apart(w[p], w[o])

Good == JobsInv /\ TodoInv /\ CountsInv /\ WorksInv
AclInv == exposed \in BOOLEAN /\ (~exposed => Good)

-----------------------------------------------------------------------------
(* Access control lists, and who refers to them.                            *)

LEMMA NoAclIsNone == ~IsAcl(NoAcl)
<1>1. Len(NoAcl) = 1 /\ NoAcl[1] = [type |-> "NULL"]
  BY DEF NoAcl
<1>2. "cred" \notin DOMAIN NoAcl[1]
  BY <1>1
<1> QED BY <1>1, <1>2 DEF IsAcl

\* An ACL that is changed is an ACL.
LEMMA ChangeAcl ==
  ASSUME NEW acl, IsAcl(acl), NEW ch, edg_wll_change_acl(acl, ch).ret = "ok"
  PROVE  IsAcl(edg_wll_change_acl(acl, ch).acl)
<1> DEFINE e == [cred |-> create_cred(ch.user_id, ch.user_id_type),
                 perm |-> perm_lb2gacl(ch.permission), type |-> ch.permission_type]
           r == edg_wll_change_acl(acl, ch)
<1>1. r = change_acl(acl, e, ch.operation)
  BY DEF edg_wll_change_acl
<1>2. DOMAIN e = {"cred", "perm", "type"}
  OBVIOUS
<1>3. IsSeq(acl) /\ Len(acl) \in Nat /\ \A i \in 1..Len(acl) : DOMAIN acl[i] = {"cred", "perm", "type"}
  BY IsSeqLen DEF IsAcl, IsSeq
<1> HIDE DEF e
<1>4. CASE r.acl = Append(acl, e)
  <2>1. /\ IsSeq(Append(acl, e)) /\ Len(Append(acl, e)) = Len(acl) + 1
        /\ \A i \in 1..Len(acl) : Append(acl, e)[i] = acl[i]
        /\ Append(acl, e)[Len(acl) + 1] = e
    BY <1>3, IsSeqAppend
  <2>2. \A i \in 1..Len(acl) + 1 : i \in 1..Len(acl) \/ i = Len(acl) + 1
    BY <1>3
  <2> QED BY <1>2, <1>3, <1>4, <2>1, <2>2 DEF IsAcl, IsSeq
<1>5. CASE r.acl = RemoveFirst(acl, e) /\ Contains(acl, e)
  <2>1. /\ RemoveFirst(acl, e) \in Seq(ToSet(acl)) /\ Len(RemoveFirst(acl, e)) = Len(acl) - 1
        /\ \A k \in 1..Len(acl) - 1 :
             RemoveFirst(acl, e)[k] = IF k < FirstAt(acl, e) THEN acl[k] ELSE acl[k + 1]
    BY <1>3, <1>5, RemoveFirstProperty DEF Contains, IsSeq
  <2>2. IsSeq(RemoveFirst(acl, e))
    BY <2>1, IsSeqIntro
  <2>3. \A k \in 1..Len(acl) - 1 : k \in 1..Len(acl) /\ k + 1 \in 1..Len(acl)
    BY <1>3
  <2> QED BY <1>3, <1>5, <2>1, <2>2, <2>3 DEF IsAcl, IsSeq
<1>6. \/ r.acl = Append(acl, e)
      \/ r.acl = RemoveFirst(acl, e) /\ Contains(acl, e)
  <2>1. r.ret = "ok"
    OBVIOUS
  <2> HIDE DEF r
  <2>2. CASE ch.operation = "ADD"
    BY <1>1, <2>1, <2>2 DEF change_acl, addEntry
  <2>3. CASE ch.operation = "REMOVE"
    BY <1>1, <2>1, <2>3 DEF change_acl, delEntry
  <2>4. CASE ch.operation \notin {"ADD", "REMOVE"}
    BY <1>1, <2>1, <2>4 DEF change_acl
  <2> QED BY <2>2, <2>3, <2>4
<1> QED BY <1>4, <1>5, <1>6

LEMMA EmptyAcl == IsAcl(edg_wll_InitAcl)
<1>1. IsSeq(<<>>) /\ Len(<<>>) = 0
  BY EmptySeq DEF IsSeq
<1> QED BY <1>1 DEF IsAcl, IsSeq, edg_wll_InitAcl

LEMMA UsesType ==
  ASSUME NEW a
  PROVE  Uses(a) \in Nat
<1> DEFINE S == {j \in Jobs : job[j].here /\ job[j].aclid = a}
<1>1. S \in SUBSET Jobs /\ IsFiniteSet(Jobs) /\ Uses(a) = Cardinality(S)
  BY QueryAssumption DEF Uses
<1> HIDE DEF S
<1> QED BY <1>1, FS_Subset, FS_CardinalityType

\* A job that refers to an ACL is counted.
LEMMA UsedCounts ==
  ASSUME NEW j \in Jobs, job[j].here, NEW a, job[j].aclid = a
  PROVE  Uses(a) > 0
<1> DEFINE S == {i \in Jobs : job[i].here /\ job[i].aclid = a}
<1>1. j \in S /\ S \in SUBSET Jobs /\ IsFiniteSet(Jobs) /\ Uses(a) = Cardinality(S)
  BY QueryAssumption DEF Uses
<1> HIDE DEF S
<1>2. IsFiniteSet(S) /\ Cardinality(S) # 0 /\ Cardinality(S) \in Nat
  BY <1>1, FS_Subset, FS_EmptySet, FS_CardinalityType
<1> QED BY <1>1, <1>2

\* The committed counts are those of the jobs and of the purges, also for an
\* ACL that is not there.
LEMMA CountIsUses ==
  ASSUME JobsInv, CountsInv, NEW a, a # NoAcl
  PROVE  Count(a) = Uses(a) + Stale(a) /\ Uses(a) \in Nat /\ Stale(a) \in Nat /\ Count(a) \in Nat
<1>1. Uses(a) \in Nat
  BY UsesType
<1>2. Stale(a) \in Nat
  BY DEF CountsInv, Stale
<1>3. CASE a \in DOMAIN acls
  BY <1>1, <1>2, <1>3 DEF CountsInv, Counted, Count
<1>4. CASE a \notin DOMAIN acls
  <2>1. Stale(a) = 0
    BY <1>4 DEF CountsInv, Stale
  <2> DEFINE S == {j \in Jobs : job[j].here /\ job[j].aclid = a}
  <2>2. S = {}
    BY <1>4 DEF CountsInv, Counted
  <2>3. Uses(a) = 0
    BY <2>2, FS_EmptySet DEF Uses
  <2> QED BY <1>4, <2>1, <2>3 DEF Count
<1> QED BY <1>1, <1>2, <1>3, <1>4

\* A job gets another row.
LEMMA UsesChange ==
  ASSUME NEW j \in Jobs, \A i \in Jobs : i # j => job'[i] = job[i], NEW a
  PROVE  Uses(a)' = Uses(a) + (IF job'[j].here /\ job'[j].aclid = a THEN 1 ELSE 0)
                            - (IF job[j].here /\ job[j].aclid = a THEN 1 ELSE 0)
<1> DEFINE S == {i \in Jobs : job[i].here /\ job[i].aclid = a}
           T == {i \in Jobs : job'[i].here /\ job'[i].aclid = a}
           was == job[j].here /\ job[j].aclid = a
           is == job'[j].here /\ job'[j].aclid = a
<1>1. IsFiniteSet(S) /\ Cardinality(S) \in Nat
  <2>1. S \in SUBSET Jobs /\ IsFiniteSet(Jobs)
    BY QueryAssumption
  <2> HIDE DEF S
  <2> QED BY <2>1, FS_Subset, FS_CardinalityType
<1>2. Uses(a)' = Cardinality(T) /\ Uses(a) = Cardinality(S)
  BY DEF Uses
<1>3. CASE is /\ ~was
  <2>1. T = S \cup {j} /\ j \notin S
    BY <1>3
  <2> HIDE DEF S, T
  <2>2. Cardinality(T) = Cardinality(S) + 1
    BY <1>1, <2>1, FS_AddElement
  <2> QED BY <1>1, <1>2, <1>3, <2>2
<1>4. CASE ~is /\ was
  <2>1. T = S \ {j} /\ j \in S
    BY <1>4
  <2> HIDE DEF S, T
  <2>2. Cardinality(T) = Cardinality(S) - 1
    BY <1>1, <2>1, FS_RemoveElement
  <2> QED BY <1>1, <1>2, <1>4, <2>2
<1>5. CASE (is /\ was) \/ (~is /\ ~was)
  <2>1. T = S
    BY <1>5
  <2> HIDE DEF S, T
  <2> QED BY <1>1, <1>2, <1>5, <2>1
<1> QED BY <1>3, <1>4, <1>5

-----------------------------------------------------------------------------
(* Steps of a transaction before its commit.                                *)

LEMMA WorkKept ==
  ASSUME Good, NEW p \in Changers, NEW y, w' = [w EXCEPT ![p] = y],
         UNCHANGED <<job, acls, stale>>, TodoInv', WorkInv(y),
         \A o \in Changers : o # p => Apart(y, w[o]) /\ Apart(w[o], y)
  PROVE  Good'
<1>1. JobsInv /\ CountsInv /\ WorksInv
  BY DEF Good
<1>2. JobsInv' /\ CountsInv'
  BY <1>1 DEF JobsInv, CountsInv, Counted, Uses, Stale
<1>3. DOMAIN w' = Changers /\ w'[p] = y /\ \A o \in Changers : o # p => w'[o] = w[o]
  BY <1>1 DEF WorksInv
<1>4. ASSUME NEW o \in Changers PROVE WorkInv(w[o])'
  <2>1. WorkInv(w'[o])
    BY <1>1, <1>3 DEF WorksInv
  <2> QED BY <2>1 DEF WorkInv, WorkShape, Writes, Count, Delta
<1>5. ASSUME NEW o \in Changers, NEW r \in Changers, o # r PROVE Apart(w[o], w[r])'
  <2>1. Apart(w'[o], w'[r])
    BY <1>1, <1>3, <1>5 DEF WorksInv
  <2> QED BY <2>1 DEF Apart
<1> QED BY <1>2, <1>3, <1>4, <1>5 DEF Good, WorksInv

\* What a transaction that takes no other step keeps of the queues.
LEMMA TodoKept ==
  ASSUME Good, UNCHANGED todo
  PROVE  TodoInv'
  BY DEF Good, TodoInv

\* A work that has no row locked and has written nothing.
LEMMA FreshWork ==
  ASSUME Good, NEW y, WorkShape(y), ~y.held, y.wr = <<>>, y.shared = NoAcl, y.pc \notin Counting
  PROVE  /\ WorkInv(y)
         /\ \A o \in Changers : Apart(y, w[o]) /\ Apart(w[o], y)
<1>1. DOMAIN y.wr = {}
  BY EmptySeq, LenProperties
<1>2. WorkInv(y)
  BY <1>1 DEF WorkInv, Writes, Counting
<1>3. ASSUME NEW o \in Changers PROVE Apart(y, w[o]) /\ Apart(w[o], y)
  <2>1. NoAcl \notin DOMAIN w[o].wr
    BY DEF Good, WorksInv, WorkInv, Writes
  <2> QED BY <1>1, <2>1 DEF Apart
<1> QED BY <1>2, <1>3

\* The beginning of a transaction, and none.
LEMMA Restart ==
  ASSUME Good, NEW x, x.ch.job \in Jobs
  PROVE  /\ WorkInv(Restarted(x)) /\ WorkInv(NoWork)
         /\ \A o \in Changers : Apart(Restarted(x), w[o]) /\ Apart(w[o], Restarted(x))
         /\ \A o \in Changers : Apart(NoWork, w[o]) /\ Apart(w[o], NoWork)
<1>1. /\ WorkShape(NoWork) /\ ~NoWork.held /\ NoWork.wr = <<>> /\ NoWork.shared = NoAcl
      /\ NoWork.pc \notin Counting
  BY DEF NoWork, WorkShape, Points, Fields, Past, Counting
<1>2. /\ WorkShape(Restarted(x)) /\ ~Restarted(x).held /\ Restarted(x).wr = <<>>
      /\ Restarted(x).shared = NoAcl /\ Restarted(x).pc \notin Counting
  BY DEF Restarted, NoWork, WorkShape, Points, Fields, Past, Counting
<1> QED BY <1>1, <1>2, FreshWork

LEMMA TakeStep ==
  ASSUME Good, NEW p \in Changers, Take(p)
  PROVE  Good'
<1> DEFINE x == [ch |-> Head(todo.change)]
<1>1. w' = [w EXCEPT ![p] = Restarted(x)] /\ UNCHANGED <<job, acls, stale>>
  BY DEF Take, Restarted
<1>2. IsSeq(todo.change) /\ todo.change # <<>> /\ DOMAIN todo = {"ask", "change", "env"}
  BY DEF Take, Good, TodoInv
<1>3. Len(todo.change) > 0 /\ Len(todo.change) \in Nat
  BY <1>2, IsSeqEmpty, IsSeqLen
<1>4. /\ IsSeq(Tail(todo.change)) /\ Len(Tail(todo.change)) = Len(todo.change) - 1
      /\ Head(todo.change) = todo.change[1]
      /\ \A i \in 1..Len(todo.change) - 1 : Tail(todo.change)[i] = todo.change[i + 1]
  BY <1>2, <1>3, IsSeqTail
<1>5. todo' = [todo EXCEPT !.change = Tail(todo.change)]
  BY DEF Take
<1>6. /\ DOMAIN todo' = {"ask", "change", "env"} /\ todo'.change = Tail(todo.change)
      /\ todo'.env = todo.env
  BY <1>2, <1>5
<1>7. \A i \in 1..Len(todo.change) - 1 : i + 1 \in 1..Len(todo.change)
  BY <1>3
<1>8. TodoInv'
  BY <1>4, <1>6, <1>7 DEF Good, TodoInv
<1>9. x.ch.job \in Jobs
  BY <1>3, <1>4 DEF Good, TodoInv
<1> HIDE DEF x
<1> QED BY <1>1, <1>8, <1>9, Restart, WorkKept

\* A deadlock in the increment, and the errors that are looked at.
LEMMA RollbackStep ==
  ASSUME Good, NEW p \in Changers, Rollback(p), ~exposed, ~exposed'
  PROVE  Good'
<1> DEFINE x == w[p]
           y == Failed(x)
<1>1. w' = [w EXCEPT ![p] = y] /\ UNCHANGED <<job, acls, stale>>
  BY DEF Rollback
<1>2. TodoInv'
  BY TodoKept DEF Rollback
<1>3. x.ch.job \in Jobs /\ x.pc \notin {"update", "undo"} /\ WorkInv(x)
  BY DEF Rollback, Good, WorksInv, WorkInv, WorkShape
<1>4. CASE x.pc # "incr"
  <2>1. y = Restarted(x)
    BY <1>3, <1>4 DEF Failed
  <2> QED BY <1>1, <1>2, <1>3, <2>1, Restart, WorkKept
<1>5. CASE x.pc = "incr"
  <2>1. y = [[x EXCEPT !.wr = <<>>, !.shared = NoAcl, !.held = FALSE] EXCEPT !.pc = "insert", !.err = TRUE]
    BY <1>5 DEF Failed
  <2>2. DOMAIN x = Fields
    BY <1>3 DEF WorkInv, WorkShape
  <2> HIDE DEF x, y
  <2>3. /\ DOMAIN y = Fields /\ y.pc = "insert" /\ y.ch = x.ch /\ y.old = x.old /\ y.new = x.new
        /\ y.wr = <<>> /\ y.shared = NoAcl /\ y.held = FALSE /\ y.err = TRUE
    BY <2>1, <2>2 DEF Fields
  <2>4. WorkShape(y) /\ y.pc \notin Counting
    BY <1>3, <1>5, <2>3 DEF WorkInv, WorkShape, Points, Past, Counting
  <2>5. /\ WorkInv(y)
        /\ \A o \in Changers : Apart(y, w[o]) /\ Apart(w[o], y)
    BY <2>3, <2>4, FreshWork
  <2> QED BY <1>1, <1>2, <2>5, WorkKept DEF x
<1> QED BY <1>4, <1>5

LEMMA BeginUpdateStep ==
  ASSUME Good, NEW p \in Changers, BeginUpdate(p)
  PROVE  Good'
<1> DEFINE x == w[p]
           row == job[x.ch.job]
           from == IF row.aclid = NoAcl THEN edg_wll_InitAcl ELSE row.aclid
           c == edg_wll_change_acl(from, x.ch)
           closed == [x EXCEPT !.pc = "close"]
           opened == [x EXCEPT !.pc = "insert", !.old = row.aclid, !.new = c.acl,
                               !.held = x.held \/ x.pc = "begin"]
<1>1. \/ w' = [w EXCEPT ![p] = NoWork]
      \/ w' = [w EXCEPT ![p] = closed]
      \/ c.ret = "ok" /\ w' = [w EXCEPT ![p] = opened]
  BY DEF BeginUpdate
<1>2. TodoInv' /\ UNCHANGED <<job, acls, stale>>
  BY TodoKept DEF BeginUpdate
<1>3. /\ WorkInv(x) /\ x.pc \in {"begin", "again"} /\ x.ch.job \in Jobs /\ DOMAIN x = Fields
      /\ x.shared = NoAcl
  BY DEF BeginUpdate, Good, WorksInv, WorkInv, WorkShape
<1>4. \A o \in Changers : o # p => Apart(x, w[o]) /\ Apart(w[o], x) /\ NoAcl \notin DOMAIN w[o].wr
  BY DEF Good, WorksInv, WorkInv, Writes
<1>5. CASE w' = [w EXCEPT ![p] = NoWork]
  BY <1>2, <1>3, <1>5, Restart, WorkKept
<1>6. CASE w' = [w EXCEPT ![p] = closed]
  <2>1. /\ DOMAIN closed = Fields /\ closed.pc = "close" /\ closed.ch = x.ch /\ closed.wr = x.wr
        /\ closed.shared = x.shared /\ closed.held = x.held /\ closed.err = x.err
    BY <1>3 DEF Fields
  <2> HIDE DEF closed, x
  <2>2. WorkInv(closed)
    BY <1>3, <2>1 DEF WorkInv, WorkShape, Writes, Points, Past, Counting, Delta
  <2>3. \A o \in Changers : o # p => Apart(closed, w[o]) /\ Apart(w[o], closed)
    BY <1>4, <2>1 DEF Apart
  <2> QED BY <1>2, <1>6, <2>2, <2>3, WorkKept
<1>7. CASE c.ret = "ok" /\ w' = [w EXCEPT ![p] = opened]
  <2>1. IsAcl(from) /\ (row.aclid = NoAcl \/ IsAcl(row.aclid))
    BY <1>3, EmptyAcl DEF Good, JobsInv
  <2> HIDE DEF from
  <2>2. IsAcl(c.acl)
    BY <1>7, <2>1, ChangeAcl
  <2> HIDE DEF c
  <2>3. /\ DOMAIN opened = Fields /\ opened.pc = "insert" /\ opened.ch = x.ch /\ opened.wr = x.wr
        /\ opened.old = row.aclid /\ opened.new = c.acl /\ opened.shared = x.shared
        /\ opened.held = (x.held \/ x.pc = "begin") /\ opened.err = x.err
    BY <1>3 DEF Fields
  <2> HIDE DEF opened
  <2>4. WorkInv(opened)
    BY <1>3, <2>1, <2>2, <2>3 DEF WorkInv, WorkShape, Writes, Points, Past, Counting, Delta
  <2>5. ASSUME NEW o \in Changers, o # p PROVE Apart(opened, w[o]) /\ Apart(w[o], opened)
    <3>1. x.pc = "begin" => ~(w[o].held /\ w[o].ch.job = x.ch.job)
      BY <1>3, <2>5 DEF BeginUpdate, Blockers, WorkInv, WorkShape
    <3> QED BY <1>3, <1>4, <2>3, <2>5, <3>1 DEF Apart
  <2> QED BY <1>2, <1>7, <2>4, <2>5, WorkKept
<1> QED BY <1>1, <1>5, <1>6, <1>7

\* The row that is written to is nobody else's.
LEMMA NotBlocked ==
  ASSUME NEW p \in Changers, Blockers(p) = {}, w[p].pc \in {"insert", "incr", "decr", "undo"},
         Needs(p) # NoAcl, NEW o \in Changers, o # p
  PROVE  /\ Needs(p) \notin DOMAIN w[o].wr
         /\ w[p].pc # "insert" => w[o].shared # Needs(p)
  BY DEF Blockers, Holds

\* What is known of a transaction past its beginning and of another one.
LEMMA PastFacts ==
  ASSUME Good, NEW p \in Changers, w[p].pc \in Past
  PROVE  /\ WorkShape(w[p]) /\ Writes(w[p]) /\ DOMAIN w[p] = Fields
         /\ w[p].ch.job \in Jobs /\ IsAcl(w[p].new) /\ w[p].new # NoAcl
         /\ w[p].old = NoAcl \/ IsAcl(w[p].old)
         /\ Count(w[p].new) \in Nat
         /\ \A o \in Changers : o # p =>
              /\ Apart(w[p], w[o]) /\ Apart(w[o], w[p])
              /\ NoAcl \notin DOMAIN w[o].wr
              /\ w[o].shared # NoAcl => w[o].shared \in DOMAIN acls \cup DOMAIN w[o].wr
<1>1. /\ WorkShape(w[p]) /\ Writes(w[p]) /\ DOMAIN w[p] = Fields
      /\ w[p].ch.job \in Jobs /\ IsAcl(w[p].new) /\ w[p].new # NoAcl
      /\ w[p].old = NoAcl \/ IsAcl(w[p].old)
  BY NoAclIsNone DEF Good, WorksInv, WorkInv, WorkShape, Past
<1>2. Count(w[p].new) \in Nat
  BY <1>1, CountIsUses DEF Good
<1>3. ASSUME NEW o \in Changers, o # p
      PROVE  /\ Apart(w[p], w[o]) /\ Apart(w[o], w[p])
             /\ NoAcl \notin DOMAIN w[o].wr
             /\ w[o].shared # NoAcl => w[o].shared \in DOMAIN acls \cup DOMAIN w[o].wr
  <2>1. WorkInv(w[o]) /\ Apart(w[p], w[o]) /\ Apart(w[o], w[p])
    BY <1>3 DEF Good, WorksInv
  <2> QED BY <2>1 DEF WorkInv, WorkShape, Writes
<1> QED BY <1>1, <1>2, <1>3

LEMMA InsertStep ==
  ASSUME Good, NEW p \in Changers, Insert(p)
  PROVE  Good'
<1> DEFINE x == w[p]
           new == x.new
           found == [x EXCEPT !.pc = "incr", !.shared = new, !.err = FALSE]
           stored == [x EXCEPT !.pc = "update", !.wr = Written(x.wr, new, 1)]
<1>1. \/ Known(p) /\ w' = [w EXCEPT ![p] = found]
      \/ w' = [w EXCEPT ![p] = Restarted(x)]
      \/ ~Known(p) /\ w' = [w EXCEPT ![p] = stored]
  BY DEF Insert
<1>2. TodoInv' /\ UNCHANGED <<job, acls, stale>>
  BY TodoKept DEF Insert
<1>3. x.pc = "insert" /\ x.pc \in Past /\ Needs(p) = new
  BY DEF Insert, Past, Needs
<1>4. /\ WorkShape(x) /\ Writes(x) /\ DOMAIN x = Fields
      /\ x.ch.job \in Jobs /\ IsAcl(new) /\ new # NoAcl /\ Count(new) \in Nat
      /\ \A o \in Changers : o # p =>
           /\ Apart(x, w[o]) /\ Apart(w[o], x)
           /\ NoAcl \notin DOMAIN w[o].wr
           /\ w[o].shared # NoAcl => w[o].shared \in DOMAIN acls \cup DOMAIN w[o].wr
  BY <1>3, PastFacts
<1>5. \A o \in Changers : o # p => new \notin DOMAIN w[o].wr
  BY <1>3, <1>4, NotBlocked DEF Insert
<1>6. x.shared = NoAcl /\ \A a : Delta(x, a) = 0
  BY <1>3, <1>4 DEF WorkShape, Delta, Counting
<1>7. CASE Known(p) /\ w' = [w EXCEPT ![p] = found]
  <2>1. new \in DOMAIN x.wr \cup DOMAIN acls
    BY <1>7 DEF Known, Over
  <2>2. /\ DOMAIN found = Fields /\ found.pc = "incr" /\ found.ch = x.ch /\ found.held = x.held
        /\ found.old = x.old /\ found.new = new /\ found.wr = x.wr /\ found.shared = new
        /\ found.err = FALSE
    BY <1>4 DEF Fields
  <2> HIDE DEF found, x
  <2>3. WorkShape(found)
    BY <1>3, <1>4, <2>1, <2>2 DEF WorkShape, Points, Past, new
  <2>4. Writes(found)
    BY <1>3, <1>4, <1>6, <2>2 DEF Writes, Delta, Counting
  <2>5. \A o \in Changers : o # p => Apart(found, w[o]) /\ Apart(w[o], found)
    BY <1>4, <1>5, <2>2 DEF Apart
  <2> QED BY <1>2, <1>7, <2>3, <2>4, <2>5, WorkKept DEF WorkInv
<1>8. CASE w' = [w EXCEPT ![p] = Restarted(x)]
  BY <1>2, <1>4, <1>8, Restart, WorkKept
<1>9. CASE ~Known(p) /\ w' = [w EXCEPT ![p] = stored]
  <2>1. Count(new) = 0
    <3>1. CASE new \in DOMAIN x.wr
      <4>1. Over(x.wr, acls)[new] = x.wr[new] /\ new \in DOMAIN Over(x.wr, acls)
        BY <3>1 DEF Over
      <4>2. x.wr[new] = Count(new) + Delta(x, new) /\ Delta(x, new) = 0
        BY <1>4, <1>6, <3>1 DEF Writes
      <4> QED BY <1>4, <1>9, <4>1, <4>2 DEF Known
    <3>2. CASE new \notin DOMAIN x.wr /\ new \in DOMAIN acls
      <4>1. Over(x.wr, acls)[new] = acls[new] /\ new \in DOMAIN Over(x.wr, acls)
        BY <3>2 DEF Over
      <4> QED BY <1>4, <1>9, <3>2, <4>1 DEF Known, Count
    <3>3. CASE new \notin DOMAIN x.wr /\ new \notin DOMAIN acls
      BY <3>3 DEF Count
    <3> QED BY <3>1, <3>2, <3>3
  <2>2. /\ DOMAIN stored = Fields /\ stored.pc = "update" /\ stored.ch = x.ch /\ stored.held = x.held
        /\ stored.old = x.old /\ stored.new = new /\ stored.wr = Written(x.wr, new, 1)
        /\ stored.shared = NoAcl /\ stored.err = x.err
    BY <1>4, <1>6 DEF Fields
  <2> HIDE DEF stored, x
  <2>3. /\ DOMAIN stored.wr = DOMAIN x.wr \cup {new} /\ stored.wr[new] = 1
        /\ \A b \in DOMAIN x.wr : b # new => stored.wr[b] = x.wr[b]
    BY <2>2 DEF Written
  <2> HIDE DEF new
  <2>4. WorkShape(stored)
    BY <1>3, <1>4, <2>2 DEF WorkShape, Points, Past, new
  <2>5. \A a : Delta(stored, a) = IF a = new THEN 1 ELSE 0
    BY <2>2 DEF Delta, Counting
  <2>6. \A a \in DOMAIN stored.wr : stored.wr[a] = Count(a) + Delta(stored, a)
    <3> TAKE a \in DOMAIN stored.wr
    <3>1. CASE a = new
      BY <2>1, <2>3, <2>5, <3>1
    <3>2. CASE a # new
      <4>1. stored.wr[a] = Count(a) + Delta(x, a)
        BY <1>4, <2>3, <3>2 DEF Writes
      <4> QED BY <1>6, <2>5, <3>2, <4>1
    <3> QED BY <3>1, <3>2
  <2>7. Writes(stored)
    BY <1>4, <2>2, <2>3, <2>6 DEF Writes, Counting
  <2>8. \A o \in Changers : o # p => w[o].shared # new
    <3> SUFFICES ASSUME NEW o \in Changers, o # p, w[o].shared = new PROVE FALSE
      OBVIOUS
    <3>1. new \in DOMAIN acls
      BY <1>4, <1>5
    <3>2. acls[new] > 0
      BY <3>1 DEF Good, CountsInv, Counted
    <3> QED BY <2>1, <3>1, <3>2 DEF Count
  <2>9. \A o \in Changers : o # p => Apart(stored, w[o]) /\ Apart(w[o], stored)
    BY <1>4, <1>5, <2>2, <2>3, <2>8 DEF Apart
  <2> QED BY <1>2, <1>9, <2>4, <2>7, <2>9, WorkKept DEF WorkInv
<1> QED BY <1>1, <1>7, <1>8, <1>9

LEMMA IncrStep ==
  ASSUME Good, NEW p \in Changers, Incr(p)
  PROVE  Good'
<1> DEFINE x == w[p]
           new == x.new
           n == Over(x.wr, acls)[new] + 1
           y == [x EXCEPT !.pc = "update", !.shared = NoAcl, !.wr = Written(x.wr, new, n)]
<1>1. w' = [w EXCEPT ![p] = y] /\ UNCHANGED <<job, acls, stale>>
  BY DEF Incr
<1>2. TodoInv'
  BY TodoKept DEF Incr
<1>3. x.pc = "incr" /\ x.pc \in Past /\ Needs(p) = new
  BY DEF Incr, Past, Needs
<1>4. /\ WorkShape(x) /\ Writes(x) /\ DOMAIN x = Fields
      /\ x.ch.job \in Jobs /\ IsAcl(new) /\ new # NoAcl /\ Count(new) \in Nat
      /\ \A o \in Changers : o # p =>
           /\ Apart(x, w[o]) /\ Apart(w[o], x)
           /\ NoAcl \notin DOMAIN w[o].wr
  BY <1>3, PastFacts
<1>5. \A o \in Changers : o # p => new \notin DOMAIN w[o].wr /\ w[o].shared # new
  BY <1>3, <1>4, NotBlocked DEF Incr
<1>6. \A a : Delta(x, a) = 0
  BY <1>3 DEF Delta, Counting
<1>7. n = Count(new) + 1
  <2>1. new \in DOMAIN x.wr \cup DOMAIN acls
    BY <1>3, <1>4 DEF WorkShape
  <2>2. new \in DOMAIN x.wr => x.wr[new] = Count(new) + Delta(x, new) /\ Delta(x, new) = 0
    BY <1>4, <1>6 DEF Writes
  <2>3. Over(x.wr, acls)[new] = Count(new)
    BY <1>4, <2>1, <2>2 DEF Over, Count
  <2> QED BY <2>3
<1> HIDE DEF n
<1>8. /\ DOMAIN y = Fields /\ y.pc = "update" /\ y.ch = x.ch /\ y.held = x.held /\ y.err = x.err
      /\ y.old = x.old /\ y.new = new /\ y.wr = Written(x.wr, new, n) /\ y.shared = NoAcl
  BY <1>4 DEF Fields
<1> HIDE DEF x, y
<1>9. /\ DOMAIN y.wr = DOMAIN x.wr \cup {new} /\ y.wr[new] = n
      /\ \A b \in DOMAIN x.wr : b # new => y.wr[b] = x.wr[b]
  BY <1>8 DEF Written
<1> HIDE DEF new
<1>10. WorkShape(y)
  BY <1>3, <1>4, <1>8 DEF WorkShape, Points, Past, new
<1>11. \A a \in DOMAIN y.wr : y.wr[a] = Count(a) + Delta(y, a)
  <2> TAKE a \in DOMAIN y.wr
  <2>1. Delta(y, a) = IF a = new THEN 1 ELSE 0
    BY <1>8 DEF Delta, Counting
  <2>2. CASE a = new
    BY <1>4, <1>7, <1>9, <2>1, <2>2
  <2>3. CASE a # new
    <3>1. y.wr[a] = Count(a) + Delta(x, a)
      BY <1>4, <1>9, <2>3 DEF Writes
    <3> QED BY <1>6, <2>1, <2>3, <3>1
  <2> QED BY <2>2, <2>3
<1>12. Writes(y)
  BY <1>4, <1>8, <1>9, <1>11 DEF Writes, Counting
<1>13. \A o \in Changers : o # p => Apart(y, w[o]) /\ Apart(w[o], y)
  BY <1>4, <1>5, <1>8, <1>9 DEF Apart
<1> QED BY <1>1, <1>2, <1>10, <1>12, <1>13, WorkKept DEF WorkInv

LEMMA UpdateJobStep ==
  ASSUME Good, NEW p \in Changers, UpdateJob(p)
  PROVE  Good'
<1> DEFINE x == w[p]
           row == job[x.ch.job]
           to == IF ~row.here \/ row.aclid # x.old THEN "undo" ELSE IF x.old = NoAcl THEN "commit" ELSE "decr"
           y == [[x EXCEPT !.held = TRUE] EXCEPT !.pc = to]
<1>1. w' = [w EXCEPT ![p].held = TRUE, ![p].pc = to] /\ UNCHANGED <<job, acls, stale>>
  BY DEF UpdateJob
<1>2. TodoInv'
  BY TodoKept DEF UpdateJob
<1>3. x.pc = "update" /\ x.pc \in Past
  BY DEF UpdateJob, Past
<1>4. /\ WorkShape(x) /\ Writes(x) /\ DOMAIN x = Fields
      /\ x.ch.job \in Jobs /\ IsAcl(x.new) /\ x.new # NoAcl /\ Count(x.new) \in Nat
      /\ \A o \in Changers : o # p =>
           /\ Apart(x, w[o]) /\ Apart(w[o], x)
           /\ NoAcl \notin DOMAIN w[o].wr
  BY <1>3, PastFacts
<1>5. w' = [w EXCEPT ![p] = y]
  <2>1. DOMAIN w = Changers
    BY DEF Good, WorksInv
  <2> QED BY <1>1, <2>1
<1>6. /\ DOMAIN y = Fields /\ y.pc = to /\ y.ch = x.ch /\ y.held = TRUE /\ y.err = x.err
      /\ y.old = x.old /\ y.new = x.new /\ y.wr = x.wr /\ y.shared = x.shared
  BY <1>4 DEF Fields
<1>7. \A o \in Changers : o # p => ~(w[o].held /\ w[o].ch.job = x.ch.job)
  <2> SUFFICES ASSUME NEW o \in Changers, o # p PROVE ~(w[o].held /\ w[o].ch.job = x.ch.job)
    OBVIOUS
  <2>1. CASE x.held
    BY <1>4, <2>1 DEF Apart
  <2>2. CASE ~x.held
    BY <1>3, <2>2 DEF UpdateJob, Blockers
  <2> QED BY <2>1, <2>2
<1>8. /\ to \in {"undo", "commit", "decr"}
      /\ to = "decr" => x.old # NoAcl
      /\ to \in {"decr", "commit"} => row.here /\ x.old = row.aclid
      /\ to = "commit" => x.old = NoAcl
  OBVIOUS
<1> HIDE DEF y, x, to
<1>9. WorkShape(y)
  BY <1>3, <1>4, <1>6, <1>8 DEF WorkShape, Points, Past
<1>10. \A a \in DOMAIN y.wr : y.wr[a] = Count(a) + Delta(y, a)
  <2> TAKE a \in DOMAIN y.wr
  <2>1. y.wr[a] = Count(a) + Delta(x, a) /\ a # NoAcl
    BY <1>4, <1>6 DEF Writes
  <2>2. Delta(y, a) = Delta(x, a)
    BY <1>3, <1>6, <1>8, <2>1 DEF Delta, Counting
  <2> QED BY <2>1, <2>2
<1>11. Writes(y)
  BY <1>3, <1>4, <1>6, <1>8, <1>10 DEF Writes, Counting
<1>12. \A o \in Changers : o # p => Apart(y, w[o]) /\ Apart(w[o], y)
  BY <1>4, <1>6, <1>7 DEF Apart
<1> QED BY <1>1, <1>2, <1>5, <1>9, <1>11, <1>12, WorkKept DEF WorkInv

\* A count that is there goes down by one.
LEMMA DecrementedIs ==
  ASSUME NEW x, Writes(x), NEW a, a # NoAcl,
         a \in DOMAIN x.wr \cup DOMAIN acls, NEW k \in Nat, k > 0,
         a \in DOMAIN x.wr => x.wr[a] = k, a \notin DOMAIN x.wr => acls[a] = k
  PROVE  /\ DOMAIN Decremented(x.wr, a) = DOMAIN x.wr \cup {a} /\ Decremented(x.wr, a)[a] = k - 1
         /\ \A b \in DOMAIN x.wr : b # a => Decremented(x.wr, a)[b] = x.wr[b]
<1> DEFINE own == Over(x.wr, acls)
<1>1. a \in DOMAIN own /\ own[a] = k
  BY DEF Over
<1> HIDE DEF own
<1>2. Decremented(x.wr, a) = Written(x.wr, a, k - 1)
  BY <1>1 DEF Decremented, own
<1> QED BY <1>2 DEF Written

LEMMA DecrStep ==
  ASSUME Good, NEW p \in Changers, Decr(p)
  PROVE  Good'
<1> DEFINE x == w[p]
           old == x.old
           y == [x EXCEPT !.pc = "commit", !.wr = Decremented(x.wr, old)]
<1>1. w' = [w EXCEPT ![p] = y] /\ UNCHANGED <<job, acls, stale>>
  BY DEF Decr
<1>2. TodoInv'
  BY TodoKept DEF Decr
<1>3. x.pc = "decr" /\ x.pc \in Past /\ Needs(p) = old
  BY DEF Decr, Past, Needs
<1>4. /\ WorkShape(x) /\ Writes(x) /\ DOMAIN x = Fields
      /\ x.ch.job \in Jobs /\ IsAcl(x.new) /\ x.new # NoAcl
      /\ \A o \in Changers : o # p =>
           /\ Apart(x, w[o]) /\ Apart(w[o], x)
           /\ NoAcl \notin DOMAIN w[o].wr
  BY <1>3, PastFacts
<1>5. x.held /\ job[x.ch.job].here /\ old = job[x.ch.job].aclid /\ old # NoAcl
  BY <1>3, <1>4 DEF WorkShape
<1>6. \A o \in Changers : o # p => old \notin DOMAIN w[o].wr /\ w[o].shared # old
  BY <1>3, <1>5, NotBlocked DEF Decr
<1>7. old \in DOMAIN acls /\ Count(old) \in Nat /\ Count(old) > 0 /\ acls[old] = Count(old)
  BY <1>4, <1>5, CountIsUses DEF Good, CountsInv, Counted, Count
<1> DEFINE k == IF old \in DOMAIN x.wr THEN x.wr[old] ELSE acls[old]
<1>8. k = Count(old) + (IF old \in DOMAIN x.wr THEN Delta(x, old) ELSE 0) /\ k \in Nat /\ k > 0
  <2>1. Delta(x, old) = IF old = x.new THEN 1 ELSE 0
    BY <1>3 DEF Delta, Counting
  <2>2. old \in DOMAIN x.wr => x.wr[old] = Count(old) + Delta(x, old)
    BY <1>4 DEF Writes
  <2> QED BY <1>7, <2>1, <2>2
<1>9. /\ DOMAIN y = Fields /\ y.pc = "commit" /\ y.ch = x.ch /\ y.held = x.held /\ y.err = x.err
      /\ y.old = old /\ y.new = x.new /\ y.wr = Decremented(x.wr, old) /\ y.shared = x.shared
  BY <1>4 DEF Fields
<1> HIDE DEF x, y
<1>10. /\ DOMAIN y.wr = DOMAIN x.wr \cup {old} /\ y.wr[old] = k - 1
       /\ \A b \in DOMAIN x.wr : b # old => y.wr[b] = x.wr[b]
  <2>1. /\ old \in DOMAIN x.wr \cup DOMAIN acls
        /\ old \in DOMAIN x.wr => x.wr[old] = k
        /\ old \notin DOMAIN x.wr => acls[old] = k
        /\ Writes(x) /\ old # NoAcl /\ k \in Nat /\ k > 0
    BY <1>4, <1>5, <1>7, <1>8
  <2> HIDE DEF k, old
  <2>2. /\ DOMAIN Decremented(x.wr, old) = DOMAIN x.wr \cup {old} /\ Decremented(x.wr, old)[old] = k - 1
        /\ \A b \in DOMAIN x.wr : b # old => Decremented(x.wr, old)[b] = x.wr[b]
    BY <2>1, DecrementedIs
  <2> QED BY <1>9, <2>2
<1> HIDE DEF k, old
<1>11. WorkShape(y)
  BY <1>3, <1>4, <1>5, <1>9 DEF WorkShape, Points, Past, old
<1>12. \A a \in DOMAIN y.wr : y.wr[a] = Count(a) + Delta(y, a)
  <2> TAKE a \in DOMAIN y.wr
  <2>1. /\ Delta(x, a) = IF a = x.new THEN 1 ELSE 0
        /\ Delta(y, a) = (IF a = x.new THEN 1 ELSE 0) - (IF a = old THEN 1 ELSE 0)
    BY <1>3, <1>9 DEF Delta, Counting
  <2>2. CASE a = old
    <3>1. a = x.new => a \in DOMAIN x.wr
      BY <1>3, <1>4 DEF Writes, Counting
    <3>2. k = Count(a) + (IF a = x.new THEN 1 ELSE 0)
      BY <1>7, <1>8, <2>1, <2>2, <3>1
    <3> QED BY <1>7, <1>10, <2>1, <2>2, <3>2
  <2>3. CASE a # old
    <3>1. y.wr[a] = Count(a) + Delta(x, a)
      BY <1>4, <1>10, <2>3 DEF Writes
    <3> QED BY <2>1, <2>3, <3>1
  <2> QED BY <2>2, <2>3
<1>13. Writes(y)
  BY <1>3, <1>4, <1>5, <1>9, <1>10, <1>12 DEF Writes, Counting
<1>14. \A o \in Changers : o # p => Apart(y, w[o]) /\ Apart(w[o], y)
  BY <1>4, <1>6, <1>9, <1>10 DEF Apart
<1> QED BY <1>1, <1>2, <1>11, <1>13, <1>14, WorkKept DEF WorkInv

\* The increment of the new ACL is taken back.
LEMMA UndoStep ==
  ASSUME Good, NEW p \in Changers, Undo(p)
  PROVE  Good'
<1> DEFINE x == w[p]
           new == x.new
           y == [x EXCEPT !.pc = "again", !.wr = Decremented(x.wr, new)]
<1>1. w' = [w EXCEPT ![p] = y] /\ UNCHANGED <<job, acls, stale>>
  BY DEF Undo
<1>2. TodoInv'
  BY TodoKept DEF Undo
<1>3. x.pc = "undo" /\ x.pc \in Past
  BY DEF Undo, Past
<1>4. /\ WorkShape(x) /\ Writes(x) /\ DOMAIN x = Fields
      /\ x.ch.job \in Jobs /\ IsAcl(new) /\ new # NoAcl /\ Count(new) \in Nat
      /\ \A o \in Changers : o # p =>
           /\ Apart(x, w[o]) /\ Apart(w[o], x)
           /\ NoAcl \notin DOMAIN w[o].wr
  BY <1>3, PastFacts
<1>5. /\ new \in DOMAIN x.wr /\ x.wr[new] = Count(new) + 1
      /\ \A a : Delta(x, a) = IF a = new THEN 1 ELSE 0
  <2>1. \A a : Delta(x, a) = IF a = new THEN 1 ELSE 0
    BY <1>3 DEF Delta, Counting
  <2>2. new \in DOMAIN x.wr /\ x.wr[new] = Count(new) + Delta(x, new)
    BY <1>3, <1>4 DEF Writes, Counting
  <2> QED BY <2>1, <2>2
<1>6. /\ DOMAIN y = Fields /\ y.pc = "again" /\ y.ch = x.ch /\ y.held = x.held /\ y.err = x.err
      /\ y.wr = Decremented(x.wr, new) /\ y.shared = x.shared
  BY <1>4 DEF Fields
<1> HIDE DEF x, y
<1>7. /\ DOMAIN y.wr = DOMAIN x.wr /\ y.wr[new] = Count(new)
      /\ \A b \in DOMAIN x.wr : b # new => y.wr[b] = x.wr[b]
  <2> DEFINE k == Count(new) + 1
  <2>1. k \in Nat /\ k > 0 /\ x.wr[new] = k /\ k - 1 = Count(new)
    BY <1>4, <1>5
  <2> HIDE DEF k, new
  <2>2. /\ DOMAIN Decremented(x.wr, new) = DOMAIN x.wr \cup {new} /\ Decremented(x.wr, new)[new] = k - 1
        /\ \A b \in DOMAIN x.wr : b # new => Decremented(x.wr, new)[b] = x.wr[b]
    BY <1>4, <1>5, <2>1, DecrementedIs
  <2> QED BY <1>5, <1>6, <2>1, <2>2
<1> HIDE DEF new
<1>8. WorkShape(y)
  BY <1>3, <1>4, <1>6 DEF WorkShape, Points, Past
<1>9. \A a \in DOMAIN y.wr : y.wr[a] = Count(a) + Delta(y, a)
  <2> TAKE a \in DOMAIN y.wr
  <2>1. Delta(y, a) = 0
    BY <1>6 DEF Delta, Counting
  <2>2. CASE a = new
    BY <1>4, <1>7, <2>1, <2>2
  <2>3. CASE a # new
    <3>1. y.wr[a] = Count(a) + Delta(x, a)
      BY <1>4, <1>7, <2>3 DEF Writes
    <3> QED BY <1>5, <2>1, <2>3, <3>1
  <2> QED BY <2>2, <2>3
<1>10. Writes(y)
  BY <1>4, <1>6, <1>7, <1>9 DEF Writes, Counting
<1>11. \A o \in Changers : o # p => Apart(y, w[o]) /\ Apart(w[o], y)
  BY <1>4, <1>6, <1>7 DEF Apart
<1> QED BY <1>1, <1>2, <1>8, <1>10, <1>11, WorkKept DEF WorkInv

-----------------------------------------------------------------------------
(* The commit, what other processes do, and the readers.                    *)

\* The counts of a transaction are those of the jobs after its commit.
LEMMA CommitStep ==
  ASSUME Good, NEW p \in Changers, Commit(p)
  PROVE  Good'
<1> DEFINE x == w[p]
           j == x.ch.job
           all == Over(x.wr, acls)
<1>1. /\ job' = IF x.pc = "commit" THEN [job EXCEPT ![j].aclid = x.new] ELSE job
      /\ acls' = [a \in {b \in DOMAIN all : all[b] > 0} |-> all[a]]
      /\ w' = [w EXCEPT ![p] = NoWork] /\ UNCHANGED <<todo, stale>>
      /\ x.pc \in {"commit", "close"}
  BY DEF Commit
<1>2. JobsInv /\ CountsInv /\ TodoInv /\ WorksInv
  BY DEF Good
<1>3. /\ WorkShape(x) /\ Writes(x) /\ j \in Jobs
      /\ \A o \in Changers : o # p => WorkInv(w[o]) /\ Apart(x, w[o]) /\ Apart(w[o], x)
  BY <1>1, <1>2 DEF WorksInv, WorkInv, WorkShape
<1>4. x.pc = "commit" => /\ x.held /\ job[j].here /\ x.old = job[j].aclid
                         /\ IsAcl(x.new) /\ x.new # NoAcl /\ x.new \in DOMAIN x.wr
                         /\ x.old = NoAcl \/ x.old \in DOMAIN x.wr
  BY <1>3, NoAclIsNone DEF WorkShape, Writes, Past, Counting
<1>5. /\ DOMAIN job' = Jobs /\ \A i \in Jobs : i # j => job'[i] = job[i]
      /\ DOMAIN job'[j] = DOMAIN job[j] /\ job'[j].here = job[j].here
      /\ job'[j].aclid = IF x.pc = "commit" THEN x.new ELSE job[j].aclid
  BY <1>1, <1>2, <1>3 DEF JobsInv, IsRow
<1>6. JobsInv'
  <2>1. ASSUME NEW i \in Jobs
        PROVE  /\ IsRow(job'[i]) /\ (job'[i].aclid = NoAcl \/ IsAcl(job'[i].aclid))
               /\ ~job'[i].here => job'[i].aclid = NoAcl
    BY <1>2, <1>4, <1>5 DEF JobsInv, IsRow
  <2> QED BY <1>5, <2>1 DEF JobsInv
<1> HIDE DEF j
<1>7. DOMAIN all = DOMAIN x.wr \cup DOMAIN acls /\ NoAcl \notin DOMAIN all
  BY <1>2, <1>3 DEF Over, CountsInv, Writes
<1>8. ASSUME NEW a, a # NoAcl
      PROVE  /\ Uses(a)' \in Nat /\ Stale(a)' = Stale(a) /\ Stale(a) \in Nat
             /\ a \in DOMAIN all => all[a] = Uses(a)' + Stale(a)
             /\ a \notin DOMAIN all => Uses(a)' = 0
             /\ a \notin DOMAIN x.wr => Uses(a)' = Uses(a)
  <2>1. Count(a) = Uses(a) + Stale(a) /\ Uses(a) \in Nat /\ Stale(a) \in Nat
    BY <1>2, <1>8, CountIsUses
  <2>2. Uses(a)' = Uses(a) + (IF job'[j].here /\ job'[j].aclid = a THEN 1 ELSE 0)
                           - (IF job[j].here /\ job[j].aclid = a THEN 1 ELSE 0)
    BY ONLY <1>3, <1>5, UsesChange
  <2>3. Stale(a)' = Stale(a)
    BY <1>1 DEF Stale
  <2>4. Uses(a)' \in Nat
    <3> DEFINE T == {i \in Jobs : job'[i].here /\ job'[i].aclid = a}
    <3>1. T \in SUBSET Jobs /\ IsFiniteSet(Jobs) /\ Uses(a)' = Cardinality(T)
      BY QueryAssumption DEF Uses
    <3> HIDE DEF T
    <3> QED BY <3>1, FS_Subset, FS_CardinalityType
  <2>5. CASE x.pc = "commit"
    <3>1. Delta(x, a) = (IF a = x.new THEN 1 ELSE 0) - (IF a = x.old THEN 1 ELSE 0)
      BY <2>5 DEF Delta, Counting
    <3>2. Uses(a)' = Uses(a) + (IF a = x.new THEN 1 ELSE 0) - (IF a = x.old THEN 1 ELSE 0)
      BY <1>4, <1>5, <2>2, <2>5
    <3>3. CASE a \in DOMAIN x.wr
      <4>1. all[a] = x.wr[a] /\ x.wr[a] = Count(a) + Delta(x, a) /\ a \in DOMAIN all
        BY <1>3, <3>3 DEF Over, Writes
      <4>2. all[a] = Uses(a)' + Stale(a)
        BY <2>1, <3>1, <3>2, <4>1
      <4> QED BY <2>1, <2>3, <2>4, <3>3, <4>1, <4>2
    <3>4. CASE a \notin DOMAIN x.wr
      <4>1. a # x.new /\ a # x.old
        BY <1>4, <1>8, <2>5, <3>4
      <4>2. Uses(a)' = Uses(a)
        BY <2>1, <3>2, <4>1
      <4>3. a \in DOMAIN all => a \in DOMAIN acls /\ all[a] = Count(a)
        BY <1>7, <3>4 DEF Over, Count
      <4>4. a \notin DOMAIN all => Count(a) = 0
        BY <1>7 DEF Count
      <4> QED BY <2>1, <2>3, <3>4, <4>2, <4>3, <4>4
    <3> QED BY <3>3, <3>4
  <2>6. CASE x.pc = "close"
    <3>1. Delta(x, a) = 0
      BY <2>6 DEF Delta, Counting
    <3>2. Uses(a)' = Uses(a)
      BY <1>5, <2>1, <2>2, <2>6
    <3>3. a \in DOMAIN x.wr => all[a] = x.wr[a] /\ x.wr[a] = Count(a) + Delta(x, a)
      BY <1>3 DEF Over, Writes
    <3>4. a \in DOMAIN all /\ a \notin DOMAIN x.wr => all[a] = Count(a)
      BY <1>7 DEF Over, Count
    <3>5. a \notin DOMAIN all => Count(a) = 0
      BY <1>7 DEF Count
    <3> QED BY <2>1, <2>3, <3>1, <3>2, <3>3, <3>4, <3>5
  <2> QED BY <1>1, <2>5, <2>6
<1>9. /\ DOMAIN acls' = {b \in DOMAIN all : all[b] > 0}
      /\ \A a \in DOMAIN acls' : acls'[a] = all[a]
  <2> HIDE DEF all
  <2> QED BY <1>1
<1> HIDE DEF all
<1>10. CountsInv'
  <2>1. NoAcl \notin DOMAIN acls'
    BY <1>7, <1>9
  <2>2. ASSUME NEW a \in DOMAIN acls' PROVE acls'[a] = Uses(a)' + Stale(a)' /\ acls'[a] > 0
    BY <1>8, <1>9, <2>1
  <2>3. ASSUME NEW i \in Jobs, job'[i].here, job'[i].aclid # NoAcl PROVE job'[i].aclid \in DOMAIN acls'
    <3>1. PICK a : a = job'[i].aclid
      OBVIOUS
    <3> DEFINE T == {k \in Jobs : job'[k].here /\ job'[k].aclid = a}
    <3>2. i \in T /\ T \in SUBSET Jobs /\ IsFiniteSet(Jobs) /\ Uses(a)' = Cardinality(T)
      BY <2>3, <3>1, QueryAssumption DEF Uses
    <3> HIDE DEF T
    <3>3. IsFiniteSet(T) /\ Cardinality(T) # 0
      BY <3>2, FS_Subset, FS_EmptySet
    <3>4. a # NoAcl
      BY <2>3, <3>1
    <3>5. Uses(a)' \in Nat /\ Stale(a) \in Nat /\ (a \in DOMAIN all => all[a] = Uses(a)' + Stale(a))
          /\ (a \notin DOMAIN all => Uses(a)' = 0)
      BY <1>8, <3>4
    <3>6. a \in DOMAIN all /\ all[a] > 0
      BY <3>2, <3>3, <3>5
    <3> QED BY <1>9, <3>1, <3>6
  <2>4. ASSUME NEW a \in DOMAIN stale' PROVE a \in DOMAIN acls' /\ stale'[a] \in Nat /\ stale'[a] > 0
    <3>1. a \in DOMAIN stale /\ a \in DOMAIN acls /\ stale[a] \in Nat /\ stale[a] > 0 /\ stale'[a] = stale[a]
      BY <1>1, <1>2, <2>4 DEF CountsInv
    <3>2. a # NoAcl /\ a \in DOMAIN all /\ Stale(a) = stale[a]
      BY <1>2, <1>7, <3>1 DEF CountsInv, Stale
    <3>3. all[a] > 0
      BY <1>8, <3>1, <3>2
    <3> QED BY <1>9, <3>1, <3>2, <3>3
  <2> QED BY <2>1, <2>2, <2>3, <2>4 DEF CountsInv, Counted
<1>11. \A a : a # NoAcl /\ a \notin DOMAIN x.wr =>
         /\ Count(a)' = Count(a)
         /\ a \in DOMAIN acls => a \in DOMAIN acls'
  <2> TAKE a
  <2> HAVE a # NoAcl /\ a \notin DOMAIN x.wr
  <2>1. a \in DOMAIN acls => all[a] = acls[a] /\ acls[a] > 0 /\ a \in DOMAIN all
    BY <1>2, <1>7 DEF all, Over, CountsInv, Counted
  <2>2. a \in DOMAIN acls <=> a \in DOMAIN acls'
    BY <1>7, <1>9, <2>1
  <2>3. a \in DOMAIN acls => acls'[a] = acls[a]
    BY <1>9, <2>1, <2>2
  <2> QED BY <2>2, <2>3 DEF Count
<1>12. /\ DOMAIN w' = Changers /\ w'[p] = NoWork /\ \A o \in Changers : o # p => w'[o] = w[o]
  BY <1>1, <1>2 DEF WorksInv
<1>13. /\ WorkInv(NoWork)
       /\ \A o \in Changers : Apart(NoWork, w[o]) /\ Apart(w[o], NoWork)
  BY <1>3, Restart DEF j
<1>14. ASSUME NEW o \in Changers PROVE WorkInv(w[o])'
  <2>1. CASE o = p
    <3>1. DOMAIN NoWork.wr = {} /\ NoWork.pc = "idle"
      BY <1>13 DEF WorkInv, Writes, NoWork
    <3> QED BY <1>12, <1>13, <2>1, <3>1 DEF WorkInv, WorkShape, Writes, Points, Past, Counting
  <2>2. CASE o # p
    <3> DEFINE y == w[o]
    <3>1. WorkInv(y) /\ Apart(y, x) /\ Apart(x, y) /\ w'[o] = y
      BY <1>3, <1>12, <2>2
    <3> HIDE DEF y, x
    <3>2. y.pc \in {"decr", "commit"} => job'[y.ch.job].here = job[y.ch.job].here
                                         /\ job'[y.ch.job].aclid = job[y.ch.job].aclid
      <4>1. y.pc \in {"decr", "commit"} => y.held /\ y.ch.job \in Jobs
        BY <3>1 DEF WorkInv, WorkShape
      <4>2. x.pc = "commit" /\ y.pc \in {"decr", "commit"} => y.ch.job # j
        BY <1>4, <3>1, <4>1 DEF Apart, j
      <4>3. x.pc # "commit" => job' = job
        BY <1>1
      <4> QED BY <1>5, <4>1, <4>2, <4>3
    <3>3. y.pc = "incr" /\ y.new \in DOMAIN acls => y.new \in DOMAIN acls'
      <4>1. y.pc = "incr" => y.shared = y.new /\ y.new # NoAcl /\ y.new \notin DOMAIN x.wr
        BY <3>1, NoAclIsNone DEF Apart, WorkInv, WorkShape, Past
      <4> QED BY <1>11, <4>1
    <3>4. \A a \in DOMAIN y.wr : Count(a)' = Count(a)
      <4>1. NoAcl \notin DOMAIN y.wr /\ DOMAIN y.wr \cap DOMAIN x.wr = {}
        BY <3>1 DEF WorkInv, Writes, Apart
      <4> QED BY <1>11, <4>1
    <3>5. WorkShape(w[o])'
      BY <3>1, <3>2, <3>3 DEF WorkInv, WorkShape
    <3>6. Writes(w[o])'
      BY <3>1, <3>4 DEF WorkInv, Writes, Delta
    <3> QED BY <3>5, <3>6 DEF WorkInv
  <2> QED BY <2>1, <2>2
<1>15. ASSUME NEW o \in Changers, NEW r \in Changers, o # r PROVE Apart(w[o], w[r])'
  <2>1. Apart(w'[o], w'[r])
    BY <1>2, <1>12, <1>13, <1>15 DEF WorksInv
  <2> QED BY <2>1 DEF Apart
<1>16. TodoInv'
  BY <1>1, <1>2 DEF TodoInv
<1> QED BY <1>6, <1>10, <1>12, <1>14, <1>15, <1>16 DEF Good, WorksInv

\* Readers, and other processes, write to no row of acls; a job may get
\* another row that counts the same.
LEMMA SameAcls ==
  ASSUME Good, UNCHANGED <<acls, w>>, TodoInv', JobsInv',
         \A j \in Jobs : Locked(j) => job'[j] = job[j],
         \A a : a # NoAcl => Uses(a)' + Stale(a)' = Uses(a) + Stale(a),
         \A j \in Jobs : job'[j].aclid # NoAcl => job'[j].aclid = job[j].aclid /\ job[j].here,
         \A a \in DOMAIN stale' : a \in DOMAIN acls /\ stale'[a] \in Nat /\ stale'[a] > 0
  PROVE  Good'
<1>1. JobsInv /\ CountsInv /\ WorksInv
  BY DEF Good
<1>2. CountsInv'
  BY <1>1 DEF CountsInv, Counted
<1>3. ASSUME NEW o \in Changers PROVE WorkInv(w[o])'
  <2>1. WorkInv(w[o]) /\ w'[o] = w[o] /\ \A a : Count(a)' = Count(a)
    BY <1>1 DEF WorksInv, Count
  <2>2. w[o].pc \in {"decr", "commit"} => job'[w[o].ch.job] = job[w[o].ch.job]
    BY <2>1 DEF WorkInv, WorkShape, Locked
  <2>3. WorkShape(w[o])'
    BY <2>1, <2>2 DEF WorkInv, WorkShape
  <2>4. Writes(w[o])'
    BY <2>1 DEF WorkInv, Writes, Delta
  <2> QED BY <2>3, <2>4 DEF WorkInv
<1>4. ASSUME NEW o \in Changers, NEW r \in Changers, o # r PROVE Apart(w[o], w[r])'
  BY <1>1, <1>4 DEF WorksInv, Apart
<1>5. DOMAIN w' = Changers
  BY <1>1 DEF WorksInv
<1> QED BY <1>2, <1>3, <1>4, <1>5 DEF Good, WorksInv

\* A purge moves a count from the jobs to what purges have left.
LEMMA EnvironmentStep ==
  ASSUME Good, Environment
  PROVE  Good'
<1> DEFINE o == Head(todo.env)
           j == o.job
           acl == job[j].aclid
           row == [o.row EXCEPT !.aclid = IF o.row.here THEN acl ELSE NoAcl]
<1>1. /\ job' = [job EXCEPT ![j] = row] /\ UNCHANGED <<acls, w>> /\ ~Locked(j)
      /\ stale' = IF o.row.here \/ acl = NoAcl THEN stale ELSE Written(stale, acl, Stale(acl) + 1)
  BY DEF Environment
<1>2. IsSeq(todo.env) /\ todo.env # <<>> /\ DOMAIN todo = {"ask", "change", "env"}
  BY DEF Environment, Good, TodoInv
<1>3. Len(todo.env) > 0 /\ Len(todo.env) \in Nat
  BY <1>2, IsSeqEmpty, IsSeqLen
<1>4. /\ IsSeq(Tail(todo.env)) /\ Len(Tail(todo.env)) = Len(todo.env) - 1
      /\ Head(todo.env) = todo.env[1]
      /\ \A i \in 1..Len(todo.env) - 1 : Tail(todo.env)[i] = todo.env[i + 1]
  BY <1>2, <1>3, IsSeqTail
<1>5. todo' = [todo EXCEPT !.env = Tail(todo.env)]
  BY DEF Environment
<1>6. /\ DOMAIN todo' = {"ask", "change", "env"} /\ todo'.env = Tail(todo.env)
      /\ todo'.change = todo.change
  BY <1>2, <1>5
<1>7. \A i \in 1..Len(todo.env) - 1 : i + 1 \in 1..Len(todo.env)
  BY <1>3
<1>8. TodoInv'
  BY <1>4, <1>6, <1>7 DEF Good, TodoInv
<1>9. j \in Jobs /\ IsRow(o.row)
  BY <1>3, <1>4 DEF Good, TodoInv
<1>10. /\ IsRow(row) /\ row.here = o.row.here /\ row.aclid = IF o.row.here THEN acl ELSE NoAcl
  BY <1>9 DEF IsRow
<1>11. JobsInv /\ CountsInv
  BY DEF Good
<1> HIDE DEF o, row, j
<1>12. /\ DOMAIN job' = Jobs /\ job'[j] = row /\ \A i \in Jobs : i # j => job'[i] = job[i]
  BY <1>1, <1>9, <1>11 DEF JobsInv
<1>13. /\ IsRow(job[j]) /\ (acl = NoAcl \/ IsAcl(acl)) /\ (~job[j].here => acl = NoAcl)
       /\ o.row.here \in BOOLEAN
  BY <1>9, <1>11 DEF JobsInv, IsRow
<1>14. JobsInv'
  BY <1>10, <1>11, <1>12, <1>13 DEF JobsInv
<1>15. \A i \in Jobs : Locked(i) => job'[i] = job[i]
  BY <1>1, <1>12
<1>16. \A i \in Jobs : job'[i].aclid # NoAcl => job'[i].aclid = job[i].aclid /\ job[i].here
  <2> TAKE i \in Jobs
  <2>1. job[i].aclid # NoAcl => job[i].here
    BY <1>11 DEF JobsInv
  <2> QED BY <1>10, <1>12, <1>13, <2>1
<1>17. ASSUME NEW a, a # NoAcl PROVE Uses(a)' + Stale(a)' = Uses(a) + Stale(a)
  <2>1. Uses(a) \in Nat /\ Stale(a) \in Nat
    BY <1>11, <1>17, CountIsUses
  <2>2. Uses(a)' = Uses(a) + (IF job'[j].here /\ job'[j].aclid = a THEN 1 ELSE 0)
                           - (IF job[j].here /\ job[j].aclid = a THEN 1 ELSE 0)
    BY ONLY <1>9, <1>12, UsesChange
  <2>3. CASE o.row.here \/ acl = NoAcl
    <3>1. Stale(a)' = Stale(a)
      BY <1>1, <2>3 DEF Stale
    <3>2. (job'[j].here /\ job'[j].aclid = a) <=> (job[j].here /\ job[j].aclid = a)
      BY <1>10, <1>12, <1>13, <1>17, <2>3
    <3> QED BY <2>1, <2>2, <3>1, <3>2
  <2>4. CASE ~o.row.here /\ acl # NoAcl
    <3>1. stale' = Written(stale, acl, Stale(acl) + 1) /\ ~job'[j].here /\ job[j].here
      BY <1>1, <1>10, <1>12, <1>13, <2>4
    <3>2. Stale(a)' = IF a = acl THEN Stale(a) + 1 ELSE Stale(a)
      BY <3>1 DEF Stale, Written
    <3> QED BY <2>1, <2>2, <3>1, <3>2
  <2> QED BY <2>3, <2>4
<1>18. ASSUME NEW a \in DOMAIN stale' PROVE a \in DOMAIN acls /\ stale'[a] \in Nat /\ stale'[a] > 0
  <2>1. CASE o.row.here \/ acl = NoAcl
    BY <1>1, <1>11, <1>18, <2>1 DEF CountsInv
  <2>2. CASE ~o.row.here /\ acl # NoAcl
    <3>1. acl \in DOMAIN acls
      BY <1>9, <1>11, <1>13, <2>2 DEF CountsInv, Counted
    <3>2. Stale(acl) \in Nat
      BY <1>11, <2>2, CountIsUses
    <3>3. stale' = Written(stale, acl, Stale(acl) + 1)
      BY <1>1, <2>2
    <3>4. (a = acl /\ stale'[a] = Stale(acl) + 1) \/ (a # acl /\ a \in DOMAIN stale /\ stale'[a] = stale[a])
      BY <1>18, <3>3 DEF Written
    <3> QED BY <1>11, <3>1, <3>2, <3>4 DEF CountsInv
  <2> QED BY <2>1, <2>2
<1> QED BY <1>1, <1>8, <1>14, <1>15, <1>16, <1>17, <1>18, SameAcls

\* A step of a reader: it reads tables, and takes from its requests.
LEMMA ReaderStep ==
  ASSUME Good, UNCHANGED <<job, acls, stale, w>>,
         UNCHANGED todo \/ todo' = [todo EXCEPT !.ask = Tail(@)]
  PROVE  Good'
<1>1. JobsInv /\ CountsInv /\ TodoInv
  BY DEF Good
<1>2. TodoInv'
  <2>1. /\ DOMAIN todo' = {"ask", "change", "env"} /\ todo'.env = todo.env /\ todo'.change = todo.change
    BY <1>1 DEF TodoInv
  <2> QED BY <1>1, <2>1 DEF TodoInv
<1>3. JobsInv' /\ \A j \in Jobs : job'[j].aclid # NoAcl => job'[j].aclid = job[j].aclid /\ job[j].here
  BY <1>1 DEF JobsInv
<1>4. \A a : Uses(a)' + Stale(a)' = Uses(a) + Stale(a)
  BY DEF Uses, Stale
<1>5. \A a \in DOMAIN stale' : a \in DOMAIN acls /\ stale'[a] \in Nat /\ stale'[a] > 0
  BY <1>1 DEF CountsInv
<1> QED BY <1>2, <1>3, <1>4, <1>5, SameAcls

-----------------------------------------------------------------------------
(* The theorem.                                                             *)

LEMMA AclInit == Init => AclInv
<1> SUFFICES ASSUME Init PROVE AclInv
  OBVIOUS
<1>1. PICK s \in Scenarios :
        /\ job = s.job /\ stale = <<>> /\ exposed = FALSE
        /\ todo = [ask |-> s.ask, change |-> s.change, env |-> s.env]
        /\ acls = [a \in {s.job[j].aclid : j \in Jobs} \ {NoAcl} |->
                        Cardinality({j \in Jobs : s.job[j].aclid = a})]
        /\ w = [p \in Changers |-> NoWork]
  BY DEF Init
<1>2. JobsInv
  BY <1>1, QueryAssumption DEF JobsInv
<1>3. TodoInv
  BY <1>1, QueryAssumption DEF TodoInv, IsSeq
<1>4. DOMAIN stale = {} /\ \A a : Stale(a) = 0
  <2>1. DOMAIN <<>> = {}
    BY EmptySeq, LenProperties
  <2> QED BY <1>1, <2>1 DEF Stale
<1>5. CountsInv
  <2>1. DOMAIN acls = {s.job[j].aclid : j \in Jobs} \ {NoAcl}
    BY <1>1
  <2>2. ASSUME NEW a \in DOMAIN acls PROVE acls[a] = Uses(a) + Stale(a) /\ acls[a] > 0
    <3> DEFINE S == {j \in Jobs : job[j].aclid = a}
               T == {j \in Jobs : job[j].here /\ job[j].aclid = a}
    <3>1. S = T /\ a # NoAcl
      BY <1>2, <2>1 DEF JobsInv, IsRow
    <3>2. acls[a] = Cardinality(S) /\ Uses(a) = Cardinality(T)
      BY <1>1, <2>1 DEF Uses
    <3>3. PICK j \in Jobs : job[j].aclid = a
      BY <1>1, <2>1
    <3>4. job[j].here
      BY <1>2, <3>1, <3>3 DEF JobsInv, IsRow
    <3>5. Uses(a) > 0 /\ Uses(a) \in Nat
      BY <3>3, <3>4, UsedCounts, UsesType
    <3> HIDE DEF S, T
    <3> QED BY <1>4, <3>1, <3>2, <3>5
  <2>3. \A j \in Jobs : job[j].aclid # NoAcl => job[j].aclid \in DOMAIN acls
    BY <1>1, <2>1
  <2> QED BY <1>4, <2>1, <2>2, <2>3 DEF CountsInv, Counted
<1>6. WorksInv
  <2>1. DOMAIN w = Changers /\ \A p \in Changers : w[p] = NoWork
    BY <1>1
  <2>2. DOMAIN NoWork.wr = {} /\ NoWork.pc = "idle" /\ NoWork.shared = NoAcl /\ NoWork.held = FALSE
        /\ NoWork.err = FALSE /\ DOMAIN NoWork = Fields
    <3>1. DOMAIN <<>> = {}
      BY EmptySeq, LenProperties
    <3> QED BY <3>1 DEF NoWork, Fields
  <2>3. WorkInv(NoWork)
    BY <2>2 DEF WorkInv, WorkShape, Writes, Points, Past, Counting
  <2>4. Apart(NoWork, NoWork)
    BY <2>2 DEF Apart
  <2> QED BY <2>1, <2>3, <2>4 DEF WorksInv
<1> QED BY <1>1, <1>2, <1>3, <1>5, <1>6 DEF AclInv, Good

LEMMA AclNext == AclInv /\ [Next]_vars => AclInv'
<1> SUFFICES ASSUME AclInv, [Next]_vars PROVE AclInv'
  OBVIOUS
<1>1. exposed \in BOOLEAN /\ (~exposed => Good)
  BY DEF AclInv
<1>2. ASSUME NEW r \in Readers, Ask(r) PROVE AclInv'
  BY <1>1, <1>2, ReaderStep DEF Ask, AclInv
<1>3. ASSUME NEW r \in Readers,
             Page(r) \/ PageFails(r) \/ JobRow(r) \/ EventRow(r) \/ AclRow(r) \/ End(r)
      PROVE  AclInv'
  <2>1. UNCHANGED <<job, acls, stale, exposed, w, todo>>
    BY <1>3 DEF Page, PageFails, JobRow, EventRow, AclRow, End
  <2> QED BY <1>1, <2>1, ReaderStep DEF AclInv
<1>4. CASE Environment
  <2>1. UNCHANGED exposed
    BY <1>4 DEF Environment
  <2> QED BY <1>1, <1>4, <2>1, EnvironmentStep DEF AclInv
<1>5. ASSUME NEW p \in Changers,
             \/ Take(p) \/ BeginUpdate(p) \/ Insert(p) \/ Incr(p) \/ UpdateJob(p)
             \/ Decr(p) \/ Undo(p) \/ Commit(p)
      PROVE  AclInv'
  <2>1. UNCHANGED exposed
    BY <1>5 DEF Take, BeginUpdate, Insert, Incr, UpdateJob, Decr, Undo, Commit
  <2>2. Good => Good'
    BY <1>5, TakeStep, BeginUpdateStep, InsertStep, IncrStep, UpdateJobStep, DecrStep, UndoStep,
       CommitStep
  <2> QED BY <1>1, <2>1, <2>2 DEF AclInv
<1>6. ASSUME NEW p \in Changers, Rollback(p) PROVE AclInv'
  <2>1. exposed' = (exposed \/ w[p].pc \in {"update", "undo"} \/ (w[p].pc = "incr" /\ ~Deadlock(p)))
    BY <1>6 DEF Rollback
  <2>2. exposed' \in BOOLEAN /\ (~exposed' => ~exposed)
    BY <2>1
  <2> QED BY <1>1, <1>6, <2>2, RollbackStep DEF AclInv
<1>7. CASE UNCHANGED vars
  BY <1>1, <1>7, ReaderStep DEF vars, AclInv
<1> QED BY <1>2, <1>3, <1>4, <1>5, <1>6, <1>7 DEF Next

\* edg_wll_UpdateACL and edg_wll_HandleCounterACL keep the reference count of
\* every ACL at the number of jobs that refer to it and of purged jobs that
\* did, and delete no list that a job refers to, whatever the processes that
\* change ACLs, register and purge jobs at the same time, the deadlocks of the
\* database, one that is passed over in the increment included, and the
\* transactions that are done again; until a failure of the database is taken
\* for a change of the ACL.
THEOREM CountsRight == Spec => []AclCounted
<1>1. AclInv => AclCounted
  BY DEF AclInv, Good, CountsInv, Counted, AclCounted
<1> QED BY <1>1, AclInit, AclNext, PTL DEF Spec
=============================================================================
