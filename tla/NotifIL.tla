------------------------------ MODULE NotifIL ------------------------------
(***************************************************************************)
(* The notification inter-logger: the inter-logger built with              *)
(* IL_NOTIFICATIONS.  It reads the event files the server writes           *)
(* (event_store_recover), keeps a queue and a thread for each destination, *)
(* and for each registration the destination and the expiration that its   *)
(* latest message names.  One thread serves a queue (parallel = 1).        *)
(*                                                                         *)
(* pos[id], comm[id]  messages of the file read, and committed: the latter *)
(*                    is in the control file and survives a restart        *)
(* q[d]               the queue of destination d, of [id, n, exp]: the     *)
(*                    message number n of the registration's file          *)
(* known[id], mexp[id]  the entry of notifid_map                           *)
(* th[d]              the thread: whether it is there ("left": it has      *)
(*                    ended with messages in its queue), whether it is     *)
(*                    connected, and what it is sending                    *)
(* il                 the reading of a file, between its two parts         *)
(* lsn                the address the client listens at                    *)
(* wire[d]            the connection: the message and the client's answer  *)
(***************************************************************************)
EXTENDS NotifServer, SequencesExt

CONSTANT Dests          \* addresses

VARIABLES pos, comm, q, known, mexp, th, il, lsn, wire,
          top           \* the last message given to a client since the start, or settled
ilVars == <<pos, comm, q, known, mexp, th, il>>

NoWire == [m |-> <<>>, pc |-> "none"]
Nothing == <<>>
NoThread == [run |-> "none", open |-> FALSE, cur |-> Nothing, pc |-> "idle"]
Reading == [id |-> 0, from |-> None, dest |-> None, exp |-> 0]

Elem(id, n, exp) == [id |-> id, n |-> n, exp |-> exp]
Msg(e) == file[e.id][e.n]
Control(e) == Msg(e).j = None

\* Mutant: one message of each registration is counted.
CommitOne(c, S) == [id \in Ids |-> c[id] + IF \E e \in S : e.id = id THEN 1 ELSE 0]

\* event_store_commit counts bytes, whichever message they are of.
event_store_commit(c, S) == [id \in Ids |-> c[id] + Cardinality({e \in S : e.id = id})]

---------------------------------------------------------------------------
(* event_queue_move_events walks from the head and stops at the last       *)
(* element, which it looks at only when it is the first one, too.          *)

\* Mutants: no element behind the first one is looked at, nor the last one when
\* it is alone.
WalkFirst(s) == IF s = <<>> THEN 0 ELSE 1
WalkShort(s) == IF s = <<>> THEN 0 ELSE Len(s) - 1

WalkLen(s) == IF Len(s) <= 1 THEN Len(s) ELSE Len(s) - 1

\* Those of the elements walked over that are in S, and what stays.
Taken(s, S) == SelectSeq(SubSeq(s, 1, WalkLen(s)), LAMBDA e : e \in S)
Staying(s, S) == SelectSeq(s, LAMBDA e : ~Contains(Taken(s, S), e))

cmp_expires(e) == e.exp > 0 /\ e.exp < now
Expired(s) == {e \in ToSet(s) : cmp_expires(e)}

\* cmp_jobid_set_exp changes the elements as they are walked over.
SetExp(s, id, exp) ==
    [i \in 1..Len(s) |-> IF i <= WalkLen(s) /\ s[i].id = id THEN [s[i] EXCEPT !.exp = exp]
                         ELSE s[i]]

---------------------------------------------------------------------------
(* event_store_recover, called for a message on the socket, by the         *)
(* recovery thread and at the start.                                       *)

\* The first part queues what is new in the file for the destination known so
\* far, or else for the first one named.  Messages before that are committed
\* at once.
Unread(id) == SubSeq(file[id], pos[id] + 1, Len(file[id]))
Named(id) == {i \in 1..Len(Unread(id)) : Unread(id)[i].to # None}
FirstNamed(id) == CHOOSE i \in Named(id) : \A k \in Named(id) : i <= k
LastNamed(id) == CHOOSE i \in Named(id) : \A k \in Named(id) : i >= k

queue_list_get(id) == known[id]
notifid_map_set_dest(id, d) == known' = [known EXCEPT ![id] = d]
notifid_map_set_expiration(id, exp) == mexp' = [mexp EXCEPT ![id] = exp]

ReadFrom(id) == IF queue_list_get(id) # None THEN 1
                ELSE IF Named(id) = {} THEN Len(Unread(id)) + 1 ELSE FirstNamed(id)
ReadDest(id) == IF queue_list_get(id) # None THEN queue_list_get(id)
                ELSE IF Named(id) = {} THEN None ELSE Unread(id)[FirstNamed(id)].to

\* A thread that is giving up still has its identifier: no other one is made.
event_queue_create_thread(d) == [th EXCEPT ![d].run = IF @ = "leaving" THEN @ ELSE "up"]

event_store_recover(id) ==
    LET new == Unread(id)
        d == ReadDest(id)
        i0 == ReadFrom(id)
        els == [k \in 1..(Len(new) - i0 + 1) |->
                   Elem(id, pos[id] + i0 + k - 1, new[i0 + k - 1].exp)]
    IN  /\ il = Reading
        /\ new # <<>>
        /\ q' = IF d = None THEN q ELSE [q EXCEPT ![d] = @ \o els]
        /\ comm' = [comm EXCEPT ![id] = @ + i0 - 1]
        /\ top' = [top EXCEPT ![id] = @ + i0 - 1]
        /\ notifid_map_set_dest(id, d)
        /\ pos' = [pos EXCEPT ![id] = Len(file[id])]
        /\ il' = [id |-> id, from |-> d, exp |-> Last(new).exp,
                  dest |-> IF Named(id) = {} THEN d ELSE new[LastNamed(id)].to]
        /\ th' = IF d = None THEN th ELSE event_queue_create_thread(d)
        /\ UNCHANGED <<mexp, lsn, wire, bud, serverVars>>

\* The second part moves the messages to the destination named last, and gives
\* those in the queue the expiration of the last one.
RecoverMove ==
    LET id == il.id
        mine == IF il.from = None THEN {} ELSE {e \in ToSet(q[il.from]) : e.id = id}
        moves == il.dest # il.from
        moved == IF moves THEN Taken(q[il.from], mine) ELSE <<>>
        q1 == IF moves THEN [q EXCEPT ![il.from] = Staying(@, mine), ![il.dest] = @ \o moved] ELSE q
    IN  /\ il # Reading
        /\ notifid_map_set_dest(id, il.dest)
        /\ IF il.dest # None /\ il.exp # mexp[id]
           THEN /\ notifid_map_set_expiration(id, il.exp)
                /\ q' = [q1 EXCEPT ![il.dest] = SetExp(@, id, il.exp)]
           ELSE q' = q1 /\ UNCHANGED mexp
        /\ th' = IF moves THEN event_queue_create_thread(il.dest) ELSE th
        /\ il' = Reading
        /\ UNCHANGED <<pos, comm, lsn, wire, top, bud, serverVars>>

---------------------------------------------------------------------------
(* The thread of a queue.                                                  *)

Listening(d) == lsn = d

\* A pass of the thread: expired messages are committed and freed, then it
\* tries to connect.
Discarded(d) == Taken(q[d], Expired(q[d]))

\* A notification whose registration is still there: it may have been refreshed,
\* or be refreshed yet, and is discarded before the inter-logger gets to know.
Registered(e) == ~Control(e) /\ regs[e.id] # NoReg

queue_thread(d) ==
    LET gone == Discarded(d)
        left == Staying(q[d], Expired(q[d]))
    IN  /\ th[d].run = "up" /\ ~th[d].open
        /\ q[d] # <<>>
        /\ gone # <<>> \/ Listening(d)
        /\ q' = [q EXCEPT ![d] = left]
        /\ comm' = event_store_commit(comm, ToSet(gone))
        /\ top' = [id \in Ids |-> LET k == {e.n : e \in {x \in ToSet(gone) : x.id = id}}
                                  IN  IF k = {} \/ \A x \in k : x <= top[id] THEN top[id]
                                      ELSE CHOOSE x \in k : \A y \in k : y <= x]
        /\ th' = [th EXCEPT ![d].open = left # <<>> /\ Listening(d)]
        /\ bud' = [bud EXCEPT !.lossless = @ /\ ~\E e \in ToSet(gone) : Registered(e)]
        /\ UNCHANGED <<pos, known, mexp, il, lsn, wire, serverVars>>

\* event_queue_get and the writing.  A message that only changes the
\* registration is not sent.
EventGet(d) ==
    /\ th[d].open /\ th[d].cur = Nothing
    /\ q[d] # <<>>
    /\ th' = [th EXCEPT ![d].cur = <<Head(q[d])>>,
                        ![d].pc = IF Control(Head(q[d])) THEN "answered" ELSE "sent"]
    /\ wire' = IF Control(Head(q[d])) THEN wire
               ELSE [wire EXCEPT ![d] = [m |-> <<Head(q[d])>>, pc |-> "sent"]]
    /\ UNCHANGED <<pos, comm, q, known, mexp, il, lsn, top, bud, serverVars>>

EventsSent(d) ==
    /\ th[d].open /\ th[d].cur = Nothing
    /\ q[d] = <<>>
    /\ th' = [th EXCEPT ![d].open = FALSE]
    /\ UNCHANGED <<pos, comm, q, known, mexp, il, lsn, wire, top, bud, serverVars>>

\* No answer in time, or the connection is gone: it is tried again later.
EventUnanswered(d) ==
    /\ th[d].pc = "sent"
    /\ wire[d].pc \in {"sent", "read", "none"}
    /\ IF wire[d].pc = "none" \/ ~Listening(d) THEN UNCHANGED bud ELSE Spend("slow")
    /\ th' = [th EXCEPT ![d] = [NoThread EXCEPT !.run = "up"]]
    /\ wire' = [wire EXCEPT ![d] = NoWire]
    /\ UNCHANGED <<pos, comm, q, known, mexp, il, lsn, top, serverVars>>

\* The answer has come, and the message is committed.
EventCommit(d) ==
    LET e == th[d].cur[1]
    IN  /\ \/ th[d].pc = "answered"
           \/ th[d].pc = "sent" /\ wire[d].pc = "replied"
        /\ comm' = [comm EXCEPT ![e.id] = @ + 1]
        /\ top' = [top EXCEPT ![e.id] = IF e.n > @ THEN e.n ELSE @]
        /\ th' = [th EXCEPT ![d].pc = "committed"]
        /\ UNCHANGED <<pos, q, known, mexp, il, lsn, wire, bud, serverVars>>

\* The control file cannot be written: the counter has moved all the same, the
\* message stays in the queue, and the thread ends.
EventCommitFails(d) ==
    /\ \/ th[d].pc = "answered"
       \/ th[d].pc = "sent" /\ wire[d].pc = "replied"
    /\ Spend("ctl_fails")
    /\ comm' = [comm EXCEPT ![th[d].cur[1].id] = @ + 1]
    /\ th' = [th EXCEPT ![d] = [NoThread EXCEPT !.run = "leaving"]]
    /\ wire' = [wire EXCEPT ![d] = NoWire]
    /\ UNCHANGED <<pos, q, known, mexp, il, lsn, top, serverVars>>

\* The wait for a message times out: the thread will end, without another
\* look at the queue.
ThreadIdle(d) ==
    /\ th[d].run = "up" /\ ~th[d].open
    /\ q[d] = <<>>
    /\ Spend("idles")
    /\ th' = [th EXCEPT ![d].run = "leaving"]
    /\ UNCHANGED <<pos, comm, q, known, mexp, il, lsn, wire, top, serverVars>>

queue_thread_cleanup(d) ==
    /\ th[d].run = "leaving"
    /\ th' = [th EXCEPT ![d].run = IF q[d] = <<>> THEN "none" ELSE "left"]
    /\ UNCHANGED <<pos, comm, q, known, mexp, il, lsn, wire, top, bud, serverVars>>

\* event_queue_remove: one that has been moved to another queue stays there.
SameMsg(e, f) == e.id = f.id /\ e.n = f.n

EventRemove(d) ==
    /\ th[d].pc = "committed"
    /\ q' = [q EXCEPT ![d] = SelectSeq(@, LAMBDA e : ~SameMsg(e, th[d].cur[1]))]
    /\ th' = [th EXCEPT ![d].cur = Nothing, ![d].pc = "idle"]
    /\ UNCHANGED <<pos, comm, known, mexp, il, lsn, wire, top, bud, serverVars>>

\* The inter-logger ends and starts again: what is not in a file is gone.
\* Queues are made when a message for their destination comes.
queue_list_init == [d \in Dests |-> <<>>]

IlInit ==
    /\ pos = [id \in Ids |-> 0]
    /\ comm = [id \in Ids |-> 0]
    /\ q = queue_list_init
    /\ known = [id \in Ids |-> None]
    /\ mexp = [id \in Ids |-> 0]
    /\ th = [d \in Dests |-> NoThread]
    /\ il = Reading
    /\ wire = [d \in Dests |-> NoWire]
    /\ top = [id \in Ids |-> 0]

IlRestart ==
    /\ Spend("restarts")
    /\ pos' = comm
    /\ top' = comm
    /\ q' = queue_list_init
    /\ known' = [id \in Ids |-> None]
    /\ mexp' = [id \in Ids |-> 0]
    /\ th' = [d \in Dests |-> NoThread]
    /\ il' = Reading
    /\ wire' = [d \in Dests |-> NoWire]
    /\ UNCHANGED <<comm, lsn, serverVars>>

ThreadStep(d) == \/ queue_thread(d) \/ EventGet(d) \/ EventsSent(d)
                 \/ EventUnanswered(d) \/ EventCommit(d) \/ EventRemove(d)
                 \/ queue_thread_cleanup(d)

IlStep == \/ \E id \in Ids : event_store_recover(id)
          \/ RecoverMove
          \/ \E d \in Dests : ThreadStep(d)
=============================================================================
