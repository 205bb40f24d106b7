--------------------------- MODULE RequestProofs ---------------------------
(***************************************************************************)
(* Proofs about Request: who a thread is answered as, and that the answer   *)
(* is to its own request, for any threads, slaves, servers, size of the     *)
(* pool and calls.                                                          *)
(***************************************************************************)
EXTENDS Request, DataFacts

-----------------------------------------------------------------------------
(* The inductive invariant.                                                 *)

\* Control points of a thread at which it has an entry of the pool, at which
\* it looks for one, and at which it talks to the proxy.
InEntry == {"added", "cred", "connect", "auth", "send", "recv", "close", "closed"}
Looking == {"lock", "release", "released", "add"}
OnProxy == {"popen", "psend", "precv"}
Serving == {"idle", "failed", "serve", "answer"}

\* A piece of an answer to u, and its place behind another one.
LineOf(m, u) == "user" \in DOMAIN m /\ m.user = u
Piece(x, u) ==
  /\ x.k \in {"line", "head", "body"}
  /\ x.k # "body" => LineOf(x.m, u) /\ x.m.op = "answer"
  /\ x.k = "head" => x.clen = 1
Behind(x, y) == /\ y.k = "body" => x.k = "head"
                /\ y.k = "head" => x.k = "line"

\* What a reader in that state may find before it.
Stream(st, s, u) ==
  /\ IsSeq(s)
  /\ \A i \in 1..Len(s) : Piece(s[i], u)
  /\ \A i \in 1..Len(s) : i > 1 => Behind(s[i - 1], s[i])
  /\ Len(s) > 0 => s[1].k # (IF st = "BODY" THEN "head" ELSE "body")

\* The state of the reader of an entry.
Want(i) == IF locked_by[i] \in Threads THEN th[locked_by[i]].got.st ELSE "FIRST"

CallsOf(script) == \A t \in Threads :
  /\ IsSeq(script[t])
  /\ \A k \in 1..Len(script[t]) : DOMAIN script[t][k] = DOMAIN NoCall /\ script[t][k].jobs \subseteq DOMAIN JobServer

BudInv ==
  /\ {"script", "who", "size"} \subseteq DOMAIN bud
  /\ bud.size \in Nat
  /\ DOMAIN bud.script = Threads
  /\ CallsOf(bud.script)

ThreadInv(t) ==
  LET x == th[t]
      e == pool[x.idx]
  IN /\ DOMAIN x = DOMAIN NewThread
     /\ x.pc \in {"idle", "ret"} \cup Looking \cup InEntry \cup OnProxy
     /\ x.srv \in (Servers \ {Proxy}) \cup {None}
     /\ x.pc \in Looking \cup InEntry => x.srv # None
     /\ IF x.pc \in InEntry THEN x.idx \in Idx ELSE x.idx = 0
     /\ x.pc \in {"close", "closed"} => x.next \in {"ret", "lock"}
     /\ x.pc \in Looking \cup InEntry /\ x.pc \notin {"recv", "close"} => x.got = Nothing
     /\ x.pc \in {"recv", "close"} => /\ DOMAIN x.got = DOMAIN Nothing /\ x.got.st \in {"FIRST", "BODY"}
                                      /\ x.got.st = "BODY" => LineOf(x.got.line, e.cert)
     /\ IF x.pc = "auth" THEN x.conn \in Conns ELSE x.conn = 0
     /\ x.pc # "ret" => x.ans = NoAns
     /\ x.pc \in OnProxy => x.call.proxy
     /\ x.pc \in {"added", "cred"} => Cert(t) = None \/ e.cert = Cert(t) \/ ~e.cred
     /\ x.pc \in {"connect", "auth", "send", "recv"} =>
          e.cred /\ (Cert(t) = None \/ e.cert = Cert(t))
     /\ x.pc \in {"send", "recv"} => e.gss # 0
     /\ x.pc \in InEntry \ {"close", "closed"} => e.peer # None
     /\ x.pc \in {"psend", "precv"} => x.px # 0

\* What a slave has for a client that reads it.
ServedInv(i, s) ==
  LET e == pool[i]
      coming == net[e.gss].down \o sl[s].out
  IN /\ sl[s].pc \in Serving /\ sl[s].user = e.cert
     /\ Stream(Want(i), e.buf \o coming, e.cert)

EntryInv(i) ==
  LET e == pool[i]
  IN /\ DOMAIN e = DOMAIN NoEntry
     /\ e.peer = None \/ ~e.cred => e.buf = <<>> /\ e.gss = 0
     /\ Stream(Want(i), e.buf, e.cert)
     /\ e.gss # 0 =>
          /\ net[e.gss].as = e.cert /\ net[e.gss].peer # Proxy /\ net[e.gss].sv # "queued"
          /\ Stream(Want(i), e.buf \o net[e.gss].down, e.cert)
          /\ \A s \in Slaves : sl[s].conn = e.gss => ServedInv(i, s)

LockInv ==
  /\ DOMAIN locked_by = Idx
  /\ \A i \in Idx : locked_by[i] \in Threads \cup {None}
  /\ \A t \in Threads, i \in Idx : locked_by[i] = t <=> th[t].idx = i

NetInv ==
  /\ DOMAIN net = Conns
  /\ \A c \in Conns : /\ DOMAIN net[c] = DOMAIN NoConn /\ net[c].sv \in {"queued", "open", "closed"}
                      /\ IsSeq(net[c].up) /\ IsSeq(net[c].down)

\* A connection has one owner in the client, which has not closed it.
Holders == ({"pool"} \X Idx) \cup ({"conn", "px"} \X Threads)
Held(h) == CASE h[1] = "pool" -> pool[h[2]].gss
             [] h[1] = "conn" -> th[h[2]].conn
             [] h[1] = "px" -> th[h[2]].px
HolderInv ==
  /\ \A h \in Holders : Held(h) # 0 => Held(h) \in Conns /\ net[Held(h)].cl
  /\ \A g, h \in Holders : Held(g) # 0 /\ Held(g) = Held(h) => g = h

SlaveInv(s) ==
  LET x == sl[s]
  IN /\ DOMAIN x = DOMAIN NewSlave
     /\ x.pc \in {"free", "accept"} \cup Serving
     /\ IF x.pc = "free" THEN x.conn = 0
        ELSE x.conn \in Conns /\ net[x.conn].sv = "open" /\ net[x.conn].peer = SlaveOf[s]
     /\ IsSeq(x.out)
     /\ x.pc # "answer" => x.out = <<>>
     /\ x.pc = "accept" => ~x.in

SlavesInv ==
  /\ DOMAIN sl = Slaves
  /\ \A s \in Slaves : SlaveInv(s)
  /\ \A s, r \in Slaves : sl[s].conn # 0 /\ sl[s].conn = sl[r].conn => s = r

\* A connection that is being authenticated.
AuthInv(t) ==
  LET c == th[t].conn
      n == net[c]
  IN c # 0 =>
     /\ n.peer # Proxy /\ n.as = pool[th[t].idx].cert
     /\ n.down \in {<<>>, <<Token>>}
     /\ n.sv = "queued" => n.up = <<Token>> /\ n.down = <<>>
     /\ \A s \in Slaves : sl[s].conn = c =>
          /\ sl[s].pc \in {"accept", "idle"}
          /\ sl[s].pc = "accept" => n.up = <<Token>> /\ n.down = <<>>
          /\ sl[s].pc = "idle" => n.up = <<>> /\ n.down = <<Token>> /\ ~sl[s].in /\ sl[s].user = n.as

UsedInv == \E b \in Nat : \A i \in Idx : pool[i].used \in 0..b

RunInv ==
  /\ DOMAIN pool = Idx /\ DOMAIN th = Threads
  /\ \A t \in Threads : ThreadInv(t) /\ AuthInv(t)
  /\ \A i \in Idx : EntryInv(i)
  /\ LockInv /\ NetInv /\ HolderInv /\ SlavesInv /\ UsedInv

AsInv == BudInv /\ AnsweredAs /\ (dead \/ RunInv)

-----------------------------------------------------------------------------
(* Streams of pieces.                                                       *)

LEMMA StreamEmpty ==
  ASSUME NEW st, NEW u
  PROVE  Stream(st, <<>>, u)
  BY EmptyIsSeq DEF Stream

LEMMA StreamPrefix ==
  ASSUME NEW a, IsSeq(a), NEW b, IsSeq(b), NEW st, NEW u, Stream(st, a \o b, u)
  PROVE  Stream(st, a, u)
<1> DEFINE s == a \o b
<1>1. /\ Len(a) \in Nat /\ Len(b) \in Nat /\ Len(s) = Len(a) + Len(b)
      /\ \A i \in 1..Len(a) + Len(b) : s[i] = IF i <= Len(a) THEN a[i] ELSE b[i - Len(a)]
  BY IsSeqConcat, IsSeqLen
<1> HIDE DEF s
<1>2. \A i \in 1..Len(a) : s[i] = a[i] /\ i \in 1..Len(s)
  BY <1>1
<1>3. \A i \in 1..Len(a) : i > 1 => i - 1 \in 1..Len(a)
  BY <1>1
<1>4. /\ \A i \in 1..Len(s) : Piece(s[i], u)
      /\ \A i \in 1..Len(s) : i > 1 => Behind(s[i - 1], s[i])
      /\ Len(s) > 0 => s[1].k # (IF st = "BODY" THEN "head" ELSE "body")
  BY DEF Stream, s
<1>5. Len(a) > 0 => Len(s) > 0 /\ 1 \in 1..Len(a)
  BY <1>1
<1>6. \A i \in 1..Len(a) : Piece(a[i], u)
  BY <1>2, <1>4
<1>7. \A i \in 1..Len(a) : i > 1 => Behind(a[i - 1], a[i])
  BY <1>2, <1>3, <1>4
<1>8. Len(a) > 0 => a[1].k # (IF st = "BODY" THEN "head" ELSE "body")
  BY <1>2, <1>4, <1>5
<1> QED BY <1>6, <1>7, <1>8 DEF Stream

\* The first m pieces are gone.
LEMMA StreamDrop ==
  ASSUME NEW s, NEW r, IsSeq(s), IsSeq(r), NEW st, NEW to, NEW u, Stream(st, s \o r, u),
         NEW d, IsSeq(d), NEW m \in 0..Len(s), Len(d) = Len(s) - m,
         \A i \in 1..Len(d) : d[i] = s[i + m],
         m + 1 <= Len(s) + Len(r) => (s \o r)[m + 1].k # (IF to = "BODY" THEN "head" ELSE "body")
  PROVE  Stream(to, d \o r, u)
<1> DEFINE a == s \o r
           b == d \o r
<1>1. /\ Len(s) \in Nat /\ Len(r) \in Nat /\ Len(d) \in Nat /\ m \in Nat
  BY IsSeqLen
<1>2. /\ Len(a) = Len(s) + Len(r)
      /\ \A i \in 1..Len(s) + Len(r) : a[i] = IF i <= Len(s) THEN s[i] ELSE r[i - Len(s)]
  BY IsSeqConcat
<1>3. /\ IsSeq(b) /\ Len(b) = Len(d) + Len(r)
      /\ \A i \in 1..Len(d) + Len(r) : b[i] = IF i <= Len(d) THEN d[i] ELSE r[i - Len(d)]
  BY IsSeqConcat
<1>4. /\ \A i \in 1..Len(a) : Piece(a[i], u)
      /\ \A i \in 1..Len(a) : i > 1 => Behind(a[i - 1], a[i])
  BY DEF Stream
<1>5. m + 1 <= Len(a) => a[m + 1].k # (IF to = "BODY" THEN "head" ELSE "body")
  BY <1>2
<1> HIDE DEF a, b
<1>6. ASSUME NEW i \in 1..Len(b) PROVE b[i] = a[i + m] /\ i + m \in 1..Len(a)
  <2>1. i + m \in 1..Len(a) /\ (i <= Len(d) <=> i + m <= Len(s)) /\ i - Len(d) = (i + m) - Len(s)
    BY <1>1, <1>2, <1>3
  <2>2. CASE i <= Len(d)
    <3>1. i \in 1..Len(d)
      BY <1>1, <2>2
    <3>2. b[i] = d[i] /\ a[i + m] = s[i + m]
      BY <1>2, <1>3, <2>1, <2>2
    <3> QED BY <2>1, <3>1, <3>2
  <2>3. CASE ~(i <= Len(d))
    BY <1>2, <1>3, <2>1, <2>3
  <2> QED BY <2>2, <2>3
<1>7. \A i \in 1..Len(b) : Piece(b[i], u)
  BY <1>4, <1>6
<1>8. ASSUME NEW i \in 1..Len(b), i > 1 PROVE Behind(b[i - 1], b[i])
  <2>1. i - 1 \in 1..Len(b) /\ i + m > 1 /\ (i - 1) + m = (i + m) - 1
    BY <1>1, <1>3, <1>8
  <2>2. b[i] = a[i + m] /\ i + m \in 1..Len(a) /\ b[i - 1] = a[(i + m) - 1]
    BY <1>6, <2>1
  <2> QED BY <1>4, <2>1, <2>2
<1>9. Len(b) > 0 => b[1].k # (IF to = "BODY" THEN "head" ELSE "body")
  <2>1. Len(b) > 0 => 1 \in 1..Len(b) /\ 1 + m = m + 1 /\ m + 1 <= Len(a)
    BY <1>1, <1>2, <1>3
  <2> QED BY <1>5, <1>6, <2>1
<1>10. Stream(to, b, u)
  BY <1>3, <1>7, <1>8, <1>9 DEF Stream
<1> QED BY <1>10 DEF b

\* Another answer to the same client.
IsAnswer(b, u) ==
  /\ IsSeq(b) /\ Len(b) = 3
  /\ b[1].k = "line" /\ b[2].k = "head" /\ b[3].k = "body"
  /\ Piece(b[1], u) /\ Piece(b[2], u) /\ Piece(b[3], u)

LEMMA StreamAnswer ==
  ASSUME NEW a, NEW b, NEW st, NEW u, Stream(st, a, u), IsAnswer(b, u)
  PROVE  Stream(st, a \o b, u)
<1> DEFINE s == a \o b
<1>1. IsSeq(a) /\ IsSeq(b) /\ Len(a) \in Nat /\ Len(b) = 3
  BY IsSeqLen DEF Stream, IsAnswer
<1>2. /\ IsSeq(s) /\ Len(s) = Len(a) + 3
      /\ \A i \in 1..Len(a) + 3 : s[i] = IF i <= Len(a) THEN a[i] ELSE b[i - Len(a)]
  <2>1. /\ IsSeq(s) /\ Len(s) = Len(a) + Len(b)
        /\ \A i \in 1..Len(a) + Len(b) : s[i] = IF i <= Len(a) THEN a[i] ELSE b[i - Len(a)]
    BY <1>1, IsSeqConcat
  <2> HIDE DEF s
  <2> QED BY <1>1, <2>1
<1> HIDE DEF s
<1>3. s[Len(a) + 1] = b[1] /\ s[Len(a) + 2] = b[2] /\ s[Len(a) + 3] = b[3]
  <2>1. /\ Len(a) + 1 \in 1..Len(a) + 3 /\ ~(Len(a) + 1 <= Len(a)) /\ (Len(a) + 1) - Len(a) = 1
        /\ Len(a) + 2 \in 1..Len(a) + 3 /\ ~(Len(a) + 2 <= Len(a)) /\ (Len(a) + 2) - Len(a) = 2
        /\ Len(a) + 3 \in 1..Len(a) + 3 /\ ~(Len(a) + 3 <= Len(a)) /\ (Len(a) + 3) - Len(a) = 3
    BY <1>1
  <2> QED BY <1>2, <2>1
<1>4. \A i \in 1..Len(a) : s[i] = a[i]
  BY <1>1, <1>2
<1>5. \A i \in 1..Len(s) : i \in 1..Len(a) \/ i = Len(a) + 1 \/ i = Len(a) + 2 \/ i = Len(a) + 3
  BY <1>1, <1>2
<1>6. ASSUME NEW i \in 1..Len(s) PROVE Piece(s[i], u)
  BY <1>3, <1>4, <1>5 DEF IsAnswer, Stream
<1>7. ASSUME NEW i \in 1..Len(s), i > 1 PROVE Behind(s[i - 1], s[i])
  <2>1. CASE i \in 1..Len(a)
    <3>1. i - 1 \in 1..Len(a)
      BY <1>1, <1>7, <2>1
    <3> QED BY <1>4, <1>7, <2>1, <3>1 DEF Stream
  <2>2. CASE i = Len(a) + 1
    BY <1>3, <2>2 DEF IsAnswer, Behind
  <2>3. CASE i = Len(a) + 2
    <3>1. i - 1 = Len(a) + 1
      BY <1>1, <2>3
    <3> QED BY <1>3, <2>3, <3>1 DEF IsAnswer, Behind
  <2>4. CASE i = Len(a) + 3
    <3>1. i - 1 = Len(a) + 2
      BY <1>1, <2>4
    <3> QED BY <1>3, <2>4, <3>1 DEF IsAnswer, Behind
  <2> QED BY <1>5, <2>1, <2>2, <2>3, <2>4
<1>8. s[1].k # (IF st = "BODY" THEN "head" ELSE "body")
  <2>1. CASE Len(a) = 0
    BY <1>3, <2>1 DEF IsAnswer
  <2>2. CASE Len(a) > 0
    <3>1. 1 \in 1..Len(a)
      BY <1>1, <2>2
    <3> QED BY <1>4, <2>2, <3>1 DEF Stream
  <2> QED BY <1>1, <2>1, <2>2
<1>9. Stream(st, s, u)
  BY <1>2, <1>6, <1>7, <1>8 DEF Stream
<1> QED BY <1>9 DEF s

\* What edg_wll_DoneHTTP writes.
LEMMA AnswerIs ==
  ASSUME NEW code, NEW id, NEW body, NEW user, NEW c
  PROVE  IsAnswer(Answer(code, id, body, user, c), user)
<1> DEFINE line == [op |-> "answer", code |-> code, id |-> id, user |-> user, clean |-> net[c].clean,
                    body |-> None]
           b == [id |-> body]
           x == [k |-> "line", m |-> line]
           y == [k |-> "head", m |-> line, clen |-> 1]
           z == [k |-> "body", m |-> b]
<1>1. b # NoUnit
  <2>1. DOMAIN b = {"id"} /\ DOMAIN NoUnit = {"k"}
    BY DEF NoUnit
  <2> QED BY <2>1
<1>2. Answer(code, id, body, user, c) = <<x, y>> \o <<z>>
  BY <1>1 DEF Answer, Pieces
<1>3. "user" \in DOMAIN line /\ line.user = user /\ line.op = "answer"
  OBVIOUS
<1>4. Piece(x, user) /\ Piece(y, user) /\ Piece(z, user)
  BY <1>3 DEF Piece, LineOf
<1>5. x.k = "line" /\ y.k = "head" /\ z.k = "body"
  OBVIOUS
<1> HIDE DEF x, y, z
<1>6. IsSeq(<<x, y>>) /\ Len(<<x, y>>) = 2 /\ <<x, y>>[1] = x /\ <<x, y>>[2] = y
  <2>1. <<x, y>> \in Seq({x, y}) /\ Len(<<x, y>>) = 2 /\ <<x, y>>[1] = x /\ <<x, y>>[2] = y
    OBVIOUS
  <2> QED BY <2>1, IsSeqIntro
<1>7. IsSeq(<<z>>) /\ Len(<<z>>) = 1 /\ <<z>>[1] = z
  BY OneIsSeq
<1> DEFINE p == <<x, y>>
           q == <<z>>
           s == p \o q
<1> HIDE DEF p, q
<1>8. /\ IsSeq(s) /\ Len(s) = Len(p) + Len(q)
      /\ \A i \in 1..Len(p) + Len(q) : s[i] = IF i <= Len(p) THEN p[i] ELSE q[i - Len(p)]
  BY <1>6, <1>7, IsSeqConcat DEF p, q
<1>9. Len(p) = 2 /\ Len(q) = 1 /\ p[1] = x /\ p[2] = y /\ q[1] = z
  BY <1>6, <1>7 DEF p, q
<1> HIDE DEF s
<1>10. Len(s) = 3 /\ s[1] = x /\ s[2] = y /\ s[3] = z
  <2>1. s[1] = p[1] /\ s[2] = p[2]
    BY <1>8, <1>9
  <2>2. s[3] = q[1]
    BY <1>8, <1>9
  <2> QED BY <1>8, <1>9, <2>1, <2>2
<1>11. IsAnswer(s, user)
  BY <1>4, <1>5, <1>8, <1>10 DEF IsAnswer
<1> QED BY <1>2, <1>11 DEF s, p, q

\* A round of reading: the pieces left, with those r to come, are a stream for
\* the state that the reader is in, and what it has read is an answer to u.
LEMMA Received ==
  ASSUME NEW got, DOMAIN got = DOMAIN Nothing, got.st \in {"FIRST", "BODY"}, NEW u,
         got.st = "BODY" => LineOf(got.line, u),
         NEW buf, IsSeq(buf), NEW read, IsSeq(read), Len(read) > 0
  PROVE  LET x == http_recv(got, buf, read)
         IN  Stream(got.st, buf \o read, u) =>
               /\ DOMAIN x.got = DOMAIN Nothing /\ x.got.st \in {"FIRST", "BODY", "DONE"}
               /\ x.got.st # "FIRST" => LineOf(x.got.line, u)
               /\ IsSeq(x.buf)
               /\ \A r : IsSeq(r) /\ Stream(got.st, (buf \o read) \o r, u)
                           => Stream(IF x.got.st = "BODY" THEN "BODY" ELSE "FIRST", x.buf \o r, u)
<1> DEFINE s == buf \o read
           x == http_recv(got, buf, read)
           to == IF x.got.st = "BODY" THEN "BODY" ELSE "FIRST"
<1> SUFFICES ASSUME Stream(got.st, s, u)
             PROVE  /\ DOMAIN x.got = DOMAIN Nothing /\ x.got.st \in {"FIRST", "BODY", "DONE"}
                    /\ x.got.st # "FIRST" => LineOf(x.got.line, u)
                    /\ IsSeq(x.buf)
                    /\ \A r : IsSeq(r) /\ Stream(got.st, s \o r, u) => Stream(to, x.buf \o r, u)
  OBVIOUS
<1>1. IsSeq(s) /\ Len(s) \in Nat /\ Len(s) > 0 /\ s # <<>>
  <2>1. IsSeq(s) /\ Len(s) = Len(buf) + Len(read) /\ Len(buf) \in Nat /\ Len(read) \in Nat
    BY IsSeqConcat, IsSeqLen
  <2> QED BY <2>1, EmptyIsSeq
<1>2. x = IF got.st = "FIRST" THEN recv_first(s) ELSE recv_body(got, s)
  BY DEF http_recv
<1>3. 1 \in 1..Len(s) /\ Head(s) = s[1] /\ Piece(s[1], u)
  BY <1>1, IsSeqTail DEF Stream
<1>4. DOMAIN Nothing = {"st", "line", "body"} /\ Nothing.st = "FIRST"
  BY DEF Nothing
<1> HIDE DEF s, x
\* How the pieces that are left follow.
<1>5. ASSUME NEW d, x.buf = d, IsSeq(d), NEW m \in 0..Len(s), Len(d) = Len(s) - m,
             \A i \in 1..Len(d) : d[i] = s[i + m],
             \A r : IsSeq(r) /\ Stream(got.st, s \o r, u) /\ m + 1 <= Len(s) + Len(r) =>
                      (s \o r)[m + 1].k # (IF to = "BODY" THEN "head" ELSE "body")
      PROVE  \A r : IsSeq(r) /\ Stream(got.st, s \o r, u) => Stream(to, x.buf \o r, u)
  <2> TAKE r
  <2> HAVE IsSeq(r) /\ Stream(got.st, s \o r, u)
  <2>1. m + 1 <= Len(s) + Len(r) => (s \o r)[m + 1].k # (IF to = "BODY" THEN "head" ELSE "body")
    BY <1>5
  <2> HIDE DEF to
  <2>2. Stream(to, d \o r, u)
    BY <1>1, <1>5, <2>1, StreamDrop
  <2> QED BY <1>5, <2>2
<1>6. \A r : IsSeq(r) /\ Stream(got.st, s \o r, u) =>
        /\ Len(r) \in Nat
        /\ \A i \in 1..Len(s) : (s \o r)[i] = s[i]
        /\ \A i \in 1..Len(s) + Len(r) : i > 1 => Behind((s \o r)[i - 1], (s \o r)[i])
  <2> TAKE r
  <2> HAVE IsSeq(r) /\ Stream(got.st, s \o r, u)
  <2>1. /\ Len(r) \in Nat /\ Len(s \o r) = Len(s) + Len(r)
        /\ \A i \in 1..Len(s) + Len(r) : (s \o r)[i] = IF i <= Len(s) THEN s[i] ELSE r[i - Len(s)]
    BY <1>1, IsSeqConcat, IsSeqLen
  <2>2. \A i \in 1..Len(s) : (s \o r)[i] = s[i]
    BY <1>1, <2>1
  <2> QED BY <2>1, <2>2 DEF Stream
<1>7. CASE got.st = "BODY"
  <2>1. x = [got |-> [got EXCEPT !.st = "DONE", !.body = Head(s).m], buf |-> Tail(s)]
    BY <1>1, <1>2, <1>7 DEF recv_body
  <2>2. DOMAIN x.got = DOMAIN Nothing /\ x.got.st = "DONE" /\ x.got.line = got.line /\ x.buf = Tail(s)
    BY <1>4, <2>1
  <2>3. /\ IsSeq(Tail(s)) /\ Len(Tail(s)) = Len(s) - 1
        /\ \A i \in 1..Len(s) - 1 : Tail(s)[i] = s[i + 1]
    BY <1>1, IsSeqTail
  <2>4. s[1].k # "head"
    BY <1>1, <1>7 DEF Stream
  <2>5. \A r : IsSeq(r) /\ Stream(got.st, s \o r, u) /\ 1 + 1 <= Len(s) + Len(r) => (s \o r)[1 + 1].k # "body"
    <3> TAKE r
    <3> HAVE IsSeq(r) /\ Stream(got.st, s \o r, u) /\ 1 + 1 <= Len(s) + Len(r)
    <3>1. Len(r) \in Nat /\ (s \o r)[1] = s[1]
      BY <1>3, <1>6
    <3>2. 2 \in 1..Len(s) + Len(r) /\ 2 > 1 /\ 2 - 1 = 1
      BY <1>1, <3>1
    <3>3. Behind((s \o r)[1], (s \o r)[2])
      BY <1>6, <3>2
    <3> QED BY <2>4, <3>1, <3>3 DEF Behind
  <2>6. 1 \in 0..Len(s) /\ to = "FIRST"
    BY <1>1, <2>2
  <2> HIDE DEF to
  <2>7. \A r : IsSeq(r) /\ Stream(got.st, s \o r, u) => Stream(to, x.buf \o r, u)
    BY <1>5, <2>2, <2>3, <2>5, <2>6
  <2> QED BY <1>7, <2>2, <2>3, <2>6, <2>7 DEF to
<1>8. CASE got.st = "FIRST" /\ Heads(s) = {}
  <2>1. s[1].k # "body"
    BY <1>1, <1>8 DEF Stream
  <2>2. Head(s).m.op = "answer"
    BY <1>3, <2>1 DEF Piece
  <2>3. x = [got |-> Nothing, buf |-> s]
    BY <1>2, <1>8, <2>2 DEF recv_first
  <2>4. x.got = Nothing /\ x.buf = s /\ to = "FIRST"
    BY <1>4, <2>3
  <2> QED BY <1>1, <1>4, <1>8, <2>4
<1>9. CASE got.st = "FIRST" /\ Heads(s) # {}
  <2>1. s[1].k # "body"
    BY <1>1, <1>9 DEF Stream
  <2>2. Head(s).m.op = "answer" /\ LineOf(Head(s).m, u)
    BY <1>3, <2>1 DEF Piece
  <2> DEFINE e == Min(Heads(s))
             line == IF Head(s).k # "line" THEN [Head(s).m EXCEPT !.op = "garbled"] ELSE Head(s).m
             g == [Nothing EXCEPT !.st = "BODY", !.line = line]
             rest == SubSeq(s, e + 1, Len(s))
  <2>3. e \in 1..Len(s) /\ s[e].k = "head"
    <3>1. Heads(s) \in SUBSET Nat /\ \A i \in Heads(s) : i \in 1..Len(s) /\ s[i].k = "head"
      BY <1>1, IsSeqLen DEF Heads
    <3> QED BY <1>9, <3>1, MinProperty
  <2>4. s[e].clen = 1
    BY <2>3 DEF Stream, Piece
  <2>5. x = recv_body(g, rest)
    <3> HIDE DEF e
    <3>1. recv_first(s) =
            LET got2 == [Nothing EXCEPT !.st = IF s[e].clen = 0 THEN "DONE" ELSE "BODY", !.line = line]
            IN IF got2.st = "DONE" THEN [got |-> got2, buf |-> rest] ELSE recv_body(got2, rest)
      BY <1>9, <2>2 DEF recv_first, e
    <3>2. [Nothing EXCEPT !.st = IF s[e].clen = 0 THEN "DONE" ELSE "BODY", !.line = line] = g
      BY <2>4
    <3>3. g.st = "BODY"
      BY DEF Nothing
    <3> HIDE DEF g, rest, line
    <3> QED BY <1>2, <1>9, <3>1, <3>2, <3>3
  <2>6. LineOf(line, u)
    BY <2>2 DEF LineOf
  <2>7. DOMAIN g = DOMAIN Nothing /\ g.st = "BODY" /\ g.line = line
    <3> HIDE DEF line
    <3> QED BY <1>4
  <2> HIDE DEF e, line, g
  <2>8. e \in 0..Len(s) /\ e \in Nat
    BY <1>1, <2>3
  <2>9. /\ IsSeq(rest) /\ Len(rest) = Len(s) - e /\ Len(rest) \in Nat
        /\ \A i \in 1..Len(s) - e : rest[i] = s[i + e]
    BY <1>1, <2>8, IsSeqSuffix, IsSeqLen
  <2> HIDE DEF rest
  \* What follows the end of the first line.
  <2>10. ASSUME NEW r, IsSeq(r), Stream(got.st, s \o r, u)
         PROVE  /\ e + 1 <= Len(s) + Len(r) => (s \o r)[e + 1].k # "head"
                /\ e + 2 <= Len(s) + Len(r) => (s \o r)[e + 2].k # "body"
    <3> DEFINE a == s \o r
    <3>1. Len(r) \in Nat /\ a[e].k = "head"
      BY <1>6, <2>3, <2>10
    <3>2. e + 1 <= Len(s) + Len(r) => Behind(a[e], a[e + 1])
      <4>1. e + 1 <= Len(s) + Len(r) => e + 1 \in 1..Len(s) + Len(r) /\ e + 1 > 1 /\ (e + 1) - 1 = e
        BY <1>1, <2>3, <3>1
      <4> QED BY <1>6, <2>10, <4>1
    <3>3. e + 2 <= Len(s) + Len(r) => Behind(a[e + 1], a[e + 2]) /\ e + 1 <= Len(s) + Len(r)
      <4>1. e + 2 <= Len(s) + Len(r) => /\ e + 2 \in 1..Len(s) + Len(r) /\ e + 2 > 1 /\ (e + 2) - 1 = e + 1
                                        /\ e + 1 <= Len(s) + Len(r)
        BY <1>1, <2>3, <3>1
      <4> QED BY <1>6, <2>10, <4>1
    <3> HIDE DEF a
    <3>4. e + 1 <= Len(s) + Len(r) => a[e + 1].k # "head"
      BY <3>1, <3>2 DEF Behind
    <3>5. e + 2 <= Len(s) + Len(r) => a[e + 2].k # "body"
      BY <3>3, <3>4 DEF Behind
    <3> QED BY <3>4, <3>5 DEF a
  <2>11. CASE rest = <<>>
    <3>1. x = [got |-> g, buf |-> rest]
      BY <2>5, <2>11 DEF recv_body
    <3>2. x.got = g /\ x.buf = rest /\ to = "BODY"
      BY <2>7, <3>1
    <3> HIDE DEF to
    <3>3. \A i \in 1..Len(rest) : rest[i] = s[i + e]
      BY <2>9
    <3>4. \A r : IsSeq(r) /\ Stream(got.st, s \o r, u) => Stream(to, x.buf \o r, u)
      BY <1>5, <2>8, <2>9, <2>10, <3>2, <3>3
    <3> QED BY <2>6, <2>7, <2>9, <3>2, <3>4 DEF to
  <2>12. CASE rest # <<>>
    <3> DEFINE b == Tail(rest)
    <3>1. x = [got |-> [g EXCEPT !.st = "DONE", !.body = Head(rest).m], buf |-> b]
      BY <2>5, <2>12 DEF recv_body
    <3>2. DOMAIN x.got = DOMAIN Nothing /\ x.got.st = "DONE" /\ x.got.line = line /\ x.buf = b
      BY <1>4, <2>7, <3>1
    <3>3. to = "FIRST"
      BY <3>2
    <3>4. Len(rest) > 0
      BY <2>9, <2>12, IsSeqEmpty
    <3>5. /\ IsSeq(b) /\ Len(b) = Len(rest) - 1
          /\ \A i \in 1..Len(rest) - 1 : b[i] = rest[i + 1]
      BY <2>9, <3>4, IsSeqTail
    <3> HIDE DEF to, b
    <3>6. e + 1 \in 0..Len(s) /\ Len(b) = Len(s) - (e + 1)
      BY <1>1, <2>8, <2>9, <3>4, <3>5
    <3>7. ASSUME NEW i \in 1..Len(b) PROVE b[i] = s[i + (e + 1)]
      <4>1. i \in 1..Len(rest) - 1 /\ i + 1 \in 1..Len(s) - e /\ (i + 1) + e = i + (e + 1)
        BY <2>8, <2>9, <3>5
      <4> QED BY <2>9, <3>5, <4>1
    <3>8. \A r : IsSeq(r) /\ Stream(got.st, s \o r, u) /\ (e + 1) + 1 <= Len(s) + Len(r) =>
            (s \o r)[(e + 1) + 1].k # "body"
      <4>1. (e + 1) + 1 = e + 2
        BY <2>8
      <4> QED BY <2>10, <4>1
    <3>9. \A r : IsSeq(r) /\ Stream(got.st, s \o r, u) => Stream(to, x.buf \o r, u)
      <4> DEFINE n == e + 1
      <4>1. n \in 0..Len(s) /\ Len(b) = Len(s) - n /\ x.buf = b /\ IsSeq(b)
        BY <3>2, <3>5, <3>6
      <4>2. \A i \in 1..Len(b) : b[i] = s[i + n]
        BY <3>7
      <4>3. \A r : IsSeq(r) /\ Stream(got.st, s \o r, u) /\ n + 1 <= Len(s) + Len(r) =>
              (s \o r)[n + 1].k # (IF to = "BODY" THEN "head" ELSE "body")
        BY <3>3, <3>8
      <4> HIDE DEF n
      <4> QED BY ONLY <1>5, <4>1, <4>2, <4>3
    <3> QED BY <2>6, <3>2, <3>3, <3>5, <3>9 DEF to
  <2> QED BY <2>11, <2>12
<1> QED BY <1>7, <1>8, <1>9

-----------------------------------------------------------------------------
(* A step of thread t touches its own record, the entry i of the pool and   *)
(* the connection c, where 0 stands for none.                               *)

Touches(t, i, c) ==
  /\ sl' = sl /\ Idx' = Idx /\ \A u \in Threads : Cert(u)' = Cert(u)
  /\ DOMAIN th' = Threads /\ \A u \in Threads \ {t} : th'[u] = th[u]
  /\ DOMAIN pool' = Idx /\ DOMAIN locked_by' = Idx
  /\ \A k \in Idx \ {i} : pool'[k] = pool[k] /\ locked_by'[k] = locked_by[k]
  /\ DOMAIN net' = Conns /\ \A d \in Conns \ {c} : net'[d] = net[d]

\* The entry is its own or nobody's, and so is the connection.
Rightly(t, i, c) ==
  /\ i # 0 => locked_by[i] \in {t, None}
  /\ th[t].idx \in {0, i} /\ th'[t].idx \in {0, i}
  /\ c # 0 => net[c] = NoConn \/ c = th[t].conn \/ c = th[t].px \/ (i # 0 /\ c = pool[i].gss)

\* The connection of another is not touched.
LEMMA NotTouched ==
  ASSUME RunInv, NEW t \in Threads, NEW i \in Idx \cup {0}, NEW c \in Conns \cup {0},
         Touches(t, i, c), Rightly(t, i, c)
  PROVE  /\ \A u \in Threads \ {t} : th[u].conn # 0 => th[u].conn \in Conns /\ net'[th[u].conn] = net[th[u].conn]
         /\ \A u \in Threads \ {t} : th[u].px # 0 => th[u].px \in Conns /\ net'[th[u].px] = net[th[u].px]
         /\ \A k \in Idx \ {i} : pool[k].gss # 0 => pool[k].gss \in Conns /\ net'[pool[k].gss] = net[pool[k].gss]
<1>1. HolderInv
  BY DEF RunInv
<1>2. 0 \notin Conns /\ 0 \notin Idx
  BY AddressAssumption DEF Idx
<1>3. ASSUME NEW h \in Holders, Held(h) # 0, h # <<"conn", t>>, h # <<"px", t>>, i # 0 => h # <<"pool", i>>
      PROVE  Held(h) \in Conns /\ net'[Held(h)] = net[Held(h)]
  <2>1. Held(h) \in Conns /\ net[Held(h)].cl
    BY <1>1, <1>3 DEF HolderInv
  <2>2. Held(h) # c
    <3> SUFFICES ASSUME Held(h) = c PROVE FALSE
      OBVIOUS
    <3>1. c # 0 /\ net[c] # NoConn
      BY <1>3, <2>1 DEF NoConn
    <3>2. CASE c = th[t].conn
      <4>1. <<"conn", t>> \in Holders /\ Held(<<"conn", t>>) = c
        BY <3>2 DEF Holders, Held
      <4> QED BY <1>1, <1>3, <3>1, <4>1 DEF HolderInv
    <3>3. CASE c = th[t].px
      <4>1. <<"px", t>> \in Holders /\ Held(<<"px", t>>) = c
        BY <3>3 DEF Holders, Held
      <4> QED BY <1>1, <1>3, <3>1, <4>1 DEF HolderInv
    <3>4. CASE i # 0 /\ c = pool[i].gss
      <4>1. <<"pool", i>> \in Holders /\ Held(<<"pool", i>>) = c
        BY <3>4 DEF Holders, Held
      <4> QED BY <1>1, <1>3, <3>1, <3>4, <4>1 DEF HolderInv
    <3> QED BY <3>1, <3>2, <3>3, <3>4 DEF Rightly
  <2> QED BY <2>1, <2>2 DEF Touches
<1>4. ASSUME NEW u \in Threads \ {t}
      PROVE  /\ <<"conn", u>> \in Holders /\ Held(<<"conn", u>>) = th[u].conn
             /\ <<"px", u>> \in Holders /\ Held(<<"px", u>>) = th[u].px
             /\ \A k : <<"conn", u>> # <<"pool", k>> /\ <<"px", u>> # <<"pool", k>>
             /\ <<"conn", u>> # <<"conn", t>> /\ <<"px", u>> # <<"px", t>>
             /\ <<"conn", u>> # <<"px", t>> /\ <<"px", u>> # <<"conn", t>>
  BY DEF Holders, Held
<1>5. ASSUME NEW k \in Idx \ {i}
      PROVE  /\ <<"pool", k>> \in Holders /\ Held(<<"pool", k>>) = pool[k].gss
             /\ <<"pool", k>> # <<"pool", i>> /\ \A u : <<"pool", k>> # <<"conn", u>> /\ <<"pool", k>> # <<"px", u>>
  <2>1. <<"pool", k>> \in Holders
    BY DEF Holders
  <2>2. Held(<<"pool", k>>) = pool[k].gss
    BY DEF Held
  <2> QED BY <2>1, <2>2
<1> QED BY ZenonT(40), <1>3, <1>4, <1>5

\* The other threads, and what they authenticate.
LEMMA OtherThreads ==
  ASSUME RunInv, NEW t \in Threads, NEW i \in Idx \cup {0}, NEW c \in Conns \cup {0},
         Touches(t, i, c), Rightly(t, i, c), NEW u \in Threads \ {t}
  PROVE  ThreadInv(u)' /\ AuthInv(u)'
<1>1. ThreadInv(u) /\ AuthInv(u) /\ LockInv
  BY DEF RunInv
<1>2. 0 \notin Conns /\ 0 \notin Idx /\ None \notin Threads
  BY AddressAssumption, PoolAssumption DEF Idx
<1>3. th'[u] = th[u] /\ Idx' = Idx /\ sl' = sl /\ Cert(u)' = Cert(u)
  BY DEF Touches
<1>4. th[u].pc \in InEntry => th[u].idx \in Idx /\ pool'[th[u].idx] = pool[th[u].idx]
  <2>1. th[u].pc \in InEntry => th[u].idx \in Idx
    BY <1>1 DEF ThreadInv
  <2>2. th[u].idx \in Idx => locked_by[th[u].idx] = u
    BY <1>1 DEF LockInv
  <2>3. th[u].idx \in Idx => th[u].idx # i
    BY <1>2, <2>2 DEF Rightly
  <2> QED BY <2>1, <2>3 DEF Touches
<1>5. {"added", "cred", "connect", "auth", "send", "recv", "close", "closed"} = InEntry
  BY DEF InEntry
<1>6. ThreadInv(u)'
  BY <1>1, <1>3, <1>4, <1>5 DEF ThreadInv
<1>7. th[u].conn # 0 => th[u].conn \in Conns /\ net'[th[u].conn] = net[th[u].conn]
  BY NotTouched
<1>8. th[u].conn # 0 => th[u].pc = "auth"
  BY <1>1 DEF ThreadInv
<1>9. AuthInv(u)'
  BY <1>1, <1>3, <1>4, <1>5, <1>7, <1>8 DEF AuthInv
<1> QED BY <1>6, <1>9

\* The other entries.
LEMMA OtherEntries ==
  ASSUME RunInv, NEW t \in Threads, NEW i \in Idx \cup {0}, NEW c \in Conns \cup {0},
         Touches(t, i, c), Rightly(t, i, c), NEW k \in Idx \ {i}
  PROVE  EntryInv(k)'
<1>1. EntryInv(k) /\ LockInv
  BY DEF RunInv
<1>2. 0 \notin Conns /\ 0 \notin Idx /\ None \notin Threads
  BY AddressAssumption, PoolAssumption DEF Idx
<1>3. pool'[k] = pool[k] /\ locked_by'[k] = locked_by[k] /\ sl' = sl
  BY DEF Touches
<1>4. Want(k)' = Want(k)
  <2>1. locked_by[k] \in Threads => th[locked_by[k]].idx = k
    BY <1>1 DEF LockInv
  <2>2. locked_by[k] \in Threads => locked_by[k] # t
    BY <1>2, <2>1 DEF Rightly
  <2>3. locked_by[k] \in Threads => th'[locked_by[k]] = th[locked_by[k]]
    BY <2>2 DEF Touches
  <2> QED BY <1>3, <2>3 DEF Want
<1>5. pool[k].gss # 0 => pool[k].gss \in Conns /\ net'[pool[k].gss] = net[pool[k].gss]
  BY NotTouched
<1> QED BY <1>1, <1>3, <1>4, <1>5 DEF EntryInv, ServedInv

\* What the thread, the entry and the connection have to be like after it.
Holding(t, i, c) ==
  /\ th'[t].conn \in {0, c, th[t].conn} /\ th'[t].px \in {0, c, th[t].px}
  /\ i # 0 => pool'[i].gss \in {0, c, pool[i].gss}
  /\ c # 0 => /\ th'[t].conn = c \/ th'[t].px = c \/ (i # 0 /\ pool'[i].gss = c) => net'[c].cl
              /\ ~(th'[t].conn = c /\ th'[t].px = c)
              /\ i # 0 /\ pool'[i].gss = c => th'[t].conn # c /\ th'[t].px # c
Locking(t, i) == i # 0 => locked_by'[i] \in {t, None} /\ (locked_by'[i] = t <=> th'[t].idx = i)
Shaped(c) ==
  c # 0 => /\ DOMAIN net'[c] = DOMAIN NoConn /\ net'[c].sv \in {"queued", "open", "closed"}
           /\ IsSeq(net'[c].up) /\ IsSeq(net'[c].down)
           /\ net[c].sv = "open" => net'[c].sv = "open" /\ net'[c].peer = net[c].peer

LEMMA HoldersKept ==
  ASSUME RunInv, NEW t \in Threads, NEW i \in Idx \cup {0}, NEW c \in Conns \cup {0},
         Touches(t, i, c), Rightly(t, i, c), Holding(t, i, c)
  PROVE  HolderInv'
<1> DEFINE Mine == {<<"conn", t>>, <<"px", t>>} \cup (IF i = 0 THEN {} ELSE {<<"pool", i>>})
<1>1. HolderInv
  BY DEF RunInv
<1>2. 0 \notin Conns /\ 0 \notin Idx /\ Holders' = Holders
  <2>1. 0 \notin Conns /\ 0 \notin Idx
    BY AddressAssumption DEF Idx
  <2>2. Idx' = Idx
    BY DEF Touches
  <2> QED BY <2>1, <2>2 DEF Holders
<1>3. ASSUME NEW h \in Holders
      PROVE  \/ \E k \in Idx : h = <<"pool", k>> /\ Held(h) = pool[k].gss /\ Held(h)' = pool'[k].gss
             \/ \E u \in Threads : h = <<"conn", u>> /\ Held(h) = th[u].conn /\ Held(h)' = th'[u].conn
             \/ \E u \in Threads : h = <<"px", u>> /\ Held(h) = th[u].px /\ Held(h)' = th'[u].px
  <2>1. CASE h \in {"pool"} \X Idx
    <3>1. PICK k \in Idx : h = <<"pool", k>>
      BY <2>1
    <3> QED BY <3>1 DEF Held
  <2>2. CASE h \in {"conn", "px"} \X Threads
    <3>1. PICK k \in {"conn", "px"}, u \in Threads : h = <<k, u>>
      BY <2>2
    <3>2. CASE k = "conn"
      BY <3>1, <3>2 DEF Held
    <3>3. CASE k = "px"
      BY <3>1, <3>3 DEF Held
    <3> QED BY <3>1, <3>2, <3>3
  <2> QED BY <2>1, <2>2 DEF Holders
<1>4. ASSUME NEW h \in Holders
      PROVE  /\ h \notin Mine => Held(h)' = Held(h) /\ (Held(h) # 0 => Held(h) # c)
             /\ h \in Mine => Held(h)' \in {0, c, Held(h)}
  <2>1. \A d \in Conns : net[d].cl => net[d] # NoConn
    BY DEF NoConn
  <2>2. ASSUME h \notin Mine, Held(h) # 0, Held(h) = c PROVE FALSE
    <3>1. Held(h) \in Conns /\ net[Held(h)].cl
      BY <1>1, <2>2 DEF HolderInv
    <3>2. c # 0 /\ net[c] # NoConn
      BY <1>2, <2>1, <2>2, <3>1
    <3>3. c # th[t].conn
      <4>1. <<"conn", t>> \in Holders /\ Held(<<"conn", t>>) = th[t].conn
        BY DEF Holders, Held
      <4> QED BY <1>1, <2>2, <4>1 DEF HolderInv
    <3>4. c # th[t].px
      <4>1. <<"px", t>> \in Holders /\ Held(<<"px", t>>) = th[t].px
        BY DEF Holders, Held
      <4> QED BY <1>1, <2>2, <4>1 DEF HolderInv
    <3>5. i # 0 => c # pool[i].gss
      <4>1. i # 0 => <<"pool", i>> \in Holders /\ Held(<<"pool", i>>) = pool[i].gss
        BY DEF Holders, Held
      <4> QED BY <1>1, <2>2, <4>1 DEF HolderInv
    <3> QED BY <3>2, <3>3, <3>4, <3>5 DEF Rightly
  <2>3. CASE \E k \in Idx : h = <<"pool", k>> /\ Held(h) = pool[k].gss /\ Held(h)' = pool'[k].gss
    <3>1. PICK k \in Idx : h = <<"pool", k>> /\ Held(h) = pool[k].gss /\ Held(h)' = pool'[k].gss
      BY <2>3
    <3>2. CASE k = i
      BY <1>2, <3>1, <3>2 DEF Holding
    <3>3. CASE k # i
      <4>1. h \notin Mine /\ pool'[k] = pool[k]
        BY <3>1, <3>3 DEF Touches
      <4> QED BY <2>2, <3>1, <4>1
    <3> QED BY <3>2, <3>3
  <2>4. CASE \E u \in Threads : h = <<"conn", u>> /\ Held(h) = th[u].conn /\ Held(h)' = th'[u].conn
    <3>1. PICK u \in Threads : h = <<"conn", u>> /\ Held(h) = th[u].conn /\ Held(h)' = th'[u].conn
      BY <2>4
    <3>2. CASE u = t
      BY <3>1, <3>2 DEF Holding
    <3>3. CASE u # t
      <4>1. h \notin Mine /\ th'[u] = th[u]
        BY <3>1, <3>3 DEF Touches
      <4> QED BY <2>2, <3>1, <4>1
    <3> QED BY <3>2, <3>3
  <2>5. CASE \E u \in Threads : h = <<"px", u>> /\ Held(h) = th[u].px /\ Held(h)' = th'[u].px
    <3>1. PICK u \in Threads : h = <<"px", u>> /\ Held(h) = th[u].px /\ Held(h)' = th'[u].px
      BY <2>5
    <3>2. CASE u = t
      BY <3>1, <3>2 DEF Holding
    <3>3. CASE u # t
      <4>1. h \notin Mine /\ th'[u] = th[u]
        BY <3>1, <3>3 DEF Touches
      <4> QED BY <2>2, <3>1, <4>1
    <3> QED BY <3>2, <3>3
  <2> QED BY <1>3, <2>3, <2>4, <2>5
<1>5. /\ Held(<<"conn", t>>)' = th'[t].conn /\ Held(<<"px", t>>)' = th'[t].px
      /\ Held(<<"pool", i>>)' = pool'[i].gss
  BY DEF Held
<1>6. ASSUME NEW h \in Holders, Held(h)' # 0 PROVE Held(h)' \in Conns /\ net'[Held(h)'].cl
  <2>1. CASE Held(h)' = c
    <3>1. h \in Mine
      BY <1>4, <1>6, <2>1
    <3>2. th'[t].conn = c \/ th'[t].px = c \/ (i # 0 /\ pool'[i].gss = c)
      BY <1>5, <2>1, <3>1
    <3> QED BY <1>6, <2>1, <3>2 DEF Holding
  <2>2. CASE Held(h)' # c
    <3>1. Held(h)' = Held(h)
      BY <1>4, <1>6, <2>2
    <3>2. Held(h) \in Conns /\ net[Held(h)].cl
      BY <1>1, <1>6, <3>1 DEF HolderInv
    <3>3. net'[Held(h)] = net[Held(h)]
      BY <2>2, <3>1, <3>2 DEF Touches
    <3> QED BY <3>1, <3>2, <3>3
  <2> QED BY <2>1, <2>2
<1>7. ASSUME NEW g \in Holders, NEW h \in Holders, Held(g)' # 0, Held(g)' = Held(h)' PROVE g = h
  <2>1. CASE Held(g)' = c
    <3>1. g \in Mine /\ h \in Mine
      BY <1>4, <1>7, <2>1
    <3>2. c # 0 /\ (g = <<"conn", t>> => th'[t].conn = c) /\ (h = <<"conn", t>> => th'[t].conn = c)
               /\ (g = <<"px", t>> => th'[t].px = c) /\ (h = <<"px", t>> => th'[t].px = c)
               /\ (g = <<"pool", i>> => pool'[i].gss = c) /\ (h = <<"pool", i>> => pool'[i].gss = c)
      BY <1>5, <1>7, <2>1
    <3>3. /\ ~(th'[t].conn = c /\ th'[t].px = c)
          /\ i # 0 /\ pool'[i].gss = c => th'[t].conn # c /\ th'[t].px # c
      BY <3>2 DEF Holding
    <3> QED BY <3>1, <3>2, <3>3
  <2>2. CASE Held(g)' # c
    <3>1. Held(g)' = Held(g) /\ Held(h)' = Held(h)
      BY <1>4, <1>7, <2>2
    <3> QED BY <1>1, <1>7, <3>1 DEF HolderInv
  <2> QED BY <2>1, <2>2
<1> QED BY <1>2, <1>6, <1>7 DEF HolderInv

\* The whole invariant is kept when the step keeps it for what it touches.
LEMMA ClientKeeps ==
  ASSUME RunInv, NEW t \in Threads, NEW i \in Idx \cup {0}, NEW c \in Conns \cup {0},
         Touches(t, i, c), Rightly(t, i, c), Holding(t, i, c), Locking(t, i), Shaped(c),
         ThreadInv(t)', AuthInv(t)', i # 0 => EntryInv(i)' /\ pool'[i].used \in Nat
  PROVE  RunInv'
<1>1. 0 \notin Conns /\ 0 \notin Idx /\ None \notin Threads /\ Idx' = Idx /\ sl' = sl
  BY AddressAssumption, PoolAssumption DEF Idx, Touches
<1>2. \A u \in Threads : ThreadInv(u)' /\ AuthInv(u)'
  BY OtherThreads
<1>3. \A k \in Idx : EntryInv(k)'
  BY <1>1, OtherEntries
<1>4. LockInv'
  <2>1. LockInv
    BY DEF RunInv
  <2>2. \A k \in Idx : locked_by'[k] \in Threads \cup {None}
    BY <1>1, <2>1 DEF Touches, Locking, LockInv
  <2>3. ASSUME NEW u \in Threads, NEW k \in Idx PROVE locked_by'[k] = u <=> th'[u].idx = k
    <3>1. CASE u # t /\ k # i
      BY <2>1, <3>1 DEF Touches, LockInv
    <3>2. CASE u # t /\ k = i
      BY <1>1, <2>1, <3>2 DEF Touches, LockInv, Rightly, Locking
    <3>3. CASE u = t /\ k # i
      BY <1>1, <2>1, <3>3 DEF Touches, LockInv, Rightly
    <3>4. CASE u = t /\ k = i
      BY <1>1, <3>4 DEF Locking
    <3> QED BY <3>1, <3>2, <3>3, <3>4
  <2> QED BY <1>1, <2>2, <2>3 DEF LockInv, Touches
<1>5. NetInv'
  <2>1. NetInv
    BY DEF RunInv
  <2> QED BY <1>1, <2>1 DEF NetInv, Touches, Shaped
<1>6. SlavesInv'
  <2>1. SlavesInv
    BY DEF RunInv
  <2>2. ASSUME NEW s \in Slaves PROVE SlaveInv(s)'
    <3>1. SlaveInv(s)
      BY <2>1 DEF SlavesInv
    <3>2. sl[s].pc # "free" => net'[sl[s].conn].sv = "open" /\ net'[sl[s].conn].peer = SlaveOf[s]
      BY <1>1, <3>1 DEF SlaveInv, Touches, Shaped
    <3> QED BY <1>1, <3>1, <3>2 DEF SlaveInv
  <2> QED BY <1>1, <2>1, <2>2 DEF SlavesInv
<1>7. UsedInv'
  <2>1. PICK b \in Nat : \A k \in Idx : pool[k].used \in 0..b
    BY DEF RunInv, UsedInv
  <2>2. CASE i = 0
    BY <1>1, <2>1, <2>2 DEF UsedInv, Touches
  <2>3. CASE i # 0
    <3> DEFINE d == b + pool'[i].used
    <3>1. d \in Nat /\ pool'[i].used \in 0..d /\ \A k \in 0..b : k \in 0..d
      BY <2>3
    <3>2. \A k \in Idx : pool'[k].used \in 0..d
      BY <2>1, <3>1 DEF Touches
    <3> QED BY <1>1, <3>1, <3>2 DEF UsedInv
  <2> QED BY <2>2, <2>3
<1>8. HolderInv'
  BY HoldersKept
<1>9. DOMAIN pool' = Idx /\ DOMAIN th' = Threads
  BY DEF Touches
<1> QED BY <1>1, <1>2, <1>3, <1>4, <1>5, <1>6, <1>7, <1>8, <1>9 DEF RunInv

-----------------------------------------------------------------------------
(* The steps of a client.                                                   *)

LEMMA Records ==
  /\ DOMAIN NewThread = {"pc", "call", "srv", "idx", "stage", "left", "conn", "tmp", "next", "err", "sent",
                         "got", "ans", "px", "pbuf"}
  /\ DOMAIN NoEntry = {"peer", "gss", "cred", "cert", "mtime", "buf", "used"}
  /\ DOMAIN NoConn = {"peer", "as", "cl", "sv", "clean", "up", "down"}
  /\ DOMAIN NewSlave = {"conn", "pc", "buf", "got", "in", "user", "served", "out", "then"}
  /\ DOMAIN Nothing = {"st", "line", "body"} /\ Nothing.st = "FIRST"
  BY DEF NewThread, NoEntry, NoConn, NewSlave, Nothing

\* What a step leaves of the scenario.
LEMMA BudgetKept ==
  ASSUME BudInv, NEW f \in {"faults", "slow", "renewals", "refusals", "idle", "crashes"},
         UNCHANGED bud \/ Spend(f)
  PROVE  BudInv' /\ Idx' = Idx /\ \A u : Cert(u)' = Cert(u)
<1>1. /\ DOMAIN bud' = DOMAIN bud
      /\ bud'.script = bud.script /\ bud'.who = bud.who /\ bud'.size = bud.size
  BY DEF BudInv, Spend
<1>2. Idx' = Idx
  BY <1>1 DEF Idx, PoolSize
<1>3. \A u : Cert(u)' = Cert(u)
  BY <1>1 DEF Cert
<1>4. BudInv'
  BY <1>1 DEF BudInv, CallsOf
<1> QED BY <1>2, <1>3, <1>4

\* An entry and its connection as far as its invariant speaks of them.
LEMMA EntryKept ==
  ASSUME NEW i, EntryInv(i), sl' = sl, Want(i)' = Want(i),
         DOMAIN pool'[i] = DOMAIN pool[i], pool'[i].peer = pool[i].peer, pool'[i].cred = pool[i].cred,
         pool'[i].buf = pool[i].buf, pool'[i].cert = pool[i].cert, pool'[i].gss = pool[i].gss,
         pool[i].gss # 0 => /\ net'[pool[i].gss].as = net[pool[i].gss].as
                            /\ net'[pool[i].gss].peer = net[pool[i].gss].peer
                            /\ net'[pool[i].gss].sv = net[pool[i].gss].sv
                            /\ net'[pool[i].gss].down = net[pool[i].gss].down
  PROVE  EntryInv(i)'
  BY DEF EntryInv, ServedInv

AnsweredTo(t) == HasAnswer(t) /\ ~th[t].call.proxy /\ Cert(t) # None => th[t].ans.user = Cert(t)

LEMMA AnswersKept ==
  ASSUME AnsweredAs, NEW t \in Threads, \A u \in Threads \ {t} : th'[u] = th[u] /\ Cert(u)' = Cert(u),
         AnsweredTo(t)'
  PROVE  AnsweredAs'
  BY DEF AnsweredAs, AnsweredTo, HasAnswer

\* A step that changes nothing but the thread's own record.
LEMMA OnlyThread ==
  ASSUME RunInv, NEW t \in Threads, sl' = sl, Idx' = Idx, \A u \in Threads : Cert(u)' = Cert(u),
         UNCHANGED <<pool, locked_by, net>>,
         DOMAIN th' = Threads, \A u \in Threads \ {t} : th'[u] = th[u],
         th'[t].idx = th[t].idx, th'[t].conn \in {0, th[t].conn}, th'[t].px \in {0, th[t].px},
         th[t].idx # 0 => th'[t].got.st = th[t].got.st,
         ThreadInv(t)', AuthInv(t)'
  PROVE  RunInv'
<1>1. PICK i, c : i = th[t].idx /\ c = 0
  OBVIOUS
<1>2. i \in Idx \cup {0} /\ 0 \notin Idx /\ 0 \notin Conns
  <2>1. 0 \notin Idx /\ 0 \notin Conns
    BY AddressAssumption DEF Idx
  <2> QED BY <1>1, <2>1 DEF RunInv, ThreadInv
<1>3. i # 0 => locked_by[i] = t
  BY <1>1, <1>2 DEF RunInv, LockInv
<1>4. c \in Conns \cup {0} /\ Shaped(c)
  BY <1>1 DEF Shaped
<1>5. Touches(t, i, c)
  BY <1>1 DEF Touches, RunInv, LockInv, NetInv
<1>6. Rightly(t, i, c)
  BY <1>1, <1>3 DEF Rightly
<1>7. Holding(t, i, c)
  BY <1>1 DEF Holding
<1>8. Locking(t, i)
  BY <1>1, <1>3 DEF Locking
<1>9. i # 0 => EntryInv(i)' /\ pool'[i].used \in Nat
  <2> SUFFICES ASSUME i # 0 PROVE EntryInv(i)' /\ pool'[i].used \in Nat
    OBVIOUS
  <2>1. EntryInv(i) /\ i \in Idx
    BY <1>1, <1>2 DEF RunInv
  <2>2. Want(i)' = Want(i)
    BY <1>1, <1>3 DEF Want
  <2>3. pool[i].used \in Nat
    BY <2>1 DEF RunInv, UsedInv
  <2> QED BY <2>1, <2>2, <2>3, EntryKept
<1> QED BY <1>2, <1>4, <1>5, <1>6, <1>7, <1>8, <1>9, ClientKeeps

\* What a step that comes from At(t, pc) knows.
LEMMA Begin ==
  ASSUME AsInv, NEW t \in Threads, NEW pc, At(t, pc)
  PROVE  /\ BudInv /\ AnsweredAs /\ RunInv /\ ~dead /\ th[t].pc = pc
         /\ DOMAIN th = Threads /\ DOMAIN th[t] = DOMAIN NewThread
         /\ ThreadInv(t) /\ AuthInv(t)
  BY DEF AsInv, At, RunInv, ThreadInv

LEMMA CallStep ==
  ASSUME AsInv, NEW t \in Threads, Call(t), sl' = sl
  PROVE  AsInv'
<1> DEFINE sc == bud.script[t]
           call == [Head(sc) EXCEPT !.id = <<t, Len(sc)>>]
           srv == set_server_name_and_port(th[t].srv, call)
           new == [th[t] EXCEPT !.call = call, !.stage = 1, !.sent = 0, !.got = Nothing, !.err = None, !.ans = NoAns]
           x == IF call.proxy THEN [new EXCEPT !.pc = "popen"]
                ELSE IF srv = "EINVAL" THEN [new EXCEPT !.pc = "ret", !.err = "EINVAL"]
                ELSE [new EXCEPT !.pc = "lock", !.srv = srv]
<1>1. /\ BudInv /\ AnsweredAs /\ RunInv /\ ~dead /\ th[t].pc = "idle"
      /\ DOMAIN th = Threads /\ DOMAIN th[t] = DOMAIN NewThread /\ ThreadInv(t) /\ AuthInv(t)
  BY Begin DEF Call
<1>2. /\ sc # <<>> /\ th' = [th EXCEPT ![t] = x] /\ bud' = [bud EXCEPT !.script[t] = Tail(sc)]
      /\ UNCHANGED <<pool, opened, plock, locked_by, dead, net, files>>
  BY DEF Call
<1>3. /\ IsSeq(sc) /\ Len(sc) > 0 /\ Head(sc) = sc[1] /\ 1 \in 1..Len(sc)
      /\ IsSeq(Tail(sc)) /\ Len(Tail(sc)) = Len(sc) - 1 /\ Len(sc) \in Nat
      /\ \A k \in 1..Len(sc) - 1 : Tail(sc)[k] = sc[k + 1]
  <2>1. IsSeq(sc)
    BY <1>1 DEF BudInv, CallsOf
  <2>2. Len(sc) \in Nat /\ Len(sc) > 0
    BY <1>2, <2>1, IsSeqEmpty, IsSeqLen
  <2> QED BY <2>1, <2>2, IsSeqTail
<1>4. DOMAIN Head(sc) = DOMAIN NoCall /\ Head(sc).jobs \subseteq DOMAIN JobServer
  BY <1>1, <1>3 DEF BudInv, CallsOf
<1>5. DOMAIN NoCall = {"op", "agent", "parsed", "err", "jobs", "proxy", "id"}
  BY DEF NoCall
<1>6. call.jobs = Head(sc).jobs
  BY <1>4, <1>5
<1> HIDE DEF call, sc
<1>7. srv # "EINVAL" => srv \in (Servers \ {Proxy}) /\ srv # None
  <2> DEFINE of == {JobServer[j] : j \in call.jobs}
  <2>1. \A s \in of : s \in Servers \ {Proxy} /\ s # None
    BY <1>4, <1>6, PoolAssumption
  <2>2. th[t].srv \in (Servers \ {Proxy}) \cup {None}
    BY <1>1 DEF ThreadInv
  <2>3. srv = IF Cardinality(of) > 1 THEN "EINVAL"
              ELSE IF of # {} THEN CHOOSE s \in of : TRUE
              ELSE IF th[t].srv # None THEN th[t].srv
              ELSE IF QueryServer = None THEN "EINVAL" ELSE QueryServer
    BY DEF set_server_name_and_port
  <2>4. of # {} => (CHOOSE s \in of : TRUE) \in of
    OBVIOUS
  <2>5. QueryServer \in (Servers \ {Proxy}) \cup {None} /\ None \notin Servers
    BY PoolAssumption
  <2> HIDE DEF of, srv
  <2> QED BY <2>1, <2>2, <2>3, <2>4, <2>5
<1> HIDE DEF srv
<1>8. /\ DOMAIN x = DOMAIN NewThread /\ x.idx = th[t].idx /\ x.conn = th[t].conn /\ x.px = th[t].px
      /\ x.got = Nothing /\ x.ans = NoAns
      /\ x.pc \in {"popen", "ret", "lock"} /\ (x.pc = "popen" => x.call.proxy)
      /\ IF x.pc = "lock" THEN x.srv = srv /\ srv # "EINVAL" ELSE x.srv = th[t].srv
  BY <1>1, Records
<1> HIDE DEF x
<1>9. th'[t] = x /\ DOMAIN th' = Threads /\ \A u \in Threads \ {t} : th'[u] = th[u]
  BY <1>1, <1>2
<1>10. /\ DOMAIN bud' = DOMAIN bud /\ bud'.who = bud.who /\ bud'.size = bud.size
       /\ bud'.script = [bud.script EXCEPT ![t] = Tail(sc)]
  BY <1>1, <1>2 DEF BudInv
<1>11. Idx' = Idx /\ \A u : Cert(u)' = Cert(u)
  BY <1>10 DEF Idx, PoolSize, Cert
<1>12. BudInv'
  <2>1. \A k \in 1..Len(Tail(sc)) : k \in 1..Len(sc) - 1 /\ k + 1 \in 1..Len(sc)
    BY <1>3
  <2>2. \A k \in 1..Len(sc) : DOMAIN sc[k] = DOMAIN NoCall /\ sc[k].jobs \subseteq DOMAIN JobServer
    BY <1>1 DEF BudInv, CallsOf, sc
  <2>3. \A k \in 1..Len(Tail(sc)) : DOMAIN Tail(sc)[k] = DOMAIN NoCall /\ Tail(sc)[k].jobs \subseteq DOMAIN JobServer
    BY <1>3, <2>1, <2>2
  <2>4. CallsOf(bud'.script)
    <3> SUFFICES ASSUME NEW u \in Threads
                 PROVE  /\ IsSeq(bud'.script[u])
                        /\ \A k \in 1..Len(bud'.script[u]) : /\ DOMAIN bud'.script[u][k] = DOMAIN NoCall
                                                             /\ bud'.script[u][k].jobs \subseteq DOMAIN JobServer
      BY DEF CallsOf
    <3>1. CASE u = t
      <4>1. bud'.script[u] = Tail(sc)
        BY <1>1, <1>10, <3>1 DEF BudInv
      <4> QED BY <1>3, <2>3, <4>1
    <3>2. CASE u # t
      <4>1. bud'.script[u] = bud.script[u]
        BY <1>10, <3>2
      <4> QED BY <1>1, <4>1 DEF BudInv, CallsOf
    <3> QED BY <3>1, <3>2
  <2>5. DOMAIN bud'.script = Threads
    BY <1>1, <1>10 DEF BudInv
  <2> QED BY <1>1, <1>10, <2>4, <2>5 DEF BudInv, CallsOf
<1>13. ThreadInv(t)'
  BY <1>1, <1>7, <1>8, <1>9 DEF ThreadInv, InEntry, Looking, OnProxy
<1>14. AuthInv(t)'
  BY <1>1, <1>8, <1>9, <1>2 DEF AuthInv, ThreadInv
<1>15. RunInv'
  <2>1. th[t].idx = 0
    BY <1>1 DEF ThreadInv, InEntry
  <2> QED BY <1>1, <1>2, <1>8, <1>9, <1>11, <1>13, <1>14, <2>1, OnlyThread
<1>16. AnsweredAs'
  <2>1. AnsweredTo(t)'
    BY <1>8, <1>9 DEF AnsweredTo, HasAnswer
  <2> QED BY <1>1, <1>9, <1>11, <2>1, AnswersKept
<1> QED BY <1>12, <1>15, <1>16 DEF AsInv

\* A step that changes nothing but the thread's record, and brings no answer.
LEMMA ThreadOnly ==
  ASSUME AsInv, NEW t \in Threads, RunInv, sl' = sl,
         NEW f \in {"faults", "slow", "renewals", "refusals", "idle", "crashes"}, UNCHANGED bud \/ Spend(f),
         UNCHANGED <<pool, locked_by, net>>,
         DOMAIN th' = Threads, \A u \in Threads \ {t} : th'[u] = th[u],
         th'[t].idx = th[t].idx, th'[t].conn \in {0, th[t].conn}, th'[t].px \in {0, th[t].px},
         th[t].idx # 0 => th'[t].got.st = th[t].got.st,
         th'[t].pc = "ret" => th'[t].ans = NoAns,
         Cert(t)' = Cert(t) /\ Idx' = Idx => ThreadInv(t)'
  PROVE  AsInv'
<1>1. BudInv' /\ Idx' = Idx /\ \A u : Cert(u)' = Cert(u)
  BY BudgetKept DEF AsInv
<1>2. ThreadInv(t)' /\ AuthInv(t)
  BY <1>1 DEF RunInv
<1>3. AuthInv(t)'
  BY <1>2 DEF AuthInv
<1>4. RunInv'
  BY <1>1, <1>2, <1>3, OnlyThread
<1>5. AnsweredTo(t)'
  BY DEF AnsweredTo, HasAnswer
<1>6. AnsweredAs'
  BY <1>1, <1>5, AnswersKept DEF AsInv
<1> QED BY <1>1, <1>4, <1>6 DEF AsInv

LEMMA ReturnStep ==
  ASSUME AsInv, NEW t \in Threads, Return(t), sl' = sl
  PROVE  AsInv'
<1>1. /\ RunInv /\ th[t].pc = "ret" /\ DOMAIN th = Threads /\ DOMAIN th[t] = DOMAIN NewThread /\ ThreadInv(t)
  BY Begin DEF Return
<1>2. /\ DOMAIN th' = Threads /\ \A u \in Threads \ {t} : th'[u] = th[u]
      /\ DOMAIN th'[t] = DOMAIN NewThread /\ th'[t].pc = "idle" /\ th'[t].srv = th[t].srv
      /\ th'[t].px = th[t].px /\ th'[t].idx = 0 /\ th'[t].conn = 0 /\ th'[t].ans = NoAns
      /\ UNCHANGED <<pool, locked_by, net, bud>>
  BY <1>1 DEF Return, NewThread
<1>3. th[t].idx = 0
  BY <1>1 DEF ThreadInv, InEntry
<1>4. Cert(t)' = Cert(t) /\ Idx' = Idx => ThreadInv(t)'
  BY <1>1, <1>2 DEF ThreadInv, InEntry, Looking, OnProxy
<1> QED BY <1>1, <1>2, <1>3, <1>4, ThreadOnly

LEMMA ReleasedStep ==
  ASSUME AsInv, NEW t \in Threads, Released(t), sl' = sl
  PROVE  AsInv'
<1>1. /\ RunInv /\ th[t].pc = "released" /\ DOMAIN th = Threads /\ DOMAIN th[t] = DOMAIN NewThread /\ ThreadInv(t)
  BY Begin DEF Released
<1>2. /\ DOMAIN th' = Threads /\ \A u \in Threads \ {t} : th'[u] = th[u]
      /\ th'[t] = [th[t] EXCEPT !.pc = "add"]
      /\ UNCHANGED <<pool, locked_by, net, bud>>
  BY <1>1 DEF Released
<1>3. /\ DOMAIN th'[t] = DOMAIN NewThread /\ th'[t].pc = "add"
      /\ \A g \in DOMAIN NewThread \ {"pc"} : th'[t][g] = th[t][g]
  BY <1>1, <1>2, Records
<1>4. /\ th'[t].srv = th[t].srv /\ th'[t].px = th[t].px /\ th'[t].idx = th[t].idx
      /\ th'[t].conn = th[t].conn /\ th'[t].ans = th[t].ans /\ th'[t].got = th[t].got
  BY <1>3, Records
<1>5. Cert(t)' = Cert(t) /\ Idx' = Idx => ThreadInv(t)'
  BY <1>1, <1>3, <1>4 DEF ThreadInv, InEntry, Looking, OnProxy
<1> QED BY <1>1, <1>2, <1>3, <1>4, <1>5, ThreadOnly

LEMMA AddedStep ==
  ASSUME AsInv, NEW t \in Threads, Added(t), sl' = sl
  PROVE  AsInv'
<1>1. /\ RunInv /\ th[t].pc = "added" /\ DOMAIN th = Threads /\ DOMAIN th[t] = DOMAIN NewThread /\ ThreadInv(t)
  BY Begin DEF Added
<1>2. /\ DOMAIN th' = Threads /\ \A u \in Threads \ {t} : th'[u] = th[u]
      /\ DOMAIN th'[t] = DOMAIN NewThread /\ th'[t].pc = "cred"
      /\ th'[t].srv = th[t].srv /\ th'[t].px = th[t].px /\ th'[t].idx = th[t].idx
      /\ th'[t].conn = th[t].conn /\ th'[t].ans = th[t].ans /\ th'[t].got = th[t].got
      /\ UNCHANGED <<pool, locked_by, net, bud>>
  BY <1>1, Records DEF Added
<1>3. Cert(t)' = Cert(t) /\ Idx' = Idx => ThreadInv(t)'
  BY <1>1, <1>2 DEF ThreadInv, InEntry, Looking, OnProxy
<1> QED BY <1>1, <1>2, <1>3, ThreadOnly

\* A step that keeps the invariant for what it touches keeps all of it.
LEMMA Finish ==
  ASSUME AsInv, RunInv, NEW t \in Threads, NEW i \in Idx \cup {0}, NEW c \in Conns \cup {0}, BudInv',
         Touches(t, i, c), Rightly(t, i, c), Holding(t, i, c), Locking(t, i), Shaped(c),
         ThreadInv(t)', AuthInv(t)', i # 0 => EntryInv(i)' /\ pool'[i].used \in Nat, AnsweredTo(t)'
  PROVE  AsInv'
<1>1. RunInv'
  BY ClientKeeps
<1>2. AnsweredAs'
  BY AnswersKept DEF AsInv, Touches
<1> QED BY <1>1, <1>2 DEF AsInv

\* The thread's connections are its own, each of them.
LEMMA Distinct ==
  ASSUME RunInv, NEW t \in Threads
  PROVE  /\ th[t].conn # 0 => th[t].conn \in Conns /\ net[th[t].conn].cl
         /\ th[t].px # 0 => th[t].px \in Conns /\ net[th[t].px].cl
         /\ th[t].px # 0 => th[t].px # th[t].conn
         /\ \A i \in Idx : pool[i].gss # 0 => /\ pool[i].gss \in Conns /\ net[pool[i].gss].cl
                                              /\ pool[i].gss # th[t].conn /\ pool[i].gss # th[t].px
<1>1. HolderInv
  BY DEF RunInv
<1>2. /\ <<"conn", t>> \in Holders /\ Held(<<"conn", t>>) = th[t].conn
      /\ <<"px", t>> \in Holders /\ Held(<<"px", t>>) = th[t].px /\ <<"conn", t>> # <<"px", t>>
  BY DEF Holders, Held
<1>3. ASSUME NEW i \in Idx
      PROVE  /\ <<"pool", i>> \in Holders /\ Held(<<"pool", i>>) = pool[i].gss
             /\ <<"pool", i>> # <<"conn", t>> /\ <<"pool", i>> # <<"px", t>>
  <2>1. <<"pool", i>> \in Holders
    BY DEF Holders
  <2>2. Held(<<"pool", i>>) = pool[i].gss
    BY DEF Held
  <2> QED BY <2>1, <2>2
<1>4. ASSUME NEW i \in Idx, pool[i].gss # 0
      PROVE  /\ pool[i].gss \in Conns /\ net[pool[i].gss].cl
             /\ pool[i].gss # th[t].conn /\ pool[i].gss # th[t].px
  <2>1. /\ <<"pool", i>> \in Holders /\ Held(<<"pool", i>>) = pool[i].gss
        /\ <<"pool", i>> # <<"conn", t>> /\ <<"pool", i>> # <<"px", t>>
    BY <1>3
  <2>2. pool[i].gss \in Conns /\ net[pool[i].gss].cl
    BY <1>1, <1>4, <2>1 DEF HolderInv
  <2>3. pool[i].gss # th[t].conn
    BY <1>1, <1>2, <1>4, <2>1 DEF HolderInv
  <2>4. pool[i].gss # th[t].px
    BY <1>1, <1>2, <1>4, <2>1 DEF HolderInv
  <2> QED BY <2>2, <2>3, <2>4
<1> QED BY <1>1, <1>2, <1>4 DEF HolderInv

\* The client closes a connection.
LEMMA GssClosed ==
  ASSUME NetInv, NEW c \in Conns \cup {0}, net' = edg_wll_gss_close(net, c)
  PROVE  /\ DOMAIN net' = Conns /\ \A d \in Conns \ {c} : net'[d] = net[d]
         /\ Shaped(c)
<1>1. CASE c = 0
  BY <1>1 DEF edg_wll_gss_close, Shaped, NetInv
<1>2. CASE c # 0
  <2>1. /\ DOMAIN net' = Conns /\ \A d \in Conns \ {c} : net'[d] = net[d]
        /\ net'[c] = IF net[c].sv = "closed" THEN NoConn ELSE [net[c] EXCEPT !.cl = FALSE, !.down = <<>>]
    BY <1>2 DEF edg_wll_gss_close, NetInv
  <2>2. DOMAIN net[c] = DOMAIN NoConn /\ net[c].sv \in {"queued", "open", "closed"} /\ IsSeq(net[c].up)
    BY <1>2 DEF NetInv
  <2>3. NoConn.sv = "closed" /\ NoConn.up = <<>> /\ NoConn.down = <<>>
    BY DEF NoConn
  <2>4. CASE net[c].sv = "closed"
    BY <2>1, <2>3, <2>4, EmptyIsSeq DEF Shaped
  <2>5. CASE net[c].sv # "closed"
    <3>1. /\ DOMAIN net'[c] = DOMAIN NoConn /\ net'[c].sv = net[c].sv /\ net'[c].peer = net[c].peer
          /\ net'[c].up = net[c].up /\ net'[c].down = <<>>
      BY <2>1, <2>2, <2>5, Records
    <3>2. IsSeq(net'[c].up) /\ IsSeq(net'[c].down)
      BY <2>2, <3>1, EmptyIsSeq
    <3>3. net'[c].sv \in {"queued", "open", "closed"}
      BY <2>2, <3>1
    <3> QED BY <2>1, <3>1, <3>2, <3>3 DEF Shaped
  <2> QED BY <2>1, <2>4, <2>5
<1> QED BY <1>1, <1>2

LEMMA EntryGone ==
  ASSUME NEW i, pool'[i] = NoEntry
  PROVE  EntryInv(i)' /\ pool'[i].used \in Nat
<1>1. /\ NoEntry.gss = 0 /\ NoEntry.buf = <<>> /\ NoEntry.used = 0
  BY DEF NoEntry
<1>2. Stream(Want(i)', <<>>, pool'[i].cert)
  BY StreamEmpty
<1> QED BY <1>1, <1>2 DEF EntryInv

LEMMA FindStep ==
  ASSUME AsInv, NEW t \in Threads, Find(t), sl' = sl
  PROVE  AsInv'
<1>1. /\ BudInv /\ RunInv /\ th[t].pc = "lock" /\ DOMAIN th = Threads /\ DOMAIN th[t] = DOMAIN NewThread
      /\ ThreadInv(t) /\ AuthInv(t)
  BY Begin DEF Find
<1>2. th[t].idx = 0 /\ th[t].conn = 0 /\ th[t].got = Nothing /\ th[t].ans = NoAns /\ th[t].srv # None
  BY <1>1 DEF ThreadInv, InEntry, Looking
<1>3. UNCHANGED <<pool, net, bud>>
  BY DEF Find
<1>4. PICK i : i = ConnectionIndex(t)
  OBVIOUS
<1>5. CASE i = 0
  <2>1. UNCHANGED locked_by /\ th' = [th EXCEPT ![t].pc = IF opened = PoolSize THEN "release" ELSE "add"]
    BY <1>4, <1>5 DEF Find
  <2>2. /\ DOMAIN th' = Threads /\ \A u \in Threads \ {t} : th'[u] = th[u]
        /\ DOMAIN th'[t] = DOMAIN NewThread /\ th'[t].pc \in {"release", "add"}
        /\ th'[t].srv = th[t].srv /\ th'[t].px = th[t].px /\ th'[t].idx = th[t].idx
        /\ th'[t].conn = th[t].conn /\ th'[t].ans = th[t].ans /\ th'[t].got = th[t].got
    BY <1>1, <2>1, Records
  <2>3. Cert(t)' = Cert(t) /\ Idx' = Idx => ThreadInv(t)'
    BY <1>1, <2>2 DEF ThreadInv, InEntry, Looking, OnProxy
  <2> QED BY <1>1, <1>3, <2>1, <2>2, <2>3, ThreadOnly
<1>6. CASE i # 0
  <2>1. locked_by' = [locked_by EXCEPT ![i] = t] /\ th' = [th EXCEPT ![t].pc = "cred", ![t].idx = i]
    BY <1>4, <1>6 DEF Find
  <2>2. /\ i \in Idx /\ locked_by[i] = None /\ (Cert(t) = None \/ pool[i].cert = Cert(t))
        /\ pool[i].peer = th[t].srv
    <3> DEFINE fit == {k \in Unlocked : /\ pool[k].peer = th[t].srv
                                        /\ Cert(t) = None \/ pool[k].cert = Cert(t)}
    <3>1. fit # {} /\ i = Min(fit)
      BY <1>4, <1>6 DEF ConnectionIndex
    <3>2. fit \in SUBSET Nat
      BY <1>1 DEF Unlocked, Idx, PoolSize, BudInv
    <3>3. i \in fit
      BY <3>1, <3>2, MinProperty
    <3> QED BY <3>3 DEF Unlocked
  <2>3. PICK c : c = 0
    OBVIOUS
  <2>4. /\ DOMAIN th' = Threads /\ \A u \in Threads \ {t} : th'[u] = th[u]
        /\ DOMAIN th'[t] = DOMAIN NewThread /\ th'[t].pc = "cred"
        /\ th'[t].srv = th[t].srv /\ th'[t].px = th[t].px /\ th'[t].idx = i
        /\ th'[t].conn = 0 /\ th'[t].ans = NoAns /\ th'[t].got = Nothing
    BY <1>1, <1>2, <2>1, Records
  <2>5. /\ DOMAIN locked_by' = Idx /\ locked_by'[i] = t /\ \A k \in Idx \ {i} : locked_by'[k] = locked_by[k]
    BY <1>1, <2>1, <2>2 DEF RunInv, LockInv
  <2>6. BudInv' /\ Idx' = Idx /\ \A u : Cert(u)' = Cert(u)
    BY <1>1, <1>3, BudgetKept
  <2>7. Touches(t, i, c)
    BY <1>1, <1>3, <2>4, <2>5, <2>6 DEF Touches, RunInv, NetInv
  <2>8. Rightly(t, i, c) /\ Holding(t, i, c) /\ Locking(t, i) /\ Shaped(c)
    BY <1>2, <1>3, <2>2, <2>3, <2>4, <2>5 DEF Rightly, Holding, Locking, Shaped
  <2>9. ThreadInv(t)' /\ AuthInv(t)'
    <3>1. ThreadInv(t)'
      BY <1>1, <1>2, <1>3, <2>2, <2>4, <2>6 DEF ThreadInv, InEntry, Looking, OnProxy
    <3> QED BY <2>4, <3>1 DEF AuthInv
  <2>10. EntryInv(i)' /\ pool'[i].used \in Nat
    <3>1. EntryInv(i) /\ pool[i].used \in Nat
      BY <1>1, <2>2 DEF RunInv, UsedInv
    <3>2. Want(i)' = "FIRST" /\ Want(i) = "FIRST"
      BY <2>2, <2>4, <2>5, Records, PoolAssumption DEF Want
    <3> QED BY <1>3, <3>1, <3>2, EntryKept
  <2>11. AnsweredTo(t)'
    BY <2>4 DEF AnsweredTo, HasAnswer
  <2>12. i \in Idx \cup {0} /\ c \in Conns \cup {0}
    BY <2>2, <2>3
  <2> QED BY <1>1, <2>6, <2>7, <2>8, <2>9, <2>10, <2>11, <2>12, Finish
<1> QED BY <1>5, <1>6

\* An entry not in use can be chosen.
LEMMA OldestUnlocked ==
  ASSUME BudInv, RunInv, Unlocked # {}
  PROVE  Oldest \in Idx /\ locked_by[Oldest] = None
<1>1. Unlocked \in SUBSET Nat /\ \A i \in Unlocked : i \in Idx /\ locked_by[i] = None
  BY DEF Unlocked, Idx, PoolSize, BudInv
<1>2. \A i \in Unlocked : pool[i].used \in Nat
  BY <1>1 DEF RunInv, UsedInv
<1> DEFINE S == {pool[i].used : i \in Unlocked}
           T == {i \in Unlocked : pool[i].used = Min(S)}
           m == Min(S)
           k == Min(T)
<1>3. m \in S /\ \A x \in S : m <= x
  <2>1. S \in SUBSET Nat /\ S # {}
    BY <1>2
  <2> QED BY <2>1, MinProperty
<1>4. k \in T /\ \A x \in T : k <= x
  <2>1. T \in SUBSET Nat
    BY <1>1
  <2>2. T # {}
    BY <1>3
  <2> QED BY <2>1, <2>2, MinProperty
<1>5. k \in Unlocked /\ pool[k].used = m /\ m \in Nat /\ k \in Nat
  BY <1>1, <1>2, <1>4
<1>6. ASSUME NEW j \in Unlocked
      PROVE  <<pool[k].used, k>>[1] < pool[j].used \/ (pool[k].used = pool[j].used /\ k <= j)
  <2>1. m <= pool[j].used /\ pool[j].used \in Nat
    BY <1>2, <1>3
  <2>2. pool[j].used = m => k <= j
    BY <1>4
  <2> HIDE DEF m, k
  <2> QED BY <1>5, <2>1, <2>2
<1> HIDE DEF k, m
<1>7. Oldest \in Unlocked
  BY <1>5, <1>6 DEF Oldest
<1> QED BY <1>1, <1>7

\* An entry of the pool, the thread's or nobody's, is closed.
LEMMA EntryCloses ==
  ASSUME AsInv, RunInv, NEW t \in Threads, NEW i \in Idx, locked_by[i] \in {t, None},
         sl' = sl, UNCHANGED <<bud, locked_by>>,
         net' = edg_wll_gss_close(net, pool[i].gss), pool' = [pool EXCEPT ![i] = NoEntry],
         DOMAIN th' = Threads, \A u \in Threads \ {t} : th'[u] = th[u],
         th[t].idx \in {0, i}, th'[t].idx = th[t].idx, th[t].conn = 0, th'[t].conn = 0, th'[t].px = th[t].px,
         th'[t].pc # "ret",
         Cert(t)' = Cert(t) /\ Idx' = Idx => ThreadInv(t)'
  PROVE  AsInv'
<1>1. PICK c : c = pool[i].gss
  OBVIOUS
<1>2. c \in Conns \cup {0} /\ i # 0 /\ i \in Idx \cup {0} /\ (c # 0 => th[t].px # c)
  <2>1. i # 0
    BY DEF Idx
  <2> QED BY <1>1, <2>1, Distinct
<1>3. BudInv' /\ Idx' = Idx /\ \A u : Cert(u)' = Cert(u)
  BY BudgetKept DEF AsInv
<1>4. /\ DOMAIN net' = Conns /\ \A d \in Conns \ {c} : net'[d] = net[d]
      /\ Shaped(c)
  <2>1. NetInv
    BY DEF RunInv
  <2> QED BY <1>1, <1>2, <2>1, GssClosed
<1>5. DOMAIN pool' = Idx /\ pool'[i] = NoEntry /\ \A k \in Idx \ {i} : pool'[k] = pool[k]
  BY DEF RunInv
<1>6. Touches(t, i, c)
  BY <1>3, <1>4, <1>5 DEF Touches, RunInv, LockInv
<1>7. Rightly(t, i, c)
  BY <1>1, <1>2 DEF Rightly
<1>8. Holding(t, i, c)
  <2>1. pool'[i].gss = 0
    BY <1>5 DEF NoEntry
  <2> QED BY <1>2, <2>1 DEF Holding
<1>9. Locking(t, i)
  <2>1. locked_by[i] = t <=> th[t].idx = i
    BY DEF RunInv, LockInv
  <2> QED BY <2>1 DEF Locking
<1>10. ThreadInv(t)' /\ AuthInv(t)' /\ AnsweredTo(t)'
  BY <1>3 DEF AuthInv, AnsweredTo, HasAnswer
<1>11. EntryInv(i)' /\ pool'[i].used \in Nat
  BY <1>5, EntryGone
<1> QED BY <1>2, <1>3, <1>4, <1>6, <1>7, <1>8, <1>9, <1>10, <1>11, Finish

\* The process has been stopped by an assertion.
LEMMA Stopped ==
  ASSUME AsInv, NEW t \in Threads, dead', UNCHANGED bud, \A u \in Threads \ {t} : th'[u] = th[u],
         th' = th \/ th'[t].pc # "ret"
  PROVE  AsInv'
<1>1. BudInv' /\ \A u : Cert(u)' = Cert(u)
  BY BudgetKept DEF AsInv
<1>2. AnsweredAs /\ AnsweredTo(t)
  BY DEF AsInv, AnsweredAs, AnsweredTo
<1>3. AnsweredTo(t)'
  BY <1>1, <1>2 DEF AnsweredTo, HasAnswer
<1>4. AnsweredAs'
  BY <1>1, <1>2, <1>3, AnswersKept
<1> QED BY <1>1, <1>4 DEF AsInv

LEMMA ReleaseStep ==
  ASSUME AsInv, NEW t \in Threads, ReleaseConnection(t), sl' = sl
  PROVE  AsInv'
<1>1. /\ BudInv /\ RunInv /\ th[t].pc = "release" /\ DOMAIN th = Threads /\ DOMAIN th[t] = DOMAIN NewThread
      /\ ThreadInv(t) /\ AuthInv(t)
  BY Begin DEF ReleaseConnection
<1>2. th[t].idx = 0 /\ th[t].conn = 0 /\ th[t].got = Nothing /\ th[t].ans = NoAns /\ th[t].srv # None
  BY <1>1 DEF ThreadInv, InEntry, Looking
<1>3. UNCHANGED <<bud, locked_by>>
  BY DEF ReleaseConnection, OpenFails
<1>4. CASE \E i \in Idx : pool[i].peer = None
  BY <1>3, <1>4, Stopped DEF ReleaseConnection
<1>5. CASE ~(\E i \in Idx : pool[i].peer = None) /\ Unlocked = {}
  <2>1. OpenFails(t, "EAGAIN")
    BY <1>5 DEF ReleaseConnection
  <2>2. /\ DOMAIN th' = Threads /\ \A u \in Threads \ {t} : th'[u] = th[u]
        /\ DOMAIN th'[t] = DOMAIN NewThread /\ th'[t].pc = "ret"
        /\ th'[t].srv = th[t].srv /\ th'[t].px = th[t].px /\ th'[t].idx = th[t].idx
        /\ th'[t].conn = th[t].conn /\ th'[t].ans = th[t].ans /\ th'[t].got = th[t].got
    BY <1>1, <1>2, <2>1, Records DEF OpenFails
  <2>3. UNCHANGED <<pool, locked_by, net>>
    BY <2>1 DEF OpenFails
  <2>4. Cert(t)' = Cert(t) /\ Idx' = Idx => ThreadInv(t)'
    BY <1>1, <1>2, <2>2 DEF ThreadInv, InEntry, Looking, OnProxy
  <2> QED BY <1>1, <1>2, <1>3, <2>2, <2>3, <2>4, ThreadOnly
<1>6. CASE ~(\E i \in Idx : pool[i].peer = None) /\ Unlocked # {}
  <2>1. CloseConnection(t, Oldest) /\ th' = [th EXCEPT ![t].pc = "released", ![t].tmp = opened]
    BY <1>6 DEF ReleaseConnection
  <2>2. /\ DOMAIN th' = Threads /\ \A u \in Threads \ {t} : th'[u] = th[u]
        /\ DOMAIN th'[t] = DOMAIN NewThread /\ th'[t].pc = "released"
        /\ th'[t].srv = th[t].srv /\ th'[t].px = th[t].px /\ th'[t].idx = th[t].idx
        /\ th'[t].conn = th[t].conn /\ th'[t].ans = th[t].ans /\ th'[t].got = th[t].got
    BY <1>1, <2>1, Records
  <2>3. CASE opened = 0
    <3>1. dead'
      BY <2>1, <2>3 DEF CloseConnection
    <3> QED BY <1>3, <2>2, <3>1, Stopped
  <2>4. CASE opened # 0
    <3>1. PICK i : i = Oldest
      OBVIOUS
    <3>2. i \in Idx /\ locked_by[i] = None
      BY <1>1, <1>6, <3>1, OldestUnlocked
    <3>3. net' = edg_wll_gss_close(net, pool[i].gss) /\ pool' = [pool EXCEPT ![i] = NoEntry]
      BY <2>1, <2>4, <3>1 DEF CloseConnection
    <3>4. Cert(t)' = Cert(t) /\ Idx' = Idx => ThreadInv(t)'
      BY <1>1, <1>2, <2>2 DEF ThreadInv, InEntry, Looking, OnProxy
    <3>5. /\ th[t].idx \in {0, i} /\ th[t].conn = 0 /\ th'[t].conn = 0 /\ th'[t].pc # "ret"
          /\ locked_by[i] \in {t, None}
      BY <1>2, <2>2, <3>2
    <3> QED BY <1>1, <1>3, <2>2, <3>2, <3>3, <3>4, <3>5, EntryCloses
  <2> QED BY <2>3, <2>4
<1> QED BY <1>4, <1>5, <1>6

LEMMA CloseStep ==
  ASSUME AsInv, NEW t \in Threads, Close(t), sl' = sl
  PROVE  AsInv'
<1>1. /\ BudInv /\ RunInv /\ th[t].pc = "close" /\ DOMAIN th = Threads /\ DOMAIN th[t] = DOMAIN NewThread
      /\ ThreadInv(t) /\ AuthInv(t)
  BY Begin DEF Close
<1>2. th[t].idx \in Idx /\ th[t].conn = 0 /\ th[t].ans = NoAns /\ th[t].srv # None
  BY <1>1 DEF ThreadInv, InEntry, Looking
<1>3. UNCHANGED <<bud, locked_by>>
  BY DEF Close
<1>4. /\ DOMAIN th' = Threads /\ \A u \in Threads \ {t} : th'[u] = th[u]
      /\ DOMAIN th'[t] = DOMAIN NewThread /\ th'[t].pc = "closed"
      /\ th'[t].srv = th[t].srv /\ th'[t].px = th[t].px /\ th'[t].idx = th[t].idx /\ th'[t].next = th[t].next
      /\ th'[t].conn = th[t].conn /\ th'[t].ans = th[t].ans /\ th'[t].got = Nothing
  BY <1>1, Records DEF Close
<1>5. CASE opened = 0
  <2>1. dead'
    BY <1>5 DEF Close, CloseConnection
  <2> QED BY <1>3, <1>4, <2>1, Stopped
<1>6. CASE opened # 0
  <2>1. PICK i : i = th[t].idx
    OBVIOUS
  <2>2. i \in Idx /\ locked_by[i] = t
    BY <1>1, <1>2, <2>1 DEF RunInv, LockInv
  <2>3. net' = edg_wll_gss_close(net, pool[i].gss) /\ pool' = [pool EXCEPT ![i] = NoEntry]
    BY <1>6, <2>1 DEF Close, CloseConnection
  <2>4. Cert(t)' = Cert(t) /\ Idx' = Idx => ThreadInv(t)'
    BY <1>1, <1>2, <1>4 DEF ThreadInv, InEntry, Looking, OnProxy
  <2>5. /\ th[t].idx \in {0, i} /\ th[t].conn = 0 /\ th'[t].conn = 0 /\ th'[t].pc # "ret"
        /\ locked_by[i] \in {t, None}
    BY <1>2, <1>4, <2>1, <2>2
  <2> QED BY <1>1, <1>3, <1>4, <2>2, <2>3, <2>4, <2>5, EntryCloses
<1> QED BY <1>5, <1>6

LEMMA ClosedStep ==
  ASSUME AsInv, NEW t \in Threads, Closed(t), sl' = sl
  PROVE  AsInv'
<1>1. /\ BudInv /\ RunInv /\ th[t].pc = "closed" /\ DOMAIN th = Threads /\ DOMAIN th[t] = DOMAIN NewThread
      /\ ThreadInv(t) /\ AuthInv(t)
  BY Begin DEF Closed
<1>2. /\ th[t].idx \in Idx /\ th[t].conn = 0 /\ th[t].ans = NoAns /\ th[t].srv # None
      /\ th[t].got = Nothing /\ th[t].next \in {"ret", "lock"}
  BY <1>1 DEF ThreadInv, InEntry, Looking
<1>3. PICK i, c : i = th[t].idx /\ c = 0
  OBVIOUS
<1>4. i \in Idx /\ i # 0 /\ locked_by[i] = t /\ i \in Idx \cup {0} /\ c \in Conns \cup {0}
  <2>1. i # 0
    BY <1>2, <1>3 DEF Idx
  <2> QED BY <1>1, <1>2, <1>3, <2>1 DEF RunInv, LockInv
<1>5. /\ UNCHANGED <<bud, pool, net>>
      /\ DOMAIN locked_by' = Idx /\ locked_by'[i] = None /\ \A k \in Idx \ {i} : locked_by'[k] = locked_by[k]
  BY <1>1, <1>3, <1>4 DEF Closed, RunInv, LockInv
<1>6. /\ DOMAIN th' = Threads /\ \A u \in Threads \ {t} : th'[u] = th[u]
      /\ DOMAIN th'[t] = DOMAIN NewThread /\ th'[t].pc \in {"ret", "lock"}
      /\ th'[t].srv = th[t].srv /\ th'[t].px = th[t].px /\ th'[t].idx = 0
      /\ th'[t].conn = 0 /\ th'[t].ans = NoAns /\ th'[t].got = Nothing
  BY <1>1, <1>2, Records DEF Closed
<1>7. BudInv' /\ Idx' = Idx /\ \A u : Cert(u)' = Cert(u)
  BY <1>1, <1>5, BudgetKept
<1>8. Touches(t, i, c)
  BY <1>1, <1>5, <1>6, <1>7 DEF Touches, RunInv, NetInv
<1>9. Rightly(t, i, c) /\ Holding(t, i, c) /\ Locking(t, i) /\ Shaped(c)
  BY <1>2, <1>3, <1>4, <1>5, <1>6, PoolAssumption DEF Rightly, Holding, Locking, Shaped
<1>10. ThreadInv(t)'
  BY <1>1, <1>2, <1>6, <1>7 DEF ThreadInv, InEntry, Looking, OnProxy
<1>11. AuthInv(t)' /\ AnsweredTo(t)'
  BY <1>6 DEF AuthInv, AnsweredTo, HasAnswer
<1>12. EntryInv(i)' /\ pool'[i].used \in Nat
  <2>1. EntryInv(i) /\ pool[i].used \in Nat
    BY <1>1, <1>4 DEF RunInv, UsedInv
  <2>2. Want(i)' = "FIRST" /\ Want(i) = "FIRST"
    BY <1>2, <1>4, <1>5, Records, PoolAssumption DEF Want
  <2> QED BY <1>5, <2>1, <2>2, EntryKept
<1> QED BY <1>1, <1>4, <1>7, <1>8, <1>9, <1>10, <1>11, <1>12, Finish

LEMMA AddStep ==
  ASSUME AsInv, NEW t \in Threads, AddConnection(t), sl' = sl
  PROVE  AsInv'
<1> DEFINE free == {i \in Unlocked : pool[i].peer = None}
<1>1. /\ BudInv /\ RunInv /\ th[t].pc = "add" /\ DOMAIN th = Threads /\ DOMAIN th[t] = DOMAIN NewThread
      /\ ThreadInv(t) /\ AuthInv(t)
  BY Begin DEF AddConnection
<1>2. th[t].idx = 0 /\ th[t].conn = 0 /\ th[t].got = Nothing /\ th[t].ans = NoAns /\ th[t].srv # None
  BY <1>1 DEF ThreadInv, InEntry, Looking
<1>3. CASE free = {}
  <2>1. OpenFails(t, "EAGAIN") /\ UNCHANGED bud
    BY <1>3 DEF AddConnection
  <2>2. /\ DOMAIN th' = Threads /\ \A u \in Threads \ {t} : th'[u] = th[u]
        /\ DOMAIN th'[t] = DOMAIN NewThread /\ th'[t].pc = "ret"
        /\ th'[t].srv = th[t].srv /\ th'[t].px = th[t].px /\ th'[t].idx = th[t].idx
        /\ th'[t].conn = th[t].conn /\ th'[t].ans = th[t].ans /\ th'[t].got = th[t].got
    BY <1>1, <1>2, <2>1, Records DEF OpenFails
  <2>3. UNCHANGED <<pool, locked_by, net>>
    BY <2>1 DEF OpenFails
  <2>4. Cert(t)' = Cert(t) /\ Idx' = Idx => ThreadInv(t)'
    BY <1>1, <1>2, <2>2 DEF ThreadInv, InEntry, Looking, OnProxy
  <2> QED BY <1>1, <1>2, <2>1, <2>2, <2>3, <2>4, ThreadOnly
<1>4. CASE free # {}
  <2>1. PICK i, c : i = Min(free) /\ c = 0
    OBVIOUS
  <2>2. i \in Idx /\ locked_by[i] = None /\ pool[i].peer = None
    <3>1. free \in SUBSET Nat
      BY <1>1 DEF Unlocked, Idx, PoolSize, BudInv
    <3>2. i \in free
      BY <1>4, <2>1, <3>1, MinProperty
    <3> QED BY <3>2 DEF Unlocked
  <2>3. i # 0 /\ i \in Idx \cup {0} /\ c \in Conns \cup {0}
    <3>1. i # 0
      BY <2>2 DEF Idx
    <3> QED BY <2>1, <2>2, <3>1
  <2>4. /\ locked_by' = [locked_by EXCEPT ![i] = t] /\ UNCHANGED <<net, bud>>
        /\ pool' = [pool EXCEPT ![i].peer = th[t].srv, ![i].cred = FALSE, ![i].cert = None]
        /\ th' = [th EXCEPT ![t].pc = "added", ![t].idx = i, ![t].tmp = opened]
    BY <1>4, <2>1 DEF AddConnection
  <2>5. /\ DOMAIN th' = Threads /\ \A u \in Threads \ {t} : th'[u] = th[u]
        /\ DOMAIN th'[t] = DOMAIN NewThread /\ th'[t].pc = "added"
        /\ th'[t].srv = th[t].srv /\ th'[t].px = th[t].px /\ th'[t].idx = i
        /\ th'[t].conn = 0 /\ th'[t].ans = NoAns /\ th'[t].got = Nothing
    BY <1>1, <1>2, <2>4, Records
  <2>6. DOMAIN locked_by' = Idx /\ locked_by'[i] = t /\ \A k \in Idx \ {i} : locked_by'[k] = locked_by[k]
    BY <1>1, <2>2, <2>4 DEF RunInv, LockInv
  <2>7. EntryInv(i) /\ pool[i].used \in Nat /\ DOMAIN pool[i] = DOMAIN NoEntry /\ DOMAIN pool = Idx
    BY <1>1, <2>2 DEF RunInv, UsedInv, EntryInv
  <2>8. /\ DOMAIN pool' = Idx /\ \A k \in Idx \ {i} : pool'[k] = pool[k]
        /\ DOMAIN pool'[i] = DOMAIN NoEntry /\ pool'[i].peer = th[t].srv /\ pool'[i].cred = FALSE
        /\ pool'[i].cert = None /\ pool'[i].gss = pool[i].gss /\ pool'[i].buf = pool[i].buf
        /\ pool'[i].used = pool[i].used
    BY <2>2, <2>4, <2>7, Records
  <2>9. pool[i].gss = 0 /\ pool[i].buf = <<>>
    BY <2>2, <2>7 DEF EntryInv
  <2>10. BudInv' /\ Idx' = Idx /\ \A u : Cert(u)' = Cert(u)
    BY <1>1, <2>4, BudgetKept
  <2>11. Touches(t, i, c)
    BY <1>1, <2>4, <2>5, <2>6, <2>8, <2>10 DEF Touches, RunInv, NetInv
  <2>12. Rightly(t, i, c) /\ Holding(t, i, c) /\ Locking(t, i) /\ Shaped(c)
    BY <1>2, <2>1, <2>2, <2>5, <2>6, <2>8 DEF Rightly, Holding, Locking, Shaped
  <2>13. ThreadInv(t)'
    BY <1>1, <1>2, <2>2, <2>5, <2>8, <2>10 DEF ThreadInv, InEntry, Looking, OnProxy
  <2>14. AuthInv(t)' /\ AnsweredTo(t)'
    BY <2>5 DEF AuthInv, AnsweredTo, HasAnswer
  <2>15. EntryInv(i)' /\ pool'[i].used \in Nat
    <3>1. Stream(Want(i)', <<>>, None)
      BY StreamEmpty
    <3> QED BY <2>7, <2>8, <2>9, <3>1 DEF EntryInv
  <2> QED BY <1>1, <2>3, <2>10, <2>11, <2>12, <2>13, <2>14, <2>15, Finish
<1> QED BY <1>3, <1>4

\* The thread gives its connection up, with the error of this step.
LEMMA GivesUp ==
  ASSUME AsInv, NEW t \in Threads, RunInv, sl' = sl, th[t].pc \in InEntry, th[t].pc \notin {"auth", "closed"},
         NEW f \in {"faults", "slow", "renewals", "refusals", "idle", "crashes"}, UNCHANGED bud \/ Spend(f),
         UNCHANGED <<pool, locked_by, net>>,
         DOMAIN th' = Threads, \A u \in Threads \ {t} : th'[u] = th[u],
         DOMAIN th'[t] = DOMAIN NewThread, th'[t].pc = "close", th'[t].next \in {"ret", "lock"},
         th'[t].idx = th[t].idx, th'[t].conn = 0, th'[t].px = th[t].px,
         th'[t].got = th[t].got, th'[t].ans = th[t].ans, th'[t].srv = th[t].srv
  PROVE  AsInv'
<1>1. ThreadInv(t)
  BY DEF RunInv
<1>2. th[t].conn = 0 /\ th[t].idx \in Idx /\ th[t].srv # None /\ th[t].ans = NoAns
  BY <1>1 DEF ThreadInv, InEntry
<1>3. /\ DOMAIN th[t].got = DOMAIN Nothing /\ th[t].got.st \in {"FIRST", "BODY"}
      /\ th[t].got.st = "BODY" => LineOf(th[t].got.line, pool[th[t].idx].cert)
  <2>1. CASE th[t].pc \in {"recv", "close"}
    BY <1>1, <2>1 DEF ThreadInv
  <2>2. CASE th[t].pc \notin {"recv", "close"}
    <3>1. th[t].got = Nothing
      BY <1>1, <2>2 DEF ThreadInv
    <3> QED BY <3>1, Records
  <2> QED BY <2>1, <2>2
<1>4. Cert(t)' = Cert(t) /\ Idx' = Idx => ThreadInv(t)'
  BY <1>1, <1>2, <1>3 DEF ThreadInv, InEntry, Looking, OnProxy
<1> QED BY <1>2, <1>4, ThreadOnly

LEMMA CredentialsStep ==
  ASSUME AsInv, NEW t \in Threads, Credentials(t), sl' = sl
  PROVE  AsInv'
<1>1. /\ BudInv /\ RunInv /\ th[t].pc = "cred" /\ DOMAIN th = Threads /\ DOMAIN th[t] = DOMAIN NewThread
      /\ ThreadInv(t) /\ AuthInv(t)
  BY Begin DEF Credentials
<1>2. PICK i : i = th[t].idx
  OBVIOUS
<1>3. /\ i \in Idx /\ th[t].conn = 0 /\ th[t].ans = NoAns /\ th[t].srv # None /\ th[t].got = Nothing
      /\ (Cert(t) = None \/ pool[i].cert = Cert(t) \/ ~pool[i].cred) /\ pool[i].peer # None
  BY <1>1, <1>2 DEF ThreadInv, InEntry, Looking
<1>4. locked_by[i] = t /\ i # 0
  <2>1. i # 0
    BY <1>3 DEF Idx
  <2> QED BY <1>1, <1>2, <1>3, <2>1 DEF RunInv, LockInv
<1>5. UNCHANGED locked_by
  BY DEF Credentials
<1>6. CASE ~CredDue(t)
  <2>1. /\ th' = [th EXCEPT ![t].pc = IF pool[i].gss = 0 THEN "connect" ELSE "send",
                            ![t].left = Addresses, ![t].sent = 0]
        /\ UNCHANGED <<net, pool, bud>>
    BY <1>2, <1>6 DEF Credentials
  <2>2. pool[i].cred
    BY <1>2, <1>6 DEF CredDue
  <2>3. /\ DOMAIN th' = Threads /\ \A u \in Threads \ {t} : th'[u] = th[u]
        /\ DOMAIN th'[t] = DOMAIN NewThread /\ th'[t].pc = IF pool[i].gss = 0 THEN "connect" ELSE "send"
        /\ th'[t].srv = th[t].srv /\ th'[t].px = th[t].px /\ th'[t].idx = i
        /\ th'[t].conn = 0 /\ th'[t].ans = NoAns /\ th'[t].got = Nothing
    BY <1>1, <1>2, <1>3, <2>1, Records
  <2>4. Cert(t)' = Cert(t) /\ Idx' = Idx => ThreadInv(t)'
    BY <1>1, <1>3, <2>1, <2>2, <2>3 DEF ThreadInv, InEntry, Looking, OnProxy
  <2> QED BY <1>1, <1>2, <1>3, <1>5, <2>1, <2>3, <2>4, ThreadOnly
<1>7. CASE CredDue(t)
  <2>1. CASE /\ pool' = [pool EXCEPT ![i].cred = TRUE, ![i].gss = 0, ![i].cert = Cert(t),
                                     ![i].mtime = IF Cert(t) = None THEN 0 ELSE files[Cert(t)]]
             /\ net' = edg_wll_gss_close(net, pool[i].gss)
             /\ th' = [th EXCEPT ![t].pc = IF 0 = 0 THEN "connect" ELSE "send",
                                 ![t].left = Addresses, ![t].sent = 0]
             /\ UNCHANGED bud
    <3>1. PICK c : c = pool[i].gss
      OBVIOUS
    <3>2. c \in Conns \cup {0} /\ i \in Idx \cup {0} /\ (c # 0 => th[t].px # c)
      BY <1>1, <1>3, <3>1, Distinct
    <3>3. /\ DOMAIN net' = Conns /\ \A d \in Conns \ {c} : net'[d] = net[d]
          /\ Shaped(c)
      <4>1. NetInv
        BY <1>1 DEF RunInv
      <4> QED BY <2>1, <3>1, <3>2, <4>1, GssClosed
    <3>4. EntryInv(i) /\ pool[i].used \in Nat /\ DOMAIN pool[i] = DOMAIN NoEntry /\ DOMAIN pool = Idx
      BY <1>1, <1>3 DEF RunInv, UsedInv, EntryInv
    <3>5. /\ DOMAIN pool' = Idx /\ \A k \in Idx \ {i} : pool'[k] = pool[k]
          /\ DOMAIN pool'[i] = DOMAIN NoEntry /\ pool'[i].peer = pool[i].peer /\ pool'[i].cred = TRUE
          /\ pool'[i].cert = Cert(t) /\ pool'[i].gss = 0 /\ pool'[i].buf = pool[i].buf
          /\ pool'[i].used = pool[i].used
      BY <1>3, <2>1, <3>4, Records
    <3>6. /\ DOMAIN th' = Threads /\ \A u \in Threads \ {t} : th'[u] = th[u]
          /\ DOMAIN th'[t] = DOMAIN NewThread /\ th'[t].pc = "connect"
          /\ th'[t].srv = th[t].srv /\ th'[t].px = th[t].px /\ th'[t].idx = i
          /\ th'[t].conn = 0 /\ th'[t].ans = NoAns /\ th'[t].got = Nothing
      BY <1>1, <1>2, <1>3, <2>1, Records
    <3>7. BudInv' /\ Idx' = Idx /\ \A u : Cert(u)' = Cert(u)
      BY <1>1, <2>1, BudgetKept
    <3>8. Touches(t, i, c)
      BY <1>1, <1>5, <3>3, <3>5, <3>6, <3>7 DEF Touches, RunInv, LockInv
    <3>9. Rightly(t, i, c) /\ Locking(t, i)
      BY <1>2, <1>4, <1>5, <3>1, <3>6 DEF Rightly, Locking
    <3>10. Holding(t, i, c)
      BY <3>2, <3>5, <3>6 DEF Holding
    <3>11. ThreadInv(t)'
      BY <1>1, <1>3, <3>5, <3>6, <3>7 DEF ThreadInv, InEntry, Looking, OnProxy
    <3>12. AuthInv(t)' /\ AnsweredTo(t)'
      BY <3>6 DEF AuthInv, AnsweredTo, HasAnswer
    <3>13. EntryInv(i)' /\ pool'[i].used \in Nat
      <4>1. Want(i) = "FIRST" /\ Want(i)' = "FIRST"
        BY <1>3, <1>2, <1>4, <1>5, <3>6, Records DEF Want
      <4>2. Stream("FIRST", pool[i].buf, Cert(t))
        <5>1. CASE ~pool[i].cred
          <6>1. pool[i].buf = <<>>
            BY <3>4, <5>1 DEF EntryInv
          <6> QED BY <6>1, StreamEmpty
        <5>2. CASE pool[i].cred
          <6>1. Cert(t) # None
            BY <1>2, <1>7, <5>2 DEF CredDue
          <6>2. pool[i].cert = Cert(t)
            BY <1>3, <5>2, <6>1
          <6> QED BY <3>4, <4>1, <6>2 DEF EntryInv
        <5> QED BY <5>1, <5>2
      <4> QED BY <1>3, <3>4, <3>5, <4>1, <4>2 DEF EntryInv
    <3> QED BY <1>1, <3>2, <3>3, <3>7, <3>8, <3>9, <3>10, <3>11, <3>12, <3>13, Finish
  <2>2. CASE Spend("faults") /\ GiveUp(t, "ret", "GSS") /\ UNCHANGED <<net, pool>>
    <3>1. /\ DOMAIN th' = Threads /\ \A u \in Threads \ {t} : th'[u] = th[u]
          /\ DOMAIN th'[t] = DOMAIN NewThread /\ th'[t].pc = "close" /\ th'[t].next \in {"ret", "lock"}
          /\ th'[t].srv = th[t].srv /\ th'[t].px = th[t].px /\ th'[t].idx = th[t].idx
          /\ th'[t].conn = th[t].conn /\ th'[t].ans = th[t].ans /\ th'[t].got = th[t].got
      BY <1>1, <2>2, Records DEF GiveUp
    <3> QED BY <1>1, <1>3, <1>5, <2>2, <3>1, GivesUp DEF InEntry
  <2> QED BY <1>2, <1>7, <2>1, <2>2 DEF Credentials
<1> QED BY <1>6, <1>7

\* A free connection can be chosen.
LEMMA AConnFree ==
  ASSUME FreeConns(net) # {}
  PROVE  AConn(net) \in Conns /\ net[AConn(net)] = NoConn
<1>1. FreeConns(net) \in SUBSET Nat
  BY AddressAssumption DEF FreeConns
<1>2. AConn(net) = Min(FreeConns(net))
  BY DEF AConn, Min
<1>3. AConn(net) \in FreeConns(net)
  BY <1>1, <1>2, MinProperty
<1> QED BY <1>3 DEF FreeConns

\* No slave has a free connection, and no client.
LEMMA FreeIsUnused ==
  ASSUME RunInv, NEW c \in Conns, net[c] = NoConn
  PROVE  /\ \A s \in Slaves : sl[s].conn # c
         /\ \A u \in Threads : th[u].conn # c /\ th[u].px # c
         /\ \A i \in Idx : pool[i].gss # c
<1>1. net[c].sv # "open" /\ ~net[c].cl /\ c # 0
  BY AddressAssumption DEF NoConn
<1>2. ASSUME NEW s \in Slaves PROVE sl[s].conn # c
  <2>1. SlaveInv(s)
    BY DEF RunInv, SlavesInv
  <2> QED BY <1>1, <2>1 DEF SlaveInv
<1>3. ASSUME NEW u \in Threads PROVE /\ th[u].conn # c /\ th[u].px # c
                                     /\ \A i \in Idx : pool[i].gss # c
  BY <1>1, Distinct
<1>4. \A i \in Idx : pool[i].gss # c
  <2> TAKE i \in Idx
  <2>1. <<"pool", i>> \in Holders
    BY DEF Holders
  <2>2. Held(<<"pool", i>>) = pool[i].gss
    BY DEF Held
  <2>3. HolderInv
    BY DEF RunInv
  <2> QED BY <1>1, <2>1, <2>2, <2>3 DEF HolderInv
<1> QED BY <1>2, <1>3, <1>4

\* The scenario is used up by one event at most.
Spends == UNCHANGED bud \/ \E f \in {"faults", "slow", "renewals", "refusals", "idle", "crashes"} : Spend(f)

LEMMA SpendsKept ==
  ASSUME BudInv, Spends
  PROVE  BudInv' /\ Idx' = Idx /\ \A u : Cert(u)' = Cert(u)
  BY BudgetKept DEF Spends

\* A step at an entry of the pool that is left as it is, and a connection c
\* that is not this entry's.
Beside(t, i, c) ==
  /\ i = th[t].idx /\ (net[c] = NoConn \/ c = th[t].conn)
  /\ Spends /\ sl' = sl /\ UNCHANGED <<pool, locked_by>>
  /\ DOMAIN net' = Conns /\ (\A d \in Conns \ {c} : net'[d] = net[d]) /\ Shaped(c)
  /\ DOMAIN th' = Threads /\ (\A u \in Threads \ {t} : th'[u] = th[u])
  /\ th'[t].idx = i /\ th'[t].px = th[t].px /\ th'[t].got = th[t].got /\ th'[t].pc # "ret"
  /\ th'[t].conn = 0 \/ (th'[t].conn = c /\ net'[c].cl)

LEMMA BesideEntry ==
  ASSUME AsInv, RunInv, NEW t \in Threads, NEW i \in Idx, NEW c \in Conns, Beside(t, i, c),
         Cert(t)' = Cert(t) /\ Idx' = Idx => ThreadInv(t)' /\ AuthInv(t)'
  PROVE  AsInv'
<1>1. BudInv
  BY DEF AsInv
<1>2. c # 0 /\ c \in Conns \cup {0} /\ i # 0 /\ i \in Idx \cup {0}
  BY AddressAssumption DEF Idx
<1>3. locked_by[i] = t
  BY DEF RunInv, LockInv, Beside
<1>4. th[t].px # c /\ pool[i].gss # c
  <2>1. CASE net[c] = NoConn
    BY <2>1, FreeIsUnused
  <2>2. CASE c = th[t].conn
    BY <1>2, <2>2, Distinct
  <2> QED BY <2>1, <2>2 DEF Beside
<1>5. BudInv' /\ Idx' = Idx /\ \A u : Cert(u)' = Cert(u)
  BY <1>1, SpendsKept DEF Beside
<1>6. Touches(t, i, c)
  BY <1>5 DEF Touches, RunInv, LockInv, Beside
<1>7. Rightly(t, i, c)
  BY <1>3 DEF Rightly, Beside
<1>8. Locking(t, i)
  BY <1>3 DEF Locking, Beside
<1>9. Holding(t, i, c)
  BY <1>4 DEF Holding, Beside
<1>10. ThreadInv(t)' /\ AuthInv(t)' /\ AnsweredTo(t)'
  BY <1>5 DEF AnsweredTo, HasAnswer, Beside
<1>11. EntryInv(i)' /\ pool'[i].used \in Nat
  <2>1. EntryInv(i) /\ pool[i].used \in Nat
    BY DEF RunInv, UsedInv
  <2>2. Want(i)' = Want(i)
    BY <1>3 DEF Want, Beside
  <2>3. pool[i].gss # 0 => net'[pool[i].gss] = net[pool[i].gss]
    BY <1>4, Distinct DEF Beside
  <2>4. pool' = pool /\ sl' = sl
    BY DEF Beside
  <2> QED BY <2>1, <2>2, <2>3, <2>4, EntryKept
<1>12. Shaped(c)
  BY DEF Beside
<1> QED BY <1>2, <1>12, <1>5, <1>6, <1>7, <1>8, <1>9, <1>10, <1>11, Finish

LEMMA ConnectStep ==
  ASSUME AsInv, NEW t \in Threads, Connect(t), sl' = sl
  PROVE  AsInv'
<1>1. /\ BudInv /\ RunInv /\ th[t].pc = "connect" /\ DOMAIN th = Threads /\ DOMAIN th[t] = DOMAIN NewThread
      /\ ThreadInv(t) /\ AuthInv(t)
  BY Begin DEF Connect
<1>2. /\ th[t].idx \in Idx /\ th[t].conn = 0 /\ th[t].ans = NoAns /\ th[t].srv # None /\ th[t].got = Nothing
  BY <1>1 DEF ThreadInv, InEntry, Looking
<1>3. UNCHANGED <<pool, locked_by>>
  BY DEF Connect
<1>4. CASE /\ FreeConns(net) # {}
           /\ net' = do_connect(net, AConn(net), th[t].srv, pool[th[t].idx].cert)
           /\ th' = [th EXCEPT ![t].pc = "auth", ![t].conn = AConn(net)]
           /\ UNCHANGED bud
  <2>1. PICK c, i : c = AConn(net) /\ i = th[t].idx
    OBVIOUS
  <2>2. c \in Conns /\ net[c] = NoConn /\ i \in Idx /\ i = th[t].idx
    BY <1>2, <1>4, <2>1, AConnFree
  <2>3. DOMAIN net = Conns
    BY <1>1 DEF RunInv, NetInv
  <2>4. /\ DOMAIN net' = Conns /\ \A d \in Conns \ {c} : net'[d] = net[d]
        /\ net'[c] = [NoConn EXCEPT !.peer = th[t].srv, !.as = pool[i].cert, !.cl = TRUE, !.sv = "queued",
                                    !.up = <<Token>>]
    BY <1>4, <2>1, <2>2, <2>3 DEF do_connect
  <2>5. /\ DOMAIN net'[c] = DOMAIN NoConn /\ net'[c].peer = th[t].srv /\ net'[c].as = pool[i].cert /\ net'[c].cl
        /\ net'[c].sv = "queued" /\ net'[c].up = <<Token>> /\ net'[c].down = <<>>
    BY <2>4 DEF NoConn
  <2>6. Shaped(c)
    <3>1. IsSeq(net'[c].up) /\ IsSeq(net'[c].down)
      BY <2>5, OneIsSeq, EmptyIsSeq
    <3>2. net[c].sv = "closed"
      BY <2>2 DEF NoConn
    <3> QED BY <2>5, <3>1, <3>2 DEF Shaped
  <2>7. /\ DOMAIN th' = Threads /\ \A u \in Threads \ {t} : th'[u] = th[u]
        /\ DOMAIN th'[t] = DOMAIN NewThread /\ th'[t].pc = "auth"
        /\ th'[t].srv = th[t].srv /\ th'[t].px = th[t].px /\ th'[t].idx = i
        /\ th'[t].conn = c /\ th'[t].ans = th[t].ans /\ th'[t].got = th[t].got
    BY <1>1, <1>4, <2>1, Records
  <2>8. ASSUME Cert(t)' = Cert(t), Idx' = Idx PROVE ThreadInv(t)' /\ AuthInv(t)'
    <3>1. ThreadInv(t)'
      BY <1>1, <1>2, <1>3, <2>2, <2>7, <2>8 DEF ThreadInv, InEntry, Looking, OnProxy
    <3>2. \A s \in Slaves : sl'[s].conn # c
      BY <1>1, <2>2, FreeIsUnused
    <3>3. th[t].srv # Proxy
      BY <1>1, <1>2 DEF ThreadInv
    <3>4. AuthInv(t)'
      BY <1>3, <2>5, <2>7, <3>2, <3>3 DEF AuthInv
    <3> QED BY <3>1, <3>4
  <2>9. /\ th'[t].pc # "ret" /\ (net[c] = NoConn \/ c = th[t].conn)
        /\ th'[t].conn = 0 \/ (th'[t].conn = c /\ net'[c].cl)
    BY <2>2, <2>5, <2>7
  <2>10. Beside(t, i, c)
    BY <1>3, <1>4, <2>2, <2>4, <2>6, <2>7, <2>9 DEF Beside, Spends
  <2> QED BY <1>1, <2>2, <2>8, <2>10, BesideEntry
<1>5. ASSUME NEW err, th' = [th EXCEPT ![t].pc = "close", ![t].next = "ret", ![t].err = err]
             \/ th' = [th EXCEPT ![t].pc = "close", ![t].next = "ret", ![t].err = err, ![t].conn = 0],
             Spend("faults"), UNCHANGED net
      PROVE  AsInv'
  <2>1. /\ DOMAIN th' = Threads /\ \A u \in Threads \ {t} : th'[u] = th[u]
        /\ DOMAIN th'[t] = DOMAIN NewThread /\ th'[t].pc = "close" /\ th'[t].next \in {"ret", "lock"}
        /\ th'[t].srv = th[t].srv /\ th'[t].px = th[t].px /\ th'[t].idx = th[t].idx
        /\ th'[t].conn = 0 /\ th'[t].ans = th[t].ans /\ th'[t].got = th[t].got
    BY <1>1, <1>2, <1>5, Records
  <2> QED BY <1>1, <1>3, <1>5, <2>1, GivesUp DEF InEntry
<1>6. ASSUME th' = [th EXCEPT ![t].pc = "connect", ![t].left = @ - 1, ![t].conn = 0],
             Spend("faults"), UNCHANGED net
      PROVE  AsInv'
  <2>1. /\ DOMAIN th' = Threads /\ \A u \in Threads \ {t} : th'[u] = th[u]
        /\ DOMAIN th'[t] = DOMAIN NewThread /\ th'[t].pc = "connect"
        /\ th'[t].srv = th[t].srv /\ th'[t].px = th[t].px /\ th'[t].idx = th[t].idx
        /\ th'[t].conn = 0 /\ th'[t].ans = th[t].ans /\ th'[t].got = th[t].got
    BY <1>1, <1>2, <1>6, Records
  <2>2. Cert(t)' = Cert(t) /\ Idx' = Idx => ThreadInv(t)'
    BY <1>1, <1>2, <1>3, <2>1 DEF ThreadInv, InEntry, Looking, OnProxy
  <2> QED BY <1>1, <1>2, <1>3, <1>6, <2>1, <2>2, ThreadOnly
<1>7. ASSUME Spend("faults"), UNCHANGED net,
             \E l \in Lookups :
                CASE asyn_getservbyname(l) = "end" -> GiveUp(t, "ret", gss_connect_error(l))
                  [] asyn_getservbyname(l) = "next" -> NextAddress(t, gss_connect_error(l))
                  [] OTHER -> NextAddress(t, "ECONNREFUSED")
      PROVE  AsInv'
  <2>1. \E err : GiveUp(t, "ret", err) \/ NextAddress(t, err)
    BY <1>7
  <2>2. PICK err : GiveUp(t, "ret", err) \/ NextAddress(t, err)
    BY <2>1
  <2> QED BY <1>5, <1>6, <1>7, <2>2 DEF GiveUp, NextAddress
<1> QED BY <1>4, <1>7 DEF Connect

LEMMA AuthStep ==
  ASSUME AsInv, NEW t \in Threads, Auth(t), sl' = sl
  PROVE  AsInv'
<1>1. /\ BudInv /\ RunInv /\ th[t].pc = "auth" /\ DOMAIN th = Threads /\ DOMAIN th[t] = DOMAIN NewThread
      /\ ThreadInv(t) /\ AuthInv(t)
  BY Begin DEF Auth
<1>2. PICK c, i : c = th[t].conn /\ i = th[t].idx
  OBVIOUS
<1>3. /\ i \in Idx /\ c \in Conns /\ th[t].ans = NoAns /\ th[t].srv # None /\ th[t].got = Nothing
      /\ pool[i].cred /\ pool[i].peer # None /\ (Cert(t) = None \/ pool[i].cert = Cert(t))
  BY <1>1, <1>2 DEF ThreadInv, InEntry, Looking
<1>4. locked_by[i] = t /\ i # 0 /\ c # 0
  <2>1. i # 0 /\ c # 0
    BY <1>3, AddressAssumption DEF Idx
  <2> QED BY <1>1, <1>2, <1>3, <2>1 DEF RunInv, LockInv
<1>5. UNCHANGED locked_by
  BY DEF Auth
<1>6. NetInv /\ DOMAIN net = Conns /\ DOMAIN net[c] = DOMAIN NoConn
  BY <1>1, <1>3 DEF RunInv, NetInv
<1>7. CASE /\ try_conn_and_auth(net, c)
           /\ net' = Authenticated(net, c)
           /\ pool' = [pool EXCEPT ![i].gss = c]
           /\ th' = [th EXCEPT ![t].pc = "send", ![t].conn = 0]
           /\ UNCHANGED bud
  <2>1. /\ net[c].down = <<Token>> /\ net[c].peer # Proxy /\ net[c].as = pool[i].cert /\ net[c].sv # "queued"
        /\ \A s \in Slaves : sl[s].conn = c => sl[s].pc = "idle" /\ sl[s].user = pool[i].cert
    <3>1. net[c].down # <<>>
      BY <1>7 DEF try_conn_and_auth
    <3> QED BY <1>1, <1>2, <1>4, <3>1 DEF AuthInv
  <2>2. /\ DOMAIN net' = Conns /\ \A d \in Conns \ {c} : net'[d] = net[d]
        /\ net'[c] = [net[c] EXCEPT !.down = <<>>]
    <3>1. Tail(net[c].down) = <<>>
      BY <2>1
    <3> QED BY <1>3, <1>6, <1>7, <3>1 DEF Authenticated
  <2>3. /\ DOMAIN net'[c] = DOMAIN NoConn /\ net'[c].down = <<>> /\ net'[c].up = net[c].up
        /\ net'[c].peer = net[c].peer /\ net'[c].as = net[c].as /\ net'[c].sv = net[c].sv /\ net'[c].cl = net[c].cl
    BY <1>6, <2>2, Records
  <2>4. Shaped(c)
    BY <1>3, <1>6, <2>3, EmptyIsSeq DEF Shaped, NetInv
  <2>5. EntryInv(i) /\ pool[i].used \in Nat /\ DOMAIN pool[i] = DOMAIN NoEntry /\ DOMAIN pool = Idx
    BY <1>1, <1>3 DEF RunInv, UsedInv, EntryInv
  <2>6. /\ DOMAIN pool' = Idx /\ \A k \in Idx \ {i} : pool'[k] = pool[k]
        /\ DOMAIN pool'[i] = DOMAIN NoEntry /\ pool'[i].peer = pool[i].peer /\ pool'[i].cred = pool[i].cred
        /\ pool'[i].cert = pool[i].cert /\ pool'[i].gss = c /\ pool'[i].buf = pool[i].buf
        /\ pool'[i].used = pool[i].used
    BY <1>3, <1>7, <2>5, Records
  <2>7. /\ DOMAIN th' = Threads /\ \A u \in Threads \ {t} : th'[u] = th[u]
        /\ DOMAIN th'[t] = DOMAIN NewThread /\ th'[t].pc = "send"
        /\ th'[t].srv = th[t].srv /\ th'[t].px = th[t].px /\ th'[t].idx = i
        /\ th'[t].conn = 0 /\ th'[t].ans = NoAns /\ th'[t].got = Nothing
    BY <1>1, <1>2, <1>3, <1>7, Records
  <2>8. BudInv' /\ Idx' = Idx /\ \A u : Cert(u)' = Cert(u)
    BY <1>1, <1>7, BudgetKept
  <2>9. Touches(t, i, c)
    BY <1>1, <1>5, <2>2, <2>6, <2>7, <2>8 DEF Touches, RunInv, LockInv
  <2>10. Rightly(t, i, c) /\ Locking(t, i)
    BY <1>2, <1>4, <1>5, <2>7 DEF Rightly, Locking
  <2>11. Holding(t, i, c)
    <3>1. net[c].cl /\ th[t].px # c
      BY <1>1, <1>2, <1>4, Distinct
    <3> QED BY <1>4, <2>3, <2>6, <2>7, <3>1 DEF Holding
  <2>12. ThreadInv(t)'
    <3>1. th'[t].srv \in (Servers \ {Proxy}) \cup {None} /\ Cert(t)' = Cert(t) /\ i \in Idx'
      BY <1>1, <1>3, <2>7, <2>8 DEF ThreadInv
    <3>2. pool'[i].cred /\ (Cert(t) = None \/ pool'[i].cert = Cert(t)) /\ pool'[i].gss # 0 /\ pool'[i].peer # None
      BY <1>3, <1>4, <2>6
    <3> QED BY ONLY <1>3, <2>7, <3>1, <3>2 DEF ThreadInv, InEntry, Looking, OnProxy
  <2>13. AuthInv(t)' /\ AnsweredTo(t)'
    BY <2>7 DEF AuthInv, AnsweredTo, HasAnswer
  <2>14. EntryInv(i)'
    <3>1. Want(i)' = "FIRST" /\ Want(i) = "FIRST"
      BY <1>3, <1>4, <1>5, <2>7, Records DEF Want
    <3>2. Stream("FIRST", pool[i].buf, pool[i].cert) /\ IsSeq(pool[i].buf)
      BY <2>5, <3>1 DEF EntryInv, Stream
    <3>3. pool[i].buf \o <<>> = pool[i].buf
      BY <3>2, ConcatEmpty
    <3>4. <<>> \o <<>> = <<>>
      BY EmptyIsSeq, ConcatEmpty
    <3>5. ASSUME NEW s \in Slaves, sl'[s].conn = c PROVE ServedInv(i, s)'
      <4>1. sl'[s].pc = "idle" /\ sl'[s].user = pool[i].cert /\ sl'[s].out = <<>>
        BY <1>1, <2>1, <3>5 DEF RunInv, SlavesInv, SlaveInv
      <4> QED BY <2>3, <2>6, <3>1, <3>2, <3>3, <3>4, <4>1 DEF ServedInv, Serving
    <3> QED BY ZenonT(40), <1>3, <2>1, <2>3, <2>6, <3>1, <3>2, <3>3, <3>5 DEF EntryInv
  <2>15. i \in Idx \cup {0} /\ c \in Conns \cup {0} /\ pool'[i].used \in Nat
    BY <1>3, <2>5, <2>6
  <2> QED BY <1>1, <2>4, <2>8, <2>9, <2>10, <2>11, <2>12, <2>13, <2>14, <2>15, Finish
\* The connection is closed, and the thread goes on without.
<1>8. ASSUME net' = edg_wll_gss_close(net, c), UNCHANGED pool, Spends,
             DOMAIN th' = Threads, \A u \in Threads \ {t} : th'[u] = th[u],
             DOMAIN th'[t] = DOMAIN NewThread,
             th'[t].pc = "connect" \/ (th'[t].pc = "close" /\ th'[t].next = "ret"),
             th'[t].srv = th[t].srv, th'[t].px = th[t].px, th'[t].idx = i,
             th'[t].conn = 0, th'[t].ans = NoAns, th'[t].got = Nothing
      PROVE  AsInv'
  <2>1. /\ DOMAIN net' = Conns /\ \A d \in Conns \ {c} : net'[d] = net[d]
        /\ Shaped(c)
    BY <1>3, <1>6, <1>8, GssClosed
  <2>2. Beside(t, i, c)
    BY <1>2, <1>3, <1>5, <1>8, <2>1 DEF Beside
  <2>3. Cert(t)' = Cert(t) /\ Idx' = Idx => ThreadInv(t)'
    BY <1>1, <1>3, <1>8, Records DEF ThreadInv, InEntry, Looking, OnProxy
  <2>4. AuthInv(t)'
    BY <1>8 DEF AuthInv
  <2> QED BY <1>1, <1>3, <2>2, <2>3, <2>4, BesideEntry
<1>9. ASSUME NEW err, NextAddress(t, err), net' = edg_wll_gss_close(net, c), UNCHANGED <<pool, bud>>
      PROVE  AsInv'
  <2>1. /\ DOMAIN th' = Threads /\ \A u \in Threads \ {t} : th'[u] = th[u]
        /\ DOMAIN th'[t] = DOMAIN NewThread
        /\ th'[t].pc = "connect" \/ (th'[t].pc = "close" /\ th'[t].next = "ret")
        /\ th'[t].srv = th[t].srv /\ th'[t].px = th[t].px /\ th'[t].idx = i
        /\ th'[t].conn = 0 /\ th'[t].ans = NoAns /\ th'[t].got = Nothing
    <3>1. CASE th' = [th EXCEPT ![t].pc = "connect", ![t].left = @ - 1, ![t].conn = 0]
      BY <1>1, <1>2, <1>3, <3>1, Records
    <3>2. CASE th' = [th EXCEPT ![t].pc = "close", ![t].next = "ret", ![t].err = err, ![t].conn = 0]
      BY <1>1, <1>2, <1>3, <3>2, Records
    <3> QED BY <1>9, <3>1, <3>2 DEF NextAddress
  <2> QED BY <1>8, <1>9, <2>1 DEF Spends
<1>10. ASSUME Spend("slow"), net' = edg_wll_gss_close(net, c), UNCHANGED pool,
              th' = [th EXCEPT ![t].pc = "close", ![t].next = "ret", ![t].err = "ETIMEDOUT", ![t].conn = 0]
       PROVE  AsInv'
  <2>1. /\ DOMAIN th' = Threads /\ \A u \in Threads \ {t} : th'[u] = th[u]
        /\ DOMAIN th'[t] = DOMAIN NewThread
        /\ th'[t].pc = "connect" \/ (th'[t].pc = "close" /\ th'[t].next = "ret")
        /\ th'[t].srv = th[t].srv /\ th'[t].px = th[t].px /\ th'[t].idx = i
        /\ th'[t].conn = 0 /\ th'[t].ans = NoAns /\ th'[t].got = Nothing
    BY <1>1, <1>2, <1>3, <1>10, Records
  <2> QED BY <1>8, <1>10, <2>1 DEF Spends
<1> QED BY <1>2, <1>7, <1>9, <1>10 DEF Auth

LEMMA SendStep ==
  ASSUME AsInv, NEW t \in Threads, http_send(t), sl' = sl
  PROVE  AsInv'
<1>1. /\ BudInv /\ RunInv /\ th[t].pc = "send" /\ DOMAIN th = Threads /\ DOMAIN th[t] = DOMAIN NewThread
      /\ ThreadInv(t) /\ AuthInv(t)
  BY Begin DEF http_send
<1>2. PICK i, c : i = th[t].idx /\ c = pool[i].gss
  OBVIOUS
<1>3. /\ i \in Idx /\ th[t].conn = 0 /\ th[t].ans = NoAns /\ th[t].srv # None /\ th[t].got = Nothing
      /\ pool[i].cred /\ pool[i].peer # None /\ (Cert(t) = None \/ pool[i].cert = Cert(t)) /\ pool[i].gss # 0
  BY <1>1, <1>2 DEF ThreadInv, InEntry, Looking
<1>4. i # 0 /\ locked_by[i] = t /\ c \in Conns /\ c # 0 /\ net[c].cl /\ th[t].px # c
  <2>1. i # 0
    BY <1>3 DEF Idx
  <2> QED BY <1>1, <1>2, <1>3, <2>1, Distinct DEF RunInv, LockInv
<1>5. UNCHANGED <<pool, locked_by>>
  BY DEF http_send
<1>6. NetInv /\ DOMAIN net = Conns /\ DOMAIN net[c] = DOMAIN NoConn
  BY <1>1, <1>4 DEF RunInv, NetInv
\* A piece is sent.
<1>7. ASSUME NEW n, NEW x, NEW pc \in {"send", "recv"}, th' = [th EXCEPT ![t].sent = n, ![t].pc = pc],
             net' = write_up(net, c, x), UNCHANGED bud
      PROVE  AsInv'
  <2>1. /\ DOMAIN net' = Conns /\ \A d \in Conns \ {c} : net'[d] = net[d]
        /\ DOMAIN net'[c] = DOMAIN NoConn /\ IsSeq(net'[c].up) /\ net'[c].down = net[c].down
        /\ net'[c].peer = net[c].peer /\ net'[c].as = net[c].as /\ net'[c].sv = net[c].sv /\ net'[c].cl = net[c].cl
    <3>1. CASE net[c].sv = "closed"
      BY <1>4, <1>6, <1>7, <3>1 DEF write_up, NetInv
    <3>2. CASE net[c].sv # "closed"
      <4>1. DOMAIN net' = Conns /\ (\A d \in Conns \ {c} : net'[d] = net[d])
            /\ net'[c] = [net[c] EXCEPT !.up = Append(net[c].up, x)]
        BY <1>4, <1>6, <1>7, <3>2 DEF write_up
      <4>2. IsSeq(Append(net[c].up, x))
        BY <1>4, <1>6, IsSeqAppend DEF NetInv
      <4> QED BY <1>6, <4>1, <4>2, Records
    <3> QED BY <3>1, <3>2
  <2>2. Shaped(c)
    BY <1>4, <1>6, <2>1 DEF Shaped, NetInv
  <2>3. /\ DOMAIN th' = Threads /\ \A u \in Threads \ {t} : th'[u] = th[u]
        /\ DOMAIN th'[t] = DOMAIN NewThread /\ th'[t].pc \in {"send", "recv"}
        /\ th'[t].srv = th[t].srv /\ th'[t].px = th[t].px /\ th'[t].idx = i
        /\ th'[t].conn = 0 /\ th'[t].ans = NoAns /\ th'[t].got = Nothing
    BY <1>1, <1>2, <1>3, <1>7, Records
  <2>4. BudInv' /\ Idx' = Idx /\ \A u : Cert(u)' = Cert(u)
    BY <1>1, <1>7, BudgetKept
  <2>5. Touches(t, i, c)
    BY <1>1, <1>5, <2>1, <2>3, <2>4 DEF Touches, RunInv, LockInv
  <2>6. Rightly(t, i, c) /\ Locking(t, i)
    BY <1>2, <1>4, <1>5, <2>3 DEF Rightly, Locking
  <2>7. Holding(t, i, c)
    BY <1>2, <1>4, <1>5, <2>1, <2>3 DEF Holding
  <2>8. ThreadInv(t)'
    <3>1. Nothing.st = "FIRST" /\ DOMAIN th'[t].got = DOMAIN Nothing
      BY <2>3, Records
    <3> QED BY <1>1, <1>3, <1>5, <2>3, <2>4, <3>1 DEF ThreadInv, InEntry, Looking, OnProxy
  <2>9. AuthInv(t)' /\ AnsweredTo(t)'
    BY <2>3 DEF AuthInv, AnsweredTo, HasAnswer
  <2>10. EntryInv(i)' /\ pool'[i].used \in Nat
    <3>1. EntryInv(i) /\ pool[i].used \in Nat
      BY <1>1, <1>3 DEF RunInv, UsedInv
    <3>2. Want(i)' = Want(i)
      BY <1>3, <1>4, <1>5, <2>3 DEF Want
    <3> QED BY <1>2, <1>5, <2>1, <3>1, <3>2, EntryKept
  <2>11. i \in Idx \cup {0} /\ c \in Conns \cup {0}
    BY <1>3, <1>4
  <2> QED BY <1>1, <2>2, <2>4, <2>5, <2>6, <2>7, <2>8, <2>9, <2>10, <2>11, Finish
\* The sending fails.
<1>8. ASSUME NEW nx \in {"ret", "lock"}, NEW err, NEW st,
             \/ th' = [th EXCEPT ![t].pc = "close", ![t].next = nx, ![t].stage = st]
             \/ th' = [th EXCEPT ![t].pc = "close", ![t].next = nx, ![t].err = err],
             UNCHANGED bud \/ Spend("slow"), UNCHANGED net
      PROVE  AsInv'
  <2>1. /\ DOMAIN th' = Threads /\ \A u \in Threads \ {t} : th'[u] = th[u]
        /\ DOMAIN th'[t] = DOMAIN NewThread /\ th'[t].pc = "close" /\ th'[t].next \in {"ret", "lock"}
        /\ th'[t].srv = th[t].srv /\ th'[t].px = th[t].px /\ th'[t].idx = th[t].idx
        /\ th'[t].conn = 0 /\ th'[t].ans = th[t].ans /\ th'[t].got = th[t].got
    BY <1>1, <1>3, <1>8, Records
  <2>2. th[t].pc \in InEntry /\ th[t].pc \notin {"auth", "closed"}
    BY <1>1 DEF InEntry
  <2> QED BY <1>1, <1>5, <1>8, <2>1, <2>2, GivesUp
<1>9. CASE Spend("slow") /\ GiveUp(t, "ret", "ETIMEDOUT") /\ UNCHANGED net
  BY <1>8, <1>9 DEF GiveUp
<1>10. CASE /\ \E r \in real_write(net, c) :
                 /\ IF r = "ok"
                    THEN th' = [th EXCEPT ![t].sent = th[t].sent + 1,
                                          ![t].pc = IF th[t].sent + 1 = Len(Request(t)) THEN "recv" ELSE "send"]
                    ELSE IF r = "ENOTCONN" /\ th[t].stage = 1
                    THEN th' = [th EXCEPT ![t].pc = "close", ![t].next = "lock", ![t].stage = 2]
                    ELSE GiveUp(t, "ret", r)
                 /\ net' = IF r = "ok" THEN write_up(net, c, Request(t)[th[t].sent + 1]) ELSE net
                 /\ UNCHANGED bud
  <2>1. PICK r \in real_write(net, c) :
                 /\ IF r = "ok"
                    THEN th' = [th EXCEPT ![t].sent = th[t].sent + 1,
                                          ![t].pc = IF th[t].sent + 1 = Len(Request(t)) THEN "recv" ELSE "send"]
                    ELSE IF r = "ENOTCONN" /\ th[t].stage = 1
                    THEN th' = [th EXCEPT ![t].pc = "close", ![t].next = "lock", ![t].stage = 2]
                    ELSE GiveUp(t, "ret", r)
                 /\ net' = IF r = "ok" THEN write_up(net, c, Request(t)[th[t].sent + 1]) ELSE net
                 /\ UNCHANGED bud
    BY <1>10
  <2>2. CASE r = "ok"
    BY <1>7, <2>1, <2>2
  <2>3. CASE r # "ok" /\ r = "ENOTCONN" /\ th[t].stage = 1
    BY <1>8, <2>1, <2>3
  <2>4. CASE r # "ok" /\ ~(r = "ENOTCONN" /\ th[t].stage = 1)
    BY <1>8, <2>1, <2>4 DEF GiveUp
  <2> QED BY <2>2, <2>3, <2>4
<1> QED BY <1>2, <1>9, <1>10 DEF http_send

\* What is on its way to a reader that reads all there is.
LEMMA EntryRead ==
  ASSUME NEW i, EntryInv(i), sl' = sl, NetInv, SlavesInv, NEW c \in Conns, c = pool[i].gss, c # 0,
         NEW r, IsSeq(r.buf), pool[i].cred, pool[i].peer # None,
         \A e : IsSeq(e) /\ Stream(Want(i), (pool[i].buf \o net[c].down) \o e, pool[i].cert)
                  => Stream(Want(i)', r.buf \o e, pool[i].cert),
         DOMAIN pool'[i] = DOMAIN pool[i], pool'[i].peer = pool[i].peer, pool'[i].cred = pool[i].cred,
         pool'[i].buf = r.buf, pool'[i].cert = pool[i].cert, pool'[i].gss = c,
         net'[c].as = net[c].as, net'[c].peer = net[c].peer, net'[c].sv = net[c].sv, net'[c].down = <<>>
  PROVE  EntryInv(i)'
<1>1. /\ DOMAIN pool[i] = DOMAIN NoEntry /\ IsSeq(pool[i].buf) /\ IsSeq(net[c].down)
      /\ net[c].as = pool[i].cert /\ net[c].peer # Proxy /\ net[c].sv # "queued"
      /\ Stream(Want(i), pool[i].buf \o net[c].down, pool[i].cert)
  BY DEF EntryInv, NetInv, Stream
<1>2. IsSeq(pool[i].buf \o net[c].down)
  BY <1>1, IsSeqConcat
<1>3. Stream(Want(i)', r.buf, pool[i].cert) /\ r.buf \o <<>> = r.buf
  <2>1. (pool[i].buf \o net[c].down) \o <<>> = pool[i].buf \o net[c].down /\ r.buf \o <<>> = r.buf
    BY <1>2, ConcatEmpty
  <2>2. IsSeq(<<>>) /\ Stream(Want(i), (pool[i].buf \o net[c].down) \o <<>>, pool[i].cert)
    BY <1>1, <2>1, EmptyIsSeq
  <2>3. Stream(Want(i)', r.buf \o <<>>, pool[i].cert)
    BY <2>2
  <2> QED BY <2>1, <2>3
<1>4. ASSUME NEW s \in Slaves, sl[s].conn = c PROVE ServedInv(i, s)'
  <2>1. /\ sl[s].pc \in Serving /\ sl[s].user = pool[i].cert
        /\ Stream(Want(i), pool[i].buf \o (net[c].down \o sl[s].out), pool[i].cert)
    BY <1>4 DEF EntryInv, ServedInv
  <2>2. IsSeq(sl[s].out)
    BY DEF SlavesInv, SlaveInv
  <2>3. /\ pool[i].buf \o (net[c].down \o sl[s].out) = (pool[i].buf \o net[c].down) \o sl[s].out
        /\ <<>> \o sl[s].out = sl[s].out
    <3>1. <<>> \o sl[s].out = sl[s].out
      BY <2>2, ConcatEmpty
    <3>2. pool[i].buf \o (net[c].down \o sl[s].out) = (pool[i].buf \o net[c].down) \o sl[s].out
      <4>1. PICK x, y, z : x = pool[i].buf /\ y = net[c].down /\ z = sl[s].out
        OBVIOUS
      <4>2. IsSeq(x) /\ IsSeq(y) /\ IsSeq(z)
        BY <1>1, <2>2, <4>1
      <4>3. x \o (y \o z) = (x \o y) \o z
        BY SMTT(30), <4>2, ConcatAssoc
      <4> QED BY <4>1, <4>3
    <3> QED BY <3>1, <3>2
  <2>4. Stream(Want(i)', r.buf \o sl[s].out, pool[i].cert)
    BY <2>1, <2>2, <2>3
  <2> QED BY <2>1, <2>3, <2>4 DEF ServedInv
<1> QED BY <1>1, <1>3, <1>4 DEF EntryInv

LEMMA RecvStep ==
  ASSUME AsInv, NEW t \in Threads, http_send_recv(t), sl' = sl
  PROVE  AsInv'
<1>1. /\ BudInv /\ RunInv /\ th[t].pc = "recv" /\ DOMAIN th = Threads /\ DOMAIN th[t] = DOMAIN NewThread
      /\ ThreadInv(t) /\ AuthInv(t)
  BY Begin DEF http_send_recv
<1>2. PICK i, c : i = th[t].idx /\ c = pool[i].gss
  OBVIOUS
<1>3. /\ i \in Idx /\ th[t].conn = 0 /\ th[t].ans = NoAns /\ th[t].srv # None
      /\ pool[i].cred /\ pool[i].peer # None /\ (Cert(t) = None \/ pool[i].cert = Cert(t)) /\ pool[i].gss # 0
      /\ DOMAIN th[t].got = DOMAIN Nothing /\ th[t].got.st \in {"FIRST", "BODY"}
      /\ th[t].got.st = "BODY" => LineOf(th[t].got.line, pool[i].cert)
  BY <1>1, <1>2 DEF ThreadInv, InEntry, Looking
<1>4. i # 0 /\ locked_by[i] = t /\ c \in Conns /\ c # 0 /\ net[c].cl /\ th[t].px # c
  <2>1. i # 0
    BY <1>3 DEF Idx
  <2> QED BY <1>1, <1>2, <1>3, <2>1, Distinct DEF RunInv, LockInv
<1>5. /\ NetInv /\ DOMAIN net = Conns /\ DOMAIN net[c] = DOMAIN NoConn /\ IsSeq(net[c].down) /\ IsSeq(net[c].up)
      /\ SlavesInv /\ net[c].sv \in {"queued", "open", "closed"}
  BY <1>1, <1>4 DEF RunInv, NetInv
<1>6. EntryInv(i) /\ pool[i].used \in Nat /\ DOMAIN pool[i] = DOMAIN NoEntry /\ DOMAIN pool = Idx
  BY <1>1, <1>3 DEF RunInv, UsedInv, EntryInv
<1>7. Want(i) = th[t].got.st
  BY <1>4 DEF Want
<1>8. CASE /\ net[c].down # <<>>
           /\ LET r == http_recv(th[t].got, pool[i].buf, net[c].down)
              IN  IF r.got.st = "DONE" THEN GotAnswer(t, r)
                  ELSE /\ th' = [th EXCEPT ![t].got = r.got]
                       /\ pool' = [pool EXCEPT ![i].buf = r.buf]
                       /\ UNCHANGED locked_by
           /\ net' = read_down(net, c)
           /\ UNCHANGED bud
  <2>1. PICK r : r = http_recv(th[t].got, pool[i].buf, net[c].down)
    OBVIOUS
  <2>2. /\ IsSeq(pool[i].buf) /\ IsSeq(net[c].down) /\ Len(net[c].down) > 0
        /\ Stream(th[t].got.st, pool[i].buf \o net[c].down, pool[i].cert)
    <3>1. IsSeq(pool[i].buf) /\ Stream(th[t].got.st, pool[i].buf \o net[c].down, pool[i].cert)
      BY <1>2, <1>3, <1>6, <1>7 DEF EntryInv, Stream
    <3> QED BY <1>5, <1>8, <3>1, IsSeqEmpty
  <2>3. /\ DOMAIN r.got = DOMAIN Nothing /\ r.got.st \in {"FIRST", "BODY", "DONE"}
        /\ r.got.st # "FIRST" => LineOf(r.got.line, pool[i].cert)
        /\ IsSeq(r.buf)
        /\ \A e : IsSeq(e) /\ Stream(th[t].got.st, (pool[i].buf \o net[c].down) \o e, pool[i].cert)
                    => Stream(IF r.got.st = "BODY" THEN "BODY" ELSE "FIRST", r.buf \o e, pool[i].cert)
    <3>1. PICK got, buf, read, u : got = th[t].got /\ buf = pool[i].buf /\ read = net[c].down /\ u = pool[i].cert
      OBVIOUS
    <3>2. /\ DOMAIN got = DOMAIN Nothing /\ got.st \in {"FIRST", "BODY"}
          /\ got.st = "BODY" => LineOf(got.line, u)
          /\ IsSeq(buf) /\ IsSeq(read) /\ Len(read) > 0 /\ Stream(got.st, buf \o read, u)
          /\ r = http_recv(got, buf, read)
      BY <1>3, <2>1, <2>2, <3>1
    <3>3. /\ DOMAIN r.got = DOMAIN Nothing /\ r.got.st \in {"FIRST", "BODY", "DONE"}
          /\ r.got.st # "FIRST" => LineOf(r.got.line, u)
          /\ IsSeq(r.buf)
          /\ \A e : IsSeq(e) /\ Stream(got.st, (buf \o read) \o e, u)
                      => Stream(IF r.got.st = "BODY" THEN "BODY" ELSE "FIRST", r.buf \o e, u)
      BY ONLY <3>2, Received
    <3> QED BY ONLY <3>1, <3>3
  <2>4. /\ DOMAIN net' = Conns /\ \A d \in Conns \ {c} : net'[d] = net[d]
        /\ DOMAIN net'[c] = DOMAIN NoConn /\ net'[c].up = net[c].up /\ net'[c].down = <<>>
        /\ net'[c].peer = net[c].peer /\ net'[c].as = net[c].as /\ net'[c].sv = net[c].sv /\ net'[c].cl = net[c].cl
    <3>1. DOMAIN net' = Conns /\ (\A d \in Conns \ {c} : net'[d] = net[d]) /\ net'[c] = [net[c] EXCEPT !.down = <<>>]
      BY <1>4, <1>5, <1>8 DEF read_down
    <3> QED BY <1>5, <3>1, Records
  <2>5. Shaped(c)
    BY <1>5, <2>4, EmptyIsSeq DEF Shaped
  <2>6. BudInv' /\ Idx' = Idx /\ \A u : Cert(u)' = Cert(u)
    BY <1>1, <1>8, BudgetKept
  <2>7. i \in Idx \cup {0} /\ c \in Conns \cup {0}
    BY <1>3, <1>4
  \* What the two outcomes have in common.
  <2>8. ASSUME DOMAIN pool' = Idx, \A k \in Idx \ {i} : pool'[k] = pool[k],
               DOMAIN pool'[i] = DOMAIN NoEntry, pool'[i].peer = pool[i].peer, pool'[i].cred = pool[i].cred,
               pool'[i].cert = pool[i].cert, pool'[i].gss = pool[i].gss, pool'[i].buf = r.buf, pool'[i].used \in Nat,
               DOMAIN th' = Threads, \A u \in Threads \ {t} : th'[u] = th[u],
               th'[t].idx \in {0, i}, th'[t].conn = 0, th'[t].px = th[t].px,
               DOMAIN locked_by' = Idx, \A k \in Idx \ {i} : locked_by'[k] = locked_by[k],
               IF th'[t].idx = i THEN locked_by'[i] = t ELSE locked_by'[i] = None,
               Want(i)' = (IF r.got.st = "BODY" THEN "BODY" ELSE "FIRST"), ThreadInv(t)', AnsweredTo(t)'
        PROVE  AsInv'
    <3>1. Touches(t, i, c)
      BY <2>4, <2>6, <2>8 DEF Touches
    <3>2. Rightly(t, i, c)
      BY <1>2, <1>4, <2>8 DEF Rightly
    <3>3. Locking(t, i)
      BY <2>8, PoolAssumption DEF Locking
    <3>4. Holding(t, i, c)
      BY <1>2, <1>4, <2>4, <2>8 DEF Holding
    <3>5. AuthInv(t)'
      BY <2>8 DEF AuthInv
    <3>6. EntryInv(i)'
      <4>1. \A e : IsSeq(e) /\ Stream(Want(i), (pool[i].buf \o net[c].down) \o e, pool[i].cert)
                  => Stream(Want(i)', r.buf \o e, pool[i].cert)
        BY <1>7, <2>3, <2>8
      <4>2. DOMAIN pool'[i] = DOMAIN pool[i] /\ pool'[i].gss = c
        BY <1>2, <1>6, <2>8
      <4> QED BY <1>2, <1>3, <1>4, <1>5, <1>6, <2>3, <2>4, <2>8, <4>1, <4>2, EntryRead
    <3> QED BY <1>1, <2>5, <2>6, <2>7, <2>8, <3>1, <3>2, <3>3, <3>4, <3>5, <3>6, Finish
  <2>9. CASE r.got.st = "DONE"
    <3>1. /\ th' = [th EXCEPT ![t].pc = "ret", ![t].idx = 0, ![t].ans = [r.got.line EXCEPT !.body = r.got.body.id]]
          /\ pool' = [pool EXCEPT ![i].buf = r.buf, ![i].used = 1 + Max({pool[k].used : k \in Idx})]
          /\ locked_by' = [locked_by EXCEPT ![i] = None]
      BY <1>2, <1>8, <2>1, <2>9 DEF GotAnswer
    <3>2. 1 + Max({pool[k].used : k \in Idx}) \in Nat
      <4> DEFINE S == {pool[k].used : k \in Idx}
      <4>1. PICK b \in Nat : \A k \in Idx : pool[k].used \in 0..b
        BY <1>1 DEF RunInv, UsedInv
      <4>2. S \in SUBSET Nat /\ S # {} /\ \A y \in S : y <= b
        BY <1>3, <4>1
      <4>3. Max(S) \in S
        BY <4>2, MaxProperty
      <4>4. Max(S) \in Nat
        BY <4>2, <4>3
      <4> HIDE DEF S
      <4>5. 1 + Max(S) \in Nat
        BY <4>4
      <4> QED BY <4>5 DEF S
    <3>3. PICK m \in Nat : m = 1 + Max({pool[k].used : k \in Idx})
      BY <3>2
    <3>4. /\ DOMAIN pool' = Idx /\ \A k \in Idx \ {i} : pool'[k] = pool[k]
          /\ DOMAIN pool'[i] = DOMAIN NoEntry /\ pool'[i].peer = pool[i].peer /\ pool'[i].cred = pool[i].cred
          /\ pool'[i].cert = pool[i].cert /\ pool'[i].gss = pool[i].gss /\ pool'[i].buf = r.buf
          /\ pool'[i].used \in Nat
      <4>1. pool' = [pool EXCEPT ![i].buf = r.buf, ![i].used = m]
        BY <3>1, <3>3
      <4> QED BY ONLY <1>3, <1>6, <3>3, <4>1, Records
    <3>5. /\ DOMAIN th' = Threads /\ \A u \in Threads \ {t} : th'[u] = th[u]
          /\ DOMAIN th'[t] = DOMAIN NewThread /\ th'[t].pc = "ret"
          /\ th'[t].srv = th[t].srv /\ th'[t].px = th[t].px /\ th'[t].idx = 0 /\ th'[t].conn = 0
          /\ th'[t].ans = [r.got.line EXCEPT !.body = r.got.body.id]
      BY <1>1, <1>3, <3>1, Records
    <3>6. DOMAIN locked_by' = Idx /\ locked_by'[i] = None /\ \A k \in Idx \ {i} : locked_by'[k] = locked_by[k]
      BY <1>1, <1>3, <3>1 DEF RunInv, LockInv
    <3>7. th'[t].ans.user = pool[i].cert
      BY <2>3, <2>9, <3>5 DEF LineOf
    <3>8. AnsweredTo(t)'
      BY <1>3, <2>6, <3>7 DEF AnsweredTo
    <3>9. ThreadInv(t)'
      BY <1>1, <3>5, <2>6 DEF ThreadInv, InEntry, Looking, OnProxy
    <3>10. Want(i)' = (IF r.got.st = "BODY" THEN "BODY" ELSE "FIRST")
      BY <2>9, <3>6, PoolAssumption DEF Want
    <3>11. th'[t].idx \in {0, i} /\ IF th'[t].idx = i THEN locked_by'[i] = t ELSE locked_by'[i] = None
      BY <1>4, <3>5, <3>6
    <3> QED BY <2>8, <3>4, <3>5, <3>6, <3>8, <3>9, <3>10, <3>11
  <2>10. CASE r.got.st # "DONE"
    <3>1. th' = [th EXCEPT ![t].got = r.got] /\ pool' = [pool EXCEPT ![i].buf = r.buf] /\ UNCHANGED locked_by
      BY <1>8, <2>1, <2>10
    <3>2. /\ DOMAIN pool' = Idx /\ \A k \in Idx \ {i} : pool'[k] = pool[k]
          /\ DOMAIN pool'[i] = DOMAIN NoEntry /\ pool'[i].peer = pool[i].peer /\ pool'[i].cred = pool[i].cred
          /\ pool'[i].cert = pool[i].cert /\ pool'[i].gss = pool[i].gss /\ pool'[i].buf = r.buf
          /\ pool'[i].used \in Nat
      BY <1>3, <1>6, <3>1, Records
    <3>3. /\ DOMAIN th' = Threads /\ \A u \in Threads \ {t} : th'[u] = th[u]
          /\ DOMAIN th'[t] = DOMAIN NewThread /\ th'[t].pc = "recv"
          /\ th'[t].srv = th[t].srv /\ th'[t].px = th[t].px /\ th'[t].idx = i /\ th'[t].conn = 0
          /\ th'[t].ans = NoAns /\ th'[t].got = r.got
      BY <1>1, <1>2, <1>3, <3>1, Records
    <3>4. DOMAIN locked_by' = Idx /\ locked_by'[i] = t /\ \A k \in Idx \ {i} : locked_by'[k] = locked_by[k]
      BY <1>1, <1>4, <3>1 DEF RunInv, LockInv
    <3>5. AnsweredTo(t)'
      BY <3>3 DEF AnsweredTo, HasAnswer
    <3>6. ThreadInv(t)'
      BY <1>1, <1>3, <2>3, <2>6, <2>10, <3>2, <3>3 DEF ThreadInv, InEntry, Looking, OnProxy
    <3>7. Want(i)' = (IF r.got.st = "BODY" THEN "BODY" ELSE "FIRST")
      BY <2>3, <2>10, <3>3, <3>4 DEF Want
    <3>8. th'[t].idx \in {0, i} /\ IF th'[t].idx = i THEN locked_by'[i] = t ELSE locked_by'[i] = None
      BY <3>3, <3>4
    <3> QED BY <2>8, <3>2, <3>3, <3>4, <3>5, <3>6, <3>7, <3>8
  <2> QED BY <2>9, <2>10
\* The answer does not come.
<1>9. ASSUME NEW nx \in {"ret", "lock"}, NEW err, NEW st,
             \/ th' = [th EXCEPT ![t].pc = "close", ![t].next = nx, ![t].stage = st]
             \/ th' = [th EXCEPT ![t].pc = "close", ![t].next = nx, ![t].err = err],
             UNCHANGED bud \/ Spend("slow"), UNCHANGED <<net, pool, locked_by>>
      PROVE  AsInv'
  <2>1. /\ DOMAIN th' = Threads /\ \A u \in Threads \ {t} : th'[u] = th[u]
        /\ DOMAIN th'[t] = DOMAIN NewThread /\ th'[t].pc = "close" /\ th'[t].next \in {"ret", "lock"}
        /\ th'[t].srv = th[t].srv /\ th'[t].px = th[t].px /\ th'[t].idx = th[t].idx
        /\ th'[t].conn = 0 /\ th'[t].ans = th[t].ans /\ th'[t].got = th[t].got
    BY <1>1, <1>3, <1>9, Records
  <2>2. th[t].pc \in InEntry /\ th[t].pc \notin {"auth", "closed"}
    BY <1>1 DEF InEntry
  <2> QED BY <1>1, <1>9, <2>1, <2>2, GivesUp
<1>10. CASE /\ IF th[t].stage < 3
               THEN th' = [th EXCEPT ![t].pc = "close", ![t].next = "lock", ![t].stage = 3]
               ELSE GiveUp(t, "ret", "ENOTCONN")
            /\ UNCHANGED <<net, pool, locked_by, bud>>
  BY <1>9, <1>10 DEF GiveUp
<1>11. CASE /\ (Quiet(c) /\ UNCHANGED bud) \/ Spend("slow")
            /\ GiveUp(t, "ret", "ETIMEDOUT")
            /\ UNCHANGED <<net, pool, locked_by>>
  BY <1>9, <1>11 DEF GiveUp
<1> QED BY <1>2, <1>8, <1>10, <1>11 DEF http_send_recv

\* A thread and its own connection to the proxy.
AtProxy(t, c) ==
  /\ Spends /\ sl' = sl /\ UNCHANGED <<pool, locked_by>>
  /\ net[c] = NoConn \/ c = th[t].px
  /\ DOMAIN net' = Conns /\ (\A d \in Conns \ {c} : net'[d] = net[d]) /\ Shaped(c)
  /\ DOMAIN th' = Threads /\ (\A u \in Threads \ {t} : th'[u] = th[u])
  /\ DOMAIN th'[t] = DOMAIN NewThread /\ th'[t].pc \in OnProxy \cup {"ret"}
  /\ th'[t].idx = th[t].idx /\ th'[t].conn = th[t].conn /\ th'[t].srv = th[t].srv /\ th'[t].call = th[t].call
  /\ th'[t].px = 0 \/ (th'[t].px = c /\ net'[c].cl)
  /\ th'[t].pc # "ret" => th'[t].ans = NoAns
  /\ th'[t].pc \in {"psend", "precv"} => th'[t].px # 0

LEMMA ProxySide ==
  ASSUME AsInv, RunInv, NEW t \in Threads, th[t].pc \in OnProxy, NEW c \in Conns, AtProxy(t, c)
  PROVE  AsInv'
<1>1. /\ th[t].idx = 0 /\ th[t].conn = 0 /\ th[t].call.proxy
      /\ th[t].srv \in (Servers \ {Proxy}) \cup {None}
  BY DEF RunInv, ThreadInv, OnProxy, InEntry
<1>2. BudInv' /\ Idx' = Idx /\ \A u : Cert(u)' = Cert(u)
  BY SpendsKept DEF AsInv, AtProxy
<1>3. PICK i : i = 0
  OBVIOUS
<1>4. c # 0 /\ i \in Idx \cup {0} /\ c \in Conns \cup {0}
  BY <1>3, AddressAssumption
<1>5. Touches(t, i, c)
  BY <1>2 DEF Touches, RunInv, LockInv, AtProxy
<1>6. Rightly(t, i, c)
  BY <1>1, <1>3 DEF Rightly, AtProxy
<1>7. Holding(t, i, c)
  BY <1>1, <1>3, <1>4 DEF Holding, AtProxy
<1>8. Locking(t, i) /\ Shaped(c)
  BY <1>3 DEF Locking, AtProxy
<1>9. ThreadInv(t)'
  BY <1>1 DEF ThreadInv, AtProxy, OnProxy, InEntry, Looking
<1>10. AuthInv(t)' /\ AnsweredTo(t)'
  BY <1>1 DEF AuthInv, AnsweredTo, AtProxy
<1> QED BY <1>2, <1>3, <1>4, <1>5, <1>6, <1>7, <1>8, <1>9, <1>10, Finish

\* What happens at a connection that the client keeps.
LEMMA KeptOpen ==
  ASSUME NetInv, NEW c \in Conns,
         \/ net' = net
         \/ net' = read_down(net, c)
         \/ \E x : net' = write_up(net, c, x)
         \/ \E x : net' = [net EXCEPT ![c].clean = x]
  PROVE  /\ DOMAIN net' = Conns /\ \A d \in Conns \ {c} : net'[d] = net[d]
         /\ Shaped(c) /\ net'[c].cl = net[c].cl
<1>1. /\ DOMAIN net = Conns /\ DOMAIN net[c] = DOMAIN NoConn /\ net[c].sv \in {"queued", "open", "closed"}
      /\ IsSeq(net[c].up) /\ IsSeq(net[c].down)
  BY DEF NetInv
<1>2. CASE net' = net
  BY <1>1, <1>2 DEF Shaped
<1>3. CASE net' = read_down(net, c)
  <2>1. DOMAIN net' = Conns /\ (\A d \in Conns \ {c} : net'[d] = net[d]) /\ net'[c] = [net[c] EXCEPT !.down = <<>>]
    BY <1>1, <1>3 DEF read_down
  <2>2. /\ DOMAIN net'[c] = DOMAIN NoConn /\ net'[c].up = net[c].up /\ net'[c].down = <<>>
        /\ net'[c].peer = net[c].peer /\ net'[c].sv = net[c].sv /\ net'[c].cl = net[c].cl
    BY <1>1, <2>1, Records
  <2> QED BY <1>1, <2>1, <2>2, EmptyIsSeq DEF Shaped
<1>4. CASE \E x : net' = write_up(net, c, x) /\ net[c].sv # "closed"
  <2>1. PICK x : net' = write_up(net, c, x) /\ net[c].sv # "closed"
    BY <1>4
  <2>2. DOMAIN net' = Conns /\ (\A d \in Conns \ {c} : net'[d] = net[d])
        /\ net'[c] = [net[c] EXCEPT !.up = Append(net[c].up, x)]
    BY <1>1, <2>1 DEF write_up
  <2>3. IsSeq(Append(net[c].up, x))
    BY <1>1, IsSeqAppend
  <2>4. /\ DOMAIN net'[c] = DOMAIN NoConn /\ IsSeq(net'[c].up) /\ net'[c].down = net[c].down
        /\ net'[c].peer = net[c].peer /\ net'[c].sv = net[c].sv /\ net'[c].cl = net[c].cl
    BY <1>1, <2>2, <2>3, Records
  <2> QED BY <1>1, <2>2, <2>4 DEF Shaped
<1>5. CASE \E x : net' = [net EXCEPT ![c].clean = x]
  <2>1. PICK x : net' = [net EXCEPT ![c].clean = x]
    BY <1>5
  <2>2. /\ DOMAIN net' = Conns /\ \A d \in Conns \ {c} : net'[d] = net[d]
        /\ DOMAIN net'[c] = DOMAIN NoConn /\ net'[c].up = net[c].up /\ net'[c].down = net[c].down
        /\ net'[c].peer = net[c].peer /\ net'[c].sv = net[c].sv /\ net'[c].cl = net[c].cl
    BY <1>1, <2>1, Records
  <2> QED BY <1>1, <2>2 DEF Shaped
<1>6. (\E x : net' = write_up(net, c, x)) => net' = net \/ \E x : net' = write_up(net, c, x) /\ net[c].sv # "closed"
  BY DEF write_up
<1> QED BY <1>2, <1>3, <1>4, <1>5, <1>6

LEMMA OpenProxyStep ==
  ASSUME AsInv, NEW t \in Threads, edg_wll_open_proxy(t), sl' = sl
  PROVE  AsInv'
<1>1. /\ BudInv /\ RunInv /\ th[t].pc = "popen" /\ DOMAIN th = Threads /\ DOMAIN th[t] = DOMAIN NewThread
      /\ ThreadInv(t) /\ AuthInv(t)
  BY Begin DEF edg_wll_open_proxy
<1>2. /\ th[t].idx = 0 /\ th[t].conn = 0 /\ th[t].ans = NoAns /\ th[t].pc \in OnProxy
      /\ NetInv /\ UNCHANGED <<pool, locked_by>>
  BY <1>1 DEF ThreadInv, InEntry, OnProxy, RunInv, edg_wll_open_proxy
<1>3. CASE /\ th[t].px # 0
           /\ net' = [net EXCEPT ![th[t].px].clean = th[t].px = 0 /\ th[t].pbuf = <<>>]
           /\ th' = [th EXCEPT ![t].pc = "psend"]
           /\ UNCHANGED bud
  <2>1. PICK c : c = th[t].px
    OBVIOUS
  <2>2. c \in Conns /\ net[c].cl
    BY <1>1, <1>3, <2>1, Distinct
  <2>3. /\ DOMAIN net' = Conns /\ \A d \in Conns \ {c} : net'[d] = net[d]
        /\ Shaped(c) /\ net'[c].cl = net[c].cl
    <3>1. \E x : net' = [net EXCEPT ![c].clean = x]
      BY <1>3, <2>1
    <3> QED BY <1>2, <2>2, <3>1, KeptOpen
  <2>4. /\ DOMAIN th' = Threads /\ \A u \in Threads \ {t} : th'[u] = th[u]
        /\ DOMAIN th'[t] = DOMAIN NewThread /\ th'[t].pc = "psend"
        /\ th'[t].srv = th[t].srv /\ th'[t].px = th[t].px /\ th'[t].idx = th[t].idx
        /\ th'[t].conn = th[t].conn /\ th'[t].ans = th[t].ans /\ th'[t].call = th[t].call
    BY <1>1, <1>3, Records
  <2>5. AtProxy(t, c)
    BY <1>2, <1>3, <2>1, <2>2, <2>3, <2>4 DEF AtProxy, Spends, OnProxy
  <2> QED BY <1>1, <1>2, <2>2, <2>5, ProxySide
<1>4. CASE /\ th[t].px = 0 /\ FreeConns(net) # {}
           /\ net' = [plain_connect(net, AConn(net), Proxy) EXCEPT ![AConn(net)].clean = th[t].px = 0 /\ th[t].pbuf = <<>>]
           /\ th' = [th EXCEPT ![t].pc = "psend", ![t].px = AConn(net)]
           /\ UNCHANGED bud
  <2>1. PICK c : c = AConn(net)
    OBVIOUS
  <2>2. c \in Conns /\ net[c] = NoConn /\ c # 0
    BY <1>4, <2>1, AConnFree, AddressAssumption
  <2>3. DOMAIN net = Conns
    BY <1>2 DEF NetInv
  <2>4. PICK x : x = (th[t].px = 0 /\ th[t].pbuf = <<>>)
    OBVIOUS
  <2>5. /\ DOMAIN net' = Conns /\ \A d \in Conns \ {c} : net'[d] = net[d]
        /\ net'[c] = [NoConn EXCEPT !.peer = Proxy, !.cl = TRUE, !.sv = "queued", !.clean = x]
    <3>1. net' = [plain_connect(net, c, Proxy) EXCEPT ![c].clean = x]
      BY <1>4, <2>1, <2>4
    <3> QED BY ONLY <2>2, <2>3, <3>1 DEF plain_connect, NoConn
  <2>6. /\ DOMAIN net'[c] = DOMAIN NoConn /\ net'[c].cl /\ net'[c].sv = "queued"
        /\ net'[c].up = <<>> /\ net'[c].down = <<>>
    BY <2>5 DEF NoConn
  <2>7. Shaped(c)
    <3>1. net[c].sv = "closed"
      BY <2>2 DEF NoConn
    <3> QED BY <2>6, <3>1, EmptyIsSeq DEF Shaped
  <2>8. /\ DOMAIN th' = Threads /\ \A u \in Threads \ {t} : th'[u] = th[u]
        /\ DOMAIN th'[t] = DOMAIN NewThread /\ th'[t].pc = "psend"
        /\ th'[t].srv = th[t].srv /\ th'[t].px = c /\ th'[t].idx = th[t].idx
        /\ th'[t].conn = th[t].conn /\ th'[t].ans = th[t].ans /\ th'[t].call = th[t].call
    BY <1>1, <1>4, <2>1, Records
  <2>9. AtProxy(t, c)
    BY <1>2, <1>4, <2>2, <2>5, <2>6, <2>7, <2>8 DEF AtProxy, Spends, OnProxy
  <2> QED BY <1>1, <1>2, <2>2, <2>9, ProxySide
<1>5. CASE /\ th[t].px = 0 /\ Spend("faults")
           /\ \E err \in {"ETIMEDOUT", "ECONNREFUSED"} : ProxyEnds(t, err)
           /\ UNCHANGED net
  <2>1. /\ DOMAIN th' = Threads /\ \A u \in Threads \ {t} : th'[u] = th[u]
        /\ DOMAIN th'[t] = DOMAIN NewThread /\ th'[t].pc = "ret"
        /\ th'[t].srv = th[t].srv /\ th'[t].px = 0 /\ th'[t].idx = th[t].idx
        /\ th'[t].conn = th[t].conn /\ th'[t].ans = th[t].ans /\ th'[t].got = th[t].got
    BY <1>1, <1>5, Records DEF ProxyEnds
  <2>2. Cert(t)' = Cert(t) /\ Idx' = Idx => ThreadInv(t)'
    BY <1>1, <1>2, <2>1 DEF ThreadInv, InEntry, Looking, OnProxy
  <2> QED BY <1>1, <1>2, <1>5, <2>1, <2>2, ThreadOnly
<1> QED BY <1>3, <1>4, <1>5 DEF edg_wll_open_proxy

\* The connection is closed or kept, and the thread goes on.
LEMMA ProxyGoesOn ==
  ASSUME AsInv, RunInv, NEW t \in Threads, th[t].pc \in {"psend", "precv"}, Spends, sl' = sl,
         UNCHANGED <<pool, locked_by>>,
         DOMAIN th' = Threads, \A u \in Threads \ {t} : th'[u] = th[u],
         DOMAIN th'[t] = DOMAIN NewThread, th'[t].pc \in OnProxy \cup {"ret"},
         th'[t].srv = th[t].srv, th'[t].idx = th[t].idx, th'[t].conn = th[t].conn, th'[t].call = th[t].call,
         th'[t].pc # "ret" => th'[t].ans = NoAns,
         \/ net' = edg_wll_gss_close(net, th[t].px) /\ th'[t].px = 0 /\ th'[t].pc \in {"popen", "ret"}
         \/ /\ th'[t].px = th[t].px
            /\ \/ net' = net
               \/ net' = read_down(net, th[t].px)
               \/ \E x : net' = write_up(net, th[t].px, x)
  PROVE  AsInv'
<1>1. PICK c : c = th[t].px
  OBVIOUS
<1>2. c \in Conns /\ net[c].cl /\ c # 0 /\ th[t].pc \in OnProxy
  <2>1. th[t].px # 0
    BY DEF RunInv, ThreadInv
  <2> QED BY <1>1, <2>1, Distinct DEF OnProxy
<1>3. NetInv
  BY DEF RunInv
<1>4. CASE net' = edg_wll_gss_close(net, c) /\ th'[t].px = 0 /\ th'[t].pc \in {"popen", "ret"}
  <2>1. /\ DOMAIN net' = Conns /\ \A d \in Conns \ {c} : net'[d] = net[d]
        /\ Shaped(c)
    BY <1>2, <1>3, <1>4, GssClosed
  <2>2. AtProxy(t, c)
    BY <1>1, <1>4, <2>1 DEF AtProxy
  <2> QED BY <1>2, <2>2, ProxySide
<1>5. CASE /\ th'[t].px = c
           /\ \/ net' = net
              \/ net' = read_down(net, c)
              \/ \E x : net' = write_up(net, c, x)
  <2>1. /\ DOMAIN net' = Conns /\ \A d \in Conns \ {c} : net'[d] = net[d]
        /\ Shaped(c) /\ net'[c].cl = net[c].cl
    BY <1>2, <1>3, <1>5, KeptOpen
  <2>2. AtProxy(t, c)
    BY <1>1, <1>2, <1>5, <2>1 DEF AtProxy
  <2> QED BY <1>2, <2>2, ProxySide
<1> QED BY <1>1, <1>4, <1>5

LEMMA SendProxyStep ==
  ASSUME AsInv, NEW t \in Threads, http_send_proxy(t), sl' = sl
  PROVE  AsInv'
<1>1. /\ BudInv /\ RunInv /\ th[t].pc = "psend" /\ DOMAIN th = Threads /\ DOMAIN th[t] = DOMAIN NewThread
      /\ ThreadInv(t) /\ AuthInv(t)
  BY Begin DEF http_send_proxy
<1>2. th[t].ans = NoAns /\ UNCHANGED <<pool, locked_by>>
  BY <1>1 DEF ThreadInv, http_send_proxy
<1>3. PICK c : c = th[t].px
  OBVIOUS
<1>4. ASSUME NEW n, NEW x, NEW pc \in {"psend", "precv"}, th' = [th EXCEPT ![t].sent = n, ![t].pc = pc],
             net' = write_up(net, c, x), UNCHANGED bud
      PROVE  AsInv'
  <2>1. /\ DOMAIN th' = Threads /\ \A u \in Threads \ {t} : th'[u] = th[u]
        /\ DOMAIN th'[t] = DOMAIN NewThread /\ th'[t].pc \in OnProxy \cup {"ret"}
        /\ th'[t].srv = th[t].srv /\ th'[t].px = th[t].px /\ th'[t].idx = th[t].idx
        /\ th'[t].conn = th[t].conn /\ th'[t].ans = th[t].ans /\ th'[t].call = th[t].call
    BY <1>1, <1>4, Records DEF OnProxy
  <2>2. \E y : net' = write_up(net, th[t].px, y)
    BY <1>3, <1>4
  <2>3. Spends /\ th[t].pc \in {"psend", "precv"}
    BY <1>1, <1>4 DEF Spends
  <2> QED BY <1>1, <1>2, <2>1, <2>2, <2>3, ProxyGoesOn
<1>5. ASSUME net' = edg_wll_gss_close(net, c), Reopen(t, 2), UNCHANGED bud
      PROVE  AsInv'
  <2>1. /\ DOMAIN th' = Threads /\ \A u \in Threads \ {t} : th'[u] = th[u]
        /\ DOMAIN th'[t] = DOMAIN NewThread /\ th'[t].pc = "popen"
        /\ th'[t].srv = th[t].srv /\ th'[t].px = 0 /\ th'[t].idx = th[t].idx
        /\ th'[t].conn = th[t].conn /\ th'[t].ans = th[t].ans /\ th'[t].call = th[t].call
    BY <1>1, <1>5, Records DEF Reopen
  <2>2. Spends /\ th[t].pc \in {"psend", "precv"} /\ th'[t].pc \in OnProxy \cup {"ret"}
    BY <1>1, <1>5, <2>1 DEF Spends, OnProxy
  <2>3. net' = edg_wll_gss_close(net, th[t].px) /\ th'[t].px = 0 /\ th'[t].pc \in {"popen", "ret"}
    BY <1>3, <1>5, <2>1
  <2> QED BY <1>1, <1>2, <2>1, <2>2, <2>3, ProxyGoesOn
<1>6. ASSUME NEW err, ProxySendFails(t, err), net' = IF th[t].stage = 3 THEN edg_wll_gss_close(net, c) ELSE net,
             UNCHANGED bud \/ Spend("slow")
      PROVE  AsInv'
  <2>1. Spends /\ th[t].pc \in {"psend", "precv"}
    BY <1>1, <1>6 DEF Spends
  <2>2. CASE th[t].stage = 3
    <3>1. /\ DOMAIN th' = Threads /\ \A u \in Threads \ {t} : th'[u] = th[u]
          /\ DOMAIN th'[t] = DOMAIN NewThread /\ th'[t].pc = "ret"
          /\ th'[t].srv = th[t].srv /\ th'[t].px = 0 /\ th'[t].idx = th[t].idx
          /\ th'[t].conn = th[t].conn /\ th'[t].ans = th[t].ans /\ th'[t].call = th[t].call
      BY <1>1, <1>6, <2>2, Records DEF ProxySendFails, ProxyEnds
    <3>2. net' = edg_wll_gss_close(net, th[t].px) /\ th'[t].px = 0 /\ th'[t].pc \in {"popen", "ret"}
      BY <1>3, <1>6, <2>2, <3>1
    <3> QED BY <1>1, <1>2, <2>1, <3>1, <3>2, ProxyGoesOn
  <2>3. CASE th[t].stage # 3
    <3>1. /\ DOMAIN th' = Threads /\ \A u \in Threads \ {t} : th'[u] = th[u]
          /\ DOMAIN th'[t] = DOMAIN NewThread /\ th'[t].pc = "ret"
          /\ th'[t].srv = th[t].srv /\ th'[t].px = th[t].px /\ th'[t].idx = th[t].idx
          /\ th'[t].conn = th[t].conn /\ th'[t].ans = th[t].ans /\ th'[t].call = th[t].call
      BY <1>1, <1>6, <2>3, Records DEF ProxySendFails, ProxyReturns
    <3>2. net' = net
      BY <1>6, <2>3
    <3> QED BY <1>1, <1>2, <2>1, <3>1, <3>2, ProxyGoesOn
  <2> QED BY <2>2, <2>3
<1>7. CASE /\ Spend("slow")
           /\ ProxySendFails(t, "ETIMEDOUT")
           /\ net' = IF th[t].stage = 3 THEN edg_wll_gss_close(net, c) ELSE net
  BY <1>6, <1>7
<1>8. ASSUME NEW r,
             CASE r = "ok" -> /\ net' = write_up(net, c, Request(t)[th[t].sent + 1])
                              /\ th' = [th EXCEPT ![t].sent = th[t].sent + 1,
                                          ![t].pc = IF th[t].sent + 1 = Len(Request(t)) THEN "precv" ELSE "psend"]
                              /\ UNCHANGED bud
               [] r = "ENOTCONN" /\ th[t].stage = 1 ->
                              /\ net' = edg_wll_gss_close(net, c)
                              /\ Reopen(t, 2)
                              /\ UNCHANGED bud
               [] OTHER ->    /\ net' = IF th[t].stage = 3 THEN edg_wll_gss_close(net, c) ELSE net
                              /\ ProxySendFails(t, r)
                              /\ UNCHANGED bud
      PROVE  AsInv'
  <2>1. CASE r = "ok"
    <3>1. /\ net' = write_up(net, c, Request(t)[th[t].sent + 1]) /\ UNCHANGED bud
          /\ th' = [th EXCEPT ![t].sent = th[t].sent + 1,
                              ![t].pc = IF th[t].sent + 1 = Len(Request(t)) THEN "precv" ELSE "psend"]
      BY <1>8, <2>1
    <3> QED BY <1>4, <3>1
  <2>2. CASE r = "ENOTCONN" /\ th[t].stage = 1
    BY <1>5, <1>8, <2>2
  <2>3. CASE r # "ok" /\ ~(r = "ENOTCONN" /\ th[t].stage = 1)
    BY <1>6, <1>8, <2>3
  <2> QED BY <2>1, <2>2, <2>3
<1> QED BY <1>3, <1>7, <1>8 DEF http_send_proxy

LEMMA RecvProxyStep ==
  ASSUME AsInv, NEW t \in Threads, http_send_recv_proxy(t), sl' = sl
  PROVE  AsInv'
<1>1. /\ BudInv /\ RunInv /\ th[t].pc = "precv" /\ DOMAIN th = Threads /\ DOMAIN th[t] = DOMAIN NewThread
      /\ ThreadInv(t) /\ AuthInv(t)
  BY Begin DEF http_send_recv_proxy
<1>2. th[t].ans = NoAns /\ UNCHANGED <<pool, locked_by>> /\ th[t].pc \in {"psend", "precv"}
  BY <1>1 DEF ThreadInv, http_send_recv_proxy
<1>3. PICK c : c = th[t].px
  OBVIOUS
<1>4. ASSUME NEW r,
             IF r.got.st = "DONE"
             THEN /\ th' = [th EXCEPT ![t].pc = "ret", ![t].px = 0, ![t].pbuf = r.buf,
                              ![t].ans = [code |-> r.got.line.code, id |-> r.got.line.id,
                                          user |-> r.got.line.user, body |-> r.got.body.id,
                                          clean |-> r.got.line.clean /\ net[c].clean]]
                  /\ net' = edg_wll_gss_close(net, c)
             ELSE /\ th' = [th EXCEPT ![t].got = r.got, ![t].pbuf = r.buf]
                  /\ net' = read_down(net, c),
             UNCHANGED bud
      PROVE  AsInv'
  <2>1. Spends
    BY <1>4 DEF Spends
  <2>2. CASE r.got.st = "DONE"
    <3>1. PICK a : a = [code |-> r.got.line.code, id |-> r.got.line.id,
                        user |-> r.got.line.user, body |-> r.got.body.id,
                        clean |-> r.got.line.clean /\ net[c].clean]
      OBVIOUS
    <3>2. th' = [th EXCEPT ![t].pc = "ret", ![t].px = 0, ![t].pbuf = r.buf, ![t].ans = a]
      BY <1>4, <2>2, <3>1
    <3>3. /\ DOMAIN th' = Threads /\ \A u \in Threads \ {t} : th'[u] = th[u]
          /\ DOMAIN th'[t] = DOMAIN NewThread /\ th'[t].pc = "ret"
          /\ th'[t].srv = th[t].srv /\ th'[t].px = 0 /\ th'[t].idx = th[t].idx
          /\ th'[t].conn = th[t].conn /\ th'[t].call = th[t].call
      BY <1>1, <3>2, Records
    <3>4. net' = edg_wll_gss_close(net, th[t].px) /\ th'[t].px = 0 /\ th'[t].pc \in {"popen", "ret"}
      BY <1>3, <1>4, <2>2, <3>3
    <3> QED BY <1>1, <1>2, <2>1, <3>3, <3>4, ProxyGoesOn
  <2>3. CASE r.got.st # "DONE"
    <3>1. /\ DOMAIN th' = Threads /\ \A u \in Threads \ {t} : th'[u] = th[u]
          /\ DOMAIN th'[t] = DOMAIN NewThread /\ th'[t].pc = "precv"
          /\ th'[t].srv = th[t].srv /\ th'[t].px = th[t].px /\ th'[t].idx = th[t].idx
          /\ th'[t].conn = th[t].conn /\ th'[t].ans = th[t].ans /\ th'[t].call = th[t].call
      BY <1>1, <1>4, <2>3, Records
    <3>2. net' = read_down(net, th[t].px) /\ th'[t].pc \in OnProxy \cup {"ret"}
      BY <1>3, <1>4, <2>3, <3>1 DEF OnProxy
    <3> QED BY <1>1, <1>2, <2>1, <3>1, <3>2, ProxyGoesOn
  <2> QED BY <2>2, <2>3
<1>5. ASSUME NEW err, net' = edg_wll_gss_close(net, c), Reopen(t, 3) \/ ProxyEnds(t, err),
             UNCHANGED bud \/ Spend("slow")
      PROVE  AsInv'
  <2>1. Spends
    BY <1>5 DEF Spends
  <2>2. /\ DOMAIN th' = Threads /\ \A u \in Threads \ {t} : th'[u] = th[u]
        /\ DOMAIN th'[t] = DOMAIN NewThread /\ th'[t].pc \in {"popen", "ret"}
        /\ th'[t].srv = th[t].srv /\ th'[t].px = 0 /\ th'[t].idx = th[t].idx
        /\ th'[t].conn = th[t].conn /\ th'[t].ans = th[t].ans /\ th'[t].call = th[t].call
    <3>1. CASE Reopen(t, 3)
      BY <1>1, <3>1, Records DEF Reopen
    <3>2. CASE ProxyEnds(t, err)
      BY <1>1, <3>2, Records DEF ProxyEnds
    <3> QED BY <1>5, <3>1, <3>2
  <2>3. /\ net' = edg_wll_gss_close(net, th[t].px) /\ th'[t].px = 0 /\ th'[t].pc \in {"popen", "ret"}
        /\ th'[t].pc \in OnProxy \cup {"ret"}
    BY <1>3, <1>5, <2>2 DEF OnProxy
  <2> QED BY <1>1, <1>2, <2>1, <2>2, <2>3, ProxyGoesOn
<1>6. CASE /\ LET r == http_recv_proxy(th[t].got, th[t].pbuf, net[c].down)
              IN  IF r.got.st = "DONE"
                  THEN /\ th' = [th EXCEPT ![t].pc = "ret", ![t].px = 0, ![t].pbuf = r.buf,
                                   ![t].ans = [code |-> r.got.line.code, id |-> r.got.line.id,
                                               user |-> r.got.line.user, body |-> r.got.body.id,
                                               clean |-> r.got.line.clean /\ net[c].clean]]
                       /\ net' = edg_wll_gss_close(net, c)
                  ELSE /\ th' = [th EXCEPT ![t].got = r.got, ![t].pbuf = r.buf]
                       /\ net' = read_down(net, c)
           /\ UNCHANGED bud
  <2>1. PICK r : r = http_recv_proxy(th[t].got, th[t].pbuf, net[c].down)
    OBVIOUS
  <2> QED BY <1>4, <1>6, <2>1
<1>7. CASE /\ net' = edg_wll_gss_close(net, c)
           /\ IF th[t].stage < 3 THEN Reopen(t, 3) ELSE ProxyEnds(t, "ENOTCONN")
           /\ UNCHANGED bud
  BY <1>5, <1>7
<1>8. CASE /\ (Quiet(c) /\ UNCHANGED bud) \/ Spend("slow")
           /\ net' = edg_wll_gss_close(net, c)
           /\ ProxyEnds(t, "ETIMEDOUT")
  BY <1>5, <1>8
<1> QED BY <1>3, <1>6, <1>7, <1>8 DEF http_send_recv_proxy

LEMMA ClientKeepsAs ==
  ASSUME AsInv, NEW t \in Threads, ClientStep(t), UNCHANGED sl
  PROVE  AsInv'
<1>1. sl' = sl
  OBVIOUS
<1> QED BY <1>1, CallStep, ReturnStep, FindStep, ReleaseStep, ReleasedStep, AddStep, AddedStep, CredentialsStep,
           ConnectStep, AuthStep, CloseStep, ClosedStep, SendStep, RecvStep, OpenProxyStep, SendProxyStep,
           RecvProxyStep DEF ClientStep

\* Nothing the invariant speaks of has changed.
LEMMA SameRun ==
  ASSUME RunInv, UNCHANGED <<pool, locked_by, th, net, sl>>, Idx' = Idx, \A u : Cert(u)' = Cert(u)
  PROVE  RunInv'
<1>1. \A t \in Threads : ThreadInv(t)'
  BY DEF ThreadInv, RunInv
<1>2. \A t \in Threads : AuthInv(t)'
  BY DEF AuthInv, RunInv
<1>3. \A i \in Idx : EntryInv(i)'
  BY DEF EntryInv, ServedInv, Want, RunInv
<1>4. LockInv' /\ NetInv' /\ UsedInv'
  BY DEF LockInv, NetInv, UsedInv, RunInv
<1>5. HolderInv'
  <2>1. Holders' = Holders
    BY DEF Holders
  <2>2. \A h : Held(h)' = Held(h)
    BY DEF Held
  <2> QED BY <2>1, <2>2 DEF HolderInv, RunInv
<1>6. SlavesInv'
  BY DEF SlavesInv, SlaveInv, RunInv
<1> QED BY <1>1, <1>2, <1>3, <1>4, <1>5, <1>6 DEF RunInv

LEMMA RenewStep ==
  ASSUME AsInv, Renew, UNCHANGED sl
  PROVE  AsInv'
<1>1. UNCHANGED <<pool, opened, plock, locked_by, th, dead, net, sl>> /\ Spend("renewals")
  BY DEF Renew, clientVars
<1>2. BudInv' /\ Idx' = Idx /\ \A u : Cert(u)' = Cert(u)
  BY <1>1, BudgetKept DEF AsInv
<1>3. AnsweredAs'
  BY <1>1, <1>2 DEF AsInv, AnsweredAs, HasAnswer
<1>4. RunInv => RunInv'
  BY <1>1, <1>2, SameRun
<1> QED BY <1>1, <1>2, <1>3, <1>4 DEF AsInv

-----------------------------------------------------------------------------
(* The steps of a server: slave s changes its own record, and connections   *)
(* of the set W, which no other slave has.                                  *)

LEMMA HeldOpen ==
  ASSUME RunInv
  PROVE  /\ \A t \in Threads : th[t].conn # 0 => th[t].conn \in Conns /\ net[th[t].conn].cl
         /\ \A i \in Idx : pool[i].gss # 0 => pool[i].gss \in Conns /\ net[pool[i].gss].cl
<1>1. HolderInv
  BY DEF RunInv
<1>2. ASSUME NEW t \in Threads PROVE <<"conn", t>> \in Holders /\ Held(<<"conn", t>>) = th[t].conn
  BY DEF Holders, Held
<1>3. ASSUME NEW i \in Idx PROVE <<"pool", i>> \in Holders /\ Held(<<"pool", i>>) = pool[i].gss
  <2>1. <<"pool", i>> \in Holders
    BY DEF Holders
  <2>2. Held(<<"pool", i>>) = pool[i].gss
    BY DEF Held
  <2> QED BY <2>1, <2>2
<1> QED BY <1>1, <1>2, <1>3 DEF HolderInv

ServerAt(s, W) ==
  /\ Spends /\ UNCHANGED <<pool, locked_by, th, dead>>
  /\ DOMAIN sl' = Slaves /\ (\A r \in Slaves \ {s} : sl'[r] = sl[r] /\ sl[r].conn \notin W)
  /\ sl[s].conn \in W \cup {0} /\ sl'[s].conn \in W \cup {0}
  /\ DOMAIN net' = Conns /\ (\A d \in Conns \ W : net'[d] = net[d])
  /\ \A d \in W : /\ DOMAIN net'[d] = DOMAIN NoConn /\ net'[d].sv \in {"queued", "open", "closed"}
                  /\ IsSeq(net'[d].up) /\ IsSeq(net'[d].down)
                  /\ net[d].cl => net'[d].cl

LEMMA ServerKeeps ==
  ASSUME AsInv, RunInv, NEW s \in Slaves, NEW W, W \subseteq Conns, ServerAt(s, W), SlaveInv(s)',
         \A t \in Threads : th[t].conn \in W => AuthInv(t)',
         \A i \in Idx : pool[i].gss \in W => EntryInv(i)'
  PROVE  AsInv'
<1>1. BudInv' /\ Idx' = Idx /\ \A u : Cert(u)' = Cert(u)
  BY SpendsKept DEF AsInv, ServerAt
<1>2. AnsweredAs'
  BY <1>1 DEF AsInv, AnsweredAs, HasAnswer, ServerAt
<1>3. 0 \notin Conns /\ UNCHANGED <<pool, locked_by, th>> /\ NetInv /\ SlavesInv
  BY AddressAssumption DEF ServerAt, RunInv
<1>4. ASSUME NEW t \in Threads PROVE ThreadInv(t)' /\ AuthInv(t)'
  <2>1. ThreadInv(t) /\ AuthInv(t)
    BY DEF RunInv
  <2>2. ThreadInv(t)'
    BY <1>1, <1>3, <2>1 DEF ThreadInv
  <2>3. CASE th[t].conn \notin W
    <3>1. th[t].conn # 0 => /\ net'[th[t].conn] = net[th[t].conn]
                            /\ \A r \in Slaves : sl'[r].conn = th[t].conn => sl'[r] = sl[r]
      BY <2>3, HeldOpen DEF ServerAt
    <3> QED BY <1>3, <2>1, <2>2, <3>1 DEF AuthInv
  <2> QED BY <2>2, <2>3
<1>5. ASSUME NEW i \in Idx PROVE EntryInv(i)'
  <2>1. EntryInv(i) /\ Want(i)' = Want(i)
    BY <1>3 DEF RunInv, Want
  <2>2. CASE pool[i].gss \notin W
    <3>1. pool[i].gss # 0 => /\ net'[pool[i].gss] = net[pool[i].gss]
                             /\ \A r \in Slaves : sl'[r].conn = pool[i].gss => sl'[r] = sl[r]
      BY <2>2, HeldOpen DEF ServerAt
    <3>2. pool'[i] = pool[i]
      BY <1>3
    <3> QED BY <2>1, <3>1, <3>2 DEF EntryInv, ServedInv
  <2> QED BY <2>2
<1>6. LockInv' /\ UsedInv'
  <2>1. LockInv /\ UsedInv
    BY DEF RunInv
  <2> QED BY <1>1, <1>3, <2>1 DEF LockInv, UsedInv
<1>7. NetInv'
  BY <1>3 DEF NetInv, ServerAt
<1>8. HolderInv'
  <2>1. Holders' = Holders /\ HolderInv
    BY <1>1 DEF Holders, RunInv
  <2>2. \A h : Held(h)' = Held(h)
    BY <1>3 DEF Held
  <2>3. \A d \in Conns : net[d].cl => net'[d].cl
    BY DEF ServerAt
  <2> QED BY <2>1, <2>2, <2>3 DEF HolderInv
<1>9. SlavesInv'
  <2>1. ASSUME NEW r \in Slaves \ {s} PROVE SlaveInv(r)'
    <3>1. SlaveInv(r) /\ sl'[r] = sl[r]
      BY <1>3 DEF SlavesInv, ServerAt
    <3>2. sl[r].pc # "free" => net'[sl[r].conn] = net[sl[r].conn]
      BY <3>1 DEF SlaveInv, ServerAt
    <3> QED BY <3>1, <3>2 DEF SlaveInv
  <2>2. ASSUME NEW q \in Slaves, NEW r \in Slaves, sl'[q].conn # 0, sl'[q].conn = sl'[r].conn PROVE q = r
    <3>1. CASE q # s /\ r # s
      BY <1>3, <2>2, <3>1 DEF SlavesInv, ServerAt
    <3>2. CASE q = s \/ r = s
      BY <2>2, <3>2 DEF ServerAt
    <3> QED BY <3>1, <3>2
  <2> QED BY <2>1, <2>2 DEF SlavesInv, ServerAt
<1>10. DOMAIN pool' = Idx /\ DOMAIN th' = Threads
  BY <1>3 DEF RunInv
<1>11. RunInv'
  BY <1>1, <1>4, <1>5, <1>6, <1>7, <1>8, <1>9, <1>10 DEF RunInv
<1> QED BY <1>1, <1>2, <1>11 DEF AsInv

\* A connection that its slave has left.
LEMMA LeftBehind ==
  ASSUME RunInv, NEW a \in Conns, UNCHANGED <<pool, locked_by, th>>,
         net[a].cl => /\ net'[a].as = net[a].as /\ net'[a].peer = net[a].peer /\ net'[a].down = net[a].down
                      /\ net'[a].sv = "closed",
         \A r \in Slaves : sl'[r].conn # a
  PROVE  /\ \A t \in Threads : th[t].conn = a => AuthInv(t)'
         /\ \A i \in Idx : pool[i].gss = a => EntryInv(i)'
<1>1. a # 0
  BY AddressAssumption
<1>2. ASSUME NEW t \in Threads, th[t].conn = a PROVE AuthInv(t)'
  <2>1. AuthInv(t) /\ net[a].cl
    BY <1>1, <1>2, HeldOpen DEF RunInv
  <2> QED BY <1>1, <1>2, <2>1 DEF AuthInv
<1>3. ASSUME NEW i \in Idx, pool[i].gss = a PROVE EntryInv(i)'
  <2>1. EntryInv(i) /\ net[a].cl /\ Want(i)' = Want(i)
    BY <1>1, <1>3, HeldOpen DEF RunInv, Want
  <2> QED BY <1>1, <1>3, <2>1 DEF EntryInv
<1> QED BY <1>2, <1>3

LEMMA ServerClosed ==
  ASSUME NetInv, NEW a \in Conns, NEW n, n = ServerClose(net, a)
  PROVE  /\ DOMAIN n = Conns /\ \A d \in Conns \ {a} : n[d] = net[d]
         /\ DOMAIN n[a] = DOMAIN NoConn /\ n[a].sv = "closed" /\ IsSeq(n[a].up) /\ IsSeq(n[a].down)
         /\ net[a].cl => n[a].cl /\ n[a].as = net[a].as /\ n[a].peer = net[a].peer /\ n[a].down = net[a].down
<1>1. a # 0 /\ DOMAIN net = Conns /\ DOMAIN net[a] = DOMAIN NoConn /\ IsSeq(net[a].down)
  BY AddressAssumption DEF NetInv
<1>2. /\ DOMAIN n = Conns /\ \A d \in Conns \ {a} : n[d] = net[d]
      /\ n[a] = IF ~net[a].cl THEN NoConn ELSE [net[a] EXCEPT !.sv = "closed", !.up = <<>>]
  BY <1>1 DEF ServerClose
<1>3. CASE ~net[a].cl
  <2>1. n[a] = NoConn /\ NoConn.sv = "closed" /\ NoConn.up = <<>> /\ NoConn.down = <<>>
    BY <1>2, <1>3 DEF NoConn
  <2> QED BY <1>2, <1>3, <2>1, EmptyIsSeq
<1>4. CASE net[a].cl
  <2>1. /\ DOMAIN n[a] = DOMAIN NoConn /\ n[a].sv = "closed" /\ n[a].up = <<>> /\ n[a].down = net[a].down
        /\ n[a].cl = net[a].cl /\ n[a].as = net[a].as /\ n[a].peer = net[a].peer
    <3>1. n[a] = [net[a] EXCEPT !.sv = "closed", !.up = <<>>]
      BY <1>2, <1>4
    <3> QED BY ONLY <1>1, <3>1, Records
  <2> QED BY <1>1, <1>2, <1>4, <2>1, EmptyIsSeq
<1> QED BY <1>3, <1>4

\* The slave lets its client go, or ends.
LEMMA Leaves ==
  ASSUME AsInv, RunInv, NEW s \in Slaves, sl[s].pc # "free", Drop(s) \/ Restart(s), Spends,
         UNCHANGED <<pool, locked_by, th, dead>>
  PROVE  AsInv'
<1>1. PICK a : a = sl[s].conn
  OBVIOUS
<1>2. a \in Conns /\ a # 0 /\ NetInv /\ SlavesInv /\ DOMAIN sl = Slaves
  BY <1>1, AddressAssumption DEF RunInv, SlavesInv, SlaveInv
<1>3. net' = ServerClose(net, a)
  BY <1>1 DEF Drop, Restart
<1>4. /\ DOMAIN sl' = Slaves /\ \A r \in Slaves \ {s} : sl'[r] = sl[r]
      /\ DOMAIN sl'[s] = DOMAIN NewSlave /\ sl'[s].pc = "free" /\ sl'[s].conn = 0 /\ sl'[s].out = <<>>
  <2>1. CASE sl' = [sl EXCEPT ![s] = Gone(s)]
    <3>1. PICK b : b = IF IsProxy(s) THEN <<>> ELSE sl[s].buf
      OBVIOUS
    <3>2. sl'[s] = [NewSlave EXCEPT !.buf = b]
      BY <1>2, <2>1, <3>1 DEF Gone
    <3> QED BY <1>2, <2>1, <3>2 DEF NewSlave
  <2>2. CASE sl' = [sl EXCEPT ![s] = NewSlave]
    BY <1>2, <2>2 DEF NewSlave
  <2> QED BY <2>1, <2>2 DEF Drop, Restart
<1>5. /\ DOMAIN net' = Conns /\ \A d \in Conns \ {a} : net'[d] = net[d]
      /\ DOMAIN net'[a] = DOMAIN NoConn /\ net'[a].sv = "closed" /\ IsSeq(net'[a].up) /\ IsSeq(net'[a].down)
      /\ net[a].cl => net'[a].cl /\ net'[a].as = net[a].as /\ net'[a].peer = net[a].peer /\ net'[a].down = net[a].down
  BY <1>2, <1>3, ServerClosed
<1>6. \A r \in Slaves \ {s} : sl[r].conn # a
  BY <1>1, <1>2 DEF SlavesInv
<1>7. ServerAt(s, {a})
  BY <1>1, <1>4, <1>5, <1>6 DEF ServerAt
<1>8. SlaveInv(s)'
  BY <1>4, EmptyIsSeq DEF SlaveInv
<1>9. \A r \in Slaves : sl'[r].conn # a
  BY <1>2, <1>4, <1>6
<1>10. /\ \A t \in Threads : th[t].conn = a => AuthInv(t)'
       /\ \A i \in Idx : pool[i].gss = a => EntryInv(i)'
  BY <1>2, <1>5, <1>9, LeftBehind
<1>11. {a} \subseteq Conns
  BY <1>2
<1> QED BY <1>7, <1>8, <1>10, <1>11, ServerKeeps

LEMMA TakeStep ==
  ASSUME AsInv, RunInv, NEW s \in Slaves, NEW c \in Conns, Take(s, c), UNCHANGED <<pool, locked_by, th, dead>>
  PROVE  AsInv'
<1>1. PICK a, x, y : /\ a = sl[s].conn /\ x = (IF IsProxy(s) THEN <<>> ELSE sl[s].buf)
                     /\ y = (net[c].clean /\ Gone(s).buf = <<>>)
  OBVIOUS
<1>2. /\ NetInv /\ SlavesInv /\ DOMAIN sl = Slaves /\ DOMAIN net = Conns
      /\ net[c].sv = "queued" /\ net[c].peer = SlaveOf[s]
  BY DEF RunInv, SlavesInv, NetInv, Take
<1>3. a # c /\ (a = 0 \/ (a \in Conns /\ a # 0)) /\ (\A r \in Slaves : sl[r].conn # c) /\ c # 0
  BY <1>1, <1>2, AddressAssumption DEF SlavesInv, SlaveInv
<1>4. \A r \in Slaves \ {s} : a # 0 => sl[r].conn # a
  BY <1>1, <1>2 DEF SlavesInv
<1>5. PICK n : n = ServerClose(net, a)
  OBVIOUS
<1>6. /\ DOMAIN n = Conns /\ \A d \in Conns \ {a} : n[d] = net[d]
      /\ a # 0 => /\ DOMAIN n[a] = DOMAIN NoConn /\ n[a].sv = "closed" /\ IsSeq(n[a].up) /\ IsSeq(n[a].down)
                  /\ net[a].cl => n[a].cl /\ n[a].as = net[a].as /\ n[a].peer = net[a].peer /\ n[a].down = net[a].down
  <2>1. CASE a = 0
    BY <1>2, <1>5, <2>1 DEF ServerClose
  <2>2. CASE a # 0
    BY <1>2, <1>3, <1>5, <2>2, ServerClosed
  <2> QED BY <2>1, <2>2
<1>7. n[c] = net[c] /\ DOMAIN net[c] = DOMAIN NoConn /\ IsSeq(net[c].up) /\ IsSeq(net[c].down)
  BY <1>2, <1>3, <1>6 DEF NetInv
<1>8. /\ DOMAIN net' = Conns /\ \A d \in Conns \ {c} : net'[d] = n[d]
      /\ DOMAIN net'[c] = DOMAIN NoConn /\ net'[c].sv = "open" /\ net'[c].up = net[c].up
      /\ net'[c].down = net[c].down /\ net'[c].peer = net[c].peer /\ net'[c].as = net[c].as /\ net'[c].cl = net[c].cl
  <2>1. net' = [n EXCEPT ![c].sv = "open", ![c].clean = y]
    <3>1. net' = [n EXCEPT ![c].sv = "open", ![c].clean = n[c].clean /\ Gone(s).buf = <<>>]
      BY <1>1, <1>5 DEF Take
    <3> QED BY <1>1, <1>7, <3>1
  <2> QED BY ONLY <1>6, <1>7, <2>1, c \in Conns, Records
<1>9. /\ DOMAIN sl' = Slaves /\ \A r \in Slaves \ {s} : sl'[r] = sl[r]
      /\ DOMAIN sl'[s] = DOMAIN NewSlave /\ sl'[s].pc = "accept" /\ sl'[s].conn = c /\ sl'[s].out = <<>> /\ ~sl'[s].in
  <2>1. sl' = [sl EXCEPT ![s] = [[NewSlave EXCEPT !.buf = x] EXCEPT !.conn = c, !.pc = "accept"]]
    BY <1>1 DEF Take, Gone
  <2> QED BY <1>2, <2>1 DEF NewSlave
<1>10. PICK W : W = {c} \cup (IF a = 0 THEN {} ELSE {a})
  OBVIOUS
<1>11. W \subseteq Conns /\ \A d : d \in W <=> d = c \/ (a # 0 /\ d = a)
  BY <1>3, <1>10
<1>12. ServerAt(s, W)
  <2>1. Spends
    BY DEF Take, Spends
  <2>2. \A r \in Slaves \ {s} : sl[r].conn \notin W
    BY <1>3, <1>4, <1>11
  <2>3. ASSUME NEW d \in Conns \ W PROVE net'[d] = net[d]
    <3>1. d # c /\ d # a
      BY <1>11, AddressAssumption
    <3> QED BY <1>6, <1>8, <3>1
  <2>4. ASSUME NEW d \in W
        PROVE  /\ DOMAIN net'[d] = DOMAIN NoConn /\ net'[d].sv \in {"queued", "open", "closed"}
               /\ IsSeq(net'[d].up) /\ IsSeq(net'[d].down)
               /\ net[d].cl => net'[d].cl
    <3>1. CASE d = c
      BY <1>7, <1>8, <3>1
    <3>2. CASE d = a /\ a # 0
      BY <1>3, <1>6, <1>8, <3>2
    <3> QED BY <1>11, <3>1, <3>2
  <2>5. sl[s].conn \in W \cup {0} /\ sl'[s].conn \in W \cup {0}
    BY <1>1, <1>9, <1>11
  <2> QED BY <1>8, <1>9, <2>1, <2>2, <2>3, <2>4, <2>5 DEF ServerAt
<1>13. SlaveInv(s)'
  BY <1>2, <1>8, <1>9, EmptyIsSeq DEF SlaveInv
<1>14. a # 0 => /\ \A t \in Threads : th[t].conn = a => AuthInv(t)'
                /\ \A i \in Idx : pool[i].gss = a => EntryInv(i)'
  <2> SUFFICES ASSUME a # 0
               PROVE  /\ \A t \in Threads : th[t].conn = a => AuthInv(t)'
                      /\ \A i \in Idx : pool[i].gss = a => EntryInv(i)'
    OBVIOUS
  <2>1. a \in Conns /\ net'[a] = n[a] /\ \A r \in Slaves : sl'[r].conn # a
    BY <1>3, <1>4, <1>8, <1>9
  <2> QED BY <1>6, <2>1, LeftBehind
<1>15. ASSUME NEW t \in Threads, th[t].conn = c PROVE AuthInv(t)'
  <2>1. /\ net[c].peer # Proxy /\ net[c].as = pool[th[t].idx].cert
        /\ net[c].up = <<Token>> /\ net[c].down = <<>>
    BY <1>2, <1>3, <1>15 DEF RunInv, AuthInv
  <2>2. \A r \in Slaves : sl'[r].conn = c => r = s
    BY <1>3, <1>9
  <2> QED BY <1>3, <1>8, <1>9, <1>15, <2>1, <2>2 DEF AuthInv
<1>16. \A i \in Idx : pool[i].gss # c
  BY <1>2, <1>3 DEF RunInv, EntryInv
<1>17. /\ \A t \in Threads : th[t].conn \in W => AuthInv(t)'
       /\ \A i \in Idx : pool[i].gss \in W => EntryInv(i)'
  BY <1>11, <1>14, <1>15, <1>16
<1> QED BY <1>11, <1>12, <1>13, <1>17, ServerKeeps

\* The slave goes on with its client.
Serves(s, a) ==
  /\ Spends /\ UNCHANGED <<pool, locked_by, th, dead>>
  /\ DOMAIN sl' = Slaves /\ (\A r \in Slaves \ {s} : sl'[r] = sl[r])
  /\ DOMAIN sl'[s] = DOMAIN NewSlave /\ sl'[s].conn = a /\ sl'[s].pc \in Serving /\ sl'[s].user = sl[s].user
  /\ IsSeq(sl'[s].out) /\ (sl'[s].pc # "answer" => sl'[s].out = <<>>)
  /\ DOMAIN net' = Conns /\ (\A d \in Conns \ {a} : net'[d] = net[d])
  /\ DOMAIN net'[a] = DOMAIN NoConn /\ IsSeq(net'[a].up) /\ IsSeq(net'[a].down)
  /\ net'[a].as = net[a].as /\ net'[a].peer = net[a].peer /\ net'[a].sv = net[a].sv /\ net'[a].cl = net[a].cl

LEMMA GoesOn ==
  ASSUME AsInv, RunInv, NEW s \in Slaves, NEW a, a = sl[s].conn, sl[s].pc \in Serving, Serves(s, a),
         sl[s].pc = "idle" => net[a].up # <<>> \/ sl[s].in,
         \A b, w : /\ net[a].cl /\ IsSeq(b)
                   /\ Stream(w, b \o (net[a].down \o sl[s].out), sl[s].user)
                   => Stream(w, b \o (net'[a].down \o sl'[s].out), sl[s].user)
  PROVE  AsInv'
<1>1. /\ NetInv /\ SlavesInv /\ a \in Conns /\ a # 0 /\ net[a].sv = "open" /\ net[a].peer = SlaveOf[s]
  BY AddressAssumption DEF RunInv, SlavesInv, SlaveInv, Serving
<1>2. \A r \in Slaves \ {s} : sl[r].conn # a
  BY <1>1 DEF SlavesInv
<1>3. ServerAt(s, {a}) /\ {a} \subseteq Conns
  BY <1>1, <1>2 DEF ServerAt, Serves
<1>4. SlaveInv(s)'
  BY <1>1 DEF SlaveInv, Serves, Serving
<1>5. \A t \in Threads : th[t].conn # a
  <2> SUFFICES ASSUME NEW t \in Threads, th[t].conn = a PROVE FALSE
    OBVIOUS
  <2>1. sl[s].pc = "idle" /\ net[a].up = <<>> /\ ~sl[s].in
    BY <1>1 DEF RunInv, AuthInv, Serving
  <2> QED BY <2>1
<1>6. ASSUME NEW i \in Idx, pool[i].gss = a PROVE EntryInv(i)'
  <2>1. EntryInv(i) /\ net[a].cl /\ Want(i)' = Want(i) /\ pool'[i] = pool[i]
    BY <1>1, <1>6, HeldOpen DEF RunInv, Want, Serves
  <2>2. /\ IsSeq(pool[i].buf) /\ sl[s].user = pool[i].cert
        /\ Stream(Want(i), pool[i].buf \o (net[a].down \o sl[s].out), pool[i].cert)
        /\ net[a].as = pool[i].cert /\ net[a].peer # Proxy
    BY <1>1, <1>6, <2>1 DEF EntryInv, ServedInv, Stream
  <2>3. Stream(Want(i), pool[i].buf \o (net'[a].down \o sl'[s].out), pool[i].cert)
    BY <2>1, <2>2
  <2>4. Stream(Want(i), pool[i].buf \o net'[a].down, pool[i].cert)
    <3>1. PICK x, y, z : x = pool[i].buf /\ y = net'[a].down /\ z = sl'[s].out
      OBVIOUS
    <3>2. IsSeq(x) /\ IsSeq(y) /\ IsSeq(z)
      BY <2>2, <3>1 DEF Serves
    <3>3. x \o (y \o z) = (x \o y) \o z
      BY <3>2, ConcatAssoc
    <3>4. IsSeq(x \o y)
      BY <3>2, IsSeqConcat
    <3>5. Stream(Want(i), (x \o y) \o z, pool[i].cert)
      BY <2>3, <3>1, <3>3
    <3>6. Stream(Want(i), x \o y, pool[i].cert)
      BY <3>2, <3>4, <3>5, StreamPrefix
    <3> QED BY <3>1, <3>6
  <2>5. ASSUME NEW r \in Slaves, sl'[r].conn = a PROVE ServedInv(i, r)'
    <3>1. r = s
      BY <1>2, <2>5 DEF Serves
    <3> QED BY <1>6, <2>1, <2>2, <2>3, <3>1 DEF ServedInv, Serves
  <2> QED BY <1>1, <1>6, <2>1, <2>2, <2>4, <2>5 DEF EntryInv, Serves
<1>7. /\ \A t \in Threads : th[t].conn \in {a} => AuthInv(t)'
      /\ \A i \in Idx : pool[i].gss \in {a} => EntryInv(i)'
  BY <1>5, <1>6
<1> QED BY <1>3, <1>4, <1>7, ServerKeeps

LEMMA AuthorizeStep ==
  ASSUME AsInv, RunInv, NEW s \in Slaves, bk_handle_connection(s), UNCHANGED <<pool, locked_by, th, dead>>
  PROVE  AsInv'
<1>1. PICK a : a = sl[s].conn
  OBVIOUS
<1>2. /\ NetInv /\ SlavesInv /\ DOMAIN sl = Slaves /\ DOMAIN net = Conns /\ sl[s].pc = "accept"
      /\ a \in Conns /\ a # 0 /\ net[a].sv = "open" /\ net[a].peer = SlaveOf[s] /\ sl[s].out = <<>> /\ ~sl[s].in
      /\ DOMAIN sl[s] = DOMAIN NewSlave /\ \A r \in Slaves \ {s} : sl[r].conn # a
  <2>1. SlavesInv /\ NetInv /\ SlaveInv(s) /\ sl[s].pc = "accept"
    BY DEF RunInv, SlavesInv, bk_handle_connection
  <2> QED BY <1>1, <2>1, AddressAssumption DEF SlavesInv, SlaveInv, NetInv
<1>3. CASE eof_up(net, a) /\ Drop(s) /\ UNCHANGED bud
  BY <1>2, <1>3, Leaves DEF Spends
<1>4. CASE Spend("refusals") /\ (Drop(s) \/ Restart(s))
  BY <1>2, <1>4, Leaves DEF Spends
<1>5. CASE /\ net[a].up # <<>>
           /\ net' = edg_wll_gss_accept(net, a)
           /\ sl' = [sl EXCEPT ![s].pc = "idle", ![s].user = edg_wll_gss_get_client_conn(net, a)]
           /\ UNCHANGED bud
  <2>1. DOMAIN net[a] = DOMAIN NoConn /\ IsSeq(net[a].up) /\ IsSeq(net[a].down) /\ Len(net[a].up) > 0
    BY <1>2, <1>5, IsSeqEmpty DEF NetInv
  <2>2. PICK y : y = IF net[a].cl THEN Append(net[a].down, Token) ELSE net[a].down
    OBVIOUS
  <2>3. IsSeq(y) /\ IsSeq(Tail(net[a].up))
    BY <2>1, <2>2, IsSeqAppend, IsSeqTail
  <2>4. /\ DOMAIN net' = Conns /\ \A d \in Conns \ {a} : net'[d] = net[d]
        /\ DOMAIN net'[a] = DOMAIN NoConn /\ net'[a].up = Tail(net[a].up) /\ net'[a].down = y
        /\ net'[a].as = net[a].as /\ net'[a].peer = net[a].peer /\ net'[a].sv = "open" /\ net'[a].cl = net[a].cl
    <3>1. net' = [net EXCEPT ![a].up = Tail(net[a].up), ![a].sv = "open", ![a].down = y]
      BY <1>5, <2>2 DEF edg_wll_gss_accept
    <3> QED BY ONLY <1>2, <2>1, <3>1, Records
  <2>5. /\ DOMAIN sl' = Slaves /\ \A r \in Slaves \ {s} : sl'[r] = sl[r]
        /\ DOMAIN sl'[s] = DOMAIN NewSlave /\ sl'[s].pc = "idle" /\ sl'[s].conn = a /\ sl'[s].out = <<>>
        /\ ~sl'[s].in /\ sl'[s].user = net[a].as
    BY <1>1, <1>2, <1>5, Records DEF edg_wll_gss_get_client_conn
  <2>6. ServerAt(s, {a}) /\ {a} \subseteq Conns
    BY <1>1, <1>2, <1>5, <2>3, <2>4, <2>5 DEF ServerAt, Spends
  <2>7. SlaveInv(s)'
    BY <1>2, <2>4, <2>5, EmptyIsSeq DEF SlaveInv, Serving
  <2>8. ASSUME NEW t \in Threads, th[t].conn = a PROVE AuthInv(t)'
    <3>1. /\ net[a].peer # Proxy /\ net[a].as = pool[th[t].idx].cert
          /\ net[a].up = <<Token>> /\ net[a].down = <<>> /\ net[a].cl
      BY SMTT(30), <1>1, <1>2, <2>8, HeldOpen DEF RunInv, AuthInv
    <3>2. Tail(<<Token>>) = <<>> /\ Append(<<>>, Token) = <<Token>>
      OBVIOUS
    <3>3. net'[a].up = <<>> /\ net'[a].down = <<Token>>
      BY <2>2, <2>4, <3>1, <3>2
    <3>4. \A r \in Slaves : sl'[r].conn = a => r = s
      BY <1>2, <2>5
    <3> QED BY <1>2, <2>4, <2>5, <2>8, <3>1, <3>3, <3>4 DEF AuthInv
  <2>9. \A i \in Idx : pool[i].gss # a
    BY <1>1, <1>2 DEF RunInv, EntryInv, ServedInv, Serving
  <2>10. /\ \A t \in Threads : th[t].conn \in {a} => AuthInv(t)'
         /\ \A i \in Idx : pool[i].gss \in {a} => EntryInv(i)'
    BY <2>8, <2>9
  <2> QED BY <2>6, <2>7, <2>10, ServerKeeps
<1> QED BY <1>1, <1>3, <1>4, <1>5 DEF bk_handle_connection

LEMMA AuthorizeProxyStep ==
  ASSUME AsInv, RunInv, NEW s \in Slaves, bk_handle_connection_proxy(s), UNCHANGED <<pool, locked_by, th, dead>>
  PROVE  AsInv'
<1>1. PICK a : a = sl[s].conn
  OBVIOUS
<1>2. /\ NetInv /\ SlavesInv /\ DOMAIN sl = Slaves /\ DOMAIN net = Conns /\ sl[s].pc = "accept"
      /\ a \in Conns /\ a # 0 /\ net[a].sv = "open" /\ net[a].peer = Proxy /\ SlaveOf[s] = Proxy /\ sl[s].out = <<>>
      /\ DOMAIN sl[s] = DOMAIN NewSlave /\ \A r \in Slaves \ {s} : sl[r].conn # a
  <2>1. SlavesInv /\ NetInv /\ SlaveInv(s) /\ sl[s].pc = "accept" /\ SlaveOf[s] = Proxy
    BY DEF RunInv, SlavesInv, bk_handle_connection_proxy, IsProxy
  <2> QED BY <1>1, <2>1, AddressAssumption DEF SlavesInv, SlaveInv, NetInv
<1>3. /\ DOMAIN sl' = Slaves /\ \A r \in Slaves \ {s} : sl'[r] = sl[r]
      /\ DOMAIN sl'[s] = DOMAIN NewSlave /\ sl'[s].pc = "idle" /\ sl'[s].conn = a /\ sl'[s].out = <<>>
      /\ net' = net /\ UNCHANGED bud
  BY <1>1, <1>2, Records DEF bk_handle_connection_proxy
<1>4. ServerAt(s, {a}) /\ {a} \subseteq Conns
  BY <1>1, <1>2, <1>3 DEF ServerAt, Spends, NetInv
<1>5. SlaveInv(s)'
  BY <1>2, <1>3, EmptyIsSeq DEF SlaveInv, Serving
<1>6. \A i \in Idx : pool[i].gss # a
  BY <1>1, <1>2 DEF RunInv, EntryInv
<1>7. \A t \in Threads : th[t].conn # a
  BY <1>1, <1>2 DEF RunInv, AuthInv
<1>8. /\ \A t \in Threads : th[t].conn \in {a} => AuthInv(t)'
      /\ \A i \in Idx : pool[i].gss \in {a} => EntryInv(i)'
  BY <1>6, <1>7
<1> QED BY <1>4, <1>5, <1>8, ServerKeeps

\* What a slave that serves a client knows.
LEMMA AtServing ==
  ASSUME RunInv, NEW s \in Slaves, sl[s].pc \in Serving, NEW a, a = sl[s].conn
  PROVE  /\ DOMAIN sl = Slaves /\ DOMAIN sl[s] = DOMAIN NewSlave /\ IsSeq(sl[s].out)
         /\ sl[s].pc # "answer" => sl[s].out = <<>>
         /\ sl[s].pc # "free" /\ NetInv /\ DOMAIN net = Conns /\ a \in Conns
         /\ DOMAIN net[a] = DOMAIN NoConn /\ IsSeq(net[a].up) /\ IsSeq(net[a].down)
<1>1. SlavesInv /\ NetInv /\ SlaveInv(s)
  BY DEF RunInv, SlavesInv
<1>2. sl[s].pc # "free"
  BY DEF Serving
<1>3. a \in Conns
  BY <1>1, <1>2 DEF SlaveInv
<1> QED BY <1>1, <1>2, <1>3 DEF SlavesInv, SlaveInv, NetInv

\* An answer to the client is prepared, or there is none to be.
LEMMA Prepares ==
  ASSUME AsInv, RunInv, NEW s \in Slaves, sl[s].pc \in {"idle", "failed", "serve"}, sl[s].pc = "idle" => sl[s].in,
         Spends, UNCHANGED <<pool, locked_by, th, dead, net>>,
         DOMAIN sl' = Slaves, \A r \in Slaves \ {s} : sl'[r] = sl[r],
         DOMAIN sl'[s] = DOMAIN NewSlave, sl'[s].pc = "answer", sl'[s].conn = sl[s].conn, sl'[s].user = sl[s].user,
         sl'[s].out = <<>> \/ \E x, y, z : sl'[s].out = Answer(x, y, z, sl[s].user, sl[s].conn)
  PROVE  AsInv'
<1>1. PICK a : a = sl[s].conn
  OBVIOUS
<1>2. sl[s].pc \in Serving /\ sl[s].pc # "answer"
  BY DEF Serving
<1>3. /\ DOMAIN sl = Slaves /\ DOMAIN sl[s] = DOMAIN NewSlave /\ sl[s].out = <<>>
      /\ DOMAIN net = Conns /\ a \in Conns
      /\ DOMAIN net[a] = DOMAIN NoConn /\ IsSeq(net[a].up) /\ IsSeq(net[a].down)
  BY <1>1, <1>2, AtServing
<1>4. sl'[s].out = <<>> \/ IsAnswer(sl'[s].out, sl[s].user)
  BY AnswerIs
<1>5. Serves(s, a)
  <2>1. IsSeq(sl'[s].out)
    BY <1>4, EmptyIsSeq DEF IsAnswer
  <2> QED BY <1>1, <1>3, <2>1 DEF Serves, Serving
<1>6. ASSUME NEW b, NEW w, IsSeq(b), Stream(w, b \o (net[a].down \o sl[s].out), sl[s].user)
      PROVE  Stream(w, b \o (net'[a].down \o sl'[s].out), sl[s].user)
  <2>1. PICK x, y, u : x = net[a].down /\ y = sl'[s].out /\ u = sl[s].user
    OBVIOUS
  <2>2. IsSeq(x) /\ x \o <<>> = x
    BY <1>3, <2>1, ConcatEmpty
  <2>3. Stream(w, b \o x, u)
    BY <1>3, <1>6, <2>1, <2>2
  <2>4. CASE y = <<>>
    BY <1>3, <2>1, <2>2, <2>3, <2>4
  <2>5. CASE IsAnswer(y, u)
    <3>1. Stream(w, (b \o x) \o y, u)
      BY <2>3, <2>5, StreamAnswer
    <3>2. IsSeq(y)
      BY <2>5 DEF IsAnswer
    <3>3. b \o (x \o y) = (b \o x) \o y
      BY <1>6, <2>2, <3>2, ConcatAssoc
    <3>4. Stream(w, b \o (x \o y), u)
      BY <3>1, <3>3
    <3> QED BY <2>1, <3>4
  <2> QED BY <1>4, <2>1, <2>4, <2>5
<1>7. \A b, w : /\ net[a].cl /\ IsSeq(b)
                /\ Stream(w, b \o (net[a].down \o sl[s].out), sl[s].user)
                => Stream(w, b \o (net'[a].down \o sl'[s].out), sl[s].user)
  BY <1>6
<1> QED BY <1>1, <1>2, <1>5, <1>7, GoesOn

LEMMA ReadFailed ==
  ASSUME AsInv, RunInv, NEW s \in Slaves, sl[s].pc \in {"idle", "failed"}, sl[s].pc = "idle" => sl[s].in,
         ReadFails(s), Spends, UNCHANGED <<pool, locked_by, th, dead, net>>
  PROVE  AsInv'
<1>1. DOMAIN sl = Slaves /\ DOMAIN sl[s] = DOMAIN NewSlave
  BY AtServing DEF Serving
<1>2. PICK o : o = Answer(HTTP_BADREQ, None, None, sl[s].user, sl[s].conn)
  OBVIOUS
<1>3. sl' = [sl EXCEPT ![s].pc = "answer", ![s].then = "close", ![s].got = Nothing, ![s].out = o]
  BY <1>2 DEF ReadFails
<1>4. /\ DOMAIN sl' = Slaves /\ \A r \in Slaves \ {s} : sl'[r] = sl[r]
      /\ DOMAIN sl'[s] = DOMAIN NewSlave /\ sl'[s].pc = "answer" /\ sl'[s].conn = sl[s].conn
      /\ sl'[s].user = sl[s].user /\ sl'[s].out = o
  BY <1>1, <1>3, Records
<1>5. \E x, y, z : sl'[s].out = Answer(x, y, z, sl[s].user, sl[s].conn)
  BY <1>2, <1>4
<1>6. sl[s].pc \in {"idle", "failed", "serve"}
  OBVIOUS
<1> QED BY <1>4, <1>5, <1>6, Prepares

LEMMA AcceptStep ==
  ASSUME AsInv, RunInv, NEW s \in Slaves, edg_wll_AcceptHTTP(s), UNCHANGED <<pool, locked_by, th, dead>>
  PROVE  AsInv'
<1>1. PICK a, r : a = sl[s].conn /\ r = http_recv(sl[s].got, sl[s].buf, net[a].up)
  OBVIOUS
<1>2. sl[s].pc = "idle" /\ sl[s].pc \in Serving
  BY DEF edg_wll_AcceptHTTP, Serving
<1>3. /\ DOMAIN sl = Slaves /\ DOMAIN sl[s] = DOMAIN NewSlave /\ sl[s].out = <<>> /\ sl[s].pc # "free"
      /\ DOMAIN net = Conns /\ a \in Conns
      /\ DOMAIN net[a] = DOMAIN NoConn /\ IsSeq(net[a].up) /\ IsSeq(net[a].down)
  BY <1>1, <1>2, AtServing
<1>4. CASE eof_up(net, a) /\ Drop(s) /\ UNCHANGED bud
  BY <1>3, <1>4, Leaves DEF Spends
<1>5. CASE /\ (Awaited(s) /\ UNCHANGED bud) \/ Spend("idle")
           /\ IF sl[s].in THEN ReadFails(s) /\ UNCHANGED net ELSE Drop(s)
  <2>1. Spends
    BY <1>5 DEF Spends
  <2>2. CASE sl[s].in
    <3>1. ReadFails(s) /\ UNCHANGED <<pool, locked_by, th, dead, net>> /\ sl[s].pc \in {"idle", "failed"}
      BY <1>2, <1>5, <2>2
    <3> QED BY <2>1, <2>2, <3>1, ReadFailed
  <2>3. CASE ~sl[s].in
    BY <1>3, <1>5, <2>1, <2>3, Leaves
  <2> QED BY <2>2, <2>3
<1>6. CASE /\ net[a].up # <<>>
           /\ net' = read_up(net, a)
           /\ sl' = [sl EXCEPT ![s].pc = CASE r.got.st = "DONE" -> "serve"
                                           [] r.got.st = "E2BIG" -> "failed"
                                           [] OTHER -> "idle",
                               ![s].in = TRUE, ![s].got = r.got, ![s].buf = r.buf]
           /\ UNCHANGED bud
  <2>1. PICK pc, g, b : /\ pc = (CASE r.got.st = "DONE" -> "serve"
                                   [] r.got.st = "E2BIG" -> "failed"
                                   [] OTHER -> "idle")
                        /\ g = r.got /\ b = r.buf
    OBVIOUS
  <2>2. pc \in Serving /\ pc # "answer"
    <3>1. pc \in {"serve", "failed", "idle"}
      BY <2>1
    <3> QED BY <3>1 DEF Serving
  <2>3. sl' = [sl EXCEPT ![s].pc = pc, ![s].in = TRUE, ![s].got = g, ![s].buf = b]
    BY <1>6, <2>1
  <2>4. /\ DOMAIN sl' = Slaves /\ \A q \in Slaves \ {s} : sl'[q] = sl[q]
        /\ DOMAIN sl'[s] = DOMAIN NewSlave /\ sl'[s].pc = pc /\ sl'[s].conn = a
        /\ sl'[s].user = sl[s].user /\ sl'[s].out = <<>>
    BY <1>1, <1>3, <2>3, Records
  <2>5. /\ DOMAIN net' = Conns /\ \A d \in Conns \ {a} : net'[d] = net[d]
        /\ DOMAIN net'[a] = DOMAIN NoConn /\ net'[a].up = <<>> /\ net'[a].down = net[a].down
        /\ net'[a].as = net[a].as /\ net'[a].peer = net[a].peer /\ net'[a].sv = net[a].sv /\ net'[a].cl = net[a].cl
    <3>1. net' = [net EXCEPT ![a].up = <<>>]
      BY <1>6 DEF read_up
    <3> QED BY ONLY <1>3, <3>1, Records
  <2>6. Serves(s, a)
    BY SMTT(30), <1>3, <1>6, <2>2, <2>4, <2>5, EmptyIsSeq DEF Serves, Spends
  <2>7. sl[s].pc = "idle" => net[a].up # <<>> \/ sl[s].in
    BY <1>6
  <2>8. \A x, w : /\ net[a].cl /\ IsSeq(x)
                  /\ Stream(w, x \o (net[a].down \o sl[s].out), sl[s].user)
                  => Stream(w, x \o (net'[a].down \o sl'[s].out), sl[s].user)
    BY <1>3, <2>4, <2>5
  <2> QED BY <1>1, <1>2, <2>6, <2>7, <2>8, GoesOn
<1> QED BY <1>1, <1>4, <1>5, <1>6 DEF edg_wll_AcceptHTTP

LEMMA ServeStep ==
  ASSUME AsInv, RunInv, NEW s \in Slaves, Serve(s), UNCHANGED <<pool, locked_by, th, dead>>
  PROVE  AsInv'
<1>1. sl[s].pc = "serve" /\ UNCHANGED <<net, bud>>
  BY DEF Serve
<1>2. DOMAIN sl = Slaves /\ DOMAIN sl[s] = DOMAIN NewSlave
  BY <1>1, AtServing DEF Serving
<1>3. \E o, n : /\ sl' = [sl EXCEPT ![s].pc = "answer", ![s].then = n, ![s].got = Nothing, ![s].in = FALSE,
                                    ![s].served = TRUE, ![s].out = o]
                /\ o = <<>> \/ \E x, y, z : o = Answer(x, y, z, sl[s].user, sl[s].conn)
  <2> DEFINE q == sl[s].got.line
             hasBody == sl[s].got.body # NoUnit
             r == edg_wll_Proto(q, sl[s].user # None)
             how == bk_accept_serve(r, hasBody)
             code == IF how = "soap" THEN HTTP_INTERNAL ELSE r.http
             body == IF hasBody THEN sl[s].got.body.id ELSE q.id
             o == IF how = "no" THEN <<>> ELSE Answer(code, q.id, body, sl[s].user, sl[s].conn)
             n == handle_server_error(r.err)
  <2>1. sl' = [sl EXCEPT ![s].pc = "answer", ![s].then = n, ![s].got = Nothing, ![s].in = FALSE,
                         ![s].served = TRUE, ![s].out = o]
    BY Zenon DEF Serve
  <2>2. o = <<>> \/ o = Answer(code, q.id, body, sl[s].user, sl[s].conn)
    <3> HIDE DEF how, code, body, q
    <3> QED OBVIOUS
  <2> HIDE DEF n, code, body, q, o
  <2>3. o = <<>> \/ \E x, y, z : o = Answer(x, y, z, sl[s].user, sl[s].conn)
    BY <2>2
  <2> QED BY <2>1, <2>3
<1>4. PICK o, n : /\ sl' = [sl EXCEPT ![s].pc = "answer", ![s].then = n, ![s].got = Nothing, ![s].in = FALSE,
                                      ![s].served = TRUE, ![s].out = o]
                  /\ o = <<>> \/ \E x, y, z : o = Answer(x, y, z, sl[s].user, sl[s].conn)
  BY <1>3
<1>5. /\ DOMAIN sl' = Slaves /\ \A r \in Slaves \ {s} : sl'[r] = sl[r]
      /\ DOMAIN sl'[s] = DOMAIN NewSlave /\ sl'[s].pc = "answer" /\ sl'[s].conn = sl[s].conn
      /\ sl'[s].user = sl[s].user /\ sl'[s].out = o
  BY <1>2, <1>4, Records
<1>6. sl[s].pc \in {"idle", "failed", "serve"} /\ sl[s].pc # "idle" /\ Spends
  BY <1>1 DEF Spends
<1>7. sl'[s].out = <<>> \/ \E x, y, z : sl'[s].out = Answer(x, y, z, sl[s].user, sl[s].conn)
  BY <1>4, <1>5
<1>8. UNCHANGED <<pool, locked_by, th, dead, net>>
  BY <1>1
<1> QED BY <1>5, <1>6, <1>7, <1>8, Prepares

LEMMA WriteStep ==
  ASSUME AsInv, RunInv, NEW s \in Slaves, edg_wll_DoneHTTP(s), UNCHANGED <<pool, locked_by, th, dead>>
  PROVE  AsInv'
<1>1. PICK a, o, x, y : a = sl[s].conn /\ o = sl[s].out /\ x = Head(o) /\ y = Tail(o)
  OBVIOUS
<1>2. sl[s].pc = "answer" /\ sl[s].pc \in Serving /\ o # <<>> /\ UNCHANGED bud
  BY <1>1 DEF edg_wll_DoneHTTP, Serving
<1>3. /\ DOMAIN sl = Slaves /\ DOMAIN sl[s] = DOMAIN NewSlave /\ IsSeq(o) /\ sl[s].pc # "free"
      /\ DOMAIN net = Conns /\ a \in Conns
      /\ DOMAIN net[a] = DOMAIN NoConn /\ IsSeq(net[a].up) /\ IsSeq(net[a].down)
  BY <1>1, <1>2, AtServing
<1>4. IsSeq(y) /\ Len(o) > 0
  BY <1>1, <1>2, <1>3, IsSeqEmpty, IsSeqTail
<1>5. sl' = [sl EXCEPT ![s].out = y] /\ net' = write_down(net, a, x)
  BY <1>1 DEF edg_wll_DoneHTTP
<1>6. /\ DOMAIN sl' = Slaves /\ \A r \in Slaves \ {s} : sl'[r] = sl[r]
      /\ DOMAIN sl'[s] = DOMAIN NewSlave /\ sl'[s].pc = "answer" /\ sl'[s].conn = a
      /\ sl'[s].user = sl[s].user /\ sl'[s].out = y
  BY <1>1, <1>2, <1>3, <1>5, Records
<1>7. /\ DOMAIN net' = Conns /\ \A d \in Conns \ {a} : net'[d] = net[d]
      /\ DOMAIN net'[a] = DOMAIN NoConn /\ net'[a].up = net[a].up /\ IsSeq(net'[a].down)
      /\ net'[a].as = net[a].as /\ net'[a].peer = net[a].peer /\ net'[a].sv = net[a].sv /\ net'[a].cl = net[a].cl
      /\ net[a].cl => net'[a].down = Append(net[a].down, x)
  <2>1. CASE ~net[a].cl
    BY <1>3, <1>5, <2>1 DEF write_down
  <2>2. CASE net[a].cl
    <3>1. PICK d : d = Append(net[a].down, x)
      OBVIOUS
    <3>2. net' = [net EXCEPT ![a].down = d] /\ IsSeq(d)
      BY <1>3, <1>5, <2>2, <3>1, IsSeqAppend DEF write_down
    <3>3. /\ DOMAIN net' = Conns /\ \A e \in Conns \ {a} : net'[e] = net[e]
          /\ DOMAIN net'[a] = DOMAIN NoConn /\ net'[a].up = net[a].up /\ net'[a].down = d
          /\ net'[a].as = net[a].as /\ net'[a].peer = net[a].peer /\ net'[a].sv = net[a].sv /\ net'[a].cl = net[a].cl
      BY ONLY <1>3, <3>2, Records
    <3> QED BY <3>1, <3>2, <3>3
  <2> QED BY <2>1, <2>2
<1>8. Serves(s, a)
  BY <1>2, <1>3, <1>4, <1>6, <1>7 DEF Serves, Spends
<1>9. ASSUME NEW b, NEW w, net[a].cl, Stream(w, b \o (net[a].down \o sl[s].out), sl[s].user)
      PROVE  Stream(w, b \o (net'[a].down \o sl'[s].out), sl[s].user)
  <2>1. Append(net[a].down, Head(o)) \o Tail(o) = net[a].down \o o
    BY <1>3, <1>4, ConcatShift
  <2>2. net'[a].down \o sl'[s].out = net[a].down \o sl[s].out
    BY <1>1, <1>6, <1>7, <1>9, <2>1
  <2> QED BY <1>9, <2>2
<1>10. sl[s].pc # "idle"
  BY <1>2
<1>11. \A b, w : /\ net[a].cl /\ IsSeq(b)
                 /\ Stream(w, b \o (net[a].down \o sl[s].out), sl[s].user)
                 => Stream(w, b \o (net'[a].down \o sl'[s].out), sl[s].user)
  BY <1>9
<1> QED BY <1>1, <1>2, <1>8, <1>10, <1>11, GoesOn

LEMMA AnsweredStep ==
  ASSUME AsInv, RunInv, NEW s \in Slaves, Answered(s), UNCHANGED <<pool, locked_by, th, dead>>
  PROVE  AsInv'
<1>1. PICK a : a = sl[s].conn
  OBVIOUS
<1>2. sl[s].pc = "answer" /\ sl[s].pc \in Serving /\ sl[s].out = <<>> /\ Spends
  BY DEF Answered, Serving, Spends
<1>3. /\ DOMAIN sl = Slaves /\ DOMAIN sl[s] = DOMAIN NewSlave /\ sl[s].pc # "free"
      /\ DOMAIN net = Conns /\ a \in Conns
      /\ DOMAIN net[a] = DOMAIN NoConn /\ IsSeq(net[a].up) /\ IsSeq(net[a].down)
  BY <1>1, <1>2, AtServing
<1>4. CASE Drop(s) \/ Restart(s)
  BY <1>2, <1>3, <1>4, Leaves
<1>5. CASE sl' = [sl EXCEPT ![s].pc = "idle", ![s].then = None] /\ UNCHANGED net
  <2>1. /\ DOMAIN sl' = Slaves /\ \A r \in Slaves \ {s} : sl'[r] = sl[r]
        /\ DOMAIN sl'[s] = DOMAIN NewSlave /\ sl'[s].pc = "idle" /\ sl'[s].conn = a
        /\ sl'[s].user = sl[s].user /\ sl'[s].out = sl[s].out
    BY <1>1, <1>3, <1>5, Records
  <2>2. Serves(s, a)
    BY <1>2, <1>3, <1>5, <2>1, EmptyIsSeq DEF Serves, Serving
  <2>3. \A b, w : /\ net[a].cl /\ IsSeq(b)
                  /\ Stream(w, b \o (net[a].down \o sl[s].out), sl[s].user)
                  => Stream(w, b \o (net'[a].down \o sl'[s].out), sl[s].user)
    BY <1>5, <2>1
  <2>4. sl[s].pc # "idle"
    BY <1>2
  <2> QED BY <1>1, <1>2, <2>2, <2>3, <2>4, GoesOn
<1> QED BY <1>4, <1>5 DEF Answered

LEMMA ServerKeepsAs ==
  ASSUME AsInv, NEW s \in Slaves, ServerStep(s), UNCHANGED <<clientVars, files>>
  PROVE  AsInv'
<1>1. UNCHANGED <<pool, locked_by, th, dead>>
  BY DEF clientVars
<1>2. Spends
  BY DEF ServerStep, Take, bk_handle_connection, bk_handle_connection_proxy, edg_wll_AcceptHTTP, TooLong, Serve,
         edg_wll_DoneHTTP, Answered, SlaveDies, Spends
<1>3. CASE dead
  <2>1. BudInv' /\ \A u : Cert(u)' = Cert(u)
    BY <1>2, SpendsKept DEF AsInv
  <2>2. AnsweredAs'
    BY <1>1, <2>1 DEF AsInv, AnsweredAs, HasAnswer
  <2> QED BY <1>1, <1>3, <2>1, <2>2 DEF AsInv
<1>4. CASE ~dead
  <2>1. RunInv
    BY <1>4 DEF AsInv
  <2>2. CASE TooLong(s)
    <3>1. /\ ReadFails(s) /\ sl[s].pc = "failed" /\ UNCHANGED <<pool, locked_by, th, dead, net>>
          /\ sl[s].pc \in {"idle", "failed"} /\ sl[s].pc # "idle"
      BY <1>1, <2>2 DEF TooLong
    <3> QED BY <1>2, <2>1, <3>1, ReadFailed
  <2>3. CASE SlaveDies(s)
    BY <1>1, <1>2, <2>1, <2>3, Leaves DEF SlaveDies
  <2> QED BY <1>1, <2>1, <2>2, <2>3, TakeStep, AuthorizeStep, AuthorizeProxyStep, AcceptStep, ServeStep, WriteStep,
             AnsweredStep DEF ServerStep
<1> QED BY <1>3, <1>4

-----------------------------------------------------------------------------
(* The theorem.                                                             *)

LEMMA AsInit ==
  ASSUME Init
  PROVE  AsInv
<1>1. bud \in Scenarios /\ sl = [s \in Slaves |-> NewSlave] /\ th = [t \in Threads |-> NewThread]
  BY DEF Init, ServerInit, ClientInit
<1>2. /\ pool = [i \in Idx |-> NoEntry] /\ locked_by = [i \in Idx |-> None] /\ net = [c \in Conns |-> NoConn]
  BY DEF Init, ClientInit, edg_wll_initConnections
<1>3. BudInv
  <2>1. \A t \in Threads : IsSeq(bud.script[t])
    BY <1>1, PoolAssumption, IsSeqIntro
  <2> QED BY <1>1, <2>1, PoolAssumption DEF BudInv, CallsOf
<1>4. /\ NewThread.pc = "idle" /\ NewThread.srv = None /\ NewThread.idx = 0 /\ NewThread.conn = 0
      /\ NewThread.ans = NoAns /\ NewThread.px = 0
  BY DEF NewThread
<1>5. NoEntry.gss = 0 /\ NoEntry.buf = <<>> /\ NoEntry.used = 0
  BY DEF NoEntry
<1>6. NoConn.sv = "closed" /\ NoConn.up = <<>> /\ NoConn.down = <<>>
  BY DEF NoConn
<1>7. NewSlave.pc = "free" /\ NewSlave.conn = 0 /\ NewSlave.out = <<>>
  BY DEF NewSlave
<1>8. AnsweredAs
  BY <1>1, <1>4 DEF AnsweredAs, HasAnswer
<1>9. \A t \in Threads : ThreadInv(t)
  BY <1>1, <1>4 DEF ThreadInv, InEntry, Looking, OnProxy
<1>10. \A t \in Threads : AuthInv(t)
  BY <1>1, <1>4 DEF AuthInv
<1>11. \A i \in Idx : EntryInv(i)
  <2> TAKE i \in Idx
  <2>1. pool[i] = NoEntry /\ Stream(Want(i), <<>>, NoEntry.cert)
    BY <1>2, StreamEmpty
  <2> QED BY <1>5, <2>1 DEF EntryInv
<1>12. LockInv
  <2>1. 0 \notin Idx
    BY DEF Idx
  <2> QED BY <1>1, <1>2, <1>4, <2>1, PoolAssumption DEF LockInv
<1>13. NetInv
  BY <1>2, <1>6, EmptyIsSeq DEF NetInv
<1>14. HolderInv
  <2>1. ASSUME NEW h \in Holders PROVE Held(h) = 0
    <3>1. CASE h \in {"pool"} \X Idx
      <4>1. PICK i \in Idx : h = <<"pool", i>>
        BY <3>1
      <4> QED BY <1>2, <1>5, <4>1 DEF Held
    <3>2. CASE h \in {"conn", "px"} \X Threads
      <4>1. PICK k \in {"conn", "px"}, t \in Threads : h = <<k, t>>
        BY <3>2
      <4>2. CASE k = "conn"
        BY <1>1, <1>4, <4>1, <4>2 DEF Held
      <4>3. CASE k = "px"
        BY <1>1, <1>4, <4>1, <4>3 DEF Held
      <4> QED BY <4>1, <4>2, <4>3
    <3> QED BY <3>1, <3>2 DEF Holders
  <2> QED BY <2>1 DEF HolderInv
<1>15. SlavesInv
  BY <1>1, <1>7, EmptyIsSeq DEF SlavesInv, SlaveInv
<1>16. UsedInv
  <2>1. \A i \in Idx : pool[i].used \in 0..0
    BY <1>2, <1>5
  <2> QED BY <2>1 DEF UsedInv
<1>17. RunInv
  BY <1>1, <1>2, <1>9, <1>10, <1>11, <1>12, <1>13, <1>14, <1>15, <1>16 DEF RunInv
<1> QED BY <1>3, <1>8, <1>17 DEF AsInv

LEMMA AsStutter ==
  ASSUME AsInv, UNCHANGED vars
  PROVE  AsInv'
<1>1. UNCHANGED <<pool, locked_by, th, dead, net, sl, bud>>
  BY DEF vars
<1>2. BudInv' /\ Idx' = Idx /\ \A u : Cert(u)' = Cert(u)
  BY <1>1, BudgetKept DEF AsInv
<1>3. AnsweredAs'
  BY <1>1, <1>2 DEF AsInv, AnsweredAs, HasAnswer
<1>4. RunInv => RunInv'
  BY <1>1, <1>2, SameRun
<1> QED BY <1>1, <1>2, <1>3, <1>4 DEF AsInv

\* A thread that has been given a certificate is answered as the owner of that
\* certificate, whatever the number of threads, slaves, servers and entries of
\* the pool, whatever the calls, and however threads share, reuse, renew,
\* close and lose connections (ConnectionIndex and edg_wll_open in
\* connection.c, http_recv in mini_http.c, the slaves of bkserverd.c).
THEOREM AnsweredAsOwner == Spec => []AnsweredAs
<1>1. AsInv /\ [Next]_vars => AsInv'
  <2> SUFFICES ASSUME AsInv, [Next]_vars PROVE AsInv'
    OBVIOUS
  <2>1. CASE Client
    BY <2>1, ClientKeepsAs DEF Client
  <2>2. CASE Server
    BY <2>2, ServerKeepsAs DEF Server
  <2>3. CASE Renew /\ UNCHANGED sl
    BY <2>3, RenewStep
  <2>4. CASE UNCHANGED vars
    BY <2>4, AsStutter
  <2> QED BY <2>1, <2>2, <2>3, <2>4 DEF Next
<1>2. AsInv => AnsweredAs
  BY DEF AsInv
<1> QED BY <1>1, <1>2, AsInit, PTL DEF Spec

-----------------------------------------------------------------------------
(* Whose answer it is: the inductive invariant.                             *)

\* The pieces of M behind the first a, up to the k-th.
Part(u, M, a, k) == IsSeq(u) /\ Len(u) = k - a /\ \A i \in 1..Len(u) : u[i] = M[a + i]
Lines(b) == IsSeq(b) /\ \A i \in 1..Len(b) : b[i].k = "line"

\* The pieces of one message.
IsMessage(M) ==
  /\ IsSeq(M) /\ Len(M) \in {2, 3}
  /\ M[1].k = "line" /\ M[2].k = "head" /\ M[2].clen = Len(M) - 2
  /\ Len(M) = 3 => M[3].k = "body"

\* A reader that has made g of a message M so far and has buf in its buffer, when
\* a pieces have been read and those of rest, up to the k-th, are still to be
\* read.  A buffer that is not clean may have lines of other messages before.
Under(g, buf, rest, M, a, k, clean) ==
  /\ a \in 0..2 /\ k \in a..Len(M) /\ Part(rest, M, a, k)
  /\ IF a = 2
     THEN /\ Len(M) = 3 /\ DOMAIN g = DOMAIN Nothing /\ g.st = "BODY" /\ buf = <<>>
          /\ clean => g.line = M[1].m
     ELSE g = Nothing /\ Lines(buf) /\ (clean => Part(buf, M, 0, a))

BodyOf(M) == IF Len(M) = 3 THEN M[3].m ELSE NoUnit
Message(call) == Pieces(call, IF call.op \in Pages THEN NoUnit ELSE call)

\* The slave x with the connection n: it reads the message M, of which k pieces
\* have been sent; has read it; is about to close; waits for the next one.
Reads(x, n, M, k) ==
  /\ x.pc \in {"accept", "idle", "answer"} /\ (x.pc # "idle" => x.got = Nothing)
  /\ \E a \in 0..2 : Under(x.got, x.buf, n.up, M, a, k, n.clean)
Served(x, n, M, k) ==
  /\ x.pc = "serve" /\ k = Len(M) /\ n.up = <<>> /\ x.buf = <<>>
  /\ x.got.body = BodyOf(M) /\ (n.clean => x.got.line = M[1].m)
Closing(x) == x.pc = "answer" /\ x.then \in {"close", "restart"}
Rests(x, n) ==
  /\ x.pc \in {"idle", "answer"} /\ x.got = Nothing /\ ~x.in /\ n.up = <<>>
  /\ Lines(x.buf) /\ (n.clean => x.buf = <<>>)
Asked(x, n, M, k) == x.pc = "failed" \/ Closing(x) \/ Reads(x, n, M, k) \/ Served(x, n, M, k)
Over(x, n, M, k) == Closing(x) \/ (k = Len(M) /\ Rests(x, n))

\* An answer to the request id, unless it is marked or names none.
OwnAnswer(A, id) ==
  /\ IsMessage(A) /\ Len(A) = 3 /\ A[1].m.op = "answer"
  /\ {"clean", "id", "body"} \subseteq DOMAIN A[1].m
  /\ A[1].m.clean /\ A[1].m.id # None => A[1].m.id = id /\ A[3].m.id = id

\* The thread v has sent its request on the connection c, which is n, and reads it
\* with the buffer buf: there is no answer yet, or one is coming.
Pending(v, n, c, buf, ss) ==
  /\ n.down = <<>> /\ v.got = Nothing /\ buf = <<>>
  /\ n.sv = "queued" => Part(n.up, Message(v.call), 0, v.sent)
  /\ \A s \in Slaves : ss[s].conn = c =>
       /\ ss[s].out = <<>>
       /\ Asked(ss[s], n, Message(v.call), v.sent) \/ Over(ss[s], n, Message(v.call), v.sent)
Coming(v, n, c, buf, ss) ==
  /\ n.sv # "queued"
  /\ \E A : \E a \in 0..2, b \in 0..3 :
       /\ OwnAnswer(A, v.call.id) /\ Under(v.got, buf, n.down, A, a, b, TRUE)
       /\ \A s \in Slaves : ss[s].conn = c =>
            Part(ss[s].out, A, b, 3) /\ Over(ss[s], n, Message(v.call), v.sent)
Exchange(v, n, c, buf, ss) == Pending(v, n, c, buf, ss) \/ Coming(v, n, c, buf, ss)

\* Nothing is under way on the connection.
Resting(n, c, ss) ==
  /\ n.down = <<>>
  /\ \A s \in Slaves : ss[s].conn = c => ss[s].out = <<>> /\ (Closing(ss[s]) \/ Rests(ss[s], n))

\* The slave reads some message, has read one, or is about to close.
Follows(x, n) == \E M : IsMessage(M) /\ \E k \in 0..Len(M) : Asked(x, n, M, k)

SlaveOwn(s) ==
  LET x == sl[s]
      n == net[x.conn]
  IN /\ x.pc \in {"free", "accept"} => x.got = Nothing
     /\ IF IsProxy(s) THEN x.pc \in {"free", "accept"} => x.buf = <<>>
        ELSE /\ Lines(x.buf)
             /\ x.pc = "accept" => n.up = <<Token>> /\ (n.clean => x.buf = <<>>)
             /\ x.pc \in Serving => Follows(x, n)

EntryOwn(i) ==
  LET e == pool[i]
  IN \/ locked_by[i] \in Threads /\ th[locked_by[i]].pc \in {"send", "recv", "close"}
     \/ (e.buf = <<>> /\ (e.gss # 0 => Resting(net[e.gss], e.gss, sl)))

\* How much of its request a thread has sent.
SentOwn(t) ==
  LET x == th[t]
  IN /\ x.pc \in {"connect", "auth", "popen"} => x.sent = 0
     /\ x.pc = "popen" => x.got = Nothing
     /\ x.pc \in {"send", "psend"} => x.sent \in 0..(Len(Message(x.call)) - 1)
     /\ x.pc \in {"recv", "precv"} => x.sent = Len(Message(x.call))

\* Its connection while it is authenticated, that of its entry, that to the proxy.
AuthOwn(t) ==
  LET c == th[t].conn
  IN th[t].pc = "auth" => \A s \in Slaves : sl[s].conn = c /\ sl[s].pc = "idle" => Rests(sl[s], net[c])
PoolOwn(t) ==
  LET e == pool[th[t].idx]
  IN th[t].pc \in {"send", "recv"} => Exchange(th[t], net[e.gss], e.gss, e.buf, sl)
ProxyOwn(t) ==
  LET x == th[t]
  IN /\ x.px # 0 => net[x.px].peer = Proxy
     /\ x.pc \in {"psend", "precv"} /\ net[x.px].clean => Exchange(x, net[x.px], x.px, x.pbuf, sl)

ThreadOwn(t) == SentOwn(t) /\ AuthOwn(t) /\ PoolOwn(t) /\ ProxyOwn(t)

QueuedOwn(c) == net[c].sv = "queued" /\ net[c].peer # Proxy => net[c].up = <<Token>>

RunOwn ==
  /\ \A c \in Conns : QueuedOwn(c)
  /\ \A s \in Slaves : SlaveOwn(s)
  /\ \A i \in Idx : EntryOwn(i)
  /\ \A t \in Threads : ThreadOwn(t)

OwnInv == AnswerIsOwn /\ (dead \/ RunOwn)

-----------------------------------------------------------------------------
(* Parts of a message.                                                      *)

LEMMA PartEmpty ==
  ASSUME NEW M, NEW a \in Nat
  PROVE  Part(<<>>, M, a, a) /\ \A u : Part(u, M, a, a) => u = <<>>
<1>1. IsSeq(<<>>) /\ Len(<<>>) = 0
  BY EmptyIsSeq
<1>2. Part(<<>>, M, a, a)
  BY <1>1 DEF Part
<1>3. ASSUME NEW u, Part(u, M, a, a) PROVE u = <<>>
  <2>1. IsSeq(u) /\ ~(Len(u) > 0)
    BY <1>3 DEF Part
  <2> QED BY <2>1, IsSeqEmpty
<1> QED BY <1>2, <1>3

LEMMA PartMore ==
  ASSUME NEW M, NEW u, NEW a \in Nat, NEW k \in Nat, Part(u, M, a, k)
  PROVE  Part(Append(u, M[k + 1]), M, a, k + 1)
<1> DEFINE v == Append(u, M[k + 1])
<1>1. IsSeq(u) /\ Len(u) = k - a /\ Len(u) \in Nat /\ \A i \in 1..Len(u) : u[i] = M[a + i]
  BY IsSeqLen DEF Part
<1>2. IsSeq(v) /\ Len(v) = Len(u) + 1 /\ (\A i \in 1..Len(u) : v[i] = u[i]) /\ v[Len(u) + 1] = M[k + 1]
  BY <1>1, IsSeqAppend
<1> HIDE DEF v
<1>3. a + (Len(u) + 1) = k + 1 /\ Len(v) = (k + 1) - a
  BY <1>1, <1>2
<1>4. ASSUME NEW i \in 1..Len(v) PROVE v[i] = M[a + i]
  <2>1. i \in 1..Len(u) \/ i = Len(u) + 1
    BY <1>1, <1>2
  <2> QED BY <1>1, <1>2, <1>3, <2>1
<1>5. Part(v, M, a, k + 1)
  BY <1>2, <1>3, <1>4 DEF Part
<1> QED BY <1>5 DEF v

LEMMA PartLess ==
  ASSUME NEW M, NEW u, NEW a \in Nat, NEW k \in Nat, Part(u, M, a, k), u # <<>>
  PROVE  Part(Tail(u), M, a + 1, k) /\ Head(u) = M[a + 1] /\ a < k
<1> DEFINE v == Tail(u)
<1>1. IsSeq(u) /\ Len(u) = k - a /\ Len(u) \in Nat /\ Len(u) > 0 /\ \A i \in 1..Len(u) : u[i] = M[a + i]
  BY IsSeqLen, IsSeqEmpty DEF Part
<1>2. IsSeq(v) /\ Len(v) = Len(u) - 1 /\ Head(u) = u[1] /\ \A i \in 1..Len(u) - 1 : v[i] = u[i + 1]
  BY <1>1, IsSeqTail
<1> HIDE DEF v
<1>3. Len(v) = k - (a + 1) /\ a < k /\ 1 \in 1..Len(u)
  BY <1>1, <1>2
<1>4. ASSUME NEW i \in 1..Len(v) PROVE v[i] = M[(a + 1) + i]
  <2>1. i \in 1..Len(u) - 1 /\ i + 1 \in 1..Len(u) /\ a + (i + 1) = (a + 1) + i
    BY <1>1, <1>2
  <2> QED BY <1>1, <1>2, <2>1
<1>5. Part(v, M, a + 1, k)
  BY <1>2, <1>3, <1>4 DEF Part
<1> QED BY <1>1, <1>2, <1>3, <1>5 DEF v

\* The pieces that a call of Pieces makes.
LEMMA PiecesAre ==
  ASSUME NEW line, NEW body
  PROVE  /\ IsMessage(Pieces(line, body)) /\ Pieces(line, body)[1].m = line
         /\ BodyOf(Pieces(line, body)) = body
         /\ Len(Pieces(line, body)) = IF body = NoUnit THEN 2 ELSE 3
         /\ body # NoUnit => Pieces(line, body)[3].m = body
<1> DEFINE x == [k |-> "line", m |-> line]
           y == [k |-> "head", m |-> line, clen |-> IF body = NoUnit THEN 0 ELSE 1]
           z == [k |-> "body", m |-> body]
           p == <<x, y>>
           M == Pieces(line, body)
<1>1. x.k = "line" /\ x.m = line /\ y.k = "head" /\ y.clen = (IF body = NoUnit THEN 0 ELSE 1)
      /\ z.k = "body" /\ z.m = body
  OBVIOUS
<1>2. M = p \o (IF body = NoUnit THEN <<>> ELSE <<z>>)
  BY DEF Pieces
<1> HIDE DEF x, y, z, M
<1>3. IsSeq(p) /\ Len(p) = 2 /\ p[1] = x /\ p[2] = y
  <2>1. p \in Seq({x, y}) /\ Len(p) = 2 /\ p[1] = x /\ p[2] = y
    OBVIOUS
  <2> QED BY <2>1, IsSeqIntro
<1> HIDE DEF p
<1>4. CASE body = NoUnit
  <2>1. M = p
    BY <1>2, <1>3, <1>4, ConcatEmpty
  <2>2. IsSeq(M) /\ Len(M) = 2 /\ M[1] = x /\ M[2] = y
    BY <1>3, <2>1
  <2>3. IsMessage(M)
    BY <1>1, <1>4, <2>2 DEF IsMessage
  <2> QED BY <1>1, <1>4, <2>2, <2>3 DEF BodyOf, M
<1>5. CASE body # NoUnit
  <2> DEFINE q == <<z>>
  <2>1. IsSeq(q) /\ Len(q) = 1 /\ q[1] = z
    BY OneIsSeq
  <2>2. M = p \o q
    BY <1>2, <1>5
  <2> HIDE DEF q
  <2>3. /\ IsSeq(M) /\ Len(M) = Len(p) + Len(q)
        /\ \A i \in 1..Len(p) + Len(q) : M[i] = IF i <= Len(p) THEN p[i] ELSE q[i - Len(p)]
    BY <1>3, <2>1, <2>2, IsSeqConcat
  <2>4. Len(M) = 3 /\ M[1] = x /\ M[2] = y /\ M[3] = z
    <3>1. M[1] = p[1] /\ M[2] = p[2]
      BY <1>3, <2>1, <2>3
    <3>2. M[3] = q[1]
      BY <1>3, <2>1, <2>3
    <3> QED BY <1>3, <2>1, <2>3, <3>1, <3>2
  <2>5. IsMessage(M)
    <3>1. M[1].k = "line" /\ M[2].k = "head" /\ M[2].clen = 1 /\ M[3].k = "body"
      BY <1>1, <1>5, <2>4
    <3>2. Len(M) \in {2, 3} /\ 1 = Len(M) - 2
      BY <2>4
    <3> QED BY <2>3, <3>1, <3>2 DEF IsMessage
  <2> QED BY <1>1, <1>5, <2>4, <2>5 DEF BodyOf, M
<1> QED BY <1>4, <1>5

LEMMA MessageIs ==
  ASSUME NEW call
  PROVE  /\ IsMessage(Message(call)) /\ Message(call)[1].m = call
         /\ Len(Message(call)) \in {2, 3} /\ BodyOf(Message(call)) \in {NoUnit, call}
<1>1. PICK b : b = (IF call.op \in Pages THEN NoUnit ELSE call) /\ b \in {NoUnit, call}
  OBVIOUS
<1>2. Message(call) = Pieces(call, b)
  BY <1>1 DEF Message
<1> QED BY <1>1, <1>2, PiecesAre

\* What the slave writes.
LEMMA AnswerOwn ==
  ASSUME NEW code, NEW id, NEW body, NEW user, NEW c, NEW own,
         net[c].clean /\ id # None => id = own /\ body = own
  PROVE  OwnAnswer(Answer(code, id, body, user, c), own)
<1> DEFINE line == [op |-> "answer", code |-> code, id |-> id, user |-> user, clean |-> net[c].clean,
                    body |-> None]
           b == [id |-> body]
           A == Pieces(line, b)
<1>1. b # NoUnit
  <2>1. DOMAIN b = {"id"} /\ DOMAIN NoUnit = {"k"}
    BY DEF NoUnit
  <2> QED BY <2>1
<1>2. Answer(code, id, body, user, c) = A
  BY DEF Answer
<1>3. /\ line.op = "answer" /\ {"clean", "id", "body"} \subseteq DOMAIN line
      /\ line.clean = net[c].clean /\ line.id = id /\ b.id = body
  OBVIOUS
<1> HIDE DEF line, b
<1>4. IsMessage(A) /\ A[1].m = line /\ Len(A) = 3 /\ A[3].m = b
  BY <1>1, PiecesAre
<1> HIDE DEF A
<1> QED BY <1>2, <1>3, <1>4 DEF OwnAnswer

\* One round of reading: the message is complete, or more of it has been read, or
\* its line is too long.
Done(g, b, M, k, clean) ==
  /\ g.st = "DONE" /\ k = Len(M) /\ b = <<>> /\ g.body = BodyOf(M)
  /\ clean => g.line = M[1].m
More(g, b, M, k, clean) ==
  g.st \in {"FIRST", "BODY"} /\ \E a \in 0..2 : Under(g, b, <<>>, M, a, k, clean)
TooBig(g, b, M, clean) == g.st = "E2BIG" /\ b = <<>> /\ (clean => M[1].m.op = "overlong")

LEMMA Taken ==
  ASSUME NEW M, IsMessage(M), NEW g, NEW buf, NEW rest, NEW a, NEW k, NEW clean,
         Under(g, buf, rest, M, a, k, clean), rest # <<>>
  PROVE  LET r == http_recv(g, buf, rest)
         IN  Done(r.got, r.buf, M, k, clean) \/ More(r.got, r.buf, M, k, clean) \/ TooBig(r.got, r.buf, M, clean)
<1> DEFINE r == http_recv(g, buf, rest)
           s == buf \o rest
<1>1. /\ a \in 0..2 /\ k \in 0..3 /\ a <= k /\ k <= Len(M) /\ Len(M) \in {2, 3} /\ a < k
      /\ IsSeq(rest) /\ Len(rest) = k - a /\ \A i \in 1..k - a : rest[i] = M[a + i]
  <2>1. a \in 0..2 /\ k \in a..Len(M) /\ Len(M) \in {2, 3} /\ Part(rest, M, a, k)
    BY DEF Under, IsMessage
  <2>2. a \in Nat /\ k \in Nat
    BY <2>1
  <2>3. a < k
    BY <2>1, <2>2, PartLess
  <2>4. k \in 0..3 /\ a <= k /\ k <= Len(M)
    <3>1. CASE Len(M) = 2
      BY <2>1, <2>2, <3>1
    <3>2. CASE Len(M) = 3
      BY <2>1, <2>2, <3>2
    <3> QED BY <2>1, <3>1, <3>2
  <2> QED BY <2>1, <2>3, <2>4 DEF Part
<1>2. DOMAIN Nothing = {"st", "line", "body"} /\ Nothing.st = "FIRST" /\ Nothing.body = NoUnit
  BY DEF Nothing
<1>3. CASE a = 2
  <2>1. /\ Len(M) = 3 /\ DOMAIN g = DOMAIN Nothing /\ g.st = "BODY" /\ buf = <<>>
        /\ clean => g.line = M[1].m
    BY <1>3 DEF Under
  <2>2. k = 3 /\ Len(rest) = 1 /\ rest[1] = M[3]
    <3>1. k = 3
      BY <1>1, <1>3
    <3>2. 1 \in 1..k - a /\ a + 1 = 3 /\ k - a = 1
      BY <1>3, <3>1
    <3> QED BY <1>1, <3>1, <3>2
  <2>3. s = rest
    BY <1>1, <2>1, ConcatEmpty
  <2>4. r = [got |-> [g EXCEPT !.st = "DONE", !.body = Head(s).m], buf |-> Tail(s)]
    BY <2>1, <2>3 DEF http_recv, recv_body
  <2>5. Head(s) = M[3] /\ Tail(s) = <<>>
    <3>1. IsSeq(Tail(rest)) /\ Len(Tail(rest)) = 0 /\ Head(rest) = rest[1]
      BY <1>1, <2>2, IsSeqTail
    <3> QED BY <2>2, <2>3, <3>1, IsSeqEmpty
  <2> DEFINE w == [g EXCEPT !.st = "DONE", !.body = Head(s).m]
  <2>6. r.got.st = "DONE" /\ r.got.body = M[3].m /\ r.got.line = g.line /\ r.buf = <<>>
    <3>1. DOMAIN g = {"st", "line", "body"}
      BY <1>2, <2>1
    <3>2. w.st = "DONE" /\ w.body = Head(s).m /\ w.line = g.line
      BY <3>1
    <3> HIDE DEF r, w, s
    <3>3. r = [got |-> w, buf |-> Tail(s)]
      BY <2>4 DEF w
    <3>4. r.got = w /\ r.buf = Tail(s)
      BY ONLY <3>3
    <3> QED BY ONLY <2>5, <3>2, <3>4
  <2> HIDE DEF r
  <2>7. Done(r.got, r.buf, M, k, clean)
    BY <2>1, <2>2, <2>6 DEF Done, BodyOf
  <2> QED BY <2>7 DEF r
<1>4. CASE a # 2
  <2>1. g = Nothing /\ Lines(buf) /\ (clean => Part(buf, M, 0, a)) /\ a \in {0, 1}
    BY <1>1, <1>4 DEF Under
  <2> DEFINE N == Len(buf)
  <2>2. IsSeq(buf) /\ N \in Nat /\ \A i \in 1..N : buf[i].k = "line"
    BY <2>1, IsSeqLen DEF Lines
  <2>3. /\ IsSeq(s) /\ Len(s) = N + (k - a) /\ Len(s) \in Nat
        /\ \A i \in 1..N : s[i] = buf[i]
        /\ \A i \in 1..k - a : s[N + i] = M[a + i]
    <3>1. /\ IsSeq(s) /\ Len(s) = N + Len(rest)
          /\ \A i \in 1..N + Len(rest) : s[i] = IF i <= N THEN buf[i] ELSE rest[i - N]
      BY <1>1, <2>2, IsSeqConcat
    <3> HIDE DEF s
    <3>2. \A i \in 1..N : i \in 1..N + Len(rest) /\ i <= N
      BY <1>1, <2>2
    <3>3. \A i \in 1..k - a : N + i \in 1..N + Len(rest) /\ ~(N + i <= N) /\ (N + i) - N = i
      BY <1>1, <2>2
    <3>4. \A i \in 1..k - a : s[N + i] = M[a + i]
      BY <1>1, <3>1, <3>3
    <3>5. Len(s) = N + (k - a) /\ Len(s) \in Nat
      BY <1>1, <2>2, <3>1
    <3> QED BY <3>1, <3>2, <3>4, <3>5
  <2>4. r = recv_first(s)
    BY <1>2, <2>1 DEF http_recv
  <2> HIDE DEF s, N
  <2>5. Len(s) > 0 /\ s # <<>> /\ Head(s) = s[1]
    <3>1. Len(s) > 0
      BY <1>1, <2>2, <2>3
    <3> QED BY <2>3, <3>1, IsSeqTail, EmptyIsSeq
  \* A clean buffer has the line of the message, and nothing before it.
  <2>6. clean => N = a /\ s[1] = M[1]
    <3> SUFFICES ASSUME clean PROVE N = a /\ s[1] = M[1]
      OBVIOUS
    <3>1. N = a /\ \A i \in 1..N : buf[i] = M[0 + i]
      BY <1>1, <2>1 DEF Part, N
    <3>2. CASE a = 0
      <4>1. 1 \in 1..k - a /\ N + 1 = 1 /\ a + 1 = 1
        BY <1>1, <3>1, <3>2
      <4> QED BY <2>3, <3>1, <4>1
    <3>3. CASE a = 1
      <4>1. 1 \in 1..N /\ 0 + 1 = 1
        BY <3>1, <3>3
      <4> QED BY <2>3, <3>1, <4>1
    <3> QED BY <2>1, <3>2, <3>3
  <2>7. CASE Head(s).m.op = "overlong"
    <3>1. r = [got |-> [Nothing EXCEPT !.st = "E2BIG"], buf |-> <<>>]
      BY <2>4, <2>5, <2>7 DEF recv_first
    <3>2. r.got.st = "E2BIG" /\ r.buf = <<>>
      BY <1>2, <3>1
    <3> HIDE DEF r
    <3>3. TooBig(r.got, r.buf, M, clean)
      BY <2>5, <2>6, <2>7, <3>2 DEF TooBig
    <3> QED BY <3>3 DEF r
  <2>8. CASE Head(s).m.op # "overlong" /\ k < 2
    <3>1. k = 1 /\ a = 0
      BY <1>1, <2>1, <2>8
    <3>2. Len(s) = N + 1 /\ s[N + 1] = M[1] /\ M[1].k = "line"
      <4>1. 1 \in 1..k - a /\ a + 1 = 1 /\ k - a = 1
        BY <3>1
      <4> QED BY <2>3, <4>1 DEF IsMessage
    <3>3. \A i \in 1..Len(s) : s[i].k = "line"
      <4>1. \A i \in 1..Len(s) : i \in 1..N \/ i = N + 1
        BY <2>2, <3>2
      <4> QED BY <2>2, <2>3, <3>2, <4>1
    <3>4. Heads(s) = {}
      BY <2>3, <3>3, IsSeqLen DEF Heads
    <3>5. r = [got |-> Nothing, buf |-> s]
      BY <2>4, <2>8, <3>4 DEF recv_first
    <3>6. r.got = Nothing /\ r.buf = s
      BY <3>5
    <3>7. Lines(s)
      BY <2>3, <3>3 DEF Lines
    <3>8. clean => Part(s, M, 0, 1)
      <4> SUFFICES ASSUME clean PROVE Part(s, M, 0, 1)
        OBVIOUS
      <4>1. Len(s) = 1 /\ s[1] = M[1]
        BY <2>6, <3>1, <3>2
      <4>2. \A i \in 1..Len(s) : i = 1 /\ 0 + i = 1
        BY <4>1
      <4>3. 1 - 0 = 1 /\ IsSeq(s)
        BY <2>3
      <4> QED BY ONLY <4>1, <4>2, <4>3 DEF Part
    <3>9. Under(Nothing, s, <<>>, M, 1, k, clean)
      <4>1. Part(<<>>, M, 1, k)
        BY <3>1, PartEmpty
      <4>2. 1 \in 0..2 /\ k \in 1..Len(M)
        BY <1>1, <3>1
      <4> QED BY <3>7, <3>8, <4>1, <4>2 DEF Under
    <3> HIDE DEF r
    <3>10. More(r.got, r.buf, M, k, clean)
      BY <1>2, <3>6, <3>9 DEF More
    <3> QED BY <3>10 DEF r
  <2>9. CASE Head(s).m.op # "overlong" /\ ~(k < 2)
    <3> DEFINE h == N + (2 - a)
    <3>1. h \in 1..Len(s) /\ h \in 0..Len(s) /\ Len(s) - h = k - 2 /\ h \in Nat
      <4>1. N \in Nat /\ k \in {2, 3} /\ Len(s) = N + (k - a)
        BY <1>1, <2>2, <2>3, <2>9
      <4>2. CASE a = 0
        BY <4>1, <4>2
      <4>3. CASE a = 1
        BY <4>1, <4>3
      <4> QED BY <2>1, <4>2, <4>3
    <3>2. s[h] = M[2]
      <4>1. 2 - a \in 1..k - a /\ a + (2 - a) = 2
        BY <1>1, <2>1, <2>9
      <4> QED BY <2>3, <4>1
    <3>3. ASSUME NEW i \in 1..Len(s), s[i].k = "head" PROVE i = h
      <4>1. i \in 1..N => s[i].k = "line"
        BY <2>2, <2>3
      <4>2. i \notin 1..N
        BY <3>3, <4>1
      <4>3. i - N \in 1..k - a /\ N + (i - N) = i
        BY <1>1, <2>2, <2>3, <4>2
      <4>4. s[i] = M[a + (i - N)]
        BY <2>3, <4>3
      <4>5. a + (i - N) \in 1..3 /\ a + (i - N) <= Len(M)
        BY <1>1, <2>1, <2>2, <4>3
      <4>6. M[1].k = "line" /\ (Len(M) = 3 => M[3].k = "body")
        BY DEF IsMessage
      <4>7. a + (i - N) # 1 /\ (a + (i - N) = 3 => Len(M) = 3)
        BY <1>1, <3>3, <4>4, <4>5, <4>6
      <4>8. a + (i - N) = 2
        BY <3>3, <4>4, <4>5, <4>6, <4>7
      <4> QED BY <1>1, <2>2, <4>8
    <3> HIDE DEF h
    <3>4. Heads(s) = {h}
      <4>1. \A i : i \in Heads(s) <=> i \in 1..Len(s) /\ s[i].k = "head"
        BY <2>3, IsSeqLen DEF Heads
      <4>2. s[h].k = "head"
        BY <3>2 DEF IsMessage
      <4>3. \A i : i \in Heads(s) <=> i \in {h}
        BY <3>1, <3>3, <4>1, <4>2
      <4> QED BY ONLY <4>3
    <3>5. Min(Heads(s)) = h
      <4>1. {h} \in SUBSET Nat /\ {h} # {}
        BY <3>1
      <4>2. Min({h}) \in {h}
        BY <4>1, MinProperty
      <4> QED BY <3>4, <4>2
    <3> DEFINE line == IF Head(s).k # "line" THEN [Head(s).m EXCEPT !.op = "garbled"] ELSE Head(s).m
               q == [Nothing EXCEPT !.st = IF s[h].clen = 0 THEN "DONE" ELSE "BODY", !.line = line]
               tl == SubSeq(s, h + 1, Len(s))
    <3>6. r = IF q.st = "DONE" THEN [got |-> q, buf |-> tl] ELSE recv_body(q, tl)
      <4>1. Heads(s) # {}
        BY <3>4
      <4> QED BY <2>4, <2>9, <3>5, <4>1 DEF recv_first
    <3>7. clean => line = M[1].m
      <4>1. clean => Head(s).k = "line" /\ Head(s).m = M[1].m
        BY <2>5, <2>6 DEF IsMessage
      <4> QED BY <4>1
    <3>8. s[h].clen = Len(M) - 2
      BY <3>2 DEF IsMessage
    <3>9. IsSeq(tl) /\ Len(tl) = k - 2 /\ \A i \in 1..Len(s) - h : tl[i] = s[i + h]
      BY <2>3, <3>1, IsSeqSuffix
    <3> HIDE DEF line, tl, r
    <3>10. DOMAIN q = DOMAIN Nothing /\ q.line = line /\ q.body = NoUnit /\ q.st = IF s[h].clen = 0 THEN "DONE" ELSE "BODY"
      BY <1>2
    <3> HIDE DEF q
    <3>11. CASE Len(M) = 2
      <4>1. q.st = "DONE" /\ k = 2 /\ Len(tl) = 0
        BY <1>1, <2>9, <3>8, <3>9, <3>10, <3>11
      <4>2. r = [got |-> q, buf |-> tl] /\ tl = <<>>
        BY <3>6, <3>9, <4>1, IsSeqEmpty
      <4>3. r.got = q /\ r.buf = <<>>
        BY <4>2
      <4>4. Done(r.got, r.buf, M, k, clean)
        BY <3>7, <3>10, <3>11, <4>1, <4>3 DEF Done, BodyOf
      <4> QED BY <4>4 DEF r
    <3>12. CASE Len(M) = 3 /\ k = 2
      <4>1. q.st = "BODY" /\ Len(tl) = 0
        BY <3>8, <3>9, <3>10, <3>12
      <4>2. r = [got |-> q, buf |-> tl] /\ tl = <<>>
        BY <3>6, <3>9, <4>1, IsSeqEmpty DEF recv_body
      <4>3. r.got = q /\ r.buf = <<>>
        BY <4>2
      <4>4. Under(q, <<>>, <<>>, M, 2, k, clean)
        <5>1. Part(<<>>, M, 2, k)
          BY <3>12, PartEmpty
        <5>2. 2 \in 0..2 /\ k \in 2..Len(M)
          BY <3>12
        <5> QED BY <3>7, <3>10, <3>12, <4>1, <5>1, <5>2 DEF Under
      <4>5. More(r.got, r.buf, M, k, clean)
        BY <4>1, <4>3, <4>4 DEF More
      <4> QED BY <4>5 DEF r
    <3>13. CASE Len(M) = 3 /\ k = 3
      <4>1. q.st = "BODY" /\ Len(tl) = 1
        BY <3>8, <3>9, <3>10, <3>13
      <4>2. tl # <<>> /\ Head(tl) = tl[1] /\ Tail(tl) = <<>>
        <5>1. IsSeq(Tail(tl)) /\ Len(Tail(tl)) = 0 /\ Head(tl) = tl[1]
          <6>1. 1 > 0 /\ 1 - 1 = 0
            OBVIOUS
          <6>2. IsSeq(tl) /\ Len(tl) = 1
            BY ONLY <3>9, <4>1, Zenon
          <6>3. Len(tl) > 0
            BY ONLY <6>1, <6>2, Zenon
          <6> QED BY ONLY <6>1, <6>2, <6>3, IsSeqTail, Zenon
        <5>2. tl # <<>>
          BY <4>1, EmptyIsSeq
        <5>3. ~(0 > 0)
          OBVIOUS
        <5>4. Tail(tl) = <<>>
          BY ONLY <5>1, <5>3, IsSeqEmpty, Zenon
        <5> QED BY ONLY <5>1, <5>2, <5>4
      <4>3. tl[1] = M[3]
        <5>1. 1 \in 1..Len(s) - h /\ 1 + h = N + (3 - a) /\ 3 - a \in 1..k - a /\ a + (3 - a) = 3
          BY <2>1, <2>2, <3>1, <3>13 DEF h
        <5> QED BY <2>3, <3>9, <5>1
      <4>4. r = [got |-> [q EXCEPT !.st = "DONE", !.body = Head(tl).m], buf |-> Tail(tl)]
        BY <3>6, <4>1, <4>2 DEF recv_body
      <4>5. r.got.st = "DONE" /\ r.got.body = M[3].m /\ r.got.line = line /\ r.buf = <<>>
        BY <1>2, <3>10, <4>2, <4>3, <4>4
      <4>6. Done(r.got, r.buf, M, k, clean)
        BY <3>7, <3>13, <4>5 DEF Done, BodyOf
      <4> QED BY <4>6 DEF r
    <3> QED BY <1>1, <2>9, <3>11, <3>12, <3>13
  <2> QED BY <2>7, <2>8, <2>9
<1> QED BY <1>3, <1>4

-----------------------------------------------------------------------------
(* Connections and exchanges.                                               *)

\* What is said of a slave and its connection depends on what is on its way up
\* and on whether it is clean.
LEMMA SameUp ==
  ASSUME NEW x, NEW n, NEW m, m.up = n.up, m.clean = n.clean
  PROVE  /\ \A M, k : Asked(x, n, M, k) <=> Asked(x, m, M, k)
         /\ \A M, k : Over(x, n, M, k) <=> Over(x, m, M, k)
         /\ Rests(x, n) <=> Rests(x, m)
         /\ Follows(x, n) <=> Follows(x, m)
<1>1. Rests(x, n) <=> Rests(x, m)
  BY DEF Rests
<1>2. \A M, k : Asked(x, n, M, k) <=> Asked(x, m, M, k)
  BY DEF Asked, Reads, Served
<1>3. \A M, k : Over(x, n, M, k) <=> Over(x, m, M, k)
  BY <1>1 DEF Over
<1>4. Follows(x, n) <=> Follows(x, m)
  BY <1>2 DEF Follows
<1> QED BY <1>1, <1>2, <1>3, <1>4

\* A slave that waits is ready for any message.
LEMMA RestsReads ==
  ASSUME NEW x, NEW n, Rests(x, n), NEW M, IsMessage(M)
  PROVE  Asked(x, n, M, 0)
<1>1. Part(<<>>, M, 0, 0) /\ 0 \in 0..2 /\ 0 # 2
  BY PartEmpty
<1>2. 0 \in 0..Len(M)
  BY DEF IsMessage
<1>3. Under(x.got, x.buf, n.up, M, 0, 0, n.clean)
  BY <1>1, <1>2 DEF Rests, Under
<1>4. Reads(x, n, M, 0)
  BY <1>1, <1>3 DEF Rests, Reads
<1> QED BY <1>4 DEF Asked

LEMMA OneFollows ==
  ASSUME NEW x, NEW n, NEW M, IsMessage(M), NEW k \in 0..Len(M), Asked(x, n, M, k) \/ Over(x, n, M, k)
  PROVE  Follows(x, n)
<1>1. CASE Asked(x, n, M, k)
  BY <1>1 DEF Follows
<1>2. CASE Closing(x)
  BY <1>2 DEF Follows, Asked
<1>3. CASE Rests(x, n)
  <2>1. Asked(x, n, M, 0) /\ 0 \in 0..Len(M)
    BY <1>3, RestsReads DEF IsMessage
  <2> QED BY <2>1 DEF Follows
<1> QED BY <1>1, <1>2, <1>3 DEF Over

\* A slave that waits or is about to close follows.
LEMMA RestFollows ==
  ASSUME NEW x, NEW n, Closing(x) \/ Rests(x, n)
  PROVE  Follows(x, n)
<1>1. PICK M : M = Message(NoCall)
  OBVIOUS
<1>2. IsMessage(M)
  BY <1>1, MessageIs
<1>3. 0 \in 0..Len(M)
  BY <1>2 DEF IsMessage
<1>4. CASE Closing(x)
  BY <1>2, <1>3, <1>4 DEF Follows, Asked
<1>5. CASE Rests(x, n)
  BY <1>2, <1>3, <1>5, RestsReads DEF Follows
<1> QED BY <1>4, <1>5

\* The next exchange begins on a connection at rest.
LEMMA ExchangeBegins ==
  ASSUME NEW v, v.sent = 0, v.got = Nothing, NEW n, n.sv # "queued", NEW c, NEW ss, Resting(n, c, ss)
  PROVE  Exchange(v, n, c, <<>>, ss)
<1>1. PICK M : M = Message(v.call)
  OBVIOUS
<1>2. IsMessage(M)
  BY <1>1, MessageIs
<1>3. ASSUME NEW s \in Slaves, ss[s].conn = c PROVE ss[s].out = <<>> /\ Asked(ss[s], n, M, 0)
  <2>1. ss[s].out = <<>> /\ (Closing(ss[s]) \/ Rests(ss[s], n))
    BY <1>3 DEF Resting
  <2>2. CASE Closing(ss[s])
    BY <2>1, <2>2 DEF Asked
  <2>3. CASE Rests(ss[s], n)
    BY <1>2, <2>1, <2>3, RestsReads
  <2> QED BY <2>1, <2>2, <2>3
<1>4. Pending(v, n, c, <<>>, ss)
  BY <1>1, <1>3 DEF Pending, Resting
<1> QED BY <1>4 DEF Exchange

\* Another piece of the request is sent.
Sends(v, w, n, m) ==
  /\ w.call = v.call /\ w.got = v.got /\ w.sent = v.sent + 1
  /\ v.sent \in 0..(Len(Message(v.call)) - 1)
  /\ m.up = Append(n.up, Message(v.call)[v.sent + 1])
  /\ m.clean = n.clean /\ m.sv = n.sv /\ m.down = n.down

LEMMA ExchangeSends ==
  ASSUME NEW v, NEW w, NEW n, NEW m, Sends(v, w, n, m), NEW c, NEW buf, NEW ss, Exchange(v, n, c, buf, ss)
  PROVE  Exchange(w, m, c, buf, ss)
<1>1. PICK M, k : M = Message(v.call) /\ k = v.sent
  OBVIOUS
<1>2. /\ IsMessage(M) /\ Len(M) \in {2, 3} /\ Message(w.call) = M
      /\ k \in 0..(Len(M) - 1) /\ w.sent = k + 1 /\ m.up = Append(n.up, M[k + 1])
      /\ w.call = v.call /\ w.got = v.got /\ m.clean = n.clean /\ m.sv = n.sv /\ m.down = n.down
  BY <1>1, MessageIs DEF Sends
<1>3. k \in Nat /\ k # Len(M) /\ k + 1 \in 0..Len(M) /\ k + 1 \in Nat
  BY <1>2
<1>4. ASSUME NEW a \in 0..2, NEW g, NEW b, Under(g, b, n.up, M, a, k, n.clean)
      PROVE  Under(g, b, m.up, M, a, k + 1, m.clean)
  <2>1. Part(n.up, M, a, k) /\ k \in a..Len(M) /\ a \in Nat
    BY <1>4 DEF Under
  <2>2. Part(m.up, M, a, k + 1)
    BY <1>2, <1>3, <2>1, PartMore
  <2>3. k + 1 \in a..Len(M)
    BY <1>2, <1>3, <2>1
  <2> QED BY <1>2, <1>4, <2>2, <2>3 DEF Under
<1>5. ASSUME NEW x, Asked(x, n, M, k) \/ Over(x, n, M, k)
      PROVE  Asked(x, m, M, k + 1)
  <2>1. x.pc = "failed" \/ Closing(x) \/ Reads(x, n, M, k)
    BY <1>3, <1>5 DEF Asked, Over, Served
  <2>2. CASE Reads(x, n, M, k)
    <3>1. Reads(x, m, M, k + 1)
      BY <1>4, <2>2 DEF Reads
    <3> QED BY <3>1 DEF Asked
  <2> QED BY <2>1, <2>2 DEF Asked
<1>6. CASE Pending(v, n, c, buf, ss)
  <2>1. n.sv = "queued" => Part(m.up, M, 0, k + 1)
    <3>1. n.sv = "queued" => Part(n.up, M, 0, k)
      BY <1>1, <1>6 DEF Pending
    <3> QED BY <1>2, <1>3, <3>1, PartMore
  <2>2. \A s \in Slaves : ss[s].conn = c => ss[s].out = <<>> /\ Asked(ss[s], m, M, k + 1)
    BY <1>1, <1>5, <1>6 DEF Pending
  <2>3. Pending(w, m, c, buf, ss)
    BY <1>2, <1>6, <2>1, <2>2 DEF Pending
  <2> QED BY <2>3 DEF Exchange
<1>7. CASE Coming(v, n, c, buf, ss)
  <2>1. PICK A : \E a \in 0..2, b \in 0..3 :
                   /\ OwnAnswer(A, v.call.id) /\ Under(v.got, buf, n.down, A, a, b, TRUE)
                   /\ \A s \in Slaves : ss[s].conn = c =>
                        Part(ss[s].out, A, b, 3) /\ Over(ss[s], n, Message(v.call), v.sent)
    BY <1>7 DEF Coming
  <2>2. PICK a \in 0..2, b \in 0..3 :
                   /\ OwnAnswer(A, v.call.id) /\ Under(v.got, buf, n.down, A, a, b, TRUE)
                   /\ \A s \in Slaves : ss[s].conn = c =>
                        Part(ss[s].out, A, b, 3) /\ Over(ss[s], n, Message(v.call), v.sent)
    BY <2>1
  <2>3. \A s \in Slaves : ss[s].conn = c => Part(ss[s].out, A, b, 3) /\ Over(ss[s], m, M, k + 1)
    <3>1. \A x : Over(x, n, M, k) => Over(x, m, M, k + 1)
      BY <1>3 DEF Over
    <3> QED BY <1>1, <2>2, <3>1
  <2>4. OwnAnswer(A, w.call.id) /\ Under(w.got, buf, m.down, A, a, b, TRUE) /\ m.sv # "queued"
    BY <1>2, <1>7, <2>2 DEF Coming
  <2>5. Coming(w, m, c, buf, ss)
    BY <1>2, <2>3, <2>4 DEF Coming
  <2> QED BY <2>5 DEF Exchange
<1> QED BY <1>6, <1>7 DEF Exchange

\* Nobody serves the connection any more.
LEMMA ExchangeAlone ==
  ASSUME NEW v, NEW w, w.call = v.call, w.got = v.got, NEW n, NEW m, m.sv = "closed", m.down = n.down,
         NEW c, NEW buf, NEW ss, Exchange(v, n, c, buf, ss), NEW zz, \A s \in Slaves : zz[s].conn # c
  PROVE  Exchange(w, m, c, buf, zz)
<1>1. CASE Pending(v, n, c, buf, ss)
  <2>1. Pending(w, m, c, buf, zz)
    BY <1>1 DEF Pending
  <2> QED BY <2>1 DEF Exchange
<1>2. CASE Coming(v, n, c, buf, ss)
  <2>1. Coming(w, m, c, buf, zz)
    BY <1>2 DEF Coming
  <2> QED BY <2>1 DEF Exchange
<1> QED BY <1>1, <1>2 DEF Exchange

\* The client reads.
OwnLine(g, id) ==
  /\ {"clean", "id", "body"} \subseteq DOMAIN g.line
  /\ g.line.clean /\ g.line.id # None => g.line.id = id /\ g.body.id = id

LEMMA ExchangeReads ==
  ASSUME NEW v, NEW n, NEW c, NEW buf, NEW ss, Exchange(v, n, c, buf, ss), n.down # <<>>,
         NEW m, m.up = n.up, m.clean = n.clean, m.sv = n.sv, m.down = <<>>,
         NEW r, r = http_recv(v.got, buf, n.down)
  PROVE  IF r.got.st = "DONE" THEN r.buf = <<>> /\ OwnLine(r.got, v.call.id) /\ Resting(m, c, ss)
         ELSE \A w : w.call = v.call /\ w.sent = v.sent /\ w.got = r.got => Exchange(w, m, c, r.buf, ss)
<1>1. Coming(v, n, c, buf, ss)
  BY DEF Exchange, Pending
<1>2. PICK A : \E a \in 0..2, b \in 0..3 :
                   /\ OwnAnswer(A, v.call.id) /\ Under(v.got, buf, n.down, A, a, b, TRUE)
                   /\ \A s \in Slaves : ss[s].conn = c =>
                        Part(ss[s].out, A, b, 3) /\ Over(ss[s], n, Message(v.call), v.sent)
  BY <1>1 DEF Coming
<1>3. PICK a \in 0..2, b \in 0..3 :
                   /\ OwnAnswer(A, v.call.id) /\ Under(v.got, buf, n.down, A, a, b, TRUE)
                   /\ \A s \in Slaves : ss[s].conn = c =>
                        Part(ss[s].out, A, b, 3) /\ Over(ss[s], n, Message(v.call), v.sent)
  BY <1>2
<1>4. IsMessage(A) /\ Len(A) = 3 /\ A[1].m.op = "answer"
  BY <1>3 DEF OwnAnswer
<1>5. Done(r.got, r.buf, A, b, TRUE) \/ More(r.got, r.buf, A, b, TRUE) \/ TooBig(r.got, r.buf, A, TRUE)
  BY <1>3, <1>4, Taken
<1>6. ~TooBig(r.got, r.buf, A, TRUE)
  BY <1>4 DEF TooBig
<1>7. \A s \in Slaves : ss[s].conn = c => Part(ss[s].out, A, b, 3) /\ Over(ss[s], m, Message(v.call), v.sent)
  BY <1>3, SameUp
<1>8. CASE Done(r.got, r.buf, A, b, TRUE)
  <2>1. r.got.st = "DONE" /\ b = 3 /\ r.buf = <<>> /\ r.got.body = A[3].m /\ r.got.line = A[1].m
    BY <1>4, <1>8 DEF Done, BodyOf
  <2>2. OwnLine(r.got, v.call.id)
    BY <1>3, <2>1 DEF OwnLine, OwnAnswer
  <2>3. \A u : Part(u, A, 3, 3) => u = <<>>
    BY PartEmpty
  <2>4. Resting(m, c, ss)
    BY <1>7, <2>1, <2>3 DEF Resting, Over
  <2> QED BY <2>1, <2>2, <2>4
<1>9. CASE More(r.got, r.buf, A, b, TRUE)
  <2>1. PICK d \in 0..2 : Under(r.got, r.buf, <<>>, A, d, b, TRUE)
    BY <1>9 DEF More
  <2>2. ASSUME NEW w, w.call = v.call, w.sent = v.sent, w.got = r.got PROVE Exchange(w, m, c, r.buf, ss)
    <3>1. OwnAnswer(A, w.call.id) /\ Under(w.got, r.buf, m.down, A, d, b, TRUE) /\ m.sv # "queued"
      BY <1>1, <1>3, <2>1, <2>2 DEF Coming
    <3>2. Coming(w, m, c, r.buf, ss)
      BY <1>7, <2>2, <3>1 DEF Coming
    <3> QED BY <3>2 DEF Exchange
  <2>3. r.got.st # "DONE"
    BY <1>9 DEF More
  <2> QED BY <2>2, <2>3
<1> QED BY <1>5, <1>6, <1>8, <1>9

-----------------------------------------------------------------------------
(* Whose answer it is: the steps of a client.                               *)

OwnTo(t) == HasAnswer(t) /\ th[t].ans.clean /\ th[t].ans.id # None
              => th[t].ans.id = th[t].call.id /\ th[t].ans.body = th[t].call.id

\* A connection and the slave at it.
LineOwn(c) == QueuedOwn(c) /\ \A s \in Slaves : sl[s].conn = c => SlaveOwn(s)

\* Control points at which a thread has nothing under way.
Plain == {"idle", "ret", "added", "cred", "close", "closed"} \cup Looking

LEMMA PlainThread ==
  ASSUME NEW t, th'[t].pc \in Plain, th'[t].px # 0 => net'[th'[t].px].peer = Proxy
  PROVE  ThreadOwn(t)'
<1>1. th'[t].pc \notin {"connect", "auth", "popen", "send", "psend", "recv", "precv"}
  BY DEF Plain, Looking
<1> QED BY <1>1 DEF ThreadOwn, SentOwn, AuthOwn, PoolOwn, ProxyOwn

\* The other threads.
LEMMA OtherThreadsOwn ==
  ASSUME RunInv, RunOwn, NEW t \in Threads, NEW i \in Idx \cup {0}, NEW c \in Conns \cup {0},
         Touches(t, i, c), Rightly(t, i, c), NEW u \in Threads \ {t}
  PROVE  ThreadOwn(u)'
<1>1. ThreadInv(u) /\ ThreadOwn(u) /\ LockInv
  BY DEF RunInv, RunOwn
<1>2. th'[u] = th[u] /\ sl' = sl
  BY DEF Touches
<1>3. th[u].pc \in InEntry => th[u].idx \in Idx /\ th[u].idx # i /\ pool'[th[u].idx] = pool[th[u].idx]
  <2>1. th[u].pc \in InEntry => th[u].idx \in Idx
    BY <1>1 DEF ThreadInv
  <2>2. th[u].idx \in Idx => locked_by[th[u].idx] = u /\ 0 \notin Idx
    BY <1>1 DEF LockInv, Idx
  <2>3. th[u].idx \in Idx => th[u].idx # i
    BY <2>2, PoolAssumption DEF Rightly
  <2> QED BY <2>1, <2>3 DEF Touches
<1>4. /\ th[u].conn # 0 => net'[th[u].conn] = net[th[u].conn]
      /\ th[u].px # 0 => net'[th[u].px] = net[th[u].px]
      /\ \A k \in Idx \ {i} : pool[k].gss # 0 => net'[pool[k].gss] = net[pool[k].gss]
  BY NotTouched
<1>5. SentOwn(u)'
  BY <1>1, <1>2 DEF ThreadOwn, SentOwn
<1>6. AuthOwn(u)'
  <2>1. th[u].pc = "auth" => th[u].conn # 0
    BY <1>1, AddressAssumption DEF ThreadInv
  <2> QED BY <1>1, <1>2, <1>4, <2>1 DEF ThreadOwn, AuthOwn
<1>7. PoolOwn(u)'
  <2> SUFFICES ASSUME th[u].pc \in {"send", "recv"} PROVE PoolOwn(u)'
    BY <1>2 DEF PoolOwn
  <2>1. PICK k : k = th[u].idx
    OBVIOUS
  <2>2. k \in Idx \ {i} /\ pool'[k] = pool[k] /\ pool[k].gss # 0
    BY <1>1, <1>3, <2>1 DEF ThreadInv, InEntry
  <2>3. net'[pool[k].gss] = net[pool[k].gss]
    BY <1>4, <2>2
  <2> QED BY <1>1, <1>2, <2>1, <2>2, <2>3 DEF ThreadOwn, PoolOwn
<1>8. ProxyOwn(u)'
  <2>1. th[u].pc \in {"psend", "precv"} => th[u].px # 0
    BY <1>1 DEF ThreadInv
  <2> QED BY <1>1, <1>2, <1>4, <2>1 DEF ThreadOwn, ProxyOwn
<1> QED BY <1>5, <1>6, <1>7, <1>8 DEF ThreadOwn

\* The whole invariant is kept when the step keeps it for what it touches.
LEMMA OwnClientKeeps ==
  ASSUME RunInv, RunOwn, NEW t \in Threads, NEW i \in Idx \cup {0}, NEW c \in Conns \cup {0},
         Touches(t, i, c), Rightly(t, i, c), ThreadOwn(t)', i # 0 => EntryOwn(i)', c # 0 => LineOwn(c)'
  PROVE  RunOwn'
<1>1. Idx' = Idx /\ sl' = sl /\ 0 \notin Conns /\ 0 \notin Idx /\ LockInv
  BY AddressAssumption DEF Touches, RunInv, Idx
<1>2. \A u \in Threads : ThreadOwn(u)'
  BY OtherThreadsOwn
<1>3. ASSUME NEW k \in Idx PROVE EntryOwn(k)'
  <2>1. CASE k # i
    <3>1. EntryOwn(k) /\ pool'[k] = pool[k] /\ locked_by'[k] = locked_by[k]
      BY <2>1 DEF RunOwn, Touches
    <3>2. locked_by[k] \in Threads => th'[locked_by[k]] = th[locked_by[k]]
      <4>1. locked_by[k] \in Threads => th[locked_by[k]].idx = k
        BY <1>1 DEF LockInv
      <4>2. locked_by[k] # t \/ locked_by[k] \notin Threads
        BY <1>1, <2>1, <4>1 DEF Rightly
      <4> QED BY <4>2 DEF Touches
    <3>3. pool[k].gss # 0 => net'[pool[k].gss] = net[pool[k].gss]
      BY <2>1, NotTouched
    <3> QED BY <1>1, <3>1, <3>2, <3>3 DEF EntryOwn
  <2>2. CASE k = i
    BY <1>1, <2>2
  <2> QED BY <2>1, <2>2
<1>4. ASSUME NEW d \in Conns PROVE QueuedOwn(d)'
  <2>1. CASE d # c
    <3>1. QueuedOwn(d) /\ net'[d] = net[d]
      BY <2>1 DEF RunOwn, Touches
    <3> QED BY <3>1 DEF QueuedOwn
  <2>2. CASE d = c
    BY <1>1, <2>2 DEF LineOwn
  <2> QED BY <2>1, <2>2
<1>5. ASSUME NEW s \in Slaves PROVE SlaveOwn(s)'
  <2>1. SlaveOwn(s) /\ SlaveInv(s)
    BY DEF RunOwn, RunInv, SlavesInv
  <2>2. CASE sl[s].conn = c /\ c # 0
    BY <1>1, <2>2 DEF LineOwn
  <2>3. CASE sl[s].pc = "free"
    BY <1>1, <2>1, <2>3 DEF SlaveOwn, Serving
  <2>4. CASE sl[s].pc # "free" /\ sl[s].conn # c
    <3>1. net'[sl[s].conn] = net[sl[s].conn]
      BY <2>1, <2>4 DEF SlaveInv, Touches
    <3> QED BY <1>1, <2>1, <3>1 DEF SlaveOwn
  <2>5. sl[s].pc # "free" => sl[s].conn # 0
    BY <1>1, <2>1 DEF SlaveInv
  <2> QED BY <2>2, <2>3, <2>4, <2>5
<1> QED BY <1>1, <1>2, <1>3, <1>4, <1>5 DEF RunOwn

LEMMA OwnAnswersKept ==
  ASSUME AnswerIsOwn, NEW t \in Threads, \A u \in Threads \ {t} : th'[u] = th[u], OwnTo(t)'
  PROVE  AnswerIsOwn'
  BY DEF AnswerIsOwn, OwnTo, HasAnswer

LEMMA OwnFinish ==
  ASSUME RunInv, OwnInv, RunOwn, NEW t \in Threads, NEW i \in Idx \cup {0}, NEW c \in Conns \cup {0},
         Touches(t, i, c), Rightly(t, i, c), ThreadOwn(t)', i # 0 => EntryOwn(i)', c # 0 => LineOwn(c)', OwnTo(t)'
  PROVE  OwnInv'
<1>1. RunOwn'
  BY OwnClientKeeps
<1>2. AnswerIsOwn'
  BY OwnAnswersKept DEF OwnInv, Touches
<1> QED BY <1>1, <1>2 DEF OwnInv

\* What a step that comes from At(t, pc) knows.
LEMMA OwnBegin ==
  ASSUME AsInv, OwnInv, NEW t \in Threads, NEW pc, At(t, pc)
  PROVE  /\ BudInv /\ RunInv /\ RunOwn /\ th[t].pc = pc
         /\ DOMAIN th = Threads /\ DOMAIN th[t] = DOMAIN NewThread
         /\ ThreadInv(t) /\ AuthInv(t) /\ ThreadOwn(t)
         /\ th[t].px # 0 => th[t].px \in Conns /\ net[th[t].px].peer = Proxy
<1>1. /\ BudInv /\ RunInv /\ RunOwn /\ th[t].pc = pc
      /\ DOMAIN th = Threads /\ DOMAIN th[t] = DOMAIN NewThread
      /\ ThreadInv(t) /\ AuthInv(t) /\ ThreadOwn(t)
  BY Begin DEF OwnInv, RunOwn
<1>2. th[t].px # 0 => net[th[t].px].peer = Proxy
  BY <1>1 DEF ThreadOwn, ProxyOwn
<1> QED BY <1>1, <1>2, Distinct

\* A step that changes nothing but the thread's record, and brings no answer.
OnlyOf(t) ==
  /\ sl' = sl /\ UNCHANGED <<pool, locked_by, net>> /\ Idx' = Idx /\ (\A u : Cert(u)' = Cert(u))
  /\ DOMAIN th' = Threads /\ (\A u \in Threads \ {t} : th'[u] = th[u])
  /\ th'[t].idx = th[t].idx /\ (th'[t].pc = "ret" => th'[t].ans = NoAns)
  /\ th[t].pc \in {"send", "recv", "close"} => th'[t].pc \in {"send", "recv", "close"}

LEMMA OwnThreadOnly ==
  ASSUME OwnInv, RunInv, RunOwn, NEW t \in Threads, OnlyOf(t), ThreadOwn(t)'
  PROVE  OwnInv'
<1>1. PICK i, c : i = th[t].idx /\ c = 0
  OBVIOUS
<1>2. i \in Idx \cup {0} /\ 0 \notin Idx /\ 0 \notin Conns /\ c \in Conns \cup {0}
  <2>1. 0 \notin Idx /\ 0 \notin Conns
    BY AddressAssumption DEF Idx
  <2> QED BY <1>1, <2>1 DEF RunInv, ThreadInv
<1>3. i # 0 => locked_by[i] = t
  BY <1>1, <1>2 DEF RunInv, LockInv
<1>4. Touches(t, i, c)
  BY <1>1 DEF Touches, RunInv, LockInv, NetInv, OnlyOf
<1>5. Rightly(t, i, c)
  BY <1>1, <1>3 DEF Rightly, OnlyOf
<1>6. i # 0 => EntryOwn(i)'
  <2> SUFFICES ASSUME i # 0 PROVE EntryOwn(i)'
    OBVIOUS
  <2>1. EntryOwn(i) /\ locked_by[i] = t
    BY <1>1, <1>2, <1>3 DEF RunOwn
  <2> QED BY <2>1 DEF EntryOwn, OnlyOf
<1>7. OwnTo(t)'
  BY DEF OwnTo, HasAnswer, OnlyOf
<1> QED BY <1>1, <1>2, <1>4, <1>5, <1>6, <1>7, OwnFinish

LEMMA LineSame ==
  ASSUME NEW c, LineOwn(c), sl' = sl, net'[c].up = net[c].up, net'[c].clean = net[c].clean,
         net'[c].peer = net[c].peer, net'[c].sv = "queued" => net[c].sv = "queued"
  PROVE  LineOwn(c)'
<1>1. QueuedOwn(c)'
  BY DEF LineOwn, QueuedOwn
<1>2. ASSUME NEW s \in Slaves, sl[s].conn = c PROVE SlaveOwn(s)'
  <2>1. SlaveOwn(s) /\ (Follows(sl[s], net[c]) <=> Follows(sl[s], net'[c]))
    BY <1>2, SameUp DEF LineOwn
  <2> QED BY <1>2, <2>1 DEF SlaveOwn
<1> QED BY <1>1, <1>2 DEF LineOwn

\* A connection without a slave.
LEMMA LineAlone ==
  ASSUME NEW c, \A s \in Slaves : sl'[s].conn # c, net'[c].sv = "queued" /\ net'[c].peer # Proxy => net'[c].up = <<Token>>
  PROVE  LineOwn(c)'
  BY DEF LineOwn, QueuedOwn

LEMMA LineIsOwn ==
  ASSUME RunOwn, NEW c \in Conns
  PROVE  LineOwn(c)
  BY DEF RunOwn, LineOwn

\* The client closes a connection.
LEMMA OwnGssClosed ==
  ASSUME RunInv, RunOwn, NEW c \in Conns, sl' = sl, net' = edg_wll_gss_close(net, c)
  PROVE  LineOwn(c)'
<1>1. /\ net'[c] = IF net[c].sv = "closed" THEN NoConn ELSE [net[c] EXCEPT !.cl = FALSE, !.down = <<>>]
      /\ DOMAIN net[c] = DOMAIN NoConn
  BY AddressAssumption DEF edg_wll_gss_close, RunInv, NetInv
<1>2. CASE net[c].sv = "closed"
  <2>1. \A s \in Slaves : sl[s].conn # c
    BY <1>2, AddressAssumption DEF RunInv, SlavesInv, SlaveInv
  <2>2. net'[c].sv = "closed"
    BY <1>1, <1>2 DEF NoConn
  <2> QED BY <2>1, <2>2, LineAlone
<1>3. CASE net[c].sv # "closed"
  <2>1. /\ net'[c].up = net[c].up /\ net'[c].clean = net[c].clean /\ net'[c].peer = net[c].peer
        /\ net'[c].sv = net[c].sv
    BY <1>1, <1>3, Records
  <2>2. LineOwn(c)
    BY LineIsOwn
  <2> QED BY <2>1, <2>2, LineSame
<1> QED BY <1>2, <1>3

LEMMA OwnCall ==
  ASSUME AsInv, OwnInv, NEW t \in Threads, Call(t), sl' = sl
  PROVE  OwnInv'
<1>1. /\ BudInv /\ RunInv /\ RunOwn /\ th[t].pc = "idle" /\ DOMAIN th = Threads /\ DOMAIN th[t] = DOMAIN NewThread
      /\ ThreadInv(t) /\ (th[t].px # 0 => net[th[t].px].peer = Proxy)
  BY OwnBegin DEF Call
<1>2. UNCHANGED <<pool, locked_by, net>>
  BY DEF Call
<1>3. Idx' = Idx /\ \A u : Cert(u)' = Cert(u)
  <2>1. bud'.who = bud.who /\ bud'.size = bud.size
    BY <1>1 DEF Call, BudInv
  <2> QED BY <2>1 DEF Idx, PoolSize, Cert
<1>4. PICK x : /\ th' = [th EXCEPT ![t] = x] /\ x.px = th[t].px /\ x.idx = th[t].idx /\ x.ans = NoAns
               /\ x.pc \in {"popen", "ret", "lock"} /\ x.sent = 0 /\ x.got = Nothing
  <2>1. PICK call, srv : th' = [th EXCEPT ![t] =
             IF call.proxy THEN [[th[t] EXCEPT !.call = call, !.stage = 1, !.sent = 0, !.got = Nothing,
                                               !.err = None, !.ans = NoAns] EXCEPT !.pc = "popen"]
             ELSE IF srv = "EINVAL"
             THEN [[th[t] EXCEPT !.call = call, !.stage = 1, !.sent = 0, !.got = Nothing,
                                 !.err = None, !.ans = NoAns] EXCEPT !.pc = "ret", !.err = "EINVAL"]
             ELSE [[th[t] EXCEPT !.call = call, !.stage = 1, !.sent = 0, !.got = Nothing,
                                 !.err = None, !.ans = NoAns] EXCEPT !.pc = "lock", !.srv = srv]]
    BY Zenon DEF Call
  <2>2. PICK z : z = [th[t] EXCEPT !.call = call, !.stage = 1, !.sent = 0, !.got = Nothing,
                                   !.err = None, !.ans = NoAns]
    OBVIOUS
  <2>3. DOMAIN z = DOMAIN NewThread /\ z.px = th[t].px /\ z.idx = th[t].idx /\ z.ans = NoAns /\ z.sent = 0 /\ z.got = Nothing
    BY ONLY <1>1, <2>2, Records
  <2>4. th' = [th EXCEPT ![t] = IF call.proxy THEN [z EXCEPT !.pc = "popen"]
                                ELSE IF srv = "EINVAL" THEN [z EXCEPT !.pc = "ret", !.err = "EINVAL"]
                                ELSE [z EXCEPT !.pc = "lock", !.srv = srv]]
    BY ONLY <2>1, <2>2
  <2>5. ASSUME NEW y, y \in {[z EXCEPT !.pc = "popen"], [z EXCEPT !.pc = "ret", !.err = "EINVAL"],
                             [z EXCEPT !.pc = "lock", !.srv = srv]}
        PROVE  /\ y.px = th[t].px /\ y.idx = th[t].idx /\ y.ans = NoAns
               /\ y.pc \in {"popen", "ret", "lock"} /\ y.sent = 0 /\ y.got = Nothing
    <3>1. CASE y = [z EXCEPT !.pc = "popen"]
      BY ONLY <2>3, <3>1, Records
    <3>2. CASE y = [z EXCEPT !.pc = "ret", !.err = "EINVAL"]
      BY ONLY <2>3, <3>2, Records
    <3>3. CASE y = [z EXCEPT !.pc = "lock", !.srv = srv]
      BY ONLY <2>3, <3>3, Records
    <3> QED BY <2>5, <3>1, <3>2, <3>3
  <2> QED BY <2>4, <2>5
<1>5. DOMAIN th' = Threads /\ (\A u \in Threads \ {t} : th'[u] = th[u]) /\ th'[t] = x
  BY <1>1, <1>4
<1>6. OnlyOf(t)
  BY <1>1, <1>2, <1>3, <1>4, <1>5 DEF OnlyOf
<1>7. ThreadOwn(t)'
  <2>1. CASE x.pc = "popen"
    BY <1>1, <1>2, <1>4, <1>5, <2>1 DEF ThreadOwn, SentOwn, AuthOwn, PoolOwn, ProxyOwn
  <2>2. CASE x.pc # "popen"
    <3>1. th'[t].pc \in Plain
      BY <1>4, <1>5, <2>2 DEF Plain, Looking
    <3> QED BY <1>1, <1>2, <1>4, <1>5, <3>1, PlainThread
  <2> QED BY <2>1, <2>2
<1> QED BY <1>1, <1>6, <1>7, OwnThreadOnly

\* A step of this kind after which the thread has nothing under way.
LEMMA OwnPlain ==
  ASSUME OwnInv, RunInv, RunOwn, NEW t \in Threads, OnlyOf(t), th'[t].pc \in Plain, th'[t].px \in {0, th[t].px}
  PROVE  OwnInv'
<1>1. th[t].px # 0 => net[th[t].px].peer = Proxy
  BY DEF RunOwn, ThreadOwn, ProxyOwn
<1>2. th'[t].px # 0 => net'[th'[t].px].peer = Proxy
  BY <1>1 DEF OnlyOf
<1>3. ThreadOwn(t)'
  BY <1>2, PlainThread
<1> QED BY <1>3, OwnThreadOnly

LEMMA OwnReturn ==
  ASSUME AsInv, OwnInv, NEW t \in Threads, Return(t), sl' = sl
  PROVE  OwnInv'
<1>1. /\ BudInv /\ RunInv /\ RunOwn /\ th[t].pc = "ret" /\ DOMAIN th = Threads /\ DOMAIN th[t] = DOMAIN NewThread
      /\ ThreadInv(t)
  BY OwnBegin DEF Return
<1>2. /\ DOMAIN th' = Threads /\ \A u \in Threads \ {t} : th'[u] = th[u]
      /\ th'[t].pc = "idle" /\ th'[t].px = th[t].px /\ th'[t].idx = 0
      /\ UNCHANGED <<pool, locked_by, net, bud>>
  BY <1>1 DEF Return, NewThread
<1>3. th[t].idx = 0
  BY <1>1 DEF ThreadInv, InEntry
<1>4. Idx' = Idx /\ \A u : Cert(u)' = Cert(u)
  BY <1>1, <1>2, BudgetKept
<1>5. OnlyOf(t) /\ th'[t].pc \in Plain
  BY <1>1, <1>2, <1>3, <1>4 DEF OnlyOf, Plain
<1> QED BY <1>1, <1>2, <1>5, OwnPlain

LEMMA OwnPoolCounted ==
  ASSUME AsInv, OwnInv, NEW t \in Threads, Released(t) \/ Added(t), sl' = sl
  PROVE  OwnInv'
<1>1. PICK p \in {"released", "added"} : At(t, p)
  BY DEF Released, Added
<1>2. /\ BudInv /\ RunInv /\ RunOwn /\ th[t].pc = p /\ DOMAIN th = Threads /\ DOMAIN th[t] = DOMAIN NewThread
  BY <1>1, OwnBegin
<1>3. /\ DOMAIN th' = Threads /\ \A u \in Threads \ {t} : th'[u] = th[u]
      /\ th'[t].pc \in {"add", "cred"} /\ th'[t].px = th[t].px /\ th'[t].idx = th[t].idx
      /\ UNCHANGED <<pool, locked_by, net, bud>>
  BY <1>2, Records DEF Released, Added
<1>4. Idx' = Idx /\ \A u : Cert(u)' = Cert(u)
  BY <1>2, <1>3, BudgetKept
<1>5. OnlyOf(t) /\ th'[t].pc \in Plain
  BY <1>2, <1>3, <1>4 DEF OnlyOf, Plain, Looking
<1> QED BY <1>2, <1>3, <1>5, OwnPlain

\* A step at an entry of the pool after which the thread has nothing under way
\* and the entry is at rest.
AtEntry(t, i, c) ==
  /\ Touches(t, i, c) /\ Rightly(t, i, c)
  /\ th'[t].pc \in Plain /\ th'[t].pc # "ret" /\ th'[t].px = th[t].px
  /\ c # 0 => LineOwn(c)'
  /\ th[t].px # 0 => c # th[t].px

LEMMA OwnAtEntry ==
  ASSUME OwnInv, RunInv, RunOwn, NEW t \in Threads, NEW i \in Idx, NEW c \in Conns \cup {0}, AtEntry(t, i, c),
         EntryOwn(i)'
  PROVE  OwnInv'
<1>1. th[t].px # 0 => net'[th[t].px] = net[th[t].px] /\ net[th[t].px].peer = Proxy
  BY Distinct DEF RunOwn, ThreadOwn, ProxyOwn, AtEntry, Touches
<1>2. th'[t].px # 0 => net'[th'[t].px].peer = Proxy
  BY <1>1 DEF AtEntry
<1>3. ThreadOwn(t)'
  BY <1>2, PlainThread DEF AtEntry
<1>4. OwnTo(t)'
  BY DEF OwnTo, HasAnswer, AtEntry
<1>5. i \in Idx \cup {0} /\ Touches(t, i, c) /\ Rightly(t, i, c) /\ (c # 0 => LineOwn(c)')
  BY DEF AtEntry
<1> QED BY <1>3, <1>4, <1>5, OwnFinish

\* An entry that nobody uses.
LEMMA EntryRests ==
  ASSUME RunInv, RunOwn, NEW i \in Idx,
         locked_by[i] \notin Threads \/ th[locked_by[i]].pc \notin {"send", "recv", "close"}
  PROVE  pool[i].buf = <<>> /\ (pool[i].gss # 0 => Resting(net[pool[i].gss], pool[i].gss, sl))
  BY DEF RunOwn, EntryOwn

LEMMA EntryStays ==
  ASSUME NEW i, sl' = sl, pool'[i].buf = <<>>, pool'[i].gss # 0 => Resting(net'[pool'[i].gss], pool'[i].gss, sl)
  PROVE  EntryOwn(i)'
  BY DEF EntryOwn

LEMMA OwnFind ==
  ASSUME AsInv, OwnInv, NEW t \in Threads, Find(t), sl' = sl
  PROVE  OwnInv'
<1>1. /\ BudInv /\ RunInv /\ RunOwn /\ th[t].pc = "lock" /\ DOMAIN th = Threads /\ DOMAIN th[t] = DOMAIN NewThread
      /\ ThreadInv(t)
  BY OwnBegin DEF Find
<1>2. th[t].idx = 0
  BY <1>1 DEF ThreadInv, InEntry
<1>3. UNCHANGED <<pool, net, bud>>
  BY DEF Find
<1>4. Idx' = Idx /\ \A u : Cert(u)' = Cert(u)
  BY <1>1, <1>3, BudgetKept
<1>5. PICK i : i = ConnectionIndex(t)
  OBVIOUS
<1>6. CASE i = 0
  <2>1. UNCHANGED locked_by /\ th' = [th EXCEPT ![t].pc = IF opened = PoolSize THEN "release" ELSE "add"]
    BY <1>5, <1>6 DEF Find
  <2>2. /\ DOMAIN th' = Threads /\ \A u \in Threads \ {t} : th'[u] = th[u]
        /\ th'[t].pc \in {"release", "add"} /\ th'[t].px = th[t].px /\ th'[t].idx = th[t].idx
    BY <1>1, <2>1, Records
  <2>3. OnlyOf(t) /\ th'[t].pc \in Plain
    BY <1>1, <1>3, <1>4, <2>1, <2>2 DEF OnlyOf, Plain, Looking
  <2> QED BY <1>1, <2>2, <2>3, OwnPlain
<1>7. CASE i # 0
  <2>1. locked_by' = [locked_by EXCEPT ![i] = t] /\ th' = [th EXCEPT ![t].pc = "cred", ![t].idx = i]
    BY <1>5, <1>7 DEF Find
  <2>2. i \in Idx /\ locked_by[i] = None
    <3> DEFINE fit == {k \in Unlocked : /\ pool[k].peer = th[t].srv
                                        /\ Cert(t) = None \/ pool[k].cert = Cert(t)}
    <3>1. fit \in SUBSET Nat
      BY DEF Unlocked, Idx
    <3>2. fit # {} /\ i = Min(fit)
      BY <1>5, <1>7 DEF ConnectionIndex
    <3>3. i \in fit
      BY <3>1, <3>2, MinProperty
    <3> QED BY <3>3 DEF Unlocked
  <2>3. /\ DOMAIN th' = Threads /\ \A u \in Threads \ {t} : th'[u] = th[u]
        /\ th'[t].pc = "cred" /\ th'[t].px = th[t].px /\ th'[t].idx = i
    BY <1>1, <2>1, Records
  <2>4. DOMAIN locked_by' = Idx /\ \A k \in Idx \ {i} : locked_by'[k] = locked_by[k]
    BY <1>1, <2>1 DEF RunInv, LockInv
  <2>5. PICK c : c = 0
    OBVIOUS
  <2>6. Touches(t, i, c)
    BY <1>1, <1>3, <1>4, <2>3, <2>4 DEF Touches, RunInv, NetInv
  <2>7. Rightly(t, i, c)
    BY <1>2, <2>2, <2>3, <2>5 DEF Rightly
  <2>8. AtEntry(t, i, c)
    BY <2>3, <2>5, <2>6, <2>7 DEF AtEntry, Plain
  <2>9. EntryOwn(i)'
    <3>1. locked_by[i] \notin Threads
      BY <2>2, PoolAssumption
    <3>2. pool[i].buf = <<>> /\ (pool[i].gss # 0 => Resting(net[pool[i].gss], pool[i].gss, sl))
      BY <1>1, <2>2, <3>1, EntryRests
    <3> QED BY <1>3, <3>2, EntryStays
  <2> QED BY <1>1, <2>2, <2>5, <2>8, <2>9, OwnAtEntry
<1> QED BY <1>6, <1>7

LEMMA OwnEntryCloses ==
  ASSUME AsInv, OwnInv, RunInv, RunOwn, NEW t \in Threads, NEW i \in Idx, locked_by[i] \in {t, None},
         sl' = sl, UNCHANGED <<bud, locked_by>>,
         net' = edg_wll_gss_close(net, pool[i].gss), pool' = [pool EXCEPT ![i] = NoEntry],
         DOMAIN th' = Threads, \A u \in Threads \ {t} : th'[u] = th[u],
         th[t].idx \in {0, i}, th'[t].idx = th[t].idx, th'[t].px = th[t].px,
         th'[t].pc \in Plain, th'[t].pc # "ret"
  PROVE  OwnInv'
<1>1. PICK c : c = pool[i].gss
  OBVIOUS
<1>2. c \in Conns \cup {0} /\ (c # 0 => th[t].px # c) /\ (c # 0 => c \in Conns)
  BY <1>1, Distinct
<1>3. Idx' = Idx /\ \A u : Cert(u)' = Cert(u)
  BY BudgetKept DEF AsInv
<1>4. DOMAIN net' = Conns /\ \A d \in Conns \ {c} : net'[d] = net[d]
  <2>1. NetInv
    BY DEF RunInv
  <2> QED BY <1>1, <1>2, <2>1, GssClosed
<1>5. DOMAIN pool' = Idx /\ pool'[i] = NoEntry /\ \A k \in Idx \ {i} : pool'[k] = pool[k]
  BY DEF RunInv
<1>6. Touches(t, i, c)
  BY <1>3, <1>4, <1>5 DEF Touches, RunInv, LockInv
<1>7. Rightly(t, i, c)
  BY <1>1, <1>2 DEF Rightly, Idx
<1>8. c # 0 => LineOwn(c)'
  BY <1>1, <1>2, OwnGssClosed
<1>9. AtEntry(t, i, c)
  BY <1>2, <1>6, <1>7, <1>8 DEF AtEntry
<1>10. EntryOwn(i)'
  <2>1. pool'[i].buf = <<>> /\ pool'[i].gss = 0
    BY <1>5 DEF NoEntry
  <2> QED BY <2>1, EntryStays
<1> QED BY <1>2, <1>9, <1>10, OwnAtEntry

LEMMA OwnStopped ==
  ASSUME OwnInv, NEW t \in Threads, dead', \A u \in Threads \ {t} : th'[u] = th[u], th' = th \/ th'[t].pc # "ret"
  PROVE  OwnInv'
<1>1. AnswerIsOwn
  BY DEF OwnInv
<1>2. AnswerIsOwn'
  BY <1>1 DEF AnswerIsOwn, HasAnswer
<1> QED BY <1>2 DEF OwnInv

LEMMA OwnRelease ==
  ASSUME AsInv, OwnInv, NEW t \in Threads, ReleaseConnection(t), sl' = sl
  PROVE  OwnInv'
<1>1. /\ BudInv /\ RunInv /\ RunOwn /\ th[t].pc = "release" /\ DOMAIN th = Threads /\ DOMAIN th[t] = DOMAIN NewThread
      /\ ThreadInv(t)
  BY OwnBegin DEF ReleaseConnection
<1>2. th[t].idx = 0 /\ th[t].ans = NoAns
  BY <1>1 DEF ThreadInv, InEntry
<1>3. UNCHANGED <<bud, locked_by>>
  BY DEF ReleaseConnection, OpenFails
<1>4. CASE \E i \in Idx : pool[i].peer = None
  BY <1>3, <1>4, OwnStopped DEF ReleaseConnection
<1>5. CASE OpenFails(t, "EAGAIN")
  <2>1. /\ DOMAIN th' = Threads /\ \A u \in Threads \ {t} : th'[u] = th[u]
        /\ th'[t].pc = "ret" /\ th'[t].px = th[t].px /\ th'[t].idx = th[t].idx /\ th'[t].ans = th[t].ans
    BY <1>1, <1>2, <1>5, Records DEF OpenFails
  <2>2. Idx' = Idx /\ \A u : Cert(u)' = Cert(u)
    BY <1>1, <1>3, BudgetKept
  <2>3. OnlyOf(t) /\ th'[t].pc \in Plain
    BY <1>1, <1>2, <1>5, <2>1, <2>2 DEF OnlyOf, Plain, OpenFails
  <2> QED BY <1>1, <2>1, <2>3, OwnPlain
<1>6. CASE ~(\E i \in Idx : pool[i].peer = None) /\ Unlocked # {}
  <2>1. CloseConnection(t, Oldest) /\ th' = [th EXCEPT ![t].pc = "released", ![t].tmp = opened]
    BY <1>6 DEF ReleaseConnection
  <2>2. /\ DOMAIN th' = Threads /\ \A u \in Threads \ {t} : th'[u] = th[u]
        /\ th'[t].pc = "released" /\ th'[t].px = th[t].px /\ th'[t].idx = th[t].idx
    BY <1>1, <2>1, Records
  <2>3. CASE opened = 0
    <3>1. dead'
      BY <2>1, <2>3 DEF CloseConnection
    <3> QED BY <1>3, <2>2, <3>1, OwnStopped
  <2>4. CASE opened # 0
    <3>1. PICK i : i = Oldest
      OBVIOUS
    <3>2. i \in Idx /\ locked_by[i] = None
      BY <1>1, <1>6, <3>1, OldestUnlocked
    <3>3. net' = edg_wll_gss_close(net, pool[i].gss) /\ pool' = [pool EXCEPT ![i] = NoEntry]
      BY <2>1, <2>4, <3>1 DEF CloseConnection
    <3>4. th[t].idx \in {0, i} /\ th'[t].pc # "ret" /\ th'[t].pc \in Plain /\ locked_by[i] \in {t, None}
      BY <1>2, <2>2, <3>2 DEF Plain, Looking
    <3> QED BY <1>1, <1>3, <2>2, <3>2, <3>3, <3>4, OwnEntryCloses
  <2> QED BY <2>3, <2>4
<1> QED BY <1>4, <1>5, <1>6 DEF ReleaseConnection

LEMMA OwnClose ==
  ASSUME AsInv, OwnInv, NEW t \in Threads, Close(t), sl' = sl
  PROVE  OwnInv'
<1>1. /\ BudInv /\ RunInv /\ RunOwn /\ th[t].pc = "close" /\ DOMAIN th = Threads /\ DOMAIN th[t] = DOMAIN NewThread
      /\ ThreadInv(t)
  BY OwnBegin DEF Close
<1>2. th[t].idx \in Idx
  BY <1>1 DEF ThreadInv, InEntry
<1>3. UNCHANGED <<bud, locked_by>>
  BY DEF Close
<1>4. /\ DOMAIN th' = Threads /\ \A u \in Threads \ {t} : th'[u] = th[u]
      /\ th'[t].pc = "closed" /\ th'[t].px = th[t].px /\ th'[t].idx = th[t].idx
  BY <1>1, Records DEF Close
<1>5. CASE opened = 0
  <2>1. dead'
    BY <1>5 DEF Close, CloseConnection
  <2> QED BY <1>3, <1>4, <2>1, OwnStopped
<1>6. CASE opened # 0
  <2>1. PICK i : i = th[t].idx
    OBVIOUS
  <2>2. i \in Idx /\ locked_by[i] = t
    BY <1>1, <1>2, <2>1 DEF RunInv, LockInv
  <2>3. net' = edg_wll_gss_close(net, pool[i].gss) /\ pool' = [pool EXCEPT ![i] = NoEntry]
    BY <1>6, <2>1 DEF Close, CloseConnection
  <2>4. th[t].idx \in {0, i} /\ th'[t].pc # "ret" /\ th'[t].pc \in Plain /\ locked_by[i] \in {t, None}
    BY <1>4, <2>1, <2>2 DEF Plain
  <2> QED BY <1>1, <1>3, <1>4, <2>2, <2>3, <2>4, OwnEntryCloses
<1> QED BY <1>5, <1>6

LEMMA OwnClosed ==
  ASSUME AsInv, OwnInv, NEW t \in Threads, Closed(t), sl' = sl
  PROVE  OwnInv'
<1>1. /\ BudInv /\ RunInv /\ RunOwn /\ th[t].pc = "closed" /\ DOMAIN th = Threads /\ DOMAIN th[t] = DOMAIN NewThread
      /\ ThreadInv(t) /\ (th[t].px # 0 => th[t].px \in Conns /\ net[th[t].px].peer = Proxy)
  BY OwnBegin DEF Closed
<1>2. th[t].idx \in Idx /\ th[t].next \in {"ret", "lock"} /\ th[t].ans = NoAns
  BY <1>1 DEF ThreadInv, InEntry
<1>3. PICK i, c : i = th[t].idx /\ c = 0
  OBVIOUS
<1>4. i \in Idx /\ i # 0 /\ locked_by[i] = t /\ i \in Idx \cup {0} /\ c \in Conns \cup {0}
  <2>1. i # 0
    BY <1>2, <1>3 DEF Idx
  <2> QED BY <1>1, <1>2, <1>3, <2>1 DEF RunInv, LockInv
<1>5. /\ UNCHANGED <<bud, pool, net>>
      /\ DOMAIN locked_by' = Idx /\ \A k \in Idx \ {i} : locked_by'[k] = locked_by[k]
  BY <1>1, <1>3, <1>4 DEF Closed, RunInv, LockInv
<1>6. /\ DOMAIN th' = Threads /\ \A u \in Threads \ {t} : th'[u] = th[u]
      /\ th'[t].pc \in {"ret", "lock"} /\ th'[t].px = th[t].px /\ th'[t].idx = 0 /\ th'[t].ans = NoAns
  BY <1>1, <1>2, Records DEF Closed
<1>7. Idx' = Idx /\ \A u : Cert(u)' = Cert(u)
  BY <1>1, <1>5, BudgetKept
<1>8. Touches(t, i, c)
  BY <1>1, <1>5, <1>6, <1>7 DEF Touches, RunInv, NetInv
<1>9. Rightly(t, i, c) /\ OwnTo(t)'
  BY <1>3, <1>4, <1>6 DEF Rightly, OwnTo, HasAnswer
<1>10. ThreadOwn(t)'
  <2>1. th'[t].pc \in Plain
    BY <1>6 DEF Plain, Looking
  <2> QED BY <1>1, <1>5, <1>6, <2>1, PlainThread
<1>11. EntryOwn(i)'
  <2>1. pool[i].buf = <<>> /\ (pool[i].gss # 0 => Resting(net[pool[i].gss], pool[i].gss, sl))
    BY <1>1, <1>4, EntryRests
  <2> QED BY <1>5, <2>1, EntryStays
<1> QED BY <1>1, <1>3, <1>4, <1>8, <1>9, <1>10, <1>11, OwnFinish

LEMMA OwnAdd ==
  ASSUME AsInv, OwnInv, NEW t \in Threads, AddConnection(t), sl' = sl
  PROVE  OwnInv'
<1> DEFINE free == {i \in Unlocked : pool[i].peer = None}
<1>1. /\ BudInv /\ RunInv /\ RunOwn /\ th[t].pc = "add" /\ DOMAIN th = Threads /\ DOMAIN th[t] = DOMAIN NewThread
      /\ ThreadInv(t)
  BY OwnBegin DEF AddConnection
<1>2. th[t].idx = 0 /\ th[t].ans = NoAns
  BY <1>1 DEF ThreadInv, InEntry
<1>3. Idx' = Idx /\ \A u : Cert(u)' = Cert(u)
  <2>1. UNCHANGED bud
    BY DEF AddConnection
  <2> QED BY <1>1, <2>1, BudgetKept
<1>4. CASE OpenFails(t, "EAGAIN")
  <2>1. /\ DOMAIN th' = Threads /\ \A u \in Threads \ {t} : th'[u] = th[u]
        /\ th'[t].pc = "ret" /\ th'[t].px = th[t].px /\ th'[t].idx = th[t].idx /\ th'[t].ans = th[t].ans
    BY <1>1, <1>2, <1>4, Records DEF OpenFails
  <2>2. OnlyOf(t) /\ th'[t].pc \in Plain
    BY <1>1, <1>2, <1>3, <1>4, <2>1 DEF OnlyOf, Plain, OpenFails
  <2> QED BY <1>1, <2>1, <2>2, OwnPlain
<1>5. CASE free # {}
  <2>1. PICK i, c : i = Min(free) /\ c = 0
    OBVIOUS
  <2>2. i \in Idx /\ locked_by[i] = None /\ pool[i].peer = None
    <3>1. free \in SUBSET Nat
      BY DEF Unlocked, Idx
    <3>2. i \in free
      BY <1>5, <2>1, <3>1, MinProperty
    <3> QED BY <3>2 DEF Unlocked
  <2>3. /\ locked_by' = [locked_by EXCEPT ![i] = t]
        /\ pool' = [pool EXCEPT ![i].peer = th[t].srv, ![i].cred = FALSE, ![i].cert = None]
        /\ th' = [th EXCEPT ![t].pc = "added", ![t].idx = i, ![t].tmp = opened]
        /\ UNCHANGED net
    BY <1>5, <2>1 DEF AddConnection
  <2>4. DOMAIN pool[i] = DOMAIN NoEntry /\ pool[i].buf = <<>> /\ pool[i].gss = 0 /\ DOMAIN pool = Idx
    BY <1>1, <2>2 DEF RunInv, EntryInv
  <2>5. /\ DOMAIN pool' = Idx /\ \A k \in Idx \ {i} : pool'[k] = pool[k]
        /\ pool'[i].buf = <<>> /\ pool'[i].gss = 0
    BY <2>2, <2>3, <2>4, Records
  <2>6. /\ DOMAIN th' = Threads /\ \A u \in Threads \ {t} : th'[u] = th[u]
        /\ th'[t].pc = "added" /\ th'[t].px = th[t].px /\ th'[t].idx = i
    BY <1>1, <2>3, Records
  <2>7. DOMAIN locked_by' = Idx /\ \A k \in Idx \ {i} : locked_by'[k] = locked_by[k]
    BY <1>1, <2>3 DEF RunInv, LockInv
  <2>8. Touches(t, i, c)
    BY <1>1, <1>3, <2>3, <2>5, <2>6, <2>7 DEF Touches, RunInv, NetInv
  <2>9. Rightly(t, i, c)
    BY <1>2, <2>1, <2>2, <2>6 DEF Rightly
  <2>10. AtEntry(t, i, c)
    BY <2>1, <2>6, <2>8, <2>9 DEF AtEntry, Plain
  <2>11. EntryOwn(i)'
    BY <2>5, EntryStays
  <2> QED BY <1>1, <2>1, <2>2, <2>10, <2>11, OwnAtEntry
<1> QED BY <1>4, <1>5 DEF AddConnection

\* A thread that has nothing under way, or is about to connect.
LEMMA EarlyThread ==
  ASSUME NEW t, th'[t].pc \in Plain \/ (th'[t].pc = "connect" /\ th'[t].sent = 0),
         th'[t].px # 0 => net'[th'[t].px].peer = Proxy
  PROVE  ThreadOwn(t)'
<1>1. CASE th'[t].pc \in Plain
  BY <1>1, PlainThread
<1>2. CASE th'[t].pc = "connect" /\ th'[t].sent = 0
  BY <1>2 DEF ThreadOwn, SentOwn, AuthOwn, PoolOwn, ProxyOwn
<1> QED BY <1>1, <1>2

\* The thread gives its connection up.
LEMMA OwnGivesUp ==
  ASSUME AsInv, OwnInv, RunInv, RunOwn, NEW t \in Threads, sl' = sl, Spends, UNCHANGED <<pool, locked_by, net>>,
         DOMAIN th' = Threads, \A u \in Threads \ {t} : th'[u] = th[u],
         th'[t].pc = "close", th'[t].idx = th[t].idx, th'[t].px = th[t].px
  PROVE  OwnInv'
<1>1. Idx' = Idx /\ \A u : Cert(u)' = Cert(u)
  BY SpendsKept DEF AsInv
<1>2. OnlyOf(t) /\ th'[t].pc \in Plain
  BY <1>1 DEF OnlyOf, Plain
<1> QED BY <1>2, OwnPlain

LEMMA OwnCredentials ==
  ASSUME AsInv, OwnInv, NEW t \in Threads, Credentials(t), sl' = sl
  PROVE  OwnInv'
<1>1. /\ BudInv /\ RunInv /\ RunOwn /\ th[t].pc = "cred" /\ DOMAIN th = Threads /\ DOMAIN th[t] = DOMAIN NewThread
      /\ ThreadInv(t) /\ (th[t].px # 0 => th[t].px \in Conns /\ net[th[t].px].peer = Proxy)
  BY OwnBegin DEF Credentials
<1>2. PICK i, c : i = th[t].idx /\ c = pool[i].gss
  OBVIOUS
<1>3. i \in Idx /\ th[t].got = Nothing /\ i # 0 /\ locked_by[i] = t
  <2>1. i \in Idx /\ th[t].got = Nothing
    BY <1>1, <1>2 DEF ThreadInv, InEntry, Looking
  <2>2. i # 0
    BY <2>1 DEF Idx
  <2> QED BY <1>1, <1>2, <2>1, <2>2 DEF RunInv, LockInv
<1>4. c \in Conns \cup {0} /\ (c # 0 => th[t].px # c) /\ (c # 0 => c \in Conns)
  BY <1>1, <1>2, <1>3, Distinct
<1>5. pool[i].buf = <<>> /\ (c # 0 => Resting(net[c], c, sl))
  BY <1>1, <1>2, <1>3, EntryRests
<1>6. UNCHANGED locked_by
  BY DEF Credentials
<1>7. CASE ~CredDue(t)
  <2>1. /\ th' = [th EXCEPT ![t].pc = IF c = 0 THEN "connect" ELSE "send",
                            ![t].left = Addresses, ![t].sent = 0]
        /\ UNCHANGED <<net, pool, bud>>
    BY <1>2, <1>7 DEF Credentials
  <2>2. /\ DOMAIN th' = Threads /\ \A u \in Threads \ {t} : th'[u] = th[u]
        /\ th'[t].pc = IF c = 0 THEN "connect" ELSE "send"
        /\ th'[t].px = th[t].px /\ th'[t].idx = i /\ th'[t].got = Nothing /\ th'[t].sent = 0
    BY <1>1, <1>2, <1>3, <2>1, Records
  <2>3. Idx' = Idx /\ \A u : Cert(u)' = Cert(u)
    BY <1>1, <2>1, BudgetKept
  <2>4. OnlyOf(t)
    BY <1>1, <1>2, <1>6, <2>1, <2>2, <2>3 DEF OnlyOf
  <2>5. ThreadOwn(t)'
    <3>1. CASE c = 0
      BY <1>1, <2>1, <2>2, <3>1, EarlyThread
    <3>2. CASE c # 0
      <4>1. net[c].sv # "queued"
        BY <1>1, <1>2, <1>3, <3>2 DEF RunInv, EntryInv
      <4>2. Exchange(th'[t], net[c], c, <<>>, sl)
        BY <1>5, <2>2, <3>2, <4>1, ExchangeBegins
      <4>3. PoolOwn(t)'
        BY <1>2, <1>5, <2>1, <2>2, <4>2 DEF PoolOwn
      <4>4. PICK M : M = Message(th'[t].call)
        OBVIOUS
      <4>5. Len(M) \in {2, 3}
        BY <4>4, MessageIs
      <4>6. 0 \in 0..(Len(M) - 1)
        BY <4>5
      <4>7. SentOwn(t)'
        BY <2>2, <3>2, <4>4, <4>6 DEF SentOwn
      <4>8. AuthOwn(t)' /\ ProxyOwn(t)'
        BY <1>1, <2>1, <2>2, <3>2 DEF AuthOwn, ProxyOwn
      <4> QED BY <4>3, <4>7, <4>8 DEF ThreadOwn
    <3> QED BY <3>1, <3>2
  <2> QED BY <1>1, <2>4, <2>5, OwnThreadOnly
<1>8. CASE CredDue(t)
  <2>1. CASE /\ pool' = [pool EXCEPT ![i].cred = TRUE, ![i].gss = 0, ![i].cert = Cert(t),
                                     ![i].mtime = IF Cert(t) = None THEN 0 ELSE files[Cert(t)]]
             /\ net' = edg_wll_gss_close(net, c)
             /\ th' = [th EXCEPT ![t].pc = IF 0 = 0 THEN "connect" ELSE "send",
                                 ![t].left = Addresses, ![t].sent = 0]
             /\ UNCHANGED bud
    <3>1. DOMAIN net' = Conns /\ \A d \in Conns \ {c} : net'[d] = net[d]
      <4>1. NetInv
        BY <1>1 DEF RunInv
      <4> QED BY <1>4, <2>1, <4>1, GssClosed
    <3>2. DOMAIN pool[i] = DOMAIN NoEntry /\ DOMAIN pool = Idx
      BY <1>1, <1>3 DEF RunInv, EntryInv
    <3>3. /\ DOMAIN pool' = Idx /\ \A k \in Idx \ {i} : pool'[k] = pool[k]
          /\ pool'[i].gss = 0 /\ pool'[i].buf = pool[i].buf
      BY <1>3, <2>1, <3>2, Records
    <3>4. /\ DOMAIN th' = Threads /\ \A u \in Threads \ {t} : th'[u] = th[u]
          /\ th'[t].pc = "connect" /\ th'[t].px = th[t].px /\ th'[t].idx = i /\ th'[t].sent = 0
      BY <1>1, <1>2, <2>1, Records
    <3>5. Idx' = Idx /\ \A u : Cert(u)' = Cert(u)
      BY <1>1, <2>1, BudgetKept
    <3>6. Touches(t, i, c)
      BY <1>1, <1>6, <3>1, <3>3, <3>4, <3>5 DEF Touches, RunInv, LockInv
    <3>7. Rightly(t, i, c)
      BY <1>2, <1>3, <3>4 DEF Rightly
    <3>8. ThreadOwn(t)' /\ OwnTo(t)'
      <4>1. th'[t].px # 0 => net'[th'[t].px].peer = Proxy
        BY <1>1, <1>4, <3>1, <3>4
      <4>2. OwnTo(t)'
        BY <3>4 DEF OwnTo, HasAnswer
      <4> QED BY <3>4, <4>1, <4>2, EarlyThread
    <3>9. EntryOwn(i)'
      BY <1>5, <3>3, EntryStays
    <3>10. c # 0 => LineOwn(c)'
      BY <1>1, <1>4, <2>1, OwnGssClosed
    <3>11. i \in Idx \cup {0}
      BY <1>3
    <3> QED BY <1>1, <1>4, <3>6, <3>7, <3>8, <3>9, <3>10, <3>11, OwnFinish
  <2>2. CASE Spend("faults") /\ GiveUp(t, "ret", "GSS") /\ UNCHANGED <<net, pool>>
    <3>1. /\ DOMAIN th' = Threads /\ \A u \in Threads \ {t} : th'[u] = th[u]
          /\ th'[t].pc = "close" /\ th'[t].px = th[t].px /\ th'[t].idx = th[t].idx
      BY <1>1, <2>2, Records DEF GiveUp
    <3> QED BY <1>1, <1>6, <2>2, <3>1, OwnGivesUp DEF Spends
  <2> QED BY <1>2, <1>8, <2>1, <2>2 DEF Credentials
<1> QED BY <1>7, <1>8

LEMMA OwnConnect ==
  ASSUME AsInv, OwnInv, NEW t \in Threads, Connect(t), sl' = sl
  PROVE  OwnInv'
<1>1. /\ BudInv /\ RunInv /\ RunOwn /\ th[t].pc = "connect" /\ DOMAIN th = Threads /\ DOMAIN th[t] = DOMAIN NewThread
      /\ ThreadInv(t) /\ ThreadOwn(t) /\ (th[t].px # 0 => th[t].px \in Conns /\ net[th[t].px].peer = Proxy)
  BY OwnBegin DEF Connect
<1>2. PICK i : i = th[t].idx
  OBVIOUS
<1>3. i \in Idx /\ i # 0 /\ locked_by[i] = t /\ th[t].sent = 0
  <2>1. i \in Idx
    BY <1>1, <1>2 DEF ThreadInv, InEntry, Looking
  <2>2. i # 0
    BY <2>1 DEF Idx
  <2>3. th[t].sent = 0
    BY <1>1 DEF ThreadOwn, SentOwn
  <2> QED BY <1>1, <1>2, <2>1, <2>2, <2>3 DEF RunInv, LockInv
<1>4. UNCHANGED <<pool, locked_by>>
  BY DEF Connect
<1>5. pool[i].buf = <<>> /\ (pool[i].gss # 0 => Resting(net[pool[i].gss], pool[i].gss, sl))
  BY <1>1, <1>3, EntryRests
<1>6. CASE /\ FreeConns(net) # {}
           /\ net' = do_connect(net, AConn(net), th[t].srv, pool[th[t].idx].cert)
           /\ th' = [th EXCEPT ![t].pc = "auth", ![t].conn = AConn(net)]
           /\ UNCHANGED bud
  <2>1. PICK c : c = AConn(net)
    OBVIOUS
  <2>2. c \in Conns /\ net[c] = NoConn /\ c # 0
    BY <1>6, <2>1, AConnFree, AddressAssumption
  <2>3. /\ DOMAIN net' = Conns /\ \A d \in Conns \ {c} : net'[d] = net[d]
        /\ net'[c].up = <<Token>>
    BY <1>1, <1>6, <2>1, <2>2 DEF do_connect, RunInv, NetInv, NoConn
  <2>4. (\A s \in Slaves : sl[s].conn # c) /\ th[t].px # c /\ pool[i].gss # c
    BY <1>1, <1>3, <2>2, FreeIsUnused
  <2>5. /\ DOMAIN th' = Threads /\ \A u \in Threads \ {t} : th'[u] = th[u]
        /\ th'[t].pc = "auth" /\ th'[t].px = th[t].px /\ th'[t].idx = i
        /\ th'[t].conn = c /\ th'[t].sent = 0
    BY <1>1, <1>2, <1>3, <1>6, <2>1, Records
  <2>6. Idx' = Idx /\ \A u : Cert(u)' = Cert(u)
    BY <1>1, <1>6, BudgetKept
  <2>7. Touches(t, i, c)
    BY <1>1, <1>4, <2>3, <2>5, <2>6 DEF Touches, RunInv, LockInv
  <2>8. Rightly(t, i, c) /\ OwnTo(t)'
    BY <1>2, <1>3, <2>2, <2>5 DEF Rightly, OwnTo, HasAnswer
  <2>9. LineOwn(c)'
    BY <2>3, <2>4, LineAlone
  <2>10. ThreadOwn(t)'
    <3>1. th'[t].px # 0 => net'[th'[t].px].peer = Proxy
      BY <1>1, <2>3, <2>4, <2>5
    <3>2. AuthOwn(t)'
      BY <2>4, <2>5 DEF AuthOwn
    <3> QED BY <2>5, <3>1, <3>2 DEF ThreadOwn, SentOwn, PoolOwn, ProxyOwn
  <2>11. EntryOwn(i)'
    <3>1. pool[i].gss # 0 => net'[pool[i].gss] = net[pool[i].gss]
      BY <1>1, <1>3, <2>3, <2>4, Distinct
    <3> QED BY <1>4, <1>5, <3>1, EntryStays
  <2>12. i \in Idx \cup {0} /\ c \in Conns \cup {0}
    BY <1>3, <2>2
  <2> QED BY <1>1, <2>7, <2>8, <2>9, <2>10, <2>11, <2>12, OwnFinish
<1>7. ASSUME NEW err, th' = [th EXCEPT ![t].pc = "close", ![t].next = "ret", ![t].err = err]
             \/ th' = [th EXCEPT ![t].pc = "close", ![t].next = "ret", ![t].err = err, ![t].conn = 0],
             Spend("faults"), UNCHANGED net
      PROVE  OwnInv'
  <2>1. /\ DOMAIN th' = Threads /\ \A u \in Threads \ {t} : th'[u] = th[u]
        /\ th'[t].pc = "close" /\ th'[t].px = th[t].px /\ th'[t].idx = th[t].idx
    BY <1>1, <1>7, Records
  <2> QED BY <1>1, <1>4, <1>7, <2>1, OwnGivesUp DEF Spends
<1>8. ASSUME th' = [th EXCEPT ![t].pc = "connect", ![t].left = @ - 1, ![t].conn = 0],
             Spend("faults"), UNCHANGED net
      PROVE  OwnInv'
  <2>1. /\ DOMAIN th' = Threads /\ \A u \in Threads \ {t} : th'[u] = th[u]
        /\ th'[t].pc = "connect" /\ th'[t].px = th[t].px /\ th'[t].idx = th[t].idx /\ th'[t].sent = 0
    BY <1>1, <1>3, <1>8, Records
  <2>2. Idx' = Idx /\ \A u : Cert(u)' = Cert(u)
    BY <1>1, <1>8, BudgetKept
  <2>3. OnlyOf(t)
    BY <1>1, <1>4, <1>8, <2>1, <2>2 DEF OnlyOf
  <2>4. ThreadOwn(t)'
    BY <1>1, <1>8, <2>1, EarlyThread
  <2> QED BY <1>1, <2>3, <2>4, OwnThreadOnly
<1>9. ASSUME Spend("faults"), UNCHANGED net,
             \E l \in Lookups :
                CASE asyn_getservbyname(l) = "end" -> GiveUp(t, "ret", gss_connect_error(l))
                  [] asyn_getservbyname(l) = "next" -> NextAddress(t, gss_connect_error(l))
                  [] OTHER -> NextAddress(t, "ECONNREFUSED")
      PROVE  OwnInv'
  <2>1. \E err : GiveUp(t, "ret", err) \/ NextAddress(t, err)
    BY <1>9
  <2>2. PICK err : GiveUp(t, "ret", err) \/ NextAddress(t, err)
    BY <2>1
  <2> QED BY <1>7, <1>8, <1>9, <2>2 DEF GiveUp, NextAddress
<1> QED BY <1>6, <1>9 DEF Connect

LEMMA OwnAuth ==
  ASSUME AsInv, OwnInv, NEW t \in Threads, Auth(t), sl' = sl
  PROVE  OwnInv'
<1>1. /\ BudInv /\ RunInv /\ RunOwn /\ th[t].pc = "auth" /\ DOMAIN th = Threads /\ DOMAIN th[t] = DOMAIN NewThread
      /\ ThreadInv(t) /\ AuthInv(t) /\ ThreadOwn(t)
      /\ (th[t].px # 0 => th[t].px \in Conns /\ net[th[t].px].peer = Proxy)
  BY OwnBegin DEF Auth
<1>2. PICK c, i : c = th[t].conn /\ i = th[t].idx
  OBVIOUS
<1>3. /\ i \in Idx /\ c \in Conns /\ i # 0 /\ c # 0 /\ locked_by[i] = t /\ th[t].got = Nothing /\ th[t].sent = 0
      /\ th[t].px # c /\ pool[i].gss # c
  <2>1. i \in Idx /\ c \in Conns /\ th[t].got = Nothing
    BY <1>1, <1>2 DEF ThreadInv, InEntry, Looking
  <2>2. i # 0 /\ c # 0
    BY <2>1, AddressAssumption DEF Idx
  <2>3. th[t].sent = 0
    BY <1>1 DEF ThreadOwn, SentOwn
  <2>4. th[t].px # c /\ pool[i].gss # c
    BY <1>1, <1>2, <2>1, <2>2, Distinct
  <2> QED BY <1>1, <1>2, <2>1, <2>2, <2>3, <2>4 DEF RunInv, LockInv
<1>4. UNCHANGED locked_by
  BY DEF Auth
<1>5. NetInv /\ DOMAIN net = Conns /\ DOMAIN net[c] = DOMAIN NoConn
  BY <1>1, <1>3 DEF RunInv, NetInv
<1>6. pool[i].buf = <<>> /\ (pool[i].gss # 0 => Resting(net[pool[i].gss], pool[i].gss, sl))
  BY <1>1, <1>3, EntryRests
<1>7. i \in Idx \cup {0} /\ c \in Conns \cup {0}
  BY <1>3
<1>8. CASE /\ try_conn_and_auth(net, c)
           /\ net' = Authenticated(net, c)
           /\ pool' = [pool EXCEPT ![i].gss = c]
           /\ th' = [th EXCEPT ![t].pc = "send", ![t].conn = 0]
           /\ UNCHANGED bud
  <2>1. /\ net[c].down = <<Token>> /\ net[c].sv # "queued"
        /\ \A s \in Slaves : sl[s].conn = c => sl[s].pc = "idle"
    <3>1. net[c].down # <<>>
      BY <1>8 DEF try_conn_and_auth
    <3> QED BY <1>1, <1>2, <1>3, <3>1 DEF AuthInv
  <2>2. /\ DOMAIN net' = Conns /\ \A d \in Conns \ {c} : net'[d] = net[d]
        /\ net'[c] = [net[c] EXCEPT !.down = <<>>]
    <3>1. Tail(net[c].down) = <<>>
      BY <2>1
    <3> QED BY <1>3, <1>5, <1>8, <3>1 DEF Authenticated
  <2>3. /\ net'[c].down = <<>> /\ net'[c].up = net[c].up /\ net'[c].clean = net[c].clean
        /\ net'[c].peer = net[c].peer /\ net'[c].sv = net[c].sv
    BY <1>5, <2>2, Records
  <2>4. DOMAIN pool[i] = DOMAIN NoEntry /\ DOMAIN pool = Idx
    BY <1>1, <1>3 DEF RunInv, EntryInv
  <2>5. /\ DOMAIN pool' = Idx /\ \A k \in Idx \ {i} : pool'[k] = pool[k]
        /\ pool'[i].gss = c /\ pool'[i].buf = pool[i].buf
    BY <1>3, <1>8, <2>4, Records
  <2>6. /\ DOMAIN th' = Threads /\ \A u \in Threads \ {t} : th'[u] = th[u]
        /\ th'[t].pc = "send" /\ th'[t].px = th[t].px /\ th'[t].idx = i
        /\ th'[t].got = Nothing /\ th'[t].sent = 0
    BY <1>1, <1>2, <1>3, <1>8, Records
  <2>7. Idx' = Idx /\ \A u : Cert(u)' = Cert(u)
    BY <1>1, <1>8, BudgetKept
  <2>8. Touches(t, i, c)
    BY <1>1, <1>4, <2>2, <2>5, <2>6, <2>7 DEF Touches, RunInv, LockInv
  <2>9. Rightly(t, i, c) /\ OwnTo(t)'
    BY <1>2, <1>3, <2>6 DEF Rightly, OwnTo, HasAnswer
  <2>10. LineOwn(c)'
    <3>1. LineOwn(c)
      BY <1>1, <1>3, LineIsOwn
    <3> QED BY <2>3, <3>1, LineSame
  <2>11. Resting(net'[c], c, sl)
    <3>1. ASSUME NEW s \in Slaves, sl[s].conn = c PROVE sl[s].out = <<>> /\ Rests(sl[s], net'[c])
      <4>1. sl[s].pc = "idle" /\ sl[s].out = <<>>
        BY <1>1, <2>1, <3>1 DEF RunInv, SlavesInv, SlaveInv
      <4>2. Rests(sl[s], net[c])
        BY <1>1, <1>2, <3>1, <4>1 DEF ThreadOwn, AuthOwn
      <4> QED BY <2>3, <4>1, <4>2, SameUp
    <3> QED BY <2>3, <3>1 DEF Resting
  <2>12. ThreadOwn(t)'
    <3>1. Exchange(th'[t], net'[c], c, <<>>, sl)
      BY <2>1, <2>3, <2>6, <2>11, ExchangeBegins
    <3>2. PoolOwn(t)'
      BY <1>6, <2>5, <2>6, <3>1 DEF PoolOwn
    <3>3. PICK M : M = Message(th'[t].call)
      OBVIOUS
    <3>4. Len(M) \in {2, 3}
      BY <3>3, MessageIs
    <3>5. 0 \in 0..(Len(M) - 1)
      BY <3>4
    <3>6. SentOwn(t)'
      BY <2>6, <3>3, <3>5 DEF SentOwn
    <3>7. AuthOwn(t)' /\ ProxyOwn(t)'
      BY <1>1, <1>3, <2>2, <2>6 DEF AuthOwn, ProxyOwn
    <3> QED BY <3>2, <3>6, <3>7 DEF ThreadOwn
  <2>13. EntryOwn(i)'
    BY <1>3, <1>4, <2>6 DEF EntryOwn
  <2> QED BY <1>1, <1>7, <2>8, <2>9, <2>10, <2>12, <2>13, OwnFinish
\* The connection is closed, and the thread goes on without.
<1>9. ASSUME net' = edg_wll_gss_close(net, c), UNCHANGED pool, Spends,
             DOMAIN th' = Threads, \A u \in Threads \ {t} : th'[u] = th[u],
             th'[t].pc \in {"connect", "close"}, th'[t].sent = 0, th'[t].px = th[t].px, th'[t].idx = i
      PROVE  OwnInv'
  <2>1. DOMAIN net' = Conns /\ \A d \in Conns \ {c} : net'[d] = net[d]
    BY <1>3, <1>5, <1>9, GssClosed
  <2>2. Idx' = Idx /\ \A u : Cert(u)' = Cert(u)
    BY <1>1, <1>9, SpendsKept
  <2>3. Touches(t, i, c)
    BY <1>1, <1>4, <1>9, <2>1, <2>2 DEF Touches, RunInv, LockInv
  <2>4. Rightly(t, i, c) /\ OwnTo(t)'
    BY <1>2, <1>3, <1>9 DEF Rightly, OwnTo, HasAnswer
  <2>5. LineOwn(c)'
    BY <1>1, <1>3, <1>9, OwnGssClosed
  <2>6. ThreadOwn(t)'
    <3>1. th'[t].px # 0 => net'[th'[t].px].peer = Proxy
      BY <1>1, <1>3, <1>9, <2>1
    <3> QED BY <1>9, <3>1, EarlyThread DEF Plain
  <2>7. EntryOwn(i)'
    <3>1. pool[i].gss # 0 => net'[pool[i].gss] = net[pool[i].gss]
      BY <1>1, <1>3, <2>1, Distinct
    <3> QED BY <1>6, <1>9, <3>1, EntryStays
  <2> QED BY <1>1, <1>7, <2>3, <2>4, <2>5, <2>6, <2>7, OwnFinish
<1>10. ASSUME NEW err, NextAddress(t, err), net' = edg_wll_gss_close(net, c), UNCHANGED <<pool, bud>>
       PROVE  OwnInv'
  <2>1. /\ DOMAIN th' = Threads /\ \A u \in Threads \ {t} : th'[u] = th[u]
        /\ th'[t].pc \in {"connect", "close"} /\ th'[t].sent = 0 /\ th'[t].px = th[t].px /\ th'[t].idx = i
    <3>1. CASE th' = [th EXCEPT ![t].pc = "connect", ![t].left = @ - 1, ![t].conn = 0]
      BY <1>1, <1>2, <1>3, <3>1, Records
    <3>2. CASE th' = [th EXCEPT ![t].pc = "close", ![t].next = "ret", ![t].err = err, ![t].conn = 0]
      BY <1>1, <1>2, <1>3, <3>2, Records
    <3> QED BY <1>10, <3>1, <3>2 DEF NextAddress
  <2> QED BY <1>9, <1>10, <2>1 DEF Spends
<1>11. ASSUME Spend("slow"), net' = edg_wll_gss_close(net, c), UNCHANGED pool,
              th' = [th EXCEPT ![t].pc = "close", ![t].next = "ret", ![t].err = "ETIMEDOUT", ![t].conn = 0]
       PROVE  OwnInv'
  <2>1. /\ DOMAIN th' = Threads /\ \A u \in Threads \ {t} : th'[u] = th[u]
        /\ th'[t].pc \in {"connect", "close"} /\ th'[t].sent = 0 /\ th'[t].px = th[t].px /\ th'[t].idx = i
    BY <1>1, <1>2, <1>3, <1>11, Records
  <2> QED BY <1>9, <1>11, <2>1 DEF Spends
<1> QED BY <1>2, <1>8, <1>10, <1>11 DEF Auth

\* A slave at a connection with an exchange follows it.
LEMMA ExchangeFollows ==
  ASSUME NEW v, NEW n, NEW c, NEW buf, NEW ss, Exchange(v, n, c, buf, ss),
         v.sent \in 0..Len(Message(v.call)), NEW s \in Slaves, ss[s].conn = c
  PROVE  Follows(ss[s], n)
<1>1. PICK M, k : M = Message(v.call) /\ k = v.sent
  OBVIOUS
<1>2. IsMessage(M) /\ k \in 0..Len(M)
  BY <1>1, MessageIs
<1>3. Asked(ss[s], n, M, k) \/ Over(ss[s], n, M, k)
  <2>1. CASE Pending(v, n, c, buf, ss)
    BY <1>1, <2>1 DEF Pending
  <2>2. CASE Coming(v, n, c, buf, ss)
    BY <1>1, <2>2 DEF Coming
  <2> QED BY <2>1, <2>2 DEF Exchange
<1> QED BY <1>2, <1>3, OneFollows

LEMMA OwnSend ==
  ASSUME AsInv, OwnInv, NEW t \in Threads, http_send(t), sl' = sl
  PROVE  OwnInv'
<1>1. /\ BudInv /\ RunInv /\ RunOwn /\ th[t].pc = "send" /\ DOMAIN th = Threads /\ DOMAIN th[t] = DOMAIN NewThread
      /\ ThreadInv(t) /\ ThreadOwn(t) /\ (th[t].px # 0 => th[t].px \in Conns /\ net[th[t].px].peer = Proxy)
  BY OwnBegin DEF http_send
<1>2. PICK i, c : i = th[t].idx /\ c = pool[i].gss
  OBVIOUS
<1>3. /\ i \in Idx /\ i # 0 /\ locked_by[i] = t /\ c \in Conns /\ c # 0 /\ th[t].px # c
      /\ net[c].sv # "queued" /\ net[c].peer # Proxy
  <2>1. i \in Idx /\ pool[i].gss # 0
    BY <1>1, <1>2 DEF ThreadInv, InEntry, Looking
  <2>2. i # 0
    BY <2>1 DEF Idx
  <2>3. net[c].sv # "queued" /\ net[c].peer # Proxy
    BY <1>1, <1>2, <2>1 DEF RunInv, EntryInv
  <2> QED BY <1>1, <1>2, <2>1, <2>2, <2>3, Distinct DEF RunInv, LockInv
<1>4. UNCHANGED <<pool, locked_by>>
  BY DEF http_send
<1>5. NetInv /\ DOMAIN net = Conns /\ DOMAIN net[c] = DOMAIN NoConn
  BY <1>1, <1>3 DEF RunInv, NetInv
<1>6. PICK M, k : M = Message(th[t].call) /\ k = th[t].sent
  OBVIOUS
<1>7. k \in 0..(Len(M) - 1) /\ Len(M) \in {2, 3} /\ Exchange(th[t], net[c], c, pool[i].buf, sl)
  BY <1>1, <1>2, <1>6, MessageIs DEF ThreadOwn, SentOwn, PoolOwn
\* A piece is sent.
<1>8. ASSUME th' = [th EXCEPT ![t].sent = k + 1, ![t].pc = IF k + 1 = Len(M) THEN "recv" ELSE "send"],
             net' = write_up(net, c, M[k + 1]), UNCHANGED bud
      PROVE  OwnInv'
  <2>1. /\ DOMAIN th' = Threads /\ \A u \in Threads \ {t} : th'[u] = th[u]
        /\ th'[t].pc = (IF k + 1 = Len(M) THEN "recv" ELSE "send") /\ th'[t].sent = k + 1
        /\ th'[t].px = th[t].px /\ th'[t].idx = i /\ th'[t].call = th[t].call /\ th'[t].got = th[t].got
    BY <1>1, <1>2, <1>8, Records
  <2>2. DOMAIN net' = Conns /\ \A d \in Conns \ {c} : net'[d] = net[d]
    BY <1>3, <1>5, <1>8 DEF write_up
  <2>3. /\ net'[c].clean = net[c].clean /\ net'[c].sv = net[c].sv /\ net'[c].down = net[c].down
        /\ net'[c].peer = net[c].peer
        /\ net'[c].up = IF net[c].sv = "closed" THEN net[c].up ELSE Append(net[c].up, M[k + 1])
    <3>1. CASE net[c].sv = "closed"
      BY <1>8, <3>1 DEF write_up
    <3>2. CASE net[c].sv # "closed"
      <4>1. net'[c] = [net[c] EXCEPT !.up = Append(net[c].up, M[k + 1])]
        BY <1>3, <1>5, <1>8, <3>2 DEF write_up
      <4> QED BY <1>5, <3>2, <4>1, Records
    <3> QED BY <3>1, <3>2
  <2>4. net[c].sv = "closed" => \A s \in Slaves : sl[s].conn # c
    BY <1>1, <1>3 DEF RunInv, SlavesInv, SlaveInv
  <2>5. Exchange(th'[t], net'[c], c, pool[i].buf, sl)
    <3>1. CASE net[c].sv = "closed"
      BY <1>7, <2>1, <2>3, <2>4, <3>1, ExchangeAlone
    <3>2. CASE net[c].sv # "closed"
      <4>1. Sends(th[t], th'[t], net[c], net'[c])
        BY <1>6, <1>7, <2>1, <2>3, <3>2 DEF Sends
      <4> QED BY <1>7, <4>1, ExchangeSends
    <3> QED BY <3>1, <3>2
  <2>6. Idx' = Idx /\ \A u : Cert(u)' = Cert(u)
    BY <1>1, <1>8, BudgetKept
  <2>7. Touches(t, i, c)
    BY <1>1, <1>4, <2>1, <2>2, <2>6 DEF Touches, RunInv, LockInv
  <2>8. Rightly(t, i, c) /\ OwnTo(t)'
    BY <1>2, <1>3, <2>1 DEF Rightly, OwnTo, HasAnswer
  <2>9. k + 1 \in 0..Len(M) /\ (k + 1 # Len(M) => k + 1 \in 0..(Len(M) - 1))
    BY <1>7
  <2>10. ThreadOwn(t)'
    <3>1. SentOwn(t)'
      <4>1. CASE k + 1 = Len(M)
        BY <1>6, <2>1, <4>1 DEF SentOwn
      <4>2. CASE k + 1 # Len(M)
        BY <1>6, <2>1, <2>9, <4>2 DEF SentOwn
      <4> QED BY <4>1, <4>2
    <3>2. PoolOwn(t)'
      BY <1>2, <1>4, <2>1, <2>5 DEF PoolOwn
    <3>3. AuthOwn(t)' /\ ProxyOwn(t)'
      BY <1>1, <1>3, <2>1, <2>2 DEF AuthOwn, ProxyOwn
    <3> QED BY <3>1, <3>2, <3>3 DEF ThreadOwn
  <2>11. EntryOwn(i)'
    BY <1>3, <1>4, <2>1 DEF EntryOwn
  <2>12. LineOwn(c)'
    <3>1. QueuedOwn(c)'
      BY <1>3, <2>3 DEF QueuedOwn
    <3>2. ASSUME NEW s \in Slaves, sl[s].conn = c PROVE SlaveOwn(s)'
      <4>1. SlaveOwn(s) /\ SlaveInv(s) /\ ~IsProxy(s) /\ sl[s].pc \in Serving
        BY <1>1, <1>2, <1>3, <3>2 DEF RunOwn, RunInv, SlavesInv, SlaveInv, EntryInv, ServedInv, IsProxy
      <4>2. Follows(sl[s], net'[c])
        BY <1>6, <2>1, <2>5, <2>9, <3>2, ExchangeFollows
      <4>3. sl[s].pc \notin {"free", "accept"}
        BY <4>1 DEF Serving
      <4> QED BY <3>2, <4>1, <4>2, <4>3 DEF SlaveOwn
    <3> QED BY <3>1, <3>2 DEF LineOwn
  <2>13. i \in Idx \cup {0} /\ c \in Conns \cup {0}
    BY <1>3
  <2> QED BY <1>1, <2>7, <2>8, <2>10, <2>11, <2>12, <2>13, OwnFinish
\* The sending fails.
<1>9. ASSUME NEW nx \in {"ret", "lock"}, NEW err, NEW st,
             \/ th' = [th EXCEPT ![t].pc = "close", ![t].next = nx, ![t].stage = st]
             \/ th' = [th EXCEPT ![t].pc = "close", ![t].next = nx, ![t].err = err],
             UNCHANGED bud \/ Spend("slow"), UNCHANGED net
      PROVE  OwnInv'
  <2>1. /\ DOMAIN th' = Threads /\ \A u \in Threads \ {t} : th'[u] = th[u]
        /\ th'[t].pc = "close" /\ th'[t].px = th[t].px /\ th'[t].idx = th[t].idx
    BY <1>1, <1>9, Records
  <2> QED BY <1>1, <1>4, <1>9, <2>1, OwnGivesUp DEF Spends
<1>10. CASE Spend("slow") /\ GiveUp(t, "ret", "ETIMEDOUT") /\ UNCHANGED net
  BY <1>9, <1>10 DEF GiveUp
<1>11. ASSUME NEW r \in real_write(net, c),
                 IF r = "ok"
                 THEN th' = [th EXCEPT ![t].sent = k + 1, ![t].pc = IF k + 1 = Len(M) THEN "recv" ELSE "send"]
                 ELSE IF r = "ENOTCONN" /\ th[t].stage = 1
                 THEN th' = [th EXCEPT ![t].pc = "close", ![t].next = "lock", ![t].stage = 2]
                 ELSE GiveUp(t, "ret", r),
                 net' = IF r = "ok" THEN write_up(net, c, M[k + 1]) ELSE net,
                 UNCHANGED bud
       PROVE  OwnInv'
  <2>1. CASE r = "ok"
    BY <1>8, <1>11, <2>1
  <2>2. CASE r # "ok" /\ r = "ENOTCONN" /\ th[t].stage = 1
    BY <1>9, <1>11, <2>2
  <2>3. CASE r # "ok" /\ ~(r = "ENOTCONN" /\ th[t].stage = 1)
    BY <1>9, <1>11, <2>3 DEF GiveUp
  <2> QED BY <2>1, <2>2, <2>3
<1>12. Request(t) = M
  BY <1>6 DEF Request, Message
<1> QED BY <1>2, <1>6, <1>10, <1>11, <1>12 DEF http_send

LEMMA OwnRecv ==
  ASSUME AsInv, OwnInv, NEW t \in Threads, http_send_recv(t), sl' = sl
  PROVE  OwnInv'
<1>1. /\ BudInv /\ RunInv /\ RunOwn /\ th[t].pc = "recv" /\ DOMAIN th = Threads /\ DOMAIN th[t] = DOMAIN NewThread
      /\ ThreadInv(t) /\ ThreadOwn(t) /\ (th[t].px # 0 => th[t].px \in Conns /\ net[th[t].px].peer = Proxy)
  BY OwnBegin DEF http_send_recv
<1>2. PICK i, c : i = th[t].idx /\ c = pool[i].gss
  OBVIOUS
<1>3. /\ i \in Idx /\ i # 0 /\ locked_by[i] = t /\ c \in Conns /\ c # 0 /\ th[t].px # c
  <2>1. i \in Idx /\ pool[i].gss # 0
    BY <1>1, <1>2 DEF ThreadInv, InEntry, Looking
  <2>2. i # 0
    BY <2>1 DEF Idx
  <2> QED BY <1>1, <1>2, <2>1, <2>2, Distinct DEF RunInv, LockInv
<1>4. /\ DOMAIN net = Conns /\ DOMAIN net[c] = DOMAIN NoConn
      /\ DOMAIN pool[i] = DOMAIN NoEntry /\ DOMAIN pool = Idx /\ DOMAIN locked_by = Idx
  BY <1>1, <1>3 DEF RunInv, NetInv, EntryInv, LockInv
<1>5. th[t].sent = Len(Message(th[t].call)) /\ Exchange(th[t], net[c], c, pool[i].buf, sl)
  BY <1>1, <1>2 DEF ThreadOwn, SentOwn, PoolOwn
<1>6. CASE /\ net[c].down # <<>>
           /\ LET r == http_recv(th[t].got, pool[i].buf, net[c].down)
              IN  IF r.got.st = "DONE" THEN GotAnswer(t, r)
                  ELSE /\ th' = [th EXCEPT ![t].got = r.got]
                       /\ pool' = [pool EXCEPT ![i].buf = r.buf]
                       /\ UNCHANGED locked_by
           /\ net' = read_down(net, c)
           /\ UNCHANGED bud
  <2>1. PICK r : r = http_recv(th[t].got, pool[i].buf, net[c].down)
    OBVIOUS
  <2>2. /\ DOMAIN net' = Conns /\ \A d \in Conns \ {c} : net'[d] = net[d]
        /\ net'[c].up = net[c].up /\ net'[c].down = <<>> /\ net'[c].clean = net[c].clean
        /\ net'[c].peer = net[c].peer /\ net'[c].sv = net[c].sv
    <3>1. DOMAIN net' = Conns /\ (\A d \in Conns \ {c} : net'[d] = net[d]) /\ net'[c] = [net[c] EXCEPT !.down = <<>>]
      BY <1>3, <1>4, <1>6 DEF read_down
    <3> QED BY <1>4, <3>1, Records
  <2>3. IF r.got.st = "DONE" THEN r.buf = <<>> /\ OwnLine(r.got, th[t].call.id) /\ Resting(net'[c], c, sl)
        ELSE \A w : w.call = th[t].call /\ w.sent = th[t].sent /\ w.got = r.got => Exchange(w, net'[c], c, r.buf, sl)
    BY <1>5, <1>6, <2>1, <2>2, ExchangeReads
  <2>4. Idx' = Idx /\ \A u : Cert(u)' = Cert(u)
    BY <1>1, <1>6, BudgetKept
  <2>5. i \in Idx \cup {0} /\ c \in Conns \cup {0}
    BY <1>3
  <2>6. LineOwn(c)'
    <3>1. LineOwn(c)
      BY <1>1, <1>3, LineIsOwn
    <3> QED BY <2>2, <3>1, LineSame
  <2>7. CASE r.got.st = "DONE"
    <3>1. PICK m : m = 1 + Max({pool[k].used : k \in Idx})
      OBVIOUS
    <3>2. PICK a : a = [r.got.line EXCEPT !.body = r.got.body.id]
      OBVIOUS
    <3>3. /\ th' = [th EXCEPT ![t].pc = "ret", ![t].idx = 0, ![t].ans = a]
          /\ pool' = [pool EXCEPT ![i].buf = r.buf, ![i].used = m]
          /\ locked_by' = [locked_by EXCEPT ![i] = None]
      BY <1>2, <1>6, <2>1, <2>7, <3>1, <3>2 DEF GotAnswer
    <3>4. /\ DOMAIN pool' = Idx /\ \A k \in Idx \ {i} : pool'[k] = pool[k]
          /\ pool'[i].gss = c /\ pool'[i].buf = r.buf
      BY ONLY <1>2, <1>3, <1>4, <3>3, Records
    <3>5. /\ DOMAIN th' = Threads /\ \A u \in Threads \ {t} : th'[u] = th[u]
          /\ th'[t].pc = "ret" /\ th'[t].px = th[t].px /\ th'[t].idx = 0
          /\ th'[t].ans = a /\ th'[t].call = th[t].call
      BY ONLY <1>1, <3>3, Records
    <3>6. DOMAIN locked_by' = Idx /\ \A k \in Idx \ {i} : locked_by'[k] = locked_by[k]
      BY <1>3, <1>4, <3>3
    <3>7. Touches(t, i, c)
      BY <2>2, <2>4, <3>4, <3>5, <3>6 DEF Touches
    <3>8. Rightly(t, i, c)
      BY <1>2, <1>3, <3>5 DEF Rightly
    <3>9. ThreadOwn(t)'
      <4>1. th'[t].px # 0 => net'[th'[t].px].peer = Proxy
        BY <1>1, <1>3, <2>2, <3>5
      <4> QED BY <3>5, <4>1, EarlyThread DEF Plain
    <3>10. EntryOwn(i)'
      BY <2>3, <2>7, <3>4, EntryStays
    <3>11. OwnTo(t)'
      <4>1. /\ {"clean", "id", "body"} \subseteq DOMAIN r.got.line
            /\ r.got.line.clean /\ r.got.line.id # None => r.got.line.id = th[t].call.id /\ r.got.body.id = th[t].call.id
        BY <2>3, <2>7 DEF OwnLine
      <4>2. a.clean = r.got.line.clean /\ a.id = r.got.line.id /\ a.body = r.got.body.id
        BY ONLY <3>2, <4>1
      <4> QED BY ONLY <3>5, <4>1, <4>2 DEF OwnTo
    <3> QED BY <1>1, <2>5, <2>6, <3>7, <3>8, <3>9, <3>10, <3>11, OwnFinish
  <2>8. CASE r.got.st # "DONE"
    <3>1. th' = [th EXCEPT ![t].got = r.got] /\ pool' = [pool EXCEPT ![i].buf = r.buf] /\ UNCHANGED locked_by
      BY <1>6, <2>1, <2>8
    <3>2. /\ DOMAIN pool' = Idx /\ \A k \in Idx \ {i} : pool'[k] = pool[k]
          /\ pool'[i].gss = c /\ pool'[i].buf = r.buf
      BY ONLY <1>2, <1>3, <1>4, <3>1, Records
    <3>3. /\ DOMAIN th' = Threads /\ \A u \in Threads \ {t} : th'[u] = th[u]
          /\ th'[t].pc = "recv" /\ th'[t].px = th[t].px /\ th'[t].idx = i
          /\ th'[t].got = r.got /\ th'[t].call = th[t].call /\ th'[t].sent = th[t].sent
      BY ONLY <1>1, <1>2, <3>1, Records
    <3>4. Touches(t, i, c)
      BY <1>4, <2>2, <2>4, <3>1, <3>2, <3>3 DEF Touches
    <3>5. Rightly(t, i, c) /\ OwnTo(t)'
      BY <1>2, <1>3, <3>3 DEF Rightly, OwnTo, HasAnswer
    <3>6. ThreadOwn(t)'
      <4>1. Exchange(th'[t], net'[c], c, r.buf, sl)
        BY <2>3, <2>8, <3>3
      <4>2. PoolOwn(t)' /\ SentOwn(t)'
        BY <1>5, <3>2, <3>3, <4>1 DEF PoolOwn, SentOwn
      <4>3. AuthOwn(t)' /\ ProxyOwn(t)'
        BY <1>1, <1>3, <2>2, <3>3 DEF AuthOwn, ProxyOwn
      <4> QED BY <4>2, <4>3 DEF ThreadOwn
    <3>7. EntryOwn(i)'
      BY <1>3, <3>1, <3>3 DEF EntryOwn
    <3> QED BY <1>1, <2>5, <2>6, <3>4, <3>5, <3>6, <3>7, OwnFinish
  <2> QED BY <2>7, <2>8
\* The answer does not come.
<1>7. ASSUME NEW nx \in {"ret", "lock"}, NEW err, NEW st,
             \/ th' = [th EXCEPT ![t].pc = "close", ![t].next = nx, ![t].stage = st]
             \/ th' = [th EXCEPT ![t].pc = "close", ![t].next = nx, ![t].err = err],
             UNCHANGED bud \/ Spend("slow"), UNCHANGED <<net, pool, locked_by>>
      PROVE  OwnInv'
  <2>1. /\ DOMAIN th' = Threads /\ \A u \in Threads \ {t} : th'[u] = th[u]
        /\ th'[t].pc = "close" /\ th'[t].px = th[t].px /\ th'[t].idx = th[t].idx
    BY <1>1, <1>7, Records
  <2> QED BY <1>1, <1>7, <2>1, OwnGivesUp DEF Spends
<1>8. CASE /\ IF th[t].stage < 3
              THEN th' = [th EXCEPT ![t].pc = "close", ![t].next = "lock", ![t].stage = 3]
              ELSE GiveUp(t, "ret", "ENOTCONN")
           /\ UNCHANGED <<net, pool, locked_by, bud>>
  BY <1>7, <1>8 DEF GiveUp
<1>9. CASE /\ (Quiet(c) /\ UNCHANGED bud) \/ Spend("slow")
           /\ GiveUp(t, "ret", "ETIMEDOUT")
           /\ UNCHANGED <<net, pool, locked_by>>
  BY <1>7, <1>9 DEF GiveUp
<1> QED BY <1>2, <1>6, <1>8, <1>9 DEF http_send_recv

-----------------------------------------------------------------------------
(* Whose answer it is: the connection to the proxy.                         *)

AtPx(t, c) ==
  /\ Spends /\ sl' = sl /\ UNCHANGED <<pool, locked_by>> /\ (net[c] = NoConn \/ c = th[t].px)
  /\ DOMAIN net' = Conns /\ (\A d \in Conns \ {c} : net'[d] = net[d])
  /\ DOMAIN th' = Threads /\ (\A u \in Threads \ {t} : th'[u] = th[u]) /\ th'[t].idx = th[t].idx

LEMMA OwnProxySide ==
  ASSUME AsInv, OwnInv, RunInv, RunOwn, NEW t \in Threads, th[t].pc \in OnProxy, NEW c \in Conns, AtPx(t, c),
         ThreadOwn(t)', OwnTo(t)', LineOwn(c)'
  PROVE  OwnInv'
<1>1. th[t].idx = 0
  BY DEF RunInv, ThreadInv, OnProxy, InEntry
<1>2. Idx' = Idx /\ \A u : Cert(u)' = Cert(u)
  BY SpendsKept DEF AsInv, AtPx
<1>3. PICK i : i = 0
  OBVIOUS
<1>4. i \in Idx \cup {0} /\ c \in Conns \cup {0}
  BY <1>3
<1>5. Touches(t, i, c)
  BY <1>2 DEF Touches, RunInv, LockInv, AtPx
<1>6. Rightly(t, i, c)
  BY <1>1, <1>3 DEF Rightly, AtPx
<1> QED BY <1>3, <1>4, <1>5, <1>6, OwnFinish

\* A connection to the proxy: only what its slave has left of an earlier one matters.
LEMMA ProxyLine ==
  ASSUME RunInv, RunOwn, NEW c \in Conns, sl' = sl, net[c].peer = Proxy, net'[c].peer = Proxy
  PROVE  LineOwn(c)'
<1>1. QueuedOwn(c)'
  BY DEF QueuedOwn
<1>2. ASSUME NEW s \in Slaves, sl[s].conn = c PROVE SlaveOwn(s)'
  <2>1. SlaveOwn(s) /\ IsProxy(s)
    BY <1>2, AddressAssumption DEF RunOwn, RunInv, SlavesInv, SlaveInv, IsProxy
  <2> QED BY <2>1 DEF SlaveOwn
<1> QED BY <1>1, <1>2 DEF LineOwn

\* The connection is closed.
LEMMA OwnProxyEnds ==
  ASSUME AsInv, OwnInv, RunInv, RunOwn, NEW t \in Threads, th[t].pc \in OnProxy, th[t].px # 0, sl' = sl, Spends,
         UNCHANGED <<pool, locked_by>>, net' = edg_wll_gss_close(net, th[t].px),
         DOMAIN th' = Threads, \A u \in Threads \ {t} : th'[u] = th[u], th'[t].idx = th[t].idx, th'[t].px = 0,
         th'[t].pc = "ret" \/ (th'[t].pc = "popen" /\ th'[t].sent = 0 /\ th'[t].got = Nothing),
         OwnTo(t)'
  PROVE  OwnInv'
<1>1. PICK c : c = th[t].px
  OBVIOUS
<1>2. c \in Conns
  BY <1>1, Distinct
<1>3. DOMAIN net' = Conns /\ \A d \in Conns \ {c} : net'[d] = net[d]
  <2>1. NetInv
    BY DEF RunInv
  <2> QED BY <1>1, <1>2, <2>1, GssClosed
<1>4. AtPx(t, c)
  BY <1>1, <1>3 DEF AtPx
<1>5. LineOwn(c)'
  BY <1>1, <1>2, OwnGssClosed
<1>6. ThreadOwn(t)'
  BY DEF ThreadOwn, SentOwn, AuthOwn, PoolOwn, ProxyOwn
<1> QED BY <1>2, <1>4, <1>5, <1>6, OwnProxySide

LEMMA OwnOpenProxy ==
  ASSUME AsInv, OwnInv, NEW t \in Threads, edg_wll_open_proxy(t), sl' = sl
  PROVE  OwnInv'
<1>1. /\ BudInv /\ RunInv /\ RunOwn /\ th[t].pc = "popen" /\ DOMAIN th = Threads /\ DOMAIN th[t] = DOMAIN NewThread
      /\ ThreadInv(t) /\ ThreadOwn(t) /\ (th[t].px # 0 => th[t].px \in Conns /\ net[th[t].px].peer = Proxy)
  BY OwnBegin DEF edg_wll_open_proxy
<1>2. /\ th[t].idx = 0 /\ th[t].ans = NoAns /\ th[t].pc \in OnProxy /\ th[t].sent = 0 /\ th[t].got = Nothing
      /\ DOMAIN net = Conns /\ UNCHANGED <<pool, locked_by>>
  <2>1. th[t].sent = 0 /\ th[t].got = Nothing
    BY <1>1 DEF ThreadOwn, SentOwn
  <2> QED BY <1>1, <2>1 DEF ThreadInv, InEntry, OnProxy, RunInv, NetInv, edg_wll_open_proxy
<1>3. PICK M : M = Message(th[t].call)
  OBVIOUS
<1>4. 0 \in 0..(Len(M) - 1)
  <2>1. Len(M) \in {2, 3}
    BY <1>3, MessageIs
  <2> QED BY <2>1
<1>5. CASE /\ th[t].px # 0
           /\ net' = [net EXCEPT ![th[t].px].clean = th[t].px = 0 /\ th[t].pbuf = <<>>]
           /\ th' = [th EXCEPT ![t].pc = "psend"]
           /\ UNCHANGED bud
  <2>1. PICK c : c = th[t].px
    OBVIOUS
  <2>2. c \in Conns /\ DOMAIN net[c] = DOMAIN NoConn /\ net[c].peer = Proxy
    BY <1>1, <1>5, <2>1 DEF RunInv, NetInv
  <2>3. PICK x : x = (th[t].px = 0 /\ th[t].pbuf = <<>>)
    OBVIOUS
  <2>4. ~x
    BY <1>5, <2>3
  <2>5. /\ DOMAIN net' = Conns /\ \A d \in Conns \ {c} : net'[d] = net[d]
        /\ net'[c].peer = net[c].peer /\ net'[c].clean = x
    <3>1. net' = [net EXCEPT ![c].clean = x]
      BY <1>5, <2>1, <2>3
    <3> QED BY ONLY <1>2, <2>2, <3>1, Records
  <2>6. /\ DOMAIN th' = Threads /\ \A u \in Threads \ {t} : th'[u] = th[u]
        /\ th'[t].pc = "psend" /\ th'[t].px = c /\ th'[t].idx = th[t].idx
        /\ th'[t].call = th[t].call /\ th'[t].sent = 0
    BY <1>1, <1>2, <1>5, <2>1, Records
  <2>7. AtPx(t, c)
    BY <1>2, <1>5, <2>1, <2>5, <2>6 DEF AtPx, Spends
  <2>8. LineOwn(c)'
    BY <1>1, <2>2, <2>5, ProxyLine
  <2>9. SentOwn(t)'
    BY <1>3, <1>4, <2>6 DEF SentOwn
  <2>10. ThreadOwn(t)' /\ OwnTo(t)'
    BY <2>2, <2>4, <2>5, <2>6, <2>9 DEF ThreadOwn, AuthOwn, PoolOwn, ProxyOwn, OwnTo, HasAnswer
  <2> QED BY <1>1, <1>2, <2>2, <2>7, <2>8, <2>10, OwnProxySide
<1>6. CASE /\ th[t].px = 0 /\ FreeConns(net) # {}
           /\ net' = [plain_connect(net, AConn(net), Proxy) EXCEPT ![AConn(net)].clean = th[t].px = 0 /\ th[t].pbuf = <<>>]
           /\ th' = [th EXCEPT ![t].pc = "psend", ![t].px = AConn(net)]
           /\ UNCHANGED bud
  <2>1. PICK c : c = AConn(net)
    OBVIOUS
  <2>2. c \in Conns /\ net[c] = NoConn /\ c # 0
    BY <1>6, <2>1, AConnFree, AddressAssumption
  <2>3. PICK x : x = (th[t].px = 0 /\ th[t].pbuf = <<>>)
    OBVIOUS
  <2>4. /\ DOMAIN net' = Conns /\ \A d \in Conns \ {c} : net'[d] = net[d]
        /\ net'[c] = [NoConn EXCEPT !.peer = Proxy, !.cl = TRUE, !.sv = "queued", !.clean = x]
    <3>1. net' = [plain_connect(net, c, Proxy) EXCEPT ![c].clean = x]
      BY <1>6, <2>1, <2>3
    <3> QED BY ONLY <1>2, <2>2, <3>1 DEF plain_connect, NoConn
  <2>5. net'[c].peer = Proxy /\ net'[c].clean = x /\ net'[c].up = <<>> /\ net'[c].down = <<>>
    BY <2>4 DEF NoConn
  <2>6. /\ DOMAIN th' = Threads /\ \A u \in Threads \ {t} : th'[u] = th[u]
        /\ th'[t].pc = "psend" /\ th'[t].px = c /\ th'[t].idx = th[t].idx /\ th'[t].pbuf = th[t].pbuf
        /\ th'[t].call = th[t].call /\ th'[t].sent = 0 /\ th'[t].got = Nothing
    BY <1>1, <1>2, <1>6, <2>1, Records
  <2>7. \A s \in Slaves : sl[s].conn # c
    BY <1>1, <2>2, FreeIsUnused
  <2>8. AtPx(t, c)
    BY <1>2, <1>6, <2>2, <2>4, <2>6 DEF AtPx, Spends
  <2>9. LineOwn(c)'
    BY <2>5, <2>7, LineAlone
  <2>10. x => Exchange(th'[t], net'[c], c, th'[t].pbuf, sl)
    <3> SUFFICES ASSUME x PROVE Exchange(th'[t], net'[c], c, th'[t].pbuf, sl)
      OBVIOUS
    <3>1. th'[t].pbuf = <<>>
      BY <2>3, <2>6
    <3>2. Part(<<>>, M, 0, 0)
      BY PartEmpty
    <3>3. Pending(th'[t], net'[c], c, th'[t].pbuf, sl)
      BY <1>3, <2>5, <2>6, <2>7, <3>1, <3>2 DEF Pending
    <3> QED BY <3>3 DEF Exchange
  <2>11. SentOwn(t)' /\ ProxyOwn(t)'
    BY <1>3, <1>4, <2>5, <2>6, <2>10 DEF SentOwn, ProxyOwn
  <2>12. ThreadOwn(t)' /\ OwnTo(t)'
    BY <2>6, <2>11 DEF ThreadOwn, AuthOwn, PoolOwn, OwnTo, HasAnswer
  <2> QED BY <1>1, <1>2, <2>2, <2>8, <2>9, <2>12, OwnProxySide
<1>7. CASE /\ th[t].px = 0 /\ Spend("faults")
           /\ \E err \in {"ETIMEDOUT", "ECONNREFUSED"} : ProxyEnds(t, err)
           /\ UNCHANGED net
  <2>1. /\ DOMAIN th' = Threads /\ \A u \in Threads \ {t} : th'[u] = th[u]
        /\ th'[t].pc = "ret" /\ th'[t].px = 0 /\ th'[t].idx = th[t].idx /\ th'[t].ans = th[t].ans
    BY <1>1, <1>7, Records DEF ProxyEnds
  <2>2. Idx' = Idx /\ \A u : Cert(u)' = Cert(u)
    BY <1>1, <1>7, BudgetKept
  <2>3. OnlyOf(t) /\ th'[t].pc \in Plain
    BY <1>1, <1>2, <1>7, <2>1, <2>2 DEF OnlyOf, Plain
  <2> QED BY <1>1, <2>1, <2>3, OwnPlain
<1> QED BY <1>5, <1>6, <1>7 DEF edg_wll_open_proxy

LEMMA OwnSendProxy ==
  ASSUME AsInv, OwnInv, NEW t \in Threads, http_send_proxy(t), sl' = sl
  PROVE  OwnInv'
<1>1. /\ BudInv /\ RunInv /\ RunOwn /\ th[t].pc = "psend" /\ DOMAIN th = Threads /\ DOMAIN th[t] = DOMAIN NewThread
      /\ ThreadInv(t) /\ ThreadOwn(t)
  BY OwnBegin DEF http_send_proxy
<1>2. th[t].ans = NoAns /\ th[t].pc \in OnProxy /\ th[t].px # 0 /\ UNCHANGED <<pool, locked_by>>
  BY <1>1 DEF ThreadInv, OnProxy, http_send_proxy
<1>3. PICK c : c = th[t].px
  OBVIOUS
<1>4. c \in Conns /\ c # 0 /\ DOMAIN net = Conns /\ DOMAIN net[c] = DOMAIN NoConn /\ net[c].peer = Proxy
  <2>1. c \in Conns
    BY <1>1, <1>2, <1>3, Distinct
  <2> QED BY <1>1, <1>2, <1>3, <2>1 DEF RunInv, NetInv, ThreadOwn, ProxyOwn
<1>5. PICK M, k : M = Message(th[t].call) /\ k = th[t].sent
  OBVIOUS
<1>6. /\ k \in 0..(Len(M) - 1) /\ Len(M) \in {2, 3}
      /\ net[c].clean => Exchange(th[t], net[c], c, th[t].pbuf, sl)
  BY <1>1, <1>3, <1>5, MessageIs DEF ThreadOwn, SentOwn, ProxyOwn
<1>7. ASSUME th' = [th EXCEPT ![t].sent = k + 1, ![t].pc = IF k + 1 = Len(M) THEN "precv" ELSE "psend"],
             net' = write_up(net, c, M[k + 1]), UNCHANGED bud
      PROVE  OwnInv'
  <2>1. /\ DOMAIN th' = Threads /\ \A u \in Threads \ {t} : th'[u] = th[u]
        /\ th'[t].pc = (IF k + 1 = Len(M) THEN "precv" ELSE "psend") /\ th'[t].sent = k + 1
        /\ th'[t].px = th[t].px /\ th'[t].idx = th[t].idx /\ th'[t].call = th[t].call /\ th'[t].got = th[t].got
        /\ th'[t].pbuf = th[t].pbuf
    BY <1>1, <1>7, Records
  <2>2. DOMAIN net' = Conns /\ \A d \in Conns \ {c} : net'[d] = net[d]
    BY <1>4, <1>7 DEF write_up
  <2>3. /\ net'[c].clean = net[c].clean /\ net'[c].sv = net[c].sv /\ net'[c].down = net[c].down
        /\ net'[c].peer = net[c].peer
        /\ net'[c].up = IF net[c].sv = "closed" THEN net[c].up ELSE Append(net[c].up, M[k + 1])
    <3>1. CASE net[c].sv = "closed"
      BY <1>7, <3>1 DEF write_up
    <3>2. CASE net[c].sv # "closed"
      <4>1. net'[c] = [net[c] EXCEPT !.up = Append(net[c].up, M[k + 1])]
        BY <1>4, <1>7, <3>2 DEF write_up
      <4> QED BY <1>4, <3>2, <4>1, Records
    <3> QED BY <3>1, <3>2
  <2>4. net[c].sv = "closed" => \A s \in Slaves : sl[s].conn # c
    BY <1>1, <1>4 DEF RunInv, SlavesInv, SlaveInv
  <2>5. net[c].clean => Exchange(th'[t], net'[c], c, th[t].pbuf, sl)
    <3>1. CASE net[c].sv = "closed"
      BY <1>6, <2>1, <2>3, <2>4, <3>1, ExchangeAlone
    <3>2. CASE net[c].sv # "closed"
      <4>1. Sends(th[t], th'[t], net[c], net'[c])
        BY <1>5, <1>6, <2>1, <2>3, <3>2 DEF Sends
      <4> QED BY <1>6, <4>1, ExchangeSends
    <3> QED BY <3>1, <3>2
  <2>6. AtPx(t, c)
    BY <1>2, <1>3, <1>7, <2>1, <2>2 DEF AtPx, Spends
  <2>7. LineOwn(c)'
    BY <1>1, <1>4, <2>3, ProxyLine
  <2>8. k + 1 # Len(M) => k + 1 \in 0..(Len(M) - 1)
    BY <1>6
  <2>9. SentOwn(t)'
    <3>1. CASE k + 1 = Len(M)
      BY <1>5, <2>1, <3>1 DEF SentOwn
    <3>2. CASE k + 1 # Len(M)
      BY <1>5, <2>1, <2>8, <3>2 DEF SentOwn
    <3> QED BY <3>1, <3>2
  <2>10. ProxyOwn(t)'
    BY <1>3, <1>4, <2>1, <2>3, <2>5 DEF ProxyOwn
  <2>11. ThreadOwn(t)' /\ OwnTo(t)'
    BY <2>1, <2>9, <2>10 DEF ThreadOwn, AuthOwn, PoolOwn, OwnTo, HasAnswer
  <2> QED BY <1>1, <1>2, <1>4, <2>6, <2>7, <2>11, OwnProxySide
<1>8. ASSUME net' = edg_wll_gss_close(net, c), Reopen(t, 2), UNCHANGED bud
      PROVE  OwnInv'
  <2>1. /\ DOMAIN th' = Threads /\ \A u \in Threads \ {t} : th'[u] = th[u]
        /\ th'[t].pc = "popen" /\ th'[t].px = 0 /\ th'[t].idx = th[t].idx
        /\ th'[t].sent = 0 /\ th'[t].got = Nothing
    BY <1>1, <1>8, Records DEF Reopen
  <2>2. OwnTo(t)' /\ Spends
    BY <1>8, <2>1 DEF OwnTo, HasAnswer, Spends
  <2> QED BY <1>1, <1>2, <1>3, <1>8, <2>1, <2>2, OwnProxyEnds
<1>9. ASSUME NEW err, ProxySendFails(t, err), net' = IF th[t].stage = 3 THEN edg_wll_gss_close(net, c) ELSE net,
             UNCHANGED bud \/ Spend("slow")
      PROVE  OwnInv'
  <2>1. Spends
    BY <1>9 DEF Spends
  <2>2. CASE th[t].stage = 3
    <3>1. /\ DOMAIN th' = Threads /\ \A u \in Threads \ {t} : th'[u] = th[u]
          /\ th'[t].pc = "ret" /\ th'[t].px = 0 /\ th'[t].idx = th[t].idx /\ th'[t].ans = th[t].ans
      BY <1>1, <1>9, <2>2, Records DEF ProxySendFails, ProxyEnds
    <3>2. OwnTo(t)' /\ net' = edg_wll_gss_close(net, th[t].px)
      BY <1>2, <1>3, <1>9, <2>2, <3>1 DEF OwnTo, HasAnswer
    <3> QED BY <1>1, <1>2, <2>1, <3>1, <3>2, OwnProxyEnds
  <2>3. CASE th[t].stage # 3
    <3>1. /\ DOMAIN th' = Threads /\ \A u \in Threads \ {t} : th'[u] = th[u]
          /\ th'[t].pc = "ret" /\ th'[t].px = th[t].px /\ th'[t].idx = th[t].idx /\ th'[t].ans = th[t].ans
      BY <1>1, <1>9, <2>3, Records DEF ProxySendFails, ProxyReturns
    <3>2. Idx' = Idx /\ \A u : Cert(u)' = Cert(u)
      BY <1>1, <2>1, SpendsKept
    <3>3. OnlyOf(t) /\ th'[t].pc \in Plain
      BY <1>1, <1>2, <1>9, <2>3, <3>1, <3>2 DEF OnlyOf, Plain
    <3> QED BY <1>1, <3>1, <3>3, OwnPlain
  <2> QED BY <2>2, <2>3
<1>10. CASE /\ Spend("slow")
            /\ ProxySendFails(t, "ETIMEDOUT")
            /\ net' = IF th[t].stage = 3 THEN edg_wll_gss_close(net, c) ELSE net
  BY <1>9, <1>10
<1>11. ASSUME NEW r,
              CASE r = "ok" -> /\ net' = write_up(net, c, M[k + 1])
                               /\ th' = [th EXCEPT ![t].sent = k + 1,
                                           ![t].pc = IF k + 1 = Len(M) THEN "precv" ELSE "psend"]
                               /\ UNCHANGED bud
                [] r = "ENOTCONN" /\ th[t].stage = 1 ->
                               /\ net' = edg_wll_gss_close(net, c)
                               /\ Reopen(t, 2)
                               /\ UNCHANGED bud
                [] OTHER ->    /\ net' = IF th[t].stage = 3 THEN edg_wll_gss_close(net, c) ELSE net
                               /\ ProxySendFails(t, r)
                               /\ UNCHANGED bud
       PROVE  OwnInv'
  <2>1. CASE r = "ok"
    BY <1>7, <1>11, <2>1
  <2>2. CASE r = "ENOTCONN" /\ th[t].stage = 1
    BY <1>8, <1>11, <2>2
  <2>3. CASE r # "ok" /\ ~(r = "ENOTCONN" /\ th[t].stage = 1)
    BY <1>9, <1>11, <2>3
  <2> QED BY <2>1, <2>2, <2>3
<1>12. Request(t) = M
  BY <1>5 DEF Request, Message
<1> QED BY <1>3, <1>5, <1>10, <1>11, <1>12 DEF http_send_proxy

LEMMA OwnRecvProxy ==
  ASSUME AsInv, OwnInv, NEW t \in Threads, http_send_recv_proxy(t), sl' = sl
  PROVE  OwnInv'
<1>1. /\ BudInv /\ RunInv /\ RunOwn /\ th[t].pc = "precv" /\ DOMAIN th = Threads /\ DOMAIN th[t] = DOMAIN NewThread
      /\ ThreadInv(t) /\ ThreadOwn(t)
  BY OwnBegin DEF http_send_recv_proxy
<1>2. th[t].ans = NoAns /\ th[t].pc \in OnProxy /\ th[t].px # 0 /\ UNCHANGED <<pool, locked_by>>
  BY <1>1 DEF ThreadInv, OnProxy, http_send_recv_proxy
<1>3. PICK c : c = th[t].px
  OBVIOUS
<1>4. c \in Conns /\ c # 0 /\ DOMAIN net = Conns /\ DOMAIN net[c] = DOMAIN NoConn /\ net[c].peer = Proxy
  <2>1. c \in Conns
    BY <1>1, <1>2, <1>3, Distinct
  <2> QED BY <1>1, <1>2, <1>3, <2>1 DEF RunInv, NetInv, ThreadOwn, ProxyOwn
<1>5. /\ th[t].sent = Len(Message(th[t].call))
      /\ net[c].clean => Exchange(th[t], net[c], c, th[t].pbuf, sl)
  BY <1>1, <1>3 DEF ThreadOwn, SentOwn, ProxyOwn
<1>6. ASSUME NEW r, r = http_recv(th[t].got, th[t].pbuf, net[c].down), net[c].down # <<>>,
             IF r.got.st = "DONE"
             THEN /\ th' = [th EXCEPT ![t].pc = "ret", ![t].px = 0, ![t].pbuf = r.buf,
                              ![t].ans = [code |-> r.got.line.code, id |-> r.got.line.id,
                                          user |-> r.got.line.user, body |-> r.got.body.id,
                                          clean |-> r.got.line.clean /\ net[c].clean]]
                  /\ net' = edg_wll_gss_close(net, c)
             ELSE /\ th' = [th EXCEPT ![t].got = r.got, ![t].pbuf = r.buf]
                  /\ net' = read_down(net, c),
             UNCHANGED bud
      PROVE  OwnInv'
  <2>1. Spends
    BY <1>6 DEF Spends
  <2>2. PICK m : m = [net[c] EXCEPT !.down = <<>>]
    OBVIOUS
  <2>3. /\ m.up = net[c].up /\ m.down = <<>> /\ m.clean = net[c].clean
        /\ m.peer = net[c].peer /\ m.sv = net[c].sv
    BY ONLY <1>4, <2>2, Records
  <2>4. net[c].clean =>
          IF r.got.st = "DONE" THEN r.buf = <<>> /\ OwnLine(r.got, th[t].call.id) /\ Resting(m, c, sl)
          ELSE \A w : w.call = th[t].call /\ w.sent = th[t].sent /\ w.got = r.got => Exchange(w, m, c, r.buf, sl)
    <3> SUFFICES ASSUME net[c].clean
                 PROVE  IF r.got.st = "DONE" THEN r.buf = <<>> /\ OwnLine(r.got, th[t].call.id) /\ Resting(m, c, sl)
                        ELSE \A w : w.call = th[t].call /\ w.sent = th[t].sent /\ w.got = r.got
                                      => Exchange(w, m, c, r.buf, sl)
      OBVIOUS
    <3>1. Exchange(th[t], net[c], c, th[t].pbuf, sl)
      BY <1>5
    <3>2. /\ r = http_recv(th[t].got, th[t].pbuf, net[c].down) /\ net[c].down # <<>>
          /\ m.up = net[c].up /\ m.down = <<>> /\ m.clean = net[c].clean /\ m.sv = net[c].sv
      BY <1>6, <2>3
    <3> QED BY ONLY <3>1, <3>2, ExchangeReads
  <2>5. CASE r.got.st = "DONE"
    <3>1. PICK a : a = [code |-> r.got.line.code, id |-> r.got.line.id,
                        user |-> r.got.line.user, body |-> r.got.body.id,
                        clean |-> r.got.line.clean /\ net[c].clean]
      OBVIOUS
    <3>2. th' = [th EXCEPT ![t].pc = "ret", ![t].px = 0, ![t].pbuf = r.buf, ![t].ans = a]
      BY <1>6, <2>5, <3>1
    <3>3. /\ DOMAIN th' = Threads /\ \A u \in Threads \ {t} : th'[u] = th[u]
          /\ th'[t].pc = "ret" /\ th'[t].px = 0 /\ th'[t].idx = th[t].idx
          /\ th'[t].ans = a /\ th'[t].call = th[t].call
      BY ONLY <1>1, <3>2, Records
    <3>4. OwnTo(t)'
      <4>1. a.clean = (r.got.line.clean /\ net[c].clean) /\ a.id = r.got.line.id /\ a.body = r.got.body.id
        BY ONLY <3>1
      <4>2. net[c].clean /\ r.got.line.clean /\ r.got.line.id # None
              => r.got.line.id = th[t].call.id /\ r.got.body.id = th[t].call.id
        BY <2>4, <2>5 DEF OwnLine
      <4>3. a.clean /\ a.id # None => a.id = th[t].call.id /\ a.body = th[t].call.id
        BY ONLY <4>1, <4>2
      <4> QED BY ONLY <3>3, <4>3 DEF OwnTo
    <3>5. net' = edg_wll_gss_close(net, th[t].px)
      BY <1>3, <1>6, <2>5
    <3> QED BY <1>1, <1>2, <2>1, <3>3, <3>4, <3>5, OwnProxyEnds
  <2>6. CASE r.got.st # "DONE"
    <3>1. th' = [th EXCEPT ![t].got = r.got, ![t].pbuf = r.buf] /\ net' = read_down(net, c)
      BY <1>6, <2>6
    <3>2. DOMAIN net' = Conns /\ (\A d \in Conns \ {c} : net'[d] = net[d]) /\ net'[c] = m
      BY <1>4, <2>2, <3>1 DEF read_down
    <3>3. /\ DOMAIN th' = Threads /\ \A u \in Threads \ {t} : th'[u] = th[u]
          /\ th'[t].pc = "precv" /\ th'[t].px = c /\ th'[t].idx = th[t].idx
          /\ th'[t].got = r.got /\ th'[t].call = th[t].call /\ th'[t].sent = th[t].sent /\ th'[t].pbuf = r.buf
      BY ONLY <1>1, <1>3, <3>1, Records
    <3>4. AtPx(t, c)
      BY <1>2, <1>3, <2>1, <3>2, <3>3 DEF AtPx
    <3>5. LineOwn(c)'
      BY <1>1, <1>4, <2>3, <3>2, ProxyLine
    <3>6. net[c].clean => Exchange(th'[t], m, c, r.buf, sl)
      BY <2>4, <2>6, <3>3
    <3>7. SentOwn(t)' /\ ProxyOwn(t)'
      BY <1>4, <1>5, <2>3, <3>2, <3>3, <3>6 DEF SentOwn, ProxyOwn
    <3>8. ThreadOwn(t)' /\ OwnTo(t)'
      BY <3>3, <3>7 DEF ThreadOwn, AuthOwn, PoolOwn, OwnTo, HasAnswer
    <3> QED BY <1>1, <1>2, <1>4, <3>4, <3>5, <3>8, OwnProxySide
  <2> QED BY <2>5, <2>6
<1>7. ASSUME NEW err, net' = edg_wll_gss_close(net, c), Reopen(t, 3) \/ ProxyEnds(t, err),
             UNCHANGED bud \/ Spend("slow")
      PROVE  OwnInv'
  <2>1. Spends
    BY <1>7 DEF Spends
  <2>2. /\ DOMAIN th' = Threads /\ \A u \in Threads \ {t} : th'[u] = th[u]
        /\ th'[t].pc = "ret" \/ (th'[t].pc = "popen" /\ th'[t].sent = 0 /\ th'[t].got = Nothing)
        /\ th'[t].px = 0 /\ th'[t].idx = th[t].idx /\ th'[t].ans = th[t].ans
    <3>1. CASE Reopen(t, 3)
      BY <1>1, <3>1, Records DEF Reopen
    <3>2. CASE ProxyEnds(t, err)
      BY <1>1, <3>2, Records DEF ProxyEnds
    <3> QED BY <1>7, <3>1, <3>2
  <2>3. OwnTo(t)' /\ net' = edg_wll_gss_close(net, th[t].px)
    BY <1>2, <1>3, <1>7, <2>2 DEF OwnTo, HasAnswer
  <2> QED BY <1>1, <1>2, <2>1, <2>2, <2>3, OwnProxyEnds
<1>8. CASE /\ net[c].down # <<>>
           /\ LET r == http_recv_proxy(th[t].got, th[t].pbuf, net[c].down)
              IN  IF r.got.st = "DONE"
                  THEN /\ th' = [th EXCEPT ![t].pc = "ret", ![t].px = 0, ![t].pbuf = r.buf,
                                   ![t].ans = [code |-> r.got.line.code, id |-> r.got.line.id,
                                               user |-> r.got.line.user, body |-> r.got.body.id,
                                               clean |-> r.got.line.clean /\ net[c].clean]]
                       /\ net' = edg_wll_gss_close(net, c)
                  ELSE /\ th' = [th EXCEPT ![t].got = r.got, ![t].pbuf = r.buf]
                       /\ net' = read_down(net, c)
           /\ UNCHANGED bud
  <2>1. PICK r : r = http_recv_proxy(th[t].got, th[t].pbuf, net[c].down)
    OBVIOUS
  <2>2. r = http_recv(th[t].got, th[t].pbuf, net[c].down)
    BY <2>1 DEF http_recv_proxy
  <2> QED BY <1>6, <1>8, <2>1, <2>2
<1>9. CASE /\ net' = edg_wll_gss_close(net, c)
           /\ IF th[t].stage < 3 THEN Reopen(t, 3) ELSE ProxyEnds(t, "ENOTCONN")
           /\ UNCHANGED bud
  BY <1>7, <1>9
<1>10. CASE /\ (Quiet(c) /\ UNCHANGED bud) \/ Spend("slow")
            /\ net' = edg_wll_gss_close(net, c)
            /\ ProxyEnds(t, "ETIMEDOUT")
  BY <1>7, <1>10
<1> QED BY <1>3, <1>8, <1>9, <1>10 DEF http_send_recv_proxy

LEMMA ClientKeepsOwn ==
  ASSUME AsInv, OwnInv, NEW t \in Threads, ClientStep(t), UNCHANGED sl
  PROVE  OwnInv'
<1>1. sl' = sl
  OBVIOUS
<1> QED BY <1>1, OwnCall, OwnReturn, OwnFind, OwnRelease, OwnPoolCounted, OwnAdd, OwnCredentials, OwnConnect,
           OwnAuth, OwnClose, OwnClosed, OwnSend, OwnRecv, OwnOpenProxy, OwnSendProxy, OwnRecvProxy DEF ClientStep

-----------------------------------------------------------------------------
(* Whose answer it is: the steps of a server.                               *)

\* What is said of a slave does not depend on what it has to write, nor on the
\* other direction of its connection.
LEMMA SameSlave ==
  ASSUME NEW x, NEW y, y.pc = x.pc, y.got = x.got, y.buf = x.buf, y.then = x.then, y.in = x.in,
         NEW n, NEW m, m.up = n.up, m.clean = n.clean
  PROVE  /\ \A M, k : Asked(x, n, M, k) => Asked(y, m, M, k)
         /\ \A M, k : Over(x, n, M, k) => Over(y, m, M, k)
         /\ Follows(x, n) => Follows(y, m)
<1>1. Closing(x) => Closing(y)
  BY DEF Closing
<1>2. Rests(x, n) => Rests(y, m)
  BY DEF Rests
<1>3. \A M, k : Asked(x, n, M, k) => Asked(y, m, M, k)
  BY <1>1 DEF Asked, Reads, Served
<1>4. \A M, k : Over(x, n, M, k) => Over(y, m, M, k)
  BY <1>1, <1>2 DEF Over
<1>5. Follows(x, n) => Follows(y, m)
  BY <1>3 DEF Follows
<1> QED BY <1>3, <1>4, <1>5

\* The slave goes from x to y, and its connection from n to m: an exchange that
\* is over stays so; one that is not goes on, or an answer is prepared.
Goes(x, n, y, m) ==
  /\ m.down = n.down /\ n.sv = "open" /\ m.sv = "open"
  /\ \A M, k : Over(x, n, M, k) => y.out = x.out /\ Over(y, m, M, k)
  /\ \A M, k : IsMessage(M) /\ k \in 0..Len(M) /\ Asked(x, n, M, k)
       => \/ y.out = <<>> /\ (Asked(y, m, M, k) \/ Over(y, m, M, k))
          \/ Over(y, m, M, k) /\ (BodyOf(M) \in {NoUnit, M[1].m} => OwnAnswer(y.out, M[1].m.id))

\* Slave s is the one at the connection c, before and after.
Alone(s, c, ss, zz) ==
  /\ ss[s].conn = c /\ zz[s].conn = c
  /\ \A r \in Slaves \ {s} : ss[r].conn # c /\ zz[r].conn # c

LEMMA ExchangeGoes ==
  ASSUME NEW v, v.sent \in 0..Len(Message(v.call)), NEW s \in Slaves, NEW c, NEW ss, NEW zz, Alone(s, c, ss, zz),
         NEW n, NEW m, Goes(ss[s], n, zz[s], m), NEW buf, Exchange(v, n, c, buf, ss)
  PROVE  Exchange(v, m, c, buf, zz)
<1>1. PICK M, k, x, y : M = Message(v.call) /\ k = v.sent /\ x = ss[s] /\ y = zz[s]
  OBVIOUS
<1>2. IsMessage(M) /\ k \in 0..Len(M) /\ M[1].m = v.call /\ BodyOf(M) \in {NoUnit, M[1].m}
  BY <1>1, MessageIs
<1>3. m.down = n.down /\ n.sv = "open" /\ m.sv = "open"
  BY DEF Goes
<1>4. Over(x, n, M, k) => y.out = x.out /\ Over(y, m, M, k)
  BY <1>1 DEF Goes
<1>5. x.conn = c /\ \A r \in Slaves : zz[r].conn = c => r = s
  BY <1>1 DEF Alone
<1>6. CASE Pending(v, n, c, buf, ss)
  <2>1. x.out = <<>> /\ (Asked(x, n, M, k) \/ Over(x, n, M, k)) /\ n.down = <<>> /\ v.got = Nothing /\ buf = <<>>
    BY <1>1, <1>5, <1>6 DEF Pending
  <2>2. \/ y.out = <<>> /\ (Asked(y, m, M, k) \/ Over(y, m, M, k))
        \/ Over(y, m, M, k) /\ OwnAnswer(y.out, v.call.id)
    <3>1. CASE Over(x, n, M, k)
      BY <1>4, <2>1, <3>1
    <3>2. CASE Asked(x, n, M, k)
      BY <1>1, <1>2, <3>2 DEF Goes
    <3> QED BY <2>1, <3>1, <3>2
  <2>3. CASE y.out = <<>> /\ (Asked(y, m, M, k) \/ Over(y, m, M, k))
    <3>1. Pending(v, m, c, buf, zz)
      BY <1>1, <1>3, <1>5, <2>1, <2>3 DEF Pending
    <3> QED BY <3>1 DEF Exchange
  <2>4. CASE Over(y, m, M, k) /\ OwnAnswer(y.out, v.call.id)
    <3>1. PICK A : A = y.out
      OBVIOUS
    <3>2. IsMessage(A) /\ IsSeq(A) /\ Len(A) = 3
      BY <2>4, <3>1 DEF OwnAnswer, IsMessage
    <3>3. Part(A, A, 0, 3)
      BY <3>2 DEF Part
    <3>4. Under(v.got, buf, m.down, A, 0, 0, TRUE)
      <4>1. Part(<<>>, A, 0, 0) /\ 0 # 2 /\ 0 \in 0..2 /\ 0 \in 0..Len(A)
        BY <3>2, PartEmpty
      <4>2. Lines(<<>>)
        BY EmptyIsSeq DEF Lines
      <4> QED BY <1>3, <2>1, <4>1, <4>2 DEF Under
    <3>5. \A r \in Slaves : zz[r].conn = c => Part(zz[r].out, A, 0, 3) /\ Over(zz[r], m, Message(v.call), v.sent)
      BY <1>1, <1>5, <2>4, <3>1, <3>3
    <3>6. 0 \in 0..2 /\ 0 \in 0..3 /\ OwnAnswer(A, v.call.id)
      BY <2>4, <3>1
    <3>7. Coming(v, m, c, buf, zz)
      BY <1>3, <3>4, <3>5, <3>6 DEF Coming
    <3> QED BY <3>7 DEF Exchange
  <2> QED BY <2>2, <2>3, <2>4
<1>7. CASE Coming(v, n, c, buf, ss)
  <2>1. PICK A : \E a \in 0..2, b \in 0..3 :
                   /\ OwnAnswer(A, v.call.id) /\ Under(v.got, buf, n.down, A, a, b, TRUE)
                   /\ \A r \in Slaves : ss[r].conn = c =>
                        Part(ss[r].out, A, b, 3) /\ Over(ss[r], n, Message(v.call), v.sent)
    BY <1>7 DEF Coming
  <2>2. PICK a \in 0..2, b \in 0..3 :
                   /\ OwnAnswer(A, v.call.id) /\ Under(v.got, buf, n.down, A, a, b, TRUE)
                   /\ \A r \in Slaves : ss[r].conn = c =>
                        Part(ss[r].out, A, b, 3) /\ Over(ss[r], n, Message(v.call), v.sent)
    BY <2>1
  <2>3. Part(x.out, A, b, 3) /\ Over(x, n, M, k)
    BY <1>1, <1>5, <2>2
  <2>4. \A r \in Slaves : zz[r].conn = c => Part(zz[r].out, A, b, 3) /\ Over(zz[r], m, Message(v.call), v.sent)
    BY <1>1, <1>4, <1>5, <2>3
  <2>5. Under(v.got, buf, m.down, A, a, b, TRUE) /\ m.sv # "queued"
    BY <1>3, <2>2
  <2>6. Coming(v, m, c, buf, zz)
    BY <2>2, <2>4, <2>5 DEF Coming
  <2> QED BY <2>6 DEF Exchange
<1> QED BY <1>6, <1>7 DEF Exchange

LEMMA RestingGoes ==
  ASSUME NEW s \in Slaves, NEW c, NEW ss, NEW zz, Alone(s, c, ss, zz),
         NEW n, NEW m, Goes(ss[s], n, zz[s], m), Resting(n, c, ss)
  PROVE  Resting(m, c, zz)
<1>1. PICK M, k, x, y : M = Message(NoCall) /\ k = Len(M) /\ x = ss[s] /\ y = zz[s]
  OBVIOUS
<1>2. x.out = <<>> /\ (Closing(x) \/ Rests(x, n)) /\ n.down = <<>>
  BY <1>1 DEF Resting, Alone
<1>3. Over(x, n, M, k)
  BY <1>1, <1>2 DEF Over
<1>4. y.out = <<>> /\ Over(y, m, M, k) /\ m.down = <<>>
  BY <1>1, <1>2, <1>3 DEF Goes
<1>5. Closing(y) \/ Rests(y, m)
  BY <1>4 DEF Over
<1> QED BY <1>1, <1>4, <1>5 DEF Resting, Alone

LEMMA FollowsGoes ==
  ASSUME NEW x, NEW y, NEW n, NEW m, Goes(x, n, y, m), Follows(x, n)
  PROVE  Follows(y, m)
<1>1. PICK M : IsMessage(M) /\ \E k \in 0..Len(M) : Asked(x, n, M, k)
  BY DEF Follows
<1>2. PICK k \in 0..Len(M) : Asked(x, n, M, k)
  BY <1>1
<1>3. Asked(y, m, M, k) \/ Over(y, m, M, k)
  BY <1>1, <1>2 DEF Goes
<1> QED BY <1>1, <1>3, OneFollows

\* The slave writes the next piece of its answer.
LEMMA ExchangeWrites ==
  ASSUME NEW v, NEW s \in Slaves, NEW c, NEW ss, NEW zz, Alone(s, c, ss, zz), ss[s].out # <<>>,
         zz[s].out = Tail(ss[s].out), zz[s].pc = ss[s].pc, zz[s].got = ss[s].got, zz[s].buf = ss[s].buf,
         zz[s].then = ss[s].then, zz[s].in = ss[s].in,
         NEW n, NEW m, m.up = n.up, m.clean = n.clean, m.sv = n.sv, m.down = Append(n.down, Head(ss[s].out)),
         NEW buf, Exchange(v, n, c, buf, ss)
  PROVE  Exchange(v, m, c, buf, zz)
<1>1. PICK M, k, x, y : M = Message(v.call) /\ k = v.sent /\ x = ss[s] /\ y = zz[s]
  OBVIOUS
<1>2. x.conn = c /\ \A r \in Slaves : zz[r].conn = c => r = s
  BY <1>1 DEF Alone
<1>3. ~Pending(v, n, c, buf, ss)
  BY <1>1, <1>2 DEF Pending
<1>4. Coming(v, n, c, buf, ss)
  BY <1>3 DEF Exchange
<1>5. PICK A : \E a \in 0..2, b \in 0..3 :
                 /\ OwnAnswer(A, v.call.id) /\ Under(v.got, buf, n.down, A, a, b, TRUE)
                 /\ \A r \in Slaves : ss[r].conn = c =>
                      Part(ss[r].out, A, b, 3) /\ Over(ss[r], n, Message(v.call), v.sent)
  BY <1>4 DEF Coming
<1>6. PICK a \in 0..2, b \in 0..3 :
                 /\ OwnAnswer(A, v.call.id) /\ Under(v.got, buf, n.down, A, a, b, TRUE)
                 /\ \A r \in Slaves : ss[r].conn = c =>
                      Part(ss[r].out, A, b, 3) /\ Over(ss[r], n, Message(v.call), v.sent)
  BY <1>5
<1>7. Part(x.out, A, b, 3) /\ Over(x, n, M, k)
  BY <1>1, <1>2, <1>6
<1>8. Part(y.out, A, b + 1, 3) /\ Head(x.out) = A[b + 1] /\ b < 3
  <2>1. b \in Nat /\ 3 \in Nat /\ x.out # <<>>
    BY <1>1
  <2>2. Part(Tail(x.out), A, b + 1, 3) /\ Head(x.out) = A[b + 1] /\ b < 3
    BY <1>7, <2>1, PartLess
  <2> QED BY <1>1, <2>2
<1>9. Over(y, m, M, k)
  BY <1>1, <1>7, SameSlave
<1>10. Under(v.got, buf, m.down, A, a, b + 1, TRUE)
  <2>1. Part(n.down, A, a, b) /\ b \in a..Len(A) /\ Len(A) = 3
    BY <1>6 DEF Under, OwnAnswer
  <2>2. a \in Nat /\ b \in Nat /\ b + 1 \in a..Len(A)
    BY <1>8, <2>1
  <2>3. Part(Append(n.down, A[b + 1]), A, a, b + 1)
    BY <2>1, <2>2, PartMore
  <2>4. m.down = Append(n.down, A[b + 1])
    BY <1>1, <1>8
  <2> QED BY <1>6, <2>2, <2>3, <2>4 DEF Under
<1>11. \A r \in Slaves : zz[r].conn = c => Part(zz[r].out, A, b + 1, 3) /\ Over(zz[r], m, Message(v.call), v.sent)
  BY <1>1, <1>2, <1>8, <1>9
<1>12. b + 1 \in 0..3 /\ m.sv # "queued"
  BY <1>4, <1>8 DEF Coming
<1>13. Coming(v, m, c, buf, zz)
  BY <1>6, <1>10, <1>11, <1>12 DEF Coming
<1> QED BY <1>13 DEF Exchange

\* A slave that takes a connection has not read anything yet.
LEMMA ExchangeTaken ==
  ASSUME NEW v, v.sent \in 0..Len(Message(v.call)), NEW s \in Slaves, NEW c, NEW ss, NEW zz,
         \A r \in Slaves \ {s} : zz[r].conn # c,
         zz[s].pc = "accept", zz[s].got = Nothing, zz[s].buf = <<>>, zz[s].out = <<>>,
         NEW n, n.sv = "queued", NEW m, m.sv = "open", m.up = n.up, m.down = n.down,
         NEW buf, Exchange(v, n, c, buf, ss)
  PROVE  Exchange(v, m, c, buf, zz)
<1>1. PICK M, k : M = Message(v.call) /\ k = v.sent
  OBVIOUS
<1>2. IsMessage(M) /\ k \in 0..Len(M)
  BY <1>1, MessageIs
<1>3. Pending(v, n, c, buf, ss)
  BY DEF Exchange, Coming
<1>4. Part(m.up, M, 0, k) /\ m.down = <<>> /\ v.got = Nothing /\ buf = <<>>
  BY <1>1, <1>3 DEF Pending
<1>5. Under(zz[s].got, zz[s].buf, m.up, M, 0, k, m.clean)
  <2>1. Part(<<>>, M, 0, 0) /\ 0 # 2 /\ 0 \in 0..2
    BY PartEmpty
  <2>2. Lines(<<>>)
    BY EmptyIsSeq DEF Lines
  <2> QED BY <1>2, <1>4, <2>1, <2>2 DEF Under
<1>6. Asked(zz[s], m, M, k)
  <2>1. Reads(zz[s], m, M, k)
    <3>1. 0 \in 0..2
      OBVIOUS
    <3> QED BY <1>5, <3>1 DEF Reads
  <2> QED BY <2>1 DEF Asked
<1>7. Pending(v, m, c, buf, zz)
  BY <1>1, <1>4, <1>6 DEF Pending
<1> QED BY <1>7 DEF Exchange


\* Nothing has changed for the slaves at a connection.
LEMMA ExchangeSame ==
  ASSUME NEW c, NEW ss, NEW zz, \A r \in Slaves : zz[r].conn = c => zz[r] = ss[r]
  PROVE  /\ \A v, n, buf : Exchange(v, n, c, buf, ss) => Exchange(v, n, c, buf, zz)
         /\ \A n : Resting(n, c, ss) => Resting(n, c, zz)
<1>1. ASSUME NEW v, NEW n, NEW buf, Pending(v, n, c, buf, ss) PROVE Pending(v, n, c, buf, zz)
  BY <1>1 DEF Pending
<1>2. ASSUME NEW v, NEW n, NEW buf, Coming(v, n, c, buf, ss) PROVE Coming(v, n, c, buf, zz)
  BY <1>2 DEF Coming
<1>3. \A n : Resting(n, c, ss) => Resting(n, c, zz)
  BY DEF Resting
<1> QED BY <1>1, <1>2, <1>3 DEF Exchange

\* A client has the connection for its requests.
Claimed(d) == (\E i \in Idx : pool[i].gss = d) \/ (\E t \in Threads : th[t].px = d)

LEMMA ClaimedOpen ==
  ASSUME RunInv, NEW d \in Conns, Claimed(d)
  PROVE  net[d].cl /\ \A t \in Threads : th[t].conn # d
<1>1. d # 0
  BY AddressAssumption
<1>2. CASE \E i \in Idx : pool[i].gss = d
  BY <1>1, <1>2, HeldOpen, Distinct
<1>3. CASE \E t \in Threads : th[t].px = d
  <2>1. PICK t \in Threads : th[t].px = d
    BY <1>3
  <2>2. net[d].cl
    BY <1>1, <2>1, Distinct
  <2>3. ASSUME NEW u \in Threads, th[u].conn = d PROVE FALSE
    <3>1. /\ <<"conn", u>> \in Holders /\ Held(<<"conn", u>>) = d
          /\ <<"px", t>> \in Holders /\ Held(<<"px", t>>) = d
      BY <2>1, <2>3 DEF Holders, Held
    <3>2. <<"conn", u>> # <<"px", t>>
      OBVIOUS
    <3> QED BY <1>1, <3>1, <3>2 DEF HolderInv, RunInv
  <2> QED BY <2>2, <2>3
<1> QED BY <1>2, <1>3 DEF Claimed

KeepsLine(d) ==
  /\ net'[d].peer = net[d].peer /\ (net'[d].clean => net[d].clean)
  /\ \A v, buf : v.sent \in 0..Len(Message(v.call)) /\ Exchange(v, net[d], d, buf, sl)
                   => Exchange(v, net'[d], d, buf, sl')
  /\ (\E i \in Idx : pool[i].gss = d) /\ Resting(net[d], d, sl) => Resting(net'[d], d, sl')

LEMMA KeepsOthers ==
  ASSUME NEW s \in Slaves, NEW W, ServerAt(s, W), NEW d \in Conns \ W
  PROVE  KeepsLine(d) /\ net'[d] = net[d] /\ \A r \in Slaves : sl'[r].conn = d => sl'[r] = sl[r]
<1>1. d # 0 /\ net'[d] = net[d]
  BY AddressAssumption DEF ServerAt
<1>2. \A r \in Slaves : sl'[r].conn = d => sl'[r] = sl[r]
  BY <1>1 DEF ServerAt
<1>3. /\ \A v, n, buf : Exchange(v, n, d, buf, sl) => Exchange(v, n, d, buf, sl')
      /\ \A n : Resting(n, d, sl) => Resting(n, d, sl')
  BY ONLY <1>2, ExchangeSame
<1> QED BY <1>1, <1>2, <1>3 DEF KeepsLine

LEMMA OwnServerKeeps ==
  ASSUME AsInv, OwnInv, RunInv, RunOwn, NEW s \in Slaves, NEW W, W \subseteq Conns, ServerAt(s, W), SlaveOwn(s)',
         \A d \in W : QueuedOwn(d)', \A d \in W : Claimed(d) => KeepsLine(d),
         \A t \in Threads : th[t].conn \in W => AuthOwn(t)'
  PROVE  OwnInv'
<1>1. BudInv' /\ Idx' = Idx /\ \A u : Cert(u)' = Cert(u)
  BY SpendsKept DEF AsInv, ServerAt
<1>2. UNCHANGED <<pool, locked_by, th>> /\ 0 \notin Conns
  BY AddressAssumption DEF ServerAt
<1>3. \A d \in Conns : Claimed(d) => KeepsLine(d)
  BY KeepsOthers
<1>4. ASSUME NEW d \in Conns PROVE QueuedOwn(d)'
  <2>1. CASE d \notin W
    <3>1. QueuedOwn(d) /\ net'[d] = net[d]
      BY <2>1, KeepsOthers DEF RunOwn
    <3> QED BY <3>1 DEF QueuedOwn
  <2> QED BY <2>1
<1>5. ASSUME NEW r \in Slaves PROVE SlaveOwn(r)'
  <2>1. CASE r # s
    <3>1. sl'[r] = sl[r] /\ sl[r].conn \notin W /\ SlaveOwn(r) /\ SlaveInv(r)
      BY <2>1 DEF ServerAt, RunOwn, RunInv, SlavesInv
    <3>2. sl[r].pc # "free" => net'[sl[r].conn] = net[sl[r].conn]
      BY <3>1 DEF ServerAt, SlaveInv
    <3>3. CASE sl[r].pc = "free"
      BY <3>1, <3>3 DEF SlaveOwn, Serving
    <3>4. CASE sl[r].pc # "free"
      BY <3>1, <3>2, <3>4 DEF SlaveOwn
    <3> QED BY <3>3, <3>4
  <2> QED BY <2>1
<1>6. ASSUME NEW i \in Idx PROVE EntryOwn(i)'
  <2>1. EntryOwn(i) /\ pool[i].gss # 0 => KeepsLine(pool[i].gss)
    BY <1>3, HeldOpen DEF Claimed
  <2>2. EntryOwn(i)
    BY DEF RunOwn
  <2> QED BY <1>2, <2>1, <2>2 DEF EntryOwn, KeepsLine
<1>7. ASSUME NEW t \in Threads PROVE ThreadOwn(t)'
  <2>1. ThreadInv(t) /\ ThreadOwn(t)
    BY DEF RunInv, RunOwn
  <2>2. SentOwn(t)'
    BY <1>2, <2>1 DEF ThreadOwn, SentOwn
  <2>3. th[t].pc \in {"send", "psend", "recv", "precv"} => th[t].sent \in 0..Len(Message(th[t].call))
    <3>1. Len(Message(th[t].call)) \in {2, 3}
      BY MessageIs
    <3>2. \A k : k \in {2, 3} => k \in 0..k /\ \A j : j \in 0..(k - 1) => j \in 0..k
      OBVIOUS
    <3>3. th[t].pc \in {"send", "psend"} => th[t].sent \in 0..(Len(Message(th[t].call)) - 1)
      BY <2>1 DEF ThreadOwn, SentOwn
    <3>4. th[t].pc \in {"recv", "precv"} => th[t].sent = Len(Message(th[t].call))
      BY <2>1 DEF ThreadOwn, SentOwn
    <3> QED BY ONLY <3>1, <3>2, <3>3, <3>4
  <2>4. AuthOwn(t)'
    <3>1. CASE th[t].conn \in W
      BY <3>1
    <3>2. CASE th[t].conn \notin W
      <4>1. th[t].pc = "auth" => th[t].conn \in Conns \ W
        BY <2>1, <3>2 DEF ThreadInv
      <4>2. AuthOwn(t)
        BY <2>1 DEF ThreadOwn
      <4>3. th[t].pc = "auth" => /\ net'[th[t].conn] = net[th[t].conn]
                                 /\ \A r \in Slaves : sl'[r].conn = th[t].conn => sl'[r] = sl[r]
        BY <4>1, KeepsOthers
      <4> QED BY <1>2, <4>2, <4>3 DEF AuthOwn
    <3> QED BY <3>1, <3>2
  <2>5. PoolOwn(t)'
    <3> SUFFICES ASSUME th[t].pc \in {"send", "recv"} PROVE PoolOwn(t)'
      BY <1>2 DEF PoolOwn
    <3>1. PICK i, c : i = th[t].idx /\ c = pool[i].gss
      OBVIOUS
    <3>2. i \in Idx /\ c # 0 /\ c \in Conns
      BY <2>1, <3>1, HeldOpen DEF ThreadInv, InEntry
    <3>3. KeepsLine(c)
      BY <1>3, <3>1, <3>2 DEF Claimed
    <3>4. Exchange(th[t], net[c], c, pool[i].buf, sl)
      BY <2>1, <3>1 DEF ThreadOwn, PoolOwn
    <3>5. Exchange(th[t], net'[c], c, pool[i].buf, sl')
      BY <2>3, <3>3, <3>4 DEF KeepsLine
    <3> QED BY <1>2, <3>1, <3>5 DEF PoolOwn
  <2>6. ProxyOwn(t)'
    <3>1. PICK c : c = th[t].px
      OBVIOUS
    <3>2. ProxyOwn(t) /\ (th[t].pc \in {"psend", "precv"} => c # 0)
      BY <2>1, <3>1 DEF ThreadOwn, ThreadInv
    <3>3. c # 0 => c \in Conns /\ KeepsLine(c)
      <4>1. c # 0 => c \in Conns
        BY <3>1, Distinct
      <4> QED BY <1>3, <3>1, <4>1 DEF Claimed
    <3>4. c # 0 => net'[c].peer = Proxy
      BY <3>1, <3>2, <3>3 DEF ProxyOwn, KeepsLine
    <3>5. th[t].pc \in {"psend", "precv"} /\ net'[c].clean => Exchange(th[t], net'[c], c, th[t].pbuf, sl')
      BY <2>3, <3>1, <3>2, <3>3 DEF ProxyOwn, KeepsLine
    <3> QED BY <1>2, <3>1, <3>4, <3>5 DEF ProxyOwn
  <2> QED BY <2>2, <2>4, <2>5, <2>6 DEF ThreadOwn
<1>8. RunOwn'
  BY <1>1, <1>4, <1>5, <1>6, <1>7 DEF RunOwn
<1>9. AnswerIsOwn'
  BY <1>2 DEF OwnInv, AnswerIsOwn, HasAnswer
<1> QED BY <1>8, <1>9 DEF OwnInv


\* A connection that its slave has left.
LEMMA OwnLeftBehind ==
  ASSUME RunInv, NEW a \in Conns, UNCHANGED <<pool, locked_by, th>>,
         net[a].cl => /\ net'[a].peer = net[a].peer /\ net'[a].down = net[a].down /\ net'[a].clean = net[a].clean,
         net'[a].sv = "closed", \A r \in Slaves : sl'[r].conn # a
  PROVE  /\ QueuedOwn(a)' /\ (Claimed(a) => KeepsLine(a))
         /\ \A t \in Threads : th[t].conn = a => AuthOwn(t)'
<1>1. QueuedOwn(a)'
  BY DEF QueuedOwn
<1>2. \A t \in Threads : th[t].conn = a => AuthOwn(t)'
  BY DEF AuthOwn
<1>3. ASSUME Claimed(a) PROVE KeepsLine(a)
  <2>1. net'[a].peer = net[a].peer /\ net'[a].down = net[a].down /\ net'[a].clean = net[a].clean
    BY <1>3, ClaimedOpen
  <2>2. ASSUME NEW v, NEW buf, Exchange(v, net[a], a, buf, sl) PROVE Exchange(v, net'[a], a, buf, sl')
    BY <2>1, <2>2, ExchangeAlone
  <2>3. Resting(net[a], a, sl) => Resting(net'[a], a, sl')
    BY <2>1 DEF Resting
  <2> QED BY <2>1, <2>2, <2>3 DEF KeepsLine
<1> QED BY <1>1, <1>2, <1>3

LEMMA CleanClosed ==
  ASSUME NetInv, NEW a \in Conns, net[a].cl, NEW n, n = ServerClose(net, a)
  PROVE  n[a].clean = net[a].clean
<1>1. a # 0 /\ DOMAIN net = Conns /\ DOMAIN net[a] = DOMAIN NoConn
  BY AddressAssumption DEF NetInv
<1>2. n[a] = [net[a] EXCEPT !.sv = "closed", !.up = <<>>]
  BY <1>1 DEF ServerClose
<1> QED BY ONLY <1>1, <1>2, Records

\* The buffer of a slave of the server has beginnings of messages only.
LEMMA SlaveBuffer ==
  ASSUME RunOwn, NEW s \in Slaves
  PROVE  /\ Lines(<<>>) /\ (~IsProxy(s) => Lines(sl[s].buf))
<1>1. SlaveOwn(s)
  BY DEF RunOwn
<1> QED BY <1>1, EmptyIsSeq DEF SlaveOwn, Lines

LEMMA OwnLeaves ==
  ASSUME AsInv, OwnInv, RunInv, RunOwn, NEW s \in Slaves, sl[s].pc # "free", Drop(s) \/ Restart(s), Spends,
         UNCHANGED <<pool, locked_by, th, dead>>
  PROVE  OwnInv'
<1>1. PICK a : a = sl[s].conn
  OBVIOUS
<1>2. a \in Conns /\ a # 0 /\ NetInv /\ SlavesInv /\ DOMAIN sl = Slaves
  BY <1>1, AddressAssumption DEF RunInv, SlavesInv, SlaveInv
<1>3. net' = ServerClose(net, a)
  BY <1>1 DEF Drop, Restart
<1>4. /\ DOMAIN sl' = Slaves /\ \A r \in Slaves \ {s} : sl'[r] = sl[r]
      /\ sl'[s].pc = "free" /\ sl'[s].conn = 0 /\ sl'[s].got = Nothing
      /\ sl'[s].buf = <<>> \/ (~IsProxy(s) /\ sl'[s].buf = sl[s].buf)
  <2>1. CASE sl' = [sl EXCEPT ![s] = Gone(s)]
    <3>1. PICK b : b = IF IsProxy(s) THEN <<>> ELSE sl[s].buf
      OBVIOUS
    <3>2. sl'[s] = [NewSlave EXCEPT !.buf = b]
      BY <1>2, <2>1, <3>1 DEF Gone
    <3>3. sl'[s].pc = "free" /\ sl'[s].conn = 0 /\ sl'[s].got = Nothing /\ sl'[s].buf = b
      BY <3>2 DEF NewSlave
    <3> QED BY <1>2, <2>1, <3>1, <3>3
  <2>2. CASE sl' = [sl EXCEPT ![s] = NewSlave]
    BY <1>2, <2>2 DEF NewSlave
  <2> QED BY <2>1, <2>2 DEF Drop, Restart
<1>5. /\ DOMAIN net' = Conns /\ \A d \in Conns \ {a} : net'[d] = net[d]
      /\ DOMAIN net'[a] = DOMAIN NoConn /\ net'[a].sv = "closed" /\ IsSeq(net'[a].up) /\ IsSeq(net'[a].down)
      /\ net[a].cl => net'[a].cl /\ net'[a].as = net[a].as /\ net'[a].peer = net[a].peer /\ net'[a].down = net[a].down
  BY <1>2, <1>3, ServerClosed
<1>6. \A r \in Slaves \ {s} : sl[r].conn # a
  BY <1>1, <1>2 DEF SlavesInv
<1>7. ServerAt(s, {a})
  BY <1>1, <1>4, <1>5, <1>6 DEF ServerAt
<1>8. SlaveOwn(s)'
  <2>1. Lines(<<>>) /\ (~IsProxy(s) => Lines(sl[s].buf))
    BY SlaveBuffer
  <2>2. sl'[s].pc \notin Serving /\ sl'[s].pc # "accept"
    BY <1>4 DEF Serving
  <2> QED BY <1>4, <2>1, <2>2 DEF SlaveOwn
<1>9. \A r \in Slaves : sl'[r].conn # a
  BY <1>2, <1>4, <1>6
<1>10. net[a].cl => net'[a].clean = net[a].clean
  BY <1>2, <1>3, CleanClosed
<1>11. /\ QueuedOwn(a)' /\ (Claimed(a) => KeepsLine(a))
       /\ \A t \in Threads : th[t].conn = a => AuthOwn(t)'
  <2>1. net[a].cl => /\ net'[a].peer = net[a].peer /\ net'[a].down = net[a].down /\ net'[a].clean = net[a].clean
    BY <1>5, <1>10
  <2> QED BY <1>2, <1>5, <1>9, <2>1, OwnLeftBehind
<1>12. {a} \subseteq Conns /\ (\A d \in {a} : QueuedOwn(d)') /\ (\A d \in {a} : Claimed(d) => KeepsLine(d))
       /\ \A t \in Threads : th[t].conn \in {a} => AuthOwn(t)'
  BY <1>2, <1>11
<1> QED BY <1>7, <1>8, <1>12, OwnServerKeeps

LEMMA OwnTake ==
  ASSUME AsInv, OwnInv, RunInv, RunOwn, NEW s \in Slaves, NEW c \in Conns, Take(s, c),
         UNCHANGED <<pool, locked_by, th, dead>>
  PROVE  OwnInv'
<1>1. PICK a, x, y : /\ a = sl[s].conn /\ x = (IF IsProxy(s) THEN <<>> ELSE sl[s].buf)
                     /\ y = (net[c].clean /\ Gone(s).buf = <<>>)
  OBVIOUS
<1>2. /\ NetInv /\ SlavesInv /\ DOMAIN sl = Slaves /\ DOMAIN net = Conns
      /\ net[c].sv = "queued" /\ net[c].peer = SlaveOf[s]
  BY DEF RunInv, SlavesInv, NetInv, Take
<1>3. a # c /\ (a = 0 \/ (a \in Conns /\ a # 0)) /\ (\A r \in Slaves : sl[r].conn # c) /\ c # 0
  BY <1>1, <1>2, AddressAssumption DEF SlavesInv, SlaveInv
<1>4. \A r \in Slaves \ {s} : a # 0 => sl[r].conn # a
  BY <1>1, <1>2 DEF SlavesInv
<1>5. PICK n : n = ServerClose(net, a)
  OBVIOUS
<1>6. /\ DOMAIN n = Conns /\ \A d \in Conns \ {a} : n[d] = net[d]
      /\ a # 0 => /\ DOMAIN n[a] = DOMAIN NoConn /\ n[a].sv = "closed" /\ IsSeq(n[a].up) /\ IsSeq(n[a].down)
                  /\ net[a].cl => /\ n[a].cl /\ n[a].as = net[a].as /\ n[a].peer = net[a].peer
                                  /\ n[a].down = net[a].down /\ n[a].clean = net[a].clean
  <2>1. CASE a = 0
    BY <1>2, <1>5, <2>1 DEF ServerClose
  <2>2. CASE a # 0
    BY <1>2, <1>3, <1>5, <2>2, ServerClosed, CleanClosed
  <2> QED BY <2>1, <2>2
<1>7. n[c] = net[c] /\ DOMAIN net[c] = DOMAIN NoConn /\ IsSeq(net[c].up) /\ IsSeq(net[c].down)
  BY <1>2, <1>3, <1>6 DEF NetInv
<1>8. /\ DOMAIN net' = Conns /\ \A d \in Conns \ {c} : net'[d] = n[d]
      /\ DOMAIN net'[c] = DOMAIN NoConn /\ net'[c].sv = "open" /\ net'[c].up = net[c].up
      /\ net'[c].down = net[c].down /\ net'[c].peer = net[c].peer /\ net'[c].as = net[c].as /\ net'[c].cl = net[c].cl
      /\ net'[c].clean = y
  <2>1. net' = [n EXCEPT ![c].sv = "open", ![c].clean = y]
    <3>1. net' = [n EXCEPT ![c].sv = "open", ![c].clean = n[c].clean /\ Gone(s).buf = <<>>]
      BY <1>1, <1>5 DEF Take
    <3> QED BY <1>1, <1>7, <3>1
  <2> QED BY ONLY <1>6, <1>7, <2>1, c \in Conns, Records
<1>9. /\ DOMAIN sl' = Slaves /\ \A r \in Slaves \ {s} : sl'[r] = sl[r]
      /\ sl'[s].pc = "accept" /\ sl'[s].conn = c /\ sl'[s].out = <<>> /\ sl'[s].got = Nothing /\ sl'[s].buf = x
  <2>1. sl' = [sl EXCEPT ![s] = [[NewSlave EXCEPT !.buf = x] EXCEPT !.conn = c, !.pc = "accept"]]
    BY <1>1 DEF Take, Gone
  <2> QED BY <1>2, <2>1 DEF NewSlave
<1>10. PICK W : W = {c} \cup (IF a = 0 THEN {} ELSE {a})
  OBVIOUS
<1>11. W \subseteq Conns /\ \A d : d \in W <=> d = c \/ (a # 0 /\ d = a)
  BY <1>3, <1>10
<1>12. ServerAt(s, W)
  <2>1. Spends
    BY DEF Take, Spends
  <2>2. \A r \in Slaves \ {s} : sl[r].conn \notin W
    BY <1>3, <1>4, <1>11
  <2>3. ASSUME NEW d \in Conns \ W PROVE net'[d] = net[d]
    <3>1. d # c /\ d # a
      BY <1>11, AddressAssumption
    <3> QED BY <1>6, <1>8, <3>1
  <2>4. ASSUME NEW d \in W
        PROVE  /\ DOMAIN net'[d] = DOMAIN NoConn /\ net'[d].sv \in {"queued", "open", "closed"}
               /\ IsSeq(net'[d].up) /\ IsSeq(net'[d].down)
               /\ net[d].cl => net'[d].cl
    <3>1. CASE d = c
      BY <1>7, <1>8, <3>1
    <3>2. CASE d = a /\ a # 0
      BY <1>3, <1>6, <1>8, <3>2
    <3> QED BY <1>11, <3>1, <3>2
  <2>5. sl[s].conn \in W \cup {0} /\ sl'[s].conn \in W \cup {0}
    BY <1>1, <1>9, <1>11
  <2> QED BY <1>8, <1>9, <2>1, <2>2, <2>3, <2>4, <2>5 DEF ServerAt
\* The buffer with which the new connection is read.
<1>13. y => net[c].clean /\ x = <<>>
  <2>1. Gone(s).buf = x
    <3>1. Gone(s) = [NewSlave EXCEPT !.buf = x]
      BY <1>1 DEF Gone
    <3> QED BY <3>1 DEF NewSlave
  <2> QED BY <1>1, <2>1
<1>14. SlaveOwn(s)'
  <2>1. Lines(<<>>) /\ (~IsProxy(s) => Lines(sl[s].buf))
    BY SlaveBuffer
  <2>2. ~IsProxy(s) => net[c].up = <<Token>>
    BY <1>2 DEF RunOwn, QueuedOwn, IsProxy
  <2>3. "accept" \notin Serving
    BY DEF Serving
  <2>4. CASE IsProxy(s)
    BY <1>1, <1>9, <2>4 DEF SlaveOwn
  <2>5. CASE ~IsProxy(s)
    BY <1>1, <1>8, <1>9, <1>13, <2>1, <2>2, <2>3, <2>5 DEF SlaveOwn
  <2> QED BY <2>4, <2>5
<1>15. a # 0 => /\ QueuedOwn(a)' /\ (Claimed(a) => KeepsLine(a))
                /\ \A t \in Threads : th[t].conn = a => AuthOwn(t)'
  <2> SUFFICES ASSUME a # 0
               PROVE  /\ QueuedOwn(a)' /\ (Claimed(a) => KeepsLine(a))
                      /\ \A t \in Threads : th[t].conn = a => AuthOwn(t)'
    OBVIOUS
  <2>1. a \in Conns /\ net'[a] = n[a] /\ \A r \in Slaves : sl'[r].conn # a
    BY <1>3, <1>4, <1>8, <1>9
  <2>2. /\ net[a].cl => /\ net'[a].peer = net[a].peer /\ net'[a].down = net[a].down /\ net'[a].clean = net[a].clean
        /\ net'[a].sv = "closed"
    BY <1>6, <2>1
  <2> QED BY <2>1, <2>2, OwnLeftBehind
<1>16. \A r \in Slaves \ {s} : sl'[r].conn # c
  BY <1>3, <1>9
<1>17. QueuedOwn(c)' /\ \A t \in Threads : th[t].conn = c => AuthOwn(t)'
  <2>1. QueuedOwn(c)'
    BY <1>8 DEF QueuedOwn
  <2> QED BY <1>9, <1>16, <2>1 DEF AuthOwn
<1>18. ASSUME Claimed(c) PROVE KeepsLine(c)
  <2>1. \A i \in Idx : pool[i].gss # c
    BY <1>2, <1>3 DEF RunInv, EntryInv
  <2>2. PICK t \in Threads : th[t].px = c
    BY <1>18, <2>1 DEF Claimed
  <2>3. net[c].peer = Proxy
    BY <1>3, <2>2 DEF RunOwn, ThreadOwn, ProxyOwn
  <2>4. x = <<>>
    BY <1>1, <1>2, <2>3 DEF IsProxy
  <2>5. ASSUME NEW v, NEW buf, v.sent \in 0..Len(Message(v.call)), Exchange(v, net[c], c, buf, sl)
        PROVE  Exchange(v, net'[c], c, buf, sl')
    BY <1>2, <1>8, <1>9, <1>16, <2>4, <2>5, ExchangeTaken
  <2> QED BY <1>8, <1>13, <2>1, <2>5 DEF KeepsLine
<1>19. /\ \A d \in W : QueuedOwn(d)'
       /\ \A d \in W : Claimed(d) => KeepsLine(d)
       /\ \A t \in Threads : th[t].conn \in W => AuthOwn(t)'
  BY <1>11, <1>15, <1>17, <1>18
<1> QED BY <1>11, <1>12, <1>14, <1>19, OwnServerKeeps


LEMMA GoesKeepsLine ==
  ASSUME NEW s \in Slaves, NEW a, Alone(s, a, sl, sl'), Goes(sl[s], net[a], sl'[s], net'[a]),
         net'[a].peer = net[a].peer, net'[a].clean = net[a].clean
  PROVE  KeepsLine(a)
<1>1. ASSUME NEW v, NEW buf, v.sent \in 0..Len(Message(v.call)), Exchange(v, net[a], a, buf, sl)
      PROVE  Exchange(v, net'[a], a, buf, sl')
  BY <1>1, ExchangeGoes
<1>2. Resting(net[a], a, sl) => Resting(net'[a], a, sl')
  BY RestingGoes
<1> QED BY <1>1, <1>2 DEF KeepsLine

\* The slave goes on with its client.
LEMMA OwnGoesOn ==
  ASSUME AsInv, OwnInv, RunInv, RunOwn, NEW s \in Slaves, NEW a, a = sl[s].conn, sl[s].pc # "free",
         IsProxy(s) \/ sl[s].pc \in Serving, Serves(s, a), \A t \in Threads : th[t].conn # a,
         ~IsProxy(s) => Lines(sl'[s].buf), Follows(sl[s], net[a]) => Follows(sl'[s], net'[a]),
         Claimed(a) => KeepsLine(a)
  PROVE  OwnInv'
<1>1. a \in Conns /\ a # 0 /\ net[a].sv = "open" /\ \A r \in Slaves \ {s} : sl[r].conn # a
  BY AddressAssumption DEF RunInv, SlavesInv, SlaveInv
<1>2. ServerAt(s, {a}) /\ {a} \subseteq Conns
  BY <1>1 DEF ServerAt, Serves
<1>3. SlaveOwn(s)'
  <2>1. sl'[s].pc \in Serving /\ sl'[s].pc \notin {"free", "accept"} /\ sl'[s].conn = a
    BY DEF Serves, Serving
  <2>2. ~IsProxy(s) => Follows(sl[s], net[a])
    BY DEF RunOwn, SlaveOwn
  <2> QED BY <2>1, <2>2 DEF SlaveOwn
<1>4. QueuedOwn(a)'
  BY <1>1 DEF QueuedOwn, Serves
<1>5. /\ (\A d \in {a} : QueuedOwn(d)') /\ (\A d \in {a} : Claimed(d) => KeepsLine(d))
      /\ \A t \in Threads : th[t].conn \in {a} => AuthOwn(t)'
  BY <1>4
<1> QED BY <1>2, <1>3, <1>5, OwnServerKeeps

LEMMA NotAuth ==
  ASSUME RunInv, NEW s \in Slaves, NEW a, a = sl[s].conn, sl[s].pc \in Serving,
         sl[s].pc = "idle" => net[a].up # <<>> \/ sl[s].in
  PROVE  /\ \A t \in Threads : th[t].conn # a
         /\ a # 0 /\ net[a].sv = "open" /\ \A r \in Slaves \ {s} : sl[r].conn # a
<1>1. a \in Conns /\ a # 0 /\ net[a].sv = "open" /\ \A r \in Slaves \ {s} : sl[r].conn # a
  BY AddressAssumption DEF RunInv, SlavesInv, SlaveInv, Serving
<1>2. ASSUME NEW t \in Threads, th[t].conn = a PROVE FALSE
  <2>1. sl[s].pc = "idle" /\ net[a].up = <<>> /\ ~sl[s].in
    BY <1>1, <1>2 DEF RunInv, AuthInv, Serving
  <2> QED BY <2>1
<1> QED BY <1>1, <1>2

LEMMA OwnSlaveGoes ==
  ASSUME AsInv, OwnInv, RunInv, RunOwn, NEW s \in Slaves, NEW a, a = sl[s].conn, sl[s].pc \in Serving,
         sl[s].pc = "idle" => net[a].up # <<>> \/ sl[s].in,
         Serves(s, a), net'[a].clean = net[a].clean, Goes(sl[s], net[a], sl'[s], net'[a]),
         ~IsProxy(s) => Lines(sl'[s].buf)
  PROVE  OwnInv'
<1>1. /\ \A t \in Threads : th[t].conn # a
      /\ a # 0 /\ net[a].sv = "open" /\ \A r \in Slaves \ {s} : sl[r].conn # a
  BY NotAuth
<1>2. Alone(s, a, sl, sl')
  BY <1>1 DEF Alone, Serves
<1>3. KeepsLine(a)
  BY <1>2, GoesKeepsLine DEF Serves
<1>4. Follows(sl[s], net[a]) => Follows(sl'[s], net'[a])
  BY FollowsGoes
<1>5. sl[s].pc # "free"
  BY DEF Serving
<1> QED BY <1>1, <1>3, <1>4, <1>5, OwnGoesOn

LEMMA OwnAuthorizeProxy ==
  ASSUME AsInv, OwnInv, RunInv, RunOwn, NEW s \in Slaves, bk_handle_connection_proxy(s),
         UNCHANGED <<pool, locked_by, th, dead>>
  PROVE  OwnInv'
<1>1. PICK a : a = sl[s].conn
  OBVIOUS
<1>2. /\ NetInv /\ SlavesInv /\ DOMAIN sl = Slaves /\ DOMAIN net = Conns /\ sl[s].pc = "accept" /\ IsProxy(s)
      /\ a \in Conns /\ a # 0 /\ net[a].sv = "open" /\ net[a].peer = Proxy /\ sl[s].out = <<>>
      /\ DOMAIN sl[s] = DOMAIN NewSlave /\ (\A r \in Slaves \ {s} : sl[r].conn # a)
      /\ DOMAIN net[a] = DOMAIN NoConn /\ IsSeq(net[a].up) /\ IsSeq(net[a].down)
  <2>1. SlavesInv /\ NetInv /\ SlaveInv(s) /\ sl[s].pc = "accept" /\ SlaveOf[s] = Proxy /\ IsProxy(s)
    BY DEF RunInv, SlavesInv, bk_handle_connection_proxy, IsProxy
  <2> QED BY <1>1, <2>1, AddressAssumption DEF SlavesInv, SlaveInv, NetInv
<1>3. PICK x, y, n : x = sl[s] /\ y = sl'[s] /\ n = net[a]
  OBVIOUS
<1>4. /\ DOMAIN sl' = Slaves /\ \A r \in Slaves \ {s} : sl'[r] = sl[r]
      /\ DOMAIN y = DOMAIN NewSlave /\ y.pc = "idle" /\ y.conn = a /\ y.out = <<>>
      /\ y.user = x.user /\ y.got = x.got /\ y.buf = x.buf
      /\ net' = net /\ UNCHANGED bud
  BY <1>1, <1>2, <1>3, Records DEF bk_handle_connection_proxy
<1>5. Serves(s, a)
  BY <1>2, <1>3, <1>4, EmptyIsSeq DEF Serves, Spends, Serving
<1>6. Goes(x, n, y, n)
  <2>1. x.pc = "accept" /\ n.sv = "open"
    BY <1>2, <1>3
  <2>2. ASSUME NEW M, NEW k PROVE ~Over(x, n, M, k)
    BY <2>1 DEF Over, Closing, Rests
  <2>3. ASSUME NEW M, NEW k, Asked(x, n, M, k) PROVE Asked(y, n, M, k)
    <3>1. Reads(x, n, M, k)
      BY <2>1, <2>3 DEF Asked, Closing, Served
    <3>2. Reads(y, n, M, k)
      BY <1>4, <3>1 DEF Reads
    <3> QED BY <3>2 DEF Asked
  <2> QED BY <1>4, <2>1, <2>2, <2>3 DEF Goes
<1>7. Alone(s, a, sl, sl')
  BY <1>1, <1>2, <1>3, <1>4 DEF Alone
<1>8. KeepsLine(a)
  <2>1. net'[a] = n /\ net[a] = n
    BY <1>3, <1>4
  <2>2. Goes(sl[s], net[a], sl'[s], net'[a])
    BY <1>3, <1>6, <2>1
  <2> QED BY <1>7, <2>1, <2>2, GoesKeepsLine
<1>9. Follows(sl[s], net[a]) => Follows(sl'[s], net'[a])
  <2>1. net'[a] = net[a]
    BY <1>4
  <2> QED BY <1>3, <1>6, <2>1, FollowsGoes
<1>10. \A t \in Threads : th[t].conn # a
  BY <1>1, <1>2 DEF RunInv, AuthInv
<1>11. sl[s].pc # "free"
  BY <1>2
<1> QED BY <1>1, <1>2, <1>5, <1>8, <1>9, <1>10, <1>11, OwnGoesOn


LEMMA OwnAuthorize ==
  ASSUME AsInv, OwnInv, RunInv, RunOwn, NEW s \in Slaves, bk_handle_connection(s),
         UNCHANGED <<pool, locked_by, th, dead>>
  PROVE  OwnInv'
<1>1. PICK a : a = sl[s].conn
  OBVIOUS
<1>2. /\ NetInv /\ SlavesInv /\ DOMAIN sl = Slaves /\ DOMAIN net = Conns /\ sl[s].pc = "accept" /\ ~IsProxy(s)
      /\ a \in Conns /\ a # 0 /\ net[a].sv = "open" /\ net[a].peer = SlaveOf[s] /\ ~sl[s].in
      /\ DOMAIN sl[s] = DOMAIN NewSlave /\ \A r \in Slaves \ {s} : sl[r].conn # a
  <2>1. SlavesInv /\ NetInv /\ SlaveInv(s) /\ sl[s].pc = "accept" /\ ~IsProxy(s)
    BY DEF RunInv, SlavesInv, bk_handle_connection
  <2> QED BY <1>1, <2>1, AddressAssumption DEF SlavesInv, SlaveInv, NetInv
<1>3. CASE eof_up(net, a) /\ Drop(s) /\ UNCHANGED bud
  BY <1>2, <1>3, OwnLeaves DEF Spends
<1>4. CASE Spend("refusals") /\ (Drop(s) \/ Restart(s))
  BY <1>2, <1>4, OwnLeaves DEF Spends
<1>5. CASE /\ net[a].up # <<>>
           /\ net' = edg_wll_gss_accept(net, a)
           /\ sl' = [sl EXCEPT ![s].pc = "idle", ![s].user = edg_wll_gss_get_client_conn(net, a)]
           /\ UNCHANGED bud
  <2>1. /\ sl[s].got = Nothing /\ Lines(sl[s].buf) /\ net[a].up = <<Token>> /\ (net[a].clean => sl[s].buf = <<>>)
    BY <1>1, <1>2 DEF RunOwn, SlaveOwn
  <2>2. PICK y : y = IF net[a].cl THEN Append(net[a].down, Token) ELSE net[a].down
    OBVIOUS
  <2>3. IsSeq(y) /\ IsSeq(<<>>) /\ Tail(<<Token>>) = <<>> /\ DOMAIN net[a] = DOMAIN NoConn
    <3>1. Tail(<<Token>>) = <<>>
      OBVIOUS
    <3> QED BY <1>2, <2>2, <3>1, EmptyIsSeq, IsSeqAppend DEF NetInv
  <2>4. /\ DOMAIN net' = Conns /\ \A d \in Conns \ {a} : net'[d] = net[d]
        /\ DOMAIN net'[a] = DOMAIN NoConn /\ net'[a].up = <<>> /\ net'[a].down = y
        /\ net'[a].sv = "open" /\ net'[a].cl = net[a].cl /\ net'[a].clean = net[a].clean
    <3>1. net' = [net EXCEPT ![a].up = <<>>, ![a].sv = "open", ![a].down = y]
      BY <1>5, <2>1, <2>2, <2>3 DEF edg_wll_gss_accept
    <3> QED BY ONLY <1>2, <2>3, <3>1, Records
  <2>5. /\ DOMAIN sl' = Slaves /\ \A r \in Slaves \ {s} : sl'[r] = sl[r]
        /\ sl'[s].pc = "idle" /\ sl'[s].conn = a /\ ~sl'[s].in
        /\ sl'[s].got = Nothing /\ sl'[s].buf = sl[s].buf
    BY <1>1, <1>2, <1>5, <2>1, Records
  <2>6. ServerAt(s, {a}) /\ {a} \subseteq Conns
    BY <1>1, <1>2, <1>5, <2>3, <2>4, <2>5 DEF ServerAt, Spends
  <2>7. Rests(sl'[s], net'[a])
    BY <2>1, <2>4, <2>5 DEF Rests
  <2>8. SlaveOwn(s)'
    <3>1. Follows(sl'[s], net'[a])
      BY <2>7, RestFollows
    <3> QED BY <1>2, <2>1, <2>5, <3>1 DEF SlaveOwn
  <2>9. QueuedOwn(a)'
    BY <2>4 DEF QueuedOwn
  <2>10. ASSUME NEW t \in Threads, th[t].conn = a PROVE AuthOwn(t)'
    <3>1. \A r \in Slaves : sl'[r].conn = a => r = s
      BY <1>2, <2>5
    <3> QED BY <2>7, <2>10, <3>1 DEF AuthOwn
  <2>11. ~Claimed(a)
    <3>1. \A i \in Idx : pool[i].gss # a
      BY <1>1, <1>2 DEF RunInv, EntryInv, ServedInv, Serving
    <3>2. \A t \in Threads : th[t].px # a
      BY <1>2 DEF RunOwn, ThreadOwn, ProxyOwn, IsProxy
    <3> QED BY <3>1, <3>2 DEF Claimed
  <2>12. /\ (\A d \in {a} : QueuedOwn(d)') /\ (\A d \in {a} : Claimed(d) => KeepsLine(d))
         /\ \A t \in Threads : th[t].conn \in {a} => AuthOwn(t)'
    BY <2>9, <2>10, <2>11
  <2> QED BY <2>6, <2>8, <2>12, OwnServerKeeps
<1> QED BY <1>1, <1>3, <1>4, <1>5 DEF bk_handle_connection

\* The slave reads.
SlaveHasRead(x, n, y, m) ==
  LET r == http_recv(x.got, x.buf, n.up)
  IN /\ y.got = r.got /\ y.buf = r.buf /\ y.out = <<>>
     /\ y.pc \in {"idle", "failed", "serve"}
     /\ r.got.st = "DONE" => y.pc = "serve"
     /\ r.got.st = "E2BIG" => y.pc = "failed"
     /\ r.got.st \in {"FIRST", "BODY"} => y.pc = "idle"
     /\ m.up = <<>> /\ m.clean = n.clean

LEMMA SlaveReads ==
  ASSUME NEW x, x.pc = "idle", NEW n, n.up # <<>>, NEW y, NEW m, SlaveHasRead(x, n, y, m),
         NEW M, IsMessage(M), NEW k, Asked(x, n, M, k)
  PROVE  Asked(y, m, M, k) /\ Lines(y.buf)
<1>1. PICK r : r = http_recv(x.got, x.buf, n.up)
  OBVIOUS
<1>2. /\ y.got = r.got /\ y.buf = r.buf
      /\ r.got.st = "DONE" => y.pc = "serve"
      /\ r.got.st = "E2BIG" => y.pc = "failed"
      /\ r.got.st \in {"FIRST", "BODY"} => y.pc = "idle"
      /\ m.up = <<>> /\ m.clean = n.clean
  BY <1>1 DEF SlaveHasRead
<1>3. PICK a \in 0..2 : Under(x.got, x.buf, n.up, M, a, k, n.clean)
  BY DEF Asked, Closing, Served, Reads
<1>4. Done(r.got, r.buf, M, k, n.clean) \/ More(r.got, r.buf, M, k, n.clean) \/ TooBig(r.got, r.buf, M, n.clean)
  BY <1>1, <1>3, Taken
<1>5. Lines(<<>>)
  BY EmptyIsSeq DEF Lines
<1>6. CASE Done(r.got, r.buf, M, k, n.clean)
  <2>1. Served(y, m, M, k)
    BY <1>2, <1>6 DEF Done, Served
  <2> QED BY <1>2, <1>5, <1>6, <2>1 DEF Asked, Done
<1>7. CASE More(r.got, r.buf, M, k, n.clean)
  <2>1. PICK b \in 0..2 : Under(r.got, r.buf, <<>>, M, b, k, n.clean)
    BY <1>7 DEF More
  <2>2. y.pc = "idle"
    BY <1>2, <1>7 DEF More
  <2>3. Reads(y, m, M, k)
    BY <1>2, <2>1, <2>2 DEF Reads
  <2>4. Lines(y.buf)
    BY <1>2, <1>5, <2>1 DEF Under
  <2> QED BY <2>3, <2>4 DEF Asked
<1>8. CASE TooBig(r.got, r.buf, M, n.clean)
  BY <1>2, <1>5, <1>8 DEF TooBig, Asked
<1> QED BY <1>4, <1>6, <1>7, <1>8

\* The request could not be read: the answer names none.
LEMMA OwnReadFails ==
  ASSUME AsInv, OwnInv, RunInv, RunOwn, NEW s \in Slaves, sl[s].pc \in {"idle", "failed"},
         sl[s].pc = "idle" => sl[s].in, ReadFails(s), Spends, UNCHANGED <<pool, locked_by, th, dead, net>>
  PROVE  OwnInv'
<1>1. PICK a, x, y, n : a = sl[s].conn /\ x = sl[s] /\ y = sl'[s] /\ n = net[a]
  OBVIOUS
<1>2. sl[s].pc \in Serving
  BY DEF Serving
<1>3. /\ DOMAIN sl = Slaves /\ DOMAIN x = DOMAIN NewSlave /\ DOMAIN net = Conns /\ a \in Conns
      /\ DOMAIN net[a] = DOMAIN NoConn /\ IsSeq(net[a].up) /\ IsSeq(net[a].down)
  BY <1>1, <1>2, AtServing
<1>4. PICK o : o = Answer(HTTP_BADREQ, None, None, sl[s].user, sl[s].conn)
  OBVIOUS
<1>5. sl' = [sl EXCEPT ![s].pc = "answer", ![s].then = "close", ![s].got = Nothing, ![s].out = o]
  BY <1>4 DEF ReadFails
<1>6. /\ DOMAIN sl' = Slaves /\ \A r \in Slaves \ {s} : sl'[r] = sl[r]
      /\ DOMAIN y = DOMAIN NewSlave /\ y.pc = "answer" /\ y.conn = a /\ y.buf = x.buf
      /\ y.user = x.user /\ y.out = o /\ y.then = "close"
  BY <1>1, <1>3, <1>5, Records
<1>7. ASSUME NEW id PROVE OwnAnswer(o, id)
  BY <1>4, AnswerOwn
<1>8. Serves(s, a)
  <2>1. IsSeq(o)
    BY <1>7 DEF OwnAnswer, IsMessage
  <2> QED BY <1>1, <1>3, <1>6, <2>1 DEF Serves, Serving
<1>9. /\ a # 0 /\ n.sv = "open" /\ net' = net
  BY <1>1, <1>2, NotAuth
<1>10. Goes(x, n, y, n)
  <2>1. ASSUME NEW M, NEW k PROVE ~Over(x, n, M, k)
    BY <1>1 DEF Over, Closing, Rests
  <2>2. ASSUME NEW M, NEW k PROVE Over(y, n, M, k)
    BY <1>6 DEF Over, Closing
  <2> QED BY <1>6, <1>7, <1>9, <2>1, <2>2 DEF Goes
<1>11. Goes(sl[s], net[a], sl'[s], net'[a]) /\ net'[a].clean = net[a].clean
  BY <1>1, <1>9, <1>10
<1>12. ~IsProxy(s) => Lines(sl'[s].buf)
  BY <1>1, <1>6, SlaveBuffer
<1> QED BY <1>1, <1>2, <1>8, <1>11, <1>12, OwnSlaveGoes


LEMMA OwnAccept ==
  ASSUME AsInv, OwnInv, RunInv, RunOwn, NEW s \in Slaves, edg_wll_AcceptHTTP(s), UNCHANGED <<pool, locked_by, th, dead>>
  PROVE  OwnInv'
<1>1. PICK a, r : a = sl[s].conn /\ r = http_recv(sl[s].got, sl[s].buf, net[a].up)
  OBVIOUS
<1>2. sl[s].pc = "idle" /\ sl[s].pc \in Serving
  BY DEF edg_wll_AcceptHTTP, Serving
<1>3. /\ DOMAIN sl = Slaves /\ DOMAIN sl[s] = DOMAIN NewSlave /\ sl[s].out = <<>> /\ sl[s].pc # "free"
      /\ DOMAIN net = Conns /\ a \in Conns
      /\ DOMAIN net[a] = DOMAIN NoConn /\ IsSeq(net[a].up) /\ IsSeq(net[a].down)
  BY <1>1, <1>2, AtServing
<1>4. CASE eof_up(net, a) /\ Drop(s) /\ UNCHANGED bud
  BY <1>3, <1>4, OwnLeaves DEF Spends
<1>5. CASE /\ (Awaited(s) /\ UNCHANGED bud) \/ Spend("idle")
           /\ IF sl[s].in THEN ReadFails(s) /\ UNCHANGED net ELSE Drop(s)
  <2>1. Spends
    BY <1>5 DEF Spends
  <2>2. CASE sl[s].in
    <3>1. ReadFails(s) /\ UNCHANGED <<pool, locked_by, th, dead, net>> /\ sl[s].pc \in {"idle", "failed"}
      BY <1>2, <1>5, <2>2
    <3> QED BY <2>1, <2>2, <3>1, OwnReadFails
  <2>3. CASE ~sl[s].in
    BY <1>3, <1>5, <2>1, <2>3, OwnLeaves
  <2> QED BY <2>2, <2>3
<1>6. CASE /\ net[a].up # <<>>
           /\ net' = read_up(net, a)
           /\ sl' = [sl EXCEPT ![s].pc = CASE r.got.st = "DONE" -> "serve"
                                           [] r.got.st = "E2BIG" -> "failed"
                                           [] OTHER -> "idle",
                               ![s].in = TRUE, ![s].got = r.got, ![s].buf = r.buf]
           /\ UNCHANGED bud
  <2>1. PICK pc, g, b : /\ pc = (CASE r.got.st = "DONE" -> "serve"
                                   [] r.got.st = "E2BIG" -> "failed"
                                   [] OTHER -> "idle")
                        /\ g = r.got /\ b = r.buf
    OBVIOUS
  <2>2. /\ pc \in {"idle", "failed", "serve"}
        /\ r.got.st = "DONE" => pc = "serve"
        /\ r.got.st = "E2BIG" => pc = "failed"
        /\ r.got.st \in {"FIRST", "BODY"} => pc = "idle"
    BY <2>1
  <2>3. sl' = [sl EXCEPT ![s].pc = pc, ![s].in = TRUE, ![s].got = g, ![s].buf = b]
    BY <1>6, <2>1
  <2>4. PICK x, y, n, m : x = sl[s] /\ y = sl'[s] /\ n = net[a] /\ m = net'[a]
    OBVIOUS
  <2>5. /\ DOMAIN sl' = Slaves /\ \A q \in Slaves \ {s} : sl'[q] = sl[q]
        /\ DOMAIN y = DOMAIN NewSlave /\ y.pc = pc /\ y.conn = a
        /\ y.user = x.user /\ y.out = <<>> /\ y.got = g /\ y.buf = b
    BY <1>1, <1>3, <2>3, <2>4, Records
  <2>6. /\ DOMAIN net' = Conns /\ \A d \in Conns \ {a} : net'[d] = net[d]
        /\ DOMAIN m = DOMAIN NoConn /\ m.up = <<>> /\ m.down = n.down /\ m.clean = n.clean
        /\ m.as = n.as /\ m.peer = n.peer /\ m.sv = n.sv /\ m.cl = n.cl
    <3>1. net' = [net EXCEPT ![a].up = <<>>]
      BY <1>6 DEF read_up
    <3> QED BY ONLY <1>3, <2>4, <3>1, Records
  <2>7. Serves(s, a)
    <3>1. pc \in Serving /\ pc # "answer"
      BY <2>2 DEF Serving
    <3> QED BY SMTT(30), <1>3, <1>6, <2>4, <2>5, <2>6, <3>1, EmptyIsSeq DEF Serves, Spends
  <2>8. SlaveHasRead(x, n, y, m)
    BY <1>1, <2>1, <2>2, <2>4, <2>5, <2>6 DEF SlaveHasRead
  <2>9. x.pc = "idle" /\ n.up # <<>> /\ n.sv = "open"
    BY <1>1, <1>2, <1>6, <2>4, NotAuth
  <2>10. Goes(x, n, y, m)
    <3>1. ASSUME NEW M, NEW k PROVE ~Over(x, n, M, k)
      BY <2>9 DEF Over, Closing, Rests
    <3>2. ASSUME NEW M, NEW k, IsMessage(M), Asked(x, n, M, k) PROVE Asked(y, m, M, k)
      BY <2>8, <2>9, <3>2, SlaveReads
    <3> QED BY <2>5, <2>6, <2>9, <3>1, <3>2 DEF Goes
  <2>11. ~IsProxy(s) => Lines(sl'[s].buf)
    <3> SUFFICES ASSUME ~IsProxy(s) PROVE Lines(y.buf)
      BY <2>4
    <3>1. Follows(x, n)
      BY <1>1, <1>2, <2>4 DEF RunOwn, SlaveOwn
    <3>2. PICK M : IsMessage(M) /\ \E k \in 0..Len(M) : Asked(x, n, M, k)
      BY <3>1 DEF Follows
    <3>3. PICK k \in 0..Len(M) : Asked(x, n, M, k)
      BY <3>2
    <3> QED BY <2>8, <2>9, <3>2, <3>3, SlaveReads
  <2>12. Goes(sl[s], net[a], sl'[s], net'[a]) /\ net'[a].clean = net[a].clean
    BY <2>4, <2>6, <2>10
  <2>13. sl[s].pc = "idle" => net[a].up # <<>> \/ sl[s].in
    BY <1>6
  <2> QED BY <1>1, <1>2, <2>7, <2>11, <2>12, <2>13, OwnSlaveGoes
<1> QED BY <1>1, <1>4, <1>5, <1>6 DEF edg_wll_AcceptHTTP

\* What a slave that has run a request x prepares.
ServedNow(x, y, c) ==
  /\ y.pc = "answer" /\ y.got = Nothing /\ ~y.in /\ y.buf = x.buf
  /\ \/ y.out = <<>>
     \/ \E code, body : /\ y.out = Answer(code, x.got.line.id, body, x.user, c)
                        /\ body = IF x.got.body # NoUnit THEN x.got.body.id ELSE x.got.line.id

LEMMA ServeGoes ==
  ASSUME NEW x, NEW y, NEW c, ServedNow(x, y, c), x.pc = "serve", NEW n, n = net[c], n.sv = "open"
  PROVE  Goes(x, n, y, n)
<1>1. ASSUME NEW M, NEW k PROVE ~Over(x, n, M, k)
  BY DEF Over, Closing, Rests
<1>2. ASSUME NEW M, NEW k, IsMessage(M), Asked(x, n, M, k)
      PROVE  Over(y, n, M, k) /\ (y.out # <<>> /\ BodyOf(M) \in {NoUnit, M[1].m} => OwnAnswer(y.out, M[1].m.id))
  <2>1. /\ k = Len(M) /\ n.up = <<>> /\ x.buf = <<>>
        /\ x.got.body = BodyOf(M) /\ (n.clean => x.got.line = M[1].m)
    BY <1>2 DEF Asked, Closing, Reads, Served
  <2>2. Over(y, n, M, k)
    <3>1. Lines(<<>>)
      BY EmptyIsSeq DEF Lines
    <3> QED BY <2>1, <3>1 DEF Over, Rests, ServedNow
  <2>3. ASSUME y.out # <<>>, BodyOf(M) \in {NoUnit, M[1].m} PROVE OwnAnswer(y.out, M[1].m.id)
    <3>1. PICK code, body : /\ y.out = Answer(code, x.got.line.id, body, x.user, c)
                            /\ body = IF x.got.body # NoUnit THEN x.got.body.id ELSE x.got.line.id
      BY <2>3 DEF ServedNow
    <3>2. PICK id, own, user : id = x.got.line.id /\ own = M[1].m.id /\ user = x.user
      OBVIOUS
    <3>3. net[c].clean => id = own /\ body = own
      BY <2>1, <2>3, <3>1, <3>2
    <3>4. OwnAnswer(Answer(code, id, body, user, c), own)
      BY <3>3, AnswerOwn
    <3> QED BY <3>1, <3>2, <3>4
  <2> QED BY <2>2, <2>3
<1> QED BY <1>1, <1>2 DEF Goes

LEMMA OwnServe ==
  ASSUME AsInv, OwnInv, RunInv, RunOwn, NEW s \in Slaves, Serve(s), UNCHANGED <<pool, locked_by, th, dead>>
  PROVE  OwnInv'
<1>1. PICK a, x, y : a = sl[s].conn /\ x = sl[s] /\ y = sl'[s]
  OBVIOUS
<1>2. sl[s].pc = "serve" /\ UNCHANGED <<net, bud>> /\ sl[s].pc \in Serving
  BY DEF Serve, Serving
<1>3. /\ DOMAIN sl = Slaves /\ DOMAIN x = DOMAIN NewSlave /\ DOMAIN net = Conns /\ a \in Conns
      /\ DOMAIN net[a] = DOMAIN NoConn /\ IsSeq(net[a].up) /\ IsSeq(net[a].down)
  BY <1>1, <1>2, AtServing
<1>4. \E o, n : /\ sl' = [sl EXCEPT ![s].pc = "answer", ![s].then = n, ![s].got = Nothing, ![s].in = FALSE,
                                    ![s].served = TRUE, ![s].out = o]
                /\ \/ o = <<>>
                   \/ \E code, body : /\ o = Answer(code, sl[s].got.line.id, body, sl[s].user, sl[s].conn)
                                      /\ body = IF sl[s].got.body # NoUnit THEN sl[s].got.body.id
                                                ELSE sl[s].got.line.id
  <2> DEFINE q == sl[s].got.line
             hasBody == sl[s].got.body # NoUnit
             r == edg_wll_Proto(q, sl[s].user # None)
             how == bk_accept_serve(r, hasBody)
             code == IF how = "soap" THEN HTTP_INTERNAL ELSE r.http
             body == IF hasBody THEN sl[s].got.body.id ELSE q.id
             o == IF how = "no" THEN <<>> ELSE Answer(code, q.id, body, sl[s].user, sl[s].conn)
             n == handle_server_error(r.err)
  <2>1. sl' = [sl EXCEPT ![s].pc = "answer", ![s].then = n, ![s].got = Nothing, ![s].in = FALSE,
                         ![s].served = TRUE, ![s].out = o]
    BY Zenon DEF Serve
  <2>2. o = <<>> \/ o = Answer(code, q.id, body, sl[s].user, sl[s].conn)
    <3> HIDE DEF how, code, body, q
    <3> QED OBVIOUS
  <2>3. body = IF sl[s].got.body # NoUnit THEN sl[s].got.body.id ELSE sl[s].got.line.id
    OBVIOUS
  <2>4. q.id = sl[s].got.line.id
    OBVIOUS
  <2> HIDE DEF n, code, body, q, o
  <2>5. \/ o = <<>>
        \/ \E k, b : /\ o = Answer(k, sl[s].got.line.id, b, sl[s].user, sl[s].conn)
                     /\ b = IF sl[s].got.body # NoUnit THEN sl[s].got.body.id ELSE sl[s].got.line.id
    BY <2>2, <2>3, <2>4
  <2> QED BY <2>1, <2>5
<1>5. PICK o, n : /\ sl' = [sl EXCEPT ![s].pc = "answer", ![s].then = n, ![s].got = Nothing, ![s].in = FALSE,
                                      ![s].served = TRUE, ![s].out = o]
                  /\ \/ o = <<>>
                     \/ \E code, body : /\ o = Answer(code, sl[s].got.line.id, body, sl[s].user, sl[s].conn)
                                        /\ body = IF sl[s].got.body # NoUnit THEN sl[s].got.body.id
                                                  ELSE sl[s].got.line.id
  BY <1>4
<1>6. /\ DOMAIN sl' = Slaves /\ \A r \in Slaves \ {s} : sl'[r] = sl[r]
      /\ DOMAIN y = DOMAIN NewSlave /\ y.pc = "answer" /\ y.conn = a /\ y.buf = x.buf
      /\ y.user = x.user /\ y.out = o /\ y.got = Nothing /\ ~y.in
  BY <1>1, <1>3, <1>5, Records
<1>7. ServedNow(x, y, a)
  BY <1>1, <1>5, <1>6 DEF ServedNow
<1>8. net' = net /\ net[a].sv = "open" /\ x.pc = "serve"
  BY <1>1, <1>2, NotAuth
<1>9. Goes(sl[s], net[a], sl'[s], net'[a]) /\ net'[a].clean = net[a].clean
  <2>1. Goes(x, net[a], y, net[a])
    BY <1>7, <1>8, ServeGoes
  <2> QED BY <1>1, <1>8, <2>1
<1>10. Serves(s, a)
  <2>1. IsSeq(o)
    <3>1. o = <<>> \/ IsAnswer(o, sl[s].user)
      BY <1>5, AnswerIs
    <3> QED BY <3>1, EmptyIsSeq DEF IsAnswer
  <2> QED BY <1>1, <1>2, <1>3, <1>6, <2>1 DEF Serves, Serving, Spends
<1>11. ~IsProxy(s) => Lines(sl'[s].buf)
  BY <1>1, <1>6, SlaveBuffer
<1>12. sl[s].pc # "idle"
  BY <1>2
<1> QED BY <1>1, <1>2, <1>9, <1>10, <1>11, <1>12, OwnSlaveGoes


LEMMA OwnWrite ==
  ASSUME AsInv, OwnInv, RunInv, RunOwn, NEW s \in Slaves, edg_wll_DoneHTTP(s), UNCHANGED <<pool, locked_by, th, dead>>
  PROVE  OwnInv'
<1>1. PICK a, o, u, z : a = sl[s].conn /\ o = sl[s].out /\ u = Head(o) /\ z = Tail(o)
  OBVIOUS
<1>2. sl[s].pc = "answer" /\ sl[s].pc \in Serving /\ o # <<>> /\ UNCHANGED bud
  BY <1>1 DEF edg_wll_DoneHTTP, Serving
<1>3. /\ DOMAIN sl = Slaves /\ DOMAIN sl[s] = DOMAIN NewSlave /\ IsSeq(o) /\ sl[s].pc # "free"
      /\ DOMAIN net = Conns /\ a \in Conns
      /\ DOMAIN net[a] = DOMAIN NoConn /\ IsSeq(net[a].up) /\ IsSeq(net[a].down)
  BY <1>1, <1>2, AtServing
<1>4. IsSeq(z) /\ Len(o) > 0
  BY <1>1, <1>2, <1>3, IsSeqEmpty, IsSeqTail
<1>5. sl' = [sl EXCEPT ![s].out = z] /\ net' = write_down(net, a, u)
  BY <1>1 DEF edg_wll_DoneHTTP
<1>6. PICK x, y, n, m : x = sl[s] /\ y = sl'[s] /\ n = net[a] /\ m = net'[a]
  OBVIOUS
<1>7. /\ DOMAIN sl' = Slaves /\ \A r \in Slaves \ {s} : sl'[r] = sl[r]
      /\ DOMAIN y = DOMAIN NewSlave /\ y.pc = x.pc /\ y.conn = a /\ y.user = x.user /\ y.out = z
      /\ y.got = x.got /\ y.buf = x.buf /\ y.then = x.then /\ y.in = x.in
  BY <1>1, <1>3, <1>5, <1>6, Records
<1>8. /\ DOMAIN net' = Conns /\ \A d \in Conns \ {a} : net'[d] = net[d]
      /\ DOMAIN m = DOMAIN NoConn /\ m.up = n.up /\ IsSeq(m.down) /\ m.clean = n.clean
      /\ m.as = n.as /\ m.peer = n.peer /\ m.sv = n.sv /\ m.cl = n.cl
      /\ n.cl => m.down = Append(n.down, u)
  <2>1. CASE ~n.cl
    BY <1>3, <1>5, <1>6, <2>1 DEF write_down
  <2>2. CASE n.cl
    <3>1. PICK d : d = Append(n.down, u)
      OBVIOUS
    <3>2. net' = [net EXCEPT ![a].down = d] /\ IsSeq(d)
      BY <1>3, <1>5, <1>6, <2>2, <3>1, IsSeqAppend DEF write_down
    <3>3. /\ DOMAIN net' = Conns /\ \A e \in Conns \ {a} : net'[e] = net[e]
          /\ DOMAIN m = DOMAIN NoConn /\ m.up = n.up /\ m.down = d /\ m.clean = n.clean
          /\ m.as = n.as /\ m.peer = n.peer /\ m.sv = n.sv /\ m.cl = n.cl
      BY ONLY <1>3, <1>6, <3>2, Records
    <3> QED BY <3>1, <3>2, <3>3
  <2> QED BY <2>1, <2>2
<1>9. Serves(s, a)
  BY <1>2, <1>3, <1>4, <1>6, <1>7, <1>8 DEF Serves, Spends
<1>10. /\ \A t \in Threads : th[t].conn # a
       /\ a # 0 /\ net[a].sv = "open" /\ \A r \in Slaves \ {s} : sl[r].conn # a
  BY <1>1, <1>2, NotAuth
<1>11. Alone(s, a, sl, sl')
  BY <1>1, <1>6, <1>7, <1>10 DEF Alone
<1>12. ASSUME Claimed(a) PROVE KeepsLine(a)
  <2>1. m.down = Append(n.down, u)
    BY <1>3, <1>6, <1>8, <1>12, ClaimedOpen
  <2>2. ASSUME NEW v, NEW buf, Exchange(v, net[a], a, buf, sl) PROVE Exchange(v, net'[a], a, buf, sl')
    <3>1. /\ sl[s].out # <<>> /\ sl'[s].out = Tail(sl[s].out) /\ sl'[s].pc = sl[s].pc /\ sl'[s].got = sl[s].got
          /\ sl'[s].buf = sl[s].buf /\ sl'[s].then = sl[s].then /\ sl'[s].in = sl[s].in
      BY <1>1, <1>2, <1>6, <1>7
    <3>2. /\ net'[a].up = net[a].up /\ net'[a].clean = net[a].clean /\ net'[a].sv = net[a].sv
          /\ net'[a].down = Append(net[a].down, Head(sl[s].out))
      BY <1>1, <1>6, <1>8, <2>1
    <3> QED BY <1>11, <2>2, <3>1, <3>2, ExchangeWrites
  <2>3. ~Resting(net[a], a, sl)
    BY <1>1, <1>2 DEF Resting
  <2> QED BY <1>6, <1>8, <2>2, <2>3 DEF KeepsLine
<1>13. Follows(sl[s], net[a]) => Follows(sl'[s], net'[a])
  <2>1. Follows(x, n) => Follows(y, m)
    BY <1>7, <1>8, SameSlave
  <2> QED BY <1>6, <2>1
<1>14. ~IsProxy(s) => Lines(sl'[s].buf)
  BY <1>6, <1>7, SlaveBuffer
<1> QED BY <1>1, <1>2, <1>3, <1>9, <1>10, <1>12, <1>13, <1>14, OwnGoesOn

LEMMA OwnAnswered ==
  ASSUME AsInv, OwnInv, RunInv, RunOwn, NEW s \in Slaves, Answered(s), UNCHANGED <<pool, locked_by, th, dead>>
  PROVE  OwnInv'
<1>1. PICK a : a = sl[s].conn
  OBVIOUS
<1>2. sl[s].pc = "answer" /\ sl[s].pc \in Serving /\ sl[s].out = <<>> /\ Spends
  BY DEF Answered, Serving, Spends
<1>3. /\ DOMAIN sl = Slaves /\ DOMAIN sl[s] = DOMAIN NewSlave /\ sl[s].pc # "free"
      /\ DOMAIN net = Conns /\ a \in Conns
      /\ DOMAIN net[a] = DOMAIN NoConn /\ IsSeq(net[a].up) /\ IsSeq(net[a].down)
  BY <1>1, <1>2, AtServing
<1>4. CASE Drop(s) \/ Restart(s)
  BY <1>2, <1>3, <1>4, OwnLeaves
<1>5. CASE /\ sl[s].then \notin {"close", "restart"}
           /\ sl' = [sl EXCEPT ![s].pc = "idle", ![s].then = None] /\ UNCHANGED net
  <2>1. PICK x, y, n : x = sl[s] /\ y = sl'[s] /\ n = net[a]
    OBVIOUS
  <2>2. /\ DOMAIN sl' = Slaves /\ \A r \in Slaves \ {s} : sl'[r] = sl[r]
        /\ DOMAIN y = DOMAIN NewSlave /\ y.pc = "idle" /\ y.conn = a /\ y.user = x.user
        /\ y.out = <<>> /\ x.out = <<>> /\ y.got = x.got /\ y.buf = x.buf /\ y.in = x.in
    BY <1>1, <1>2, <1>3, <1>5, <2>1, Records
  <2>3. x.pc = "answer" /\ x.then \notin {"close", "restart"} /\ n.sv = "open" /\ net' = net
    BY <1>1, <1>2, <1>5, <2>1, NotAuth
  <2>4. Serves(s, a)
    BY <1>2, <1>3, <2>1, <2>2, <2>3, EmptyIsSeq DEF Serves, Serving
  <2>5. Goes(x, n, y, n)
    <3>1. ASSUME NEW M, NEW k, Over(x, n, M, k) PROVE Over(y, n, M, k)
      BY <2>2, <2>3, <3>1 DEF Over, Closing, Rests
    <3>2. ASSUME NEW M, NEW k, Asked(x, n, M, k) PROVE Asked(y, n, M, k)
      <4>1. Reads(x, n, M, k)
        BY <2>3, <3>2 DEF Asked, Closing, Served
      <4>2. Reads(y, n, M, k)
        BY <2>2, <4>1 DEF Reads
      <4> QED BY <4>2 DEF Asked
    <3> QED BY <2>2, <2>3, <3>1, <3>2 DEF Goes
  <2>6. Goes(sl[s], net[a], sl'[s], net'[a]) /\ net'[a].clean = net[a].clean
    BY <2>1, <2>3, <2>5
  <2>7. ~IsProxy(s) => Lines(sl'[s].buf)
    BY <2>1, <2>2, SlaveBuffer
  <2>8. sl[s].pc # "idle"
    BY <1>2
  <2> QED BY <1>1, <1>2, <2>4, <2>6, <2>7, <2>8, OwnSlaveGoes
<1> QED BY <1>4, <1>5 DEF Answered

LEMMA ServerKeepsOwn ==
  ASSUME AsInv, OwnInv, NEW s \in Slaves, ServerStep(s), UNCHANGED <<clientVars, files>>
  PROVE  OwnInv'
<1>1. UNCHANGED <<pool, locked_by, th, dead>>
  BY DEF clientVars
<1>2. Spends
  BY DEF ServerStep, Take, bk_handle_connection, bk_handle_connection_proxy, edg_wll_AcceptHTTP, TooLong, Serve,
         edg_wll_DoneHTTP, Answered, SlaveDies, Spends
<1>3. CASE dead
  <2>1. AnswerIsOwn'
    BY <1>1 DEF OwnInv, AnswerIsOwn, HasAnswer
  <2> QED BY <1>1, <1>3, <2>1 DEF OwnInv
<1>4. CASE ~dead
  <2>1. RunInv /\ RunOwn
    BY <1>4 DEF AsInv, OwnInv
  <2>2. CASE TooLong(s)
    <3>1. /\ ReadFails(s) /\ sl[s].pc = "failed" /\ UNCHANGED <<pool, locked_by, th, dead, net>>
          /\ sl[s].pc \in {"idle", "failed"} /\ sl[s].pc # "idle"
      BY <1>1, <2>2 DEF TooLong
    <3> QED BY <1>2, <2>1, <3>1, OwnReadFails
  <2>3. CASE SlaveDies(s)
    BY <1>1, <1>2, <2>1, <2>3, OwnLeaves DEF SlaveDies
  <2> QED BY <1>1, <2>1, <2>2, <2>3, OwnTake, OwnAuthorize, OwnAuthorizeProxy, OwnAccept, OwnServe, OwnWrite,
             OwnAnswered DEF ServerStep
<1> QED BY <1>3, <1>4

-----------------------------------------------------------------------------
(* The theorem.                                                             *)

LEMMA OwnInit ==
  ASSUME Init
  PROVE  OwnInv
<1>1. sl = [s \in Slaves |-> NewSlave] /\ th = [t \in Threads |-> NewThread]
  BY DEF Init, ServerInit, ClientInit
<1>2. /\ pool = [i \in Idx |-> NoEntry] /\ net = [c \in Conns |-> NoConn]
  BY DEF Init, ClientInit, edg_wll_initConnections
<1>3. NewThread.pc = "idle" /\ NewThread.px = 0 /\ NoEntry.gss = 0 /\ NoEntry.buf = <<>> /\ NoConn.sv = "closed"
  BY DEF NewThread, NoEntry, NoConn
<1>4. NewSlave.pc = "free" /\ NewSlave.got = Nothing /\ NewSlave.buf = <<>>
  BY DEF NewSlave
<1>5. AnswerIsOwn
  BY <1>1, <1>3 DEF AnswerIsOwn, HasAnswer
<1>6. \A c \in Conns : QueuedOwn(c)
  BY <1>2, <1>3 DEF QueuedOwn
<1>7. \A s \in Slaves : SlaveOwn(s)
  <2>1. Lines(<<>>)
    BY EmptyIsSeq DEF Lines
  <2> QED BY <1>1, <1>4, <2>1 DEF SlaveOwn, Serving
<1>8. \A i \in Idx : EntryOwn(i)
  BY <1>2, <1>3 DEF EntryOwn
<1>9. \A t \in Threads : ThreadOwn(t)
  BY <1>1, <1>3 DEF ThreadOwn, SentOwn, AuthOwn, PoolOwn, ProxyOwn
<1> QED BY <1>5, <1>6, <1>7, <1>8, <1>9 DEF OwnInv, RunOwn

\* Nothing the invariant speaks of has changed.
LEMMA OwnSame ==
  ASSUME OwnInv, UNCHANGED <<pool, locked_by, th, dead, net, sl>>, Idx' = Idx
  PROVE  OwnInv'
<1>1. AnswerIsOwn'
  BY DEF OwnInv, AnswerIsOwn, HasAnswer
<1>2. ASSUME RunOwn PROVE RunOwn'
  <2>1. \A c \in Conns : QueuedOwn(c)'
    BY <1>2 DEF RunOwn, QueuedOwn
  <2>2. \A s \in Slaves : SlaveOwn(s)'
    BY <1>2 DEF RunOwn, SlaveOwn
  <2>3. \A i \in Idx : EntryOwn(i)'
    BY <1>2 DEF RunOwn, EntryOwn
  <2>4. \A t \in Threads : ThreadOwn(t)'
    BY <1>2 DEF RunOwn, ThreadOwn, SentOwn, AuthOwn, PoolOwn, ProxyOwn
  <2> QED BY <2>1, <2>2, <2>3, <2>4 DEF RunOwn
<1> QED BY <1>1, <1>2 DEF OwnInv

LEMMA OwnRenew ==
  ASSUME AsInv, OwnInv, Renew, UNCHANGED sl
  PROVE  OwnInv'
<1>1. UNCHANGED <<pool, locked_by, th, dead, net, sl>> /\ Spend("renewals")
  BY DEF Renew, clientVars
<1>2. Idx' = Idx
  BY <1>1, BudgetKept DEF AsInv
<1> QED BY <1>1, <1>2, OwnSame

LEMMA OwnStutter ==
  ASSUME AsInv, OwnInv, UNCHANGED vars
  PROVE  OwnInv'
<1>1. UNCHANGED <<pool, locked_by, th, dead, net, sl, bud>>
  BY DEF vars
<1>2. Idx' = Idx
  BY <1>1, BudgetKept DEF AsInv
<1> QED BY <1>1, <1>2, OwnSame

\* An answer with which a call returns is the answer to the request of that
\* call, its first line as well as its body, whatever the number of threads,
\* slaves, servers and entries of the pool, and whatever timeouts, lost
\* connections, restarts and other threads there were before; unless one of
\* the two processes began to read the connection with the rest of another
\* message in its buffer, or the answer is to a request that could not be
\* read (edg_wll_http_send_recv and edg_wll_http_send_recv_proxy in
\* connection.c, http_recv in mini_http.c, the slaves of bkserverd.c).
THEOREM AnswerOwned == Spec => []AnswerIsOwn
<1>1. AsInv /\ OwnInv /\ [Next]_vars => AsInv' /\ OwnInv'
  <2> SUFFICES ASSUME AsInv, OwnInv, [Next]_vars PROVE AsInv' /\ OwnInv'
    OBVIOUS
  <2>1. CASE Client
    BY <2>1, ClientKeepsAs, ClientKeepsOwn DEF Client
  <2>2. CASE Server
    BY <2>2, ServerKeepsAs, ServerKeepsOwn DEF Server
  <2>3. CASE Renew /\ UNCHANGED sl
    BY <2>3, RenewStep, OwnRenew
  <2>4. CASE UNCHANGED vars
    BY <2>4, AsStutter, OwnStutter
  <2> QED BY <2>1, <2>2, <2>3, <2>4 DEF Next
<1>2. OwnInv => AnswerIsOwn
  BY DEF OwnInv
<1> QED BY <1>1, <1>2, AsInit, OwnInit, PTL DEF Spec
=============================================================================
