-------------------------------- MODULE Gss --------------------------------
(***************************************************************************)
(* Authenticated connections (glite_gss.c) and the plain ones of the proxy *)
(* (lb_plain_io.c), and the messages on them (mini_http.c).                *)
(*                                                                         *)
(* net[c]  a connection: the server, the identity it was authenticated     *)
(*         with, whether the two ends are open, and what is on its way in  *)
(*         each direction.  A token is what one call writes.  It is clean  *)
(*         as long as neither end reads it behind the rest of another      *)
(*         message in its buffer (for the properties only).                *)
(***************************************************************************)
EXTENDS Naturals, Integers, Sequences, FiniteSets, SequencesExt

CONSTANTS Conns,       \* connections, 1..n
          Servers,
          Addresses,   \* how many addresses the name of a server has
          Scenarios    \* what may happen in a behaviour, and how often

ASSUME AddressAssumption == Addresses \in Nat \ {0} /\ Conns \subseteq Nat \ {0}

VARIABLES net,
          files,     \* the credential files: [identity -> time of the last change]
          bud        \* what is left of the scenario

None == "none"
NoConn == [peer |-> None, as |-> None, cl |-> FALSE, sv |-> "closed", clean |-> TRUE,
           up |-> <<>>, down |-> <<>>]
Token == [k |-> "token"]

\* Uses up one unit of the scenario's field f.
Spend(f) == bud[f] > 0 /\ bud' = [bud EXCEPT ![f] = @ - 1]

---------------------------------------------------------------------------
(* Credentials                                                             *)

\* What the files of a credential may be like when they are read.
CredFiles == [cert : BOOLEAN, key : BOOLEAN, same : BOOLEAN, mech : BOOLEAN,
              readable : BOOLEAN, lifetime : {0, 1}]
GoodFiles == [cert |-> TRUE, key |-> TRUE, same |-> TRUE, mech |-> TRUE,
              readable |-> TRUE, lifetime |-> 1]

\* A certificate and its key in two files are copied to one.
create_proxy(f) == f.readable

\* "empty" is the credential of a process without any.
edg_wll_gss_acquire_cred(f) ==
    IF ~f.mech THEN IF f.cert \/ f.key THEN "ERRNO" ELSE "empty"
    ELSE IF f.cert # f.key THEN "EINVAL"
    ELSE IF ~f.cert THEN IF f.readable THEN IF f.lifetime > 0 THEN "ok" ELSE "GSS" ELSE "GSS"
    ELSE IF ~f.same /\ ~create_proxy(f) THEN "ERRNO"
    ELSE IF ~f.readable \/ f.lifetime = 0 THEN "GSS"
    ELSE "ok"

Acquired(f) == edg_wll_gss_acquire_cred(f) \in {"ok", "empty"}

---------------------------------------------------------------------------
(* Names and addresses: both families are asked for, IPv6 first.           *)

Lookups == {"found", "unknown", "timeout", "internal"}

\* What follows the lookup of the names of one family.
asyn_getservbyname(l) == CASE l = "found" -> "try"
                           [] l = "unknown" -> "next"
                           [] OTHER -> "end"

\* The error with which the connecting ends when no address was left to try.
gss_connect_error(l) == IF l = "timeout" THEN "TIMEOUT" ELSE "HERRNO"

---------------------------------------------------------------------------
(* The two ends                                                            *)

FreeConns(n) == {c \in Conns : n[c] = NoConn}
AConn(n) == CHOOSE c \in FreeConns(n) : \A d \in FreeConns(n) : c <= d

\* The socket is connected and the first token of the authentication sent.
do_connect(n, c, srv, who) ==
    [n EXCEPT ![c] = [NoConn EXCEPT !.peer = srv, !.as = who, !.cl = TRUE, !.sv = "queued",
                                    !.up = <<Token>>]]

\* The one of the proxy needs no authentication.
plain_connect(n, c, srv) ==
    [n EXCEPT ![c] = [NoConn EXCEPT !.peer = srv, !.cl = TRUE, !.sv = "queued"]]

\* The client closes its end; nothing is told to the peer but the end of the
\* data.
edg_wll_gss_close(n, c) ==
    IF c = 0 THEN n
    ELSE [n EXCEPT ![c] = IF @.sv = "closed" THEN NoConn
                          ELSE [@ EXCEPT !.cl = FALSE, !.down = <<>>]]

\* The server does, or its process ends.
ServerClose(n, c) ==
    IF c = 0 THEN n
    ELSE [n EXCEPT ![c] = IF ~@.cl THEN NoConn ELSE [@ EXCEPT !.sv = "closed", !.up = <<>>]]

\* Writing to a peer that has closed its end succeeds or does not, and what
\* was written is gone.
write_up(n, c, u) == IF n[c].sv = "closed" THEN n ELSE [n EXCEPT ![c].up = Append(@, u)]
write_down(n, c, u) == IF ~n[c].cl THEN n ELSE [n EXCEPT ![c].down = Append(@, u)]

\* The outcomes of a write to a closed peer, as real_write tells them.
real_write(n, c) == IF n[c].sv = "closed" THEN {"ok", "ENOTCONN", "ECONNRESET"} ELSE {"ok"}

\* Reading takes what there is; the end of the data comes after it.
read_up(n, c) == [n EXCEPT ![c].up = <<>>]
read_down(n, c) == [n EXCEPT ![c].down = <<>>]
eof_up(n, c) == n[c].up = <<>> /\ ~n[c].cl
eof_down(n, c) == n[c].down = <<>> /\ n[c].sv = "closed"

\* The second half of the authentication: what the client waits for, and what
\* the server does with the client's token.
try_conn_and_auth(n, c) == n[c].down # <<>> /\ Head(n[c].down) = Token
Authenticated(n, c) == [n EXCEPT ![c].down = Tail(@)]
edg_wll_gss_accept(n, c) == [n EXCEPT ![c].up = Tail(@), ![c].sv = "open",
                                     ![c].down = IF n[c].cl THEN Append(@, Token) ELSE @]

\* The name in the peer's certificate.
edg_wll_gss_get_client_conn(n, c) == n[c].as

---------------------------------------------------------------------------
(* Messages of the request protocol (mini_http.c).  A message is written   *)
(* in pieces: the first line; the end of that line with the headers; the   *)
(* body, when there is one.  A reader whose buffer holds a first line      *)
(* without its end has to read on, and keeps it in the buffer.             *)

NoUnit == [k |-> None]
Nothing == [st |-> "FIRST", line |-> NoUnit, body |-> NoUnit]

\* The pieces of a message with these contents.
Pieces(line, body) ==
    <<[k |-> "line", m |-> line],
      [k |-> "head", m |-> line, clen |-> IF body = NoUnit THEN 0 ELSE 1]>>
        \o (IF body = NoUnit THEN <<>> ELSE <<[k |-> "body", m |-> body]>>)

Heads(buf) == {i \in DOMAIN buf : buf[i].k = "head"}

\* BODY: what was announced is taken, the rest stays in the buffer.
recv_body(got, buf) ==
    IF buf = <<>> THEN [got |-> got, buf |-> buf]
    ELSE [got |-> [got EXCEPT !.st = "DONE", !.body = Head(buf).m], buf |-> Tail(buf)]

\* FIRST and HEAD: the line is all there is before its end, and is known by
\* its beginning.  A line that fills the buffer is an error.
recv_first(buf) ==
    IF buf # <<>> /\ Head(buf).m.op = "overlong"
    THEN [got |-> [Nothing EXCEPT !.st = "E2BIG"], buf |-> <<>>]
    ELSE IF Heads(buf) # {}
    THEN LET e == Min(Heads(buf))
             garbled == Head(buf).k # "line"
             got == [Nothing EXCEPT !.st = IF buf[e].clen = 0 THEN "DONE" ELSE "BODY",
                                    !.line = IF garbled THEN [Head(buf).m EXCEPT !.op = "garbled"]
                                             ELSE Head(buf).m]
             rest == SubSeq(buf, e + 1, Len(buf))
         IN  IF got.st = "DONE" THEN [got |-> got, buf |-> rest] ELSE recv_body(got, rest)
    ELSE [got |-> Nothing, buf |-> buf]

\* One round of http_recv: what the reader has made of the message, and what
\* is left in the buffer of the connection, after these pieces were read.
http_recv(got, buf, read) ==
    IF got.st = "FIRST" THEN recv_first(buf \o read) ELSE recv_body(got, buf \o read)

\* The same with the buffer of connProxy.
http_recv_proxy(got, buf, read) == http_recv(got, buf, read)
=============================================================================
