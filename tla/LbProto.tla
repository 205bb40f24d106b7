------------------------------ MODULE LbProto ------------------------------
(***************************************************************************)
(* What the server answers to a request (lb_proto.c) and what becomes of   *)
(* the connection afterwards (handle_server_error in bkserverd.c).         *)
(*                                                                         *)
(* A request is a record: op, what is asked for; agent, what the headers   *)
(* say about its sender; parsed, whether its body can be parsed; err, how  *)
(* the operation asked for ends.                                           *)
(***************************************************************************)
EXTENDS Naturals, FiniteSets

HTTP_OK == 200
HTTP_ACCEPTED == 202
HTTP_BADREQ == 400
HTTP_UNAUTH == 401
HTTP_NOTFOUND == 404
HTTP_NOTALLOWED == 405
HTTP_GONE == 410
HTTP_UNSUPPORTED == 415
HTTP_INTERNAL == 500
HTTP_NOTIMPL == 501
HTTP_UNAVAIL == 503
HTTP_INVALID == 579

Pages == {"/", "/?query", "/job", "/NOTIF", "/NOTIF:id", "/RSS", "/favicon.ico", "/?wsdl",
          "/?version", "/?stats", "/other"}
QueryOps == {"queryEvents", "queryJobs"}
Posts == QueryOps \cup {"purge", "dump", "load", "indexedAttrs", "notif", "seqcode", "stats",
                        "other"}

\* Versions are compared by the newer side: it knows with which older ones it
\* gets on.
is_protocol_incompatible(agent) == CASE agent \in {"same", "compatible"} -> 0
                                     [] agent = "malformed" -> 0 - 1
                                     [] agent = "unknown" -> 0 - 2
                                     [] agent = "old" -> 1

\* Only the library says which kind of answer it accepts.
outputHTML(r) == r.agent = "browser"

---------------------------------------------------------------------------
(* The status of an answer to GET.  A page that shows an error has err.    *)

user_jobs_page(err) == CASE err = "none" -> HTTP_OK
                         [] err = "ENOENT" -> HTTP_NOTFOUND
                         [] err = "EPERM" -> HTTP_UNAUTH
                         [] err = "EIDRM" -> HTTP_GONE
                         [] err = "NOINDEX" -> HTTP_UNAVAIL
                         [] OTHER -> HTTP_INTERNAL

job_page(err) == CASE err = "none" -> HTTP_OK
                   [] err = "JOBID_FORMAT" -> HTTP_BADREQ
                   [] err = "ENOENT" -> HTTP_NOTFOUND
                   [] err = "EINVAL" -> HTTP_INVALID
                   [] err = "EPERM" -> HTTP_UNAUTH
                   [] err = "EIDRM" -> HTTP_GONE
                   [] OTHER -> HTTP_INTERNAL

\* The list of one's registrations does not tell a failure from no rows.
getUserNotifications(err) == HTTP_OK
getNotifInfo(err) == CASE err = "none" -> HTTP_OK
                       [] err = "EPERM" -> HTTP_UNAUTH
                       [] err = "ENOENT" -> HTTP_NOTFOUND
                       [] OTHER -> HTTP_INTERNAL

\* A failed query gives an empty feed; whether there are the indices for it is
\* looked at afterwards.
getJobsRSS(err) == CASE err = "EINVAL" -> HTTP_INVALID
                     [] err = "ENOSYS" -> HTTP_NOTIMPL
                     [] err = "NOINDEX" -> HTTP_NOTFOUND
                     [] OTHER -> HTTP_OK

\* ParseQueryConditions, before anything is asked.
conditions_page(err) == CASE err = "EINVAL" -> HTTP_INVALID
                          [] err = "ENOSYS" -> HTTP_NOTIMPL
                          [] OTHER -> HTTP_BADREQ

other_page(op, err) == CASE op = "/favicon.ico" -> HTTP_NOTFOUND
                         [] op = "/other" -> HTTP_BADREQ
                         [] err = "none" -> HTTP_OK
                         [] op = "/?stats" -> HTTP_UNAUTH
                         [] OTHER -> HTTP_INTERNAL

GetStatus(r, peer) ==
    IF ~r.parsed THEN conditions_page(r.err)
    ELSE IF ~peer THEN HTTP_UNAUTH
    ELSE CASE r.op \in {"/", "/?query"} -> user_jobs_page(r.err)
           [] r.op = "/job" -> job_page(r.err)
           [] r.op = "/NOTIF" -> getUserNotifications(r.err)
           [] r.op = "/NOTIF:id" -> getNotifInfo(r.err)
           [] r.op = "/RSS" -> getJobsRSS(r.err)
           [] OTHER -> other_page(r.op, r.err)

---------------------------------------------------------------------------
(* The status of an answer to POST                                         *)

\* What all of the operations have in common.
CommonErrors == {"ENOENT", "EPERM", "ENOMEM"}
CommonStatus(err) == CASE err = "ENOENT" -> HTTP_NOTFOUND
                       [] err = "EPERM" -> HTTP_UNAUTH
                       [] err = "ENOMEM" -> HTTP_INTERNAL

query_status(err) == CASE err \in {"E2BIG", "EINVAL", "NOINDEX"} -> HTTP_UNAUTH
                       [] err = "EIDRM" -> HTTP_GONE
                       [] OTHER -> HTTP_INTERNAL

\* A purge in the background is the work of a new process; this one only
\* says so, and ends.
purge_status(err) == CASE err = "ACCEPTED_OK" -> HTTP_ACCEPTED
                       [] err = "EINVAL" -> HTTP_INVALID
                       [] OTHER -> HTTP_INTERNAL

dump_status(err) == IF err = "NOINDEX" THEN HTTP_UNAUTH ELSE HTTP_INTERNAL
load_status(err) == CASE err = "EEXIST" -> HTTP_OK
                      [] err = "EINVAL" -> HTTP_INVALID
                      [] OTHER -> dump_status(err)

notif_status(err) == IF err \in {"EEXIST", "EINVAL", "NOINDEX"} THEN load_status(err)
                     ELSE HTTP_UNAVAIL
seqcode_status(err) == load_status(err)
stats_status(err) == IF err = "ENOSYS" THEN HTTP_NOTIMPL ELSE load_status(err)

OpStatus(op, err) == CASE op \in QueryOps -> query_status(err)
                       [] op = "purge" -> purge_status(err)
                       [] op = "dump" -> dump_status(err)
                       [] op = "load" -> load_status(err)
                       [] op = "notif" -> notif_status(err)
                       [] op = "seqcode" -> seqcode_status(err)
                       [] op = "stats" -> stats_status(err)
                       [] OTHER -> HTTP_INTERNAL

PostStatus(r) ==
    IF r.op = "other" \/ ~r.parsed THEN HTTP_BADREQ
    ELSE IF r.err = "none" THEN IF outputHTML(r) THEN HTTP_NOTIMPL ELSE HTTP_OK
    ELSE IF r.err \in CommonErrors THEN CommonStatus(r.err)
    ELSE OpStatus(r.op, r.err)

\* Clients of the previous protocol have the two queries only.
edg_wll_ProtoV21(r) ==
    IF r.op \in Pages \/ r.op \notin QueryOps \/ ~r.parsed THEN HTTP_BADREQ
    ELSE IF r.err \in {"E2BIG", "EINVAL"} THEN HTTP_INTERNAL
    ELSE PostStatus(r)

\* The status of the answer, which error the context is left with, and which
\* status the caller is told of.
edg_wll_Proto(r, peer) ==
    LET get == r.op \in Pages
        ver == is_protocol_incompatible(r.agent)
        ran == IF get THEN r.parsed /\ peer ELSE r.parsed /\ r.op # "other"
        done == [http |-> IF get THEN GetStatus(r, peer)
                          ELSE IF r.op \in Posts THEN PostStatus(r) ELSE HTTP_NOTALLOWED,
                 err |-> CASE ran -> IF r.op = "/RSS" /\ r.err = "NOINDEX" THEN "ENOENT" ELSE r.err
                           [] get -> IF r.parsed THEN "EPERM" ELSE r.err
                           [] OTHER -> IF r.parsed THEN "none" ELSE "XML_PARSE"]
        told(a) == [http |-> a.http, err |-> a.err, told |-> a.http]
    IN  IF r.agent = "none" THEN told([http |-> HTTP_BADREQ, err |-> "none"])
        ELSE IF outputHTML(r) \/ ver = 0 THEN told(done)
        ELSE IF ver = 0 - 1 THEN told([http |-> HTTP_BADREQ, err |-> "none"])
        ELSE IF ver = 1 THEN [http |-> edg_wll_ProtoV21(r), err |-> r.err, told |-> HTTP_OK]
        ELSE told([http |-> HTTP_UNSUPPORTED, err |-> "ENOTSUP"])

---------------------------------------------------------------------------
(* What becomes of the slave                                               *)

\* "stay": the connection serves on; "close"; "restart": the slave is
\* replaced by a new one.
handle_server_error(err) ==
    CASE err \in {"ETIMEDOUT", "GSS", "EPIPE", "EIO", "IL_PROTO", "E2BIG", "ENOTCONN",
                  "ECONNREFUSED"} -> "close"
      [] err \in {"none", "ENOENT", "EPERM", "EEXIST", "NOINDEX", "EIDRM", "EINVAL", "PARSE",
                  "JOBID_FORMAT", "MD5_CLASH"} -> "stay"
      [] OTHER -> "restart"

\* Whether the slave answers, and how: "http" with the status of Proto, "soap"
\* when the request may be one of the web service, "no" not at all.
bk_accept_serve(r, body) ==
    IF handle_server_error(r.err) # "stay"
    THEN IF r.err \in {"EIO", "ECONNREFUSED", "ENOTCONN"} THEN "no" ELSE "http"
    ELSE IF r.told # HTTP_BADREQ THEN "http"
    ELSE IF body THEN "soap" ELSE "no"
=============================================================================
