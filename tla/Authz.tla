------------------------------- MODULE Authz -------------------------------
(***************************************************************************)
(* Who may do what on a bookkeeping server: the server's policy            *)
(* (authz_policy.c), the access control lists of jobs (lb_authz.c, over    *)
(* the external GACL library) and the identities they speak of             *)
(* (glite_gss.c).                                                          *)
(*                                                                         *)
(* A subject is [cn, proxies, mail]: a name, the number of proxy           *)
(* components after it and which of the two spellings of an e-mail         *)
(* component it uses.  A principal is [name, fqans].  A policy maps an     *)
(* action to its rules, a rule is a set of [id, value] with a subject, an  *)
(* FQAN or the wildcard as its value.  An ACL is the sequence of its       *)
(* entries [cred, perm, type], as its XML text is, whose digest is the key *)
(* of table acls.                                                          *)
(***************************************************************************)
EXTENDS Naturals, Sequences, SequencesExt

Anyone == [cn |-> ".*", proxies |-> 0, mail |-> FALSE]
NoSubject == [cn |-> "", proxies |-> 0, mail |-> FALSE]
NoPrincipal == [name |-> NoSubject, fqans |-> {}]

edg_wll_gss_normalize_subj(s) == [s EXCEPT !.proxies = 0, !.mail = FALSE]

edg_wll_gss_equal_subj(a, b) ==
    edg_wll_gss_normalize_subj(a) = edg_wll_gss_normalize_subj(b)

---------------------------------------------------------------------------
(* Policy of the server.                                                   *)

actions == {"ADMIN_ACCESS", "STATUS_FOR_MONITORING", "LOG_WMS_EVENTS", "LOG_CE_EVENTS",
            "LOG_GENERAL_EVENTS", "GET_STATISTICS", "REGISTER_JOBS", "READ_ALL", "PURGE",
            "GRANT_OWNERSHIP", "READ_ANONYMIZED", "REGISTER_FOREIGN"}
OpenPolicy == [a \in actions |-> {}]

check_attr(a, p) ==
    \/ a.value = Anyone
    \/ a.id = "subject" /\ edg_wll_gss_equal_subj(a.value, p.name)
    \/ a.id = "fqan" /\ a.value \in p.fqans

check_rule(rule, p) == rule # {} /\ \A a \in rule : check_attr(a, p)

check_authz_policy(policy, p, action) == \E rule \in policy[action] : check_rule(rule, p)

edg_wll_amIroot(policy, p) == check_authz_policy(policy, p, "ADMIN_ACCESS")

store_action(type) ==
    CASE type = "REGJOB" -> "REGISTER_JOBS"
      [] type = "GRANTPAYLOADOWNERSHIP" -> "GRANT_OWNERSHIP"
      [] type \in {"CURDESCR", "USERTAG", "CHANGEACL"} -> "LOG_GENERAL_EVENTS"
      [] type \in {"RUNNING", "REALLYRUNNING", "DONE"} -> "LOG_CE_EVENTS"
      [] OTHER -> "LOG_WMS_EVENTS"

\* Without a policy file the server is open to every client.
check_store_authz(policy, p, type) ==
    policy = OpenPolicy \/ check_authz_policy(policy, p, store_action(type))

equal_mapped(a, b, mapping) ==
    \E r \in mapping : \/ edg_wll_gss_equal_subj(a, r[1]) /\ edg_wll_gss_equal_subj(b, r[2])
                       \/ edg_wll_gss_equal_subj(a, r[2]) /\ edg_wll_gss_equal_subj(b, r[1])

\* The identities that the mapping file lets stand for one another, as they
\* are after normalisation; a line with a single identity stops the reading.
parse_gridmap(lines) ==
    LET bad == {i \in DOMAIN lines : Len(lines[i]) = 1}
        good == {i \in DOMAIN lines : Len(lines[i]) = 2 /\ \A b \in bad : i < b}
    IN  {<<edg_wll_gss_normalize_subj(lines[i][1]),
           edg_wll_gss_normalize_subj(lines[i][2])>> : i \in good}

---------------------------------------------------------------------------
(* Access control lists.                                                   *)

NoAcl == <<[type |-> "NULL"]>>       \* of a job that never had one

\* What a VOMS certificate says of its holder; a part for another VO adds to
\* it, a certificate without the extension says nothing.
edg_wll_get_fqans(voms) == UNION {v.fqan : v \in voms}
edg_wll_SetVomsGroups(p, voms) == [p EXCEPT !.fqans = edg_wll_get_fqans(voms)]

create_cred(user_id, type) ==
    [kind |-> CASE type = "DN" -> "person" [] type = "FQAN" -> "voms" [] OTHER -> "voms-cred",
     id |-> user_id]

\* The credentials a peer is tested with: its name as it is, proxies
\* included, and its FQANs.  Nothing makes a "voms-cred" of it.
parse_creds(p) == {[kind |-> "person", id |-> p.name]}
                  \cup {[kind |-> "voms", id |-> f] : f \in p.fqans}

perm_lb2gacl(permission) ==
    CASE permission = "READ" -> "read" [] permission = "TAG" -> "write" [] OTHER -> "none"

\* GRSTgaclAclTestUser: what the entries for one of the user's credentials
\* allow, without what they deny.
AclTestUser(acl, creds) ==
    LET mine(type) == {e.perm : e \in {x \in ToSet(acl) : x.type = type /\ x.cred \in creds}}
    IN  mine("ALLOW") \ mine("DENY")

edg_wll_CheckACL_princ(acl, perm, p) ==
    /\ acl # NoAcl /\ p.name # NoSubject
    /\ perm_lb2gacl(perm) \in AclTestUser(acl, parse_creds(p))

addEntry(acl, entry) ==
    IF Contains(acl, entry) THEN [ret |-> "EEXIST", acl |-> acl]
    ELSE [ret |-> "ok", acl |-> Append(acl, entry)]

delEntry(acl, entry) ==
    IF Contains(acl, entry) THEN [ret |-> "ok", acl |-> RemoveFirst(acl, entry)]
    ELSE [ret |-> "EINVAL", acl |-> acl]

change_acl(acl, entry, operation) ==
    CASE operation = "ADD" -> addEntry(acl, entry)
      [] operation = "REMOVE" -> delEntry(acl, entry)
      [] OTHER -> [ret |-> "EINVAL", acl |-> acl]

edg_wll_InitAcl == <<>>

edg_wll_change_acl(acl, ch) ==
    IF perm_lb2gacl(ch.permission) = "none" THEN [ret |-> "EINVAL", acl |-> acl]
    ELSE change_acl(acl, [cred |-> create_cred(ch.user_id, ch.user_id_type),
                          perm |-> perm_lb2gacl(ch.permission), type |-> ch.permission_type],
                    ch.operation)

---------------------------------------------------------------------------
(* Reading the state of a job.                                             *)

\* What the peer may see of a job: everything, the fields for monitoring,
\* the fields with hashed names, or nothing.
check_jobstat_authz(st, acl, p, policy, mapping, noAuth) ==
    CASE noAuth -> "all"
      [] p.name = NoSubject -> "none"
      [] \/ edg_wll_gss_equal_subj(p.name, st.owner)
         \/ equal_mapped(p.name, st.owner, mapping)
         \/ st.payload_owner # NoSubject /\ edg_wll_gss_equal_subj(p.name, st.payload_owner)
         \/ edg_wll_amIroot(policy, p)
         \/ edg_wll_CheckACL_princ(acl, "READ", p)
         \/ check_authz_policy(policy, p, "READ_ALL") -> "all"
      [] check_authz_policy(policy, p, "READ_ANONYMIZED") -> "anonymized"
      [] check_authz_policy(policy, p, "STATUS_FOR_MONITORING") -> "monitoring"
      [] OTHER -> "none"

\* A digest that only the holder of the salt can make.
sha256_salt(s) == IF s = NoSubject THEN s ELSE [cn |-> s.cn, proxies |-> s.proxies, mail |-> s.mail, hash |-> TRUE]

anonymize_stat(st) ==
    [st EXCEPT !.owner = sha256_salt(@), !.payload_owner = sha256_salt(@)]

MonitoringColumns == {"STATUS", "JOB_TYPE", "DESTINATION", "NETWORK_SERVER", "JDL_ATTR",
                      "STATEENTERTIME", "LASTUPDATETIME", "TIME"}
blacken_fields(st) ==
    [st EXCEPT !.owner = NoSubject, !.payload_owner = NoSubject,
               !.attrs = [c \in DOMAIN @ |-> IF c[1] \in MonitoringColumns THEN @[c] ELSE 0]]

=============================================================================
