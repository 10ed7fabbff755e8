----------------------------- MODULE Inquiries -----------------------------
(***************************************************************************)
(* What clients are told about clients: the commands that read accounts,   *)
(* groups, channels and connections, and whom a message reaches.  Each is  *)
(* computed from another of the server's tables, so that they agree only   *)
(* as long as the tables do.  An answer is the set of what it lists; a     *)
(* refused command lists nothing.                                          *)
(***************************************************************************)
EXTENDS Subscriptions

-----------------------------------------------------------------------------
(* Accounts, from their records                                            *)

FlagName == [e |-> "can_execute", r |-> "can_root", m |-> "can_manage"]

LISTFLAGS(s, login) == {FlagName[f] : f \in s.record[login].flags}

GETFLAGS(s, login) == IF Exists(s, login) THEN s.record[login].flags ELSE {}

LISTUSERS(s) == {l \in Logins : Exists(s, l)}

GETSTATUS(s, login) == Exists(s, login) /\ s.record[login].status

LISTSTATUS(s, ReqStatus) == {l \in LISTUSERS(s) : s.record[l].status = ReqStatus}

LISTADMINS(s) == {l \in LISTUSERS(s) : s.record[l].flags # {}}

INCACHE(s, login) == Exists(s, login) /\ s.cache[login] # None

-----------------------------------------------------------------------------
(* Groups                                                                  *)

Ability == [k |-> "can_keys", z |-> "can_do_all", l |-> "can_list", g |-> "can_geo",
            v |-> "can_vector", e |-> "can_expire", f |-> "can_future", m |-> "can_map",
            x |-> "can_mmap", p |-> "can_publish_chan", c |-> "can_publish_clients",
            h |-> "can_hints", w |-> "can_dual_exec"]

GROUPS(s) == {g \in GroupNames : s.GroupList[g].listed}

GSHOW(s, g) == {Ability[f] : f \in s.GroupList[g].can}

GFLAGS(s, g) == s.GroupList[g].rawflags

MYGROUPS(s, u) == s.user[u].Groups

GLIST(s, login) == IF Exists(s, login) THEN s.record[login].groups ELSE {}

CanDo(s, g, flag) == s.GroupList[g].can \cap {"z", flag} # {}

InGroup(s, u, flag) == \E g \in s.user[u].Groups : CanDo(s, g, flag)

-----------------------------------------------------------------------------
(* Connections, from the multimap of logins                                *)

FINGER(s) == {u \in ToSet(s.logins) : s.user[u].registered = REG_OK}

LOGINS(s, login) == FindLogin(s, login)

\* FindPrivs reads the session of everybody in logins; a client has one when it
\* has been let in, and the code does not look.
SessionsReadable(s) == \A u \in ToSet(s.logins) : s.user[u].session # None

FindPrivs(s, flag) ==
    LET can(u) == s.session[s.user[u].session].flags
    IN {u \in ToSet(s.logins) :
          \/ flag = "all" /\ can(u) # {}
          \/ flag \in {"r", "e"} /\ flag \in can(u)
          \/ flag = "a" /\ "m" \in can(u)}

\* Who has the flag, with the flags that the session was made with.
FINDFLAGS(s, flag) ==
    {<<u, s.user[u].login, s.session[s.user[u].session].rawflags>> : u \in FindPrivs(s, flag)}

-----------------------------------------------------------------------------
(* Channels, from either side                                              *)

\* FindInstanceOnly knows who has not left.
Found(s, v) == s.user[v].object = "here" /\ ~s.user[v].quitting

MYCHANS(s, u) == s.user[u].chans

GETCHANS(s, v) == IF Found(s, v) THEN s.user[v].chans ELSE {}

SLIST(s, c) == s.ChannelList[c].subscribed

USERS(s, c) == Cardinality(s.ChannelList[c].subscribed)

\* Bounds of zero are no bounds.
LISTCHANS(s, minusers, maxusers) ==
    {c \in Channels :
       /\ s.ChannelList[c].listed
       /\ minusers = 0 \/ USERS(s, c) > minusers
       /\ maxusers = 0 \/ USERS(s, c) < maxusers}

-----------------------------------------------------------------------------
(* PUBLISH: whom a message of u reaches.                                   *)

\* OnInstancePrePublish
MayPublish(s, u, c) ==
    /\ ~s.ChannelList[c].muted
    /\ InGroup(s, u, "p") \/ CanAdmin(s, u) \/ Subscribed(s, u, c)

\* HandleChannelTarget with Channel::Write
ToChannel(s, u, c) ==
    IF s.ChannelList[c].listed /\ MayPublish(s, u, c) THEN s.ChannelList[c].subscribed \ {u} ELSE {}

\* HandleServerTarget, which goes over local_users
ToServer(s, u) ==
    IF CanAdmin(s, u)
    THEN {v \in Users : Found(s, v) /\ s.user[v].registered = REG_OK} \ {u}
    ELSE {}

\* HandleUserTarget
ToInstance(s, u, v) ==
    IF /\ InGroup(s, u, "c") \/ CanAdmin(s, u)
       /\ Found(s, v) /\ s.user[v].registered = REG_OK
    THEN {v} ELSE {}

-----------------------------------------------------------------------------
(* Monitor and Notifier                                                    *)

\* An argument is compared with two words and has to be both.
MONITORLIST(s, arg) == IF arg = None THEN s.MonitorList ELSE {}

\* MonitorHandler::Flush of a command that u gave.
Watching(s, u) == {v \in s.MonitorList : ~s.user[v].quitting} \ {u}

\* Notifier::Flush of an event about u.
Notified(s, u) ==
    {v \in s.NotifyList : ~s.user[v].quitting /\ (s.user[u].quitting \/ v # u)}
=============================================================================
