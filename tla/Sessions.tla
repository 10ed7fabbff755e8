----------------------------- MODULE Sessions -----------------------------
(***************************************************************************)
(* The life of the clients of beryldb: accepted (ClientManager::AddUser),  *)
(* identified (AGENT, AUTH, LOGIN), let in a second later (Flush, with     *)
(* ack_connection and OnPostConnect), serving commands that change their   *)
(* accounts, groups and channels, locked while a query of theirs is with   *)
(* the data threads, disconnected by themselves or by others, deleted by   *)
(* the Reducer.  The modules Accounts, Subscriptions and Inquiries have    *)
(* the operators; here is what runs when, on the main thread.              *)
(***************************************************************************)
EXTENDS Inquiries

CONSTANTS Known,         \* the accounts that have been made before,
          Secret,        \*   with this password
          Tries,         \* Tries[u]: the <<login, password>> u may identify with
          Menu,          \* Menu[login]: the commands instances of login send,
          MaxCommands    \* so many in all

VARIABLES user,                  \* the connections
          record,                \* the core database: a record for each login,
          groups,                \*   the flags stored for each group
          cache,                 \* LoginCache
          sessions, session,     \* SessionManager: login -> session, its content
          GroupList,             \* GroupManager
          ChannelList,           \* ChannelManager
          MonitorList, NotifyList,
          logins,                \* ClientManager: who gave a login, in order
          not_registered_track,
          AwaitingExit,          \*   locked clients that have left
          reducer,               \* ReducerHandler: users to be deleted
          commands               \* how many commands have been sent

vars == <<user, record, groups, cache, sessions, session, GroupList, ChannelList, MonitorList,
          NotifyList, logins, not_registered_track, AwaitingExit, reducer, commands>>

State == [user |-> user, record |-> record, groups |-> groups, cache |-> cache,
          sessions |-> sessions, session |-> session, GroupList |-> GroupList,
          ChannelList |-> ChannelList, MonitorList |-> MonitorList, NotifyList |-> NotifyList,
          logins |-> logins, not_registered_track |-> not_registered_track,
          AwaitingExit |-> AwaitingExit, reducer |-> reducer, commands |-> commands]

Become(s) ==
    /\ user' = s.user /\ record' = s.record /\ groups' = s.groups /\ cache' = s.cache
    /\ sessions' = s.sessions /\ session' = s.session /\ GroupList' = s.GroupList
    /\ ChannelList' = s.ChannelList /\ MonitorList' = s.MonitorList
    /\ NotifyList' = s.NotifyList /\ logins' = s.logins
    /\ not_registered_track' = s.not_registered_track
    /\ AwaitingExit' = s.AwaitingExit /\ reducer' = s.reducer

NewUser == [object |-> "none", registered |-> {}, logged |-> FALSE, login |-> None, auth |-> None,
            session |-> None, Groups |-> {}, chans |-> {}, quitting |-> FALSE, Locked |-> FALSE,
            account |-> None]       \* history: when the account it has its groups of was made

\* The commands, with arguments that pass the checks of their form.
AllCommands ==
    ({"ADDUSER"} \X Logins \X Passwords) \cup ({"SETSTATUS"} \X Logins \X BOOLEAN)
    \cup ({"ADDFLAG", "DELFLAG"} \X Logins \X {"e", "r", "m"})
    \cup ({"DELUSER"} \X Logins) \cup ({"PASSWD"} \X Passwords) \cup ({"LOGOUT"} \X Users)
    \cup ({"GROUPADD", "DELGROUP"} \X (GroupNames \cup {"DEFAULT"}))
    \cup ({"GUPDATE"} \X GroupNames \X (DOMAIN Ability \cup {"invalid"}))
    \cup ({"GRESET"} \X GroupNames) \cup ({"GSET", "GDEL"} \X GroupNames \X Logins)
    \cup ({"JOIN", "PART", "HOP", "MUTE", "UNMUTE"} \X Channels)
    \cup ({"MONITOR", "NOTIFY"} \X {"DEFAULT", "invalid"})
    \cup {<<c>> : c \in {"RESETCACHE", "PARTALL", "STOPMONITOR", "MRESET", "STOPNOTIFY",
                         "NRESET", "EXIT", "QUERY"}}

ASSUME SessionsAssumption ==
    /\ Root \in Known /\ Known \subseteq Logins
    /\ Secret \in Passwords
    /\ \A u \in Users : Tries[u] \subseteq Logins \X Passwords
    /\ \A l \in Logins : Menu[l] \subseteq AllCommands

\* A server that has just been started: root, the group default.
Init ==
    /\ user = [u \in Users |-> NewUser]
    /\ record = [l \in Logins |->
         IF l \in Known
         THEN [NoRecord EXCEPT !.created = 0, !.pass = Secret, !.status = TRUE,
                               !.flags = IF l = Root THEN {"r"} ELSE {}, !.groups = {"default"}]
         ELSE NoRecord]
    /\ GroupList = [g \in GroupNames |->
         IF g = "default" THEN [listed |-> TRUE, can |-> DEFAULT_GFLAGS, rawflags |-> DEFAULT_GFLAGS]
         ELSE NoGroup]
    /\ groups = [g \in GroupNames |-> GroupList[g].can]
    /\ cache = [l \in Logins |-> None]
    /\ sessions = [l \in Logins |-> None]
    /\ session = [u \in Users |-> [flags |-> {}, rawflags |-> {}]]
    /\ ChannelList = [c \in Channels |-> NoChannel]
    /\ MonitorList = {} /\ NotifyList = {}
    /\ logins = <<>>
    /\ not_registered_track = 0
    /\ AwaitingExit = {} /\ reducer = {}
    /\ commands = 0

Local(u) == user[u].object = "here" /\ ~user[u].quitting

-----------------------------------------------------------------------------
(* Leaving                                                                 *)

(* Mutant: the clients who have registered are counted too.                *)
DisconnectCounted(s, users) ==
    LET leaving == {u \in users : ~s.user[u].quitting}
        t == [s EXCEPT !.user = [u \in Users |->
                          IF u \in leaving THEN [s.user[u] EXCEPT !.quitting = TRUE] ELSE s.user[u]],
                       !.reducer = @ \cup {u \in leaving : ~s.user[u].Locked},
                       !.AwaitingExit = @ \cup {u \in leaving : s.user[u].Locked},
                       !.not_registered_track = @ - Cardinality(leaving),
                       !.logins = EraseLogin(@, leaving)]
    IN CheckEmptyChannels(t, leaving)

\* Disconnect of each of the clients in users.
Disconnect(s, users) ==
    LET leaving == {u \in users : ~s.user[u].quitting}
        t == [s EXCEPT !.user = [u \in Users |->
                          IF u \in leaving THEN [s.user[u] EXCEPT !.quitting = TRUE] ELSE s.user[u]],
                       !.reducer = @ \cup {u \in leaving : ~s.user[u].Locked},
                       !.AwaitingExit = @ \cup {u \in leaving : s.user[u].Locked},
                       !.not_registered_track =
                          @ - Cardinality({u \in leaving : s.user[u].registered # REG_OK}),
                       !.logins = EraseLogin(@, leaving)]
    IN CheckEmptyChannels(t, leaving)

DisconnectAll(s, login) == Disconnect(s, FindLogin(s, login))

(* Mutant: the lists of the Monitor and the Notifier are not looked after. *)
DestroyListed(s, users) ==
    DetermineLifetime(
        [s EXCEPT !.user = [u \in Users |->
           IF u \in users THEN [s.user[u] EXCEPT !.object = "gone", !.Groups = {}] ELSE s.user[u]]],
        {s.user[u].login : u \in users})

\* User::~User, of each of the clients in users
Destroy(s, users) ==
    DetermineLifetime(
        [s EXCEPT !.user = [u \in Users |->
           IF u \in users THEN [s.user[u] EXCEPT !.object = "gone", !.Groups = {}] ELSE s.user[u]],
                  !.MonitorList = @ \ users, !.NotifyList = @ \ users],
        {s.user[u].login : u \in users})

-----------------------------------------------------------------------------
(* Coming                                                                  *)

\* ClientManager::AddUser: a client that comes when the server is full, of others
\* that are not in the model, is turned away at once.
AddUser(u, full) ==
    /\ user[u].object = "none"
    /\ \A v \in Users : v < u => user[v].object # "none"
    /\ LET s == [State EXCEPT !.user[u].object = "here", !.not_registered_track = @ + 1]
       IN Become(IF full THEN Disconnect(s, {u}) ELSE s)
    /\ UNCHANGED commands

AGENT(s, u) == [s EXCEPT !.user[u].registered = @ \cup {"USER"}]

AUTH(s, u, pass) == [s EXCEPT !.user[u].auth = pass]

\* CommandLogin with User::SetLogin.  The login is set before the password is
\* checked; a wrong one ends the connection.
LOGIN(s, u, login) ==
    IF s.user[u].logged \/ s.user[u].quitting THEN s
    ELSE LET t == [s EXCEPT !.user[u].logged = TRUE, !.user[u].login = login]
             given == s.user[u].auth
         IN IF Accepts(s, login, given)
            THEN [CheckPass(t, login, given) EXCEPT !.logins = Append(@, u),
                                                    !.user[u].registered = @ \cup {"LOGIN"}]
            ELSE Disconnect(t, {u})

\* The three commands of a client in their turns: what happens between them
\* touches nothing that the first two write.
Identify(u, login, pass) ==
    /\ Local(u)
    /\ ~user[u].logged
    /\ Become(LOGIN(AUTH(AGENT(State, u), u, pass), u, login))
    /\ UNCHANGED commands

\* OnPostConnect of core_dbload.  A login whose session is alive gets the flags
\* the session was made with, and no channels.
OnPostConnect(s, u) ==
    LET login == s.user[u].login
        t == LoadGroups(s, u)
    IN IF t.sessions[login] # None
       THEN LoadNotify(Attach(t, u, login, t.session[t.sessions[login]].rawflags), u)
       ELSE LET a == LoadNotify(Attach(t, u, login, t.record[login].flags), u)
            IN IF autojoin THEN Autojoin(a, u) ELSE a

\* LocalUser::ack_connection
ack_connection(s, u) ==
    OnPostConnect([s EXCEPT !.not_registered_track = IF @ = 0 THEN 0 ELSE @ - 1,
                            !.user[u].registered = REG_OK], u)

\* ClientManager::Flush, once a second, over local_users, newest first: who has
\* identified is let in, who is late is turned away.
Visit(s, u, late) ==
    IF s.user[u].object # "here" \/ s.user[u].quitting THEN s
    ELSE IF s.user[u].registered = REG_LOGINUSER THEN ack_connection(s, u)
    ELSE IF s.user[u].registered # REG_OK /\ u \in late THEN Disconnect(s, {u}) ELSE s

Round(late) ==
    LET visited[n \in 0..Cardinality(Users)] ==
          IF n = 0 THEN State ELSE Visit(visited[n - 1], Cardinality(Users) + 1 - n, late)
    IN visited[Cardinality(Users)]

Flush(late) ==
    /\ {u \in Users : Local(u)} # {}
    /\ late \subseteq {u \in Users : Local(u) /\ user[u].registered \notin {REG_LOGINUSER, REG_OK}}
    /\ LET t == Round(late) IN Become(t)
    /\ UNCHANGED commands

-----------------------------------------------------------------------------
(* Commands                                                                *)

CommandFlags ==
    [c \in {"ADDUSER", "DELUSER", "SETSTATUS", "ADDFLAG", "DELFLAG", "GROUPADD", "DELGROUP",
            "GUPDATE", "GRESET", "GSET", "GDEL"} |-> "r"]
    @@ [c \in {"MONITOR", "STOPMONITOR", "MRESET", "NOTIFY", "NRESET", "RESETCACHE"} |-> "m"]
    @@ [c \in {"MUTE", "UNMUTE", "LOGOUT"} |-> "e"]
    @@ [c \in {"JOIN", "PART", "PARTALL", "HOP", "PASSWD", "STOPNOTIFY", "EXIT", "QUERY"} |-> None]

ADDUSER(s, login, pass) == IF Exists(s, login) THEN s ELSE AddLogin(s, login, pass)

DELUSER(s, login) == DisconnectAll(RemoveLogin(s, login), login)

(* Mutant: the cache is not told.                                          *)
SetStatusCached(s, login, status) ==
    LET t == IF status THEN s ELSE DisconnectAll(s, login)
    IN [t EXCEPT !.record[login].status = status]

SETSTATUS(s, login, status) ==
    LET t == IF status THEN s ELSE [DisconnectAll(s, login) EXCEPT !.cache[login] = None]
    IN [t EXCEPT !.record[login].status = status]

\* The target of a command that names a login: check_root and check_exists.
Protected(s, c) ==
    \/ c[1] \in {"ADDUSER", "DELUSER", "SETSTATUS", "ADDFLAG"} /\ c[2] = Root
    \/ c[1] \in {"DELUSER", "SETSTATUS", "ADDFLAG"} /\ ~Exists(s, c[2])

\* LOGOUT names an instance: FindInstance finds who has not left.
LOGOUT(s, v) == IF s.user[v].object = "here" THEN Disconnect(s, {v}) ELSE s

Handle(s, u, c) ==
    CASE c[1] = "ADDUSER" -> ADDUSER(s, c[2], c[3])
      [] c[1] = "DELUSER" -> DELUSER(s, c[2])
      [] c[1] = "SETSTATUS" -> SETSTATUS(s, c[2], c[3])
      [] c[1] = "ADDFLAG" -> ADDFLAG(s, c[2], c[3])
      [] c[1] = "DELFLAG" -> DELFLAG(s, c[2], c[3])
      [] c[1] = "PASSWD" -> ChangePass(s, s.user[u].login, c[2])
      [] c[1] = "RESETCACHE" -> ResetLogins(s)
      [] c[1] = "GROUPADD" -> GROUPADD(s, c[2])
      [] c[1] = "DELGROUP" -> DELGROUP(s, c[2])
      [] c[1] = "GUPDATE" -> GUPDATE(s, c[2], c[3])
      [] c[1] = "GRESET" -> GRESET(s, c[2])
      [] c[1] = "GSET" -> GSET(s, c[2], c[3])
      [] c[1] = "GDEL" -> GDEL(s, c[2], c[3])
      [] c[1] = "JOIN" -> JOIN(s, u, c[2])
      [] c[1] = "PART" -> PART(s, u, c[2])
      [] c[1] = "PARTALL" -> PARTALL(s, u)
      [] c[1] = "HOP" -> HOP(s, u, c[2])
      [] c[1] = "MUTE" -> MUTE(s, c[2])
      [] c[1] = "UNMUTE" -> UNMUTE(s, c[2])
      [] c[1] = "MONITOR" -> MONITOR(s, u, c[2])
      [] c[1] = "STOPMONITOR" -> STOPMONITOR(s, u)
      [] c[1] = "MRESET" -> MRESET(s)
      [] c[1] = "NOTIFY" -> NOTIFY(s, u, c[2])
      [] c[1] = "STOPNOTIFY" -> STOPNOTIFY(s, u)
      [] c[1] = "NRESET" -> NRESET(s)
      [] c[1] = "LOGOUT" -> LOGOUT(s, c[2])
      [] c[1] = "EXIT" -> Disconnect(s, {u})
      [] c[1] = "QUERY" -> [s EXCEPT !.user[u].Locked = TRUE]

\* A command of a registered client, through the gates of Execute.  QUERY stands
\* for the commands on keys, which are given to groups with the flag k.
Command(u, c) ==
  LET s == State IN
    /\ Local(u)
    /\ user[u].registered = REG_OK
    /\ ~user[u].Locked
    /\ commands < MaxCommands
    /\ CommandFlags[c[1]] = None \/ CanPerform(s, u, CommandFlags[c[1]])
    /\ c[1] = "QUERY" => InGroup(s, u, "k")
    /\ ~Protected(s, c)
    /\ LET t == Handle(s, u, c) IN Become(t)
    /\ commands' = commands + 1

-----------------------------------------------------------------------------
(* What happens around the clients                                         *)

\* The answer to u's query is delivered, which unlocks u; nobody delivers one
\* to a client that has left.
Answer(u) ==
    /\ user[u].Locked
    /\ ~user[u].quitting
    /\ user' = [user EXCEPT ![u].Locked = FALSE]
    /\ UNCHANGED <<record, groups, cache, sessions, session, GroupList, ChannelList, MonitorList,
                   NotifyList, logins, not_registered_track, AwaitingExit, reducer, commands>>

\* The connection of u breaks.
Leave(u) ==
    /\ Local(u)
    /\ Become(Disconnect(State, {u}))
    /\ UNCHANGED commands

\* ReducerHandler::Apply, at the end of each loop.
Apply ==
    /\ reducer # {}
    /\ Become(Destroy([State EXCEPT !.reducer = {}], reducer))
    /\ UNCHANGED commands

\* ClientManager::ForceExits
ForceExits(s) ==
    [s EXCEPT !.reducer = @ \cup {u \in s.AwaitingExit : ~s.user[u].Locked},
              !.AwaitingExit = {u \in @ : s.user[u].Locked}]

\* Beryl::Timed, on the hour, when the cache is emptied.  ForceExits runs every
\* two seconds; nobody that waits there is ever unlocked, so it finds no one.
Timed ==
    /\ cache # [l \in Logins |-> None]
    /\ Become(ResetLogins(ForceExits(State)))
    /\ UNCHANGED commands

\* The server goes down, with notice or without, and starts again: the records
\* are what is left.  A group comes back with the flags that were stored last.
Restart ==
    /\ \E u \in Users : user[u].object = "here"
    /\ user' = [u \in Users |-> IF user[u].object = "here"
                               THEN [NewUser EXCEPT !.object = "gone"] ELSE user[u]]
    /\ GroupList' = [g \in GroupNames |->
         IF GroupList[g].listed THEN [listed |-> TRUE, can |-> groups[g], rawflags |-> groups[g]]
         ELSE NoGroup]
    /\ cache' = [l \in Logins |-> None]
    /\ sessions' = [l \in Logins |-> None]
    /\ ChannelList' = [c \in Channels |-> NoChannel]
    /\ MonitorList' = {} /\ NotifyList' = {}
    /\ logins' = <<>>
    /\ not_registered_track' = 0
    /\ AwaitingExit' = {} /\ reducer' = {}
    /\ UNCHANGED <<record, groups, session, commands>>

Next ==
    \/ \E u \in Users :
         \/ \E full \in BOOLEAN : AddUser(u, full)
         \/ \E t \in Tries[u] : Identify(u, t[1], t[2])
         \/ user[u].login # None /\ \E c \in Menu[user[u].login] : Command(u, c)
         \/ Answer(u)
         \/ Leave(u)
    \/ \E late \in SUBSET Users : Flush(late)
    \/ Apply
    \/ Timed
    \/ Restart

Spec == Init /\ [][Next]_vars

-----------------------------------------------------------------------------
(* Properties                                                              *)

Registered(u) == Local(u) /\ user[u].registered = REG_OK

\* Types, and the counter of clients that have not registered yet is their
\* number: ack_connection and Disconnect take every client off once.
TypeOK ==
    /\ \A u \in Users : LET t == user[u] IN
         /\ t.object \in {"none", "here", "gone"}
         /\ t.registered \in SUBSET REG_OK
         /\ t.login \in Logins \cup {None}
         /\ t.session \in Users \cup {None}
         /\ t.Groups \subseteq GroupNames /\ t.chans \subseteq Channels
    /\ \A l \in Logins : cache[l] \in Passwords \cup {None} /\ sessions[l] \in Users \cup {None}
    /\ \A i, j \in DOMAIN logins : i # j => logins[i] # logins[j]
    /\ MonitorList \cup NotifyList \cup AwaitingExit \cup reducer \subseteq Users
    /\ not_registered_track =
         Cardinality({u \in Users : Local(u) /\ user[u].registered # REG_OK})

\* All instances of a login, which are those that FINGER shows, work with one
\* session, the one the SessionManager has for it, so that whatever a flag
\* command changes there holds for each of them and FINDFLAGS shows them all
\* with the same flags; a session does not outlive the last object of its login;
\* and root is an administrator in its record and wherever it is logged in.
SessionsShared ==
  LET s == State
      online == FINGER(s)
  IN
    /\ online = {u \in Users : Registered(u)}
    /\ \A u \in online :
         sessions[user[u].login] # None /\ user[u].session = sessions[user[u].login]
    /\ SessionsReadable(s) =>
         \A flag \in {"all", "r", "a"} : \A t \in FINDFLAGS(s, flag) :
           \A v \in LOGINS(s, t[2]) : <<v, t[2], t[3]>> \in FINDFLAGS(s, flag)
    /\ \A l \in Logins : sessions[l] # None =>
         \E u \in Users : /\ user[u].object = "here" /\ user[u].login = l
                         /\ user[u].registered = REG_OK
    /\ Root \in LISTADMINS(s) /\ "r" \in GETFLAGS(s, Root) /\ "can_root" \in LISTFLAGS(s, Root)
    /\ \A u \in LOGINS(s, Root) : CanAdmin(s, u)

\* A password is only cached while it is the password of an account that exists
\* and may be used: INCACHE names nobody whom LISTSTATUS shows disabled.
CacheCurrent ==
  LET s == State IN
    \A l \in Logins : cache[l] # None =>
      /\ INCACHE(s, l) /\ GETSTATUS(s, l)
      /\ l \in LISTUSERS(s) \cap LISTSTATUS(s, TRUE)
      /\ record[l].pass = cache[l]

\* What MYGROUPS tells an instance are the groups that GLIST shows for its login
\* and that exist, whenever it came and whatever has been assigned, withdrawn or
\* deleted since, and it may do what GSHOW says that one of them can.  A client
\* that was let in after its account had been removed is the exception, and
\* hands the groups it has not got to later instances of the login.  The menus
\* do not make the group default again after DELGROUP DEFAULT: an account made in
\* between has it in its record, and its instances have not got it.
GroupsMatchRecord ==
  LET s == State IN
    /\ \A u \in FINGER(s) : user[u].account = record[user[u].login].created =>
         /\ MYGROUPS(s, u) = GLIST(s, user[u].login) \cap GROUPS(s)
         /\ \A f \in {"k", "p", "c"} : InGroup(s, u, f) <=>
              \E g \in GLIST(s, user[u].login) :
                GSHOW(s, g) \cap {Ability[f], Ability["z"]} # {}
    /\ \A g \in GROUPS(s) : "invalid" \notin GFLAGS(s, g) =>
         GSHOW(s, g) = {Ability[f] : f \in GFLAGS(s, g)}

\* A channel knows its clients and they know it (SLIST, GETCHANS), each of them is
\* registered and still connected, and no channel is empty (LISTCHANS, USERS).
\* So whoever may publish to a channel reaches all of its other clients; no
\* message reaches anyone who is not logged in.
SubscriptionsPaired ==
  LET s == State
      online == FINGER(s)
  IN
    /\ \A u \in Users, c \in Channels :
         /\ Local(u) => (c \in MYCHANS(s, u) <=> u \in SLIST(s, c))
         /\ u \in SLIST(s, c) => u \in online
    /\ LISTCHANS(s, 0, 0) = {c \in Channels : USERS(s, c) > 0}
    /\ \A u \in online :
         /\ \A c \in Channels : MayPublish(s, u, c) =>
              ToChannel(s, u, c) = {v \in online : c \in GETCHANS(s, v)} \ {u}
         /\ ToServer(s, u) \subseteq online
         /\ \A v \in Users : ToInstance(s, u, v) \subseteq online

\* Nobody keeps a deleted user: neither the lists of the Monitor and the
\* Notifier, nor a queue for deletion; and what those two send goes to clients
\* that are logged in.
NoDangling ==
  LET s == State
      online == FINGER(s)
      kept == MONITORLIST(s, None) \cup NotifyList \cup AwaitingExit \cup reducer
                \cup ToSet(logins) \cup UNION {SLIST(s, c) : c \in Channels}
  IN
    /\ \A u \in kept : user[u].object = "here"
    /\ \A u \in Users : Watching(s, u) \cup Notified(s, u) \subseteq online
=============================================================================
