----------------------------- MODULE Accounts -----------------------------
(***************************************************************************)
(* The accounts of beryldb: the records of the logins (UserHelper, in the  *)
(* core database), the cache of passwords (LoginCache), the sessions that  *)
(* the instances of one login share (SessionManager) and the groups that   *)
(* give commands to clients (GroupManager).                                *)
(*                                                                         *)
(* Every operator maps a state s of the server, a record of the variables  *)
(* of module Sessions, to another.  All of this runs on the main thread.   *)
(***************************************************************************)
EXTENDS Naturals, Sequences, FiniteSets, SequencesExt

CONSTANTS Users,      \* the connections, 1..n, in the order they are accepted
          Logins,     \* names of accounts,
          Root,       \* of them, the one that every server has
          Passwords,
          GroupNames,
          Channels,
          None

ASSUME AccountsAssumption ==
    /\ IsFiniteSet(Users) /\ Users = 1..Cardinality(Users)
    /\ Root \in Logins /\ "default" \in GroupNames
    /\ None \notin Users \cup Logins \cup Passwords \cup Nat

REG_USER == {"USER"}
REG_LOGINUSER == {"USER", "LOGIN"}
REG_OK == REG_LOGINUSER \cup {"OK"}

DEFAULT_GFLAGS == {"k", "w"}

\* The record of a login, with its "/groups", "/chans" and entry in "notify".
\* created is a time, here the number of commands so far.
NoRecord == [created |-> None, pass |-> None, status |-> FALSE, flags |-> {},
             groups |-> {}, chans |-> {}, notify |-> FALSE]

-----------------------------------------------------------------------------
(* ClientManager: who is logged in as login.                               *)

FindLogin(s, login) ==
    {u \in ToSet(s.logins) : s.user[u].login = login /\ s.user[u].registered = REG_OK}

FirstLogin(s, login) ==
    LET found == {i \in DOMAIN s.logins : s.logins[i] \in FindLogin(s, login)}
    IN IF found = {} THEN None ELSE s.logins[Min(found)]

CountLogin(s, login) == Cardinality(FindLogin(s, login))

\* logins without the entries of the clients in users
EraseLogin(list, users) ==
    LET kept[i \in 0..Len(list)] ==
          IF i = 0 THEN <<>>
          ELSE IF list[i] \in users THEN kept[i - 1] ELSE Append(kept[i - 1], list[i])
    IN kept[Len(list)]

-----------------------------------------------------------------------------
(* UserHelper and LoginCache                                               *)

Exists(s, login) == s.record[login].created # None

\* LoginCache::InCache: is the password cached, and is it this one?
InCache(s, login, pass) ==
    IF s.cache[login] = None THEN 0 ELSE IF s.cache[login] = pass THEN 1 ELSE 2

Accepts(s, login, pass) ==
    LET cached == InCache(s, login, pass) IN
    cached = 1 \/ (cached = 0 /\ s.record[login].status /\ s.record[login].pass = pass)

\* What CheckPass leaves behind: a password that was compared with the record
\* is cached.
CheckPass(s, login, pass) ==
    IF Accepts(s, login, pass) THEN [s EXCEPT !.cache[login] = pass] ELSE s

AddLogin(s, login, pass) ==
    [s EXCEPT !.record[login] =
       [s.record[login] EXCEPT !.created = s.commands, !.pass = pass, !.status = TRUE,
                               !.groups = s.record[login].groups \cup {"default"}]]

ChangePass(s, login, pass) ==
    [s EXCEPT !.cache[login] = None, !.record[login].pass = pass]

RemoveLogin(s, login) ==
    [s EXCEPT !.cache[login] = None, !.record[login] = NoRecord]

\* The cache is emptied every hour and by RESETCACHE.
ResetLogins(s) == [s EXCEPT !.cache = [l \in Logins |-> None]]

-----------------------------------------------------------------------------
(* SessionManager.  A session is named by the connection it was made for.  *)
(* rawflags are set once, when the session is made.                        *)

SetFlags(s, id, flags) == [s EXCEPT !.session[id].flags = flags]

AddSession(s, u, login, flags) ==
    [SetFlags(s, u, flags) EXCEPT !.session[u].rawflags = flags, !.sessions[login] = u]

Attach(s, u, login, flags) ==
    LET found == s.sessions[login]
        t == IF found = None THEN AddSession(s, u, login, flags) ELSE SetFlags(s, found, flags)
    IN [t EXCEPT !.user[u].session = t.sessions[login]]

\* All instances of login, the first of which makes the session if there is none.
AttachExternal(s, login, flags) ==
    LET found == FindLogin(s, login)
        t == Attach(s, FirstLogin(s, login), login, flags)
    IN IF found = {} THEN s
       ELSE [t EXCEPT !.user = [u \in Users |->
               IF u \in found THEN [t.user[u] EXCEPT !.session = t.sessions[login]]
               ELSE t.user[u]]]

(* Mutant: the session goes with any of its instances.                     *)
DetermineAlways(s, names) ==
    [s EXCEPT !.sessions = [l \in Logins |-> IF l \in names THEN None ELSE s.sessions[l]]]

\* When instances of the logins in names are destroyed: a session that nobody is
\* left in goes.
DetermineLifetime(s, names) ==
    [s EXCEPT !.sessions = [l \in Logins |->
       IF l \in names /\ CountLogin(s, l) = 0 THEN None ELSE s.sessions[l]]]

CanAdmin(s, u) == s.user[u].session # None /\ "r" \in s.session[s.user[u].session].flags

CanPerform(s, u, flag) ==
    /\ s.user[u].session # None
    /\ LET flags == s.session[s.user[u].session].flags
       IN \/ "r" \in flags
          \/ flag = "m" /\ "m" \in flags
          \/ flag = "e" /\ flags \cap {"e", "m"} # {}

ADDFLAG(s, login, flag) ==
    IF flag \in s.record[login].flags THEN s
    ELSE LET adding == s.record[login].flags \cup {flag}
         IN AttachExternal([s EXCEPT !.record[login].flags = adding], login, adding)

DELFLAG(s, login, flag) ==
    IF ~Exists(s, login) \/ login = Root \/ s.record[login].flags = {} THEN s
    ELSE LET creating == s.record[login].flags \ {flag}
         IN [AttachExternal(s, login, creating) EXCEPT !.record[login].flags = creating]

-----------------------------------------------------------------------------
(* GroupManager.  A group has the flags given to it up to the first that   *)
(* is invalid, which stays in its rawflags; the record has the last only.  *)

Lower(g) == IF g = "DEFAULT" THEN "default" ELSE g

\* A group that is not in GroupList.
NoGroup == [listed |-> FALSE, can |-> {}, rawflags |-> {}]

UpdateFlags(s, g, flags) ==
    LET old == s.GroupList[g]
        rawflags == old.rawflags \cup flags
        can == IF "invalid" \in old.rawflags THEN old.can ELSE old.can \cup (flags \ {"invalid"})
        t == [s EXCEPT !.GroupList[g] = [listed |-> TRUE, can |-> can, rawflags |-> rawflags]]
    IN IF "invalid" \in rawflags THEN t ELSE [t EXCEPT !.groups[g] = flags]

GROUPADD(s, g) ==
    IF s.GroupList[Lower(g)].listed THEN s ELSE UpdateFlags(s, Lower(g), DEFAULT_GFLAGS)

GUPDATE(s, g, flag) ==
    IF ~s.GroupList[g].listed THEN s ELSE UpdateFlags(s, g, {flag})

GRESET(s, g) ==
    IF g = "default" \/ ~s.GroupList[g].listed THEN s
    ELSE [s EXCEPT !.GroupList[g] = [NoGroup EXCEPT !.listed = TRUE], !.groups[g] = {}]

(* Mutant: the group is taken from the records only.                       *)
DeleteGroupRecords(s, g) ==
    [s EXCEPT !.GroupList[g] = NoGroup, !.groups[g] = {},
              !.record = [l \in Logins |-> [s.record[l] EXCEPT !.groups = @ \ {g}]]]

DeleteGroup(s, g) ==
    IF ~s.GroupList[g].listed THEN s
    ELSE [s EXCEPT !.GroupList[g] = NoGroup, !.groups[g] = {},
                   !.record = [l \in Logins |->
                      IF Exists(s, l) THEN [s.record[l] EXCEPT !.groups = @ \ {g}] ELSE s.record[l]],
                   !.user = [u \in Users |->
                      IF u \in ToSet(s.logins) THEN [s.user[u] EXCEPT !.Groups = @ \ {g}]
                      ELSE s.user[u]]]

\* The name is compared before it is put in lower case.
DELGROUP(s, g) == IF g = "default" THEN s ELSE DeleteGroup(s, Lower(g))

GSET(s, g, login) ==
    IF ~s.GroupList[g].listed \/ ~Exists(s, login) \/ g \in s.record[login].groups THEN s
    ELSE LET found == FindLogin(s, login)
         IN [s EXCEPT !.record[login].groups = @ \cup {g},
                      !.user = [u \in Users |->
                         IF u \in found THEN [s.user[u] EXCEPT !.Groups = @ \cup {g}]
                         ELSE s.user[u]]]

GDEL(s, g, login) ==
    IF ~s.GroupList[g].listed \/ ~Exists(s, login) \/ g \notin s.record[login].groups THEN s
    ELSE LET found == FindLogin(s, login)
         IN [s EXCEPT !.record[login].groups = @ \ {g},
                      !.user = [u \in Users |->
                         IF u \in found THEN [s.user[u] EXCEPT !.Groups = @ \ {g}]
                         ELSE s.user[u]]]

\* A user that is not alone gets the groups of the first instance of its login.
LoadGroups(s, u) ==
    LET login == s.user[u].login
        InUse == FirstLogin(s, login)
    IN IF InUse \notin {None, u}
       THEN [s EXCEPT !.user[u].Groups = s.user[InUse].Groups,
                      !.user[u].account = s.user[InUse].account]
       ELSE [s EXCEPT !.user[u].Groups = {g \in s.record[login].groups : s.GroupList[g].listed},
                      !.user[u].account = s.record[login].created]
=============================================================================
