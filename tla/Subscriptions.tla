--------------------------- MODULE Subscriptions ---------------------------
(***************************************************************************)
(* Who hears what: the channels that clients join and leave, one side of a *)
(* subscription in Channel::subscribedlist and the other in User::chans,   *)
(* the lists of the Monitor and of the Notifier, and the channels and the  *)
(* notifications that the record of a login keeps for its next visit.      *)
(***************************************************************************)
EXTENDS Accounts

CONSTANTS autojoin,   \* the settings of this name
          chansync,
          allowchans

NoChannel == [listed |-> FALSE, subscribed |-> {}, muted |-> FALSE]

Subscribed(s, u, c) == u \in s.ChannelList[c].subscribed

-----------------------------------------------------------------------------
(* Channel, with the loops over clients and channels written as sets: none *)
(* of them sees what another turn of the loop has changed.                 *)

\* ChannelManager::CheckRemoval
CheckRemoval(chan) == IF chan.subscribed # {} THEN chan ELSE NoChannel

DeleteUser(chan, users) ==
    IF chan.subscribed \cap users = {} THEN chan
    ELSE CheckRemoval([chan EXCEPT !.subscribed = @ \ users])

\* The hooks of core_dbload: the record of the login follows.
OnUserJoin(s, login, chans, from_connect) ==
    IF from_connect \/ ~autojoin THEN s ELSE [s EXCEPT !.record[login].chans = @ \cup chans]

OnUserPart(s, login, chans) ==
    IF ~autojoin THEN s ELSE [s EXCEPT !.record[login].chans = @ \ chans]

\* The clients in users, instances of login, join the channels that may(u) has of u.
ExecuteJoin(s, users, login, may, from_connect) ==
    LET added == [s EXCEPT
          !.ChannelList = [c \in Channels |->
             LET new == {u \in users : c \in may[u]} IN
             IF new = {} THEN s.ChannelList[c]
             ELSE [s.ChannelList[c] EXCEPT !.listed = TRUE, !.subscribed = @ \cup new]],
          !.user = [u \in Users |->
             IF u \in users THEN [s.user[u] EXCEPT !.chans = @ \cup may[u]] ELSE s.user[u]]]
    IN OnUserJoin(added, login, UNION {may[u] : u \in users}, from_connect)

JoinUser(s, users, login, chans, from_connect) ==
    LET may == [u \in users |->
          {c \in chans : /\ s.user[u].registered = REG_OK /\ ~Subscribed(s, u, c)
                         /\ s.ChannelList[c].listed \/ allowchans}]
    IN ExecuteJoin(s, users, login, may, from_connect)

(* Mutant: the client's own list keeps the channel.                        *)
PartOneSide(s, users, login, chans) ==
    LET left(u) == {c \in chans : Subscribed(s, u, c)}
    IN [OnUserPart(s, login, UNION {left(u) : u \in users}) EXCEPT
          !.ChannelList = [c \in Channels |->
             IF c \in chans THEN DeleteUser(s.ChannelList[c], users) ELSE s.ChannelList[c]]]

PartUser(s, users, login, chans) ==
    LET left(u) == {c \in chans : Subscribed(s, u, c)}
    IN [OnUserPart(s, login, UNION {left(u) : u \in users}) EXCEPT
          !.user = [u \in Users |->
             IF u \in users THEN [s.user[u] EXCEPT !.chans = @ \ left(u)] ELSE s.user[u]],
          !.ChannelList = [c \in Channels |->
             IF c \in chans THEN DeleteUser(s.ChannelList[c], users) ELSE s.ChannelList[c]]]

\* User::CheckEmptyChannels, when clients disconnect: chans is left as it is, with
\* the subscriptions gone.
CheckEmptyChannels(s, users) ==
    [s EXCEPT !.ChannelList = [c \in Channels |->
       DeleteUser(s.ChannelList[c], {u \in users : c \in s.user[u].chans})]]

Autojoin(s, u) ==
    LET login == s.user[u].login IN JoinUser(s, {u}, login, s.record[login].chans, TRUE)

-----------------------------------------------------------------------------
(* The commands of core_channel                                            *)

\* With u, the other instances of u's login, which Join and Part of ClientManager
\* go over if channels are synchronized.
Synced(s, u) == {u} \cup IF chansync THEN FindLogin(s, s.user[u].login) ELSE {}

JOIN(s, u, c) ==
    IF Subscribed(s, u, c) THEN s
    ELSE JoinUser(s, Synced(s, u), s.user[u].login, {c}, FALSE)

PART(s, u, c) ==
    IF ~Subscribed(s, u, c) THEN s ELSE PartUser(s, Synced(s, u), s.user[u].login, {c})

PARTALL(s, u) == PartUser(s, {u}, s.user[u].login, s.user[u].chans)

\* A channel that is left empty in between comes back without its mute.
HOP(s, u, c) ==
    LET login == s.user[u].login
        out == PartUser(s, {u}, login, {c})
    IN IF ~Subscribed(s, u, c) THEN s ELSE JoinUser(out, {u}, login, {c}, FALSE)

MUTE(s, c) == IF s.ChannelList[c].listed THEN [s EXCEPT !.ChannelList[c].muted = TRUE] ELSE s

UNMUTE(s, c) == IF s.ChannelList[c].listed THEN [s EXCEPT !.ChannelList[c].muted = FALSE] ELSE s

-----------------------------------------------------------------------------
(* Monitor and Notifier.  Which level a client asks for decides only what  *)
(* it is sent, so that it is left out; an invalid one is refused.          *)

AddListener(s, u) == IF s.user[u].quitting THEN s ELSE [s EXCEPT !.NotifyList = @ \cup {u}]

\* A command with an invalid level has taken the client off the list already.
MONITOR(s, u, level) ==
    IF level = "invalid" \/ s.user[u].quitting THEN [s EXCEPT !.MonitorList = @ \ {u}]
    ELSE [s EXCEPT !.MonitorList = @ \cup {u}]

STOPMONITOR(s, u) == [s EXCEPT !.MonitorList = @ \ {u}]

MRESET(s) == [s EXCEPT !.MonitorList = {}]

NOTIFY(s, u, level) ==
    IF level = "invalid" THEN [s EXCEPT !.NotifyList = @ \ {u}]
    ELSE AddListener([s EXCEPT !.record[s.user[u].login].notify = TRUE], u)

STOPNOTIFY(s, u) ==
    IF u \notin s.NotifyList THEN s
    ELSE [s EXCEPT !.NotifyList = @ \ {u}, !.record[s.user[u].login].notify = FALSE]

NRESET(s) ==
    [s EXCEPT !.NotifyList = {},
              !.record = [l \in Logins |-> [s.record[l] EXCEPT !.notify = FALSE]]]

LoadNotify(s, u) == IF s.record[s.user[u].login].notify THEN AddListener(s, u) ELSE s
=============================================================================
