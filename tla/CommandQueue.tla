--------------------------- MODULE CommandQueue ---------------------------
(***************************************************************************)
(* The command queue of beryldb: the lines a client sends, their way       *)
(* through CommandQueue::Add, the turns CommandQueue::Flush gives to the   *)
(* clients, the gates of CommandHandler::Execute, and the commands that    *)
(* change the queue they are in: MULTI, MULTIRESET, MRUN (core_multi),     *)
(* ILOGIN and the aliases of EXIT (core_user), PAUSE and RESUME            *)
(* (core_admin).  Everything here runs on the main thread, so that each    *)
(* function is one step; the order of the steps is what matters.           *)
(*                                                                         *)
(* A request is [id, command, arg]; id is the number of the client's line  *)
(* it stems from.  The last five fields of a user are history.             *)
(***************************************************************************)
EXTENDS Naturals, Sequences, FiniteSets, SequencesExt

CONSTANTS Users,        \* the connections
          Order,        \* Users in the order of local_users
          Menu,         \* Menu[u]: the <<command, arg>> u may send
          MaxLines,     \* MaxLines[u]: how many lines u sends at most,
          MaxReceived,  \* and all together,
          Weight,       \* a line of u counting Weight[u]
          Leavers,      \* connections that may break
          Registered,   \* users that have logged in when we start to look
          GroupsOf,     \* GroupsOf[u]: flags of u's groups, once it is logged in
          FlagsOf,      \* FlagsOf[u]: flags u may perform, once it is logged in
          None

ASSUME OrderAssumption ==
    /\ Order \in Seq(Users) /\ Range(Order) = Users /\ Len(Order) = Cardinality(Users)

\* PAUSE and RESUME name an instance, and tell whether a time was given, unless
\* they are refused for their parameters.
ASSUME MenuAssumption ==
    \A u \in Users : \A c \in Menu[u] :
      c[1] \in {"PAUSE", "RESUME"} => c[2] \in Users \X BOOLEAN \/ c[2] \in {"missing", "bad"}

\* None is no flag, no group and no command.
ASSUME NoneAssumption == None \notin {"m", "w", "k", "EXIT"}

VARIABLES user,         \* the queue-related part of a LocalUser
          Ready         \* Kernel->Ready

vars == <<user, Ready>>

REG_LOGINUSER == {"USER", "LOGIN"}
REG_OK == REG_LOGINUSER \cup {"OK"}

\* Command::Command with what the constructors of the commands set.
Command(flags, group, pre_reg_ok, alias) ==
    [flags |-> flags, group |-> group, pre_reg_ok |-> pre_reg_ok, alias |-> alias]

\* The commands of CommandList this model sends; SET stands for every command
\* that hands a query to the data threads.
CommandList ==
    [c \in {"MULTI", "MULTIRESET", "MRUN", "AGENT", "AUTH", "LOGIN", "ILOGIN", "EXIT",
            "PING", "PONG", "Q", "QUIT", "PAUSE", "RESUME", "SET"} |->
       CASE c \in {"MULTI", "MULTIRESET", "MRUN"} -> Command(None, "w", FALSE, None)
         [] c \in {"AGENT", "AUTH", "LOGIN", "ILOGIN", "EXIT"} -> Command(None, None, TRUE, None)
         [] c \in {"PING", "PONG"} -> Command(None, None, FALSE, None)
         [] c \in {"Q", "QUIT"} -> Command(None, None, FALSE, "EXIT")
         [] c \in {"PAUSE", "RESUME"} -> Command("m", None, FALSE, None)
         [] c = "SET" -> Command(None, "k", FALSE, None)]

Init ==
    /\ user = [u \in Users |->
         [PendingList |-> <<>>, PendingMulti |-> <<>>, Multi |-> FALSE, MultiRunning |-> FALSE,
          Locked |-> FALSE, Quitting |-> FALSE, Paused |-> FALSE, resume |-> 0,
          registered |-> IF u \in Registered THEN REG_OK ELSE {},
          logged |-> u \in Registered, auth |-> "none",
          lines |-> <<>>, done |-> <<>>, refused |-> {}, cleared |-> {}, opened |-> 0]]
    /\ Ready = TRUE

-----------------------------------------------------------------------------
(* CommandQueue::Add                                                       *)

Ids(queue) == {queue[i].id : i \in DOMAIN queue}

(* Mutants: an MRUN without MULTI is refused and queued all the same;      *)
(* MULTIRESET forgets the commands of the transaction only when it runs.   *)
AddRefused(s, u, r) ==
    LET t == s[u]
        later == [t EXCEPT !.PendingList = Append(@, r)]
    IN [s EXCEPT ![u] =
          IF t.Quitting THEN t
          ELSE IF t.Multi /\ r.command = "MULTI" THEN [t EXCEPT !.refused = @ \cup {r.id}]
          ELSE IF t.Multi /\ r.command \notin {"MRUN", "PONG", "MULTIRESET"}
               THEN [t EXCEPT !.PendingMulti = Append(@, r)]
          ELSE IF ~t.Multi /\ r.command = "MRUN" THEN [later EXCEPT !.refused = @ \cup {r.id}]
          ELSE later]

AddNoReset(s, u, r) ==
    LET t == s[u]
        later == [t EXCEPT !.PendingList = Append(@, r)]
    IN [s EXCEPT ![u] =
          IF t.Quitting THEN t
          ELSE IF r.command \in {"PONG", "MULTIRESET"} THEN later
          ELSE IF t.Multi /\ r.command = "MULTI" THEN [t EXCEPT !.refused = @ \cup {r.id}]
          ELSE IF t.Multi /\ r.command # "MRUN" THEN [t EXCEPT !.PendingMulti = Append(@, r)]
          ELSE IF ~t.Multi /\ r.command = "MRUN" THEN [t EXCEPT !.refused = @ \cup {r.id}]
          ELSE later]

Add(s, u, r) ==
    LET t == s[u]
        later == [t EXCEPT !.PendingList = Append(@, r)]
    IN [s EXCEPT ![u] =
          IF t.Quitting THEN t
          ELSE IF r.command = "PONG" THEN later
          ELSE IF r.command = "MULTIRESET"
               THEN [later EXCEPT !.PendingMulti = <<>>, !.MultiRunning = FALSE,
                                  !.cleared = @ \cup Ids(t.PendingMulti)]
          ELSE IF t.Multi /\ r.command = "MULTI" THEN [t EXCEPT !.refused = @ \cup {r.id}]
          ELSE IF t.Multi /\ r.command # "MRUN" THEN [t EXCEPT !.PendingMulti = Append(@, r)]
          ELSE IF ~t.Multi /\ r.command = "MRUN" THEN [t EXCEPT !.refused = @ \cup {r.id}]
          ELSE later]

Received == FoldLeft(LAMBDA n, u : n + Weight[u] * Len(user[u].lines), 0, Order)

\* A line of the client: StreamData cuts it, ProcessBuffer parses and adds it.
Receive(u, c) ==
    /\ Ready
    /\ ~user[u].Quitting
    /\ Len(user[u].lines) < MaxLines[u]
    /\ Received + Weight[u] <= MaxReceived
    /\ LET s == [user EXCEPT ![u].lines = Append(@, c[1])]
       IN user' = Add(s, u, [id |-> Len(s[u].lines), command |-> c[1], arg |-> c[2]])
    /\ UNCHANGED Ready

-----------------------------------------------------------------------------
(* The handlers                                                            *)

Disconnect(s, u) == [s EXCEPT ![u].Quitting = TRUE]

\* CommandILogin queues three commands behind what the client has pipelined.
ILogin(s, u, r) ==
    IF s[u].logged THEN s
    ELSE LET from(command, arg) == [id |-> r.id, command |-> command, arg |-> arg]
         IN Add(Add(Add(s, u, from("AGENT", "good")), u, from("AUTH", r.arg)),
                u, from("LOGIN", "good"))

\* CommandLogin with User::SetLogin: a wrong password ends the connection.
Login(s, u) ==
    IF s[u].logged \/ s[u].Quitting THEN s
    ELSE IF s[u].auth # "good" THEN Disconnect([s EXCEPT ![u].logged = TRUE], u)
    ELSE [s EXCEPT ![u].logged = TRUE, ![u].registered = @ \cup {"LOGIN"}]

Handle(s, u, r) ==
    CASE r.command = "MULTI" ->
           IF s[u].MultiRunning THEN s ELSE [s EXCEPT ![u].Multi = TRUE, ![u].opened = r.id]
      [] r.command = "MULTIRESET" ->
           IF s[u].Multi THEN [s EXCEPT ![u].Multi = FALSE, ![u].MultiRunning = FALSE] ELSE s
      [] r.command = "SET" -> [s EXCEPT ![u].Locked = TRUE]
      [] r.command = "AGENT" -> [s EXCEPT ![u].registered = @ \cup {"USER"}]
      [] r.command = "AUTH" -> [s EXCEPT ![u].auth = r.arg]
      [] r.command = "LOGIN" -> Login(s, u)
      [] r.command = "ILOGIN" -> ILogin(s, u, r)
      [] r.command = "EXIT" -> Disconnect(s, u)
      [] r.command = "PAUSE" ->
           IF s[r.arg[1]].Quitting THEN s     \* FindInstance finds no such instance
           ELSE [s EXCEPT ![r.arg[1]].Paused = TRUE,
                          ![r.arg[1]].resume = @ + (IF r.arg[2] THEN 1 ELSE 0)]
      [] r.command = "RESUME" ->
           IF s[r.arg[1]].Quitting THEN s ELSE [s EXCEPT ![r.arg[1]].Paused = FALSE]
      [] r.command \in {"MRUN", "PING", "PONG"} -> s

-----------------------------------------------------------------------------
(* CommandHandler::Execute                                                 *)

\* A user that is not logged in has neither a session nor groups.
CanPerform(t, u, flag) == t.registered = REG_OK /\ flag \in FlagsOf[u]
InGroup(t, u, group) == t.registered = REG_OK /\ group \in GroupsOf[u]

(* Mutant: who is not logged in gets every command without flags.          *)
VerdictAnyone(t, u, r) ==
    IF t.Paused /\ r.command # "PONG" THEN "dropped"
    ELSE IF r.command \notin DOMAIN CommandList THEN "unknown"
    ELSE LET handler == CommandList[r.command] IN
         IF handler.flags # None /\ ~CanPerform(t, u, handler.flags) THEN "denied"
         ELSE IF handler.flags = None /\ handler.group # None /\ ~InGroup(t, u, handler.group)
              THEN "denied"
         ELSE IF handler.alias # None THEN "alias"
         ELSE "handled"

Verdict(t, u, r) ==
    IF t.Paused /\ r.command # "PONG" THEN "dropped"
    ELSE IF r.command \notin DOMAIN CommandList THEN "unknown"
    ELSE LET handler == CommandList[r.command] IN
         IF handler.flags # None /\ ~CanPerform(t, u, handler.flags) THEN "denied"
         ELSE IF handler.flags = None /\ handler.group # None /\ ~InGroup(t, u, handler.group)
              THEN "denied"
         ELSE IF r.arg = "missing" THEN "missing"
         ELSE IF t.registered # REG_OK /\ ~handler.pre_reg_ok THEN "notlogged"
         ELSE IF handler.alias # None THEN "alias"
         ELSE IF r.arg = "bad" THEN "rejected"
         ELSE "handled"

\* opened is the MULTI of the transaction the command is taken from, or 0.
Execute(s, u, r, opened) ==
    LET verdict == Verdict(s[u], u, r)
        entry == [id |-> r.id, command |-> r.command, verdict |-> verdict, opened |-> opened]
        noted == [s EXCEPT ![u].done = Append(@, entry)]
    IN CASE verdict = "handled" -> Handle(noted, u, r)
         [] verdict = "alias" ->
              Add(noted, u, [r EXCEPT !.command = CommandList[r.command].alias])
         [] OTHER -> noted

-----------------------------------------------------------------------------
(* CommandQueue::Flush                                                     *)

(* Mutant: the last command of PendingList is taken.                       *)
RunLast(s, u) ==
    Execute([s EXCEPT ![u].PendingList = Front(@)], u, Last(s[u].PendingList), 0)

RunHead(s, u) ==
    Execute([s EXCEPT ![u].PendingList = Tail(@)], u, Head(s[u].PendingList), 0)

(* Mutant: the turn goes on with the head of PendingList after a command   *)
(* of the transaction.                                                     *)
RunMultiAndHead(s, u) ==
    IF s[u].PendingMulti = <<>> THEN [s EXCEPT ![u].MultiRunning = FALSE]
    ELSE LET t == Execute(s, u, Head(s[u].PendingMulti), s[u].opened)
         IN RunHead([t EXCEPT ![u].PendingMulti = Tail(@)], u)

\* A command runs out of the transaction; the MRUN that started it stays at
\* the head of PendingList until the transaction is empty.
RunMulti(s, u) ==
    IF s[u].PendingMulti = <<>> THEN [s EXCEPT ![u].MultiRunning = FALSE]
    ELSE LET t == Execute(s, u, Head(s[u].PendingMulti), s[u].opened)
         IN [t EXCEPT ![u].PendingMulti = Tail(@)]

\* A locked client gets no turn, except to answer a PING.
Due(t) ==
    ~t.Quitting /\ t.PendingList # <<>> /\ (t.Locked => Head(t.PendingList).command = "PONG")

(* Mutant: an MRUN starts a transaction whether MULTI came before or not.  *)
TurnRestarts(st, u) ==
    LET s == st.user
        head == Head(s[u].PendingList)
        t == IF head.command = "MRUN"
             THEN [s EXCEPT ![u].MultiRunning = TRUE, ![u].Multi = FALSE] ELSE s
        next == IF head.command # "PONG" /\ t[u].MultiRunning THEN RunMulti(t, u)
                ELSE RunHead(s, u)
    IN IF st.stop \/ ~Due(s[u]) THEN st
       ELSE [user |-> next, stop |-> head.command = "PONG" \/ next[u].Quitting]

\* The turn of one client.  A client that has left is not in local_users any
\* more.  A PONG ends the loop, and so does a client that leaves during its
\* turn, whose list node loses its successor: stop.
Turn(st, u) ==
    LET s == st.user
        head == Head(s[u].PendingList)
        starts == s[u].Multi /\ head.command = "MRUN"
        t == IF starts THEN [s EXCEPT ![u].MultiRunning = TRUE, ![u].Multi = FALSE] ELSE s
        next == IF head.command # "PONG" /\ t[u].MultiRunning THEN RunMulti(t, u)
                ELSE RunHead(s, u)
    IN IF st.stop \/ ~Due(s[u]) THEN st
       ELSE [user |-> next, stop |-> head.command = "PONG" \/ next[u].Quitting]

\* The pass over local_users, up to the n-th client.
Pass[n \in 0..Len(Order)] ==
    IF n = 0 THEN [user |-> user, stop |-> FALSE] ELSE Turn(Pass[n - 1], Order[n])

Flushed == Pass[Len(Order)].user

Flush ==
    /\ Ready
    /\ \E u \in Users : Due(user[u])
    /\ user' = Flushed
    /\ UNCHANGED Ready

-----------------------------------------------------------------------------
(* What happens around the queue                                           *)

\* DataFlush::GetResults has sent the answer of u's query and unlocks u.
Answer(u) ==
    /\ user[u].Locked
    /\ user' = [user EXCEPT ![u].Locked = FALSE]
    /\ UNCHANGED Ready

\* ClientManager::Flush, once a second: who has both name and login is let in.
Register ==
    /\ \E u \in Users : user[u].registered = REG_LOGINUSER /\ ~user[u].Quitting
    /\ user' = [u \in Users |->
         IF user[u].registered = REG_LOGINUSER /\ ~user[u].Quitting
         THEN [user[u] EXCEPT !.registered = REG_OK] ELSE user[u]]
    /\ UNCHANGED Ready

\* The connection breaks.
Leave(u) ==
    /\ Ready
    /\ u \in Leavers
    /\ ~user[u].Quitting
    /\ user' = Disconnect(user, u)
    /\ UNCHANGED Ready

\* AutoResume::Run, the timer of a PAUSE with a time.
AutoResume(u) ==
    /\ user[u].resume > 0
    /\ user' = [user EXCEPT ![u].resume = @ - 1, ![u].Paused = @ /\ user[u].Quitting]
    /\ UNCHANGED Ready

\* Beryl::PrepareExit: no command runs any more and the lists are emptied.
PrepareExit ==
    /\ Ready
    /\ Ready' = FALSE
    /\ user' = [u \in Users |->
         IF user[u].Quitting THEN user[u]
         ELSE [user[u] EXCEPT !.PendingList = <<>>,
                              !.cleared = @ \cup Ids(user[u].PendingList)]]

Next ==
    \/ \E u \in Users :
         \/ \E c \in Menu[u] : Receive(u, c)
         \/ Answer(u)
         \/ Leave(u)
         \/ AutoResume(u)
    \/ Flush
    \/ Register
    \/ PrepareExit

\* The main loop calls Flush again and again, the data threads answer, the
\* clients are looked at every second and the timers run.  The first conjunct
\* is WF_vars(Flush) with its ENABLED written out.
Fairness ==
    /\ []<>~(Ready /\ Flushed # user) \/ []<><<Flush>>_vars
    /\ WF_vars(Register)
    /\ \A u \in Users : WF_vars(Answer(u)) /\ WF_vars(AutoResume(u))

Spec == Init /\ [][Next]_vars /\ Fairness

-----------------------------------------------------------------------------
(* Properties                                                              *)

TypeOK ==
    /\ Ready \in BOOLEAN
    /\ \A u \in Users : LET t == user[u] IN
         /\ {t.Multi, t.MultiRunning, t.Locked, t.Quitting, t.Paused, t.logged} \subseteq BOOLEAN
         /\ t.registered \in SUBSET REG_OK
         /\ Ids(t.PendingList) \cup Ids(t.PendingMulti) \cup Ids(t.done)
              \cup t.refused \cup t.cleared \subseteq 1..Len(t.lines)

\* Lines whose command is queued again under its number when it is executed.
Requeued == {"Q", "QUIT", "ILOGIN"}

\* The lines of u that go through the queue once and in their turn.
Plain(u) == {i \in DOMAIN user[u].lines : user[u].lines[i] \notin Requeued}

\* No line is lost and none is executed twice: each is refused, waits in one of
\* the two lists, was dropped with one, or has been executed.
Accounted ==
    /\ TypeOK
    /\ \A u \in Users : \A i \in Plain(u) :
         LET in(queue) == Cardinality({k \in DOMAIN queue : queue[k].id = i})
             one(set) == IF i \in set THEN 1 ELSE 0
         IN in(user[u].PendingList) + in(user[u].PendingMulti) + in(user[u].done)
              + one(user[u].refused) + one(user[u].cleared) = 1

Sent(u, command) == {i \in DOMAIN user[u].lines : user[u].lines[i] = command}

\* The commands of a client take effect in the order of its lines: MULTI and
\* MRUN only move the boundary between the lists.  PONG answers the server and
\* may overtake; after a MULTIRESET, ILOGIN or an alias of EXIT the order is lost.
InOrder ==
    \A u \in Users :
      (\A c \in Requeued \cup {"MULTIRESET"} : Sent(u, c) = {}) =>
        \A j, k \in DOMAIN user[u].done :
          j < k /\ {user[u].done[j].command, user[u].done[k].command} \cap {"PONG", "MRUN"} = {}
            => user[u].done[j].id < user[u].done[k].id

\* A transaction runs commands that were queued after its MULTI.  What a client
\* queues between sending MULTIRESET and its execution stays behind and runs in
\* the next transaction, and so does the EXIT of a Q sent before; there is no
\* other way in.
NoStrangers ==
    \A u \in Users : \A e \in Range(user[u].done) :
      e.opened > 0 /\ e.id < e.opened
        => \/ \E k \in Sent(u, "MULTIRESET") : k < e.id
           \/ e.command = "EXIT" /\ user[u].lines[e.id] \in {"Q", "QUIT"}

\* Between the first and the last command of a transaction its client executes
\* nothing else but PONGs.
Contiguous ==
    \A u \in Users : LET done == user[u].done IN
      \A i, k \in DOMAIN done :
        i < k /\ done[i].opened > 0 /\ done[i].opened = done[k].opened
          => \A j \in i..k : done[j].command = "PONG" \/ done[j].opened = done[i].opened

\* Before its login a client gets nothing done but the login, whatever it has
\* pipelined behind it.
OnlyLoginBefore ==
    \A u \in Users \ Registered : \A e \in Range(user[u].done) :
      e.verdict = "handled" /\ e.command \notin {"AGENT", "AUTH", "LOGIN", "ILOGIN", "EXIT"}
        => user[u].registered = REG_OK

\* Every waiting command gets its turn, and every transaction comes to its end,
\* unless the client leaves or the server exits.
Served ==
    \A u \in Users :
      /\ \A i \in 1..MaxLines[u] :
           i \in Ids(user[u].PendingList) ~> \/ i \notin Ids(user[u].PendingList)
                                             \/ user[u].Quitting
      /\ user[u].MultiRunning ~> ~user[u].MultiRunning \/ user[u].Quitting \/ ~Ready
=============================================================================
