-------------------------- MODULE SessionsProofs --------------------------
(***************************************************************************)
(* Proofs about the accounts, sessions, groups and channels: the invariants*)
(* of Sessions, for any clients, accounts, groups, channels and commands.  *)
(***************************************************************************)
EXTENDS Sessions, FiniteSetTheorems, WellFoundedInduction, TLAPS

-----------------------------------------------------------------------------
(* The inductive invariant.  It says everything of a state s of the server,*)
(* a record of the variables.                                              *)

ClientSet ==
    [object : {"none", "here", "gone"}, registered : {{}, REG_USER, REG_LOGINUSER, REG_OK},
     logged : BOOLEAN, login : Logins \cup {None}, auth : Passwords \cup {None},
     session : Users \cup {None}, Groups : SUBSET GroupNames, chans : SUBSET Channels,
     quitting : BOOLEAN, Locked : BOOLEAN, account : Nat \cup {None}]

RecordSet ==
    [created : Nat \cup {None}, pass : Passwords \cup {None}, status : BOOLEAN,
     flags : SUBSET {"e", "r", "m"}, groups : SUBSET GroupNames, chans : SUBSET Channels,
     notify : BOOLEAN]

GroupFlags == DOMAIN Ability

GroupSet == [listed : BOOLEAN, can : SUBSET GroupFlags, rawflags : SUBSET (GroupFlags \cup {"invalid"})]

ChannelSet == [listed : BOOLEAN, subscribed : SUBSET Users, muted : BOOLEAN]

SessionSet == [flags : SUBSET {"e", "r", "m"}, rawflags : SUBSET {"e", "r", "m"}]

ServerSet ==
    [user : [Users -> ClientSet], record : [Logins -> RecordSet],
     groups : [GroupNames -> SUBSET GroupFlags], cache : [Logins -> Passwords \cup {None}],
     sessions : [Logins -> Users \cup {None}], session : [Users -> SessionSet],
     GroupList : [GroupNames -> GroupSet], ChannelList : [Channels -> ChannelSet],
     MonitorList : SUBSET Users, NotifyList : SUBSET Users, logins : Seq(Users),
     not_registered_track : Int, AwaitingExit : SUBSET Users, reducer : SUBSET Users,
     commands : Nat]

Present(s, u) == s.user[u].object = "here" /\ ~s.user[u].quitting

Online(s, u) == Present(s, u) /\ s.user[u].registered = REG_OK

Unregistered(s) == {u \in Users : Present(s, u) /\ s.user[u].registered # REG_OK}

Distinct(list) == \A i, j \in DOMAIN list : i # j => list[i] # list[j]

\* Who is where: the lists of ClientManager, of the Monitor and the Notifier.
Placed(s) ==
    /\ s.not_registered_track = Cardinality(Unregistered(s))
    /\ Distinct(s.logins)
    /\ \A u \in Users :
         /\ u \in ToSet(s.logins) <=> Present(s, u) /\ "LOGIN" \in s.user[u].registered
         /\ "LOGIN" \in s.user[u].registered => s.user[u].login # None
         /\ s.user[u].registered # {} => s.user[u].logged
         /\ s.user[u].object = "none" => s.user[u] = NewUser
         /\ u \in s.MonitorList \cup s.NotifyList =>
              s.user[u].object = "here" /\ s.user[u].registered = REG_OK
         /\ u \in s.reducer \cup s.AwaitingExit => s.user[u].object = "here" /\ s.user[u].quitting
    /\ s.reducer \cap s.AwaitingExit = {}

\* Whose session it is.  That a session belongs to the login of the client it
\* was made for keeps the flags of one login from those of another.
Attached(s) ==
    /\ \A u \in Users :
         /\ Online(s, u) => /\ s.sessions[s.user[u].login] # None
                            /\ s.user[u].session = s.sessions[s.user[u].login]
         /\ s.user[u].session # None => s.user[u].registered = REG_OK
    /\ \A l \in Logins : s.sessions[l] # None =>
         /\ s.user[s.sessions[l]].login = l
         /\ \E u \in Users : /\ s.user[u].object = "here" /\ s.user[u].login = l
                            /\ s.user[u].registered = REG_OK
    /\ Exists(s, Root) /\ "r" \in s.record[Root].flags
    /\ s.sessions[Root] # None =>
         /\ "r" \in s.session[s.sessions[Root]].flags
         /\ "r" \in s.session[s.sessions[Root]].rawflags

\* What is cached; an account that does not exist has nothing.
Cached(s) ==
    \A l \in Logins :
      /\ ~Exists(s, l) => ~s.record[l].status /\ s.record[l].groups = {}
      /\ s.cache[l] # None =>
           Exists(s, l) /\ s.record[l].status /\ s.record[l].pass = s.cache[l]

\* What groups there are and what they can do.
Grouped(s) ==
    /\ \A g \in GroupNames :
         /\ ~s.GroupList[g].listed => s.GroupList[g].can = {}
         /\ "invalid" \notin s.GroupList[g].rawflags => s.GroupList[g].can = s.GroupList[g].rawflags
    /\ \A l \in Logins : \A g \in s.record[l].groups : s.GroupList[g].listed \/ g = "default"

\* The times at which accounts have been made are in the past, and those of
\* accounts that are gone are not those of accounts to come.
Dated(s, now) ==
    /\ \A l \in Logins : Exists(s, l) => s.record[l].created <= now
    /\ \A u \in Users : s.user[u].account # None =>
         /\ s.user[u].account <= now
         /\ s.user[u].login # None /\ ~Exists(s, s.user[u].login) => s.user[u].account < now
    /\ \A u \in Users : ~s.user[u].logged => s.user[u].login = None /\ s.user[u].account = None

\* The instances of an account have the groups of its record.
Matching(s) ==
    \A u \in Users :
      Online(s, u) /\ s.user[u].account = s.record[s.user[u].login].created =>
        s.user[u].Groups = s.record[s.user[u].login].groups \cap {g \in GroupNames : s.GroupList[g].listed}

\* Both sides of the subscriptions.
Paired(s) ==
    /\ \A u \in Users, c \in Channels :
         /\ Subscribed(s, u, c) => Online(s, u)
         /\ Present(s, u) => (c \in s.user[u].chans <=> Subscribed(s, u, c))
    /\ \A c \in Channels : s.ChannelList[c].listed <=> s.ChannelList[c].subscribed # {}


\* The group default, deleted under its other name, is made again.
DefaultMade == {<<"GROUPADD", "default">>, <<"GROUPADD", "DEFAULT">>}

DefaultReturns ==
    \E l, m \in Logins : <<"DELGROUP", "DEFAULT">> \in Menu[l] /\ Menu[m] \cap DefaultMade # {}

DefaultKept(s) ==
    (\E l \in Logins : Menu[l] \cap DefaultMade # {}) => s.GroupList["default"].listed

Good(s, now) ==
    /\ s \in ServerSet
    /\ Placed(s) /\ Attached(s) /\ Cached(s) /\ Grouped(s) /\ Dated(s, now) /\ Paired(s)
    /\ ~DefaultReturns => Matching(s) /\ DefaultKept(s)

SInv == Good(State, commands)

-----------------------------------------------------------------------------
(* Facts about the operators of the model                                  *)

(* A set of numbers with zero and all successors has every number.         *)
LEMMA Climb ==
  ASSUME NEW T, T \subseteq Nat, 0 \in T, \A n \in T : n + 1 \in T
  PROVE  T = Nat
<1>1. SUFFICES ASSUME Nat \ T # {} PROVE FALSE
  OBVIOUS
<1>2. PICK x \in Nat \ T : \A y \in Nat \ T : <<y, x>> \notin OpToRel(<, Nat)
  BY <1>1, NatLessThanWellFounded, WFMin
<1>3. x - 1 \in Nat \ T
  <2>1. x \in Nat /\ x # 0 /\ x \notin T
    BY <1>2
  <2>2. x - 1 \in Nat /\ (x - 1) + 1 = x
    BY <2>1
  <2> QED
    BY <2>1, <2>2
<1>4. <<x - 1, x>> \in OpToRel(<, Nat)
  BY <1>2, <1>3 DEF OpToRel
<1> QED
  BY <1>2, <1>3, <1>4

(* The least of a set of numbers is one of them.                           *)
LEMMA MinIn ==
  ASSUME NEW S, S \subseteq Nat, S # {}
  PROVE  Min(S) \in S
<1>1. PICK x \in S : \A y \in S : <<y, x>> \notin OpToRel(<, Nat)
  BY NatLessThanWellFounded, WFMin
<1>2. ASSUME NEW y \in S PROVE x <= y
  <2>1. x \in Nat /\ y \in Nat
    OBVIOUS
  <2>2. y < x => <<y, x>> \in OpToRel(<, Nat)
    BY <2>1 DEF OpToRel
  <2>3. ~(y < x)
    BY <1>1, <2>2, Zenon
  <2> QED
    BY <2>1, <2>3
<1> QED
  BY <1>2 DEF Min

(* What EraseLogin leaves: the others, each where it was before the others. *)
LEMMA EraseLoginIs ==
  ASSUME NEW list \in Seq(Users), NEW users, Distinct(list)
  PROVE  LET left == EraseLogin(list, users) IN
           left \in Seq(Users) /\ Distinct(left) /\ ToSet(left) = ToSet(list) \ users
<1> DEFINE N == Len(list)
           Step(g, i) == IF i = 0 THEN <<>>
                         ELSE IF list[i] \in users THEN g[i - 1] ELSE Append(g[i - 1], list[i])
           Upto(n, g) == g = [i \in 0 .. n |-> Step(g, i)]
           T == {n \in Nat : \E g : Upto(n, g)}
<1>1. 0 \in T
  <2> DEFINE g == [i \in 0 .. 0 |-> <<>>]
  <2>1. Upto(0, g)
    OBVIOUS
  <2> QED
    BY <2>1
<1>2. ASSUME NEW n \in T PROVE n + 1 \in T
  <2>0. n \in Nat
    OBVIOUS
  <2>1. PICK g : Upto(n, g)
    OBVIOUS
  <2> DEFINE h == [i \in 0 .. n + 1 |-> IF i <= n THEN g[i] ELSE Step(g, n + 1)]
  <2>2. ASSUME NEW i \in 0 .. n + 1 PROVE h[i] = Step(h, i)
    <3>1. CASE i <= n
      <4>1. h[i] = g[i] /\ (i # 0 => h[i - 1] = g[i - 1])
        BY <2>0, <3>1
      <4>2. g[i] = Step(g, i)
        <5> HIDE DEF h, T, Step
        <5>1. i \in 0 .. n
          BY <2>0, <3>1
        <5> QED
          BY <2>1, <5>1, Zenon
      <4> QED
        BY <4>1, <4>2
    <3>2. CASE i = n + 1
      <4>1. h[i] = Step(g, i) /\ h[i - 1] = g[i - 1] /\ i # 0
        BY <2>0, <3>2
      <4> QED
        BY <4>1
    <3> QED
      BY <2>0, <3>1, <3>2
  <2>3. Upto(n + 1, h)
    <3> HIDE DEF T
    <3> QED
      BY <2>2
  <2> HIDE DEF h, Upto
  <2> QED
    BY <2>0, <2>3
<1>3. T = Nat
  <2> HIDE DEF T
  <2>1. T \subseteq Nat
    BY DEF T
  <2> QED
    BY <1>1, <1>2, <2>1, Climb
<1>4. N \in Nat
  OBVIOUS
<1>5. \E g : Upto(N, g)
  BY <1>3, <1>4
<1> DEFINE kept == CHOOSE g : Upto(N, g)
<1>6. Upto(N, kept)
  BY <1>5
<1>7. EraseLogin(list, users) = kept[N]
  BY DEF EraseLogin
<1> HIDE DEF kept
<1> DEFINE Fine(i) == /\ kept[i] \in Seq(Users)
                      /\ Distinct(kept[i])
                      /\ ToSet(kept[i]) = {list[j] : j \in 1 .. i} \ users
           U == {n \in Nat : n <= N => Fine(n)}
<1>7a. ASSUME NEW i \in 0 .. N PROVE kept[i] = Step(kept, i)
  <2> HIDE DEF Step, T, N, U
  <2> QED
    BY <1>6, <1>7a, Zenon
<1>8. 0 \in U
  <2>1. kept[0] = <<>>
    BY <1>4, <1>7a
  <2>2. Fine(0)
    BY <2>1 DEF Distinct, ToSet
  <2> HIDE DEF Fine
  <2> QED
    BY <2>2
<1>9. ASSUME NEW n \in U PROVE n + 1 \in U
  <2> SUFFICES ASSUME n + 1 <= N PROVE Fine(n + 1)
    OBVIOUS
  <2>1. n \in Nat /\ n <= N /\ n + 1 \in 1 .. N /\ Fine(n)
    BY <1>4
  <2>2. kept[n + 1] = IF list[n + 1] \in users THEN kept[n] ELSE Append(kept[n], list[n + 1])
    <3>1. n + 1 \in 0 .. N /\ n + 1 # 0 /\ (n + 1) - 1 = n
      BY <1>4, <2>1
    <3> QED
      BY <1>7a, <3>1
  <2>3. {list[j] : j \in 1 .. n + 1} = {list[j] : j \in 1 .. n} \cup {list[n + 1]}
    BY <2>1
  <2>4. list[n + 1] \in Users /\ list[n + 1] \notin {list[j] : j \in 1 .. n}
    BY <2>1 DEF Distinct
  <2> HIDE DEF U
  <2>5. CASE list[n + 1] \in users
    BY <2>1, <2>2, <2>3, <2>5
  <2>6. CASE list[n + 1] \notin users
    <3> DEFINE k == kept[n]   x == list[n + 1]
    <3>1. k \in Seq(Users) /\ Distinct(k) /\ x \in Users /\ x \notin ToSet(k)
      BY <2>1, <2>4
    <3>2. kept[n + 1] = Append(k, x)
      BY <2>2, <2>6
    <3> HIDE DEF k, x
    <3>3. /\ Append(k, x) \in Seq(Users) /\ Len(Append(k, x)) = Len(k) + 1
          /\ Append(k, x)[Len(k) + 1] = x
          /\ \A i \in 1 .. Len(k) : Append(k, x)[i] = k[i]
      BY <3>1
    <3>4. DOMAIN Append(k, x) = 1 .. Len(k) + 1 /\ DOMAIN k = 1 .. Len(k) /\ Len(k) \in Nat
      BY <3>1, <3>3
    <3>5. ToSet(Append(k, x)) = ToSet(k) \cup {x}
      BY <3>3, <3>4 DEF ToSet
    <3>6. Distinct(Append(k, x))
      BY <3>1, <3>3, <3>4 DEF Distinct, ToSet
    <3>7. ToSet(k) = {list[j] : j \in 1 .. n} \ users
      BY <2>1 DEF k
    <3>8. ToSet(k) \cup {x} = {list[j] : j \in 1 .. n + 1} \ users
      BY <3>7, <2>3, <2>6 DEF x
    <3> QED
      BY <3>2, <3>3, <3>5, <3>6, <3>8
  <2> QED
    BY <2>5, <2>6
<1>10. U = Nat
  <2> HIDE DEF U
  <2>1. U \subseteq Nat
    BY DEF U
  <2> QED
    BY <1>8, <1>9, <2>1, Climb
<1>11. Fine(N)
  <2> HIDE DEF Fine
  <2>1. N \in U
    BY <1>4, <1>10
  <2> QED
    BY <1>4, <2>1
<1>12. ToSet(list) = {list[j] : j \in 1 .. N}
  BY DEF ToSet
<1> QED
  BY <1>7, <1>11, <1>12

(* The fields of a state of the server.                                    *)
LEMMA Fields ==
  ASSUME NEW s \in ServerSet
  PROVE  /\ s.user \in [Users -> ClientSet] /\ s.record \in [Logins -> RecordSet]
         /\ s.groups \in [GroupNames -> SUBSET GroupFlags]
         /\ s.cache \in [Logins -> Passwords \cup {None}]
         /\ s.sessions \in [Logins -> Users \cup {None}] /\ s.session \in [Users -> SessionSet]
         /\ s.GroupList \in [GroupNames -> GroupSet]
         /\ s.ChannelList \in [Channels -> ChannelSet]
         /\ s.MonitorList \subseteq Users /\ s.NotifyList \subseteq Users
         /\ s.logins \in Seq(Users) /\ s.not_registered_track \in Int
         /\ s.AwaitingExit \subseteq Users /\ s.reducer \subseteq Users /\ s.commands \in Nat
BY DEF ServerSet

(* What the assumptions say of the constants.                              *)
LEMMA Distinction ==
  /\ None \notin Users /\ None \notin Logins /\ None \notin Passwords /\ None \notin Nat
  /\ Root \in Logins /\ "default" \in GroupNames
  /\ IsFiniteSet(Users) /\ Users \subseteq Nat
  /\ REG_OK # REG_LOGINUSER /\ REG_OK # REG_USER /\ REG_OK # {} /\ REG_LOGINUSER # {}
  /\ REG_LOGINUSER # REG_USER
  /\ "LOGIN" \in REG_OK /\ "LOGIN" \in REG_LOGINUSER /\ "LOGIN" \notin REG_USER
<1>1. Cardinality(Users) \in Nat
  BY AccountsAssumption, FS_CardinalityType
<1>2. Users \subseteq Nat
  BY <1>1, AccountsAssumption
<1>3. /\ "OK" \in REG_OK /\ "OK" \notin REG_LOGINUSER /\ "OK" \notin REG_USER
      /\ "LOGIN" \in REG_OK /\ "LOGIN" \in REG_LOGINUSER /\ "LOGIN" \notin REG_USER
  BY DEF REG_OK, REG_LOGINUSER, REG_USER
<1> QED
  BY <1>2, <1>3, AccountsAssumption

(* Who is logged in under a name are the registered clients of that name.  *)
LEMMA FindLoginIs ==
  ASSUME NEW s \in ServerSet, Placed(s), NEW login
  PROVE  FindLogin(s, login) = {u \in Users : Online(s, u) /\ s.user[u].login = login}
<1>1. ToSet(s.logins) \subseteq Users
  BY Fields DEF ToSet
<1> QED
  BY <1>1, Distinction DEF FindLogin, Placed, Online

LEMMA FirstLoginIn ==
  ASSUME NEW s \in ServerSet, NEW login
  PROVE  /\ FindLogin(s, login) = {} => FirstLogin(s, login) = None
         /\ FindLogin(s, login) # {} => FirstLogin(s, login) \in FindLogin(s, login)
<1> DEFINE found == {i \in DOMAIN s.logins : s.logins[i] \in FindLogin(s, login)}
<1>1. FirstLogin(s, login) = IF found = {} THEN None ELSE s.logins[Min(found)]
  BY DEF FirstLogin
<1>2. FindLogin(s, login) # {} => found # {}
  BY DEF FindLogin, ToSet
<1>3. found \subseteq Nat
  BY Fields
<1>4. found # {} => Min(found) \in found
  <2> HIDE DEF found
  <2> QED
    BY <1>3, MinIn
<1> QED
  BY <1>1, <1>2, <1>4

LEMMA CountLoginIs ==
  ASSUME NEW s \in ServerSet, NEW login
  PROVE  CountLogin(s, login) = 0 <=> FindLogin(s, login) = {}
<1>1. FindLogin(s, login) \subseteq Users
  BY Fields DEF FindLogin, ToSet
<1>2. IsFiniteSet(FindLogin(s, login))
  BY <1>1, Distinction, FS_Subset
<1> QED
  BY <1>2, FS_EmptySet DEF CountLogin

LEMMA OnlineIn ==
  ASSUME NEW s \in ServerSet, Placed(s), NEW u \in Users, "LOGIN" \in s.user[u].registered
  PROVE  s.user[u].login \in Logins
<1>1. s.user[u].login \in Logins \cup {None}
  BY Fields DEF ClientSet
<1> QED
  BY <1>1 DEF Placed

-----------------------------------------------------------------------------
(* What a step leaves alone, and what that keeps of the invariant          *)

SamePlaces(s, t) ==
    /\ \A u \in Users :
         /\ t.user[u].object = s.user[u].object /\ t.user[u].quitting = s.user[u].quitting
         /\ t.user[u].registered = s.user[u].registered /\ t.user[u].logged = s.user[u].logged
         /\ t.user[u].login = s.user[u].login
         /\ s.user[u].object = "none" => t.user[u] = s.user[u]
    /\ t.logins = s.logins /\ t.reducer = s.reducer /\ t.AwaitingExit = s.AwaitingExit
    /\ t.not_registered_track = s.not_registered_track

Listeners(s, t) ==
    \A u \in t.MonitorList \cup t.NotifyList : u \in s.MonitorList \cup s.NotifyList \/ Online(s, u)

SameSessions(s, t) ==
    /\ \A u \in Users : t.user[u].session = s.user[u].session
    /\ \A l \in Logins : t.record[l].flags = s.record[l].flags
    /\ t.sessions = s.sessions /\ t.session = s.session

SameDates(s, t) ==
    /\ \A u \in Users : t.user[u].account = s.user[u].account
    /\ \A l \in Logins : t.record[l].created = s.record[l].created

SameAccounts(s, t) ==
    /\ \A l \in Logins :
         /\ t.record[l].status = s.record[l].status /\ t.record[l].pass = s.record[l].pass
         /\ t.record[l].groups \subseteq s.record[l].groups
    /\ t.cache = s.cache

SameGroups(s, t) ==
    /\ \A u \in Users : t.user[u].Groups = s.user[u].Groups
    /\ \A l \in Logins : t.record[l].groups = s.record[l].groups
    /\ t.GroupList = s.GroupList

SameChannels(s, t) ==
    /\ \A u \in Users : t.user[u].chans = s.user[u].chans
    /\ t.ChannelList = s.ChannelList

LEMMA PlacedKept ==
  ASSUME NEW s, NEW t, Placed(s), SamePlaces(s, t), Listeners(s, t)
  PROVE  Placed(t)
<1>1. Unregistered(t) = Unregistered(s)
  BY DEF SamePlaces, Unregistered, Present
<1>2. ASSUME NEW u \in Users
      PROVE  u \in t.MonitorList \cup t.NotifyList =>
               t.user[u].object = "here" /\ t.user[u].registered = REG_OK
  BY DEF SamePlaces, Listeners, Placed, Online, Present
<1> QED
  BY <1>1, <1>2 DEF SamePlaces, Placed, Present

LEMMA AttachedKept ==
  ASSUME NEW s \in ServerSet, NEW t, Attached(s), SamePlaces(s, t), SameSessions(s, t), SameDates(s, t)
  PROVE  Attached(t)
<1>1. \A u \in Users : Online(t, u) <=> Online(s, u)
  BY DEF SamePlaces, Online, Present
<1>2. Exists(t, Root) /\ "r" \in t.record[Root].flags
  BY Distinction DEF Attached, SameSessions, SameDates, Exists
<1>3. \A l \in Logins : s.sessions[l] \in Users \cup {None}
  BY Fields
<1>4. \A u \in Users : t.user[u].login = s.user[u].login /\ t.user[u].session = s.user[u].session
                        /\ t.user[u].registered = s.user[u].registered
                        /\ t.user[u].object = s.user[u].object
  BY DEF SamePlaces, SameSessions
<1>5. t.sessions = s.sessions /\ t.session = s.session
  BY DEF SameSessions
<1> QED
  BY <1>1, <1>2, <1>3, <1>4, <1>5 DEF Attached

LEMMA CachedKept ==
  ASSUME NEW s, NEW t, Cached(s), SameDates(s, t), SameAccounts(s, t)
  PROVE  Cached(t)
BY DEF Cached, SameDates, SameAccounts, Exists

LEMMA GroupedKept ==
  ASSUME NEW s, NEW t, Grouped(s), SameGroups(s, t)
  PROVE  Grouped(t)
BY DEF Grouped, SameGroups

LEMMA DatedKept ==
  ASSUME NEW s \in ServerSet, NEW t, NEW now, Dated(s, now), SamePlaces(s, t), SameDates(s, t)
  PROVE  Dated(t, now)
<1>1. \A l \in Logins : Exists(t, l) <=> Exists(s, l)
  BY DEF SameDates, Exists
<1>2. ASSUME NEW u \in Users
      PROVE  /\ t.user[u].account = s.user[u].account /\ t.user[u].login = s.user[u].login
             /\ t.user[u].logged = s.user[u].logged
             /\ s.user[u].login \in Logins \cup {None}
  BY Fields DEF SameDates, SamePlaces, ClientSet
<1>3. \A l \in Logins : t.record[l].created = s.record[l].created
  BY DEF SameDates
<1> QED
  BY <1>1, <1>2, <1>3 DEF Dated

LEMMA DatedLater ==
  ASSUME NEW s \in ServerSet, NEW now \in Nat, Dated(s, now)
  PROVE  Dated(s, now + 1)
<1>1. \A l \in Logins : s.record[l].created \in Nat \cup {None}
  BY Fields DEF RecordSet
<1>2. \A u \in Users : s.user[u].account \in Nat \cup {None}
  BY Fields DEF ClientSet
<1> QED
  BY <1>1, <1>2 DEF Dated, Exists

LEMMA PairedKept ==
  ASSUME NEW s, NEW t, Paired(s), SamePlaces(s, t), SameChannels(s, t)
  PROVE  Paired(t)
BY DEF Paired, SamePlaces, SameChannels, Online, Present, Subscribed

LEMMA MatchingKept ==
  ASSUME NEW s \in ServerSet, NEW t, Placed(s), Matching(s), SamePlaces(s, t), SameDates(s, t),
         SameGroups(s, t)
  PROVE  Matching(t)
<1> SUFFICES ASSUME NEW u \in Users, Online(t, u),
                    t.user[u].account = t.record[t.user[u].login].created
             PROVE  t.user[u].Groups = t.record[t.user[u].login].groups
                                         \cap {g \in GroupNames : t.GroupList[g].listed}
  BY DEF Matching
<1>1. Online(s, u) /\ t.user[u].login = s.user[u].login
  BY DEF SamePlaces, Online, Present
<1>2. s.user[u].login \in Logins
  BY <1>1, OnlineIn, Distinction DEF Online
<1>3. s.user[u].account = s.record[s.user[u].login].created
  BY <1>1, <1>2 DEF SameDates
<1>4. s.user[u].Groups = s.record[s.user[u].login].groups
                           \cap {g \in GroupNames : s.GroupList[g].listed}
  BY <1>1, <1>3 DEF Matching
<1> QED
  BY <1>1, <1>2, <1>4 DEF SameGroups

(* A step that moves nobody and makes no account keeps the invariant if it *)
(* keeps the parts that it has to do with.                                 *)
LEMMA GoodKept ==
  ASSUME NEW s, NEW t \in ServerSet, NEW now, Good(s, now),
         SamePlaces(s, t), Listeners(s, t), SameDates(s, t),
         SameSessions(s, t) \/ Attached(t),
         SameAccounts(s, t) \/ Cached(t),
         SameGroups(s, t) \/ (Grouped(t) /\ (~DefaultReturns => Matching(t) /\ DefaultKept(t))),
         SameChannels(s, t) \/ Paired(t)
  PROVE  Good(t, now)
<1>0. /\ s \in ServerSet /\ Placed(s) /\ Attached(s) /\ Cached(s) /\ Grouped(s) /\ Dated(s, now)
      /\ Paired(s) /\ (~DefaultReturns => Matching(s) /\ DefaultKept(s))
  BY DEF Good
<1>1. Placed(t) /\ Attached(t) /\ Cached(t) /\ Dated(t, now) /\ Paired(t)
  BY <1>0, PlacedKept, AttachedKept, CachedKept, DatedKept, PairedKept
<1>2. CASE SameGroups(s, t)
  <2>1. Grouped(t)
    BY <1>0, <1>2, GroupedKept
  <2>2. Matching(s) => Matching(t)
    BY <1>0, <1>2, MatchingKept
  <2>3. DefaultKept(s) => DefaultKept(t)
    BY <1>2 DEF DefaultKept, SameGroups
  <2> QED
    BY <1>0, <1>1, <2>1, <2>2, <2>3 DEF Good
<1>3. CASE Grouped(t) /\ (~DefaultReturns => Matching(t) /\ DefaultKept(t))
  BY <1>1, <1>3 DEF Good
<1> QED
  BY <1>2, <1>3

-----------------------------------------------------------------------------
(* Commands on accounts                                                    *)

(* A state with other records, another cache and other lists.              *)
Recorded(s, t, R, C, M, N) ==
    t = [s EXCEPT !.record = R, !.cache = C, !.MonitorList = M, !.NotifyList = N]

LEMMA WithRecord ==
  ASSUME NEW s \in ServerSet, NEW R \in [Logins -> RecordSet],
         NEW C \in [Logins -> Passwords \cup {None}], NEW M, M \subseteq Users, NEW N, N \subseteq Users,
         NEW t, Recorded(s, t, R, C, M, N)
  PROVE  /\ t \in ServerSet /\ t.record = R /\ t.cache = C /\ t.commands = s.commands
         /\ t.MonitorList = M /\ t.NotifyList = N
         /\ SamePlaces(s, t) /\ SameChannels(s, t)
         /\ t.user = s.user /\ t.sessions = s.sessions /\ t.session = s.session
         /\ t.GroupList = s.GroupList
<1>1. /\ t \in ServerSet /\ t.record = R /\ t.cache = C /\ t.commands = s.commands
      /\ t.MonitorList = M /\ t.NotifyList = N
      /\ t.user = s.user /\ t.sessions = s.sessions /\ t.session = s.session
      /\ t.GroupList = s.GroupList /\ t.ChannelList = s.ChannelList
      /\ t.logins = s.logins /\ t.reducer = s.reducer /\ t.AwaitingExit = s.AwaitingExit
      /\ t.not_registered_track = s.not_registered_track
  BY DEF ServerSet, Recorded
<1> QED
  BY <1>1 DEF SamePlaces, SameChannels

LEMMA ChangePassGood ==
  ASSUME NEW s, NEW now, Good(s, now), NEW login \in Logins, NEW pass \in Passwords
  PROVE  Good(ChangePass(s, login, pass), now)
<1> DEFINE t == ChangePass(s, login, pass)
           C == [s.cache EXCEPT ![login] = None]
           r == [s.record[login] EXCEPT !.pass = pass]
           R == [s.record EXCEPT ![login] = r]
<1>0. s \in ServerSet /\ Cached(s)
  BY DEF Good
<1>1. s.record[login] \in RecordSet
  BY <1>0, Fields
<1>2. r \in RecordSet /\ r.created = s.record[login].created /\ r.flags = s.record[login].flags
      /\ r.status = s.record[login].status /\ r.groups = s.record[login].groups
  BY <1>1 DEF RecordSet
<1>3. R \in [Logins -> RecordSet] /\ C \in [Logins -> Passwords \cup {None}]
  BY <1>0, <1>2, Fields
<1>4. Recorded(s, t, R, C, s.MonitorList, s.NotifyList)
  BY <1>0 DEF ServerSet, ChangePass, Recorded
<1>5. R[login] = r /\ (\A l \in Logins \ {login} : R[l] = s.record[l])
  BY <1>0, Fields
<1>6. C[login] = None /\ (\A l \in Logins \ {login} : C[l] = s.cache[l])
  BY <1>0, Fields
<1> HIDE DEF t, R, C, r
<1>7. /\ t \in ServerSet /\ t.record = R /\ t.cache = C
      /\ t.MonitorList = s.MonitorList /\ t.NotifyList = s.NotifyList
      /\ SamePlaces(s, t) /\ SameChannels(s, t)
      /\ t.user = s.user /\ t.sessions = s.sessions /\ t.session = s.session
      /\ t.GroupList = s.GroupList
  <2>1. s.MonitorList \subseteq Users /\ s.NotifyList \subseteq Users
    BY <1>0, Fields
  <2> QED
    BY <1>0, <1>3, <1>4, <2>1, WithRecord
<1>8. SameDates(s, t) /\ SameSessions(s, t) /\ SameGroups(s, t) /\ Listeners(s, t)
  BY <1>2, <1>5, <1>7 DEF SameDates, SameSessions, SameGroups, Listeners
<1>9. Cached(t)
  BY <1>0, <1>2, <1>5, <1>6, <1>7 DEF Cached, Exists
<1> QED
  BY <1>7, <1>8, <1>9, GoodKept DEF t

(* Such a state keeps the invariant if no account is made, its flags and   *)
(* groups stay and what is cached is right.                                *)
LEMMA RecordGood ==
  ASSUME NEW s, NEW now, Good(s, now), NEW R \in [Logins -> RecordSet],
         NEW C \in [Logins -> Passwords \cup {None}], NEW M, M \subseteq Users, NEW N, N \subseteq Users,
         NEW t, Recorded(s, t, R, C, M, N),
         \A l \in Logins : /\ R[l].created = s.record[l].created
                           /\ R[l].flags = s.record[l].flags /\ R[l].groups = s.record[l].groups,
         \A u \in M \cup N : u \in s.MonitorList \cup s.NotifyList \/ Online(s, u),
         \/ Cached(t)
         \/ /\ C = s.cache
            /\ \A l \in Logins : R[l].status = s.record[l].status /\ R[l].pass = s.record[l].pass
  PROVE  Good(t, now)
<1>0. s \in ServerSet
  BY DEF Good
<1>1. /\ t \in ServerSet /\ t.record = R /\ t.cache = C
      /\ t.MonitorList = M /\ t.NotifyList = N
      /\ SamePlaces(s, t) /\ SameChannels(s, t)
      /\ t.user = s.user /\ t.sessions = s.sessions /\ t.session = s.session
      /\ t.GroupList = s.GroupList
  BY <1>0, WithRecord
<1>2. SameDates(s, t) /\ SameSessions(s, t) /\ SameGroups(s, t) /\ Listeners(s, t)
  BY <1>1 DEF SameDates, SameSessions, SameGroups, Listeners
<1>3. SameAccounts(s, t) \/ Cached(t)
  BY <1>1 DEF SameAccounts
<1> QED
  BY <1>1, <1>2, <1>3, GoodKept

LEMMA ResetLoginsGood ==
  ASSUME NEW s, NEW now, Good(s, now)
  PROVE  Good(ResetLogins(s), now)
<1> DEFINE t == ResetLogins(s)
           C == [l \in Logins |-> None]
<1>0. s \in ServerSet /\ Cached(s) /\ s.MonitorList \subseteq Users /\ s.NotifyList \subseteq Users
      /\ s.record \in [Logins -> RecordSet]
  BY Fields DEF Good
<1>1. Recorded(s, t, s.record, C, s.MonitorList, s.NotifyList)
  BY <1>0 DEF ServerSet, ResetLogins, Recorded
<1>2. C \in [Logins -> Passwords \cup {None}] /\ \A l \in Logins : C[l] = None
  OBVIOUS
<1> HIDE DEF t, C
<1>3. t.record = s.record /\ t.cache = C
  BY <1>0, <1>1, <1>2, WithRecord
<1>4. Cached(t)
  BY <1>0, <1>2, <1>3 DEF Cached, Exists
<1> QED
  BY <1>0, <1>1, <1>2, <1>4, RecordGood DEF t

(* SETSTATUS writes the status and, when it is FALSE, empties the cache.   *)
StatusWritten(s, t, login, status) ==
    t = IF status THEN [s EXCEPT !.record[login].status = status]
        ELSE [[s EXCEPT !.cache[login] = None] EXCEPT !.record[login].status = status]

LEMMA StatusGood ==
  ASSUME NEW s, NEW now, Good(s, now), NEW login \in Logins, NEW status \in BOOLEAN, Exists(s, login),
         NEW t, StatusWritten(s, t, login, status)
  PROVE  Good(t, now)
<1> DEFINE C == IF status THEN s.cache ELSE [s.cache EXCEPT ![login] = None]
           r == [s.record[login] EXCEPT !.status = status]
           R == [s.record EXCEPT ![login] = r]
<1>0. s \in ServerSet /\ Cached(s) /\ s.MonitorList \subseteq Users /\ s.NotifyList \subseteq Users
      /\ s.record \in [Logins -> RecordSet] /\ s.cache \in [Logins -> Passwords \cup {None}]
  BY Fields DEF Good
<1>1. s.record[login] \in RecordSet
  BY <1>0
<1>2. r \in RecordSet /\ r.created = s.record[login].created /\ r.flags = s.record[login].flags
      /\ r.status = status /\ r.groups = s.record[login].groups /\ r.pass = s.record[login].pass
  BY <1>1 DEF RecordSet
<1>3. R \in [Logins -> RecordSet] /\ C \in [Logins -> Passwords \cup {None}]
  BY <1>0, <1>2
<1>4. Recorded(s, t, R, C, s.MonitorList, s.NotifyList)
  <2>1. CASE status
    BY <1>0, <2>1 DEF ServerSet, Recorded, StatusWritten
  <2>2. CASE ~status
    BY <1>0, <2>2 DEF ServerSet, Recorded, StatusWritten
  <2> QED
    BY <2>1, <2>2
<1>5. R[login] = r /\ (\A l \in Logins \ {login} : R[l] = s.record[l])
  BY <1>0
<1>6. (~status => C[login] = None) /\ (\A l \in Logins : C[l] = None \/ C[l] = s.cache[l])
  BY <1>0
<1> HIDE DEF R, C, r
<1>7. t.record = R /\ t.cache = C
  BY <1>0, <1>3, <1>4, WithRecord
<1>8. Cached(t)
  BY <1>0, <1>2, <1>5, <1>6, <1>7 DEF Cached, Exists
<1>9. \A l \in Logins : /\ R[l].created = s.record[l].created
                        /\ R[l].flags = s.record[l].flags /\ R[l].groups = s.record[l].groups
  BY <1>2, <1>5
<1> QED
  BY <1>0, <1>3, <1>4, <1>8, <1>9, RecordGood

(* An account is made now: nobody has the groups of it yet.                *)
LEMMA ADDUSERGood ==
  ASSUME NEW s, Good(s, s.commands), NEW login \in Logins, NEW pass \in Passwords, login # Root
  PROVE  Good(ADDUSER(s, login, pass), s.commands + 1)
<1> DEFINE t == AddLogin(s, login, pass)
           r == [s.record[login] EXCEPT !.created = s.commands, !.pass = pass, !.status = TRUE,
                                        !.groups = @ \cup {"default"}]
           R == [s.record EXCEPT ![login] = r]
<1>0. s \in ServerSet /\ s.MonitorList \subseteq Users /\ s.NotifyList \subseteq Users
      /\ s.record \in [Logins -> RecordSet] /\ s.cache \in [Logins -> Passwords \cup {None}]
      /\ s.commands \in Nat
      /\ Placed(s) /\ Attached(s) /\ Cached(s) /\ Grouped(s) /\ Dated(s, s.commands)
      /\ Paired(s) /\ (~DefaultReturns => Matching(s) /\ DefaultKept(s))
  BY Fields DEF Good
<1>1. CASE Exists(s, login)
  BY <1>0, <1>1, DatedLater DEF ADDUSER, Good
<1>2. CASE ~Exists(s, login)
  <2>1. s.record[login] \in RecordSet
    BY <1>0
  <2>2. r \in RecordSet /\ r.created = s.commands /\ r.flags = s.record[login].flags
        /\ r.groups = s.record[login].groups \cup {"default"}
    BY <1>0, <2>1, Distinction DEF RecordSet
  <2>3. R \in [Logins -> RecordSet]
    BY <1>0, <2>2
  <2>4. Recorded(s, t, R, s.cache, s.MonitorList, s.NotifyList)
    <3>1. t = [s EXCEPT !.record[login] = r]
      BY DEF AddLogin
    <3> HIDE DEF r, t
    <3> QED
      BY <1>0, <3>1 DEF ServerSet, Recorded, R
  <2>5. R[login] = r /\ (\A l \in Logins \ {login} : R[l] = s.record[l])
    BY <1>0
  <2> HIDE DEF t, R, r
  <2>6. /\ t \in ServerSet /\ t.record = R /\ t.cache = s.cache
        /\ t.MonitorList = s.MonitorList /\ t.NotifyList = s.NotifyList
        /\ SamePlaces(s, t) /\ SameChannels(s, t)
        /\ t.user = s.user /\ t.sessions = s.sessions /\ t.session = s.session
        /\ t.GroupList = s.GroupList
    BY <1>0, <2>3, <2>4, WithRecord
  <2>7. Placed(t) /\ Paired(t)
    BY <1>0, <2>6, PlacedKept, PairedKept DEF Listeners
  <2>8. Attached(t)
    <3>1. \A u \in Users : Online(t, u) <=> Online(s, u)
      BY <2>6 DEF Online, Present
    <3>2. Exists(t, Root) /\ "r" \in t.record[Root].flags
      BY <1>0, <2>2, <2>5, <2>6, Distinction DEF Attached, Exists
    <3> QED
      BY <1>0, <2>6, <3>1, <3>2 DEF Attached
  <2>9. Exists(t, login) /\ \A l \in Logins : Exists(s, l) => Exists(t, l)
    BY <1>0, <2>2, <2>5, <2>6, Distinction DEF Exists
  <2>10. s.cache[login] = None
    BY <1>0, <1>2 DEF Cached
  <2>11. Cached(t)
    BY <1>0, <2>5, <2>6, <2>9, <2>10 DEF Cached, Exists
  <2>12. Grouped(t)
    BY <1>0, <2>2, <2>5, <2>6 DEF Grouped
  <2>13. Dated(t, s.commands + 1)
    <3>1. \A l \in Logins : Exists(t, l) => t.record[l].created <= s.commands + 1
      <4> SUFFICES ASSUME NEW l \in Logins, Exists(t, l)
                   PROVE  t.record[l].created <= s.commands + 1
        OBVIOUS
      <4>1. CASE l = login
        BY <1>0, <4>1, <2>2, <2>5, <2>6
      <4>2. CASE l # login
        <5>1. t.record[l].created = s.record[l].created /\ Exists(s, l)
          BY <4>2, <2>5, <2>6 DEF Exists
        <5>2. s.record[l].created <= s.commands /\ s.record[l].created \in Nat
          BY <1>0, <5>1 DEF Dated, RecordSet, Exists
        <5> QED
          BY <1>0, <5>1, <5>2
      <4> QED
        BY <4>1, <4>2
    <3>2. \A u \in Users : s.user[u].account # None =>
             s.user[u].account \in Nat /\ s.user[u].account <= s.commands
      BY <1>0, Fields DEF Dated, ClientSet
    <3> QED
      BY <1>0, <2>6, <3>1, <3>2 DEF Dated
  <2>14. Matching(s) => Matching(t)
    <3> SUFFICES ASSUME Matching(s), NEW u \in Users, Online(t, u),
                        t.user[u].account = t.record[t.user[u].login].created
                 PROVE  t.user[u].Groups = t.record[t.user[u].login].groups
                                             \cap {g \in GroupNames : t.GroupList[g].listed}
      BY DEF Matching
    <3>1. Online(s, u)
      BY <2>6 DEF Online, Present
    <3>2. s.user[u].login \in Logins
      BY <1>0, <3>1, OnlineIn, Distinction DEF Online
    <3>3. s.user[u].login # login
      <4>1. s.user[u].login = login => s.user[u].account = s.commands
        BY <2>2, <2>5, <2>6
      <4>2. s.user[u].login = login /\ s.user[u].account # None => s.user[u].account < s.commands
        BY <1>0, <1>2, Distinction DEF Dated
      <4> QED
        BY <1>0, <4>1, <4>2, Distinction
    <3> QED
      BY <2>5, <2>6, <3>1, <3>2, <3>3 DEF Matching
  <2>15. DefaultKept(s) => DefaultKept(t)
    BY <2>6 DEF DefaultKept
  <2> QED
    BY <1>0, <1>2, <2>6, <2>7, <2>8, <2>11, <2>12, <2>13, <2>14, <2>15 DEF Good, ADDUSER, t
<1> QED
  BY <1>1, <1>2


-----------------------------------------------------------------------------
(* Commands of the Monitor and the Notifier                                *)

(* They write the two lists and what the records say of the Notifier.      *)
LEMMA NotifyGood ==
  ASSUME NEW s, NEW now, Good(s, now), NEW M, M \subseteq Users, NEW N, N \subseteq Users,
         NEW R, R = [l \in Logins |-> R[l]],
         \A l \in Logins : R[l] = s.record[l] \/ \E b \in BOOLEAN : R[l] = [s.record[l] EXCEPT !.notify = b],
         \A u \in M \cup N : u \in s.MonitorList \cup s.NotifyList \/ Online(s, u),
         NEW t, Recorded(s, t, R, s.cache, M, N)
  PROVE  Good(t, now)
<1>0. s.record \in [Logins -> RecordSet] /\ s.cache \in [Logins -> Passwords \cup {None}]
  BY Fields DEF Good
<1>1. ASSUME NEW l \in Logins
      PROVE  /\ R[l] \in RecordSet
             /\ R[l].created = s.record[l].created /\ R[l].flags = s.record[l].flags
             /\ R[l].groups = s.record[l].groups /\ R[l].status = s.record[l].status
             /\ R[l].pass = s.record[l].pass
  <2>1. s.record[l] \in RecordSet
    BY <1>0
  <2>2. CASE R[l] = s.record[l]
    BY <2>1, <2>2
  <2>3. ASSUME NEW b \in BOOLEAN, R[l] = [s.record[l] EXCEPT !.notify = b]
        PROVE  /\ R[l] \in RecordSet
               /\ R[l].created = s.record[l].created /\ R[l].flags = s.record[l].flags
               /\ R[l].groups = s.record[l].groups /\ R[l].status = s.record[l].status
               /\ R[l].pass = s.record[l].pass
    BY <2>1, <2>3 DEF RecordSet
  <2> QED
    BY <2>2, <2>3
<1>2. R \in [Logins -> RecordSet]
  BY <1>1
<1> QED
  BY <1>0, <1>1, <1>2, RecordGood

LEMMA MonitorGood ==
  ASSUME NEW s, NEW now, Good(s, now), NEW u \in Users, Online(s, u), NEW level
  PROVE  /\ Good(MONITOR(s, u, level), now) /\ Good(STOPMONITOR(s, u), now) /\ Good(MRESET(s), now)
<1>0. /\ s \in ServerSet /\ s.MonitorList \subseteq Users /\ s.NotifyList \subseteq Users
      /\ s.record = [l \in Logins |-> s.record[l]]
  BY Fields DEF Good
<1>1. ASSUME NEW M \in SUBSET (s.MonitorList \cup {u}), NEW t, t = [s EXCEPT !.MonitorList = M]
      PROVE  Good(t, now)
  <2>1. Recorded(s, t, s.record, s.cache, M, s.NotifyList)
    BY <1>0, <1>1 DEF ServerSet, Recorded
  <2> QED
    BY <1>0, <1>1, <2>1, NotifyGood
<1>2. /\ s.MonitorList \ {u} \in SUBSET (s.MonitorList \cup {u})
      /\ s.MonitorList \cup {u} \in SUBSET (s.MonitorList \cup {u})
      /\ {} \in SUBSET (s.MonitorList \cup {u})
  OBVIOUS
<1> QED
  BY <1>1, <1>2 DEF MONITOR, STOPMONITOR, MRESET

(* NOTIFY, and what OnPostConnect does of it.                              *)
LEMMA ListenerGood ==
  ASSUME NEW s, NEW now, Good(s, now), NEW u \in Users, Online(s, u)
  PROVE  /\ Good(AddListener(s, u), now) /\ Good(LoadNotify(s, u), now)
<1>0. /\ s \in ServerSet /\ s.MonitorList \subseteq Users /\ s.NotifyList \subseteq Users
      /\ s.record = [l \in Logins |-> s.record[l]]
  BY Fields DEF Good
<1> DEFINE t == [s EXCEPT !.NotifyList = @ \cup {u}]
<1>1. Recorded(s, t, s.record, s.cache, s.MonitorList, s.NotifyList \cup {u})
  BY <1>0 DEF ServerSet, Recorded
<1> HIDE DEF t
<1>2. Good(t, now)
  BY <1>0, <1>1, NotifyGood
<1> QED
  BY <1>2 DEF AddListener, LoadNotify, t

LEMMA NOTIFYGood ==
  ASSUME NEW s, NEW now, Good(s, now), NEW u \in Users, Online(s, u), NEW level
  PROVE  /\ Good(NOTIFY(s, u, level), now) /\ Good(STOPNOTIFY(s, u), now) /\ Good(NRESET(s), now)
<1> DEFINE login == s.user[u].login
<1>0. /\ s \in ServerSet /\ Placed(s) /\ s.MonitorList \subseteq Users /\ s.NotifyList \subseteq Users
      /\ s.record \in [Logins -> RecordSet] /\ s.cache \in [Logins -> Passwords \cup {None}]
  BY Fields DEF Good
<1>1. login \in Logins
  BY <1>0, OnlineIn, Distinction DEF Online
<1> HIDE DEF login
<1>2. ASSUME NEW b \in BOOLEAN, NEW N \in SUBSET (s.NotifyList \cup {u}),
             NEW t, t = [s EXCEPT !.NotifyList = N, !.record[login].notify = b]
      PROVE  Good(t, now)
  <2> DEFINE R == [s.record EXCEPT ![login] = [s.record[login] EXCEPT !.notify = b]]
  <2>1. /\ R = [l \in Logins |-> R[l]]
        /\ \A l \in Logins : R[l] = s.record[l] \/ R[l] = [s.record[l] EXCEPT !.notify = b]
    BY <1>0, <1>1
  <2>2. Recorded(s, t, R, s.cache, s.MonitorList, N)
    BY <1>0, <1>1, <1>2 DEF ServerSet, Recorded
  <2> HIDE DEF R
  <2> QED
    BY <1>0, <1>2, <2>1, <2>2, NotifyGood
<1>3. Good(STOPNOTIFY(s, u), now)
  <2>1. [s EXCEPT !.NotifyList = @ \ {u}, !.record[login].notify = FALSE]
          = [s EXCEPT !.NotifyList = s.NotifyList \ {u}, !.record[login].notify = FALSE]
    OBVIOUS
  <2> QED
    BY <1>2, <2>1 DEF STOPNOTIFY, login
<1>4. Good(NOTIFY(s, u, level), now)
  <2> DEFINE a == [s EXCEPT !.record[login].notify = TRUE]
  <2>1. a = [s EXCEPT !.NotifyList = s.NotifyList, !.record[login].notify = TRUE]
    BY <1>0 DEF ServerSet
  <2>2. a.user = s.user
    BY <1>0 DEF ServerSet
  <2> HIDE DEF a
  <2>3. Good(a, now)
    BY <1>2, <2>1
  <2>4. Good(AddListener(a, u), now)
    BY <2>2, <2>3, ListenerGood DEF Online, Present
  <2>5. Good([s EXCEPT !.NotifyList = @ \ {u}], now)
    <3> DEFINE t == [s EXCEPT !.NotifyList = @ \ {u}]
    <3>1. Recorded(s, t, s.record, s.cache, s.MonitorList, s.NotifyList \ {u})
      BY <1>0 DEF ServerSet, Recorded
    <3>2. s.record = [l \in Logins |-> s.record[l]]
      BY <1>0
    <3> HIDE DEF t
    <3>3. Good(t, now)
      BY <1>0, <3>1, <3>2, NotifyGood
    <3> QED
      BY <3>3 DEF t
  <2> QED
    BY <2>4, <2>5 DEF NOTIFY, a, login
<1>5. Good(NRESET(s), now)
  <2> DEFINE R == [l \in Logins |-> [s.record[l] EXCEPT !.notify = FALSE]]
             t == NRESET(s)
  <2>1. R = [l \in Logins |-> R[l]] /\ \A l \in Logins : R[l] = [s.record[l] EXCEPT !.notify = FALSE]
    OBVIOUS
  <2>2. Recorded(s, t, R, s.cache, s.MonitorList, {})
    BY <1>0 DEF ServerSet, Recorded, NRESET
  <2> HIDE DEF R, t
  <2>3. Good(t, now)
    BY <1>0, <2>1, <2>2, NotifyGood
  <2> QED
    BY <2>3 DEF t
<1> QED
  BY <1>3, <1>4, <1>5

-----------------------------------------------------------------------------
(* Commands on groups                                                      *)

(* A state with other records, clients and groups.                         *)
Regrouped(s, t, R, U, GL, G) ==
    t = [s EXCEPT !.record = R, !.user = U, !.GroupList = GL, !.groups = G]

(* It keeps the invariant if records and clients differ in their groups    *)
(* only and what the invariant says of groups holds.                       *)
LEMMA GroupsGood ==
  ASSUME NEW s, NEW now, Good(s, now),
         NEW R, R = [l \in Logins |-> R[l]],
         \A l \in Logins : \/ R[l] = s.record[l]
                           \/ \E gs \in SUBSET GroupNames :
                                /\ R[l] = [s.record[l] EXCEPT !.groups = gs]
                                /\ ~Exists(s, l) => gs \subseteq s.record[l].groups,
         NEW U, U = [u \in Users |-> U[u]],
         \A u \in Users : \/ U[u] = s.user[u]
                          \/ /\ s.user[u].object # "none"
                             /\ \E gs \in SUBSET GroupNames : U[u] = [s.user[u] EXCEPT !.Groups = gs],
         NEW GL \in [GroupNames -> GroupSet], NEW G \in [GroupNames -> SUBSET GroupFlags],
         NEW t, Regrouped(s, t, R, U, GL, G),
         Grouped(t), ~DefaultReturns => Matching(t) /\ DefaultKept(t)
  PROVE  Good(t, now)
<1>0. s \in ServerSet /\ Cached(s) /\ s.record \in [Logins -> RecordSet] /\ s.user \in [Users -> ClientSet]
  BY Fields DEF Good
<1>1. ASSUME NEW l \in Logins
      PROVE  /\ R[l] \in RecordSet
             /\ R[l].created = s.record[l].created /\ R[l].flags = s.record[l].flags
             /\ R[l].status = s.record[l].status /\ R[l].pass = s.record[l].pass
             /\ ~Exists(s, l) => R[l].groups \subseteq s.record[l].groups
  <2>1. s.record[l] \in RecordSet
    BY <1>0
  <2>2. CASE R[l] = s.record[l]
    BY <2>1, <2>2
  <2>3. ASSUME NEW gs \in SUBSET GroupNames, R[l] = [s.record[l] EXCEPT !.groups = gs],
               ~Exists(s, l) => gs \subseteq s.record[l].groups
        PROVE  /\ R[l] \in RecordSet
               /\ R[l].created = s.record[l].created /\ R[l].flags = s.record[l].flags
               /\ R[l].status = s.record[l].status /\ R[l].pass = s.record[l].pass
               /\ ~Exists(s, l) => R[l].groups \subseteq s.record[l].groups
    BY <2>1, <2>3 DEF RecordSet
  <2> QED
    BY <2>2, <2>3
<1>2. ASSUME NEW u \in Users
      PROVE  /\ U[u] \in ClientSet
             /\ U[u].object = s.user[u].object /\ U[u].quitting = s.user[u].quitting
             /\ U[u].registered = s.user[u].registered /\ U[u].logged = s.user[u].logged
             /\ U[u].login = s.user[u].login /\ U[u].session = s.user[u].session
             /\ U[u].chans = s.user[u].chans /\ U[u].account = s.user[u].account
             /\ s.user[u].object = "none" => U[u] = s.user[u]
  <2>1. s.user[u] \in ClientSet
    BY <1>0
  <2>2. CASE U[u] = s.user[u]
    BY <2>1, <2>2
  <2>3. ASSUME NEW gs \in SUBSET GroupNames, U[u] = [s.user[u] EXCEPT !.Groups = gs],
               s.user[u].object # "none"
        PROVE  /\ U[u] \in ClientSet
               /\ U[u].object = s.user[u].object /\ U[u].quitting = s.user[u].quitting
               /\ U[u].registered = s.user[u].registered /\ U[u].logged = s.user[u].logged
               /\ U[u].login = s.user[u].login /\ U[u].session = s.user[u].session
               /\ U[u].chans = s.user[u].chans /\ U[u].account = s.user[u].account
    BY <2>1, <2>3 DEF ClientSet
  <2> QED
    BY <2>2, <2>3
<1>3. R \in [Logins -> RecordSet] /\ U \in [Users -> ClientSet]
  BY <1>1, <1>2
<1>4. /\ t \in ServerSet /\ t.record = R /\ t.user = U /\ t.cache = s.cache
      /\ t.MonitorList = s.MonitorList /\ t.NotifyList = s.NotifyList
      /\ t.sessions = s.sessions /\ t.session = s.session /\ t.ChannelList = s.ChannelList
      /\ t.logins = s.logins /\ t.reducer = s.reducer /\ t.AwaitingExit = s.AwaitingExit
      /\ t.not_registered_track = s.not_registered_track
  BY <1>0, <1>3 DEF ServerSet, Regrouped
<1>5. SamePlaces(s, t) /\ SameChannels(s, t) /\ Listeners(s, t)
  BY <1>2, <1>4 DEF SamePlaces, SameChannels, Listeners
<1>6. SameDates(s, t) /\ SameSessions(s, t)
  BY <1>1, <1>2, <1>4 DEF SameDates, SameSessions
<1>7. Cached(t)
  BY <1>0, <1>1, <1>4 DEF Cached, Exists
<1> QED
  BY <1>4, <1>5, <1>6, <1>7, GoodKept

(* What the groups are in such a state.                                    *)
LEMMA RegroupedIs ==
  ASSUME NEW s \in ServerSet, NEW R, NEW U, NEW GL, NEW G, NEW t, Regrouped(s, t, R, U, GL, G)
  PROVE  t.record = R /\ t.user = U /\ t.GroupList = GL /\ t.groups = G
BY DEF ServerSet, Regrouped

(* Flags are given to a group that there is, or to a new one that nobody   *)
(* has.                                                                    *)
LEMMA UpdateFlagsGood ==
  ASSUME NEW s, NEW now, Good(s, now), NEW g \in GroupNames,
         NEW flags \in SUBSET (GroupFlags \cup {"invalid"}),
         ~DefaultReturns => s.GroupList[g].listed \/ g # "default"
  PROVE  Good(UpdateFlags(s, g, flags), now)
<1> DEFINE old == s.GroupList[g]
           rawflags == old.rawflags \cup flags
           can == IF "invalid" \in old.rawflags THEN old.can ELSE old.can \cup (flags \ {"invalid"})
           new == [listed |-> TRUE, can |-> can, rawflags |-> rawflags]
           GL == [s.GroupList EXCEPT ![g] = new]
           G == IF "invalid" \in rawflags THEN s.groups ELSE [s.groups EXCEPT ![g] = flags]
           t == UpdateFlags(s, g, flags)
<1>0. /\ s \in ServerSet /\ Grouped(s) /\ (~DefaultReturns => Matching(s) /\ DefaultKept(s)) /\ Placed(s)
      /\ s.record \in [Logins -> RecordSet] /\ s.user \in [Users -> ClientSet]
      /\ s.GroupList \in [GroupNames -> GroupSet] /\ s.groups \in [GroupNames -> SUBSET GroupFlags]
  BY Fields DEF Good
<1>1. old \in GroupSet
  BY <1>0
<1>2. can \subseteq GroupFlags /\ rawflags \subseteq GroupFlags \cup {"invalid"}
      /\ ("invalid" \notin rawflags => flags \subseteq GroupFlags)
  BY <1>1 DEF GroupSet
<1>3. "invalid" \notin rawflags => can = rawflags
  BY <1>0 DEF Grouped
<1>4. Regrouped(s, t, s.record, s.user, GL, G)
  <2>1. CASE "invalid" \in rawflags
    BY <1>0, <2>1 DEF ServerSet, Regrouped, UpdateFlags
  <2>2. CASE "invalid" \notin rawflags
    BY <1>0, <2>2 DEF ServerSet, Regrouped, UpdateFlags
  <2> QED
    BY <2>1, <2>2
<1>5. G \in [GroupNames -> SUBSET GroupFlags]
  BY <1>0, <1>2
<1> HIDE DEF t, G, can, rawflags
<1>6. new \in GroupSet /\ new.listed /\ new.can = can /\ new.rawflags = rawflags
  BY <1>2 DEF GroupSet
<1> HIDE DEF new, old
<1>7. GL \in [GroupNames -> GroupSet] /\ GL[g] = new
      /\ (\A h \in GroupNames \ {g} : GL[h] = s.GroupList[h])
  BY <1>0, <1>6
<1> HIDE DEF GL
<1>8. t.record = s.record /\ t.user = s.user /\ t.GroupList = GL
  BY <1>0, <1>4, RegroupedIs
<1>9. Grouped(t)
  BY <1>0, <1>3, <1>6, <1>7, <1>8 DEF Grouped, RecordSet
<1>10. ASSUME ~DefaultReturns
       PROVE  Matching(t) /\ DefaultKept(t)
  <2>1. \A l \in Logins : g \in s.record[l].groups => s.GroupList[g].listed
    BY <1>0, <1>10 DEF Grouped
  <2>2. Matching(t)
    <3> SUFFICES ASSUME NEW u \in Users, Online(t, u),
                        t.user[u].account = t.record[t.user[u].login].created
                 PROVE  t.user[u].Groups = t.record[t.user[u].login].groups
                                             \cap {h \in GroupNames : t.GroupList[h].listed}
      BY DEF Matching
    <3>1. Online(s, u)
      BY <1>8 DEF Online, Present
    <3>2. s.user[u].login \in Logins
      BY <1>0, <3>1, OnlineIn, Distinction DEF Online
    <3>3. s.user[u].Groups = s.record[s.user[u].login].groups
                               \cap {h \in GroupNames : s.GroupList[h].listed}
      BY <1>0, <1>8, <1>10, <3>1 DEF Matching
    <3> QED
      BY <1>6, <1>7, <1>8, <2>1, <3>2, <3>3
  <2>3. DefaultKept(t)
    BY <1>0, <1>6, <1>7, <1>8, <1>10, Distinction DEF DefaultKept
  <2> QED
    BY <2>2, <2>3
<1>11. s.record = [l \in Logins |-> s.record[l]] /\ s.user = [u \in Users |-> s.user[u]]
  BY <1>0
<1>12. Good(t, now)
  BY <1>4, <1>5, <1>7, <1>9, <1>10, <1>11, GroupsGood
<1> QED
  BY <1>12 DEF t

LEMMA GROUPADDGood ==
  ASSUME NEW s, NEW now, Good(s, now), NEW g \in GroupNames \cup {"DEFAULT"},
         NEW m \in Logins, <<"GROUPADD", g>> \in Menu[m]
  PROVE  Good(GROUPADD(s, g), now)
<1>1. Lower(g) \in GroupNames
  BY Distinction DEF Lower
<1>2. CASE s.GroupList[Lower(g)].listed
  BY <1>2 DEF GROUPADD
<1>3. CASE ~s.GroupList[Lower(g)].listed
  <2>1. ~DefaultReturns => Lower(g) # "default"
    <3> SUFFICES ASSUME ~DefaultReturns, Lower(g) = "default"
                 PROVE  FALSE
      OBVIOUS
    <3>1. g \in {"default", "DEFAULT"}
      BY DEF Lower
    <3>2. <<"GROUPADD", g>> \in Menu[m] \cap DefaultMade
      BY <3>1 DEF DefaultMade
    <3>3. s.GroupList["default"].listed
      BY <3>2 DEF Good, DefaultKept
    <3> QED
      BY <1>3, <3>3
  <2>2. DEFAULT_GFLAGS \in SUBSET (GroupFlags \cup {"invalid"})
    BY DEF DEFAULT_GFLAGS, GroupFlags, Ability
  <2> QED
    BY <1>1, <1>3, <2>1, <2>2, UpdateFlagsGood DEF GROUPADD
<1> QED
  BY <1>2, <1>3

LEMMA GUPDATEGood ==
  ASSUME NEW s, NEW now, Good(s, now), NEW g \in GroupNames, NEW flag \in GroupFlags \cup {"invalid"}
  PROVE  Good(GUPDATE(s, g, flag), now)
<1>1. {flag} \in SUBSET (GroupFlags \cup {"invalid"})
  OBVIOUS
<1> QED
  BY <1>1, UpdateFlagsGood DEF GUPDATE

LEMMA GRESETGood ==
  ASSUME NEW s, NEW now, Good(s, now), NEW g \in GroupNames
  PROVE  Good(GRESET(s, g), now)
<1> DEFINE new == [NoGroup EXCEPT !.listed = TRUE]
           GL == [s.GroupList EXCEPT ![g] = new]
           G == [s.groups EXCEPT ![g] = {}]
           t == [s EXCEPT !.GroupList[g] = new, !.groups[g] = {}]
<1>0. /\ s \in ServerSet /\ Grouped(s) /\ (~DefaultReturns => Matching(s) /\ DefaultKept(s)) /\ Placed(s)
      /\ s.record \in [Logins -> RecordSet] /\ s.user \in [Users -> ClientSet]
      /\ s.GroupList \in [GroupNames -> GroupSet] /\ s.groups \in [GroupNames -> SUBSET GroupFlags]
  BY Fields DEF Good
<1>1. CASE g = "default" \/ ~s.GroupList[g].listed
  BY <1>1 DEF GRESET
<1>2. CASE g # "default" /\ s.GroupList[g].listed
  <2>1. Regrouped(s, t, s.record, s.user, GL, G)
    BY <1>0 DEF ServerSet, Regrouped
  <2>2. G \in [GroupNames -> SUBSET GroupFlags]
    BY <1>0
  <2>3. new \in GroupSet /\ new.listed /\ new.can = {} /\ new.rawflags = {}
    BY DEF NoGroup, GroupSet
  <2>3a. GRESET(s, g) = t
    BY <1>2 DEF GRESET
  <2> HIDE DEF t, G, new
  <2>4. GL \in [GroupNames -> GroupSet] /\ GL[g] = new
        /\ (\A h \in GroupNames \ {g} : GL[h] = s.GroupList[h])
    BY <1>0, <2>3
  <2> HIDE DEF GL
  <2>5. t.record = s.record /\ t.user = s.user /\ t.GroupList = GL
    BY <1>0, <2>1, RegroupedIs
  <2>6. \A h \in GroupNames : t.GroupList[h].listed <=> s.GroupList[h].listed
    BY <1>2, <2>3, <2>4, <2>5
  <2>7. Grouped(t)
    BY <1>0, <2>3, <2>4, <2>5, <2>6 DEF Grouped, RecordSet
  <2>8. ~DefaultReturns => Matching(t) /\ DefaultKept(t)
    BY <1>0, <2>5, <2>6, Distinction DEF Matching, DefaultKept, Online, Present
  <2>9. s.record = [l \in Logins |-> s.record[l]] /\ s.user = [u \in Users |-> s.user[u]]
    BY <1>0
  <2>10. Good(t, now)
    BY <2>1, <2>2, <2>4, <2>7, <2>8, <2>9, GroupsGood
  <2> QED
    BY <2>3a, <2>10
<1> QED
  BY <1>1, <1>2

LEMMA DeleteGroupGood ==
  ASSUME NEW s, NEW now, Good(s, now), NEW g \in GroupNames,
         ~DefaultReturns /\ g = "default" => \A m \in Logins : Menu[m] \cap DefaultMade = {}
  PROVE  Good(DeleteGroup(s, g), now)
<1> DEFINE GL == [s.GroupList EXCEPT ![g] = NoGroup]
           G == [s.groups EXCEPT ![g] = {}]
           R == [l \in Logins |-> IF Exists(s, l) THEN [s.record[l] EXCEPT !.groups = @ \ {g}]
                                  ELSE s.record[l]]
           U == [u \in Users |-> IF u \in ToSet(s.logins) THEN [s.user[u] EXCEPT !.Groups = @ \ {g}]
                                 ELSE s.user[u]]
           t == [s EXCEPT !.GroupList[g] = NoGroup, !.groups[g] = {}, !.record = R, !.user = U]
<1>0. /\ s \in ServerSet /\ Grouped(s) /\ (~DefaultReturns => Matching(s) /\ DefaultKept(s))
      /\ Placed(s) /\ Cached(s)
      /\ s.record \in [Logins -> RecordSet] /\ s.user \in [Users -> ClientSet]
      /\ s.GroupList \in [GroupNames -> GroupSet] /\ s.groups \in [GroupNames -> SUBSET GroupFlags]
  BY Fields DEF Good
<1>1. CASE ~s.GroupList[g].listed
  BY <1>1 DEF DeleteGroup
<1>2. CASE s.GroupList[g].listed
  <2>1. Regrouped(s, t, R, U, GL, G)
    <3> HIDE DEF R, U
    <3> QED
      BY <1>0 DEF ServerSet, Regrouped
  <2>2. G \in [GroupNames -> SUBSET GroupFlags]
    BY <1>0
  <2>3. NoGroup \in GroupSet /\ ~NoGroup.listed /\ NoGroup.can = {} /\ NoGroup.rawflags = {}
    BY DEF NoGroup, GroupSet
  <2>3a. DeleteGroup(s, g) = t
    BY <1>2 DEF DeleteGroup
  <2>4. GL \in [GroupNames -> GroupSet] /\ GL[g] = NoGroup
        /\ (\A h \in GroupNames \ {g} : GL[h] = s.GroupList[h])
    BY <1>0, <2>3
  <2>5. R = [l \in Logins |-> R[l]] /\ U = [u \in Users |-> U[u]]
    OBVIOUS
  <2>6. ASSUME NEW l \in Logins
        PROVE  /\ \/ R[l] = s.record[l]
                  \/ \E gs \in SUBSET GroupNames :
                       /\ R[l] = [s.record[l] EXCEPT !.groups = gs]
                       /\ ~Exists(s, l) => gs \subseteq s.record[l].groups
               /\ R[l].groups = s.record[l].groups \ {g} /\ R[l].created = s.record[l].created
    <3>1. s.record[l] \in RecordSet
      BY <1>0
    <3>2. CASE Exists(s, l)
      <4>1. R[l] = [s.record[l] EXCEPT !.groups = s.record[l].groups \ {g}]
        BY <3>2
      <4>2. s.record[l].groups \ {g} \in SUBSET GroupNames
        BY <3>1 DEF RecordSet
      <4> HIDE DEF R
      <4> QED
        BY <3>1, <3>2, <4>1, <4>2 DEF RecordSet
    <3>3. CASE ~Exists(s, l)
      BY <1>0, <3>3 DEF Cached
    <3> QED
      BY <3>2, <3>3
  <2>7. ASSUME NEW u \in Users
        PROVE  /\ \/ U[u] = s.user[u]
                  \/ /\ s.user[u].object # "none"
                     /\ \E gs \in SUBSET GroupNames : U[u] = [s.user[u] EXCEPT !.Groups = gs]
               /\ Online(s, u) => U[u].Groups = s.user[u].Groups \ {g}
               /\ U[u].object = s.user[u].object /\ U[u].quitting = s.user[u].quitting
               /\ U[u].registered = s.user[u].registered /\ U[u].login = s.user[u].login
               /\ U[u].account = s.user[u].account
    <3>1. s.user[u] \in ClientSet
      BY <1>0
    <3>2. CASE u \in ToSet(s.logins)
      <4>1. U[u] = [s.user[u] EXCEPT !.Groups = s.user[u].Groups \ {g}]
        BY <3>2
      <4>2. s.user[u].Groups \ {g} \in SUBSET GroupNames
        BY <3>1 DEF ClientSet
      <4>3. s.user[u].object # "none"
        BY <1>0, <3>2 DEF Placed, Present
      <4> HIDE DEF U
      <4> QED
        BY <3>1, <4>1, <4>2, <4>3 DEF ClientSet
    <3>3. CASE u \notin ToSet(s.logins)
      <4>1. ~Online(s, u)
        BY <1>0, <3>3, Distinction DEF Placed, Online
      <4> QED
        BY <3>3, <4>1
    <3> QED
      BY <3>2, <3>3
  <2> HIDE DEF t, G, GL, R, U
  <2>8. t.record = R /\ t.user = U /\ t.GroupList = GL
    BY <1>0, <2>1, RegroupedIs
  <2>9. Grouped(t)
    <3>1. \A h \in GroupNames :
            /\ ~t.GroupList[h].listed => t.GroupList[h].can = {}
            /\ "invalid" \notin t.GroupList[h].rawflags => t.GroupList[h].can = t.GroupList[h].rawflags
      BY <1>0, <2>3, <2>4, <2>8 DEF Grouped
    <3>2. ASSUME NEW l \in Logins, NEW h \in t.record[l].groups
          PROVE  t.GroupList[h].listed \/ h = "default"
      <4>1. h \in s.record[l].groups /\ h # g
        BY <2>6, <2>8, <3>2
      <4>2. h \in GroupNames
        BY <1>0, <4>1 DEF RecordSet
      <4> QED
        BY <1>0, <2>4, <2>8, <4>1, <4>2 DEF Grouped
    <3> QED
      BY <3>1, <3>2 DEF Grouped
  <2>10. ASSUME ~DefaultReturns
         PROVE  Matching(t) /\ DefaultKept(t)
    <3>1. Matching(t)
      <4> SUFFICES ASSUME NEW u \in Users, Online(t, u),
                          t.user[u].account = t.record[t.user[u].login].created
                   PROVE  t.user[u].Groups = t.record[t.user[u].login].groups
                                               \cap {h \in GroupNames : t.GroupList[h].listed}
        BY DEF Matching
      <4>1. Online(s, u) /\ t.user[u].login = s.user[u].login /\ t.user[u].account = s.user[u].account
            /\ t.user[u].Groups = s.user[u].Groups \ {g}
        BY <2>7, <2>8 DEF Online, Present
      <4>2. s.user[u].login \in Logins
        BY <1>0, <4>1, OnlineIn, Distinction DEF Online
      <4>3. s.user[u].account = s.record[s.user[u].login].created
        BY <2>6, <2>8, <4>1, <4>2
      <4>4. s.user[u].Groups = s.record[s.user[u].login].groups
                                 \cap {h \in GroupNames : s.GroupList[h].listed}
        BY <1>0, <2>10, <4>1, <4>3 DEF Matching
      <4>5. t.record[t.user[u].login].groups = s.record[s.user[u].login].groups \ {g}
        BY <2>6, <2>8, <4>1, <4>2
      <4> QED
        BY <2>3, <2>4, <2>8, <4>1, <4>4, <4>5
    <3>2. DefaultKept(t)
      <4>1. CASE g = "default"
        BY <2>10, <4>1 DEF DefaultKept
      <4>2. CASE g # "default"
        BY <1>0, <2>4, <2>8, <2>10, <4>2, Distinction DEF DefaultKept
      <4> QED
        BY <4>1, <4>2
    <3> QED
      BY <3>1, <3>2
  <2>11. /\ \A l \in Logins : \/ R[l] = s.record[l]
                              \/ \E gs \in SUBSET GroupNames :
                                   /\ R[l] = [s.record[l] EXCEPT !.groups = gs]
                                   /\ ~Exists(s, l) => gs \subseteq s.record[l].groups
         /\ \A u \in Users : \/ U[u] = s.user[u]
                             \/ /\ s.user[u].object # "none"
                                /\ \E gs \in SUBSET GroupNames : U[u] = [s.user[u] EXCEPT !.Groups = gs]
    BY <2>6, <2>7
  <2>12. Good(t, now)
    BY <2>1, <2>2, <2>4, <2>5, <2>9, <2>10, <2>11, GroupsGood
  <2> QED
    BY <2>3a, <2>12
<1> QED
  BY <1>1, <1>2

LEMMA DELGROUPGood ==
  ASSUME NEW s, NEW now, Good(s, now), NEW g \in GroupNames \cup {"DEFAULT"},
         NEW l \in Logins, <<"DELGROUP", g>> \in Menu[l]
  PROVE  Good(DELGROUP(s, g), now)
<1>1. Lower(g) \in GroupNames
  BY Distinction DEF Lower
<1>2. CASE g = "default"
  BY <1>2 DEF DELGROUP
<1>3. CASE g # "default"
  <2>1. ~DefaultReturns /\ Lower(g) = "default" => \A m \in Logins : Menu[m] \cap DefaultMade = {}
    BY <1>3 DEF Lower, DefaultReturns
  <2> QED
    BY <1>1, <1>3, <2>1, DeleteGroupGood DEF DELGROUP
<1> QED
  BY <1>2, <1>3

(* A group that there is is given to an account and its instances, or      *)
(* taken from them.                                                        *)
LEMMA MembersGood ==
  ASSUME NEW s, NEW now, Good(s, now), NEW g \in GroupNames, NEW login \in Logins,
         s.GroupList[g].listed, Exists(s, login)
  PROVE  /\ Good(GSET(s, g, login), now) /\ Good(GDEL(s, g, login), now)
<1>0. /\ s \in ServerSet /\ Grouped(s) /\ (~DefaultReturns => Matching(s) /\ DefaultKept(s))
      /\ Placed(s) /\ Cached(s)
      /\ s.record \in [Logins -> RecordSet] /\ s.user \in [Users -> ClientSet]
      /\ s.GroupList \in [GroupNames -> GroupSet] /\ s.groups \in [GroupNames -> SUBSET GroupFlags]
  BY Fields DEF Good
<1> DEFINE given(gs, b) == IF b THEN gs \cup {g} ELSE gs \ {g}
           found == FindLogin(s, login)
<1>1. ASSUME NEW b \in BOOLEAN
      PROVE  Good([s EXCEPT !.record[login].groups = given(@, b),
                            !.user = [u \in Users |->
                               IF u \in found THEN [s.user[u] EXCEPT !.Groups = given(@, b)]
                               ELSE s.user[u]]], now)
  <2> DEFINE r == [s.record[login] EXCEPT !.groups = given(s.record[login].groups, b)]
             R == [s.record EXCEPT ![login] = r]
             U == [u \in Users |-> IF u \in found THEN [s.user[u] EXCEPT !.Groups = given(@, b)]
                                   ELSE s.user[u]]
             t == [s EXCEPT !.record[login].groups = given(@, b), !.user = U]
  <2>1. Regrouped(s, t, R, U, s.GroupList, s.groups)
    <3> HIDE DEF U, given
    <3> QED
      BY <1>0 DEF ServerSet, Regrouped
  <2>2. /\ r.groups = given(s.record[login].groups, b) /\ r.created = s.record[login].created
        /\ given(s.record[login].groups, b) \in SUBSET GroupNames
    <3>1. s.record[login] \in RecordSet
      BY <1>0
    <3> QED
      BY <3>1 DEF RecordSet
  <2>3. /\ R = [l \in Logins |-> R[l]] /\ U = [u \in Users |-> U[u]]
        /\ R[login] = [s.record[login] EXCEPT !.groups = given(s.record[login].groups, b)]
        /\ R[login] = r /\ \A l \in Logins \ {login} : R[l] = s.record[l]
    <3> HIDE DEF given
    <3> QED
      BY <1>0
  <2>4. ASSUME NEW u \in Users
        PROVE  /\ u \in found <=> Online(s, u) /\ s.user[u].login = login
               /\ \/ U[u] = s.user[u]
                  \/ /\ s.user[u].object # "none"
                     /\ \E gs \in SUBSET GroupNames : U[u] = [s.user[u] EXCEPT !.Groups = gs]
               /\ u \in found => U[u].Groups = given(s.user[u].Groups, b)
               /\ u \notin found => U[u] = s.user[u]
               /\ U[u].object = s.user[u].object /\ U[u].quitting = s.user[u].quitting
               /\ U[u].registered = s.user[u].registered /\ U[u].login = s.user[u].login
               /\ U[u].account = s.user[u].account
    <3>1. s.user[u] \in ClientSet
      BY <1>0
    <3>2. u \in found <=> Online(s, u) /\ s.user[u].login = login
      BY <1>0, FindLoginIs
    <3>3. CASE u \in found
      <4>1. U[u] = [s.user[u] EXCEPT !.Groups = given(s.user[u].Groups, b)]
        BY <3>3
      <4>2. given(s.user[u].Groups, b) \in SUBSET GroupNames
        BY <3>1 DEF ClientSet
      <4>3. s.user[u].object # "none"
        BY <3>2, <3>3 DEF Online, Present
      <4> HIDE DEF U, given, found
      <4> QED
        BY <3>1, <3>2, <3>3, <4>1, <4>2, <4>3 DEF ClientSet
    <3>4. CASE u \notin found
      BY <3>2, <3>4
    <3> QED
      BY <3>3, <3>4
  <2> HIDE DEF t, R, U, r, found
  <2>5. t.record = R /\ t.user = U /\ t.GroupList = s.GroupList
    BY <1>0, <2>1, RegroupedIs
  <2>6. Grouped(t)
    BY <1>0, <2>2, <2>3, <2>5 DEF Grouped
  <2>7. ASSUME ~DefaultReturns
        PROVE  Matching(t) /\ DefaultKept(t)
    <3>1. Matching(t)
      <4> SUFFICES ASSUME NEW u \in Users, Online(t, u),
                          t.user[u].account = t.record[t.user[u].login].created
                   PROVE  t.user[u].Groups = t.record[t.user[u].login].groups
                                               \cap {h \in GroupNames : t.GroupList[h].listed}
        BY DEF Matching
      <4>1. Online(s, u) /\ t.user[u].login = s.user[u].login /\ t.user[u].account = s.user[u].account
        BY <2>4, <2>5 DEF Online, Present
      <4>2. s.user[u].login \in Logins
        BY <1>0, <4>1, OnlineIn, Distinction DEF Online
      <4>3. s.user[u].account = s.record[s.user[u].login].created
        BY <2>2, <2>3, <2>5, <4>1, <4>2
      <4>4. s.user[u].Groups = s.record[s.user[u].login].groups
                                 \cap {h \in GroupNames : s.GroupList[h].listed}
        BY <1>0, <2>7, <4>1, <4>3 DEF Matching
      <4>5. CASE s.user[u].login = login
        <5>1. t.user[u].Groups = given(s.user[u].Groups, b)
              /\ t.record[t.user[u].login].groups = given(s.record[login].groups, b)
          BY <2>2, <2>3, <2>4, <2>5, <4>1, <4>5
        <5>2. t.GroupList[g].listed /\ g \in GroupNames
          BY <2>5
        <5> DEFINE L == {h \in GroupNames : t.GroupList[h].listed}
                   A == s.user[u].Groups
                   B == s.record[login].groups
        <5>3. A = B \cap L /\ g \in L
          BY <2>5, <4>4, <4>5, <5>2
        <5> HIDE DEF L, A, B
        <5>4. A \cup {g} = (B \cup {g}) \cap L /\ A \ {g} = (B \ {g}) \cap L
          BY <5>3
        <5>5. given(A, b) = given(B, b) \cap L
          BY <5>4
        <5>6. L = {h \in GroupNames : t.GroupList[h].listed}
          BY DEF L
        <5>7. t.user[u].Groups = given(A, b)
          BY <5>1 DEF A
        <5>8. t.record[t.user[u].login].groups = given(B, b)
          BY <5>1 DEF B
        <5> HIDE DEF given
        <5> QED
          BY <5>5, <5>6, <5>7, <5>8
      <4>6. CASE s.user[u].login # login
        <5>1. t.user[u] = s.user[u]
          BY <2>4, <2>5, <4>6
        <5>2. t.record[s.user[u].login] = s.record[s.user[u].login]
          BY <2>3, <2>5, <4>2, <4>6
        <5> QED
          BY <2>5, <4>4, <5>1, <5>2
      <4> QED
        BY <4>5, <4>6
    <3>2. DefaultKept(t)
      BY <1>0, <2>5, <2>7 DEF DefaultKept
    <3> QED
      BY <3>1, <3>2
  <2>8. /\ \A l \in Logins : \/ R[l] = s.record[l]
                             \/ \E gs \in SUBSET GroupNames :
                                  /\ R[l] = [s.record[l] EXCEPT !.groups = gs]
                                  /\ ~Exists(s, l) => gs \subseteq s.record[l].groups
        /\ \A u \in Users : \/ U[u] = s.user[u]
                            \/ /\ s.user[u].object # "none"
                               /\ \E gs \in SUBSET GroupNames : U[u] = [s.user[u] EXCEPT !.Groups = gs]
    <3>1. \E gs \in SUBSET GroupNames :
             /\ R[login] = [s.record[login] EXCEPT !.groups = gs]
             /\ ~Exists(s, login) => gs \subseteq s.record[login].groups
      <4> HIDE DEF given
      <4> QED
        BY <2>2, <2>3
    <3> QED
      BY <2>3, <2>4, <3>1
  <2>9. Good(t, now)
    <3> HIDE DEF given
    <3> QED
      BY <1>0, <2>1, <2>3, <2>6, <2>7, <2>8, GroupsGood
  <2> QED
    BY <2>9 DEF t, U
<1>2. Good(GSET(s, g, login), now)
  BY <1>1 DEF GSET
<1>3. Good(GDEL(s, g, login), now)
  BY <1>1 DEF GDEL
<1> QED
  BY <1>2, <1>3

-----------------------------------------------------------------------------
(* Commands on the flags of accounts                                       *)

(* A state with other records and other flags of sessions.                 *)
Flagged(s, t, R, SE) == t = [s EXCEPT !.record = R, !.session = SE]

(* Only the record of login and the session of its instances differ.       *)
LEMMA FlaggedGood ==
  ASSUME NEW s, NEW now, Good(s, now), NEW login \in Logins, login # Root,
         NEW f \in SUBSET {"e", "r", "m"}, NEW R,
         R = [s.record EXCEPT ![login] = [s.record[login] EXCEPT !.flags = f]],
         NEW SE \in [Users -> SessionSet],
         \A v \in Users : SE[v] = s.session[v] \/ v = s.sessions[login],
         NEW t, Flagged(s, t, R, SE) \/ Flagged(s, t, s.record, SE)
  PROVE  Good(t, now)
<1>0. /\ s \in ServerSet /\ Attached(s) /\ s.record \in [Logins -> RecordSet]
      /\ s.session \in [Users -> SessionSet] /\ s.sessions \in [Logins -> Users \cup {None}]
  BY Fields DEF Good
<1>1. /\ R \in [Logins -> RecordSet]
      /\ \A l \in Logins : /\ R[l].created = s.record[l].created /\ R[l].status = s.record[l].status
                           /\ R[l].pass = s.record[l].pass /\ R[l].groups = s.record[l].groups
                           /\ l # login => R[l] = s.record[l]
  <2> DEFINE r == [s.record[login] EXCEPT !.flags = f]
  <2>1. s.record[login] \in RecordSet
    BY <1>0
  <2>2. r \in RecordSet /\ r.created = s.record[login].created /\ r.status = s.record[login].status
        /\ r.groups = s.record[login].groups /\ r.pass = s.record[login].pass
    BY <2>1 DEF RecordSet
  <2>3. R = [s.record EXCEPT ![login] = r]
    OBVIOUS
  <2> HIDE DEF r
  <2> QED
    BY <1>0, <2>2, <2>3
<1>2. PICK Q \in {R, s.record} : Flagged(s, t, Q, SE)
  OBVIOUS
<1>3. /\ Q \in [Logins -> RecordSet]
      /\ \A l \in Logins : /\ Q[l].created = s.record[l].created /\ Q[l].status = s.record[l].status
                           /\ Q[l].pass = s.record[l].pass /\ Q[l].groups = s.record[l].groups
                           /\ l # login => Q[l] = s.record[l]
  <2>1. CASE Q = R
    BY <1>1, <2>1
  <2>2. CASE Q = s.record
    BY <1>0, <2>2
  <2> QED
    BY <2>1, <2>2
<1>4. /\ t \in ServerSet /\ t.record = Q /\ t.session = SE /\ t.sessions = s.sessions
      /\ t.user = s.user /\ t.cache = s.cache /\ t.GroupList = s.GroupList
      /\ t.MonitorList = s.MonitorList /\ t.NotifyList = s.NotifyList
      /\ t.ChannelList = s.ChannelList /\ t.logins = s.logins
      /\ t.reducer = s.reducer /\ t.AwaitingExit = s.AwaitingExit
      /\ t.not_registered_track = s.not_registered_track
  BY <1>0, <1>2, <1>3 DEF ServerSet, Flagged
<1>5. /\ SamePlaces(s, t) /\ Listeners(s, t) /\ SameDates(s, t) /\ SameAccounts(s, t)
      /\ SameGroups(s, t) /\ SameChannels(s, t)
  BY <1>3, <1>4 DEF SamePlaces, Listeners, SameDates, SameAccounts, SameGroups, SameChannels
<1>6. Attached(t)
  <2>1. \A u \in Users : Online(t, u) <=> Online(s, u)
    BY <1>4 DEF Online, Present
  <2>2. Exists(t, Root) /\ "r" \in t.record[Root].flags
    BY <1>0, <1>3, <1>4, Distinction DEF Attached, Exists
  <2>3. ASSUME s.sessions[Root] # None
        PROVE  SE[s.sessions[Root]] = s.session[s.sessions[Root]]
    <3>1. s.user[s.sessions[Root]].login = Root
      BY <1>0, <2>3, Distinction DEF Attached
    <3>2. s.sessions[login] # None => s.user[s.sessions[login]].login = login
      BY <1>0 DEF Attached
    <3>3. s.sessions[Root] \in Users /\ s.sessions[Root] # s.sessions[login]
      BY <1>0, <2>3, <3>1, <3>2, Distinction
    <3> QED
      BY <3>3
  <2> QED
    BY <1>0, <1>4, <2>1, <2>2, <2>3 DEF Attached
<1> QED
  BY <1>4, <1>5, <1>6, GoodKept

LEMMA RecordFlagsGood ==
  ASSUME NEW s, NEW now, Good(s, now), NEW login \in Logins, login # Root,
         NEW f \in SUBSET {"e", "r", "m"}
  PROVE  Good([s EXCEPT !.record[login].flags = f], now)
<1> DEFINE R == [s.record EXCEPT ![login] = [s.record[login] EXCEPT !.flags = f]]
           t == [s EXCEPT !.record[login].flags = f]
<1>0. /\ s \in ServerSet /\ s.record \in [Logins -> RecordSet]
      /\ s.session \in [Users -> SessionSet]
  BY Fields DEF Good
<1>1. Flagged(s, t, R, s.session)
  BY <1>0 DEF ServerSet, Flagged
<1> HIDE DEF t
<1>2. Good(t, now)
  BY <1>0, <1>1, FlaggedGood
<1> QED
  BY <1>2 DEF t

(* Whoever is logged in has the session already: only its flags change.    *)
LEMMA AttachExternalIs ==
  ASSUME NEW s, NEW now, Good(s, now), NEW login \in Logins, NEW flags, FindLogin(s, login) # {}
  PROVE  /\ AttachExternal(s, login, flags) = SetFlags(s, s.sessions[login], flags)
         /\ s.sessions[login] \in Users
<1> DEFINE found == FindLogin(s, login)
           id == s.sessions[login]
           a == SetFlags(s, id, flags)
           first == FirstLogin(s, login)
           t == Attach(s, first, login, flags)
<1>0. /\ s \in ServerSet /\ Attached(s) /\ Placed(s) /\ s.user \in [Users -> ClientSet]
      /\ s.sessions \in [Logins -> Users \cup {None}] /\ s.session \in [Users -> SessionSet]
  BY Fields DEF Good
<1>1. \A u \in found : u \in Users /\ Online(s, u) /\ s.user[u].login = login
  BY <1>0, FindLoginIs
<1>2. first \in found
  BY <1>0, FirstLoginIn
<1>3. id # None /\ id \in Users /\ \A u \in found : s.user[u].session = id
  BY <1>0, <1>1, <1>2 DEF Attached
<1>4. a.user = s.user /\ a.sessions = s.sessions
  BY <1>0 DEF ServerSet, SetFlags
<1>5. a = [a EXCEPT !.user = s.user]
  BY <1>0 DEF ServerSet, SetFlags
<1>6. ASSUME NEW u \in found
      PROVE  [s.user[u] EXCEPT !.session = id] = s.user[u]
  <2>1. s.user[u] \in ClientSet /\ s.user[u].session = id
    BY <1>0, <1>1, <1>3, <1>6
  <2> QED
    BY <2>1 DEF ClientSet
<1>7. t = [a EXCEPT !.user[first].session = id]
  BY <1>3, <1>4 DEF Attach
<1>8. AttachExternal(s, login, flags) = [t EXCEPT !.user = [u \in Users |->
               IF u \in found THEN [t.user[u] EXCEPT !.session = t.sessions[login]]
               ELSE t.user[u]]]
  BY DEF AttachExternal
<1> HIDE DEF a, t, found, first, id
<1>9. [s.user EXCEPT ![first].session = id] = s.user
  BY <1>0, <1>1, <1>2, <1>6
<1>10. t = a
  BY <1>4, <1>5, <1>7, <1>9
<1>11. [u \in Users |-> IF u \in found THEN [t.user[u] EXCEPT !.session = t.sessions[login]]
                        ELSE t.user[u]] = s.user
  <2>1. t.sessions[login] = id /\ t.user = s.user
    BY <1>4, <1>10 DEF id
  <2>2. \A u \in Users : (IF u \in found THEN [t.user[u] EXCEPT !.session = t.sessions[login]]
                          ELSE t.user[u]) = s.user[u]
    BY <1>6, <2>1
  <2> QED
    BY <1>0, <2>2
<1> QED
  BY <1>3, <1>5, <1>8, <1>10, <1>11 DEF a, id

LEMMA AttachExternalGood ==
  ASSUME NEW s, NEW now, Good(s, now), NEW login \in Logins, login # Root,
         NEW flags \in SUBSET {"e", "r", "m"}
  PROVE  Good(AttachExternal(s, login, flags), now)
<1>1. CASE FindLogin(s, login) = {}
  BY <1>1 DEF AttachExternal
<1>2. CASE FindLogin(s, login) # {}
  <2> DEFINE id == s.sessions[login]
             c == [s.session[id] EXCEPT !.flags = flags]
             SE == [s.session EXCEPT ![id] = c]
             t == SetFlags(s, id, flags)
             R == [s.record EXCEPT ![login] = [s.record[login] EXCEPT !.flags = flags]]
  <2>1. AttachExternal(s, login, flags) = t /\ id \in Users
    BY <1>2, AttachExternalIs
  <2>2. s \in ServerSet /\ s.session \in [Users -> SessionSet]
    BY Fields DEF Good
  <2>3. s.session[id] \in SessionSet
    BY <2>1, <2>2
  <2>4. c \in SessionSet
    BY <2>3 DEF SessionSet
  <2>5. Flagged(s, t, s.record, SE)
    BY <2>2 DEF ServerSet, Flagged, SetFlags
  <2> HIDE DEF t, c
  <2>6. SE \in [Users -> SessionSet] /\ \A v \in Users : SE[v] = s.session[v] \/ v = s.sessions[login]
    BY <2>1, <2>2, <2>4
  <2> HIDE DEF SE
  <2>7. Good(t, now)
    BY <2>5, <2>6, FlaggedGood
  <2> QED
    BY <2>1, <2>7
<1> QED
  BY <1>1, <1>2

LEMMA ADDFLAGGood ==
  ASSUME NEW s, NEW now, Good(s, now), NEW login \in Logins, login # Root,
         NEW flag \in {"e", "r", "m"}
  PROVE  Good(ADDFLAG(s, login, flag), now)
<1>1. s.record[login].flags \cup {flag} \in SUBSET {"e", "r", "m"}
  BY Fields DEF Good, RecordSet
<1> QED
  BY <1>1, RecordFlagsGood, AttachExternalGood DEF ADDFLAG

LEMMA DELFLAGGood ==
  ASSUME NEW s, NEW now, Good(s, now), NEW login \in Logins, NEW flag
  PROVE  Good(DELFLAG(s, login, flag), now)
<1> DEFINE creating == s.record[login].flags \ {flag}
<1>1. creating \in SUBSET {"e", "r", "m"}
  BY Fields DEF Good, RecordSet
<1>2. CASE ~Exists(s, login) \/ login = Root \/ s.record[login].flags = {}
  BY <1>2 DEF DELFLAG
<1>3. CASE ~(~Exists(s, login) \/ login = Root \/ s.record[login].flags = {})
  <2>1. DELFLAG(s, login, flag) = [AttachExternal(s, login, creating) EXCEPT
                                     !.record[login].flags = creating]
    BY <1>3 DEF DELFLAG
  <2> HIDE DEF creating
  <2> QED
    BY <1>1, <1>3, <2>1, RecordFlagsGood, AttachExternalGood
<1> QED
  BY <1>2, <1>3

-----------------------------------------------------------------------------
(* Commands on channels                                                    *)

(* A state with other records, clients and channels.                       *)
Rejoined(s, t, R, U, CL) == t = [s EXCEPT !.record = R, !.user = U, !.ChannelList = CL]

(* It keeps the invariant if records and clients differ in their channels  *)
(* only and the two sides of the subscriptions agree.                      *)
LEMMA ChannelsGood ==
  ASSUME NEW s, NEW now, Good(s, now),
         NEW R, R = [l \in Logins |-> R[l]],
         \A l \in Logins : \/ R[l] = s.record[l]
                           \/ \E cs \in SUBSET Channels : R[l] = [s.record[l] EXCEPT !.chans = cs],
         NEW U, U = [u \in Users |-> U[u]],
         \A u \in Users : \/ U[u] = s.user[u]
                          \/ /\ s.user[u].object # "none"
                             /\ \E cs \in SUBSET Channels : U[u] = [s.user[u] EXCEPT !.chans = cs],
         NEW CL \in [Channels -> ChannelSet],
         NEW t, Rejoined(s, t, R, U, CL), Paired(t)
  PROVE  /\ Good(t, now) /\ \A u \in Users : Online(t, u) <=> Online(s, u)
<1>0. s \in ServerSet /\ s.record \in [Logins -> RecordSet] /\ s.user \in [Users -> ClientSet]
  BY Fields DEF Good
<1>1. ASSUME NEW l \in Logins
      PROVE  /\ R[l] \in RecordSet
             /\ R[l].created = s.record[l].created /\ R[l].flags = s.record[l].flags
             /\ R[l].status = s.record[l].status /\ R[l].pass = s.record[l].pass
             /\ R[l].groups = s.record[l].groups
  <2>1. s.record[l] \in RecordSet
    BY <1>0
  <2>2. CASE R[l] = s.record[l]
    BY <2>1, <2>2
  <2>3. ASSUME NEW cs \in SUBSET Channels, R[l] = [s.record[l] EXCEPT !.chans = cs]
        PROVE  /\ R[l] \in RecordSet
               /\ R[l].created = s.record[l].created /\ R[l].flags = s.record[l].flags
               /\ R[l].status = s.record[l].status /\ R[l].pass = s.record[l].pass
               /\ R[l].groups = s.record[l].groups
    BY <2>1, <2>3 DEF RecordSet
  <2> QED
    BY <2>2, <2>3
<1>2. ASSUME NEW u \in Users
      PROVE  /\ U[u] \in ClientSet
             /\ U[u].object = s.user[u].object /\ U[u].quitting = s.user[u].quitting
             /\ U[u].registered = s.user[u].registered /\ U[u].logged = s.user[u].logged
             /\ U[u].login = s.user[u].login /\ U[u].session = s.user[u].session
             /\ U[u].Groups = s.user[u].Groups /\ U[u].account = s.user[u].account
             /\ s.user[u].object = "none" => U[u] = s.user[u]
  <2>1. s.user[u] \in ClientSet
    BY <1>0
  <2>2. CASE U[u] = s.user[u]
    BY <2>1, <2>2
  <2>3. ASSUME NEW cs \in SUBSET Channels, U[u] = [s.user[u] EXCEPT !.chans = cs],
               s.user[u].object # "none"
        PROVE  /\ U[u] \in ClientSet
               /\ U[u].object = s.user[u].object /\ U[u].quitting = s.user[u].quitting
               /\ U[u].registered = s.user[u].registered /\ U[u].logged = s.user[u].logged
               /\ U[u].login = s.user[u].login /\ U[u].session = s.user[u].session
               /\ U[u].Groups = s.user[u].Groups /\ U[u].account = s.user[u].account
    BY <2>1, <2>3 DEF ClientSet
  <2> QED
    BY <2>2, <2>3
<1>3. R \in [Logins -> RecordSet] /\ U \in [Users -> ClientSet]
  BY <1>1, <1>2
<1>4. /\ t \in ServerSet /\ t.record = R /\ t.user = U /\ t.cache = s.cache
      /\ t.MonitorList = s.MonitorList /\ t.NotifyList = s.NotifyList
      /\ t.sessions = s.sessions /\ t.session = s.session /\ t.GroupList = s.GroupList
      /\ t.logins = s.logins /\ t.reducer = s.reducer /\ t.AwaitingExit = s.AwaitingExit
      /\ t.not_registered_track = s.not_registered_track
  BY <1>0, <1>3 DEF ServerSet, Rejoined
<1>5. SamePlaces(s, t) /\ SameGroups(s, t) /\ Listeners(s, t) /\ SameAccounts(s, t)
  BY <1>1, <1>2, <1>4 DEF SamePlaces, SameGroups, Listeners, SameAccounts
<1>6. SameDates(s, t) /\ SameSessions(s, t)
  BY <1>1, <1>2, <1>4 DEF SameDates, SameSessions
<1>7. \A u \in Users : Online(t, u) <=> Online(s, u)
  BY <1>5 DEF SamePlaces, Online, Present
<1> QED
  BY <1>4, <1>5, <1>6, <1>7, GoodKept

(* What the clients and channels are in such a state.                      *)
LEMMA RejoinedIs ==
  ASSUME NEW s \in ServerSet, NEW R, NEW U, NEW CL, NEW t, Rejoined(s, t, R, U, CL)
  PROVE  t.record = R /\ t.user = U /\ t.ChannelList = CL
BY DEF ServerSet, Rejoined

(* Clients taken off a channel, which goes with the last of them.          *)
LEMMA DeleteUserIs ==
  ASSUME NEW chan \in ChannelSet, NEW users, chan.listed <=> chan.subscribed # {}
  PROVE  LET new == DeleteUser(chan, users) IN
         /\ new \in ChannelSet
         /\ new.subscribed = chan.subscribed \ users
         /\ new.listed <=> new.subscribed # {}
<1>1. NoChannel \in ChannelSet /\ NoChannel.subscribed = {} /\ ~NoChannel.listed
  BY DEF NoChannel, ChannelSet
<1>2. CASE chan.subscribed \cap users = {}
  BY <1>2 DEF DeleteUser
<1>3. CASE chan.subscribed \cap users # {}
  <2> DEFINE left == [chan EXCEPT !.subscribed = @ \ users]
  <2>1. /\ left \in ChannelSet /\ left.subscribed = chan.subscribed \ users
        /\ left.listed = chan.listed
    BY DEF ChannelSet
  <2>2. chan.listed
    BY <1>3
  <2>3. DeleteUser(chan, users) = IF left.subscribed # {} THEN left ELSE NoChannel
    BY <1>3 DEF DeleteUser, CheckRemoval
  <2> HIDE DEF left
  <2> QED
    BY <1>1, <2>1, <2>2, <2>3
<1> QED
  BY <1>2, <1>3

(* The hooks of core_dbload write the record of a login and nothing else.   *)
Hooked(s, t) ==
    \E R : /\ R = [l \in Logins |-> R[l]]
           /\ \A l \in Logins : \/ R[l] = s.record[l]
                                \/ \E cs \in SUBSET Channels : R[l] = [s.record[l] EXCEPT !.chans = cs]
           /\ t = [s EXCEPT !.record = R]

LEMMA HookIs ==
  ASSUME NEW s \in ServerSet, NEW login \in Logins, NEW chans \in SUBSET Channels, NEW fc
  PROVE  Hooked(s, OnUserJoin(s, login, chans, fc)) /\ Hooked(s, OnUserPart(s, login, chans))
<1>0. s.record = [l \in Logins |-> s.record[l]] /\ s.record[login] \in RecordSet
  BY Fields
<1>1. Hooked(s, s)
  <2>1. s = [s EXCEPT !.record = s.record]
    BY DEF ServerSet
  <2> QED
    BY <1>0, <2>1 DEF Hooked
<1>2. ASSUME NEW cs \in SUBSET Channels
      PROVE  Hooked(s, [s EXCEPT !.record[login].chans = cs])
  <2> DEFINE R == [s.record EXCEPT ![login] = [s.record[login] EXCEPT !.chans = cs]]
             t == [s EXCEPT !.record[login].chans = cs]
  <2>1. R = [l \in Logins |-> R[l]]
        /\ \A l \in Logins : R[l] = s.record[l] \/ R[l] = [s.record[l] EXCEPT !.chans = cs]
    BY <1>0
  <2>2. t = [s EXCEPT !.record = R]
    BY DEF ServerSet
  <2> HIDE DEF R, t
  <2>3. Hooked(s, t)
    BY <2>1, <2>2 DEF Hooked
  <2> QED
    BY <2>3 DEF t
<1>3. s.record[login].chans \in SUBSET Channels
  BY <1>0 DEF RecordSet
<1>4. /\ s.record[login].chans \cup chans \in SUBSET Channels
      /\ s.record[login].chans \ chans \in SUBSET Channels
  BY <1>3
<1>5. /\ Hooked(s, [s EXCEPT !.record[login].chans = @ \cup chans])
      /\ Hooked(s, [s EXCEPT !.record[login].chans = @ \ chans])
  BY <1>2, <1>4
<1> QED
  BY <1>1, <1>5 DEF OnUserJoin, OnUserPart

LEMMA JoinUserGood ==
  ASSUME NEW s, NEW now, Good(s, now), NEW users \in SUBSET Users, \A u \in users : Online(s, u),
         NEW login \in Logins, NEW chans \in SUBSET Channels, NEW fc
  PROVE  /\ Good(JoinUser(s, users, login, chans, fc), now)
         /\ \A u \in Users : Online(JoinUser(s, users, login, chans, fc), u) <=> Online(s, u)
<1> DEFINE may == [u \in users |->
                    {c \in chans : /\ s.user[u].registered = REG_OK /\ ~Subscribed(s, u, c)
                                   /\ s.ChannelList[c].listed \/ allowchans}]
           new(c) == {u \in users : c \in may[u]}
           CL == [c \in Channels |->
             IF new(c) = {} THEN s.ChannelList[c]
             ELSE [s.ChannelList[c] EXCEPT !.listed = TRUE, !.subscribed = @ \cup new(c)]]
           U == [u \in Users |->
             IF u \in users THEN [s.user[u] EXCEPT !.chans = @ \cup may[u]] ELSE s.user[u]]
           a == [s EXCEPT !.ChannelList = CL, !.user = U]
           t == JoinUser(s, users, login, chans, fc)
<1>0. /\ s \in ServerSet /\ Paired(s) /\ s.user \in [Users -> ClientSet]
      /\ s.ChannelList \in [Channels -> ChannelSet]
  BY Fields DEF Good
<1>1. t = OnUserJoin(a, login, UNION {may[u] : u \in users}, fc)
  BY DEF JoinUser, ExecuteJoin
<1>2. /\ \A u \in users : may[u] \in SUBSET Channels
      /\ UNION {may[u] : u \in users} \in SUBSET Channels
  OBVIOUS
<1> HIDE DEF may
<1>3. ASSUME NEW u \in Users
      PROVE  /\ \/ U[u] = s.user[u]
                \/ /\ s.user[u].object # "none"
                   /\ \E cs \in SUBSET Channels : U[u] = [s.user[u] EXCEPT !.chans = cs]
             /\ U[u].chans = s.user[u].chans \cup (IF u \in users THEN may[u] ELSE {})
             /\ U[u] \in ClientSet
             /\ U[u].object = s.user[u].object /\ U[u].quitting = s.user[u].quitting
             /\ U[u].registered = s.user[u].registered
  <2>1. s.user[u] \in ClientSet
    BY <1>0
  <2>2. CASE u \in users
    <3>1. U[u] = [s.user[u] EXCEPT !.chans = s.user[u].chans \cup may[u]]
      BY <2>2
    <3>2. s.user[u].chans \cup may[u] \in SUBSET Channels
      BY <1>2, <2>1, <2>2 DEF ClientSet
    <3>3. s.user[u].object # "none"
      BY <2>2 DEF Online, Present
    <3> HIDE DEF U
    <3> QED
      BY <2>1, <2>2, <3>1, <3>2, <3>3 DEF ClientSet
  <2>3. CASE u \notin users
    BY <2>1, <2>3
  <2> QED
    BY <2>2, <2>3
<1>4. ASSUME NEW c \in Channels
      PROVE  /\ CL[c] \in ChannelSet
             /\ CL[c].subscribed = s.ChannelList[c].subscribed \cup new(c)
             /\ CL[c].listed <=> CL[c].subscribed # {}
  <2>1. s.ChannelList[c] \in ChannelSet
    BY <1>0
  <2>2. s.ChannelList[c].listed <=> s.ChannelList[c].subscribed # {}
    BY <1>0 DEF Paired
  <2>3. CASE new(c) = {}
    <3>1. CL[c] = s.ChannelList[c]
      BY <2>3
    <3> QED
      BY <2>1, <2>2, <2>3, <3>1
  <2>4. CASE new(c) # {}
    <3>1. CL[c] = [s.ChannelList[c] EXCEPT !.listed = TRUE,
                                           !.subscribed = s.ChannelList[c].subscribed \cup new(c)]
      BY <2>4
    <3>2. new(c) \subseteq Users
      OBVIOUS
    <3> HIDE DEF CL, new
    <3> QED
      BY <2>1, <2>4, <3>1, <3>2 DEF ChannelSet
  <2> QED
    BY <2>3, <2>4
<1>5. /\ U = [u \in Users |-> U[u]] /\ U \in [Users -> ClientSet]
      /\ CL \in [Channels -> ChannelSet]
  BY <1>3, <1>4
<1>6. \A u \in Users, c \in Channels : u \in new(c) <=> u \in users /\ c \in may[u]
  OBVIOUS
<1> HIDE DEF U, CL, new
<1>7. a \in ServerSet /\ a.record = s.record
  BY <1>0, <1>5 DEF ServerSet
<1>8. Hooked(a, t)
  BY <1>1, <1>2, <1>7, HookIs
<1> HIDE DEF t, a
<1>9. PICK R : /\ R = [l \in Logins |-> R[l]]
               /\ \A l \in Logins : \/ R[l] = a.record[l]
                                    \/ \E cs \in SUBSET Channels : R[l] = [a.record[l] EXCEPT !.chans = cs]
               /\ t = [a EXCEPT !.record = R]
  BY <1>8 DEF Hooked
<1>9a. \A l \in Logins : \/ R[l] = s.record[l]
                         \/ \E cs \in SUBSET Channels : R[l] = [s.record[l] EXCEPT !.chans = cs]
  BY <1>7, <1>9
<1>10. Rejoined(s, t, R, U, CL)
  BY <1>0, <1>9 DEF ServerSet, Rejoined, a
<1>11. t.user = U /\ t.ChannelList = CL
  BY <1>0, <1>10, RejoinedIs
<1>12. Paired(t)
  <2>1. ASSUME NEW u \in Users, NEW c \in Channels
        PROVE  /\ Subscribed(t, u, c) => Online(t, u)
               /\ Present(t, u) => (c \in t.user[u].chans <=> Subscribed(t, u, c))
    <3>1. Subscribed(t, u, c) <=> (Subscribed(s, u, c) \/ (u \in users /\ c \in may[u]))
      BY <1>4, <1>6, <1>11 DEF Subscribed
    <3>2. c \in t.user[u].chans <=> (c \in s.user[u].chans \/ (u \in users /\ c \in may[u]))
      BY <1>3, <1>11
    <3>3. (Online(t, u) <=> Online(s, u)) /\ (Present(t, u) <=> Present(s, u))
      BY <1>3, <1>11 DEF Online, Present
    <3> QED
      BY <1>0, <3>1, <3>2, <3>3 DEF Paired
  <2> QED
    BY <1>4, <1>11, <2>1 DEF Paired
<1>13. Good(t, now) /\ \A u \in Users : Online(t, u) <=> Online(s, u)
  BY <1>3, <1>5, <1>9, <1>9a, <1>10, <1>12, ChannelsGood
<1> QED
  BY <1>13 DEF t

LEMMA PartUserGood ==
  ASSUME NEW s, NEW now, Good(s, now), NEW users \in SUBSET Users, \A u \in users : Online(s, u),
         NEW login \in Logins, NEW chans \in SUBSET Channels
  PROVE  /\ Good(PartUser(s, users, login, chans), now)
         /\ \A u \in Users : Online(PartUser(s, users, login, chans), u) <=> Online(s, u)
<1> DEFINE left(u) == {c \in chans : Subscribed(s, u, c)}
           CL == [c \in Channels |->
             IF c \in chans THEN DeleteUser(s.ChannelList[c], users) ELSE s.ChannelList[c]]
           U == [u \in Users |->
             IF u \in users THEN [s.user[u] EXCEPT !.chans = @ \ left(u)] ELSE s.user[u]]
           a == OnUserPart(s, login, UNION {left(u) : u \in users})
           t == PartUser(s, users, login, chans)
<1>0. /\ s \in ServerSet /\ Paired(s) /\ s.user \in [Users -> ClientSet]
      /\ s.ChannelList \in [Channels -> ChannelSet]
  BY Fields DEF Good
<1>1. UNION {left(u) : u \in users} \in SUBSET Channels
  OBVIOUS
<1>2. Hooked(s, a)
  BY <1>0, <1>1, HookIs
<1>3. ASSUME NEW u \in Users
      PROVE  /\ \/ U[u] = s.user[u]
                \/ /\ s.user[u].object # "none"
                   /\ \E cs \in SUBSET Channels : U[u] = [s.user[u] EXCEPT !.chans = cs]
             /\ U[u].chans = s.user[u].chans \ (IF u \in users THEN left(u) ELSE {})
             /\ U[u].object = s.user[u].object /\ U[u].quitting = s.user[u].quitting
             /\ U[u].registered = s.user[u].registered
  <2>1. s.user[u] \in ClientSet
    BY <1>0
  <2>2. CASE u \in users
    <3>1. U[u] = [s.user[u] EXCEPT !.chans = s.user[u].chans \ left(u)]
      BY <2>2
    <3>2. s.user[u].chans \ left(u) \in SUBSET Channels
      BY <2>1 DEF ClientSet
    <3>3. s.user[u].object # "none"
      BY <2>2 DEF Online, Present
    <3> HIDE DEF U, left
    <3> QED
      BY <2>1, <2>2, <3>1, <3>2, <3>3 DEF ClientSet
  <2>3. CASE u \notin users
    BY <2>1, <2>3
  <2> QED
    BY <2>2, <2>3
<1>4. ASSUME NEW c \in Channels
      PROVE  /\ CL[c] \in ChannelSet
             /\ CL[c].subscribed = s.ChannelList[c].subscribed \ (IF c \in chans THEN users ELSE {})
             /\ CL[c].listed <=> CL[c].subscribed # {}
  <2>1. /\ s.ChannelList[c] \in ChannelSet
        /\ s.ChannelList[c].listed <=> s.ChannelList[c].subscribed # {}
    BY <1>0 DEF Paired
  <2>2. CASE c \in chans
    <3>1. CL[c] = DeleteUser(s.ChannelList[c], users)
      BY <2>2
    <3> HIDE DEF CL
    <3> QED
      BY <2>1, <2>2, <3>1, DeleteUserIs
  <2>3. CASE c \notin chans
    BY <2>1, <2>3
  <2> QED
    BY <2>2, <2>3
<1>5. U = [u \in Users |-> U[u]] /\ CL \in [Channels -> ChannelSet]
  BY <1>4
<1>6. t = [a EXCEPT !.user = U, !.ChannelList = CL]
  BY DEF PartUser
<1>7. \A u \in Users, c \in Channels : c \in left(u) <=> (c \in chans /\ Subscribed(s, u, c))
  OBVIOUS
<1> HIDE DEF U, CL, left, t, a
<1>9. PICK R : /\ R = [l \in Logins |-> R[l]]
               /\ \A l \in Logins : \/ R[l] = s.record[l]
                                    \/ \E cs \in SUBSET Channels : R[l] = [s.record[l] EXCEPT !.chans = cs]
               /\ a = [s EXCEPT !.record = R]
  BY <1>2 DEF Hooked
<1>10. Rejoined(s, t, R, U, CL)
  BY <1>0, <1>6, <1>9 DEF ServerSet, Rejoined
<1>11. t.user = U /\ t.ChannelList = CL
  BY <1>0, <1>10, RejoinedIs
<1>12. Paired(t)
  <2>1. ASSUME NEW u \in Users, NEW c \in Channels
        PROVE  /\ Subscribed(t, u, c) => Online(t, u)
               /\ Present(t, u) => (c \in t.user[u].chans <=> Subscribed(t, u, c))
    <3>1. Subscribed(t, u, c) <=> (Subscribed(s, u, c) /\ ~(u \in users /\ c \in chans))
      BY <1>4, <1>11 DEF Subscribed
    <3>2. c \in t.user[u].chans
            <=> (c \in s.user[u].chans /\ ~(u \in users /\ c \in chans /\ Subscribed(s, u, c)))
      BY <1>3, <1>7, <1>11
    <3>3. (Online(t, u) <=> Online(s, u)) /\ (Present(t, u) <=> Present(s, u))
      BY <1>3, <1>11 DEF Online, Present
    <3> QED
      BY <1>0, <3>1, <3>2, <3>3 DEF Paired
  <2> QED
    BY <1>4, <1>11, <2>1 DEF Paired
<1>13. Good(t, now) /\ \A u \in Users : Online(t, u) <=> Online(s, u)
  BY <1>3, <1>5, <1>9, <1>10, <1>12, ChannelsGood
<1> QED
  BY <1>13 DEF t

(* The commands of a client that is logged in.                             *)
LEMMA ChannelCommandsGood ==
  ASSUME NEW s, NEW now, Good(s, now), NEW u \in Users, Online(s, u), NEW c \in Channels
  PROVE  /\ Good(JOIN(s, u, c), now) /\ Good(PART(s, u, c), now)
         /\ Good(HOP(s, u, c), now)
<1> DEFINE login == s.user[u].login
<1>0. s \in ServerSet /\ Placed(s)
  BY DEF Good
<1>1. login \in Logins /\ s.user[u].chans \in SUBSET Channels /\ {c} \in SUBSET Channels
      /\ {u} \in SUBSET Users
  BY <1>0, OnlineIn, Fields, Distinction DEF Online, ClientSet
<1>2. Synced(s, u) \in SUBSET Users /\ \A v \in Synced(s, u) : Online(s, v)
  BY <1>0, FindLoginIs DEF Synced
<1> HIDE DEF login
<1>3. Good(JOIN(s, u, c), now)
  BY <1>1, <1>2, JoinUserGood DEF JOIN, login
<1>4. Good(PART(s, u, c), now)
  BY <1>1, <1>2, PartUserGood DEF PART, login
<1>6. Good(HOP(s, u, c), now)
  <2> DEFINE out == PartUser(s, {u}, login, {c})
  <2>1. Good(out, now) /\ Online(out, u)
    BY <1>1, PartUserGood
  <2>2. HOP(s, u, c) = IF ~Subscribed(s, u, c) THEN s ELSE JoinUser(out, {u}, login, {c}, FALSE)
    BY DEF HOP, login
  <2> HIDE DEF out
  <2>3. Good(JoinUser(out, {u}, login, {c}, FALSE), now)
    BY <1>1, <2>1, JoinUserGood
  <2> QED
    BY <2>2, <2>3
<1> QED
  BY <1>3, <1>4, <1>6

LEMMA PARTALLGood ==
  ASSUME NEW s, NEW now, Good(s, now), NEW u \in Users, Online(s, u)
  PROVE  Good(PARTALL(s, u), now)
<1> DEFINE login == s.user[u].login
           chans == s.user[u].chans
           t == PartUser(s, {u}, login, chans)
<1>1. login \in Logins /\ chans \in SUBSET Channels /\ {u} \in SUBSET Users
  BY OnlineIn, Fields, Distinction DEF Good, Online, ClientSet
<1>2. PARTALL(s, u) = t
  BY DEF PARTALL
<1> HIDE DEF chans, login
<1>3. Good(t, now)
  BY <1>1, PartUserGood
<1> QED
  BY <1>2, <1>3

LEMMA MUTEGood ==
  ASSUME NEW s, NEW now, Good(s, now), NEW c \in Channels
  PROVE  Good(MUTE(s, c), now) /\ Good(UNMUTE(s, c), now)
<1>0. /\ s \in ServerSet /\ Paired(s) /\ s.ChannelList \in [Channels -> ChannelSet]
      /\ s.user = [u \in Users |-> s.user[u]] /\ s.record = [l \in Logins |-> s.record[l]]
  BY Fields DEF Good
<1>1. ASSUME NEW b \in BOOLEAN
      PROVE  Good([s EXCEPT !.ChannelList[c].muted = b], now)
  <2> DEFINE n == [s.ChannelList[c] EXCEPT !.muted = b]
             CL == [s.ChannelList EXCEPT ![c] = n]
             t == [s EXCEPT !.ChannelList[c].muted = b]
  <2>1. /\ n \in ChannelSet /\ n.listed = s.ChannelList[c].listed
        /\ n.subscribed = s.ChannelList[c].subscribed
    <3>1. s.ChannelList[c] \in ChannelSet
      BY <1>0
    <3> QED
      BY <3>1 DEF ChannelSet
  <2>2. Rejoined(s, t, s.record, s.user, CL)
    BY <1>0 DEF ServerSet, Rejoined
  <2> HIDE DEF n, t
  <2>3. CL \in [Channels -> ChannelSet] /\ CL[c] = n /\ \A d \in Channels \ {c} : CL[d] = s.ChannelList[d]
    BY <1>0, <2>1
  <2> HIDE DEF CL
  <2>4. t.user = s.user /\ t.ChannelList = CL
    BY <1>0, <2>2, RejoinedIs
  <2>5. \A d \in Channels : /\ t.ChannelList[d].listed = s.ChannelList[d].listed
                            /\ t.ChannelList[d].subscribed = s.ChannelList[d].subscribed
    BY <2>1, <2>3, <2>4
  <2>6. Paired(t)
    BY <1>0, <2>4, <2>5 DEF Paired, Subscribed, Online, Present
  <2>7. Good(t, now)
    BY <1>0, <2>2, <2>3, <2>6, ChannelsGood
  <2> QED
    BY <2>7 DEF t
<1> QED
  BY <1>1 DEF MUTE, UNMUTE

-----------------------------------------------------------------------------
(* Leaving                                                                 *)

(* A state in which clients have left.                                     *)
Disconnected(s, t, U, D, A, n, L, CL) ==
    t = [s EXCEPT !.user = U, !.reducer = D, !.AwaitingExit = A, !.not_registered_track = n,
                  !.logins = L, !.ChannelList = CL]

LEMMA WithoutClients ==
  ASSUME NEW s \in ServerSet, NEW U \in [Users -> ClientSet], NEW D \in SUBSET Users,
         NEW A \in SUBSET Users, NEW n \in Int, NEW L \in Seq(Users), NEW CL \in [Channels -> ChannelSet],
         NEW t, Disconnected(s, t, U, D, A, n, L, CL)
  PROVE  /\ t \in ServerSet /\ t.user = U /\ t.reducer = D /\ t.AwaitingExit = A
         /\ t.not_registered_track = n /\ t.logins = L /\ t.ChannelList = CL
         /\ t.record = s.record /\ t.cache = s.cache /\ t.sessions = s.sessions
         /\ t.session = s.session /\ t.GroupList = s.GroupList
         /\ t.MonitorList = s.MonitorList /\ t.NotifyList = s.NotifyList
BY DEF ServerSet, Disconnected

(* What Disconnect leaves alone.                                           *)
Left(s, t, users) ==
    /\ \A u \in Users :
         /\ t.user[u].quitting = (s.user[u].quitting \/ u \in users)
         /\ t.user[u].object = s.user[u].object /\ t.user[u].registered = s.user[u].registered
         /\ t.user[u].logged = s.user[u].logged /\ t.user[u].login = s.user[u].login
         /\ t.user[u].session = s.user[u].session /\ t.user[u].Groups = s.user[u].Groups
         /\ t.user[u].chans = s.user[u].chans /\ t.user[u].account = s.user[u].account
    /\ t.record = s.record /\ t.cache = s.cache /\ t.sessions = s.sessions
    /\ t.session = s.session /\ t.GroupList = s.GroupList
    /\ t.MonitorList = s.MonitorList /\ t.NotifyList = s.NotifyList

(* Clients that leave go from logins and from their channels; who has not  *)
(* registered is counted off.                                              *)
LEMMA DisconnectIs ==
  ASSUME NEW s \in ServerSet, Placed(s), Paired(s), NEW users \in SUBSET Users,
         \A u \in users : s.user[u].object = "here"
  PROVE  LET t == Disconnect(s, users) IN
         t \in ServerSet /\ Left(s, t, users) /\ Placed(t) /\ Paired(t)
<1> DEFINE leaving == {u \in users : ~s.user[u].quitting}
           U == [u \in Users |-> IF u \in leaving THEN [s.user[u] EXCEPT !.quitting = TRUE]
                                 ELSE s.user[u]]
           D == s.reducer \cup {u \in leaving : ~s.user[u].Locked}
           A == s.AwaitingExit \cup {u \in leaving : s.user[u].Locked}
           off == {u \in leaving : s.user[u].registered # REG_OK}
           n == s.not_registered_track - Cardinality(off)
           L == EraseLogin(s.logins, leaving)
           a == [s EXCEPT !.user = U, !.reducer = D, !.AwaitingExit = A,
                          !.not_registered_track = n, !.logins = L]
           gone(c) == {u \in leaving : c \in s.user[u].chans}
           CL == [c \in Channels |-> DeleteUser(s.ChannelList[c], gone(c))]
           t == Disconnect(s, users)
<1>0. /\ s.user \in [Users -> ClientSet] /\ s.reducer \subseteq Users /\ s.AwaitingExit \subseteq Users
      /\ s.not_registered_track \in Int /\ s.logins \in Seq(Users)
      /\ s.ChannelList \in [Channels -> ChannelSet]
  BY Fields
<1>1. t = CheckEmptyChannels(a, leaving)
  BY DEF Disconnect
<1>2. \A u \in Users : u \in leaving <=> (u \in users /\ ~s.user[u].quitting)
  OBVIOUS
<1>3. ASSUME NEW u \in Users
      PROVE  /\ U[u] \in ClientSet /\ U[u].quitting = (s.user[u].quitting \/ u \in users)
             /\ U[u].object = s.user[u].object /\ U[u].registered = s.user[u].registered
             /\ U[u].logged = s.user[u].logged /\ U[u].login = s.user[u].login
             /\ U[u].session = s.user[u].session /\ U[u].Groups = s.user[u].Groups
             /\ U[u].chans = s.user[u].chans /\ U[u].account = s.user[u].account
             /\ u \notin users => U[u] = s.user[u]
  <2>1. s.user[u] \in ClientSet
    BY <1>0
  <2>2. CASE u \in leaving
    <3>1. U[u] = [s.user[u] EXCEPT !.quitting = TRUE]
      BY <2>2
    <3> HIDE DEF U
    <3> QED
      BY <2>1, <2>2, <3>1 DEF ClientSet
  <2>3. CASE u \notin leaving
    <3>1. U[u] = s.user[u]
      BY <2>3
    <3>2. s.user[u].quitting \in BOOLEAN
      BY <2>1 DEF ClientSet
    <3> HIDE DEF U
    <3> QED
      BY <1>2, <2>1, <2>3, <3>1, <3>2
  <2> QED
    BY <2>2, <2>3
<1>4. /\ D \in SUBSET Users /\ A \in SUBSET Users /\ U \in [Users -> ClientSet]
      /\ U = [u \in Users |-> U[u]]
  BY <1>0, <1>3
<1>5. /\ IsFiniteSet(off) /\ Cardinality(off) \in Nat /\ IsFiniteSet(Unregistered(s))
      /\ off \subseteq Unregistered(s)
  <2>1. IsFiniteSet(Users) /\ off \subseteq Users /\ Unregistered(s) \subseteq Users
    BY Distinction DEF Unregistered
  <2>2. off \subseteq Unregistered(s)
    BY DEF Unregistered, Present
  <2> QED
    BY <2>1, <2>2, FS_Subset, FS_CardinalityType
<1>6. n \in Int
  BY <1>0, <1>5
<1>7. L \in Seq(Users) /\ Distinct(L) /\ ToSet(L) = ToSet(s.logins) \ leaving
  BY <1>0, EraseLoginIs DEF Placed
<1>8. ASSUME NEW c \in Channels
      PROVE  /\ CL[c] \in ChannelSet
             /\ CL[c].subscribed = s.ChannelList[c].subscribed \ gone(c)
             /\ CL[c].listed <=> CL[c].subscribed # {}
  <2>1. /\ s.ChannelList[c] \in ChannelSet
        /\ s.ChannelList[c].listed <=> s.ChannelList[c].subscribed # {}
    BY <1>0 DEF Paired
  <2>2. CL[c] = DeleteUser(s.ChannelList[c], gone(c))
    OBVIOUS
  <2> HIDE DEF CL, gone
  <2> QED
    BY <2>1, <2>2, DeleteUserIs
<1>9. CL \in [Channels -> ChannelSet]
  BY <1>8
<1>10. Disconnected(s, t, U, D, A, n, L, CL)
  <2>1. \A c \in Channels : {u \in leaving : c \in U[u].chans} = gone(c)
    BY <1>3
  <2>2. a.user = U /\ a.ChannelList = s.ChannelList
    <3> HIDE DEF U, D, A, n, L
    <3> QED
      BY DEF ServerSet
  <2> HIDE DEF a, U, gone
  <2>3. t = [a EXCEPT !.ChannelList = CL]
    BY <1>1, <2>1, <2>2 DEF CheckEmptyChannels
  <2> HIDE DEF CL, D, A, n, L, t
  <2> QED
    BY <2>3 DEF ServerSet, Disconnected, a
<1>11. \A u \in Users, c \in Channels : u \in gone(c) <=> (u \in leaving /\ c \in s.user[u].chans)
  OBVIOUS
<1>12. /\ \A u \in D : u \in s.reducer \/ (u \in leaving /\ ~s.user[u].Locked)
       /\ \A u \in A : u \in s.AwaitingExit \/ (u \in leaving /\ s.user[u].Locked)
  OBVIOUS
<1> HIDE DEF t, U, D, A, L, CL, gone, a
<1>13. /\ t \in ServerSet /\ t.user = U /\ t.reducer = D /\ t.AwaitingExit = A
       /\ t.not_registered_track = n /\ t.logins = L /\ t.ChannelList = CL
       /\ t.record = s.record /\ t.cache = s.cache /\ t.sessions = s.sessions
       /\ t.session = s.session /\ t.GroupList = s.GroupList
       /\ t.MonitorList = s.MonitorList /\ t.NotifyList = s.NotifyList
  <2> HIDE DEF n
  <2> QED
    BY <1>4, <1>6, <1>7, <1>9, <1>10, WithoutClients
<1>14. Left(s, t, users)
  BY <1>3, <1>13 DEF Left
<1>15. \A u \in Users : Present(t, u) <=> (Present(s, u) /\ u \notin leaving)
  BY <1>2, <1>3, <1>13 DEF Present
<1>16. Placed(t)
  <2>1. t.not_registered_track = Cardinality(Unregistered(t))
    <3>1. Unregistered(t) = Unregistered(s) \ off
      BY <1>3, <1>13, <1>15 DEF Unregistered
    <3>2. Unregistered(s) \cap off = off
      BY <1>5
    <3>3. Cardinality(Unregistered(s) \ off) = Cardinality(Unregistered(s)) - Cardinality(off)
      BY <1>5, <3>2, FS_Difference
    <3> QED
      BY <1>13, <3>1, <3>3 DEF Placed
  <2>2. ASSUME NEW u \in Users
        PROVE  /\ u \in ToSet(t.logins) <=> Present(t, u) /\ "LOGIN" \in t.user[u].registered
               /\ "LOGIN" \in t.user[u].registered => t.user[u].login # None
               /\ t.user[u].registered # {} => t.user[u].logged
               /\ t.user[u].object = "none" => t.user[u] = NewUser
               /\ u \in t.MonitorList \cup t.NotifyList =>
                    t.user[u].object = "here" /\ t.user[u].registered = REG_OK
               /\ u \in t.reducer \cup t.AwaitingExit => t.user[u].object = "here" /\ t.user[u].quitting
    <3>1. u \in ToSet(t.logins) <=> Present(t, u) /\ "LOGIN" \in t.user[u].registered
      BY <1>3, <1>7, <1>13, <1>15 DEF Placed
    <3>2. u \in t.reducer \cup t.AwaitingExit => t.user[u].object = "here" /\ t.user[u].quitting
      <4> SUFFICES ASSUME u \in D \cup A
                   PROVE  t.user[u].object = "here" /\ t.user[u].quitting
        BY <1>13
      <4>1. t.user[u].object = s.user[u].object /\ t.user[u].quitting = (s.user[u].quitting \/ u \in users)
        BY <1>3, <1>13
      <4>2. CASE u \in s.reducer \cup s.AwaitingExit
        BY <4>1, <4>2 DEF Placed
      <4>3. CASE u \in leaving
        BY <1>2, <4>1, <4>3
      <4> QED
        BY <1>12, <4>2, <4>3
    <3>3. t.user[u].object = "none" => t.user[u] = NewUser
      BY <1>3, <1>13 DEF Placed
    <3> QED
      BY <1>3, <1>13, <3>1, <3>2, <3>3 DEF Placed
  <2>3. t.reducer \cap t.AwaitingExit = {}
    BY <1>2, <1>12, <1>13 DEF Placed
  <2> QED
    BY <1>7, <1>13, <2>1, <2>2, <2>3 DEF Placed
<1>17. Paired(t)
  <2>1. ASSUME NEW u \in Users, NEW c \in Channels
        PROVE  /\ Subscribed(t, u, c) => Online(t, u)
               /\ Present(t, u) => (c \in t.user[u].chans <=> Subscribed(t, u, c))
    <3>1. u \in leaving => Present(s, u)
      BY <1>2 DEF Present
    <3>2. Subscribed(t, u, c) <=> (Subscribed(s, u, c) /\ u \notin leaving)
      BY <1>8, <1>11, <1>13, <3>1 DEF Subscribed, Paired
    <3>3. t.user[u].registered = s.user[u].registered /\ t.user[u].chans = s.user[u].chans
      BY <1>3, <1>13
    <3> QED
      BY <1>15, <3>2, <3>3 DEF Paired, Online
  <2> QED
    BY <1>8, <1>13, <2>1 DEF Paired
<1> QED
  BY <1>13, <1>14, <1>16, <1>17 DEF t

(* Who stays keeps what the invariant says of it.                          *)
LEMMA DisconnectKeeps ==
  ASSUME NEW s \in ServerSet, NEW now, Placed(s), Paired(s), Attached(s), Cached(s), Grouped(s),
         Dated(s, now), NEW users \in SUBSET Users, \A u \in users : s.user[u].object = "here",
         ~DefaultReturns =>
           /\ DefaultKept(s)
           /\ \A u \in Users \ users :
                Online(s, u) /\ s.user[u].account = s.record[s.user[u].login].created =>
                  s.user[u].Groups = s.record[s.user[u].login].groups
                                       \cap {g \in GroupNames : s.GroupList[g].listed}
  PROVE  Good(Disconnect(s, users), now)
<1> DEFINE t == Disconnect(s, users)
<1>1. t \in ServerSet /\ Left(s, t, users) /\ Placed(t) /\ Paired(t)
  BY DisconnectIs
<1> HIDE DEF t
<1>2. \A u \in Users : Online(t, u) <=> (Online(s, u) /\ u \notin users)
  BY <1>1 DEF Left, Online, Present
<1>3. Attached(t)
  <2>1. \A l \in Logins : s.sessions[l] \in Users \cup {None}
    BY Fields
  <2> QED
    BY <1>1, <1>2, <2>1 DEF Attached, Left, Exists
<1>4. Cached(t) /\ Grouped(t)
  BY <1>1 DEF Cached, Grouped, Left, Exists
<1>5. Dated(t, now)
  BY <1>1 DEF Dated, Left, Exists
<1>6. ~DefaultReturns => Matching(t) /\ DefaultKept(t)
  BY <1>1, <1>2 DEF Matching, DefaultKept, Left
<1> QED
  BY <1>1, <1>3, <1>4, <1>5, <1>6 DEF Good, t

LEMMA DisconnectGood ==
  ASSUME NEW s, NEW now, Good(s, now), NEW users \in SUBSET Users,
         \A u \in users : s.user[u].object = "here"
  PROVE  Good(Disconnect(s, users), now)
<1>1. /\ s \in ServerSet /\ Placed(s) /\ Attached(s) /\ Cached(s) /\ Grouped(s) /\ Dated(s, now)
      /\ Paired(s) /\ (~DefaultReturns => Matching(s) /\ DefaultKept(s))
  BY DEF Good
<1> QED
  BY <1>1, DisconnectKeeps DEF Matching

LEMMA DisconnectAllGood ==
  ASSUME NEW s, NEW now, Good(s, now), NEW login
  PROVE  Good(DisconnectAll(s, login), now)
<1>1. /\ FindLogin(s, login) \in SUBSET Users
      /\ \A u \in FindLogin(s, login) : s.user[u].object = "here"
  BY FindLoginIs DEF Good, Online, Present
<1> QED
  BY <1>1, DisconnectGood DEF DisconnectAll

LEMMA LOGOUTGood ==
  ASSUME NEW s, NEW now, Good(s, now), NEW v \in Users
  PROVE  Good(LOGOUT(s, v), now)
<1>1. {v} \in SUBSET Users
  OBVIOUS
<1> QED
  BY <1>1, DisconnectGood DEF LOGOUT

(* What Disconnect leaves of the records and the cache.                    *)
LEMMA DisconnectAllExists ==
  ASSUME NEW s, NEW now, Good(s, now), NEW login \in Logins
  PROVE  Exists(DisconnectAll(s, login), login) <=> Exists(s, login)
<1>1. /\ FindLogin(s, login) \in SUBSET Users
      /\ \A u \in FindLogin(s, login) : s.user[u].object = "here"
  BY FindLoginIs DEF Good, Online, Present
<1>2. Left(s, DisconnectAll(s, login), FindLogin(s, login))
  BY <1>1, DisconnectIs DEF Good, DisconnectAll
<1> QED
  BY <1>2 DEF Left, Exists

LEMMA SETSTATUSGood ==
  ASSUME NEW s, NEW now, Good(s, now), NEW login \in Logins, NEW status \in BOOLEAN, Exists(s, login)
  PROVE  Good(SETSTATUS(s, login, status), now)
<1> DEFINE d == DisconnectAll(s, login)
<1>1. Good(d, now) /\ Exists(d, login)
  BY DisconnectAllGood, DisconnectAllExists
<1> HIDE DEF d
<1>2. CASE status
  <2>1. StatusWritten(s, SETSTATUS(s, login, status), login, status)
    BY <1>2 DEF SETSTATUS, StatusWritten
  <2> QED
    BY <2>1, StatusGood
<1>3. CASE ~status
  <2>1. StatusWritten(d, SETSTATUS(s, login, status), login, status)
    BY <1>3 DEF SETSTATUS, StatusWritten, d
  <2> QED
    BY <1>1, <2>1, StatusGood
<1> QED
  BY <1>2, <1>3

(* The instances of an account that goes go with it.                       *)
LEMMA DELUSERGood ==
  ASSUME NEW s, NEW now \in Nat, Good(s, now), NEW login \in Logins, login # Root
  PROVE  Good(DELUSER(s, login), now + 1)
<1> DEFINE C == [s.cache EXCEPT ![login] = None]
           R == [s.record EXCEPT ![login] = NoRecord]
           r == RemoveLogin(s, login)
<1>0. /\ s \in ServerSet /\ s.MonitorList \subseteq Users /\ s.NotifyList \subseteq Users
      /\ s.record \in [Logins -> RecordSet] /\ s.cache \in [Logins -> Passwords \cup {None}]
      /\ s.user \in [Users -> ClientSet]
      /\ Placed(s) /\ Attached(s) /\ Cached(s) /\ Grouped(s) /\ Dated(s, now)
      /\ Paired(s) /\ (~DefaultReturns => Matching(s) /\ DefaultKept(s))
  BY Fields DEF Good
<1>1. NoRecord \in RecordSet /\ NoRecord.created = None /\ ~NoRecord.status /\ NoRecord.groups = {}
  BY DEF NoRecord, RecordSet
<1>2. Recorded(s, r, R, C, s.MonitorList, s.NotifyList)
  BY <1>0 DEF ServerSet, RemoveLogin, Recorded
<1>3. /\ R \in [Logins -> RecordSet] /\ C \in [Logins -> Passwords \cup {None}]
      /\ R[login] = NoRecord /\ (\A l \in Logins \ {login} : R[l] = s.record[l])
      /\ C[login] = None /\ (\A l \in Logins \ {login} : C[l] = s.cache[l])
  BY <1>0, <1>1
<1> HIDE DEF r, R, C
<1>4. /\ r \in ServerSet /\ r.record = R /\ r.cache = C
      /\ r.MonitorList = s.MonitorList /\ r.NotifyList = s.NotifyList
      /\ SamePlaces(s, r) /\ SameChannels(s, r)
      /\ r.user = s.user /\ r.sessions = s.sessions /\ r.session = s.session
      /\ r.GroupList = s.GroupList
  BY <1>0, <1>2, <1>3, WithRecord
<1>5. Placed(r) /\ Paired(r)
  BY <1>0, <1>4, PlacedKept, PairedKept DEF Listeners
<1>6. Attached(r)
  <2>1. \A u \in Users : Online(r, u) <=> Online(s, u)
    BY <1>4 DEF Online, Present
  <2>2. Exists(r, Root) /\ "r" \in r.record[Root].flags
    BY <1>0, <1>3, <1>4, Distinction DEF Attached, Exists
  <2> QED
    BY <1>0, <1>4, <2>1, <2>2 DEF Attached
<1>7. Cached(r)
  BY <1>0, <1>1, <1>3, <1>4 DEF Cached, Exists
<1>8. Grouped(r)
  BY <1>0, <1>1, <1>3, <1>4 DEF Grouped
<1>9. Dated(r, now + 1)
  <2>1. ASSUME NEW l \in Logins, Exists(r, l)
        PROVE  r.record[l].created <= now + 1
    <3>1. l # login /\ r.record[l] = s.record[l]
      BY <1>1, <1>3, <1>4, <2>1 DEF Exists
    <3>2. s.record[l].created \in Nat
      BY <1>0, <2>1, <3>1 DEF Exists, RecordSet
    <3>3. s.record[l].created <= now
      BY <1>0, <2>1, <3>1 DEF Exists, Dated
    <3> QED
      BY <3>1, <3>2, <3>3
  <2>2. ASSUME NEW u \in Users, s.user[u].account # None
        PROVE  s.user[u].account < now + 1
    <3>1. s.user[u].account \in Nat /\ s.user[u].account <= now
      BY <1>0, <2>2 DEF Dated, ClientSet
    <3> QED
      BY <3>1
  <2>3. ASSUME NEW u \in Users, s.user[u].account # None
        PROVE  s.user[u].account <= now + 1
    <3>1. s.user[u].account \in Nat /\ s.user[u].account <= now
      BY <1>0, <2>3 DEF Dated, ClientSet
    <3> QED
      BY <3>1
  <2> QED
    BY <1>0, <1>4, <2>1, <2>2, <2>3 DEF Dated
<1>10. FindLogin(r, login) = {u \in Users : Online(r, u) /\ r.user[u].login = login}
  BY <1>4, <1>5, FindLoginIs
<1>11. ASSUME ~DefaultReturns
       PROVE  /\ DefaultKept(r)
              /\ \A u \in Users \ FindLogin(r, login) :
                   Online(r, u) /\ r.user[u].account = r.record[r.user[u].login].created =>
                     r.user[u].Groups = r.record[r.user[u].login].groups
                                          \cap {g \in GroupNames : r.GroupList[g].listed}
  <2>1. DefaultKept(r)
    BY <1>0, <1>4, <1>11 DEF DefaultKept
  <2>2. ASSUME NEW u \in Users, Online(r, u), u \notin FindLogin(r, login),
               r.user[u].account = r.record[r.user[u].login].created
        PROVE  r.user[u].Groups = r.record[r.user[u].login].groups
                                    \cap {g \in GroupNames : r.GroupList[g].listed}
    <3>1. Online(s, u) /\ s.user[u].login # login
      BY <1>4, <1>10, <2>2 DEF Online, Present
    <3>2. s.user[u].login \in Logins
      BY <1>0, <3>1, OnlineIn, Distinction DEF Online
    <3>3. r.record[r.user[u].login] = s.record[s.user[u].login]
      BY <1>3, <1>4, <3>1, <3>2
    <3> QED
      BY <1>0, <1>4, <1>11, <2>2, <3>1, <3>3 DEF Matching
  <2> QED
    BY <2>1, <2>2
<1>12. FindLogin(r, login) \in SUBSET Users /\ \A u \in FindLogin(r, login) : r.user[u].object = "here"
  BY <1>10 DEF Online, Present
<1>13. DELUSER(s, login) = Disconnect(r, FindLogin(r, login))
  BY DEF DELUSER, DisconnectAll, r
<1> QED
  BY <1>4, <1>5, <1>6, <1>7, <1>8, <1>9, <1>11, <1>12, <1>13, DisconnectKeeps

-----------------------------------------------------------------------------
(* Coming                                                                  *)

LEMMA AppendIs ==
  ASSUME NEW list \in Seq(Users), NEW u \in Users, Distinct(list), u \notin ToSet(list)
  PROVE  LET new == Append(list, u) IN
         new \in Seq(Users) /\ Distinct(new) /\ ToSet(new) = ToSet(list) \cup {u}
<1> DEFINE new == Append(list, u)
           N == Len(list)
<1>1. /\ N \in Nat /\ DOMAIN list = 1 .. N /\ new \in Seq(Users) /\ DOMAIN new = 1 .. N + 1
      /\ new[N + 1] = u /\ \A i \in 1 .. N : new[i] = list[i]
  OBVIOUS
<1>2. \A i \in 1 .. N : list[i] # u
  BY <1>1 DEF ToSet
<1> HIDE DEF new, N
<1>3. Distinct(new)
  BY <1>1, <1>2 DEF Distinct
<1>4. ToSet(new) = ToSet(list) \cup {u}
  <2>1. \A i \in 1 .. N + 1 : i = N + 1 \/ i \in 1 .. N
    BY <1>1
  <2>2. N + 1 \in DOMAIN new /\ \A i \in 1 .. N : i \in DOMAIN new
    BY <1>1
  <2> QED
    BY <1>1, <2>1, <2>2 DEF ToSet
<1> QED
  BY <1>1, <1>3, <1>4 DEF new

(* A state in which one client is another.                                 *)
Moved(s, t, u, n, L, k, C) ==
    t = [s EXCEPT !.user = [s.user EXCEPT ![u] = n], !.logins = L, !.not_registered_track = k,
                  !.cache = C]

LEMMA MovedIs ==
  ASSUME NEW s \in ServerSet, NEW u \in Users, NEW n \in ClientSet, NEW L \in Seq(Users),
         NEW k \in Int, NEW C \in [Logins -> Passwords \cup {None}], NEW t, Moved(s, t, u, n, L, k, C)
  PROVE  /\ t \in ServerSet /\ t.user[u] = n /\ t.logins = L /\ t.not_registered_track = k
         /\ \A v \in Users \ {u} : t.user[v] = s.user[v]
         /\ t.cache = C /\ t.record = s.record /\ t.sessions = s.sessions
         /\ t.session = s.session /\ t.GroupList = s.GroupList /\ t.ChannelList = s.ChannelList
         /\ t.MonitorList = s.MonitorList /\ t.NotifyList = s.NotifyList
         /\ t.reducer = s.reducer /\ t.AwaitingExit = s.AwaitingExit
<1> DEFINE U == [s.user EXCEPT ![u] = n]
<1>1. U \in [Users -> ClientSet] /\ U[u] = n /\ \A v \in Users \ {u} : U[v] = s.user[v]
  BY Fields
<1>2. t = [s EXCEPT !.user = U, !.logins = L, !.not_registered_track = k, !.cache = C]
  BY DEF Moved
<1> HIDE DEF U
<1> QED
  BY <1>1, <1>2 DEF ServerSet

(* One that has given no login comes, or gives one and waits to be let in. *)
LEMMA ArriveGood ==
  ASSUME NEW s, NEW now, Good(s, now), NEW u \in Users,
         ~s.user[u].logged, ~s.user[u].quitting, s.user[u].object \in {"none", "here"},
         NEW n \in ClientSet, n.object = "here", ~n.quitting, n.registered # REG_OK,
         n.registered # {} => n.logged, "LOGIN" \in n.registered => n.login # None,
         ~n.logged => n.login = None, n.account = None,
         n.session = s.user[u].session, n.chans = s.user[u].chans,
         NEW L, L = IF "LOGIN" \in n.registered THEN Append(s.logins, u) ELSE s.logins,
         NEW k, k = IF s.user[u].object = "here" THEN s.not_registered_track
                    ELSE s.not_registered_track + 1,
         NEW C \in [Logins -> Passwords \cup {None}], NEW t, Moved(s, t, u, n, L, k, C), Cached(t)
  PROVE  Good(t, now)
<1>0. /\ s \in ServerSet /\ s.not_registered_track \in Int /\ s.logins \in Seq(Users)
      /\ s.sessions \in [Logins -> Users \cup {None}]
      /\ Placed(s) /\ Attached(s) /\ Cached(s) /\ Grouped(s) /\ Dated(s, now)
      /\ Paired(s) /\ (~DefaultReturns => Matching(s) /\ DefaultKept(s))
  BY Fields DEF Good
<1>1. /\ s.user[u].registered = {} /\ s.user[u].login = None /\ s.user[u].account = None
      /\ s.user[u].session = None
      /\ u \notin s.MonitorList \cup s.NotifyList /\ u \notin s.reducer \cup s.AwaitingExit
      /\ u \notin ToSet(s.logins)
  BY <1>0, Distinction DEF Placed, Dated, Attached
<1>2. L \in Seq(Users) /\ Distinct(L)
      /\ ToSet(L) = ToSet(s.logins) \cup (IF "LOGIN" \in n.registered THEN {u} ELSE {})
  BY <1>0, <1>1, AppendIs DEF Placed
<1>3. k \in Int
  BY <1>0
<1>4. /\ t \in ServerSet /\ t.user[u] = n /\ t.logins = L /\ t.not_registered_track = k
      /\ \A v \in Users \ {u} : t.user[v] = s.user[v]
      /\ t.cache = C /\ t.record = s.record /\ t.sessions = s.sessions
      /\ t.session = s.session /\ t.GroupList = s.GroupList /\ t.ChannelList = s.ChannelList
      /\ t.MonitorList = s.MonitorList /\ t.NotifyList = s.NotifyList
      /\ t.reducer = s.reducer /\ t.AwaitingExit = s.AwaitingExit
  <2>1. Moved(s, t, u, n, L, k, C)
    OBVIOUS
  <2>2. n \in ClientSet /\ C \in [Logins -> Passwords \cup {None}]
    OBVIOUS
  <2> QED
    BY ONLY <1>0, <1>2, <1>3, <2>1, <2>2, MovedIs
<1>5. /\ Present(t, u) /\ ~Online(t, u) /\ ~Online(s, u)
      /\ \A v \in Users \ {u} : (Present(t, v) <=> Present(s, v)) /\ (Online(t, v) <=> Online(s, v))
  BY <1>1, <1>4, Distinction DEF Present, Online
<1>6. Placed(t)
  <2>1. t.not_registered_track = Cardinality(Unregistered(t))
    <3>1. Unregistered(t) = Unregistered(s) \cup {u}
      BY <1>4, <1>5 DEF Unregistered
    <3>2. u \in Unregistered(s) <=> s.user[u].object = "here"
      BY <1>1, Distinction DEF Unregistered, Present
    <3>3. IsFiniteSet(Unregistered(s))
      <4>1. Unregistered(s) \in SUBSET Users
        BY DEF Unregistered
      <4> QED
        BY <4>1, Distinction, FS_Subset
    <3>4. Cardinality(Unregistered(s) \cup {u})
            = IF u \in Unregistered(s) THEN Cardinality(Unregistered(s)) ELSE Cardinality(Unregistered(s)) + 1
      BY <3>3, FS_AddElement
    <3>5. s.not_registered_track = Cardinality(Unregistered(s))
      BY <1>0 DEF Placed
    <3> QED
      BY <1>4, <3>1, <3>2, <3>4, <3>5
  <2>2. ASSUME NEW v \in Users
        PROVE  /\ v \in ToSet(t.logins) <=> Present(t, v) /\ "LOGIN" \in t.user[v].registered
               /\ "LOGIN" \in t.user[v].registered => t.user[v].login # None
               /\ t.user[v].registered # {} => t.user[v].logged
               /\ t.user[v].object = "none" => t.user[v] = NewUser
               /\ v \in t.MonitorList \cup t.NotifyList =>
                    t.user[v].object = "here" /\ t.user[v].registered = REG_OK
               /\ v \in t.reducer \cup t.AwaitingExit => t.user[v].object = "here" /\ t.user[v].quitting
    <3>1. CASE v = u
      BY <1>1, <1>2, <1>4, <1>5, <3>1
    <3>2. CASE v # u
      BY <1>0, <1>2, <1>4, <1>5, <3>2 DEF Placed
    <3> QED
      BY <3>1, <3>2
  <2> QED
    BY <1>0, <1>2, <1>4, <2>1, <2>2 DEF Placed
<1>7. Attached(t)
  <2>1. ASSUME NEW v \in Users
        PROVE  /\ Online(t, v) => /\ t.sessions[t.user[v].login] # None
                                  /\ t.user[v].session = t.sessions[t.user[v].login]
               /\ t.user[v].session # None => t.user[v].registered = REG_OK
    BY <1>0, <1>1, <1>4, <1>5 DEF Attached
  <2>2. ASSUME NEW l \in Logins, t.sessions[l] # None
        PROVE  /\ t.user[t.sessions[l]].login = l
               /\ \E v \in Users : /\ t.user[v].object = "here" /\ t.user[v].login = l
                                  /\ t.user[v].registered = REG_OK
    <3>1. s.sessions[l] \in Users /\ s.user[s.sessions[l]].login = l
      BY <1>0, <1>4, <2>2 DEF Attached
    <3>2. s.sessions[l] # u
      BY <1>1, <3>1, Distinction
    <3>3. PICK v \in Users : /\ s.user[v].object = "here" /\ s.user[v].login = l
                             /\ s.user[v].registered = REG_OK
      BY <1>0, <1>4, <2>2 DEF Attached
    <3>4. v # u
      BY <1>1, <3>3, Distinction
    <3> QED
      BY <1>4, <3>1, <3>2, <3>3, <3>4
  <2> QED
    BY <1>0, <1>4, <2>1, <2>2 DEF Attached, Exists
<1>8. Grouped(t)
  BY <1>0, <1>4 DEF Grouped
<1>9. Dated(t, now)
  <2>1. \A v \in Users : t.user[v].account # None => v # u /\ t.user[v] = s.user[v]
    BY <1>4
  <2>2. \A v \in Users : ~t.user[v].logged => t.user[v].login = None /\ t.user[v].account = None
    BY <1>0, <1>4 DEF Dated
  <2> QED
    BY <1>0, <1>4, <2>1, <2>2 DEF Dated, Exists
<1>10. Paired(t)
  <2>1. \A c \in Channels : ~Subscribed(s, u, c) /\ c \notin n.chans
    <3>1. CASE s.user[u].object = "here"
      BY <1>0, <1>5, <3>1 DEF Paired, Present
    <3>2. CASE s.user[u].object = "none"
      BY <1>0, <1>5, <3>2 DEF Paired, Placed, NewUser
    <3> QED
      BY <3>1, <3>2
  <2> QED
    BY <1>0, <1>4, <1>5, <2>1 DEF Paired, Subscribed
<1>11. ~DefaultReturns => Matching(t) /\ DefaultKept(t)
  BY <1>0, <1>4, <1>5 DEF Matching, DefaultKept
<1> QED
  BY <1>4, <1>6, <1>7, <1>8, <1>9, <1>10, <1>11 DEF Good

LEMMA AcceptGood ==
  ASSUME NEW s, NEW now, Good(s, now), NEW u \in Users, s.user[u].object = "none"
  PROVE  LET t == [s EXCEPT !.user[u].object = "here", !.not_registered_track = @ + 1] IN
         Good(t, now) /\ t.user[u].object = "here"
<1> DEFINE n == [s.user[u] EXCEPT !.object = "here"]
           k == s.not_registered_track + 1
           t == [s EXCEPT !.user[u].object = "here", !.not_registered_track = @ + 1]
<1>0. /\ s \in ServerSet /\ Placed(s) /\ Cached(s) /\ s.user \in [Users -> ClientSet]
      /\ s.not_registered_track \in Int /\ s.logins \in Seq(Users)
      /\ s.cache \in [Logins -> Passwords \cup {None}]
  BY Fields DEF Good
<1>1. s.user[u] = NewUser
  BY <1>0 DEF Placed
<1>2. s.user[u] \in ClientSet
  BY <1>0
<1>3. /\ n \in ClientSet /\ n.object = "here" /\ ~n.quitting /\ n.registered = {} /\ ~n.logged
      /\ n.login = None /\ n.account = None /\ n.session = s.user[u].session
      /\ n.chans = s.user[u].chans /\ ~s.user[u].logged /\ ~s.user[u].quitting
  <2>1. /\ ~NewUser.quitting /\ NewUser.registered = {} /\ ~NewUser.logged
        /\ NewUser.login = None /\ NewUser.account = None
    BY DEF NewUser
  <2>2. /\ n \in ClientSet /\ n.object = "here" /\ n.quitting = s.user[u].quitting
        /\ n.registered = s.user[u].registered /\ n.logged = s.user[u].logged
        /\ n.login = s.user[u].login /\ n.account = s.user[u].account
        /\ n.session = s.user[u].session /\ n.chans = s.user[u].chans
    BY <1>2 DEF ClientSet
  <2> HIDE DEF n
  <2> QED
    BY <1>1, <2>1, <2>2
<1>4. Moved(s, t, u, n, s.logins, k, s.cache)
  <2>1. t = [s EXCEPT !.user = [s.user EXCEPT ![u] = n], !.not_registered_track = k]
    OBVIOUS
  <2> HIDE DEF n, k, t
  <2> QED
    BY <1>0, <2>1 DEF ServerSet, Moved
<1>5. k \in Int
  BY <1>0
<1>6. k = IF s.user[u].object = "here" THEN s.not_registered_track ELSE s.not_registered_track + 1
  OBVIOUS
<1> HIDE DEF n, k, t
<1>7. t.user[u] = n /\ t.cache = s.cache /\ t.record = s.record
  BY <1>0, <1>3, <1>4, <1>5, MovedIs
<1>8. Cached(t)
  BY <1>0, <1>7 DEF Cached, Exists
<1>9. Good(t, now)
  BY <1>0, <1>3, <1>4, <1>6, <1>8, Distinction, ArriveGood
<1> QED
  BY <1>3, <1>7, <1>9 DEF t

(* The three commands of a client that identifies itself.                  *)
LEMMA IdentifyGood ==
  ASSUME NEW s, NEW now, Good(s, now), NEW u \in Users, Present(s, u), ~s.user[u].logged,
         NEW login \in Logins, NEW pass \in Passwords
  PROVE  Good(LOGIN(AUTH(AGENT(s, u), u, pass), u, login), now)
<1> DEFINE p == AUTH(AGENT(s, u), u, pass)
           n0 == [s.user[u] EXCEPT !.registered = {"USER"}, !.auth = pass]
           n1 == [n0 EXCEPT !.logged = TRUE, !.login = login]
           n2 == [n1 EXCEPT !.registered = REG_LOGINUSER]
           q == [p EXCEPT !.user[u].logged = TRUE, !.user[u].login = login]
           C == [s.cache EXCEPT ![login] = pass]
           t == LOGIN(p, u, login)
<1>0. /\ s \in ServerSet /\ Placed(s) /\ Cached(s) /\ s.user \in [Users -> ClientSet]
      /\ s.not_registered_track \in Int /\ s.logins \in Seq(Users)
      /\ s.cache \in [Logins -> Passwords \cup {None}] /\ s.record \in [Logins -> RecordSet]
  BY Fields DEF Good
<1>1. s.user[u] \in ClientSet /\ s.user[u].registered = {} /\ ~s.user[u].quitting
      /\ s.user[u].object = "here"
  BY <1>0 DEF Placed, Present
<1>2. n0 \in ClientSet /\ n0.auth = pass /\ ~n0.logged /\ ~n0.quitting /\ n0.registered = {"USER"}
  BY <1>1 DEF ClientSet, REG_USER
<1>3. /\ n1 \in ClientSet /\ n1.object = "here" /\ ~n1.quitting /\ n1.registered = REG_USER
      /\ n1.logged /\ n1.login = login /\ n1.session = s.user[u].session
      /\ n1.chans = s.user[u].chans /\ n1.account = s.user[u].account
  BY <1>1, <1>2 DEF ClientSet, REG_USER
<1>4. /\ n2 \in ClientSet /\ n2.object = "here" /\ ~n2.quitting /\ n2.registered = REG_LOGINUSER
      /\ n2.logged /\ n2.login = login /\ n2.session = s.user[u].session
      /\ n2.chans = s.user[u].chans /\ n2.account = s.user[u].account
  <2> HIDE DEF n1
  <2> QED
    BY <1>3 DEF ClientSet
<1>5. p = [s EXCEPT !.user = [s.user EXCEPT ![u] = n0]]
  <2>1. AGENT(s, u) = [s EXCEPT !.user = [s.user EXCEPT ![u] = [s.user[u] EXCEPT !.registered = {"USER"}]]]
    BY <1>0, <1>1 DEF ServerSet, AGENT
  <2> DEFINE m == [s.user[u] EXCEPT !.registered = {"USER"}]
  <2>2. n0 = [m EXCEPT !.auth = pass]
    BY <1>1 DEF ClientSet
  <2> DEFINE b == AGENT(s, u)
             V == [s.user EXCEPT ![u] = m]
  <2>3. p = [b EXCEPT !.user = [b.user EXCEPT ![u] = [b.user[u] EXCEPT !.auth = pass]]]
    BY DEF AUTH
  <2> HIDE DEF m, n0, b, p
  <2>4. V[u] = m /\ [V EXCEPT ![u] = n0] = [s.user EXCEPT ![u] = n0]
    BY <1>0
  <2>5. b = [s EXCEPT !.user = V]
    BY <2>1 DEF b, m
  <2> HIDE DEF V
  <2>6. b.user = V
    BY <2>5 DEF ServerSet
  <2>7. p = [b EXCEPT !.user = [s.user EXCEPT ![u] = n0]]
    BY <2>2, <2>3, <2>4, <2>6
  <2> QED
    BY <2>5, <2>7 DEF ServerSet
<1>6. /\ p.user[u] = n0 /\ p.record = s.record /\ p.cache = s.cache /\ p.logins = s.logins
      /\ p.user = [s.user EXCEPT ![u] = n0]
  <2> HIDE DEF n0, p
  <2> QED
    BY <1>0, <1>5 DEF ServerSet
<1> HIDE DEF n0
<1>7. q = [s EXCEPT !.user = [s.user EXCEPT ![u] = n1]]
  <2> HIDE DEF p
  <2>1. q = [p EXCEPT !.user = [s.user EXCEPT ![u] = n1]]
    BY <1>0, <1>6
  <2> HIDE DEF n1, q
  <2> QED
    BY <1>0, <1>5, <2>1 DEF ServerSet
<1>8. t = IF Accepts(p, login, pass)
          THEN [CheckPass(q, login, pass) EXCEPT !.logins = Append(@, u), !.user[u].registered = @ \cup {"LOGIN"}]
          ELSE Disconnect(q, {u})
  <2> HIDE DEF p, q
  <2>1. ~p.user[u].logged /\ ~p.user[u].quitting /\ p.user[u].auth = pass
    BY <1>2, <1>6
  <2> QED
    BY <2>1 DEF LOGIN, q
<1> HIDE DEF p, q, n1
<1>9. q.record = s.record /\ q.cache = s.cache /\ q.user = [s.user EXCEPT ![u] = n1] /\ q.logins = s.logins
  BY <1>0, <1>7 DEF ServerSet
<1>10. n1.account = None /\ n2.account = None
  BY <1>1, <1>3, <1>4 DEF Good, Dated
<1>11. CASE Accepts(p, login, pass)
  <2>1. CheckPass(q, login, pass) = [q EXCEPT !.cache[login] = pass]
    BY <1>6, <1>9, <1>11 DEF CheckPass, Accepts, InCache
  <2>2. n1.registered \cup {"LOGIN"} = REG_LOGINUSER
    BY <1>3 DEF REG_USER, REG_LOGINUSER
  <2>3. Moved(s, t, u, n2, Append(s.logins, u), s.not_registered_track, C)
    <3> DEFINE c == [q EXCEPT !.cache[login] = pass]
               V == [s.user EXCEPT ![u] = n1]
    <3>1. c = [q EXCEPT !.cache = C]
      BY <1>9
    <3>2. V[u] = n1 /\ [V EXCEPT ![u] = n2] = [s.user EXCEPT ![u] = n2]
      BY <1>0
    <3>3. c.logins = s.logins /\ c.user = V
      <4> HIDE DEF C, V, n2, c
      <4> QED
        BY <1>0, <1>7, <1>9, <3>1 DEF ServerSet, V
    <3>4. t = [c EXCEPT !.logins = Append(c.logins, u),
                        !.user = [c.user EXCEPT ![u] = [c.user[u] EXCEPT !.registered = @ \cup {"LOGIN"}]]]
      <4> HIDE DEF t
      <4>1. t = [CheckPass(q, login, pass) EXCEPT !.logins = Append(@, u), !.user[u].registered = @ \cup {"LOGIN"}]
        BY <1>8, <1>11
      <4> QED
        BY <2>1, <4>1
    <3>5. [n1 EXCEPT !.registered = @ \cup {"LOGIN"}] = n2
      BY <2>2
    <3> HIDE DEF C, V, n2, t, c
    <3>6. t = [c EXCEPT !.logins = Append(s.logins, u), !.user = [s.user EXCEPT ![u] = n2]]
      BY <3>2, <3>3, <3>4, <3>5
    <3> DEFINE L == Append(s.logins, u)
               W == [s.user EXCEPT ![u] = n2]
    <3> HIDE DEF L, W
    <3>7. t = [c EXCEPT !.logins = L, !.user = W]
      BY <3>6 DEF L, W
    <3>8. t = [s EXCEPT !.user = W, !.logins = L, !.not_registered_track = s.not_registered_track,
                        !.cache = C]
      BY <1>0, <1>7, <3>1, <3>7 DEF ServerSet
    <3> QED
      BY <3>8 DEF Moved, L, W
  <2>4. C \in [Logins -> Passwords \cup {None}] /\ C[login] = pass
        /\ \A l \in Logins \ {login} : C[l] = s.cache[l]
    BY <1>0
  <2> DEFINE L == Append(s.logins, u)
  <2>4a. L \in Seq(Users) /\ L = IF "LOGIN" \in n2.registered THEN Append(s.logins, u) ELSE s.logins
    BY <1>0, <1>4, Distinction
  <2>4b. Moved(s, t, u, n2, L, s.not_registered_track, C)
    BY <2>3
  <2> HIDE DEF C, n2, t, L
  <2>5. t.cache = C /\ t.record = s.record
    <3>1. s \in ServerSet /\ s.not_registered_track \in Int
      BY <1>0
    <3>2. n2 \in ClientSet
      BY <1>4
    <3>3. L \in Seq(Users) /\ C \in [Logins -> Passwords \cup {None}]
      BY <2>4, <2>4a
    <3> DEFINE k == s.not_registered_track
    <3>4. Moved(s, t, u, n2, L, k, C) /\ k \in Int
      BY <2>4b, <3>1
    <3> HIDE DEF k
    <3> QED
      BY <3>1, <3>2, <3>3, <3>4, MovedIs
  <2>6. Exists(s, login) /\ s.record[login].status /\ s.record[login].pass = pass
    BY <1>0, <1>6, <1>11, Distinction DEF Accepts, InCache, Cached
  <2>7. Cached(t)
    BY <1>0, <2>4, <2>5, <2>6 DEF Cached, Exists
  <2>8. Good(t, now)
    <3>1. s.not_registered_track = IF s.user[u].object = "here" THEN s.not_registered_track
                                   ELSE s.not_registered_track + 1
      BY <1>1
    <3>2. n2.registered # REG_OK
      BY <1>4, Distinction
    <3>3. s.user[u].object \in {"none", "here"} /\ ~s.user[u].logged /\ n2.login # None
      BY <1>1, <1>4, Distinction
    <3> HIDE DEF p
    <3> QED
      BY <1>1, <1>4, <1>10, <2>4, <2>4a, <2>4b, <2>7, <3>1, <3>2, <3>3, ArriveGood
  <2> QED
    BY <2>8 DEF t, p
<1>12. CASE ~Accepts(p, login, pass)
  <2>1. Moved(s, q, u, n1, s.logins, s.not_registered_track, s.cache)
    BY <1>0, <1>7 DEF ServerSet, Moved
  <2>2. Cached(q)
    BY <1>0, <1>9 DEF Cached, Exists
  <2>3. Good(q, now)
    <3>1. s.not_registered_track = IF s.user[u].object = "here" THEN s.not_registered_track
                                   ELSE s.not_registered_track + 1
      BY <1>1
    <3>2. n1.registered # REG_OK /\ "LOGIN" \notin n1.registered
      BY <1>3, Distinction
    <3>3. s.logins = IF "LOGIN" \in n1.registered THEN Append(s.logins, u) ELSE s.logins
      BY <3>2
    <3> QED
      BY <1>0, <1>1, <1>3, <1>10, <2>1, <2>2, <3>1, <3>2, <3>3, ArriveGood
  <2>4. {u} \in SUBSET Users /\ \A v \in {u} : q.user[v].object = "here"
    BY <1>0, <1>3, <1>9
  <2>5. Good(Disconnect(q, {u}), now)
    BY <2>3, <2>4, DisconnectGood
  <2> QED
    BY <1>8, <1>12, <2>5 DEF p
<1> QED
  BY <1>11, <1>12

(* A client waits for an answer, or gets it.                               *)
LEMMA LockedGood ==
  ASSUME NEW s, NEW now, Good(s, now), NEW u \in Users, s.user[u].object # "none", NEW b \in BOOLEAN
  PROVE  Good([s EXCEPT !.user[u].Locked = b], now)
<1> DEFINE n == [s.user[u] EXCEPT !.Locked = b]
           t == [s EXCEPT !.user[u].Locked = b]
<1>0. /\ s \in ServerSet /\ s.user \in [Users -> ClientSet] /\ s.not_registered_track \in Int
      /\ s.logins \in Seq(Users) /\ s.cache \in [Logins -> Passwords \cup {None}]
  BY Fields DEF Good
<1>1. s.user[u] \in ClientSet
  BY <1>0
<1>2. /\ n \in ClientSet
      /\ n.object = s.user[u].object /\ n.quitting = s.user[u].quitting
      /\ n.registered = s.user[u].registered /\ n.logged = s.user[u].logged
      /\ n.login = s.user[u].login /\ n.session = s.user[u].session
      /\ n.Groups = s.user[u].Groups /\ n.account = s.user[u].account
      /\ n.chans = s.user[u].chans
  BY <1>1 DEF ClientSet
<1>3. Moved(s, t, u, n, s.logins, s.not_registered_track, s.cache)
  <2>1. t = [s EXCEPT !.user = [s.user EXCEPT ![u] = n]]
    OBVIOUS
  <2> HIDE DEF n, t
  <2> QED
    BY <1>0, <2>1 DEF ServerSet, Moved
<1> HIDE DEF n, t
<1>4. /\ t \in ServerSet /\ t.user[u] = n /\ t.logins = s.logins
      /\ t.not_registered_track = s.not_registered_track
      /\ \A v \in Users \ {u} : t.user[v] = s.user[v]
      /\ t.cache = s.cache /\ t.record = s.record /\ t.sessions = s.sessions
      /\ t.session = s.session /\ t.GroupList = s.GroupList /\ t.ChannelList = s.ChannelList
      /\ t.MonitorList = s.MonitorList /\ t.NotifyList = s.NotifyList
      /\ t.reducer = s.reducer /\ t.AwaitingExit = s.AwaitingExit
  BY <1>0, <1>2, <1>3, MovedIs
<1>5. ASSUME NEW v \in Users
      PROVE  /\ t.user[v].object = s.user[v].object /\ t.user[v].quitting = s.user[v].quitting
             /\ t.user[v].registered = s.user[v].registered /\ t.user[v].logged = s.user[v].logged
             /\ t.user[v].login = s.user[v].login /\ t.user[v].session = s.user[v].session
             /\ t.user[v].Groups = s.user[v].Groups /\ t.user[v].account = s.user[v].account
             /\ t.user[v].chans = s.user[v].chans
             /\ s.user[v].object = "none" => t.user[v] = s.user[v]
  BY <1>2, <1>4
<1>6. SamePlaces(s, t) /\ Listeners(s, t) /\ SameDates(s, t) /\ SameSessions(s, t)
  BY <1>4, <1>5 DEF SamePlaces, Listeners, SameDates, SameSessions
<1>7. SameAccounts(s, t) /\ SameGroups(s, t) /\ SameChannels(s, t)
  BY <1>4, <1>5 DEF SameAccounts, SameGroups, SameChannels
<1>8. Good(t, now)
  BY <1>4, <1>6, <1>7, GoodKept
<1> QED
  BY <1>8 DEF t

-----------------------------------------------------------------------------
(* Being let in                                                            *)

(* A state in which one client is another, with a session.                 *)
LetIn(s, t, u, n, k, SS, SE) ==
    t = [s EXCEPT !.user = [s.user EXCEPT ![u] = n], !.not_registered_track = k,
                  !.sessions = SS, !.session = SE]

LEMMA LetInIs ==
  ASSUME NEW s \in ServerSet, NEW u \in Users, NEW n \in ClientSet, NEW k \in Int,
         NEW SS \in [Logins -> Users \cup {None}], NEW SE \in [Users -> SessionSet],
         NEW t, LetIn(s, t, u, n, k, SS, SE)
  PROVE  /\ t \in ServerSet /\ t.user[u] = n /\ t.not_registered_track = k
         /\ \A v \in Users \ {u} : t.user[v] = s.user[v]
         /\ t.sessions = SS /\ t.session = SE /\ t.cache = s.cache /\ t.record = s.record
         /\ t.GroupList = s.GroupList /\ t.ChannelList = s.ChannelList /\ t.logins = s.logins
         /\ t.MonitorList = s.MonitorList /\ t.NotifyList = s.NotifyList
         /\ t.reducer = s.reducer /\ t.AwaitingExit = s.AwaitingExit
<1> DEFINE U == [s.user EXCEPT ![u] = n]
<1>1. U \in [Users -> ClientSet] /\ U[u] = n /\ \A v \in Users \ {u} : U[v] = s.user[v]
  BY Fields
<1>2. t = [s EXCEPT !.user = U, !.not_registered_track = k, !.sessions = SS, !.session = SE]
  BY DEF LetIn
<1> HIDE DEF U
<1> QED
  BY <1>1, <1>2 DEF ServerSet

(* The session that u gets: a new one, with the flags of the record, or    *)
(* the one of its login, with the flags that one was made with.            *)
GivenSession(s, u, login, SS, SE) ==
    \/ /\ s.sessions[login] = None
       /\ SS = [s.sessions EXCEPT ![login] = u]
       /\ SE[u].flags = s.record[login].flags /\ SE[u].rawflags = s.record[login].flags
       /\ \A v \in Users \ {u} : SE[v] = s.session[v]
    \/ /\ s.sessions[login] # None
       /\ SS = s.sessions
       /\ SE[s.sessions[login]].flags = s.session[s.sessions[login]].rawflags
       /\ SE[s.sessions[login]].rawflags = s.session[s.sessions[login]].rawflags
       /\ \A v \in Users \ {s.sessions[login]} : SE[v] = s.session[v]

(* The groups that it gets: those of the record, or those of another       *)
(* instance.                                                               *)
GivenGroups(s, u, login, n) ==
    \/ /\ n.Groups = s.record[login].groups \cap {g \in GroupNames : s.GroupList[g].listed}
       /\ n.account = s.record[login].created
    \/ \E v \in Users \ {u} : /\ Online(s, v) /\ s.user[v].login = login
                             /\ n.Groups = s.user[v].Groups /\ n.account = s.user[v].account

LEMMA LetInGood ==
  ASSUME NEW s, NEW now, Good(s, now), NEW u \in Users,
         Present(s, u), s.user[u].registered = REG_LOGINUSER,
         NEW n \in ClientSet, n.registered = REG_OK,
         n.object = s.user[u].object, n.quitting = s.user[u].quitting, n.logged = s.user[u].logged,
         n.login = s.user[u].login, n.chans = s.user[u].chans,
         NEW k, k = s.not_registered_track - 1,
         NEW SS \in [Logins -> Users \cup {None}], NEW SE \in [Users -> SessionSet],
         GivenSession(s, u, s.user[u].login, SS, SE), n.session = SS[s.user[u].login],
         GivenGroups(s, u, s.user[u].login, n),
         NEW t, LetIn(s, t, u, n, k, SS, SE)
  PROVE  Good(t, now) /\ Online(t, u)
<1> DEFINE login == s.user[u].login
<1>0. /\ s \in ServerSet /\ s.not_registered_track \in Int
      /\ s.sessions \in [Logins -> Users \cup {None}]
      /\ Placed(s) /\ Attached(s) /\ Cached(s) /\ Grouped(s) /\ Dated(s, now)
      /\ Paired(s) /\ (~DefaultReturns => Matching(s) /\ DefaultKept(s))
  BY Fields DEF Good
<1>1. /\ "LOGIN" \in REG_OK /\ "LOGIN" \in REG_LOGINUSER /\ REG_OK # {} /\ REG_LOGINUSER # {}
      /\ REG_OK # REG_LOGINUSER /\ None \notin Logins /\ None \notin Users /\ Root \in Logins
  BY Distinction
<1>2. login \in Logins
  BY <1>0, <1>1, OnlineIn
<1>3. k \in Int
  BY <1>0
<1>4. /\ t \in ServerSet /\ t.user[u] = n /\ t.not_registered_track = k
      /\ \A v \in Users \ {u} : t.user[v] = s.user[v]
      /\ t.sessions = SS /\ t.session = SE /\ t.cache = s.cache /\ t.record = s.record
      /\ t.GroupList = s.GroupList /\ t.ChannelList = s.ChannelList /\ t.logins = s.logins
      /\ t.MonitorList = s.MonitorList /\ t.NotifyList = s.NotifyList
      /\ t.reducer = s.reducer /\ t.AwaitingExit = s.AwaitingExit
  <2>1. LetIn(s, t, u, n, k, SS, SE)
    OBVIOUS
  <2> QED
    BY <1>0, <1>3, <2>1, LetInIs
<1> HIDE DEF login
<1>5. /\ Online(t, u) /\ Present(t, u) /\ ~Online(s, u)
      /\ \A v \in Users \ {u} : (Present(t, v) <=> Present(s, v)) /\ (Online(t, v) <=> Online(s, v))
  BY <1>1, <1>4 DEF Present, Online
<1>6. \A v \in Users : t.user[v].login = s.user[v].login /\ t.user[v].object = s.user[v].object
                        /\ t.user[v].logged = s.user[v].logged /\ t.user[v].quitting = s.user[v].quitting
                        /\ t.user[v].chans = s.user[v].chans
  BY <1>4
<1>7. Placed(t)
  <2>1. t.not_registered_track = Cardinality(Unregistered(t))
    <3>1. Unregistered(t) = Unregistered(s) \ {u} /\ u \in Unregistered(s)
      BY <1>1, <1>4, <1>5 DEF Unregistered
    <3>2. IsFiniteSet(Unregistered(s))
      <4>1. Unregistered(s) \in SUBSET Users
        BY DEF Unregistered
      <4> QED
        BY <4>1, Distinction, FS_Subset
    <3>3. Cardinality(Unregistered(s) \ {u}) = Cardinality(Unregistered(s)) - 1
      BY <3>1, <3>2, FS_RemoveElement
    <3>4. s.not_registered_track = Cardinality(Unregistered(s))
      BY <1>0 DEF Placed
    <3> QED
      BY <1>4, <3>1, <3>3, <3>4
  <2>2. ASSUME NEW v \in Users
        PROVE  /\ v \in ToSet(t.logins) <=> Present(t, v) /\ "LOGIN" \in t.user[v].registered
               /\ "LOGIN" \in t.user[v].registered => t.user[v].login # None
               /\ t.user[v].registered # {} => t.user[v].logged
               /\ t.user[v].object = "none" => t.user[v] = NewUser
               /\ v \in t.MonitorList \cup t.NotifyList =>
                    t.user[v].object = "here" /\ t.user[v].registered = REG_OK
               /\ v \in t.reducer \cup t.AwaitingExit => t.user[v].object = "here" /\ t.user[v].quitting
    <3>1. CASE v = u
      BY <1>0, <1>1, <1>4, <1>5, <1>6, <3>1 DEF Placed, Present
    <3>2. CASE v # u
      BY <1>0, <1>4, <1>5, <3>2 DEF Placed
    <3> QED
      BY <3>1, <3>2
  <2> QED
    BY <1>0, <1>4, <2>1, <2>2 DEF Placed
<1>8. Attached(t)
  <2>1. SS[login] # None /\ n.session = SS[login]
    BY <1>0, <1>1, <1>2 DEF GivenSession, login
  <2>2. \A l \in Logins \ {login} : SS[l] = s.sessions[l]
    BY <1>0 DEF GivenSession, login
  <2>3. s.sessions[login] # None => SS[login] = s.sessions[login]
    BY DEF GivenSession, login
  <2>4. s.sessions[login] = None => SS[login] = u
    BY <1>0, <1>2 DEF GivenSession, login
  <2>5. ASSUME NEW v \in Users
        PROVE  /\ Online(t, v) => /\ t.sessions[t.user[v].login] # None
                                  /\ t.user[v].session = t.sessions[t.user[v].login]
               /\ t.user[v].session # None => t.user[v].registered = REG_OK
    <3>1. CASE v = u
      BY <1>4, <1>6, <2>1, <3>1 DEF login
    <3>2. CASE v # u
      <4>1. ASSUME Online(t, v)
            PROVE  t.sessions[t.user[v].login] # None /\ t.user[v].session = t.sessions[t.user[v].login]
        <5>1. Online(s, v) /\ t.user[v] = s.user[v]
          BY <1>4, <1>5, <3>2, <4>1
        <5>2. s.user[v].login \in Logins
          BY <1>0, <1>1, <5>1, OnlineIn DEF Online
        <5>3. s.sessions[s.user[v].login] # None /\ s.user[v].session = s.sessions[s.user[v].login]
          BY <1>0, <5>1 DEF Attached
        <5>4. SS[s.user[v].login] = s.sessions[s.user[v].login]
          BY <2>2, <2>3, <5>2, <5>3
        <5> QED
          BY <1>4, <5>1, <5>3, <5>4
      <4>2. t.user[v].session # None => t.user[v].registered = REG_OK
        BY <1>0, <1>4, <3>2 DEF Attached
      <4> QED
        BY <4>1, <4>2
    <3> QED
      BY <3>1, <3>2
  <2>6. ASSUME NEW l \in Logins, t.sessions[l] # None
        PROVE  /\ t.user[t.sessions[l]].login = l
               /\ \E v \in Users : /\ t.user[v].object = "here" /\ t.user[v].login = l
                                  /\ t.user[v].registered = REG_OK
    <3>1. CASE l = login /\ s.sessions[login] = None
      BY <1>4, <1>5, <1>6, <2>4, <3>1 DEF login, Online, Present
    <3>2. CASE ~(l = login /\ s.sessions[login] = None)
      <4>1. SS[l] = s.sessions[l] /\ s.sessions[l] # None /\ s.sessions[l] \in Users
        BY <1>0, <1>4, <2>2, <2>3, <2>6, <3>2
      <4>2. s.user[s.sessions[l]].login = l
        BY <1>0, <4>1 DEF Attached
      <4>3. PICK v \in Users : /\ s.user[v].object = "here" /\ s.user[v].login = l
                               /\ s.user[v].registered = REG_OK
        BY <1>0, <4>1 DEF Attached
      <4>4. t.user[v].registered = REG_OK
        BY <1>4, <4>3
      <4> QED
        BY <1>4, <1>6, <4>1, <4>2, <4>3, <4>4
    <3> QED
      BY <3>1, <3>2
  <2>7. ASSUME t.sessions[Root] # None
        PROVE  /\ "r" \in t.session[t.sessions[Root]].flags
               /\ "r" \in t.session[t.sessions[Root]].rawflags
    <3>1. CASE s.sessions[Root] = None
      <4>1. login = Root /\ SS[Root] = u
        BY <1>1, <1>4, <2>2, <2>4, <2>7, <3>1
      <4>2. "r" \in s.record[Root].flags
        BY <1>0 DEF Attached
      <4>3. SE[u].flags = s.record[login].flags /\ SE[u].rawflags = s.record[login].flags
        BY <3>1, <4>1 DEF GivenSession, login
      <4> QED
        BY <1>4, <4>1, <4>2, <4>3
    <3>2. CASE s.sessions[Root] # None
      <4>1. /\ SS[Root] = s.sessions[Root] /\ s.sessions[Root] \in Users
            /\ "r" \in s.session[s.sessions[Root]].flags /\ "r" \in s.session[s.sessions[Root]].rawflags
            /\ s.user[s.sessions[Root]].login = Root
        BY <1>0, <1>1, <2>2, <2>3, <3>2 DEF Attached
      <4>2. CASE login = Root
        <5>1. /\ SE[s.sessions[Root]].flags = s.session[s.sessions[Root]].rawflags
              /\ SE[s.sessions[Root]].rawflags = s.session[s.sessions[Root]].rawflags
          BY <3>2, <4>2 DEF GivenSession, login
        <5> QED
          BY <1>4, <4>1, <5>1
      <4>3. CASE login # Root
        <5>1. s.sessions[Root] # u /\ (s.sessions[login] # None => s.sessions[Root] # s.sessions[login])
          BY <1>0, <1>2, <4>1, <4>3 DEF Attached, login
        <5>2. SE[s.sessions[Root]] = s.session[s.sessions[Root]]
          BY <4>1, <5>1 DEF GivenSession, login
        <5> QED
          BY <1>4, <4>1, <5>2
      <4> QED
        BY <4>2, <4>3
    <3> QED
      BY <3>1, <3>2
  <2>8. Exists(t, Root) /\ "r" \in t.record[Root].flags
    BY <1>0, <1>4 DEF Attached, Exists
  <2> QED
    BY <2>5, <2>6, <2>7, <2>8 DEF Attached
<1>9. Cached(t) /\ Grouped(t)
  BY <1>0, <1>4 DEF Cached, Grouped, Exists
<1>10. Dated(t, now)
  <2>1. /\ \A l \in Logins : Exists(t, l) <=> Exists(s, l)
        /\ \A l \in Logins : Exists(s, l) => s.record[l].created <= now
    BY <1>0, <1>4 DEF Exists, Dated
  <2>2. n.account # None =>
          n.account <= now /\ (~Exists(s, login) => n.account < now)
    <3>1. CASE n.account = s.record[login].created
      BY <1>2, <2>1, <3>1 DEF Exists
    <3>2. ASSUME NEW v \in Users, s.user[v].login = login, n.account = s.user[v].account
          PROVE  n.account # None =>
                   n.account <= now /\ (~Exists(s, login) => n.account < now)
      BY <1>0, <1>1, <1>2, <3>2 DEF Dated
    <3> QED
      BY <3>1, <3>2 DEF GivenGroups, login
  <2>3. n.logged
    BY <1>0, <1>1 DEF Placed
  <2>4. ASSUME NEW v \in Users
        PROVE  /\ t.user[v].account # None =>
                    /\ t.user[v].account <= now
                    /\ t.user[v].login # None /\ ~Exists(t, t.user[v].login) => t.user[v].account < now
               /\ ~t.user[v].logged => t.user[v].login = None /\ t.user[v].account = None
    <3>1. CASE v = u
      BY <1>2, <1>4, <1>6, <2>1, <2>2, <2>3, <3>1 DEF login
    <3>2. CASE v # u
      BY <1>0, <1>4, <3>2 DEF Dated, Exists
    <3> QED
      BY <3>1, <3>2
  <2> QED
    BY <1>4, <2>1, <2>4 DEF Dated, Exists
<1>11. Paired(t)
  <2>1. \A v \in Users, c \in Channels : Subscribed(t, v, c) <=> Subscribed(s, v, c)
    BY <1>4 DEF Subscribed
  <2>2. \A c \in Channels : ~Subscribed(s, u, c)
    BY <1>0, <1>5 DEF Paired
  <2>3. \A v \in Users : Present(t, v) <=> Present(s, v)
    BY <1>5
  <2> QED
    BY <1>0, <1>4, <1>5, <1>6, <2>1, <2>2, <2>3 DEF Paired
<1>12. ASSUME ~DefaultReturns
       PROVE  Matching(t) /\ DefaultKept(t)
  <2>1. ASSUME NEW v \in Users, Online(t, v), t.user[v].account = t.record[t.user[v].login].created
        PROVE  t.user[v].Groups = t.record[t.user[v].login].groups
                                    \cap {g \in GroupNames : t.GroupList[g].listed}
    <3>1. CASE v = u
      <4>1. n.account = s.record[login].created
        BY <1>4, <1>6, <2>1, <3>1 DEF login
      <4>2. n.Groups = s.record[login].groups \cap {g \in GroupNames : s.GroupList[g].listed}
        <5>1. ASSUME NEW w \in Users, Online(s, w), s.user[w].login = login,
                     n.Groups = s.user[w].Groups, n.account = s.user[w].account
              PROVE  n.Groups = s.record[login].groups \cap {g \in GroupNames : s.GroupList[g].listed}
          BY <1>0, <1>12, <4>1, <5>1 DEF Matching
        <5> QED
          BY <5>1 DEF GivenGroups, login
      <4> QED
        BY <1>4, <1>6, <3>1, <4>2 DEF login
    <3>2. CASE v # u
      BY <1>0, <1>4, <1>5, <1>12, <2>1, <3>2 DEF Matching
    <3> QED
      BY <3>1, <3>2
  <2> QED
    BY <1>0, <1>4, <1>12, <2>1 DEF Matching, DefaultKept
<1> QED
  BY <1>4, <1>5, <1>7, <1>8, <1>9, <1>10, <1>11, <1>12 DEF Good

(* One client changes again.                                               *)
Then(x, y, u, m) == y = [x EXCEPT !.user = [x.user EXCEPT ![u] = m]]

LEMMA LetInThen ==
  ASSUME NEW s \in ServerSet, NEW u \in Users, NEW n, NEW k, NEW SS, NEW SE, NEW x,
         LetIn(s, x, u, n, k, SS, SE), NEW y, NEW m, Then(x, y, u, m)
  PROVE  LetIn(s, y, u, m, k, SS, SE)
<1> DEFINE U == [s.user EXCEPT ![u] = n]
           V == [s.user EXCEPT ![u] = m]
<1>1. [U EXCEPT ![u] = m] = V
  BY Fields
<1>2. x = [s EXCEPT !.user = U, !.not_registered_track = k, !.sessions = SS, !.session = SE]
  BY DEF LetIn
<1>3. y = [x EXCEPT !.user = [x.user EXCEPT ![u] = m]]
  BY DEF Then
<1> HIDE DEF U, V
<1>4. x.user = U
  BY <1>2 DEF ServerSet
<1>5. y = [x EXCEPT !.user = V]
  BY <1>1, <1>3, <1>4
<1>6. y = [s EXCEPT !.user = V, !.not_registered_track = k, !.sessions = SS, !.session = SE]
  BY <1>2, <1>5 DEF ServerSet
<1> QED
  BY <1>6 DEF LetIn, V

(* ClientManager counts u off, u is registered.                            *)
Acked(s, u) == [s EXCEPT !.not_registered_track = IF @ = 0 THEN 0 ELSE @ - 1, !.user[u].registered = REG_OK]

LEMMA AckedIs ==
  ASSUME NEW s, NEW now, Good(s, now), NEW u \in Users, Present(s, u), s.user[u].registered = REG_LOGINUSER
  PROVE  LetIn(s, Acked(s, u), u, [s.user[u] EXCEPT !.registered = REG_OK],
               s.not_registered_track - 1, s.sessions, s.session)
<1> DEFINE n == [s.user[u] EXCEPT !.registered = REG_OK]
           k == s.not_registered_track - 1
           U == [s.user EXCEPT ![u] = n]
<1>0. s \in ServerSet /\ Placed(s) /\ s.not_registered_track \in Int
  BY Fields DEF Good
<1>1. s.not_registered_track # 0
  <2>1. u \in Unregistered(s)
    BY Distinction DEF Unregistered
  <2>2. Unregistered(s) \in SUBSET Users
    BY DEF Unregistered
  <2>3. IsFiniteSet(Unregistered(s))
    BY <2>2, Distinction, FS_Subset
  <2>4. Cardinality(Unregistered(s)) # 0
    BY <2>1, <2>3, FS_EmptySet
  <2> QED
    BY <1>0, <2>4 DEF Placed
<1>2. Acked(s, u) = [s EXCEPT !.not_registered_track = k, !.user = U]
  BY <1>1 DEF Acked
<1> HIDE DEF k, U
<1>3. Acked(s, u) = [s EXCEPT !.user = U, !.not_registered_track = k, !.sessions = s.sessions,
                              !.session = s.session]
  BY <1>0, <1>2 DEF ServerSet
<1> QED
  BY <1>3 DEF LetIn, U, k

(* Its groups.                                                             *)
LEMMA LoadGroupsIs ==
  ASSUME NEW s, NEW now, Good(s, now), NEW u \in Users, Present(s, u),
         NEW n \in ClientSet, n.registered = REG_OK, n.login = s.user[u].login, n.login \in Logins,
         NEW k \in Int, NEW a, LetIn(s, a, u, n, k, s.sessions, s.session)
  PROVE  \E m \in ClientSet :
           /\ LetIn(s, LoadGroups(a, u), u, m, k, s.sessions, s.session)
           /\ GivenGroups(s, u, n.login, m)
           /\ m.object = n.object /\ m.quitting = n.quitting /\ m.logged = n.logged
           /\ m.login = n.login /\ m.chans = n.chans /\ m.registered = n.registered
<1> DEFINE login == n.login
           InUse == FirstLogin(a, login)
           m(gs, ac) == [[n EXCEPT !.Groups = gs] EXCEPT !.account = ac]
           y(gs, ac) == [a EXCEPT !.user[u].Groups = gs, !.user[u].account = ac]
<1>0. /\ s \in ServerSet /\ Placed(s) /\ s.user \in [Users -> ClientSet]
      /\ s.record \in [Logins -> RecordSet] /\ s.sessions \in [Logins -> Users \cup {None}]
      /\ s.session \in [Users -> SessionSet] /\ s.logins \in Seq(Users)
  BY Fields DEF Good
<1>1. /\ a \in ServerSet /\ a.user[u] = n /\ \A v \in Users \ {u} : a.user[v] = s.user[v]
      /\ a.record = s.record /\ a.GroupList = s.GroupList /\ a.logins = s.logins
  BY <1>0, LetInIs
<1>2. ASSUME NEW gs \in SUBSET GroupNames, NEW ac \in Nat \cup {None}
      PROVE  /\ m(gs, ac) \in ClientSet /\ m(gs, ac).Groups = gs /\ m(gs, ac).account = ac
             /\ LetIn(s, y(gs, ac), u, m(gs, ac), k, s.sessions, s.session)
             /\ m(gs, ac).object = n.object /\ m(gs, ac).quitting = n.quitting
             /\ m(gs, ac).logged = n.logged /\ m(gs, ac).login = n.login
             /\ m(gs, ac).chans = n.chans /\ m(gs, ac).registered = n.registered
  <2>1. /\ m(gs, ac) \in ClientSet /\ m(gs, ac).Groups = gs /\ m(gs, ac).account = ac
        /\ m(gs, ac).object = n.object /\ m(gs, ac).quitting = n.quitting
        /\ m(gs, ac).logged = n.logged /\ m(gs, ac).login = n.login
        /\ m(gs, ac).chans = n.chans /\ m(gs, ac).registered = n.registered
    BY DEF ClientSet
  <2>2. Then(a, y(gs, ac), u, m(gs, ac))
    <3> DEFINE n1 == [n EXCEPT !.Groups = gs]
               V == [a.user EXCEPT ![u] = n1]
               z == [a EXCEPT !.user = V]
    <3>1. y(gs, ac) = [z EXCEPT !.user[u].account = ac]
      BY <1>1
    <3>2. V[u] = n1 /\ \A x : [V EXCEPT ![u] = x] = [a.user EXCEPT ![u] = x]
      BY <1>1, Fields
    <3> HIDE DEF n1, V
    <3>3. z.user = V /\ \A X : [z EXCEPT !.user = X] = [a EXCEPT !.user = X]
      BY <1>1 DEF ServerSet
    <3> HIDE DEF z
    <3>4. y(gs, ac) = [z EXCEPT !.user = [V EXCEPT ![u] = [n1 EXCEPT !.account = ac]]]
      <4>1. y(gs, ac) = [z EXCEPT !.user = [z.user EXCEPT ![u] = [z.user[u] EXCEPT !.account = ac]]]
        BY <3>1
      <4> QED
        BY <3>2, <3>3, <4>1
    <3> QED
      BY <3>2, <3>3, <3>4 DEF Then, n1
  <2> HIDE DEF y, m
  <2>3. LetIn(s, y(gs, ac), u, m(gs, ac), k, s.sessions, s.session)
    BY <1>0, <2>2, LetInThen
  <2> QED
    BY <2>1, <2>3
<1>3. LoadGroups(a, u) =
        IF InUse \notin {None, u} THEN y(a.user[InUse].Groups, a.user[InUse].account)
        ELSE y({g \in a.record[login].groups : a.GroupList[g].listed}, a.record[login].created)
  BY <1>1 DEF LoadGroups
<1> HIDE DEF m, y
<1>4. ASSUME NEW gs \in SUBSET GroupNames, NEW ac \in Nat \cup {None}, LoadGroups(a, u) = y(gs, ac),
             GivenGroups(s, u, login, m(gs, ac))
      PROVE  \E x \in ClientSet :
               /\ LetIn(s, LoadGroups(a, u), u, x, k, s.sessions, s.session)
               /\ GivenGroups(s, u, n.login, x)
               /\ x.object = n.object /\ x.quitting = n.quitting /\ x.logged = n.logged
               /\ x.login = n.login /\ x.chans = n.chans /\ x.registered = n.registered
  <2> DEFINE w == m(gs, ac)
  <2>1. /\ w \in ClientSet /\ LetIn(s, LoadGroups(a, u), u, w, k, s.sessions, s.session)
        /\ GivenGroups(s, u, n.login, w)
        /\ w.object = n.object /\ w.quitting = n.quitting /\ w.logged = n.logged
        /\ w.login = n.login /\ w.chans = n.chans /\ w.registered = n.registered
    BY <1>2, <1>4
  <2> HIDE DEF w
  <2> QED
    BY <2>1
<1>5. CASE InUse \notin {None, u}
  <2>1. InUse \in FindLogin(a, login)
    BY <1>1, <1>5, FirstLoginIn
  <2>2. InUse \in Users \ {u} /\ Online(s, InUse) /\ s.user[InUse].login = login
    <3>1. /\ InUse \in ToSet(s.logins) /\ a.user[InUse].login = login
          /\ a.user[InUse].registered = REG_OK
      BY <1>1, <2>1 DEF FindLogin
    <3>2. InUse \in Users
      BY <1>0, <3>1 DEF ToSet
    <3> QED
      BY <1>0, <1>1, <1>5, <3>1, <3>2 DEF Placed, Online
  <2> DEFINE gs == s.user[InUse].Groups
             ac == s.user[InUse].account
  <2>3. gs \in SUBSET GroupNames /\ ac \in Nat \cup {None}
    BY <1>0, <2>2 DEF ClientSet
  <2>4. LoadGroups(a, u) = y(gs, ac)
    BY <1>1, <1>3, <1>5, <2>2
  <2>5. m(gs, ac).Groups = s.user[InUse].Groups /\ m(gs, ac).account = s.user[InUse].account
    BY <1>2, <2>3
  <2> HIDE DEF gs, ac, InUse
  <2>6. GivenGroups(s, u, login, m(gs, ac))
    BY <2>2, <2>5 DEF GivenGroups
  <2> QED
    BY <1>4, <2>3, <2>4, <2>6
<1>6. CASE InUse \in {None, u}
  <2> DEFINE gs == s.record[login].groups \cap {g \in GroupNames : s.GroupList[g].listed}
             ac == s.record[login].created
  <2>1. s.record[login].groups \in SUBSET GroupNames /\ ac \in Nat \cup {None}
    BY <1>0 DEF RecordSet
  <2>2. gs \in SUBSET GroupNames /\ gs = {g \in a.record[login].groups : a.GroupList[g].listed}
    BY <1>1, <2>1
  <2> HIDE DEF gs
  <2>3. LoadGroups(a, u) = y(gs, ac)
    BY <1>1, <1>3, <1>6, <2>2
  <2>4. m(gs, ac).Groups = gs /\ m(gs, ac).account = ac
    BY <1>2, <2>1, <2>2
  <2>5. GivenGroups(s, u, login, m(gs, ac))
    BY <2>4 DEF GivenGroups, gs
  <2> QED
    BY <1>4, <2>1, <2>2, <2>3, <2>5
<1> QED
  BY <1>5, <1>6

(* Its session.                                                            *)
LEMMA AttachIs ==
  ASSUME NEW s \in ServerSet, NEW u \in Users, NEW n \in ClientSet, NEW k \in Int,
         n.login = s.user[u].login, n.login \in Logins,
         NEW x, LetIn(s, x, u, n, k, s.sessions, s.session),
         NEW flags \in SUBSET {"e", "r", "m"},
         flags = IF s.sessions[n.login] = None THEN s.record[n.login].flags
                 ELSE s.session[s.sessions[n.login]].rawflags
  PROVE  \E SS \in [Logins -> Users \cup {None}], SE \in [Users -> SessionSet] :
           /\ GivenSession(s, u, n.login, SS, SE)
           /\ LetIn(s, Attach(x, u, n.login, flags), u, [n EXCEPT !.session = SS[n.login]], k, SS, SE)
<1> DEFINE login == n.login
           found == s.sessions[login]
           y == IF found = None THEN AddSession(x, u, login, flags) ELSE SetFlags(x, found, flags)
           id == IF found = None THEN u ELSE found
           c == IF found = None THEN [[s.session[u] EXCEPT !.flags = flags] EXCEPT !.rawflags = flags]
                ELSE [s.session[found] EXCEPT !.flags = flags]
           SS == IF found = None THEN [s.sessions EXCEPT ![login] = u] ELSE s.sessions
           SE == [s.session EXCEPT ![id] = c]
           V == [s.user EXCEPT ![u] = n]
           t == Attach(x, u, login, flags)
<1>0. /\ s.sessions \in [Logins -> Users \cup {None}] /\ s.session \in [Users -> SessionSet]
      /\ s.user \in [Users -> ClientSet]
  BY Fields
<1>1. /\ x.user[u] = n /\ x.sessions = s.sessions /\ x.session = s.session /\ x \in ServerSet
  BY <1>0, LetInIs
<1>2. id \in Users /\ s.session[id] \in SessionSet
  BY <1>0
<1>3. /\ c \in SessionSet /\ c.flags = flags
      /\ c.rawflags = IF found = None THEN flags ELSE s.session[found].rawflags
  BY <1>2 DEF SessionSet
<1>4. /\ SS \in [Logins -> Users \cup {None}] /\ SS[login] = id
  BY <1>0
<1> HIDE DEF c
<1>5. SE \in [Users -> SessionSet] /\ SE[id] = c /\ \A v \in Users \ {id} : SE[v] = s.session[v]
  BY <1>0, <1>2, <1>3
<1>6. GivenSession(s, u, login, SS, SE)
  <2> HIDE DEF SE
  <2>1. CASE found = None
    <3>1. id = u /\ SS = [s.sessions EXCEPT ![login] = u]
      BY <2>1
    <3> QED
      BY <1>3, <1>5, <2>1, <3>1 DEF GivenSession
  <2>2. CASE found # None
    <3>1. id = found /\ SS = s.sessions
      BY <2>2
    <3> QED
      BY <1>3, <1>5, <2>2, <3>1 DEF GivenSession
  <2> QED
    BY <2>1, <2>2
<1>7. y = [x EXCEPT !.session = SE, !.sessions = SS]
  <2>1. CASE found = None
    <3> DEFINE c1 == [s.session[u] EXCEPT !.flags = flags]
               W == [s.session EXCEPT ![u] = c1]
               z == [x EXCEPT !.session = W]
    <3>1. SetFlags(x, u, flags) = z
      BY <1>1 DEF SetFlags
    <3>2. y = [[z EXCEPT !.session[u].rawflags = flags] EXCEPT !.sessions[login] = u]
      BY <2>1, <3>1 DEF AddSession
    <3>3. W[u] = c1 /\ [W EXCEPT ![u] = c] = SE /\ c = [c1 EXCEPT !.rawflags = flags]
      BY <1>0, <2>1 DEF c
    <3>4. z.session = W /\ z.sessions = s.sessions
      <4> HIDE DEF W
      <4> QED
        BY <1>1 DEF ServerSet
    <3> HIDE DEF c1, W, z, SE
    <3>5. [z EXCEPT !.session[u].rawflags = flags] = [z EXCEPT !.session = SE]
      BY <3>3, <3>4
    <3>6. y = [z EXCEPT !.session = SE, !.sessions = SS]
      BY <1>0, <2>1, <3>2, <3>4, <3>5
    <3> HIDE DEF SS, y
    <3> QED
      BY <1>1, <3>6 DEF ServerSet, z
  <2>2. CASE found # None
    <3>1. y = [x EXCEPT !.session[found].flags = flags]
      BY <2>2 DEF SetFlags
    <3>2. SE = [s.session EXCEPT ![found] = [s.session[found] EXCEPT !.flags = flags]] /\ SS = x.sessions
      BY <1>1, <2>2 DEF c
    <3>3. y = [x EXCEPT !.session = SE]
      BY <1>1, <3>1, <3>2
    <3> HIDE DEF SE, SS, y
    <3> QED
      BY <1>1, <3>2, <3>3 DEF ServerSet
  <2> QED
    BY <2>1, <2>2
<1>8. t = [y EXCEPT !.user[u].session = y.sessions[login]]
  BY <1>1 DEF Attach
<1> HIDE DEF SE, SS, y
<1>9. LetIn(s, y, u, n, k, SS, SE)
  <2>1. x = [s EXCEPT !.user = V, !.not_registered_track = k, !.sessions = s.sessions,
                      !.session = s.session]
    BY DEF LetIn
  <2> HIDE DEF V
  <2>2. y = [s EXCEPT !.user = V, !.not_registered_track = k, !.sessions = SS, !.session = SE]
    BY <1>7, <2>1 DEF ServerSet
  <2> QED
    BY <2>2 DEF LetIn, V
<1>10. y.user[u] = n /\ y.sessions = SS
  BY <1>4, <1>5, <1>9, LetInIs
<1>11. Then(y, t, u, [n EXCEPT !.session = SS[login]])
  BY <1>8, <1>10 DEF Then
<1> HIDE DEF t
<1>12. LetIn(s, t, u, [n EXCEPT !.session = SS[login]], k, SS, SE)
  <2> DEFINE m == [n EXCEPT !.session = SS[login]]
  <2>1. Then(y, t, u, m)
    BY <1>11
  <2> HIDE DEF m
  <2>2. LetIn(s, t, u, m, k, SS, SE)
    BY <1>9, <2>1, LetInThen
  <2> QED
    BY <2>2 DEF m
<1> QED
  BY <1>4, <1>5, <1>6, <1>12 DEF t

(* With LoadNotify and Autojoin, u has all that it is owed.                *)
LEMMA ConnectedGood ==
  ASSUME NEW s, NEW now, Good(s, now), NEW u \in Users, Online(s, u)
  PROVE  Good(LoadNotify(s, u), now) /\ Good(Autojoin(LoadNotify(s, u), u), now)
<1> DEFINE a == LoadNotify(s, u)
           login == s.user[u].login
<1>0. s \in ServerSet /\ Placed(s)
  BY DEF Good
<1>1. a.user = s.user
  BY <1>0 DEF ServerSet, LoadNotify, AddListener
<1>2. Good(a, now)
  BY ListenerGood
<1> HIDE DEF a
<1>3. login \in Logins
  BY <1>0, OnlineIn, Distinction DEF Online
<1> HIDE DEF login
<1>4. a.record[login].chans \in SUBSET Channels
  <2>1. a.record[login] \in RecordSet
    BY <1>2, <1>3, Fields DEF Good
  <2> QED
    BY <2>1 DEF RecordSet
<1>5. {u} \in SUBSET Users /\ \A v \in {u} : Online(a, v)
  BY <1>1 DEF Online, Present
<1>6. Autojoin(a, u) = JoinUser(a, {u}, login, a.record[login].chans, TRUE)
  BY <1>1 DEF Autojoin, login
<1> DEFINE chans == a.record[login].chans
<1>7. chans \in SUBSET Channels /\ Autojoin(a, u) = JoinUser(a, {u}, login, chans, TRUE)
  BY <1>4, <1>6
<1> HIDE DEF chans
<1>8. Good(JoinUser(a, {u}, login, chans, TRUE), now)
  BY <1>2, <1>3, <1>5, <1>7, JoinUserGood
<1> QED
  BY <1>2, <1>7, <1>8 DEF a

LEMMA AckGood ==
  ASSUME NEW s, NEW now, Good(s, now), NEW u \in Users, Present(s, u), s.user[u].registered = REG_LOGINUSER
  PROVE  Good(ack_connection(s, u), now)
<1> DEFINE login == s.user[u].login
           n == [s.user[u] EXCEPT !.registered = REG_OK]
           k == s.not_registered_track - 1
           a == Acked(s, u)
           g == LoadGroups(a, u)
           flags == IF s.sessions[login] = None THEN s.record[login].flags
                    ELSE s.session[s.sessions[login]].rawflags
           b == Attach(g, u, login, flags)
<1>0. /\ s \in ServerSet /\ Placed(s) /\ s.user \in [Users -> ClientSet] /\ s.not_registered_track \in Int
      /\ s.sessions \in [Logins -> Users \cup {None}] /\ s.session \in [Users -> SessionSet]
      /\ s.record \in [Logins -> RecordSet]
  BY Fields DEF Good
<1>1. s.user[u] \in ClientSet /\ login \in Logins /\ k \in Int
  BY <1>0, OnlineIn, Distinction
<1>2. /\ n \in ClientSet /\ n.registered = REG_OK
      /\ n.object = s.user[u].object /\ n.quitting = s.user[u].quitting /\ n.logged = s.user[u].logged
      /\ n.login = login /\ n.chans = s.user[u].chans
  BY <1>1 DEF ClientSet
<1>3. LetIn(s, a, u, n, k, s.sessions, s.session)
  BY AckedIs
<1>4. a.user[u] = n
  <2> HIDE DEF n, a, k
  <2> QED
    BY <1>0, <1>1, <1>2, <1>3, LetInIs
<1>5. flags \in SUBSET {"e", "r", "m"}
  <2>1. s.record[login].flags \in SUBSET {"e", "r", "m"}
    <3>1. s.record[login] \in RecordSet
      BY <1>0, <1>1
    <3> QED
      BY <3>1 DEF RecordSet
  <2>2. s.sessions[login] # None => s.session[s.sessions[login]].rawflags \in SUBSET {"e", "r", "m"}
    <3>1. s.sessions[login] # None => s.session[s.sessions[login]] \in SessionSet
      BY <1>0, <1>1
    <3> QED
      BY <3>1 DEF SessionSet
  <2> QED
    BY <2>1, <2>2
<1> HIDE DEF n, a, k, login
<1>6. PICK m \in ClientSet :
        /\ LetIn(s, g, u, m, k, s.sessions, s.session)
        /\ GivenGroups(s, u, n.login, m)
        /\ m.object = n.object /\ m.quitting = n.quitting /\ m.logged = n.logged
        /\ m.login = n.login /\ m.chans = n.chans /\ m.registered = n.registered
  BY <1>1, <1>2, <1>3, LoadGroupsIs DEF login
<1> HIDE DEF g
<1>7. g.sessions = s.sessions /\ g.session = s.session /\ g.record = s.record
  BY <1>0, <1>1, <1>6, LetInIs
<1>8. \E SS \in [Logins -> Users \cup {None}], SE \in [Users -> SessionSet] :
        /\ GivenSession(s, u, m.login, SS, SE)
        /\ LetIn(s, Attach(g, u, m.login, flags), u, [m EXCEPT !.session = SS[m.login]], k, SS, SE)
  <2>1. /\ m.login = s.user[u].login /\ m.login \in Logins
        /\ flags = IF s.sessions[m.login] = None THEN s.record[m.login].flags
                   ELSE s.session[s.sessions[m.login]].rawflags
    BY <1>1, <1>2, <1>6 DEF login
  <2> HIDE DEF flags
  <2> QED
    BY <1>0, <1>1, <1>5, <1>6, <2>1, AttachIs
<1>9. PICK SS \in [Logins -> Users \cup {None}], SE \in [Users -> SessionSet] :
        /\ GivenSession(s, u, login, SS, SE)
        /\ LetIn(s, b, u, [m EXCEPT !.session = SS[login]], k, SS, SE)
  <2>1. m.login = login
    BY <1>2, <1>6
  <2> QED
    BY <1>8, <2>1
<1> DEFINE p == [m EXCEPT !.session = SS[login]]
<1>10. /\ p \in ClientSet /\ p.registered = REG_OK
       /\ p.object = s.user[u].object /\ p.quitting = s.user[u].quitting /\ p.logged = s.user[u].logged
       /\ p.login = login /\ p.chans = s.user[u].chans
       /\ p.Groups = m.Groups /\ p.account = m.account /\ p.session = SS[login]
  <2>1. SS[login] \in Users \cup {None}
    BY <1>1
  <2> QED
    BY <1>2, <1>6, <2>1 DEF ClientSet
<1>11. LetIn(s, b, u, p, k, SS, SE)
  BY <1>9
<1> HIDE DEF p, b
<1>12. GivenGroups(s, u, login, p)
  BY <1>2, <1>6, <1>10 DEF GivenGroups
<1>13. Good(b, now) /\ Online(b, u)
  BY <1>9, <1>10, <1>11, <1>12, LetInGood DEF login, k
<1>14. Good(LoadNotify(b, u), now) /\ Good(Autojoin(LoadNotify(b, u), u), now)
  BY <1>13, ConnectedGood
<1>15. ack_connection(s, u) \in {LoadNotify(b, u), Autojoin(LoadNotify(b, u), u)}
  <2>1. ack_connection(s, u) = OnPostConnect(a, u)
    BY DEF ack_connection, a, Acked
  <2>2. a.user[u].login = login
    BY <1>2, <1>4
  <2>3. CASE s.sessions[login] # None
    <3>1. OnPostConnect(a, u) = LoadNotify(Attach(g, u, login, g.session[g.sessions[login]].rawflags), u)
      BY <1>7, <2>2, <2>3 DEF OnPostConnect, g
    <3>2. OnPostConnect(a, u) = LoadNotify(b, u)
      BY <1>7, <2>3, <3>1 DEF b
    <3> QED
      BY <2>1, <3>2
  <2>4. CASE s.sessions[login] = None
    <3> DEFINE c == LoadNotify(Attach(g, u, login, g.record[login].flags), u)
    <3>1. OnPostConnect(a, u) = IF autojoin THEN Autojoin(c, u) ELSE c
      BY <1>7, <2>2, <2>4 DEF OnPostConnect, g
    <3>2. c = LoadNotify(b, u)
      BY <1>7, <2>4 DEF b
    <3> HIDE DEF c
    <3> QED
      BY <2>1, <3>1, <3>2
  <2> QED
    BY <2>3, <2>4
<1> QED
  BY <1>14, <1>15

(* One client after the other in a round of Flush.                         *)
LEMMA VisitGood ==
  ASSUME NEW s, NEW now, Good(s, now), NEW u \in Users, NEW late
  PROVE  Good(Visit(s, u, late), now)
<1>1. CASE s.user[u].object # "here" \/ s.user[u].quitting
  BY <1>1 DEF Visit
<1>2. CASE ~(s.user[u].object # "here" \/ s.user[u].quitting)
  <2>1. Present(s, u) /\ {u} \in SUBSET Users
    BY <1>2 DEF Present
  <2>2. s.user[u].registered = REG_LOGINUSER => Good(ack_connection(s, u), now)
    BY <2>1, AckGood
  <2>3. Good(Disconnect(s, {u}), now)
    BY <1>2, <2>1, DisconnectGood
  <2> QED
    BY <1>2, <2>2, <2>3 DEF Visit
<1> QED
  BY <1>1, <1>2

LEMMA RoundGood ==
  ASSUME NEW late, NEW now, Good(State, now)
  PROVE  Good(Round(late), now)
<1> DEFINE N == Cardinality(Users)
           S == State
           Step(g, i) == IF i = 0 THEN S ELSE Visit(g[i - 1], N + 1 - i, late)
           Upto(n, g) == g = [i \in 0 .. n |-> Step(g, i)]
           T == {n \in Nat : \E g : Upto(n, g)}
<1>0. N \in Nat /\ Users = 1 .. N
  BY AccountsAssumption, FS_CardinalityType
<1> HIDE DEF N, S
<1>1. 0 \in T
  <2> DEFINE g == [i \in 0 .. 0 |-> S]
  <2>1. Upto(0, g)
    OBVIOUS
  <2> QED
    BY <2>1
<1>2. ASSUME NEW n \in T PROVE n + 1 \in T
  <2>0. n \in Nat
    OBVIOUS
  <2>1. PICK g : Upto(n, g)
    OBVIOUS
  <2> DEFINE h == [i \in 0 .. n + 1 |-> IF i <= n THEN g[i] ELSE Step(g, n + 1)]
  <2>2. ASSUME NEW i \in 0 .. n + 1 PROVE h[i] = Step(h, i)
    <3>1. CASE i <= n
      <4>1. h[i] = g[i] /\ (i # 0 => h[i - 1] = g[i - 1])
        BY <2>0, <3>1
      <4>2. g[i] = Step(g, i)
        <5> HIDE DEF h, T, Step
        <5>1. i \in 0 .. n
          BY <2>0, <3>1
        <5> QED
          BY <2>1, <5>1, Zenon
      <4> QED
        BY <4>1, <4>2
    <3>2. CASE i = n + 1
      <4>1. h[i] = Step(g, i) /\ h[i - 1] = g[i - 1] /\ i # 0
        BY <2>0, <3>2
      <4> QED
        BY <4>1
    <3> QED
      BY <2>0, <3>1, <3>2
  <2>3. Upto(n + 1, h)
    <3> HIDE DEF T
    <3> QED
      BY <2>2
  <2> HIDE DEF h, Upto
  <2> QED
    BY <2>0, <2>3
<1>3. T = Nat
  <2> HIDE DEF T
  <2>1. T \subseteq Nat
    BY DEF T
  <2> QED
    BY <1>1, <1>2, <2>1, Climb
<1>4. \E g : Upto(N, g)
  BY <1>0, <1>3
<1> DEFINE visited == CHOOSE g : Upto(N, g)
<1>5. Upto(N, visited)
  BY <1>4
<1>6. Round(late) = visited[N]
  BY DEF Round, N, S
<1> HIDE DEF visited
<1>7. ASSUME NEW i \in 0 .. N PROVE visited[i] = Step(visited, i)
  <2> HIDE DEF Step, T
  <2> QED
    BY <1>5, <1>7, Zenon
<1> DEFINE G == {n \in Nat : n <= N => Good(visited[n], now)}
<1>8. 0 \in G
  <2>1. visited[0] = S
    BY <1>0, <1>7
  <2> QED
    BY <2>1 DEF S
<1>9. ASSUME NEW n \in G PROVE n + 1 \in G
  <2> SUFFICES ASSUME n + 1 <= N PROVE Good(visited[n + 1], now)
    OBVIOUS
  <2>1. n \in Nat /\ n <= N /\ n + 1 \in 0 .. N /\ n + 1 # 0 /\ (n + 1) - 1 = n
        /\ N + 1 - (n + 1) \in Users
    BY <1>0
  <2>2. Good(visited[n], now)
    BY <2>1
  <2>3. visited[n + 1] = Visit(visited[n], N + 1 - (n + 1), late)
    BY <1>7, <2>1
  <2> HIDE DEF G
  <2> QED
    BY <2>1, <2>2, <2>3, VisitGood
<1>10. G = Nat
  <2> HIDE DEF G
  <2>1. G \subseteq Nat
    BY DEF G
  <2> QED
    BY <1>8, <1>9, <2>1, Climb
<1>11. N \in G
  BY <1>0, <1>10
<1> QED
  BY <1>0, <1>6, <1>11

-----------------------------------------------------------------------------
(* The Reducer, ForceExits and the number of commands                      *)

(* Time is all that the number of commands stands for.                     *)
LEMMA CommandsGood ==
  ASSUME NEW s, NEW now, Good(s, now), NEW n \in Nat
  PROVE  Good([s EXCEPT !.commands = n], now)
<1> DEFINE t == [s EXCEPT !.commands = n]
<1>0. s \in ServerSet
  BY DEF Good
<1>1. /\ t \in ServerSet /\ t.user = s.user /\ t.record = s.record /\ t.cache = s.cache
      /\ t.sessions = s.sessions /\ t.session = s.session /\ t.GroupList = s.GroupList
      /\ t.ChannelList = s.ChannelList /\ t.MonitorList = s.MonitorList
      /\ t.NotifyList = s.NotifyList /\ t.logins = s.logins
      /\ t.not_registered_track = s.not_registered_track
      /\ t.AwaitingExit = s.AwaitingExit /\ t.reducer = s.reducer
  BY <1>0 DEF ServerSet
<1> HIDE DEF t
<1>2. /\ SamePlaces(s, t) /\ Listeners(s, t) /\ SameDates(s, t) /\ SameSessions(s, t)
      /\ SameAccounts(s, t) /\ SameGroups(s, t) /\ SameChannels(s, t)
  BY <1>1 DEF SamePlaces, Listeners, SameDates, SameSessions, SameAccounts, SameGroups, SameChannels
<1>3. Good(t, now)
  BY <1>1, <1>2, GoodKept
<1> QED
  BY <1>3 DEF t

(* Users that are no longer locked go from one list of leavers to the other. *)
LEMMA ForceExitsGood ==
  ASSUME NEW s, NEW now, Good(s, now)
  PROVE  Good(ForceExits(s), now)
<1> DEFINE D == s.reducer \cup {u \in s.AwaitingExit : ~s.user[u].Locked}
           A == {u \in s.AwaitingExit : s.user[u].Locked}
           t == ForceExits(s)
<1>0. /\ s \in ServerSet /\ s.reducer \subseteq Users /\ s.AwaitingExit \subseteq Users
      /\ Placed(s) /\ Attached(s) /\ Cached(s) /\ Grouped(s) /\ Dated(s, now)
      /\ Paired(s) /\ (~DefaultReturns => Matching(s) /\ DefaultKept(s))
  BY Fields DEF Good
<1>1. t = [s EXCEPT !.reducer = D, !.AwaitingExit = A]
  BY <1>0 DEF ForceExits, ServerSet
<1>2. D \subseteq Users /\ A \subseteq Users
  BY <1>0
<1>3. D \cap A = {} /\ D \cup A = s.reducer \cup s.AwaitingExit
  BY <1>0 DEF Placed
<1> HIDE DEF t, D, A
<1>4. /\ t \in ServerSet /\ t.user = s.user /\ t.record = s.record /\ t.cache = s.cache
      /\ t.sessions = s.sessions /\ t.session = s.session /\ t.GroupList = s.GroupList
      /\ t.ChannelList = s.ChannelList /\ t.MonitorList = s.MonitorList
      /\ t.NotifyList = s.NotifyList /\ t.logins = s.logins
      /\ t.not_registered_track = s.not_registered_track
      /\ t.AwaitingExit = A /\ t.reducer = D
  BY <1>0, <1>1, <1>2 DEF ServerSet
<1>5. Placed(t)
  <2>1. Unregistered(t) = Unregistered(s)
    BY <1>4 DEF Unregistered, Present
  <2>2. t.reducer \cup t.AwaitingExit = s.reducer \cup s.AwaitingExit
    BY <1>3, <1>4
  <2> QED
    BY <1>0, <1>3, <1>4, <2>1, <2>2 DEF Placed, Present
<1>6. Attached(t) /\ Cached(t) /\ Grouped(t) /\ Dated(t, now)
  BY <1>0, <1>4 DEF Attached, Cached, Grouped, Dated, Online, Present, Exists
<1>7. Paired(t) /\ (~DefaultReturns => Matching(t) /\ DefaultKept(t))
  BY <1>0, <1>4 DEF Paired, Matching, DefaultKept, Subscribed, Online, Present
<1> QED
  BY <1>4, <1>5, <1>6, <1>7 DEF Good, t

(* A state in which the users of the Reducer are gone.                     *)
Destroyed(s, t, U, S) ==
    t = [s EXCEPT !.user = U, !.MonitorList = s.MonitorList \ s.reducer,
                  !.NotifyList = s.NotifyList \ s.reducer, !.reducer = {}, !.sessions = S]

LEMMA DestroyedIs ==
  ASSUME NEW s \in ServerSet, NEW U \in [Users -> ClientSet],
         NEW S \in [Logins -> Users \cup {None}], NEW t, Destroyed(s, t, U, S)
  PROVE  /\ t \in ServerSet /\ t.user = U /\ t.sessions = S /\ t.reducer = {}
         /\ t.MonitorList = s.MonitorList \ s.reducer /\ t.NotifyList = s.NotifyList \ s.reducer
         /\ t.record = s.record /\ t.cache = s.cache /\ t.session = s.session
         /\ t.GroupList = s.GroupList /\ t.ChannelList = s.ChannelList /\ t.logins = s.logins
         /\ t.not_registered_track = s.not_registered_track /\ t.AwaitingExit = s.AwaitingExit
BY DEF ServerSet, Destroyed

(* Those whom the Reducer deletes have left before.  The session of a login *)
(* stays as long as somebody is logged in under it.                        *)
LEMMA DestroyGood ==
  ASSUME NEW s, NEW now, Good(s, now)
  PROVE  Good(Destroy([s EXCEPT !.reducer = {}], s.reducer), now)
<1> DEFINE D == s.reducer
           r == [s EXCEPT !.reducer = {}]
           U == [u \in Users |-> IF u \in D THEN [s.user[u] EXCEPT !.object = "gone", !.Groups = {}]
                                 ELSE s.user[u]]
           names == {s.user[u].login : u \in D}
           a == [s EXCEPT !.reducer = {}, !.user = U, !.MonitorList = s.MonitorList \ D,
                          !.NotifyList = s.NotifyList \ D]
           S == [l \in Logins |-> IF l \in names /\ CountLogin(a, l) = 0 THEN None ELSE s.sessions[l]]
           t == Destroy(r, D)
<1>0. /\ s \in ServerSet /\ s.reducer \subseteq Users /\ s.user \in [Users -> ClientSet]
      /\ s.sessions \in [Logins -> Users \cup {None}]
      /\ Placed(s) /\ Attached(s) /\ Cached(s) /\ Grouped(s) /\ Dated(s, now)
      /\ Paired(s) /\ (~DefaultReturns => Matching(s) /\ DefaultKept(s))
  BY Fields DEF Good
<1>1. \A u \in D : s.user[u].object = "here" /\ s.user[u].quitting /\ u \notin s.AwaitingExit
  BY <1>0 DEF Placed
<1>2. ASSUME NEW u \in Users
      PROVE  /\ U[u] \in ClientSet /\ U[u].quitting = s.user[u].quitting
             /\ U[u].registered = s.user[u].registered
             /\ U[u].logged = s.user[u].logged /\ U[u].login = s.user[u].login
             /\ U[u].session = s.user[u].session
             /\ U[u].chans = s.user[u].chans /\ U[u].account = s.user[u].account
             /\ u \in D => U[u].object = "gone"
             /\ u \notin D => U[u] = s.user[u]
  <2>1. s.user[u] \in ClientSet
    BY <1>0
  <2>2. CASE u \in D
    <3>1. U[u] = [s.user[u] EXCEPT !.object = "gone", !.Groups = {}]
      BY <2>2
    <3> HIDE DEF U
    <3> QED
      BY <2>1, <2>2, <3>1 DEF ClientSet
  <2>3. CASE u \notin D
    <3>1. U[u] = s.user[u]
      BY <2>3
    <3> HIDE DEF U
    <3> QED
      BY <2>1, <2>3, <3>1
  <2> QED
    BY <2>2, <2>3
<1>3. U \in [Users -> ClientSet]
  <2>1. U = [u \in Users |-> U[u]]
    OBVIOUS
  <2> HIDE DEF U
  <2> QED
    BY <1>2, <2>1
<1>4. t = DetermineLifetime(a, names)
  <2>1. r.user = s.user /\ r.MonitorList = s.MonitorList /\ r.NotifyList = s.NotifyList
    BY <1>0 DEF ServerSet
  <2>2. U = [u \in Users |-> IF u \in D THEN [r.user[u] EXCEPT !.object = "gone", !.Groups = {}]
                             ELSE r.user[u]]
    BY <2>1
  <2>3. names = {r.user[u].login : u \in D}
    BY <2>1
  <2>4. [r EXCEPT !.user = U, !.MonitorList = @ \ D, !.NotifyList = @ \ D] = a
    <3> HIDE DEF U, D
    <3> QED
      BY <1>0 DEF ServerSet
  <2> HIDE DEF r, a, names, U, D
  <2> QED
    BY <2>2, <2>3, <2>4 DEF Destroy, t
<1>5. ASSUME NEW l \in Logins
      PROVE  CountLogin(a, l) = 0 <=> ~\E u \in Users : Online(s, u) /\ s.user[u].login = l
  <2>1. a.user = U /\ a.logins = s.logins /\ ToSet(s.logins) \subseteq Users
    <3>1. ToSet(s.logins) \subseteq Users
      BY <1>0, Fields DEF ToSet
    <3> HIDE DEF U
    <3> QED
      BY <1>0, <3>1 DEF ServerSet
  <2>2. FindLogin(a, l) = FindLogin(s, l)
    <3> HIDE DEF a, U
    <3> QED
      BY <1>2, <2>1 DEF FindLogin
  <2>3. CountLogin(a, l) = CountLogin(s, l)
    BY <2>2 DEF CountLogin
  <2>4. CountLogin(s, l) = 0 <=> FindLogin(s, l) = {}
    BY <1>0, CountLoginIs
  <2>5. FindLogin(s, l) = {u \in Users : Online(s, u) /\ s.user[u].login = l}
    BY <1>0, FindLoginIs
  <2> QED
    BY <2>3, <2>4, <2>5
<1>6. ASSUME NEW l \in Logins
      PROVE  /\ S[l] \in {None, s.sessions[l]}
             /\ (\E u \in Users : Online(s, u) /\ s.user[u].login = l) => S[l] = s.sessions[l]
             /\ S[l] # None => \E u \in Users : /\ s.user[u].object = "here" /\ s.user[u].login = l
                                               /\ s.user[u].registered = REG_OK /\ u \notin D
  <2>0. S[l] = IF l \in names /\ CountLogin(a, l) = 0 THEN None ELSE s.sessions[l]
    OBVIOUS
  <2>1. l \notin names => \A u \in D : s.user[u].login # l
    OBVIOUS
  <2> HIDE DEF S, names, a, U
  <2>2. CASE \E u \in Users : Online(s, u) /\ s.user[u].login = l
    <3>1. PICK u \in Users : Online(s, u) /\ s.user[u].login = l
      BY <2>2
    <3>2. s.user[u].object = "here" /\ s.user[u].registered = REG_OK /\ u \notin D
      BY <1>1, <3>1 DEF Online, Present
    <3> QED
      BY <1>5, <2>0, <2>2, <3>1, <3>2
  <2>3. CASE ~\E u \in Users : Online(s, u) /\ s.user[u].login = l
    <3>1. CountLogin(a, l) = 0
      BY <1>5, <2>3
    <3>2. S[l] # None => l \notin names /\ s.sessions[l] # None
      BY <2>0, <3>1
    <3>3. S[l] # None => \E u \in Users : /\ s.user[u].object = "here" /\ s.user[u].login = l
                                         /\ s.user[u].registered = REG_OK /\ u \notin D
      BY <1>0, <2>1, <3>2 DEF Attached
    <3> QED
      BY <2>0, <2>3, <3>3
  <2> QED
    BY <2>2, <2>3
<1>7. S \in [Logins -> Users \cup {None}]
  <2>1. S = [l \in Logins |-> S[l]] /\ \A l \in Logins : s.sessions[l] \in Users \cup {None}
    BY <1>0
  <2> HIDE DEF S
  <2> QED
    BY <1>6, <2>1
<1>8. Destroyed(s, t, U, S)
  <2>1. a.sessions = s.sessions
    <3> HIDE DEF U, D
    <3> QED
      BY <1>0 DEF ServerSet
  <2>2. t = [a EXCEPT !.sessions = S]
    <3> HIDE DEF a, names, t
    <3> QED
      BY <1>4, <2>1 DEF DetermineLifetime
  <2> HIDE DEF S, U, t
  <2> QED
    BY <1>0, <2>2 DEF ServerSet, Destroyed
<1> HIDE DEF t, U, S, a, r, names
<1>9. /\ t \in ServerSet /\ t.user = U /\ t.sessions = S /\ t.reducer = {}
      /\ t.MonitorList = s.MonitorList \ D /\ t.NotifyList = s.NotifyList \ D
      /\ t.record = s.record /\ t.cache = s.cache /\ t.session = s.session
      /\ t.GroupList = s.GroupList /\ t.ChannelList = s.ChannelList /\ t.logins = s.logins
      /\ t.not_registered_track = s.not_registered_track /\ t.AwaitingExit = s.AwaitingExit
  BY <1>0, <1>3, <1>7, <1>8, DestroyedIs
<1> HIDE DEF D
<1>10. \A u \in Users : (Present(t, u) <=> Present(s, u)) /\ (Online(t, u) <=> Online(s, u))
  BY <1>1, <1>2, <1>9 DEF Present, Online
<1>11. Placed(t)
  <2>1. Unregistered(t) = Unregistered(s)
    BY <1>2, <1>9, <1>10 DEF Unregistered
  <2>2. ASSUME NEW u \in Users
        PROVE  /\ u \in ToSet(t.logins) <=> Present(t, u) /\ "LOGIN" \in t.user[u].registered
               /\ "LOGIN" \in t.user[u].registered => t.user[u].login # None
               /\ t.user[u].registered # {} => t.user[u].logged
               /\ t.user[u].object = "none" => t.user[u] = NewUser
               /\ u \in t.MonitorList \cup t.NotifyList =>
                    t.user[u].object = "here" /\ t.user[u].registered = REG_OK
               /\ u \in t.reducer \cup t.AwaitingExit => t.user[u].object = "here" /\ t.user[u].quitting
    <3>1. CASE u \in D
      BY <1>0, <1>1, <1>2, <1>9, <1>10, <3>1 DEF Placed
    <3>2. CASE u \notin D
      BY <1>0, <1>2, <1>9, <1>10, <3>2 DEF Placed
    <3> QED
      BY <3>1, <3>2
  <2> QED
    BY <1>0, <1>9, <2>1, <2>2 DEF Placed
<1>12. Attached(t)
  <2>1. ASSUME NEW u \in Users
        PROVE  /\ Online(t, u) => /\ t.sessions[t.user[u].login] # None
                                  /\ t.user[u].session = t.sessions[t.user[u].login]
               /\ t.user[u].session # None => t.user[u].registered = REG_OK
    <3>1. Online(t, u) => t.sessions[t.user[u].login] = s.sessions[s.user[u].login]
      <4> SUFFICES ASSUME Online(s, u)
                   PROVE  S[s.user[u].login] = s.sessions[s.user[u].login]
        BY <1>2, <1>9, <1>10
      <4>1. s.user[u].login \in Logins
        BY <1>0, OnlineIn, Distinction DEF Online
      <4> QED
        BY <1>6, <4>1
    <3> QED
      BY <1>0, <1>2, <1>9, <1>10, <3>1 DEF Attached
  <2>2. ASSUME NEW l \in Logins, t.sessions[l] # None
        PROVE  /\ t.user[t.sessions[l]].login = l
               /\ \E v \in Users : /\ t.user[v].object = "here" /\ t.user[v].login = l
                                  /\ t.user[v].registered = REG_OK
    <3>1. t.sessions[l] = s.sessions[l] /\ s.sessions[l] \in Users
      BY <1>0, <1>6, <1>9, <2>2
    <3>2. PICK v \in Users : /\ s.user[v].object = "here" /\ s.user[v].login = l
                             /\ s.user[v].registered = REG_OK /\ v \notin D
      BY <1>6, <1>9, <2>2
    <3> QED
      BY <1>0, <1>2, <1>9, <2>2, <3>1, <3>2 DEF Attached
  <2>3. t.sessions[Root] # None => t.sessions[Root] = s.sessions[Root]
    BY <1>6, <1>9, Distinction
  <2> QED
    BY <1>0, <1>9, <2>1, <2>2, <2>3 DEF Attached, Exists
<1>13. Cached(t) /\ Grouped(t)
  BY <1>0, <1>9 DEF Cached, Grouped, Exists
<1>14. Dated(t, now)
  BY <1>0, <1>2, <1>9 DEF Dated, Exists
<1>15. Paired(t)
  BY <1>0, <1>2, <1>9, <1>10 DEF Paired, Subscribed
<1>16. ~DefaultReturns => Matching(t) /\ DefaultKept(t)
  <2>1. \A u \in Users : Online(t, u) => t.user[u] = s.user[u]
    BY <1>1, <1>2, <1>9, <1>10 DEF Online, Present
  <2> QED
    BY <1>0, <1>9, <1>10, <2>1 DEF Matching, DefaultKept
<1> QED
  BY <1>9, <1>11, <1>12, <1>13, <1>14, <1>15, <1>16 DEF Good, t, r, D

-----------------------------------------------------------------------------
(* The commands                                                            *)

(* What a command is, of those that an instance of a login sends.          *)
LEMMA CommandForms ==
  ASSUME NEW l \in Logins, NEW c \in Menu[l]
  PROVE  \/ \E m \in Logins, p \in Passwords : c = <<"ADDUSER", m, p>>
         \/ \E m \in Logins, b \in BOOLEAN : c = <<"SETSTATUS", m, b>>
         \/ \E m \in Logins, f \in {"e", "r", "m"} : c \in {<<"ADDFLAG", m, f>>, <<"DELFLAG", m, f>>}
         \/ \E m \in Logins : c = <<"DELUSER", m>>
         \/ \E p \in Passwords : c = <<"PASSWD", p>>
         \/ \E v \in Users : c = <<"LOGOUT", v>>
         \/ \E g \in GroupNames \cup {"DEFAULT"} : c \in {<<"GROUPADD", g>>, <<"DELGROUP", g>>}
         \/ \E g \in GroupNames, f \in GroupFlags \cup {"invalid"} : c = <<"GUPDATE", g, f>>
         \/ \E g \in GroupNames : c = <<"GRESET", g>>
         \/ \E g \in GroupNames, m \in Logins : c \in {<<"GSET", g, m>>, <<"GDEL", g, m>>}
         \/ \E d \in Channels : c \in {<<"JOIN", d>>, <<"PART", d>>, <<"HOP", d>>, <<"MUTE", d>>,
                                       <<"UNMUTE", d>>}
         \/ \E v \in {"DEFAULT", "invalid"} : c \in {<<"MONITOR", v>>, <<"NOTIFY", v>>}
         \/ c \in {<<"RESETCACHE">>, <<"PARTALL">>, <<"STOPMONITOR">>, <<"MRESET">>,
                   <<"STOPNOTIFY">>, <<"NRESET">>, <<"EXIT">>, <<"QUERY">>}
<1>1. c \in AllCommands
  BY SessionsAssumption
<1> QED
  BY <1>1 DEF AllCommands, GroupFlags

LEMMA LaterGood ==
  ASSUME NEW s, NEW now \in Nat, Good(s, now)
  PROVE  Good(s, now + 1)
BY DatedLater DEF Good

LEMMA GSETGood ==
  ASSUME NEW s, NEW now, Good(s, now), NEW g \in GroupNames, NEW login \in Logins
  PROVE  Good(GSET(s, g, login), now) /\ Good(GDEL(s, g, login), now)
<1>1. CASE s.GroupList[g].listed /\ Exists(s, login)
  BY <1>1, MembersGood
<1>2. CASE ~(s.GroupList[g].listed /\ Exists(s, login))
  <2>1. GSET(s, g, login) = s /\ GDEL(s, g, login) = s
    BY <1>2 DEF GSET, GDEL
  <2> QED
    BY <2>1
<1> QED
  BY <1>1, <1>2

(* What each of the commands does is good, one command later.              *)
LEMMA HandleGood ==
  ASSUME NEW s, Good(s, s.commands), NEW u \in Users, Online(s, u),
         NEW c \in Menu[s.user[u].login], ~Protected(s, c)
  PROVE  Good(Handle(s, u, c), s.commands + 1)
<1> DEFINE now == s.commands
           l == s.user[u].login
           h == Handle(s, u, c)
           Done == Good(h, now + 1)
<1>0. now \in Nat /\ l \in Logins
  BY OnlineIn, Fields, Distinction DEF Good, Online
<1> SUFFICES Done
  OBVIOUS
<1>1. Good(h, now) => Done
  BY <1>0, LaterGood
<1> HIDE DEF Done
<1>2. CASE \E m \in Logins, p \in Passwords : c = <<"ADDUSER", m, p>>
  <2>1. PICK m \in Logins, p \in Passwords : c = <<"ADDUSER", m, p>>
    BY <1>2
  <2>2. h = ADDUSER(s, m, p)
    BY <2>1 DEF Handle
  <2>3. m # Root
    BY <2>1 DEF Protected
  <2> QED
    BY <2>2, <2>3, ADDUSERGood DEF Done
<1>3. CASE \E m \in Logins, b \in BOOLEAN : c = <<"SETSTATUS", m, b>>
  <2>1. PICK m \in Logins, b \in BOOLEAN : c = <<"SETSTATUS", m, b>>
    BY <1>3
  <2>2. h = SETSTATUS(s, m, b)
    BY <2>1 DEF Handle
  <2>3. Exists(s, m)
    BY <2>1 DEF Protected
  <2>4. Good(SETSTATUS(s, m, b), now)
    BY <2>3, SETSTATUSGood
  <2> QED
    BY <1>1, <2>2, <2>4
<1>4. CASE \E m \in Logins, f \in {"e", "r", "m"} : c \in {<<"ADDFLAG", m, f>>, <<"DELFLAG", m, f>>}
  <2>1. PICK m \in Logins, f \in {"e", "r", "m"} : c \in {<<"ADDFLAG", m, f>>, <<"DELFLAG", m, f>>}
    BY <1>4
  <2>2. CASE c = <<"ADDFLAG", m, f>>
    <3>1. h = ADDFLAG(s, m, f)
      BY <2>2 DEF Handle
    <3>2. m # Root
      BY <2>2 DEF Protected
    <3>3. Good(ADDFLAG(s, m, f), now)
      BY <3>2, ADDFLAGGood
    <3> QED
      BY <1>1, <3>1, <3>3
  <2>3. CASE c = <<"DELFLAG", m, f>>
    <3>1. h = DELFLAG(s, m, f)
      BY <2>3 DEF Handle
    <3>2. Good(DELFLAG(s, m, f), now)
      BY DELFLAGGood
    <3> QED
      BY <1>1, <3>1, <3>2
  <2> QED
    BY <2>1, <2>2, <2>3
<1>5. CASE \E m \in Logins : c = <<"DELUSER", m>>
  <2>1. PICK m \in Logins : c = <<"DELUSER", m>>
    BY <1>5
  <2>2. h = DELUSER(s, m)
    BY <2>1 DEF Handle
  <2>3. m # Root
    BY <2>1 DEF Protected
  <2> QED
    BY <1>0, <2>2, <2>3, DELUSERGood DEF Done
<1>6. CASE \E p \in Passwords : c = <<"PASSWD", p>>
  <2>1. PICK p \in Passwords : c = <<"PASSWD", p>>
    BY <1>6
  <2>2. h = ChangePass(s, l, p)
    BY <2>1 DEF Handle
  <2>3. Good(ChangePass(s, l, p), now)
    BY <1>0, ChangePassGood
  <2> QED
    BY <1>1, <2>2, <2>3
<1>7. CASE \E v \in Users : c = <<"LOGOUT", v>>
  <2>1. PICK v \in Users : c = <<"LOGOUT", v>>
    BY <1>7
  <2>2. h = LOGOUT(s, v)
    BY <2>1 DEF Handle
  <2>3. Good(LOGOUT(s, v), now)
    BY LOGOUTGood
  <2> QED
    BY <1>1, <2>2, <2>3
<1>8. CASE \E g \in GroupNames \cup {"DEFAULT"} : c \in {<<"GROUPADD", g>>, <<"DELGROUP", g>>}
  <2>1. PICK g \in GroupNames \cup {"DEFAULT"} : c \in {<<"GROUPADD", g>>, <<"DELGROUP", g>>}
    BY <1>8
  <2>2. CASE c = <<"GROUPADD", g>>
    <3>1. h = GROUPADD(s, g)
      BY <2>2 DEF Handle
    <3>2. Good(GROUPADD(s, g), now)
      BY <1>0, <2>2, GROUPADDGood
    <3> QED
      BY <1>1, <3>1, <3>2
  <2>3. CASE c = <<"DELGROUP", g>>
    <3>1. h = DELGROUP(s, g)
      BY <2>3 DEF Handle
    <3>2. Good(DELGROUP(s, g), now)
      BY <1>0, <2>3, DELGROUPGood
    <3> QED
      BY <1>1, <3>1, <3>2
  <2> QED
    BY <2>1, <2>2, <2>3
<1>9. CASE \E g \in GroupNames, f \in GroupFlags \cup {"invalid"} : c = <<"GUPDATE", g, f>>
  <2>1. PICK g \in GroupNames, f \in GroupFlags \cup {"invalid"} : c = <<"GUPDATE", g, f>>
    BY <1>9
  <2>2. h = GUPDATE(s, g, f)
    BY <2>1 DEF Handle
  <2>3. Good(GUPDATE(s, g, f), now)
    BY GUPDATEGood
  <2> QED
    BY <1>1, <2>2, <2>3
<1>10. CASE \E g \in GroupNames : c = <<"GRESET", g>>
  <2>1. PICK g \in GroupNames : c = <<"GRESET", g>>
    BY <1>10
  <2>2. h = GRESET(s, g)
    BY <2>1 DEF Handle
  <2>3. Good(GRESET(s, g), now)
    BY GRESETGood
  <2> QED
    BY <1>1, <2>2, <2>3
<1>11. CASE \E g \in GroupNames, m \in Logins : c \in {<<"GSET", g, m>>, <<"GDEL", g, m>>}
  <2>1. PICK g \in GroupNames, m \in Logins : c \in {<<"GSET", g, m>>, <<"GDEL", g, m>>}
    BY <1>11
  <2>2. CASE c = <<"GSET", g, m>>
    <3>1. h = GSET(s, g, m)
      BY <2>2 DEF Handle
    <3>2. Good(GSET(s, g, m), now)
      BY GSETGood
    <3> QED
      BY <1>1, <3>1, <3>2
  <2>3. CASE c = <<"GDEL", g, m>>
    <3>1. h = GDEL(s, g, m)
      BY <2>3 DEF Handle
    <3>2. Good(GDEL(s, g, m), now)
      BY GSETGood
    <3> QED
      BY <1>1, <3>1, <3>2
  <2> QED
    BY <2>1, <2>2, <2>3
<1>12. CASE \E d \in Channels : c \in {<<"JOIN", d>>, <<"PART", d>>, <<"HOP", d>>, <<"MUTE", d>>,
                                       <<"UNMUTE", d>>}
  <2>1. PICK d \in Channels : c \in {<<"JOIN", d>>, <<"PART", d>>, <<"HOP", d>>, <<"MUTE", d>>,
                                       <<"UNMUTE", d>>}
    BY <1>12
  <2>2. CASE c = <<"JOIN", d>>
    <3>1. h = JOIN(s, u, d)
      BY <2>2 DEF Handle
    <3>2. Good(JOIN(s, u, d), now)
      BY ChannelCommandsGood
    <3> QED
      BY <1>1, <3>1, <3>2
  <2>3. CASE c = <<"PART", d>>
    <3>1. h = PART(s, u, d)
      BY <2>3 DEF Handle
    <3>2. Good(PART(s, u, d), now)
      BY ChannelCommandsGood
    <3> QED
      BY <1>1, <3>1, <3>2
  <2>4. CASE c = <<"HOP", d>>
    <3>1. h = HOP(s, u, d)
      BY <2>4 DEF Handle
    <3>2. Good(HOP(s, u, d), now)
      BY ChannelCommandsGood
    <3> QED
      BY <1>1, <3>1, <3>2
  <2>5. CASE c = <<"MUTE", d>>
    <3>1. h = MUTE(s, d)
      BY <2>5 DEF Handle
    <3>2. Good(MUTE(s, d), now)
      BY MUTEGood
    <3> QED
      BY <1>1, <3>1, <3>2
  <2>6. CASE c = <<"UNMUTE", d>>
    <3>1. h = UNMUTE(s, d)
      BY <2>6 DEF Handle
    <3>2. Good(UNMUTE(s, d), now)
      BY MUTEGood
    <3> QED
      BY <1>1, <3>1, <3>2
  <2> QED
    BY <2>1, <2>2, <2>3, <2>4, <2>5, <2>6
<1>13. CASE \E v \in {"DEFAULT", "invalid"} : c \in {<<"MONITOR", v>>, <<"NOTIFY", v>>}
  <2>1. PICK v \in {"DEFAULT", "invalid"} : c \in {<<"MONITOR", v>>, <<"NOTIFY", v>>}
    BY <1>13
  <2>2. CASE c = <<"MONITOR", v>>
    <3>1. h = MONITOR(s, u, v)
      BY <2>2 DEF Handle
    <3>2. Good(MONITOR(s, u, v), now)
      BY MonitorGood
    <3> QED
      BY <1>1, <3>1, <3>2
  <2>3. CASE c = <<"NOTIFY", v>>
    <3>1. h = NOTIFY(s, u, v)
      BY <2>3 DEF Handle
    <3>2. Good(NOTIFY(s, u, v), now)
      BY NOTIFYGood
    <3> QED
      BY <1>1, <3>1, <3>2
  <2> QED
    BY <2>1, <2>2, <2>3
<1>14. ASSUME c \in {<<"RESETCACHE">>, <<"PARTALL">>, <<"STOPMONITOR">>, <<"MRESET">>,
                  <<"STOPNOTIFY">>, <<"NRESET">>, <<"EXIT">>, <<"QUERY">>}
       PROVE  Done
  <2>1. CASE c = <<"RESETCACHE">>
    <3>1. h = ResetLogins(s)
      BY <2>1 DEF Handle
    <3>2. Good(ResetLogins(s), now)
      BY ResetLoginsGood
    <3> QED
      BY <1>1, <3>1, <3>2
  <2>2. CASE c = <<"PARTALL">>
    <3>1. h = PARTALL(s, u)
      BY <2>2 DEF Handle
    <3>2. Good(PARTALL(s, u), now)
      BY PARTALLGood
    <3> QED
      BY <1>1, <3>1, <3>2
  <2>3. CASE c = <<"STOPMONITOR">>
    <3>1. h = STOPMONITOR(s, u)
      BY <2>3 DEF Handle
    <3>2. Good(STOPMONITOR(s, u), now)
      BY MonitorGood
    <3> QED
      BY <1>1, <3>1, <3>2
  <2>4. CASE c = <<"MRESET">>
    <3>1. h = MRESET(s)
      BY <2>4 DEF Handle
    <3>2. Good(MRESET(s), now)
      BY MonitorGood
    <3> QED
      BY <1>1, <3>1, <3>2
  <2>5. CASE c = <<"STOPNOTIFY">>
    <3>1. h = STOPNOTIFY(s, u)
      BY <2>5 DEF Handle
    <3>2. Good(STOPNOTIFY(s, u), now)
      BY NOTIFYGood
    <3> QED
      BY <1>1, <3>1, <3>2
  <2>6. CASE c = <<"NRESET">>
    <3>1. h = NRESET(s)
      BY <2>6 DEF Handle
    <3>2. Good(NRESET(s), now)
      BY NOTIFYGood
    <3> QED
      BY <1>1, <3>1, <3>2
  <2>7. CASE c = <<"EXIT">>
    <3>1. h = Disconnect(s, {u})
      BY <2>7 DEF Handle
    <3>2. {u} \in SUBSET Users /\ s.user[u].object = "here"
      BY DEF Online, Present
    <3>3. Good(Disconnect(s, {u}), now)
      BY <3>2, DisconnectGood
    <3> QED
      BY <1>1, <3>1, <3>3
  <2>8. CASE c = <<"QUERY">>
    <3>1. h = [s EXCEPT !.user[u].Locked = TRUE]
      BY <2>8 DEF Handle
    <3>2. s.user[u].object # "none"
      BY DEF Online, Present
    <3>3. Good([s EXCEPT !.user[u].Locked = TRUE], now)
      BY <3>2, LockedGood
    <3> QED
      BY <1>1, <3>1, <3>3
  <2> QED
    BY <1>14, <2>1, <2>2, <2>3, <2>4, <2>5, <2>6, <2>7, <2>8
<1> QED
  BY <1>0, <1>2, <1>3, <1>4, <1>5, <1>6, <1>7, <1>8, <1>9, <1>10, <1>11, <1>12, <1>13, <1>14, CommandForms

-----------------------------------------------------------------------------
(* The steps                                                               *)

LEMMA StateIs ==
  /\ State.user = user /\ State.record = record /\ State.groups = groups /\ State.cache = cache
  /\ State.sessions = sessions /\ State.session = session /\ State.GroupList = GroupList
  /\ State.ChannelList = ChannelList /\ State.MonitorList = MonitorList
  /\ State.NotifyList = NotifyList /\ State.logins = logins
  /\ State.not_registered_track = not_registered_track
  /\ State.AwaitingExit = AwaitingExit /\ State.reducer = reducer /\ State.commands = commands
BY DEF State

LEMMA BecomeGood ==
  ASSUME NEW s, NEW now, Good(s, now), Become(s), commands' \in Nat
  PROVE  Good(State', now)
<1>1. s \in ServerSet
  BY DEF Good
<1>2. State' = [s EXCEPT !.commands = commands']
  BY <1>1 DEF ServerSet, State, Become
<1>3. Good([s EXCEPT !.commands = commands'], now)
  BY CommandsGood
<1> QED
  BY <1>2, <1>3

(* A step that sends no command.                                           *)
LEMMA BecomeInv ==
  ASSUME SInv, NEW s, Good(s, commands), Become(s), UNCHANGED commands
  PROVE  SInv'
<1>1. commands \in Nat
  BY StateIs, Fields DEF SInv, Good
<1>2. commands' \in Nat /\ commands' = commands
  BY <1>1
<1>3. Good(State', commands)
  BY <1>2, BecomeGood
<1> QED
  BY <1>2, <1>3 DEF SInv

LEMMA AddUserInv ==
  ASSUME SInv, NEW u \in Users, NEW full \in BOOLEAN, AddUser(u, full)
  PROVE  SInv'
<1> DEFINE s == [State EXCEPT !.user[u].object = "here", !.not_registered_track = @ + 1]
<1>1. Good(s, commands) /\ s.user[u].object = "here"
  <2>1. Good(State, commands) /\ State.user[u].object = "none"
    BY StateIs DEF SInv, AddUser
  <2> QED
    BY <2>1, AcceptGood
<1>2. Become(IF full THEN Disconnect(s, {u}) ELSE s) /\ UNCHANGED commands
  BY DEF AddUser
<1> HIDE DEF s
<1>3. Good(Disconnect(s, {u}), commands)
  BY <1>1, DisconnectGood
<1>4. Good(IF full THEN Disconnect(s, {u}) ELSE s, commands)
  BY <1>1, <1>3
<1> QED
  BY <1>2, <1>4, BecomeInv

LEMMA IdentifyInv ==
  ASSUME SInv, NEW u \in Users, NEW t \in Tries[u], Identify(u, t[1], t[2])
  PROVE  SInv'
<1>1. t[1] \in Logins /\ t[2] \in Passwords
  BY SessionsAssumption
<1>2. Present(State, u) /\ ~State.user[u].logged /\ Good(State, commands)
  BY StateIs DEF SInv, Identify, Local, Present
<1>3. Good(LOGIN(AUTH(AGENT(State, u), u, t[2]), u, t[1]), commands)
  BY <1>1, <1>2, IdentifyGood
<1> QED
  BY <1>3, BecomeInv DEF Identify

LEMMA CommandInv ==
  ASSUME SInv, NEW u \in Users, user[u].login # None, NEW c \in Menu[user[u].login], Command(u, c)
  PROVE  SInv'
<1>1. /\ Good(State, State.commands) /\ State.user = user /\ State.commands = commands
      /\ commands \in Nat
  BY StateIs, Fields DEF SInv, Good
<1>2. Online(State, u) /\ ~Protected(State, c)
  BY <1>1 DEF Command, Online, Present, Local
<1>3. c \in Menu[State.user[u].login]
  BY <1>1
<1>4. Good(Handle(State, u, c), State.commands + 1)
  BY <1>1, <1>2, <1>3, HandleGood
<1>5. Become(Handle(State, u, c)) /\ commands' = commands + 1 /\ commands' \in Nat
  BY <1>1 DEF Command
<1>6. Good(State', commands')
  BY <1>1, <1>4, <1>5, BecomeGood
<1> QED
  BY <1>6 DEF SInv

LEMMA AnswerInv ==
  ASSUME SInv, NEW u \in Users, Answer(u)
  PROVE  SInv'
<1>1. Good(State, commands) /\ State.user = user /\ State \in ServerSet /\ Placed(State)
  BY StateIs DEF SInv, Good
<1>2. State.user[u].object # "none"
  BY <1>1 DEF Answer, Placed, NewUser
<1>3. Good([State EXCEPT !.user[u].Locked = FALSE], commands)
  BY <1>1, <1>2, LockedGood
<1> DEFINE U == [user EXCEPT ![u].Locked = FALSE]
           s == [State EXCEPT !.user[u].Locked = FALSE]
<1>4. user' = U /\ s = [State EXCEPT !.user = U]
  BY <1>1 DEF Answer, ServerSet
<1> HIDE DEF U
<1>5. Become(s)
  BY <1>4 DEF Answer, Become, State
<1>6. UNCHANGED commands
  BY DEF Answer
<1> HIDE DEF s
<1>7. Good(s, commands)
  BY <1>3 DEF s
<1> QED
  BY <1>5, <1>6, <1>7, BecomeInv

LEMMA LeaveInv ==
  ASSUME SInv, NEW u \in Users, Leave(u)
  PROVE  SInv'
<1>1. Good(State, commands) /\ State.user[u].object = "here" /\ {u} \in SUBSET Users
  BY StateIs DEF SInv, Leave, Local
<1>2. Good(Disconnect(State, {u}), commands)
  BY <1>1, DisconnectGood
<1> QED
  BY <1>2, BecomeInv DEF Leave

LEMMA FlushInv ==
  ASSUME SInv, NEW late \in SUBSET Users, Flush(late)
  PROVE  SInv'
<1>1. Good(Round(late), commands)
  BY RoundGood DEF SInv
<1> QED
  BY <1>1, BecomeInv DEF Flush

LEMMA ApplyInv ==
  ASSUME SInv, Apply
  PROVE  SInv'
<1>1. State.reducer = reducer /\ Good(State, commands)
  BY StateIs DEF SInv
<1>2. Good(Destroy([State EXCEPT !.reducer = {}], reducer), commands)
  BY <1>1, DestroyGood
<1> QED
  BY <1>2, BecomeInv DEF Apply

LEMMA TimedInv ==
  ASSUME SInv, Timed
  PROVE  SInv'
<1>1. Good(ForceExits(State), commands)
  BY ForceExitsGood DEF SInv
<1>2. Good(ResetLogins(ForceExits(State)), commands)
  BY <1>1, ResetLoginsGood
<1> QED
  BY <1>2, BecomeInv DEF Timed

(* A restart leaves nobody but records and groups.                         *)
LEMMA RestartInv ==
  ASSUME SInv, Restart
  PROVE  SInv'
<1> DEFINE t == State'
           gone == [NewUser EXCEPT !.object = "gone"]
           U == [u \in Users |-> IF user[u].object = "here" THEN gone ELSE user[u]]
           GL == [g \in GroupNames |->
                    IF GroupList[g].listed
                    THEN [listed |-> TRUE, can |-> groups[g], rawflags |-> groups[g]]
                    ELSE NoGroup]
           CL == [c \in Channels |-> NoChannel]
<1>0. /\ user \in [Users -> ClientSet] /\ record \in [Logins -> RecordSet]
      /\ groups \in [GroupNames -> SUBSET GroupFlags] /\ session \in [Users -> SessionSet]
      /\ commands \in Nat /\ GroupList \in [GroupNames -> GroupSet]
      /\ Placed(State) /\ Attached(State) /\ Cached(State) /\ Grouped(State)
      /\ Dated(State, commands) /\ (~DefaultReturns => DefaultKept(State))
  BY StateIs, Fields DEF SInv, Good
<1>1. /\ t.user = U /\ t.record = record /\ t.groups = groups
      /\ t.cache = [l \in Logins |-> None] /\ t.sessions = [l \in Logins |-> None]
      /\ t.session = session /\ t.GroupList = GL /\ t.ChannelList = CL
      /\ t.MonitorList = {} /\ t.NotifyList = {} /\ t.logins = <<>>
      /\ t.not_registered_track = 0 /\ t.AwaitingExit = {} /\ t.reducer = {}
      /\ t.commands = commands /\ commands' = commands
  BY DEF Restart, State
<1>2. gone \in ClientSet /\ gone.object = "gone" /\ gone.registered = {} /\ ~gone.logged
      /\ gone.login = None /\ gone.session = None /\ gone.account = None
  BY DEF NewUser, ClientSet
<1> HIDE DEF gone
<1>3. ASSUME NEW u \in Users
      PROVE  /\ U[u] \in ClientSet /\ U[u].object # "here"
             /\ U[u].object = "none" => U[u] = NewUser
             /\ "LOGIN" \in U[u].registered => U[u].login # None
             /\ U[u].registered # {} => U[u].logged
             /\ U[u].session # None => U[u].registered = REG_OK
             /\ ~U[u].logged => U[u].login = None /\ U[u].account = None
             /\ U[u] \in {gone, user[u]}
  <2>1. U[u] = IF user[u].object = "here" THEN gone ELSE user[u]
    OBVIOUS
  <2> HIDE DEF U
  <2>2. CASE user[u].object = "here"
    BY <1>2, <2>1, <2>2
  <2>3. CASE user[u].object # "here"
    BY <1>0, <2>1, <2>3, StateIs DEF Placed, Attached, Dated
  <2> QED
    BY <2>2, <2>3
<1>4. ASSUME NEW g \in GroupNames
      PROVE  /\ GL[g] \in GroupSet /\ GL[g].listed = GroupList[g].listed
             /\ GL[g].can = GL[g].rawflags
             /\ ~GL[g].listed => GL[g].can = {}
  <2>1. GroupList[g] \in GroupSet /\ groups[g] \in SUBSET GroupFlags
    BY <1>0
  <2>2. CASE GroupList[g].listed
    <3>1. GL[g] = [listed |-> TRUE, can |-> groups[g], rawflags |-> groups[g]]
      BY <2>2
    <3> HIDE DEF GL
    <3> QED
      BY <2>1, <2>2, <3>1 DEF GroupSet
  <2>3. CASE ~GroupList[g].listed
    <3>1. GL[g] = NoGroup
      BY <2>3
    <3> HIDE DEF GL
    <3>2. GroupList[g].listed = FALSE
      BY <2>1, <2>3 DEF GroupSet
    <3>3. /\ NoGroup \in GroupSet /\ NoGroup.listed = FALSE /\ NoGroup.can = {}
          /\ NoGroup.rawflags = {}
      BY DEF GroupSet, NoGroup
    <3> QED
      BY <3>1, <3>2, <3>3
  <2> QED
    BY <2>2, <2>3
<1>5. /\ U \in [Users -> ClientSet] /\ GL \in [GroupNames -> GroupSet]
      /\ CL \in [Channels -> ChannelSet]
      /\ \A c \in Channels : CL[c].subscribed = {} /\ ~CL[c].listed
  <2>1. U = [u \in Users |-> U[u]] /\ GL = [g \in GroupNames |-> GL[g]]
    OBVIOUS
  <2>2. CL \in [Channels -> ChannelSet] /\ \A c \in Channels : CL[c].subscribed = {} /\ ~CL[c].listed
    BY DEF NoChannel, ChannelSet
  <2> HIDE DEF U, GL, CL
  <2> QED
    BY <1>3, <1>4, <2>1, <2>2
<1> HIDE DEF U, GL, CL
<1>6. t \in ServerSet
  <2>1. t = [user |-> U, record |-> record, groups |-> groups, cache |-> [l \in Logins |-> None],
             sessions |-> [l \in Logins |-> None], session |-> session, GroupList |-> GL,
             ChannelList |-> CL, MonitorList |-> {}, NotifyList |-> {}, logins |-> <<>>,
             not_registered_track |-> 0, AwaitingExit |-> {}, reducer |-> {}, commands |-> commands]
    BY DEF Restart, State, U, GL, CL, gone
  <2> HIDE DEF t
  <2> QED
    BY <1>0, <1>5, <2>1 DEF ServerSet
<1> HIDE DEF t
<1>7. \A u \in Users : ~Present(t, u) /\ ~Online(t, u)
  BY <1>1, <1>3 DEF Online, Present
<1>8. Placed(t)
  <2>1. Unregistered(t) = {}
    BY <1>7 DEF Unregistered
  <2>2. t.not_registered_track = Cardinality(Unregistered(t))
    BY <1>1, <2>1, FS_EmptySet
  <2>3. Distinct(t.logins) /\ ToSet(t.logins) = {}
    BY <1>1 DEF Distinct, ToSet
  <2> QED
    BY <1>1, <1>3, <1>7, <2>2, <2>3 DEF Placed
<1>9. Attached(t)
  <2>1. \A l \in Logins : t.sessions[l] = None
    BY <1>1
  <2>2. Exists(t, Root) /\ "r" \in t.record[Root].flags
    BY <1>0, <1>1, StateIs DEF Attached, Exists
  <2> QED
    BY <1>1, <1>3, <1>7, <2>1, <2>2, Distinction DEF Attached
<1>10. Cached(t)
  <2>1. \A l \in Logins : t.cache[l] = None
    BY <1>1
  <2> QED
    BY <1>0, <1>1, <2>1, StateIs DEF Cached, Exists
<1>11. Grouped(t)
  <2>1. \A l \in Logins : \A g \in record[l].groups : g \in GroupNames
    BY <1>0 DEF RecordSet
  <2> QED
    BY <1>0, <1>1, <1>4, <2>1, StateIs DEF Grouped
<1>12. Dated(t, commands)
  <2>1. \A l \in Logins : Exists(t, l) => t.record[l].created <= commands
    BY <1>0, <1>1, StateIs DEF Dated, Exists
  <2>2. \A u \in Users : U[u].account # None => U[u] = user[u]
    BY <1>2, <1>3
  <2> QED
    BY <1>0, <1>1, <1>3, <2>1, <2>2, StateIs DEF Dated, Exists
<1>13. Paired(t)
  BY <1>1, <1>5, <1>7 DEF Paired, Subscribed
<1>14. ~DefaultReturns => Matching(t) /\ DefaultKept(t)
  BY <1>0, <1>1, <1>4, <1>7, StateIs, Distinction DEF Matching, DefaultKept
<1>15. Good(t, commands)
  BY <1>6, <1>8, <1>9, <1>10, <1>11, <1>12, <1>13, <1>14 DEF Good
<1> QED
  BY <1>1, <1>15 DEF SInv, t

LEMMA InitInv == Init => SInv
<1> SUFFICES ASSUME Init PROVE SInv
  OBVIOUS
<1> DEFINE t == State
<1>1. /\ t.user = user /\ t.record = record /\ t.groups = groups /\ t.cache = cache
      /\ t.sessions = sessions /\ t.session = session /\ t.GroupList = GroupList
      /\ t.ChannelList = ChannelList /\ t.MonitorList = {} /\ t.NotifyList = {}
      /\ t.logins = <<>> /\ t.not_registered_track = 0 /\ t.AwaitingExit = {}
      /\ t.reducer = {} /\ t.commands = 0 /\ commands = 0
  BY StateIs DEF Init
<1>2. NewUser \in ClientSet /\ NewUser.object = "none" /\ NewUser.registered = {} /\ ~NewUser.logged
      /\ NewUser.login = None /\ NewUser.session = None /\ NewUser.account = None
  BY DEF NewUser, ClientSet
<1>3. user \in [Users -> ClientSet] /\ \A u \in Users : user[u] = NewUser
  BY <1>2 DEF Init
<1>4. ASSUME NEW l \in Logins
      PROVE  /\ record[l] \in RecordSet
             /\ l \in Known => /\ record[l].created = 0 /\ record[l].groups = {"default"}
                               /\ l = Root => "r" \in record[l].flags
             /\ l \notin Known => /\ record[l].created = None /\ ~record[l].status
                                  /\ record[l].groups = {}
  <2>1. record[l] = IF l \in Known
                    THEN [NoRecord EXCEPT !.created = 0, !.pass = Secret, !.status = TRUE,
                                  !.flags = IF l = Root THEN {"r"} ELSE {}, !.groups = {"default"}]
                    ELSE NoRecord
    BY DEF Init
  <2>2. CASE l \in Known
    <3> DEFINE f == IF l = Root THEN {"r"} ELSE {}
    <3>1. f \in SUBSET {"e", "r", "m"} /\ (l = Root => "r" \in f)
      OBVIOUS
    <3>2. record[l] = [NoRecord EXCEPT !.created = 0, !.pass = Secret, !.status = TRUE,
                                       !.flags = f, !.groups = {"default"}]
      BY <2>1, <2>2
    <3> HIDE DEF f
    <3>3. /\ record[l].created = 0 /\ record[l].groups = {"default"} /\ record[l].flags = f
      BY <3>2 DEF NoRecord
    <3>4. record[l] = [created |-> 0, pass |-> Secret, status |-> TRUE, flags |-> f,
                       groups |-> {"default"}, chans |-> {}, notify |-> FALSE]
      BY <3>2 DEF NoRecord
    <3>5. record[l] \in RecordSet
      BY <3>1, <3>4, Distinction, SessionsAssumption DEF RecordSet
    <3> QED
      BY <2>2, <3>1, <3>3, <3>5
  <2>3. CASE l \notin Known
    BY <2>1, <2>3 DEF NoRecord, RecordSet
  <2> QED
    BY <2>2, <2>3
<1>5. record \in [Logins -> RecordSet]
  <2>1. record = [l \in Logins |-> record[l]]
    BY DEF Init
  <2> QED
    BY <1>4, <2>1
<1>6. DEFAULT_GFLAGS \subseteq GroupFlags
  BY DEF DEFAULT_GFLAGS, GroupFlags, Ability
<1>7. ASSUME NEW g \in GroupNames
      PROVE  /\ GroupList[g] \in GroupSet /\ GroupList[g].can = GroupList[g].rawflags
             /\ GroupList[g].can \subseteq GroupFlags
             /\ GroupList[g].listed <=> g = "default"
             /\ ~GroupList[g].listed => GroupList[g].can = {}
  <2>1. GroupList[g] = IF g = "default"
                       THEN [listed |-> TRUE, can |-> DEFAULT_GFLAGS, rawflags |-> DEFAULT_GFLAGS]
                       ELSE NoGroup
    BY DEF Init
  <2> QED
    BY <1>6, <2>1 DEF NoGroup, GroupSet
<1>8. GroupList \in [GroupNames -> GroupSet] /\ groups \in [GroupNames -> SUBSET GroupFlags]
  <2>1. GroupList = [g \in GroupNames |-> GroupList[g]] /\ groups = [g \in GroupNames |-> GroupList[g].can]
    BY DEF Init
  <2> QED
    BY <1>7, <2>1
<1>9. /\ cache = [l \in Logins |-> None] /\ sessions = [l \in Logins |-> None]
      /\ session \in [Users -> SessionSet]
  BY DEF Init, SessionSet
<1>10. /\ ChannelList \in [Channels -> ChannelSet]
       /\ \A c \in Channels : ChannelList[c].subscribed = {} /\ ~ChannelList[c].listed
  BY DEF Init, NoChannel, ChannelSet
<1>11. t \in ServerSet
  <2>1. /\ <<>> \in Seq(Users) /\ cache \in [Logins -> Passwords \cup {None}]
        /\ sessions \in [Logins -> Users \cup {None}]
    BY <1>9
  <2>2. t = [user |-> user, record |-> record, groups |-> groups, cache |-> cache,
             sessions |-> sessions, session |-> session, GroupList |-> GroupList,
             ChannelList |-> ChannelList, MonitorList |-> {}, NotifyList |-> {}, logins |-> <<>>,
             not_registered_track |-> 0, AwaitingExit |-> {}, reducer |-> {}, commands |-> 0]
    BY DEF State, Init
  <2> HIDE DEF t
  <2> QED
    BY <1>3, <1>5, <1>8, <1>9, <1>10, <2>1, <2>2 DEF ServerSet
<1> HIDE DEF t
<1>12. \A u \in Users : ~Present(t, u) /\ ~Online(t, u)
  BY <1>1, <1>2, <1>3 DEF Online, Present
<1>13. Placed(t)
  <2>1. Unregistered(t) = {}
    BY <1>12 DEF Unregistered
  <2>2. t.not_registered_track = Cardinality(Unregistered(t))
    BY <1>1, <2>1, FS_EmptySet
  <2>3. Distinct(t.logins) /\ ToSet(t.logins) = {}
    BY <1>1 DEF Distinct, ToSet
  <2> QED
    BY <1>1, <1>2, <1>3, <1>12, <2>2, <2>3 DEF Placed
<1>14. Attached(t) /\ Cached(t)
  <2>1. \A l \in Logins : t.sessions[l] = None /\ t.cache[l] = None
    BY <1>1, <1>9
  <2>2. Exists(t, Root) /\ "r" \in t.record[Root].flags
    BY <1>1, <1>4, SessionsAssumption, Distinction DEF Exists
  <2>3. Attached(t)
    BY <1>1, <1>2, <1>3, <1>12, <2>1, <2>2, Distinction DEF Attached
  <2>4. Cached(t)
    BY <1>1, <1>4, <2>1, Distinction DEF Cached, Exists
  <2> QED
    BY <2>3, <2>4
<1>15. Grouped(t) /\ Dated(t, 0)
  <2>1. \A u \in Users : t.user[u].account = None /\ t.user[u].login = None
    BY <1>1, <1>2, <1>3
  <2>2. \A l \in Logins : Exists(t, l) => t.record[l].created = 0
    BY <1>1, <1>4 DEF Exists
  <2>3. Dated(t, 0)
    BY <2>1, <2>2 DEF Dated
  <2>4. \A l \in Logins : t.record[l].groups \subseteq {"default"}
    BY <1>1, <1>4
  <2>5. Grouped(t)
    BY <1>1, <1>7, <2>4 DEF Grouped
  <2> QED
    BY <2>3, <2>5
<1>16. Paired(t)
  BY <1>1, <1>10, <1>12 DEF Paired, Subscribed
<1>17. Matching(t) /\ DefaultKept(t)
  BY <1>1, <1>7, <1>12, Distinction DEF Matching, DefaultKept
<1> QED
  BY <1>1, <1>11, <1>13, <1>14, <1>15, <1>16, <1>17 DEF SInv, Good, t

LEMMA StepInv == SInv /\ [Next]_vars => SInv'
<1> SUFFICES ASSUME SInv, [Next]_vars PROVE SInv'
  OBVIOUS
<1>1. CASE UNCHANGED vars
  <2>1. State' = State /\ commands' = commands
    BY <1>1 DEF vars, State
  <2> QED
    BY <2>1 DEF SInv
<1>2. CASE Next
  BY <1>2, AddUserInv, IdentifyInv, CommandInv, AnswerInv, LeaveInv, FlushInv, ApplyInv, TimedInv,
     RestartInv DEF Next
<1> QED
  BY <1>1, <1>2

LEMMA SInvariant == Spec => []SInv
BY InitInv, StepInv, PTL DEF Spec

-----------------------------------------------------------------------------
(* What the invariant says of the answers that clients get                 *)

LEMMA SInvIs ==
  ASSUME SInv
  PROVE  /\ State \in ServerSet /\ Placed(State) /\ Attached(State) /\ Cached(State)
         /\ Grouped(State) /\ Dated(State, commands) /\ Paired(State)
         /\ ~DefaultReturns => Matching(State)
BY DEF SInv, Good

LEMMA FINGERIs ==
  ASSUME NEW s \in ServerSet, Placed(s)
  PROVE  FINGER(s) = {u \in Users : Online(s, u)}
<1>1. ToSet(s.logins) \subseteq Users
  BY Fields DEF ToSet
<1> QED
  BY <1>1, Distinction DEF FINGER, Placed, Online

LEMMA RegisteredIs ==
  ASSUME NEW u \in Users
  PROVE  /\ Local(u) <=> Present(State, u)
         /\ Registered(u) <=> Online(State, u)
BY StateIs DEF Local, Registered, Present, Online

(* Types, and the number of clients that have not registered.              *)
THEOREM TypeCorrect == Spec => []TypeOK
<1>1. SInv => TypeOK
  <2> SUFFICES ASSUME SInv PROVE TypeOK
    OBVIOUS
  <2>0. State \in ServerSet /\ Placed(State)
    BY SInvIs
  <2>1. /\ user \in [Users -> ClientSet] /\ cache \in [Logins -> Passwords \cup {None}]
        /\ sessions \in [Logins -> Users \cup {None}]
        /\ MonitorList \cup NotifyList \cup AwaitingExit \cup reducer \subseteq Users
    BY <2>0, Fields, StateIs
  <2>2. ASSUME NEW u \in Users
        PROVE  /\ user[u].object \in {"none", "here", "gone"}
               /\ user[u].registered \in SUBSET REG_OK
               /\ user[u].login \in Logins \cup {None}
               /\ user[u].session \in Users \cup {None}
               /\ user[u].Groups \subseteq GroupNames /\ user[u].chans \subseteq Channels
    <3>1. user[u] \in ClientSet
      BY <2>1
    <3> QED
      BY <3>1 DEF ClientSet, REG_OK, REG_LOGINUSER, REG_USER
  <2>3. \A i, j \in DOMAIN logins : i # j => logins[i] # logins[j]
    BY <2>0, StateIs DEF Placed, Distinct
  <2>4. {u \in Users : Local(u) /\ user[u].registered # REG_OK} = Unregistered(State)
    BY RegisteredIs, StateIs DEF Unregistered
  <2>5. not_registered_track = Cardinality(Unregistered(State))
    BY <2>0, StateIs DEF Placed
  <2> QED
    BY <2>1, <2>2, <2>3, <2>4, <2>5 DEF TypeOK
<1> QED
  BY <1>1, SInvariant, PTL

(* All instances of a login work with the session that the SessionManager  *)
(* has for it, until the last of them is deleted; FINDFLAGS shows all of   *)
(* them or none; and root is an administrator wherever it is logged in.    *)
THEOREM SessionsAreShared == Spec => []SessionsShared
<1>1. SInv => SessionsShared
  <2> SUFFICES ASSUME SInv PROVE SessionsShared
    OBVIOUS
  <2> DEFINE s == State
  <2>0. s \in ServerSet /\ Placed(s) /\ Attached(s)
    BY SInvIs
  <2>1. FINGER(s) = {u \in Users : Registered(u)} /\ FINGER(s) = {u \in Users : Online(s, u)}
    BY <2>0, FINGERIs, RegisteredIs
  <2>2. /\ s.user = user /\ s.sessions = sessions /\ s.record = record /\ s.session = session
        /\ s.logins = logins /\ record \in [Logins -> RecordSet] /\ ToSet(logins) \subseteq Users
    <3>1. s.logins \in Seq(Users) /\ s.record \in [Logins -> RecordSet]
      BY <2>0, Fields
    <3> QED
      BY <3>1, StateIs DEF ToSet
  <2>3. \A u \in FINGER(s) :
          sessions[user[u].login] # None /\ user[u].session = sessions[user[u].login]
    BY <2>0, <2>1, <2>2 DEF Attached
  <2>4. ASSUME SessionsReadable(s), NEW flag \in {"all", "r", "a"}, NEW t \in FINDFLAGS(s, flag),
               NEW v \in LOGINS(s, t[2])
        PROVE  <<v, t[2], t[3]>> \in FINDFLAGS(s, flag)
    <3>1. PICK u \in FindPrivs(s, flag) :
            t = <<u, s.user[u].login, s.session[s.user[u].session].rawflags>>
      BY <2>4 DEF FINDFLAGS
    <3>2. u \in ToSet(s.logins)
      BY DEF FindPrivs
    <3>3. u \in Users /\ Online(s, u)
      <4>1. u \in Users /\ s.user[u].session # None
        BY <2>2, <2>4, <3>2 DEF SessionsReadable
      <4>2. s.user[u].registered = REG_OK
        BY <2>0, <4>1 DEF Attached
      <4> QED
        BY <2>0, <3>2, <4>1, <4>2 DEF Placed, Online
    <3>4. v \in Users /\ Online(s, v) /\ s.user[v].login = s.user[u].login /\ v \in ToSet(s.logins)
      <4>1. v \in FindLogin(s, s.user[u].login)
        BY <2>4, <3>1 DEF LOGINS
      <4> QED
        BY <2>0, <4>1, FindLoginIs DEF FindLogin
    <3>5. s.user[v].session = s.user[u].session
      BY <2>0, <3>3, <3>4 DEF Attached
    <3> HIDE DEF s
    <3>6. v \in FindPrivs(s, flag)
      BY <3>1, <3>4, <3>5 DEF FindPrivs
    <3> QED
      BY <3>1, <3>4, <3>5, <3>6 DEF FINDFLAGS
  <2>5. \A l \in Logins : sessions[l] # None =>
          \E u \in Users : /\ user[u].object = "here" /\ user[u].login = l
                           /\ user[u].registered = REG_OK
    BY <2>0, <2>2 DEF Attached
  <2>6. Root \in LISTADMINS(s) /\ "r" \in GETFLAGS(s, Root) /\ "can_root" \in LISTFLAGS(s, Root)
    <3>1. Exists(s, Root) /\ "r" \in s.record[Root].flags /\ Root \in Logins
      BY <2>0, Distinction DEF Attached
    <3>2. FlagName["r"] = "can_root"
      BY DEF FlagName
    <3> HIDE DEF s
    <3> QED
      BY <3>1, <3>2 DEF LISTADMINS, LISTUSERS, GETFLAGS, LISTFLAGS
  <2>7. ASSUME NEW u \in LOGINS(s, Root)
        PROVE  CanAdmin(s, u)
    <3>1. u \in Users /\ Online(s, u) /\ s.user[u].login = Root
      BY <2>0, FindLoginIs DEF LOGINS
    <3> QED
      BY <2>0, <3>1 DEF Attached, CanAdmin
  <2> HIDE DEF s
  <2>8. s = State
    BY DEF s
  <2> QED
    BY <2>1, <2>3, <2>4, <2>5, <2>6, <2>7, <2>8 DEF SessionsShared
<1> QED
  BY <1>1, SInvariant, PTL

(* What is in the cache is the password of an account that may be used,    *)
(* whatever PASSWD, SETSTATUS, DELUSER and ADDUSER do in between.          *)
THEOREM CacheIsCurrent == Spec => []CacheCurrent
<1>1. SInv => CacheCurrent
  <2> SUFFICES ASSUME SInv, NEW l \in Logins, cache[l] # None
               PROVE  /\ INCACHE(State, l) /\ GETSTATUS(State, l)
                      /\ l \in LISTUSERS(State) \cap LISTSTATUS(State, TRUE)
                      /\ record[l].pass = cache[l]
    BY DEF CacheCurrent
  <2>1. /\ Exists(State, l) /\ State.record[l].status /\ State.record[l].pass = State.cache[l]
        /\ State.cache[l] # None /\ State.record[l].status = TRUE
    <3>1. State.record \in [Logins -> RecordSet]
      BY SInvIs, Fields
    <3>2. State.record[l].status \in BOOLEAN
      BY <3>1 DEF RecordSet
    <3>3. State.cache[l] # None
      BY StateIs
    <3>4. Exists(State, l) /\ State.record[l].status /\ State.record[l].pass = State.cache[l]
      BY <3>3, SInvIs DEF Cached
    <3> QED
      BY <3>2, <3>3, <3>4
  <2>2. record[l].pass = cache[l]
    BY <2>1, StateIs
  <2> QED
    BY <2>1, <2>2 DEF INCACHE, GETSTATUS, LISTUSERS, LISTSTATUS
<1> QED
  BY <1>1, SInvariant, PTL

LEMMA AbilityIs ==
  ASSUME NEW f \in GroupFlags, NEW h \in GroupFlags, Ability[f] = Ability[h]
  PROVE  f = h
BY DEF GroupFlags, Ability

(* What a group can is what GSHOW says.                                    *)
LEMMA GSHOWIs ==
  ASSUME NEW s \in ServerSet, NEW g \in GroupNames, NEW f \in {"k", "p", "c"}
  PROVE  CanDo(s, g, f) <=> GSHOW(s, g) \cap {Ability[f], Ability["z"]} # {}
<1>1. s.GroupList[g].can \subseteq GroupFlags
  <2>1. s.GroupList[g] \in GroupSet
    BY Fields
  <2> QED
    BY <2>1 DEF GroupSet
<1>2. f \in GroupFlags /\ "z" \in GroupFlags
  BY DEF GroupFlags, Ability
<1>3. \A h \in s.GroupList[g].can : /\ Ability[h] = Ability[f] <=> h = f
                                    /\ Ability[h] = Ability["z"] <=> h = "z"
  BY <1>1, <1>2, AbilityIs
<1> QED
  BY <1>3 DEF CanDo, GSHOW

(* Where the group default does not come back after its deletion: what     *)
(* MYGROUPS tells the instances of an account are the groups of its record *)
(* that there are, and they may do what GSHOW says that one of those can.  *)
THEOREM GroupsFollowRecords ==
  ASSUME ~DefaultReturns
  PROVE  Spec => []GroupsMatchRecord
<1>1. SInv => GroupsMatchRecord
  <2> SUFFICES ASSUME SInv PROVE GroupsMatchRecord
    OBVIOUS
  <2> DEFINE s == State
  <2>0. s \in ServerSet /\ Placed(s) /\ Cached(s) /\ Grouped(s) /\ Matching(s)
    BY SInvIs
  <2>1. s.user = user /\ s.record = record
    BY StateIs
  <2> HIDE DEF s
  <2>2. ASSUME NEW u \in FINGER(s), user[u].account = record[user[u].login].created
        PROVE  /\ MYGROUPS(s, u) = GLIST(s, user[u].login) \cap GROUPS(s)
               /\ \A f \in {"k", "p", "c"} : InGroup(s, u, f) <=>
                    \E g \in GLIST(s, user[u].login) :
                      GSHOW(s, g) \cap {Ability[f], Ability["z"]} # {}
    <3> DEFINE l == s.user[u].login
    <3>1. u \in Users /\ Online(s, u)
      BY <2>0, FINGERIs
    <3>2. l \in Logins
      BY <2>0, <3>1, OnlineIn, Distinction DEF Online
    <3>3. GLIST(s, l) = s.record[l].groups /\ GLIST(s, l) \subseteq GroupNames
      <4>1. s.record[l] \in RecordSet
        BY <2>0, <3>2, Fields
      <4>2. GLIST(s, l) = s.record[l].groups
        BY <2>0, <3>2 DEF GLIST, Cached
      <4> QED
        BY <4>1, <4>2 DEF RecordSet
    <3>4. MYGROUPS(s, u) = GLIST(s, l) \cap GROUPS(s)
      <4>1. s.user[u].Groups = s.record[l].groups \cap {g \in GroupNames : s.GroupList[g].listed}
        BY <2>0, <2>1, <2>2, <3>1 DEF Matching
      <4> QED
        BY <3>3, <4>1 DEF MYGROUPS, GROUPS
    <3>5. ASSUME NEW f \in {"k", "p", "c"}
          PROVE  InGroup(s, u, f) <=>
                   \E g \in GLIST(s, l) : GSHOW(s, g) \cap {Ability[f], Ability["z"]} # {}
      <4>1. \A g \in GroupNames : g \notin GROUPS(s) => ~CanDo(s, g, f)
        BY <2>0 DEF GROUPS, Grouped, CanDo
      <4>2. InGroup(s, u, f) <=> \E g \in MYGROUPS(s, u) : CanDo(s, g, f)
        BY DEF InGroup, MYGROUPS
      <4>3. InGroup(s, u, f) <=> \E g \in GLIST(s, l) : CanDo(s, g, f)
        BY <3>3, <3>4, <4>1, <4>2
      <4>4. \A g \in GLIST(s, l) :
              CanDo(s, g, f) <=> GSHOW(s, g) \cap {Ability[f], Ability["z"]} # {}
        BY <2>0, <3>3, GSHOWIs
      <4> QED
        BY <4>3, <4>4
    <3> QED
      BY <2>1, <3>4, <3>5
  <2>3. ASSUME NEW g \in GROUPS(s), "invalid" \notin GFLAGS(s, g)
        PROVE  GSHOW(s, g) = {Ability[f] : f \in GFLAGS(s, g)}
    <3>1. s.GroupList[g].can = s.GroupList[g].rawflags
      BY <2>0, <2>3 DEF GROUPS, GFLAGS, Grouped
    <3> QED
      BY <3>1 DEF GSHOW, GFLAGS
  <2>4. s = State
    BY DEF s
  <2> QED
    BY <2>2, <2>3, <2>4 DEF GroupsMatchRecord
<1> QED
  BY <1>1, SInvariant, PTL

(* Channels and clients know each other, only clients that are logged in   *)
(* hear anything, and PUBLISH reaches all the others of a channel.         *)
THEOREM SubscriptionsArePaired == Spec => []SubscriptionsPaired
<1>1. SInv => SubscriptionsPaired
  <2> SUFFICES ASSUME SInv PROVE SubscriptionsPaired
    OBVIOUS
  <2> DEFINE s == State
  <2>0. s \in ServerSet /\ Placed(s) /\ Paired(s)
    BY SInvIs
  <2>1. \A u \in Users : Local(u) <=> Present(s, u)
    BY RegisteredIs
  <2> HIDE DEF s
  <2>2. FINGER(s) = {u \in Users : Online(s, u)}
    BY <2>0, FINGERIs
  <2>3. ASSUME NEW c \in Channels
        PROVE  /\ s.ChannelList[c].subscribed \subseteq Users
               /\ USERS(s, c) > 0 <=> s.ChannelList[c].subscribed # {}
    <3>1. s.ChannelList[c] \in ChannelSet
      BY <2>0, Fields
    <3>2. s.ChannelList[c].subscribed \in SUBSET Users
      BY <3>1 DEF ChannelSet
    <3>3. IsFiniteSet(s.ChannelList[c].subscribed)
      BY <3>2, Distinction, FS_Subset
    <3>4. Cardinality(s.ChannelList[c].subscribed) \in Nat
      BY <3>3, FS_CardinalityType
    <3>5. Cardinality(s.ChannelList[c].subscribed) = 0 <=> s.ChannelList[c].subscribed = {}
      BY <3>3, FS_EmptySet
    <3> QED
      BY <3>2, <3>4, <3>5 DEF USERS
  <2>4. \A u \in Users, c \in Channels :
          /\ Local(u) => (c \in MYCHANS(s, u) <=> u \in SLIST(s, c))
          /\ u \in SLIST(s, c) => u \in FINGER(s)
    BY <2>0, <2>1, <2>2 DEF Paired, Subscribed, MYCHANS, SLIST
  <2>5. LISTCHANS(s, 0, 0) = {c \in Channels : USERS(s, c) > 0}
    <3>1. \A c \in Channels : s.ChannelList[c].listed <=> USERS(s, c) > 0
      BY <2>0, <2>3 DEF Paired
    <3> QED
      BY <3>1 DEF LISTCHANS
  <2>6. ASSUME NEW u \in FINGER(s), NEW c \in Channels, MayPublish(s, u, c)
        PROVE  ToChannel(s, u, c) = {v \in FINGER(s) : c \in GETCHANS(s, v)} \ {u}
    <3>1. \A v \in FINGER(s) : c \in GETCHANS(s, v) <=> v \in s.ChannelList[c].subscribed
      BY <2>0, <2>2 DEF Paired, Subscribed, GETCHANS, Found, Online, Present
    <3>2. s.ChannelList[c].subscribed \subseteq FINGER(s)
      BY <2>0, <2>2, <2>3 DEF Paired, Subscribed
    <3>3. ~s.ChannelList[c].listed => s.ChannelList[c].subscribed = {}
      BY <2>0 DEF Paired
    <3> QED
      BY <2>6, <3>1, <3>2, <3>3 DEF ToChannel
  <2>7. ASSUME NEW u \in FINGER(s)
        PROVE  /\ ToServer(s, u) \subseteq FINGER(s)
               /\ \A v \in Users : ToInstance(s, u, v) \subseteq FINGER(s)
    BY <2>2 DEF ToServer, ToInstance, Found, Online, Present
  <2>8. s = State
    BY DEF s
  <2> QED
    BY <2>4, <2>5, <2>6, <2>7, <2>8 DEF SubscriptionsPaired
<1> QED
  BY <1>1, SInvariant, PTL

(* No list keeps a user that the Reducer has deleted, in whatever order    *)
(* clients leave, are logged out, unlocked and deleted, and the Monitor    *)
(* and the Notifier write to clients that are logged in.                   *)
THEOREM NothingDangles == Spec => []NoDangling
<1>1. SInv => NoDangling
  <2> SUFFICES ASSUME SInv PROVE NoDangling
    OBVIOUS
  <2> DEFINE s == State
             kept == MONITORLIST(s, None) \cup NotifyList \cup AwaitingExit \cup reducer
                       \cup ToSet(logins) \cup UNION {SLIST(s, c) : c \in Channels}
  <2>0. /\ s \in ServerSet /\ Placed(s) /\ Paired(s) /\ s.MonitorList \subseteq Users
        /\ s.NotifyList \subseteq Users /\ s.AwaitingExit \subseteq Users /\ s.reducer \subseteq Users
        /\ s.logins \in Seq(Users) /\ s.ChannelList \in [Channels -> ChannelSet]
    BY SInvIs, Fields
  <2>1. /\ s.user = user /\ s.NotifyList = NotifyList /\ s.AwaitingExit = AwaitingExit
        /\ s.reducer = reducer /\ s.logins = logins
    BY StateIs
  <2> HIDE DEF s
  <2>2. ToSet(s.logins) \subseteq Users
    BY <2>0 DEF ToSet
  <2>3. ASSUME NEW c \in Channels, NEW u \in SLIST(s, c)
        PROVE  u \in Users /\ Online(s, u)
    <3>1. s.ChannelList[c] \in ChannelSet
      BY <2>0
    <3>2. u \in Users
      BY <3>1 DEF ChannelSet, SLIST
    <3> QED
      BY <2>0, <3>2 DEF Paired, Subscribed, SLIST
  <2>4. ASSUME NEW u \in kept
        PROVE  user[u].object = "here"
    <3>1. CASE u \in s.MonitorList \cup s.NotifyList \cup s.AwaitingExit \cup s.reducer
      BY <2>0, <2>1, <3>1 DEF Placed
    <3>2. CASE u \in ToSet(s.logins)
      BY <2>0, <2>1, <2>2, <3>2 DEF Placed, Present
    <3>3. CASE \E c \in Channels : u \in SLIST(s, c)
      BY <2>1, <2>3, <3>3 DEF Online, Present
    <3>4. MONITORLIST(s, None) = s.MonitorList
      BY DEF MONITORLIST
    <3> QED
      BY <2>1, <2>4, <3>1, <3>2, <3>3, <3>4
  <2>5. ASSUME NEW u \in Users
        PROVE  Watching(s, u) \cup Notified(s, u) \subseteq FINGER(s)
    <3>1. FINGER(s) = {v \in Users : Online(s, v)}
      BY <2>0, FINGERIs
    <3>2. \A v \in s.MonitorList \cup s.NotifyList : ~s.user[v].quitting => v \in FINGER(s)
      BY <2>0, <3>1 DEF Placed, Online, Present
    <3> QED
      BY <3>2 DEF Watching, Notified
  <2>6. s = State
    BY DEF s
  <2> QED
    BY <2>4, <2>5, <2>6 DEF NoDangling
<1> QED
  BY <1>1, SInvariant, PTL
=============================================================================
