------------------------ MODULE CommandQueueProofs ------------------------
(* Theorems about CommandQueue, for any number of clients, any menu of     *)
(* commands and queues of any length.                                      *)
EXTENDS CommandQueue, FiniteSetTheorems, SequenceTheorems, WellFoundedInduction, TLAPS

-----------------------------------------------------------------------------
(* Induction over the clients of a pass, in the form of sets: what holds   *)
(* of 0, and of n + 1 where it holds of n, holds of every number.          *)
LEMMA Climb ==
  ASSUME NEW T, T \subseteq Nat, 0 \in T, \A n \in T : n + 1 \in T
  PROVE  T = Nat
<1>1. SUFFICES ASSUME Nat \ T # {} PROVE FALSE
  OBVIOUS
<1>2. PICK x \in Nat \ T : \A y \in Nat \ T : <<y, x>> \notin OpToRel(<, Nat)
  BY <1>1, NatLessThanWellFounded, WFMin
<1>3. x - 1 \in Nat \ T
  <2>1. x \in Nat /\ x # 0 /\ x \notin T
    BY <1>2
  <2>2. x - 1 \in Nat /\ (x - 1) + 1 = x
    BY <2>1
  <2> QED
    BY <2>1, <2>2
<1>4. <<x - 1, x>> \in OpToRel(<, Nat)
  BY <1>2, <1>3 DEF OpToRel
<1> QED
  BY <1>2, <1>3, <1>4

(* The pass is the recursive function it is written as.                    *)
LEMMA PassIs ==
  Pass = [n \in 0 .. Len(Order) |->
            IF n = 0 THEN [user |-> user, stop |-> FALSE] ELSE Turn(Pass[n - 1], Order[n])]
<1> DEFINE N == Len(Order)
           Upto(n, g) == g = [k \in 0 .. n |->
             IF k = 0 THEN [user |-> user, stop |-> FALSE] ELSE Turn(g[k - 1], Order[k])]
           T == {n \in Nat : \E g : Upto(n, g)}
<1>1. 0 \in T
  <2> DEFINE g == [k \in 0 .. 0 |-> [user |-> user, stop |-> FALSE]]
  <2>1. Upto(0, g)
    OBVIOUS
  <2> QED
    BY <2>1
<1>2. ASSUME NEW n \in T PROVE n + 1 \in T
  <2>0. n \in Nat
    OBVIOUS
  <2>1. PICK g : Upto(n, g)
    OBVIOUS
  <2> DEFINE h == [k \in 0 .. n + 1 |-> IF k <= n THEN g[k] ELSE Turn(g[n], Order[n + 1])]
  <2>2. ASSUME NEW k \in 0 .. n + 1
        PROVE  h[k] = IF k = 0 THEN [user |-> user, stop |-> FALSE] ELSE Turn(h[k - 1], Order[k])
    <3>1. CASE k = 0
      BY <2>1, <3>1
    <3>2. CASE k # 0 /\ k <= n
      <4>1. h[k] = g[k] /\ h[k - 1] = g[k - 1]
        BY <3>2
      <4>2. g[k] = Turn(g[k - 1], Order[k])
        <5> HIDE DEF h, T
        <5>1. k \in 0 .. n
          BY <2>0, <3>2
        <5>2. g[k] = IF k = 0 THEN [user |-> user, stop |-> FALSE] ELSE Turn(g[k - 1], Order[k])
          BY <2>1, <5>1, Zenon
        <5> QED
          BY <5>2, <3>2, Zenon
      <4> QED
        BY <4>1, <4>2, <3>2
    <3>3. CASE k = n + 1
      <4>1. h[k] = Turn(g[n], Order[k]) /\ h[k - 1] = g[n] /\ k # 0
        BY <3>3
      <4> QED
        BY <4>1
    <3> QED
      BY <3>1, <3>2, <3>3
  <2>3. Upto(n + 1, h)
    <3> HIDE DEF h
    <3>1. h = [k \in 0 .. n + 1 |-> h[k]]
      BY DEF h
    <3> QED
      BY <2>2, <3>1
  <2> HIDE DEF h, Upto
  <2> QED
    BY <2>0, <2>3
<1>3. N \in Nat
  BY OrderAssumption, LenProperties
<1>4. N \in T
  <2> HIDE DEF T
  <2>1. T \subseteq Nat
    BY DEF T
  <2> QED
    BY <1>1, <1>2, <1>3, <2>1, Climb
<1>5. \E g : Upto(N, g)
  BY <1>4
<1> QED
  BY <1>5 DEF Pass

-----------------------------------------------------------------------------
(* Queues: Append and Tail, the elements of a queue, and how often a line  *)
(* occurs in it.                                                           *)
Hits(q, i) == Cardinality({k \in DOMAIN q : q[k].id = i})

(* Append(q, r): what add_command does to a queue.                         *)
LEMMA Appended ==
  ASSUME NEW S, NEW q \in Seq(S), NEW r \in S
  PROVE  /\ Append(q, r) \in Seq(S)
         /\ Len(q) \in Nat
         /\ Len(Append(q, r)) = Len(q) + 1
         /\ DOMAIN q = 1 .. Len(q)
         /\ DOMAIN Append(q, r) = 1 .. Len(q) + 1
         /\ \A i \in 1 .. Len(q) : Append(q, r)[i] = q[i]
         /\ Append(q, r)[Len(q) + 1] = r
         /\ Range(Append(q, r)) = Range(q) \cup {r}
<1> DEFINE a == Append(q, r)
<1>1. /\ a \in Seq(S) /\ Len(q) \in Nat /\ Len(a) = Len(q) + 1
      /\ DOMAIN q = 1 .. Len(q) /\ DOMAIN a = 1 .. Len(q) + 1
      /\ \A i \in 1 .. Len(q) : a[i] = q[i]
      /\ a[Len(q) + 1] = r
  OBVIOUS
<1> HIDE DEF a
<1>2. Range(a) = Range(q) \cup {r}
  <2>1. ASSUME NEW e \in Range(a) PROVE e \in Range(q) \cup {r}
    <3>1. PICK i \in 1 .. Len(q) + 1 : e = a[i]
      BY <1>1 DEF Range
    <3>2. CASE i = Len(q) + 1
      BY <1>1, <3>1, <3>2
    <3>3. CASE i # Len(q) + 1
      <4>1. i \in 1 .. Len(q)
        BY <1>1, <3>3
      <4> QED
        BY <1>1, <3>1, <4>1 DEF Range
    <3> QED
      BY <3>2, <3>3
  <2>2. ASSUME NEW e \in Range(q) PROVE e \in Range(a)
    <3>1. PICK i \in 1 .. Len(q) : e = q[i]
      BY <1>1 DEF Range
    <3>2. i \in 1 .. Len(q) + 1 /\ a[i] = e
      BY <1>1, <3>1
    <3> QED
      BY <1>1, <3>2 DEF Range
  <2>3. r \in Range(a)
    <3>1. Len(q) + 1 \in 1 .. Len(q) + 1
      BY <1>1
    <3> QED
      BY <1>1, <3>1 DEF Range
  <2> QED
    BY <2>1, <2>2, <2>3
<1> QED
  BY <1>1, <1>2 DEF a

(* Tail(q): what pop_front does to a queue.                                *)
LEMMA Popped ==
  ASSUME NEW S, NEW q \in Seq(S), q # <<>>
  PROVE  /\ Head(q) \in S /\ Tail(q) \in Seq(S) /\ Head(q) = q[1]
         /\ Len(q) \in Nat \ {0}
         /\ Len(Tail(q)) = Len(q) - 1
         /\ DOMAIN q = 1 .. Len(q)
         /\ DOMAIN Tail(q) = 1 .. Len(q) - 1
         /\ \A i \in 1 .. Len(q) - 1 : Tail(q)[i] = q[i + 1]
         /\ Range(q) = Range(Tail(q)) \cup {Head(q)}
<1> DEFINE y == Tail(q)
<1>1. /\ Head(q) \in S /\ y \in Seq(S) /\ Head(q) = q[1]
      /\ Len(q) \in Nat \ {0} /\ Len(y) = Len(q) - 1
      /\ DOMAIN q = 1 .. Len(q) /\ DOMAIN y = 1 .. Len(q) - 1
      /\ \A i \in 1 .. Len(q) - 1 : y[i] = q[i + 1]
  OBVIOUS
<1> HIDE DEF y
<1>2. Range(q) = Range(y) \cup {Head(q)}
  <2>1. ASSUME NEW e \in Range(q) PROVE e \in Range(y) \cup {Head(q)}
    <3>1. PICK i \in 1 .. Len(q) : e = q[i]
      BY <1>1 DEF Range
    <3>2. CASE i = 1
      BY <1>1, <3>1, <3>2
    <3>3. CASE i # 1
      <4>1. i - 1 \in 1 .. Len(q) - 1 /\ y[i - 1] = q[i]
        BY <1>1, <3>3
      <4> QED
        BY <1>1, <3>1, <4>1 DEF Range
    <3> QED
      BY <3>2, <3>3
  <2>2. ASSUME NEW e \in Range(y) PROVE e \in Range(q)
    <3>1. PICK i \in 1 .. Len(q) - 1 : e = y[i]
      BY <1>1 DEF Range
    <3>2. i + 1 \in 1 .. Len(q) /\ q[i + 1] = e
      BY <1>1, <3>1
    <3> QED
      BY <1>1, <3>2 DEF Range
  <2>3. Head(q) \in Range(q)
    <3>1. 1 \in 1 .. Len(q)
      BY <1>1
    <3> QED
      BY <1>1, <3>1 DEF Range
  <2> QED
    BY <2>1, <2>2, <2>3
<1> QED
  BY <1>1, <1>2 DEF y

(* A queue that has been cleared.                                          *)
LEMMA Empty ==
  Range(<<>>) = {} /\ Ids(<<>>) = {} /\ DOMAIN <<>> = {}
BY DEF Range, Ids

(* The elements of a queue, and their numbers.                             *)
LEMMA RangeTyped ==
  ASSUME NEW S, NEW q \in Seq(S)
  PROVE  /\ \A e \in Range(q) : e \in S
         /\ Ids(q) = {e.id : e \in Range(q)}
BY DEF Range, Ids

(* Of five places one holds the line; two of them trade.                   *)
LEMMA Balance ==
  ASSUME NEW a \in Nat, NEW b \in Nat, NEW c \in Nat, NEW d \in Nat, NEW e \in Nat,
         NEW f \in Nat, NEW g \in Nat, a + b + c + d + e = 1
  PROVE  /\ a + c = f + g => f + b + g + d + e = 1
         /\ b + c = f + g => a + f + g + d + e = 1
         /\ b + e = f + g => a + f + c + d + g = 1
OBVIOUS

(* How often a line occurs changes with every Append and Tail by one or    *)
(* not at all.                                                             *)
LEMMA HitsTyped ==
  ASSUME NEW S, NEW q \in Seq(S), NEW i
  PROVE  /\ Hits(q, i) \in Nat
         /\ IsFiniteSet({k \in DOMAIN q : q[k].id = i})
         /\ Hits(q, i) = 0 <=> i \notin Ids(q)
         /\ Hits(<<>>, i) = 0
<1> DEFINE K == {k \in DOMAIN q : q[k].id = i}
<1>1. IsFiniteSet(1 .. Len(q)) /\ K \in SUBSET (1 .. Len(q))
  <2>1. Len(q) \in Int /\ 1 \in Int /\ DOMAIN q = 1 .. Len(q)
    BY LenProperties
  <2>2. IsFiniteSet(1 .. Len(q))
    BY <2>1, FS_Interval
  <2> QED
    BY <2>1, <2>2
<1>2. IsFiniteSet(K) /\ Cardinality(K) \in Nat
  BY <1>1, FS_Subset, FS_CardinalityType
<1>3. Cardinality(K) = 0 <=> K = {}
  BY <1>2, FS_EmptySet
<1>4. K = {} <=> i \notin Ids(q)
  BY DEF Ids
<1>5. {k \in DOMAIN <<>> : <<>>[k].id = i} = {}
  OBVIOUS
<1> HIDE DEF K
<1> QED
  BY <1>2, <1>3, <1>4, <1>5, FS_EmptySet DEF Hits, K

(* Append adds one occurrence of the number of what it appends.            *)
LEMMA HitsAppend ==
  ASSUME NEW S, NEW q \in Seq(S), NEW r \in S, NEW i
  PROVE  Hits(Append(q, r), i) = IF r.id = i THEN Hits(q, i) + 1 ELSE Hits(q, i)
<1> DEFINE n == Len(q)
           a == Append(q, r)
           K == {k \in DOMAIN q : q[k].id = i}
           L == {k \in DOMAIN a : a[k].id = i}
<1>1. /\ n \in Nat /\ DOMAIN q = 1 .. n /\ DOMAIN a = 1 .. n + 1
      /\ a[n + 1] = r /\ \A k \in 1 .. n : a[k] = q[k]
  BY Appended
<1>2. IsFiniteSet(K) /\ Cardinality(K) \in Nat
  <2> HIDE DEF a, n
  <2>1. Hits(q, i) \in Nat /\ IsFiniteSet({k \in DOMAIN q : q[k].id = i})
    BY HitsTyped
  <2> QED
    BY <2>1 DEF Hits
<1> HIDE DEF a, n
<1>3. n + 1 \notin K
  BY <1>1
<1>4. CASE r.id = i
  <2>1. L = K \cup {n + 1}
    BY <1>1, <1>4
  <2> HIDE DEF K, L
  <2> QED
    BY <1>2, <1>3, <1>4, <2>1, FS_AddElement DEF Hits, K, L, a
<1>5. CASE r.id # i
  <2>1. L = K
    BY <1>1, <1>5
  <2> QED
    BY <1>5, <2>1 DEF Hits, a
<1> QED
  BY <1>4, <1>5

(* Tail takes one occurrence of the number of the head away.               *)
LEMMA HitsTail ==
  ASSUME NEW S, NEW q \in Seq(S), q # <<>>, NEW i
  PROVE  Hits(q, i) = IF Head(q).id = i THEN Hits(Tail(q), i) + 1 ELSE Hits(Tail(q), i)
<1> DEFINE n == Len(q)
           y == Tail(q)
           K == {k \in DOMAIN q : q[k].id = i}
           L == {k \in DOMAIN y : y[k].id = i}
           M == K \ {1}
           f == [k \in L |-> k + 1]
<1>1. /\ n \in Nat \ {0} /\ DOMAIN q = 1 .. n /\ DOMAIN y = 1 .. n - 1
      /\ Head(q) = q[1] /\ \A k \in 1 .. n - 1 : y[k] = q[k + 1]
  BY Popped
<1>2. IsFiniteSet(K) /\ Cardinality(K) \in Nat
  <2> HIDE DEF y, n
  <2>1. Hits(q, i) \in Nat /\ IsFiniteSet({k \in DOMAIN q : q[k].id = i})
    BY HitsTyped
  <2> QED
    BY <2>1 DEF Hits
<1>3. Tail(q) \in Seq(S)
  BY Popped
<1>4. IsFiniteSet(L)
  BY <1>3, HitsTyped
<1> HIDE DEF y, n
<1>5. f \in Bijection(L, M)
  <2>1. \A k \in L : k \in 1 .. n - 1 /\ k + 1 \in K /\ k + 1 # 1
    BY <1>1
  <2>2. f \in [L -> M]
    BY <2>1
  <2>3. \A a, b \in L : f[a] = f[b] => a = b
    BY <2>1
  <2>4. \A b \in M : \E a \in L : f[a] = b
    <3> SUFFICES ASSUME NEW b \in M PROVE \E a \in L : f[a] = b
      OBVIOUS
    <3>1. b \in 2 .. n /\ q[b].id = i
      BY <1>1
    <3>2. b - 1 \in L /\ f[b - 1] = b
      BY <1>1, <3>1
    <3> QED
      BY <3>2
  <2> HIDE DEF f, M, L
  <2> QED
    BY <2>2, <2>3, <2>4 DEF Bijection, Injection, Surjection, IsInjective
<1>6. Cardinality(M) = Cardinality(L)
  <2> HIDE DEF f, M, L
  <2> QED
    BY <1>4, <1>5, FS_Bijection DEF ExistsBijection
<1>7. Cardinality(M) = IF 1 \in K THEN Cardinality(K) - 1 ELSE Cardinality(K)
  BY <1>2, FS_RemoveElement
<1>8. 1 \in K <=> Head(q).id = i
  BY <1>1
<1>9. Hits(q, i) = Cardinality(K) /\ Hits(Tail(q), i) = Cardinality(L)
  BY DEF Hits, y
<1> HIDE DEF M, K, L
<1> QED
  BY <1>2, <1>6, <1>7, <1>8, <1>9
-----------------------------------------------------------------------------
(* What a client's record can hold.                                        *)
Words == {c[2] : c \in UNION {Menu[u] : u \in Users}} \cup {"good"}

Names == {c[1] : c \in UNION {Menu[u] : u \in Users}} \cup {"EXIT", "AGENT", "AUTH", "LOGIN"}

Verdicts == {"dropped", "unknown", "denied", "missing", "notlogged", "alias", "rejected", "handled"}

\* What PAUSE and RESUME may be given: an instance, or something they refuse.
Targets == (Users \X BOOLEAN) \cup {"missing", "bad"}

Requests == {r \in [id : Nat \ {0}, command : Names, arg : Words] :
               r.command \in {"PAUSE", "RESUME"} => r.arg \in Targets}

Entries == [id : Nat \ {0}, command : Names, verdict : Verdicts, opened : Nat]

Records ==
  [PendingList : Seq(Requests), PendingMulti : Seq(Requests),
   Multi : BOOLEAN, MultiRunning : BOOLEAN, Locked : BOOLEAN, Quitting : BOOLEAN,
   Paused : BOOLEAN, resume : Nat, registered : SUBSET REG_OK, logged : BOOLEAN,
   auth : Words \cup {"none"}, lines : Seq(Names), done : Seq(Entries),
   refused : SUBSET Nat, cleared : SUBSET Nat, opened : Nat]

(* What a record says of itself, client by client.  A request carries the  *)
(* command of its line, or one that Execute has put in its place.          *)
LoginSteps == {"AGENT", "AUTH", "LOGIN"}

Stems(r, lines) ==
  /\ r.id \in 1 .. Len(lines)
  /\ \/ r.command = lines[r.id]
     \/ r.command = "EXIT" /\ lines[r.id] \in {"Q", "QUIT"}
     \/ r.command \in LoginSteps /\ lines[r.id] = "ILOGIN"

Known(t) ==
  /\ \A r \in Range(t.PendingList) \cup Range(t.PendingMulti) \cup Range(t.done) : Stems(r, t.lines)
  /\ t.refused \cup t.cleared \subseteq 1 .. Len(t.lines)
  /\ \A r \in Range(t.PendingMulti) : r.command \notin {"MULTI", "MRUN", "PONG", "MULTIRESET"}

(* Every line that is not queued again is in exactly one place.            *)
One(set, i) == IF i \in set THEN 1 ELSE 0

Counted(t) ==
  \A i \in 1 .. Len(t.lines) : t.lines[i] \notin Requeued =>
    Hits(t.PendingList, i) + Hits(t.PendingMulti, i) + Hits(t.done, i)
      + One(t.refused, i) + One(t.cleared, i) = 1

(* Who has a transaction is logged in, and who is has given a login.       *)
Free == {"AGENT", "AUTH", "LOGIN", "ILOGIN", "EXIT"}

Entitled(t) ==
  /\ "LOGIN" \in t.registered => t.logged
  /\ t.Multi \/ t.MultiRunning => t.registered = REG_OK
  /\ \A e \in Range(t.done) :
       e.verdict = "handled" /\ e.command \notin Free => t.registered = REG_OK

(* A transaction is numbered by the MULTI that opened it, a number no      *)
(* other has, and since its first command nothing else has run but PONGs.  *)
Together(t) ==
  /\ ~(t.Multi /\ t.MultiRunning)
  /\ t.Multi \/ t.MultiRunning => t.opened \in 1 .. Len(t.lines) /\ t.lines[t.opened] = "MULTI"
                                  /\ t.opened \in Ids(t.done)
  /\ \A e \in Range(t.done) : e.opened > 0 =>
       e.opened \in Ids(t.done) /\ t.lines[e.opened] = "MULTI"
  /\ t.Multi => \A e \in Range(t.done) : e.opened # t.opened
  /\ t.MultiRunning => \A i, k \in DOMAIN t.done :
       i < k /\ t.done[i].opened = t.opened
         => t.done[k].command = "PONG" \/ t.done[k].opened = t.opened
  /\ \A i, j, k \in DOMAIN t.done :
       i < j /\ j < k /\ t.done[i].opened > 0 /\ t.done[i].opened = t.done[k].opened
         => t.done[j].command = "PONG" \/ t.done[j].opened = t.done[i].opened

(* The requests that may run in a transaction though they are older.       *)
Exempt(r, lines) ==
  \/ \E k \in 1 .. Len(lines) : lines[k] = "MULTIRESET" /\ k < r.id
  \/ r.command = "EXIT" /\ lines[r.id] \in {"Q", "QUIT"}

Separate(t) ==
  /\ \A e \in Range(t.done) : e.opened > 0 /\ e.id < e.opened => Exempt(e, t.lines)
  /\ \A r \in Range(t.PendingMulti) :
       /\ r.id < t.opened \/ (~t.Multi /\ ~t.MultiRunning) => Exempt(r, t.lines)
       /\ ~t.MultiRunning => \A m \in Range(t.PendingList) :
            m.command = "MULTI" /\ r.id < m.id => Exempt(r, t.lines)
       /\ \A m \in Range(t.PendingList) : m.command = "MULTIRESET" => Exempt(r, t.lines)

(* Without lines that are queued again and without MULTIRESET, everything  *)
(* but PONG and MRUN is in the order of the lines: the boundary between    *)
(* the two lists is where MULTI and MRUN have put it.                      *)
Counts(r) == r.command \notin {"PONG", "MRUN"}

Rising(q) == \A j, k \in DOMAIN q : j < k /\ Counts(q[j]) /\ Counts(q[k]) => q[j].id < q[k].id

Before(q, p) ==
  \A a \in Range(q), b \in Range(p) : Counts(a) /\ Counts(b) => a.id < b.id

Simple(lines) == \A c \in Requeued \cup {"MULTIRESET"} : c \notin Range(lines)

Lined(t) == Simple(t.lines) =>
  /\ Rising(t.done) /\ Rising(t.PendingList) /\ Rising(t.PendingMulti)
  /\ Before(t.done, t.PendingList) /\ Before(t.done, t.PendingMulti)
  /\ t.Multi => Before(t.PendingList, t.PendingMulti)
  /\ t.MultiRunning => Before(t.PendingMulti, t.PendingList)
  /\ ~t.Multi /\ ~t.MultiRunning => t.PendingMulti = <<>>
  /\ \A j, k \in DOMAIN t.PendingList : j < k =>
       /\ t.Multi /\ t.PendingList[j].command = "MRUN" => ~Counts(t.PendingList[k])
       /\ t.PendingList[j].command = "MULTI" /\ t.PendingList[k].command = "MRUN" => t.Multi

Good(t) ==
  t \in Records /\ Known(t) /\ Counted(t) /\ Entitled(t) /\ Together(t) /\ Separate(t) /\ Lined(t)
-----------------------------------------------------------------------------
(* What a step does to one record: the part it leaves alone, and the       *)
(* twelve ways in which it changes the rest.                               *)
KeepsLists(t, x) == x.PendingList = t.PendingList /\ x.PendingMulti = t.PendingMulti
KeepsRun(t, x)   == x.Multi = t.Multi /\ x.MultiRunning = t.MultiRunning /\ x.opened = t.opened
KeepsLogin(t, x) == x.registered = t.registered /\ x.logged = t.logged
KeepsPast(t, x)  == x.done = t.done /\ x.refused = t.refused
KeepsBook(t, x)  == KeepsPast(t, x) /\ x.lines = t.lines /\ x.cleared = t.cleared

Quiet(t, x) ==
  /\ KeepsLists(t, x) /\ KeepsRun(t, x) /\ KeepsBook(t, x)
  /\ t.registered = REG_OK => x.registered = REG_OK
  /\ t.logged => x.logged
  /\ "LOGIN" \in x.registered => x.logged \/ "LOGIN" \in t.registered

Starts(t, x) ==
  /\ KeepsLists(t, x) /\ KeepsBook(t, x) /\ KeepsLogin(t, x) /\ x.opened = t.opened
  /\ t.Multi /\ ~x.Multi /\ x.MultiRunning
  /\ t.PendingList # <<>> /\ Head(t.PendingList).command = "MRUN"

Ends(t, x) ==
  /\ KeepsLists(t, x) /\ KeepsBook(t, x) /\ KeepsLogin(t, x) /\ x.opened = t.opened
  /\ x.Multi = t.Multi /\ t.MultiRunning /\ ~x.MultiRunning
  /\ t.PendingMulti = <<>>

Closes(t, x) ==
  /\ KeepsLists(t, x) /\ KeepsBook(t, x) /\ KeepsLogin(t, x) /\ x.opened = t.opened
  /\ ~x.Multi /\ ~x.MultiRunning
  /\ "MULTIRESET" \in Range(t.lines)
  /\ \A r \in Range(t.PendingMulti) : Exempt(r, t.lines)

Opens(t, x) ==
  /\ KeepsLists(t, x) /\ KeepsBook(t, x) /\ KeepsLogin(t, x)
  /\ ~t.MultiRunning /\ ~x.MultiRunning /\ x.Multi /\ t.registered = REG_OK
  /\ x.opened \in 1 .. Len(t.lines) /\ t.lines[x.opened] = "MULTI" /\ x.opened \in Ids(t.done)
  /\ \A e \in Range(t.done) : e.opened # x.opened
  /\ \A r \in Range(t.PendingMulti) : r.id < x.opened => Exempt(r, t.lines)
  /\ Simple(t.lines) => t.Multi \/ \A r \in Range(t.PendingList) : r.command # "MRUN"

Drops(t, x) ==
  /\ KeepsRun(t, x) /\ KeepsPast(t, x) /\ KeepsLogin(t, x) /\ x.lines = t.lines
  /\ x.PendingList = <<>> /\ x.PendingMulti = t.PendingMulti
  /\ x.cleared = t.cleared \cup Ids(t.PendingList)

(* The types of the fields of a LocalUser.                                 *)
LEMMA Fields ==
  ASSUME NEW t \in Records
  PROVE  /\ t.PendingList \in Seq(Requests) /\ t.PendingMulti \in Seq(Requests)
         /\ t.done \in Seq(Entries) /\ t.lines \in Seq(Names)
         /\ Len(t.lines) \in Nat /\ DOMAIN t.lines = 1 .. Len(t.lines)
         /\ t.Multi \in BOOLEAN /\ t.MultiRunning \in BOOLEAN
         /\ t.Locked \in BOOLEAN /\ t.Quitting \in BOOLEAN /\ t.Paused \in BOOLEAN
         /\ t.resume \in Nat /\ t.registered \in SUBSET REG_OK /\ t.logged \in BOOLEAN
         /\ t.auth \in Words \cup {"none"}
         /\ t.refused \in SUBSET Nat /\ t.cleared \in SUBSET Nat /\ t.opened \in Nat
BY DEF Records

(* A quiet step: nothing the parts of Good speak of has changed.           *)
LEMMA QuietGood ==
  ASSUME NEW t \in Records, NEW x \in Records, Good(t), Quiet(t, x)
  PROVE  Good(x)
<1> USE DEF Quiet, KeepsLists, KeepsRun, KeepsBook, KeepsPast
<1>1. Known(x) /\ Counted(x) /\ Lined(x)
  BY DEF Good, Known, Counted, Lined
<1>2. Together(x) /\ Separate(x)
  BY DEF Good, Together, Separate
<1>3. Entitled(x)
  BY DEF Good, Entitled
<1> QED
  BY <1>1, <1>2, <1>3 DEF Good

(* The MRUN at the head of the list starts the transaction: everything     *)
(* behind it is younger than the transaction's requests.                   *)
LEMMA StartsGood ==
  ASSUME NEW t \in Records, NEW x \in Records, Good(t), Starts(t, x)
  PROVE  Good(x)
<1> USE DEF Starts, KeepsLists, KeepsBook, KeepsPast, KeepsLogin
<1>0. ~t.MultiRunning
  BY DEF Good, Together
<1>1. Known(x) /\ Counted(x)
  BY DEF Good, Known, Counted
<1>2. Together(x)
  <2>1. \A e \in Range(t.done) : e.opened # t.opened
    BY DEF Good, Together
  <2>2. \A i \in DOMAIN t.done : t.done[i].opened # t.opened
    BY <2>1 DEF Range
  <2> QED
    BY <2>2 DEF Good, Together
<1>3. Entitled(x) /\ Separate(x)
  BY <1>0 DEF Good, Entitled, Separate
<1>4. Lined(x)
  <2> SUFFICES ASSUME Simple(t.lines) PROVE Lined(x)
    BY DEF Lined
  <2>1. \A r \in Range(t.PendingList) : ~Counts(r)
    <3> SUFFICES ASSUME NEW k \in DOMAIN t.PendingList PROVE ~Counts(t.PendingList[k])
      BY DEF Range
    <3>1. /\ DOMAIN t.PendingList = 1 .. Len(t.PendingList) /\ Len(t.PendingList) \in Nat \ {0}
          /\ t.PendingList[1].command = "MRUN"
      BY Fields, Popped
    <3>2. CASE k = 1
      BY <3>1, <3>2 DEF Counts
    <3>3. CASE k # 1
      <4>1. 1 \in DOMAIN t.PendingList /\ 1 < k
        BY <3>1, <3>3
      <4> QED
        BY <3>1, <4>1 DEF Good, Lined
    <3> QED
      BY <3>2, <3>3
  <2>2. Before(t.PendingMulti, t.PendingList)
    BY <2>1 DEF Before
  <2>3. \A j, k \in DOMAIN t.PendingList : j < k =>
          ~(t.PendingList[j].command = "MULTI" /\ t.PendingList[k].command = "MRUN")
    BY <2>1 DEF Counts, Range
  <2> QED
    BY <2>2, <2>3 DEF Good, Lined
<1> QED
  BY <1>1, <1>2, <1>3, <1>4 DEF Good

(* The transaction is empty.                                               *)
LEMMA EndsGood ==
  ASSUME NEW t \in Records, NEW x \in Records, Good(t), Ends(t, x)
  PROVE  Good(x)
<1> USE DEF Ends, KeepsLists, KeepsBook, KeepsPast, KeepsLogin
<1>0. ~t.Multi /\ Range(t.PendingMulti) = {}
  BY Empty DEF Good, Together
<1>1. Known(x) /\ Counted(x)
  BY DEF Good, Known, Counted
<1>2. Together(x) /\ Entitled(x)
  BY <1>0 DEF Good, Together, Entitled
<1>3. Separate(x)
  BY <1>0 DEF Good, Separate
<1>4. Lined(x)
  BY <1>0 DEF Good, Lined
<1> QED
  BY <1>1, <1>2, <1>3, <1>4 DEF Good

(* MULTIRESET is executed: what the client has queued meanwhile stays, and *)
(* came after it.                                                          *)
LEMMA ClosesGood ==
  ASSUME NEW t \in Records, NEW x \in Records, Good(t), Closes(t, x)
  PROVE  Good(x)
<1> USE DEF Closes, KeepsLists, KeepsBook, KeepsPast, KeepsLogin
<1>1. Known(x) /\ Counted(x)
  BY DEF Good, Known, Counted
<1>2. Together(x) /\ Entitled(x)
  BY DEF Good, Together, Entitled
<1>3. Separate(x)
  BY DEF Good, Separate
<1>4. Lined(x)
  BY DEF Lined, Simple
<1> QED
  BY <1>1, <1>2, <1>3, <1>4 DEF Good

(* MULTI is executed.                                                      *)
LEMMA OpensGood ==
  ASSUME NEW t \in Records, NEW x \in Records, Good(t), Opens(t, x)
  PROVE  Good(x)
<1> USE DEF Opens, KeepsLists, KeepsBook, KeepsPast, KeepsLogin
<1>1. Known(x) /\ Counted(x)
  BY DEF Good, Known, Counted
<1>2. Together(x) /\ Entitled(x)
  BY DEF Good, Together, Entitled
<1>3. Separate(x)
  BY DEF Good, Separate
<1>4. Lined(x)
  <2> SUFFICES ASSUME Simple(t.lines) PROVE Lined(x)
    BY DEF Lined
  <2>1. CASE t.Multi
    BY <2>1 DEF Good, Lined
  <2>2. CASE ~t.Multi
    <3>1. t.PendingMulti = <<>> /\ Range(t.PendingMulti) = {}
      BY <2>2, Empty DEF Good, Lined
    <3>2. \A j \in DOMAIN t.PendingList : t.PendingList[j].command # "MRUN"
      BY <2>2 DEF Range
    <3>3. Before(t.PendingList, t.PendingMulti)
      BY <3>1 DEF Before
    <3> QED
      BY <2>2, <3>2, <3>3 DEF Good, Lined
  <2> QED
    BY <2>1, <2>2
<1> QED
  BY <1>1, <1>2, <1>3, <1>4 DEF Good

(* The server exits: what was waiting has a place where it is counted.     *)
LEMMA DropsGood ==
  ASSUME NEW t \in Records, NEW x \in Records, Good(t), Drops(t, x)
  PROVE  Good(x)
<1> USE DEF Drops, KeepsRun, KeepsPast, KeepsLogin
<1>0. /\ Range(<<>>) = {} /\ Ids(t.PendingList) \subseteq 1 .. Len(t.lines)
      /\ DOMAIN <<>> = {}
  <2>1. Ids(t.PendingList) = {e.id : e \in Range(t.PendingList)}
    BY Fields, RangeTyped
  <2> QED
    BY <2>1, Empty DEF Good, Known, Stems
<1>1. Known(x)
  BY <1>0 DEF Good, Known
<1>2. Counted(x)
  <2> SUFFICES ASSUME NEW i \in 1 .. Len(t.lines), t.lines[i] \notin Requeued
               PROVE  Hits(<<>>, i) + Hits(t.PendingMulti, i) + Hits(t.done, i)
                        + One(t.refused, i) + One(x.cleared, i) = 1
    BY DEF Counted
  <2>1. Hits(t.PendingList, i) + Hits(t.PendingMulti, i) + Hits(t.done, i)
          + One(t.refused, i) + One(t.cleared, i) = 1
    BY DEF Good, Counted
  <2>2. /\ Hits(t.PendingMulti, i) \in Nat /\ Hits(t.done, i) \in Nat
        /\ Hits(t.PendingList, i) \in Nat /\ Hits(<<>>, i) = 0
        /\ Hits(t.PendingList, i) = 0 <=> i \notin Ids(t.PendingList)
    BY Fields, HitsTyped
  <2>3. One(t.refused, i) \in Nat /\ One(t.cleared, i) \in Nat
    BY DEF One
  <2>4. CASE i \in Ids(t.PendingList)
    <3>1. Hits(t.PendingList, i) = 1 /\ One(t.cleared, i) = 0 /\ One(x.cleared, i) = 1
      BY <2>1, <2>2, <2>3, <2>4 DEF One
    <3> QED
      BY <2>1, <2>2, <2>3, <3>1
  <2>5. CASE i \notin Ids(t.PendingList)
    <3>1. Hits(t.PendingList, i) = 0 /\ One(x.cleared, i) = One(t.cleared, i)
      BY <2>2, <2>5 DEF One
    <3> QED
      BY <2>1, <2>2, <2>3, <3>1
  <2> QED
    BY <2>4, <2>5
<1>3. Together(x) /\ Entitled(x)
  BY DEF Good, Together, Entitled
<1>4. Separate(x)
  BY <1>0 DEF Good, Separate
<1>5. Lined(x)
  BY <1>0 DEF Good, Lined, Before, Rising
<1> QED
  BY <1>1, <1>2, <1>3, <1>4, <1>5 DEF Good

-----------------------------------------------------------------------------
(* Requests that arrive: a line of the client, or a request Execute queues *)
(* again.                                                                  *)
Comes(t, x, r) == x.lines = Append(t.lines, r.command) /\ r.id = Len(t.lines) + 1

Returns(t, x, r) ==
  /\ x.lines = t.lines /\ r.id \in 1 .. Len(t.lines)
  /\ \/ r.command = "EXIT" /\ t.lines[r.id] \in {"Q", "QUIT"}
     \/ r.command \in LoginSteps /\ t.lines[r.id] = "ILOGIN" /\ ~t.Multi

Arrives(t, x, r) ==
  /\ Comes(t, x, r) \/ Returns(t, x, r)
  /\ KeepsLogin(t, x) /\ x.done = t.done

Enlists(t, x, r) ==
  /\ Arrives(t, x, r) /\ KeepsRun(t, x) /\ x.refused = t.refused /\ x.cleared = t.cleared
  /\ x.PendingList = Append(t.PendingList, r) /\ x.PendingMulti = t.PendingMulti
  /\ r.command # "MULTIRESET" /\ (r.command = "PONG" \/ (t.Multi <=> r.command = "MRUN"))

Joins(t, x, r) ==
  /\ Arrives(t, x, r) /\ KeepsRun(t, x) /\ x.refused = t.refused /\ x.cleared = t.cleared
  /\ x.PendingList = t.PendingList /\ x.PendingMulti = Append(t.PendingMulti, r)
  /\ t.Multi /\ r.command \notin {"PONG", "MULTIRESET", "MULTI", "MRUN"}

Refuses(t, x, r) ==
  /\ Arrives(t, x, r) /\ Comes(t, x, r) /\ KeepsLists(t, x) /\ KeepsRun(t, x)
  /\ x.refused = t.refused \cup {r.id} /\ x.cleared = t.cleared

Resets(t, x, r) ==
  /\ Arrives(t, x, r) /\ Comes(t, x, r) /\ x.refused = t.refused
  /\ x.Multi = t.Multi /\ ~x.MultiRunning /\ x.opened = t.opened
  /\ x.PendingList = Append(t.PendingList, r) /\ x.PendingMulti = <<>>
  /\ x.cleared = t.cleared \cup Ids(t.PendingMulti)
  /\ r.command = "MULTIRESET"

(* The lines so far stay, and what is said of older requests with them.    *)
LEMMA Longer ==
  ASSUME NEW t \in Records, NEW x \in Records, NEW r \in Requests, Arrives(t, x, r)
  PROVE  /\ Len(t.lines) \in Nat /\ Len(x.lines) \in Nat /\ Len(t.lines) <= Len(x.lines)
         /\ \A i \in 1 .. Len(t.lines) : i \in 1 .. Len(x.lines) /\ x.lines[i] = t.lines[i]
         /\ \A i \in 1 .. Len(x.lines) : i \notin 1 .. Len(t.lines) => Comes(t, x, r) /\ i = r.id
         /\ Stems(r, x.lines)
         /\ Comes(t, x, r) => Len(x.lines) = r.id /\ x.lines[r.id] = r.command
         /\ \A e : Stems(e, t.lines) =>
              Stems(e, x.lines) /\ (Exempt(e, t.lines) => Exempt(e, x.lines))
         /\ Simple(x.lines) => Simple(t.lines) /\ Comes(t, x, r)
<1>1. /\ Len(t.lines) \in Nat /\ DOMAIN t.lines = 1 .. Len(t.lines)
      /\ t.lines \in Seq(Names) /\ r.command \in Names
  BY Fields DEF Requests
<1>2. CASE Comes(t, x, r)
  <2>1. /\ Len(x.lines) = Len(t.lines) + 1 /\ DOMAIN x.lines = 1 .. Len(t.lines) + 1
        /\ \A i \in 1 .. Len(t.lines) : x.lines[i] = t.lines[i]
        /\ x.lines[r.id] = r.command
        /\ Range(x.lines) = Range(t.lines) \cup {r.command}
    BY <1>1, <1>2, Appended DEF Comes
  <2>2. \A e : Stems(e, t.lines) =>
          Stems(e, x.lines) /\ (Exempt(e, t.lines) => Exempt(e, x.lines))
    <3> SUFFICES ASSUME NEW e, Stems(e, t.lines)
                 PROVE  Stems(e, x.lines) /\ (Exempt(e, t.lines) => Exempt(e, x.lines))
      OBVIOUS
    <3>1. e.id \in 1 .. Len(t.lines)
      BY DEF Stems
    <3>2. e.id \in 1 .. Len(x.lines) /\ x.lines[e.id] = t.lines[e.id]
      BY <1>1, <2>1, <3>1
    <3>3. Stems(e, x.lines)
      BY <3>2 DEF Stems
    <3>4. ASSUME NEW k \in 1 .. Len(t.lines)
          PROVE  k \in 1 .. Len(x.lines) /\ x.lines[k] = t.lines[k]
      BY <1>1, <2>1
    <3> QED
      BY <3>2, <3>3, <3>4 DEF Exempt
  <2>3. Stems(r, x.lines) /\ \A i \in 1 .. Len(x.lines) : i \notin 1 .. Len(t.lines) => i = r.id
    BY <1>1, <1>2, <2>1 DEF Stems, Comes
  <2>4. Simple(x.lines) => Simple(t.lines)
    BY <2>1 DEF Simple
  <2>5. Len(t.lines) <= Len(x.lines) /\ Len(x.lines) = r.id /\ Len(x.lines) \in Nat
    BY <1>1, <1>2, <2>1 DEF Comes
  <2> QED
    BY <1>1, <1>2, <2>1, <2>2, <2>3, <2>4, <2>5
<1>3. CASE Returns(t, x, r) /\ ~Comes(t, x, r)
  <2>1. x.lines = t.lines /\ Stems(r, x.lines)
    BY <1>3 DEF Returns, Stems
  <2>2. ~Simple(x.lines)
    BY <1>1, <1>3 DEF Returns, Simple, Requeued, Range
  <2> QED
    BY <1>1, <1>3, <2>1, <2>2
<1> QED
  BY <1>2, <1>3 DEF Arrives

(* What is known of a good record before a new line has come: no request   *)
(* has its number.                                                         *)
LEMMA Unheard ==
  ASSUME NEW t \in Records, Known(t), NEW i \in Nat, i > Len(t.lines)
  PROVE  /\ Hits(t.PendingList, i) = 0 /\ Hits(t.PendingMulti, i) = 0 /\ Hits(t.done, i) = 0
         /\ One(t.refused, i) = 0 /\ One(t.cleared, i) = 0
<1>1. i \notin 1 .. Len(t.lines)
  BY Fields
<1>2. /\ Ids(t.PendingList) = {e.id : e \in Range(t.PendingList)}
      /\ Ids(t.PendingMulti) = {e.id : e \in Range(t.PendingMulti)}
      /\ Ids(t.done) = {e.id : e \in Range(t.done)}
  BY Fields, RangeTyped
<1>3. i \notin Ids(t.PendingList) /\ i \notin Ids(t.PendingMulti) /\ i \notin Ids(t.done)
  BY <1>1, <1>2 DEF Known, Stems
<1>4. i \notin t.refused /\ i \notin t.cleared
  BY <1>1 DEF Known
<1> QED
  BY <1>3, <1>4, Fields, HitsTyped DEF One

(* The number of a new line is counted where it has gone; a request that   *)
(* is queued again has a number that is not counted.                       *)
LEMMA Placed ==
  ASSUME NEW t \in Records, NEW x \in Records, NEW r \in Requests, Arrives(t, x, r),
         Known(t), Counted(t),
         \A i \in 1 .. Len(x.lines) :
           LET n == Hits(t.PendingList, i) + Hits(t.PendingMulti, i) + Hits(t.done, i)
                      + One(t.refused, i) + One(t.cleared, i)
           IN Hits(x.PendingList, i) + Hits(x.PendingMulti, i) + Hits(x.done, i)
                + One(x.refused, i) + One(x.cleared, i) = IF i = r.id THEN n + 1 ELSE n
  PROVE  Counted(x)
<1> SUFFICES ASSUME NEW i \in 1 .. Len(x.lines), x.lines[i] \notin Requeued
             PROVE  Hits(x.PendingList, i) + Hits(x.PendingMulti, i) + Hits(x.done, i)
                      + One(x.refused, i) + One(x.cleared, i) = 1
  BY DEF Counted
<1> DEFINE n == Hits(t.PendingList, i) + Hits(t.PendingMulti, i) + Hits(t.done, i)
                  + One(t.refused, i) + One(t.cleared, i)
           m == Hits(x.PendingList, i) + Hits(x.PendingMulti, i) + Hits(x.done, i)
                  + One(x.refused, i) + One(x.cleared, i)
<1>1. m = IF i = r.id THEN n + 1 ELSE n
  OBVIOUS
<1>2. CASE i \in 1 .. Len(t.lines)
  <2>1. x.lines[i] = t.lines[i]
    BY <1>2, Longer
  <2>2. n = 1
    BY <1>2, <2>1 DEF Counted
  <2>3. i # r.id
    BY <1>2, <2>1, Fields DEF Arrives, Comes, Returns, Requeued
  <2> HIDE DEF n, m
  <2>4. m = 1
    BY <1>1, <2>2, <2>3
  <2> QED
    BY <2>4 DEF m
<1>3. CASE i \notin 1 .. Len(t.lines)
  <2>1. i = r.id /\ i \in Nat /\ i > Len(t.lines)
    BY <1>3, Longer, Fields
  <2>2. n = 0
    BY <2>1, Unheard
  <2> HIDE DEF n, m
  <2>3. m = 1
    BY <1>1, <2>1, <2>2
  <2> QED
    BY <2>3 DEF m
<1> QED
  BY <1>2, <1>3

(* What has run is not touched by an arrival.                              *)
LEMMA PastStays ==
  ASSUME NEW t \in Records, NEW x \in Records, NEW r \in Requests, Arrives(t, x, r),
         Good(t), x.opened = t.opened, x.Multi = t.Multi,
         x.MultiRunning => t.MultiRunning
  PROVE  Together(x) /\ Entitled(x)
         /\ \A e \in Range(x.done) : e.opened > 0 /\ e.id < e.opened => Exempt(e, x.lines)
<1>1. x.done = t.done /\ KeepsLogin(t, x)
  BY DEF Arrives
<1>2. Entitled(x)
  BY <1>1 DEF Good, Entitled, KeepsLogin
<1>3. \A i \in 1 .. Len(t.lines) : i \in 1 .. Len(x.lines) /\ x.lines[i] = t.lines[i]
  BY Longer
<1>4. \A i \in Ids(t.done) : i \in 1 .. Len(t.lines)
  <2>1. Ids(t.done) = {e.id : e \in Range(t.done)}
    BY Fields, RangeTyped
  <2> QED
    BY <2>1 DEF Good, Known, Stems
<1>5. Together(x)
  <2>1. /\ ~(t.Multi /\ t.MultiRunning)
        /\ t.Multi \/ t.MultiRunning => /\ t.opened \in 1 .. Len(t.lines)
                                        /\ t.lines[t.opened] = "MULTI" /\ t.opened \in Ids(t.done)
        /\ \A e \in Range(t.done) : e.opened > 0 =>
             e.opened \in Ids(t.done) /\ t.lines[e.opened] = "MULTI"
    BY DEF Good, Together
  <2>2. /\ ~(x.Multi /\ x.MultiRunning)
        /\ x.Multi \/ x.MultiRunning => /\ x.opened \in 1 .. Len(x.lines)
                                        /\ x.lines[x.opened] = "MULTI" /\ x.opened \in Ids(x.done)
        /\ \A e \in Range(x.done) : e.opened > 0 =>
             e.opened \in Ids(x.done) /\ x.lines[e.opened] = "MULTI"
    BY <1>1, <1>3, <1>4, <2>1
  <2> QED
    BY <1>1, <2>2 DEF Good, Together
<1>6. \A e \in Range(x.done) : e.opened > 0 /\ e.id < e.opened => Exempt(e, x.lines)
  BY <1>1, Longer DEF Good, Known, Separate
<1> QED
  BY <1>2, <1>5, <1>6

(* Every request that waits or has run is known by its number.             *)
LEMMA Numbers ==
  ASSUME NEW t \in Records, Known(t)
  PROVE  /\ \A e \in Range(t.PendingList) \cup Range(t.PendingMulti) \cup Range(t.done) :
              Stems(e, t.lines) /\ e.id \in 1 .. Len(t.lines)
         /\ Ids(t.PendingList) \subseteq 1 .. Len(t.lines)
         /\ Ids(t.PendingMulti) \subseteq 1 .. Len(t.lines)
         /\ Ids(t.done) \subseteq 1 .. Len(t.lines)
<1>1. /\ Ids(t.PendingList) = {e.id : e \in Range(t.PendingList)}
      /\ Ids(t.PendingMulti) = {e.id : e \in Range(t.PendingMulti)}
      /\ Ids(t.done) = {e.id : e \in Range(t.done)}
  BY Fields, RangeTyped
<1> QED
  BY <1>1 DEF Known, Stems

(* A queue stays in order when the youngest request is put at its end.     *)
LEMMA RisingAppend ==
  ASSUME NEW S, NEW q \in Seq(S), NEW r \in S, Rising(q),
         Counts(r) => \A e \in Range(q) : Counts(e) => e.id < r.id
  PROVE  Rising(Append(q, r))
<1> DEFINE a == Append(q, r)
           n == Len(q)
<1>1. /\ n \in Nat /\ DOMAIN q = 1 .. n /\ DOMAIN a = 1 .. n + 1
      /\ a[n + 1] = r /\ \A k \in 1 .. n : a[k] = q[k]
  BY Appended
<1> HIDE DEF a, n
<1>2. SUFFICES ASSUME NEW j \in 1 .. n + 1, NEW k \in 1 .. n + 1,
                      j < k, Counts(a[j]), Counts(a[k])
               PROVE  a[j].id < a[k].id
  BY <1>1 DEF Rising, a
<1>3. j \in 1 .. n /\ a[j] = q[j] /\ q[j] \in Range(q)
  BY <1>1, <1>2 DEF Range
<1>4. CASE k = n + 1
  BY <1>1, <1>2, <1>3, <1>4
<1>5. CASE k # n + 1
  <2>1. k \in 1 .. n /\ a[k] = q[k]
    BY <1>1, <1>5
  <2> QED
    BY <1>1, <1>2, <1>3, <2>1 DEF Rising
<1> QED
  BY <1>4, <1>5

(* A request goes to the list: an ordinary one outside of a transaction,   *)
(* MRUN in one, and PONG at any time.                                      *)
LEMMA EnlistsGood ==
  ASSUME NEW t \in Records, NEW x \in Records, NEW r \in Requests, Good(t), Enlists(t, x, r)
  PROVE  Good(x)
<1> DEFINE a == Append(t.PendingList, r)
<1>0. /\ Arrives(t, x, r) /\ KeepsRun(t, x) /\ x.refused = t.refused /\ x.cleared = t.cleared
      /\ x.PendingList = a /\ x.PendingMulti = t.PendingMulti /\ x.done = t.done
      /\ r.command # "MULTIRESET" /\ (r.command = "PONG" \/ (t.Multi <=> r.command = "MRUN"))
  BY DEF Enlists, Arrives
<1>1. /\ Range(a) = Range(t.PendingList) \cup {r}
      /\ t.PendingList \in Seq(Requests)
  BY Fields, Appended
<1> HIDE DEF a
<1>2. Known(t) /\ Counted(t)
  BY DEF Good
<1>3. Known(x)
  <2>1. ASSUME NEW f \in Range(a) \cup Range(t.PendingMulti) \cup Range(t.done)
        PROVE  Stems(f, x.lines)
    <3>1. f = r \/ Stems(f, t.lines)
      BY <1>1, <1>2 DEF Known
    <3> QED
      BY <1>0, <3>1, Longer
  <2>2. t.refused \cup t.cleared \subseteq 1 .. Len(x.lines)
    <3>1. t.refused \cup t.cleared \subseteq 1 .. Len(t.lines)
      BY <1>2 DEF Known
    <3>2. \A i \in 1 .. Len(t.lines) : i \in 1 .. Len(x.lines)
      BY <1>0, Longer
    <3> QED
      BY <3>1, <3>2
  <2> QED
    BY <1>0, <1>2, <2>1, <2>2 DEF Known
<1>4. Counted(x)
  <2> SUFFICES ASSUME NEW i \in 1 .. Len(x.lines)
               PROVE  Hits(a, i) = IF i = r.id THEN Hits(t.PendingList, i) + 1
                                   ELSE Hits(t.PendingList, i)
    <3>1. ASSUME NEW i \in 1 .. Len(x.lines)
          PROVE  /\ Hits(t.PendingList, i) \in Nat /\ Hits(t.PendingMulti, i) \in Nat
                 /\ Hits(t.done, i) \in Nat /\ One(t.refused, i) \in Nat /\ One(t.cleared, i) \in Nat
      BY Fields, HitsTyped DEF One
    <3> QED
      BY <1>0, <1>2, <3>1, Placed
  <2> QED
    BY <1>1, HitsAppend DEF a
<1>5. Together(x) /\ Entitled(x)
  BY <1>0, PastStays DEF KeepsRun
<1>6. Separate(x)
  <2>1. \A e \in Range(x.done) : e.opened > 0 /\ e.id < e.opened => Exempt(e, x.lines)
    BY <1>0, PastStays DEF KeepsRun
  <2>2. ASSUME NEW p \in Range(t.PendingMulti)
        PROVE  /\ p.id < t.opened \/ (~t.Multi /\ ~t.MultiRunning) => Exempt(p, x.lines)
               /\ ~t.MultiRunning => \A m \in Range(a) :
                    m.command = "MULTI" /\ p.id < m.id => Exempt(p, x.lines)
               /\ \A m \in Range(a) : m.command = "MULTIRESET" => Exempt(p, x.lines)
    <3>1. Stems(p, t.lines) /\ (Exempt(p, t.lines) => Exempt(p, x.lines))
      BY <1>0, <1>2, Longer DEF Known
    <3>2. r.command = "MULTI" => ~t.Multi
      BY <1>0
    <3> QED
      BY <1>0, <1>1, <3>1, <3>2 DEF Good, Separate
  <2> QED
    BY <1>0, <2>1, <2>2 DEF Separate, KeepsRun
<1>7. Lined(x)
  <2> SUFFICES ASSUME Simple(x.lines) PROVE Lined(x)
    BY DEF Lined
  <2>1. Simple(t.lines) /\ r.id = Len(t.lines) + 1
    BY <1>0, Longer DEF Comes
  <2>2. \A e \in Range(t.PendingList) \cup Range(t.PendingMulti) \cup Range(t.done) :
          e.id \in Nat /\ e.id < r.id
    BY <1>2, <2>1, Numbers, Fields
  <2>3. Rising(a)
    BY <1>1, <2>1, <2>2, RisingAppend DEF Good, Lined, a
  <2>4. Before(t.done, a) /\ (t.MultiRunning => Before(t.PendingMulti, a))
    BY <1>1, <2>1, <2>2 DEF Good, Lined, Before
  <2>5. t.Multi => Before(a, t.PendingMulti)
    BY <1>0, <1>1, <2>1 DEF Good, Lined, Before, Counts
  <2>6. ASSUME NEW j \in DOMAIN a, NEW k \in DOMAIN a, j < k
        PROVE  /\ t.Multi /\ a[j].command = "MRUN" => ~Counts(a[k])
               /\ a[j].command = "MULTI" /\ a[k].command = "MRUN" => t.Multi
    <3> DEFINE n == Len(t.PendingList)
    <3>1. /\ n \in Nat /\ DOMAIN t.PendingList = 1 .. n /\ DOMAIN a = 1 .. n + 1
          /\ a[n + 1] = r /\ \A i \in 1 .. n : a[i] = t.PendingList[i]
      BY <1>1, Appended DEF a
    <3> HIDE DEF n
    <3>2. j \in 1 .. n /\ a[j] = t.PendingList[j]
      BY <2>6, <3>1
    <3>3. CASE k = n + 1
      BY <1>0, <3>1, <3>3 DEF Counts
    <3>4. CASE k # n + 1
      <4>1. k \in 1 .. n /\ a[k] = t.PendingList[k]
        BY <3>1, <3>4
      <4> QED
        BY <2>1, <2>6, <3>1, <3>2, <4>1 DEF Good, Lined
    <3> QED
      BY <3>3, <3>4
  <2> QED
    BY <1>0, <2>1, <2>3, <2>4, <2>5, <2>6 DEF Good, Lined, KeepsRun
<1> QED
  BY <1>3, <1>4, <1>5, <1>6, <1>7 DEF Good

(* A request joins the transaction its client has opened.                  *)
LEMMA JoinsGood ==
  ASSUME NEW t \in Records, NEW x \in Records, NEW r \in Requests, Good(t), Joins(t, x, r)
  PROVE  Good(x)
<1> DEFINE a == Append(t.PendingMulti, r)
<1>0. /\ Arrives(t, x, r) /\ KeepsRun(t, x) /\ x.refused = t.refused /\ x.cleared = t.cleared
      /\ x.PendingList = t.PendingList /\ x.PendingMulti = a /\ x.done = t.done
      /\ t.Multi /\ r.command \notin {"PONG", "MULTIRESET", "MULTI", "MRUN"}
  BY DEF Joins, Arrives
<1>1. /\ Range(a) = Range(t.PendingMulti) \cup {r}
      /\ t.PendingMulti \in Seq(Requests)
  BY Fields, Appended
<1> HIDE DEF a
<1>2. Known(t) /\ Counted(t) /\ ~t.MultiRunning
  BY <1>0 DEF Good, Together
<1>3. Known(x)
  <2>1. ASSUME NEW f \in Range(a) \cup Range(t.PendingList) \cup Range(t.done)
        PROVE  Stems(f, x.lines)
    <3>1. f = r \/ Stems(f, t.lines)
      BY <1>1, <1>2 DEF Known
    <3> QED
      BY <1>0, <3>1, Longer
  <2>2. t.refused \cup t.cleared \subseteq 1 .. Len(x.lines)
    <3>1. t.refused \cup t.cleared \subseteq 1 .. Len(t.lines)
      BY <1>2 DEF Known
    <3>2. \A i \in 1 .. Len(t.lines) : i \in 1 .. Len(x.lines)
      BY <1>0, Longer
    <3> QED
      BY <3>1, <3>2
  <2>3. \A f \in Range(a) : f.command \notin {"MULTI", "MRUN", "PONG", "MULTIRESET"}
    BY <1>0, <1>1, <1>2 DEF Known
  <2> QED
    BY <1>0, <2>1, <2>2, <2>3 DEF Known
<1>4. Counted(x)
  <2> SUFFICES ASSUME NEW i \in 1 .. Len(x.lines)
               PROVE  Hits(a, i) = IF i = r.id THEN Hits(t.PendingMulti, i) + 1
                                   ELSE Hits(t.PendingMulti, i)
    <3>1. ASSUME NEW i \in 1 .. Len(x.lines)
          PROVE  /\ Hits(t.PendingList, i) \in Nat /\ Hits(t.PendingMulti, i) \in Nat
                 /\ Hits(t.done, i) \in Nat /\ One(t.refused, i) \in Nat /\ One(t.cleared, i) \in Nat
      BY Fields, HitsTyped DEF One
    <3> QED
      BY <1>0, <1>2, <3>1, Placed
  <2> QED
    BY <1>1, HitsAppend DEF a
<1>5. Together(x) /\ Entitled(x)
  BY <1>0, PastStays DEF KeepsRun
<1>6. Separate(x)
  <2>1. \A e \in Range(x.done) : e.opened > 0 /\ e.id < e.opened => Exempt(e, x.lines)
    BY <1>0, PastStays DEF KeepsRun
  <2>2. ASSUME NEW p \in Range(t.PendingMulti)
        PROVE  /\ p.id < t.opened => Exempt(p, x.lines)
               /\ \A m \in Range(t.PendingList) :
                    m.command = "MULTI" /\ p.id < m.id => Exempt(p, x.lines)
               /\ \A m \in Range(t.PendingList) : m.command = "MULTIRESET" => Exempt(p, x.lines)
    <3>1. Stems(p, t.lines) /\ (Exempt(p, t.lines) => Exempt(p, x.lines))
      BY <1>0, <1>2, Longer DEF Known
    <3> QED
      BY <1>2, <3>1 DEF Good, Separate
  <2>3. /\ r.id < t.opened => Exempt(r, x.lines)
        /\ \A m \in Range(t.PendingList) :
             m.command = "MULTI" /\ r.id < m.id => Exempt(r, x.lines)
        /\ \A m \in Range(t.PendingList) : m.command = "MULTIRESET" => Exempt(r, x.lines)
    <3>1. CASE Returns(t, x, r)
      BY <1>0, <3>1 DEF Returns, Exempt
    <3>2. CASE Comes(t, x, r)
      <4>1. r.id = Len(t.lines) + 1 /\ Len(t.lines) \in Nat /\ t.opened \in 1 .. Len(t.lines)
        BY <1>0, <3>2, Fields DEF Comes, Good, Together
      <4>2. \A m \in Range(t.PendingList) : m.id \in 1 .. Len(t.lines) /\ Stems(m, t.lines)
        BY <1>2, Numbers
      <4>3. ASSUME NEW m \in Range(t.PendingList), m.command = "MULTIRESET"
            PROVE  Exempt(r, x.lines)
        <5>1. m.id \in 1 .. Len(t.lines) /\ t.lines[m.id] = "MULTIRESET"
          BY <4>2, <4>3 DEF Stems, LoginSteps
        <5>2. m.id \in 1 .. Len(x.lines) /\ x.lines[m.id] = "MULTIRESET" /\ m.id < r.id
          BY <1>0, <4>1, <5>1, Longer
        <5> QED
          BY <5>2 DEF Exempt
      <4>4. ~(r.id < t.opened) /\ \A m \in Range(t.PendingList) : ~(r.id < m.id)
        BY <4>1, <4>2
      <4> QED
        BY <4>3, <4>4
    <3> QED
      BY <1>0, <3>1, <3>2 DEF Arrives
  <2> QED
    BY <1>0, <1>1, <1>2, <2>1, <2>2, <2>3 DEF Separate, KeepsRun
<1>7. Lined(x)
  <2> SUFFICES ASSUME Simple(x.lines) PROVE Lined(x)
    BY DEF Lined
  <2>1. Simple(t.lines) /\ r.id = Len(t.lines) + 1
    BY <1>0, Longer DEF Comes
  <2>2. \A e \in Range(t.PendingList) \cup Range(t.PendingMulti) \cup Range(t.done) :
          e.id \in Nat /\ e.id < r.id
    BY <1>2, <2>1, Numbers, Fields
  <2>3. Rising(a)
    BY <1>1, <2>1, <2>2, RisingAppend DEF Good, Lined, a
  <2>4. Before(t.done, a) /\ Before(t.PendingList, a)
    BY <1>0, <1>1, <2>1, <2>2 DEF Good, Lined, Before
  <2> QED
    BY <1>0, <1>2, <2>1, <2>3, <2>4 DEF Good, Lined, KeepsRun
<1> QED
  BY <1>3, <1>4, <1>5, <1>6, <1>7 DEF Good

(* A MULTI in a transaction, or an MRUN without one, is refused.           *)
LEMMA RefusesGood ==
  ASSUME NEW t \in Records, NEW x \in Records, NEW r \in Requests, Good(t), Refuses(t, x, r)
  PROVE  Good(x)
<1>0. /\ Arrives(t, x, r) /\ KeepsRun(t, x) /\ KeepsLists(t, x) /\ x.done = t.done
      /\ x.refused = t.refused \cup {r.id} /\ x.cleared = t.cleared
      /\ r.id = Len(t.lines) + 1 /\ Len(t.lines) \in Nat
  BY Fields DEF Refuses, Arrives, Comes
<1>2. Known(t) /\ Counted(t)
  BY DEF Good
<1>3. Known(x)
  <2>1. r.id \in 1 .. Len(x.lines)
    BY <1>0, Longer DEF Stems
  <2> QED
    BY <1>0, <1>2, <2>1, Longer DEF Known, KeepsLists
<1>4. Counted(x)
  <2>1. r.id \notin t.refused
    BY <1>0, <1>2 DEF Known
  <2>2. ASSUME NEW i \in 1 .. Len(x.lines)
        PROVE  LET n == Hits(t.PendingList, i) + Hits(t.PendingMulti, i) + Hits(t.done, i)
                          + One(t.refused, i) + One(t.cleared, i)
               IN Hits(x.PendingList, i) + Hits(x.PendingMulti, i) + Hits(x.done, i)
                    + One(x.refused, i) + One(x.cleared, i) = IF i = r.id THEN n + 1 ELSE n
    <3>1. /\ Hits(t.PendingList, i) \in Nat /\ Hits(t.PendingMulti, i) \in Nat
          /\ Hits(t.done, i) \in Nat /\ One(t.refused, i) \in Nat /\ One(t.cleared, i) \in Nat
      BY Fields, HitsTyped DEF One
    <3>2. /\ x.PendingList = t.PendingList /\ x.PendingMulti = t.PendingMulti
          /\ x.done = t.done /\ x.cleared = t.cleared
      BY <1>0 DEF KeepsLists
    <3>3. One(x.refused, i) = IF i = r.id THEN One(t.refused, i) + 1 ELSE One(t.refused, i)
      BY <1>0, <2>1 DEF One
    <3> QED
      BY <3>1, <3>2, <3>3
  <2> QED
    BY <1>0, <1>2, <2>2, Placed
<1>5. Together(x) /\ Entitled(x)
  BY <1>0, PastStays DEF KeepsRun
<1>6. Separate(x)
  <2>1. \A e \in Range(x.done) : e.opened > 0 /\ e.id < e.opened => Exempt(e, x.lines)
    BY <1>0, PastStays DEF KeepsRun
  <2>2. \A p \in Range(t.PendingMulti) : Exempt(p, t.lines) => Exempt(p, x.lines)
    BY <1>0, <1>2, Longer DEF Known
  <2> QED
    BY <1>0, <2>1, <2>2 DEF Good, Separate, KeepsRun, KeepsLists
<1>7. Lined(x)
  BY <1>0, Longer DEF Good, Lined, KeepsRun, KeepsLists
<1> QED
  BY <1>3, <1>4, <1>5, <1>6, <1>7 DEF Good

(* A MULTIRESET arrives: the transaction is emptied at once.               *)
LEMMA ResetsGood ==
  ASSUME NEW t \in Records, NEW x \in Records, NEW r \in Requests, Good(t), Resets(t, x, r)
  PROVE  Good(x)
<1> DEFINE a == Append(t.PendingList, r)
<1>0. /\ Arrives(t, x, r) /\ Comes(t, x, r) /\ x.refused = t.refused
      /\ x.Multi = t.Multi /\ ~x.MultiRunning /\ x.opened = t.opened
      /\ x.PendingList = a /\ x.PendingMulti = <<>> /\ x.done = t.done
      /\ x.cleared = t.cleared \cup Ids(t.PendingMulti)
      /\ r.command = "MULTIRESET"
  BY DEF Resets, Arrives
<1>1. /\ Range(a) = Range(t.PendingList) \cup {r} /\ Range(<<>>) = {}
      /\ t.PendingList \in Seq(Requests) /\ t.PendingMulti \in Seq(Requests)
  BY Fields, Appended, Empty
<1> HIDE DEF a
<1>2. Known(t) /\ Counted(t)
  BY DEF Good
<1>3. Known(x)
  <2>1. x.refused \cup x.cleared \subseteq 1 .. Len(t.lines)
    BY <1>0, <1>2, Numbers DEF Known
  <2>2. x.refused \cup x.cleared \subseteq 1 .. Len(x.lines)
    BY <1>0, <2>1, Longer
  <2>3. ASSUME NEW f \in Range(a) \cup Range(t.done)
        PROVE  Stems(f, x.lines)
    <3>1. f = r \/ Stems(f, t.lines)
      BY <1>1, <1>2 DEF Known
    <3> QED
      BY <1>0, <3>1, Longer
  <2> QED
    BY <1>0, <1>1, <2>2, <2>3 DEF Known
<1>4. Counted(x)
  <2>1. ASSUME NEW i \in 1 .. Len(x.lines)
        PROVE  Hits(t.PendingMulti, i) + One(t.cleared, i) = One(x.cleared, i)
               \/ x.lines[i] \in Requeued
    <3>1. /\ Hits(t.PendingList, i) \in Nat /\ Hits(t.PendingMulti, i) \in Nat
          /\ Hits(t.done, i) \in Nat /\ One(t.refused, i) \in Nat /\ One(t.cleared, i) \in Nat
          /\ Hits(t.PendingMulti, i) = 0 <=> i \notin Ids(t.PendingMulti)
      BY Fields, HitsTyped DEF One
    <3>2. CASE i \notin Ids(t.PendingMulti)
      BY <1>0, <3>1, <3>2 DEF One
    <3>3. CASE i \in Ids(t.PendingMulti)
      <4>1. i \in 1 .. Len(t.lines) /\ x.lines[i] = t.lines[i]
        BY <1>0, <1>2, <3>3, Numbers, Longer
      <4>2. One(x.cleared, i) = 1
        BY <1>0, <3>3 DEF One
      <4>3. Hits(t.PendingList, i) + Hits(t.PendingMulti, i) + Hits(t.done, i)
              + One(t.refused, i) + One(t.cleared, i) = 1 \/ t.lines[i] \in Requeued
        BY <1>2, <4>1 DEF Counted
      <4> QED
        BY <3>1, <3>3, <4>1, <4>2, <4>3
    <3> QED
      BY <3>2, <3>3
  <2> SUFFICES ASSUME NEW i \in 1 .. Len(x.lines), x.lines[i] \notin Requeued
               PROVE  Hits(a, i) + Hits(<<>>, i) + Hits(t.done, i)
                        + One(t.refused, i) + One(x.cleared, i) = 1
    BY <1>0 DEF Counted
  <2>2. /\ Hits(t.PendingList, i) \in Nat /\ Hits(t.PendingMulti, i) \in Nat
        /\ Hits(t.done, i) \in Nat /\ One(t.refused, i) \in Nat /\ One(t.cleared, i) \in Nat
        /\ Hits(<<>>, i) = 0
    BY Fields, HitsTyped DEF One
  <2>3. Hits(a, i) = IF i = r.id THEN Hits(t.PendingList, i) + 1 ELSE Hits(t.PendingList, i)
    BY <1>1, HitsAppend DEF a
  <2>4. CASE i \in 1 .. Len(t.lines)
    <3>1. x.lines[i] = t.lines[i] /\ i # r.id
      BY <1>0, <2>4, Longer, Fields DEF Comes
    <3>2. Hits(t.PendingList, i) + Hits(t.PendingMulti, i) + Hits(t.done, i)
            + One(t.refused, i) + One(t.cleared, i) = 1
      BY <1>2, <2>4, <3>1 DEF Counted
    <3>3. Hits(a, i) = Hits(t.PendingList, i)
      BY <2>3, <3>1
    <3>4. Hits(t.PendingMulti, i) + One(t.cleared, i) = Hits(<<>>, i) + One(x.cleared, i)
          /\ One(x.cleared, i) \in Nat
      BY <2>1, <2>2 DEF One
    <3> QED
      BY <2>2, <3>2, <3>3, <3>4, Balance
  <2>5. CASE i \notin 1 .. Len(t.lines)
    <3>1. i = r.id /\ i \in Nat /\ i > Len(t.lines)
      BY <1>0, <2>5, Longer, Fields DEF Comes
    <3>2. /\ Hits(t.PendingList, i) = 0 /\ Hits(t.PendingMulti, i) = 0 /\ Hits(t.done, i) = 0
          /\ One(t.refused, i) = 0 /\ One(t.cleared, i) = 0
      BY <1>2, <3>1, Unheard
    <3> QED
      BY <2>1, <2>2, <2>3, <3>1, <3>2
  <2> QED
    BY <2>4, <2>5
<1>5. Together(x) /\ Entitled(x)
  BY <1>0, PastStays
<1>6. Separate(x)
  <2>1. \A e \in Range(x.done) : e.opened > 0 /\ e.id < e.opened => Exempt(e, x.lines)
    BY <1>0, PastStays
  <2> QED
    BY <1>0, <1>1, <2>1 DEF Separate
<1>7. Lined(x)
  <2>1. ~Simple(x.lines)
    <3>1. x.lines[r.id] = "MULTIRESET" /\ r.id \in 1 .. Len(x.lines)
      BY <1>0, Longer DEF Stems
    <3>2. DOMAIN x.lines = 1 .. Len(x.lines)
      BY Fields
    <3> QED
      BY <3>1, <3>2 DEF Simple, Range
  <2> QED
    BY <2>1 DEF Lined
<1> QED
  BY <1>3, <1>4, <1>5, <1>6, <1>7 DEF Good

-----------------------------------------------------------------------------
(* Requests that run: the head of the list or of the transaction is taken  *)
(* and entered into what has been done.                                    *)
Enters(t, x, r, e) ==
  /\ KeepsRun(t, x) /\ KeepsLogin(t, x)
  /\ x.lines = t.lines /\ x.refused = t.refused /\ x.cleared = t.cleared
  /\ x.done = Append(t.done, e) /\ e.id = r.id /\ e.command = r.command
  /\ e.verdict = "handled" /\ e.command \notin Free => t.registered = REG_OK

TakesList(t, x, e) ==
  /\ t.PendingList # <<>> /\ Enters(t, x, Head(t.PendingList), e) /\ e.opened = 0
  /\ x.PendingList = Tail(t.PendingList) /\ x.PendingMulti = t.PendingMulti
  /\ t.MultiRunning => e.command = "PONG"

TakesMulti(t, x, e) ==
  /\ t.PendingMulti # <<>> /\ Enters(t, x, Head(t.PendingMulti), e) /\ e.opened = t.opened
  /\ x.PendingMulti = Tail(t.PendingMulti) /\ x.PendingList = t.PendingList
  /\ t.MultiRunning

(* What runs was counted where it waited.                                  *)
LEMMA Moved ==
  ASSUME NEW q \in Seq(Requests), q # <<>>, NEW d \in Seq(Entries), NEW e \in Entries,
         e.id = Head(q).id, NEW i
  PROVE  Hits(q, i) + Hits(d, i) = Hits(Tail(q), i) + Hits(Append(d, e), i)
<1>1. Hits(q, i) = IF e.id = i THEN Hits(Tail(q), i) + 1 ELSE Hits(Tail(q), i)
  BY HitsTail
<1>2. Hits(Append(d, e), i) = IF e.id = i THEN Hits(d, i) + 1 ELSE Hits(d, i)
  BY HitsAppend
<1>3. Tail(q) \in Seq(Requests)
  BY Popped
<1>4. Hits(Tail(q), i) \in Nat /\ Hits(d, i) \in Nat
  BY <1>3, HitsTyped
<1> QED
  BY <1>1, <1>2, <1>4

(* The tail of a queue in order is in order, and comes after its head.     *)
LEMMA RisingTail ==
  ASSUME NEW S, NEW q \in Seq(S), q # <<>>, Rising(q)
  PROVE  /\ Rising(Tail(q))
         /\ \A e \in Range(Tail(q)) : Counts(Head(q)) /\ Counts(e) => Head(q).id < e.id
<1> DEFINE y == Tail(q)
           n == Len(q)
<1>1. /\ n \in Nat \ {0} /\ DOMAIN q = 1 .. n /\ DOMAIN y = 1 .. n - 1
      /\ Head(q) = q[1] /\ \A k \in 1 .. n - 1 : y[k] = q[k + 1]
  BY Popped
<1> HIDE DEF y, n
<1>2. \A k \in 1 .. n - 1 : k + 1 \in 1 .. n /\ 1 \in 1 .. n /\ 1 < k + 1
  BY <1>1
<1>3. Rising(y)
  <2> SUFFICES ASSUME NEW j \in 1 .. n - 1, NEW k \in 1 .. n - 1,
                      j < k, Counts(y[j]), Counts(y[k])
               PROVE  y[j].id < y[k].id
    BY <1>1 DEF Rising
  <2>1. j + 1 \in 1 .. n /\ k + 1 \in 1 .. n /\ j + 1 < k + 1
    BY <1>1
  <2> QED
    BY <1>1, <2>1 DEF Rising
<1>4. ASSUME NEW e \in Range(y), Counts(Head(q)), Counts(e)
      PROVE  Head(q).id < e.id
  <2>1. PICK k \in 1 .. n - 1 : e = y[k]
    BY <1>1 DEF Range
  <2> QED
    BY <1>1, <1>2, <1>4, <2>1 DEF Rising
<1> QED
  BY <1>3, <1>4 DEF y

(* What a new entry leaves true of the entries before it.                  *)
LEMMA EntersPast ==
  ASSUME NEW t \in Records, NEW x \in Records, NEW r \in Requests, NEW e \in Entries,
         Good(t), Enters(t, x, r, e), Stems(r, t.lines),
         \/ e.opened = 0 /\ (t.MultiRunning => e.command = "PONG")
         \/ e.opened = t.opened /\ t.MultiRunning /\ (r.id < t.opened => Exempt(r, t.lines))
  PROVE  /\ Together(x) /\ Entitled(x)
         /\ \A f \in Range(x.done) : f.opened > 0 /\ f.id < f.opened => Exempt(f, x.lines)
         /\ \A f \in Range(x.done) : Stems(f, x.lines)
<1> DEFINE a == Append(t.done, e)
           n == Len(t.done)
<1>1. /\ n \in Nat /\ DOMAIN t.done = 1 .. n /\ DOMAIN a = 1 .. n + 1
      /\ a[n + 1] = e /\ \A k \in 1 .. n : a[k] = t.done[k]
      /\ Range(a) = Range(t.done) \cup {e} /\ a \in Seq(Entries)
  BY Fields, Appended
<1>2. /\ x.Multi = t.Multi /\ x.MultiRunning = t.MultiRunning /\ x.opened = t.opened
      /\ x.registered = t.registered /\ x.logged = t.logged /\ x.lines = t.lines /\ x.done = a
      /\ e.id = r.id /\ e.command = r.command
  BY DEF Enters, KeepsRun, KeepsLogin
<1>3. Ids(t.done) \subseteq Ids(a)
  <2>1. Ids(a) = {f.id : f \in Range(a)} /\ Ids(t.done) = {f.id : f \in Range(t.done)}
    BY <1>1, Fields, RangeTyped
  <2> QED
    BY <1>1, <2>1
<1> HIDE DEF a, n
<1>4. Entitled(x)
  BY <1>1, <1>2 DEF Good, Entitled, Enters
<1>5. Together(x)
  <2>1. /\ ~(t.Multi /\ t.MultiRunning) /\ t.opened \in Nat
        /\ t.Multi \/ t.MultiRunning => /\ t.opened \in 1 .. Len(t.lines)
                                        /\ t.lines[t.opened] = "MULTI" /\ t.opened \in Ids(a)
        /\ \A f \in Range(t.done) : f.opened > 0 =>
             f.opened \in Ids(a) /\ t.lines[f.opened] = "MULTI"
        /\ t.Multi => \A f \in Range(t.done) : f.opened # t.opened
    BY <1>3, Fields DEF Good, Together
  <2>2. /\ \A f \in Range(a) : f.opened > 0 => f.opened \in Ids(a) /\ t.lines[f.opened] = "MULTI"
        /\ t.Multi => \A f \in Range(a) : f.opened # t.opened
    BY <1>1, <2>1
  <2>3. t.MultiRunning => \A i, k \in 1 .. n :
          i < k /\ t.done[i].opened = t.opened
            => t.done[k].command = "PONG" \/ t.done[k].opened = t.opened
    BY <1>1 DEF Good, Together
  <2>4. \A i, j, k \in 1 .. n :
          i < j /\ j < k /\ t.done[i].opened > 0 /\ t.done[i].opened = t.done[k].opened
            => t.done[j].command = "PONG" \/ t.done[j].opened = t.done[i].opened
    BY <1>1 DEF Good, Together
  <2>5. ASSUME t.MultiRunning, NEW i \in 1 .. n + 1, NEW k \in 1 .. n + 1,
               i < k, a[i].opened = t.opened
        PROVE  a[k].command = "PONG" \/ a[k].opened = t.opened
    <3>1. i \in 1 .. n /\ t.done[i].opened = t.opened
      BY <1>1, <2>5
    <3>2. CASE k = n + 1
      BY <1>1, <2>5, <3>2
    <3>3. CASE k # n + 1
      <4>1. k \in 1 .. n /\ a[k] = t.done[k]
        BY <1>1, <3>3
      <4> QED
        BY <1>1, <2>5, <3>1, <4>1, <2>3
    <3> QED
      BY <3>2, <3>3
  <2>6. ASSUME NEW i \in 1 .. n + 1, NEW j \in 1 .. n + 1, NEW k \in 1 .. n + 1,
               i < j, j < k, a[i].opened > 0, a[i].opened = a[k].opened
        PROVE  a[j].command = "PONG" \/ a[j].opened = a[i].opened
    <3>1. i \in 1 .. n /\ j \in 1 .. n /\ a[i] = t.done[i] /\ a[j] = t.done[j]
      BY <1>1, <2>6
    <3>2. CASE k = n + 1
      <4>1. t.MultiRunning /\ t.done[i].opened = t.opened
        BY <1>1, <2>6, <3>1, <3>2
      <4> QED
        BY <2>6, <2>3, <3>1, <4>1
    <3>3. CASE k # n + 1
      <4>1. k \in 1 .. n /\ a[k] = t.done[k]
        BY <1>1, <3>3
      <4> QED
        BY <2>6, <2>4, <3>1, <4>1
    <3> QED
      BY <3>2, <3>3
  <2> QED
    BY <1>1, <1>2, <2>1, <2>2, <2>5, <2>6 DEF Together
<1>6. \A f \in Range(x.done) : f.opened > 0 /\ f.id < f.opened => Exempt(f, x.lines)
  <2>1. e.opened > 0 /\ e.id < e.opened => Exempt(e, t.lines)
    BY <1>2 DEF Exempt
  <2> QED
    BY <1>1, <1>2, <2>1 DEF Good, Separate
<1>7. \A f \in Range(x.done) : Stems(f, x.lines)
  <2>1. Stems(e, t.lines)
    BY <1>2 DEF Stems
  <2> QED
    BY <1>1, <1>2, <2>1 DEF Good, Known
<1> QED
  BY <1>4, <1>5, <1>6, <1>7

(* The head of the list runs: outside of a transaction, or as a PONG.      *)
LEMMA TakesListGood ==
  ASSUME NEW t \in Records, NEW x \in Records, NEW e \in Entries, Good(t), TakesList(t, x, e)
  PROVE  Good(x)
<1> DEFINE r == Head(t.PendingList)
           y == Tail(t.PendingList)
<1>1. /\ r \in Requests /\ y \in Seq(Requests) /\ Range(t.PendingList) = Range(y) \cup {r}
      /\ t.PendingList \in Seq(Requests) /\ t.done \in Seq(Entries)
      /\ Range(Append(t.done, e)) = Range(t.done) \cup {e}
  BY Fields, Popped, Appended DEF TakesList
<1>2. /\ Enters(t, x, r, e) /\ t.PendingList # <<>> /\ e.opened = 0
      /\ x.PendingList = y /\ x.PendingMulti = t.PendingMulti
      /\ t.MultiRunning => e.command = "PONG"
      /\ x.lines = t.lines /\ x.refused = t.refused /\ x.cleared = t.cleared
      /\ x.done = Append(t.done, e) /\ e.id = r.id /\ e.command = r.command
      /\ x.Multi = t.Multi /\ x.MultiRunning = t.MultiRunning /\ x.opened = t.opened
  BY DEF TakesList, Enters, KeepsRun
<1>3. Known(t) /\ Counted(t) /\ Stems(r, t.lines)
  BY <1>1 DEF Good, Known
<1> HIDE DEF r, y
<1>4. /\ Together(x) /\ Entitled(x)
      /\ \A f \in Range(x.done) : f.opened > 0 /\ f.id < f.opened => Exempt(f, x.lines)
      /\ \A f \in Range(x.done) : Stems(f, x.lines)
  BY <1>1, <1>2, <1>3, EntersPast
<1>5. Known(x)
  BY <1>1, <1>2, <1>3, <1>4 DEF Known
<1>6. Counted(x)
  <2> SUFFICES ASSUME NEW i \in 1 .. Len(t.lines), t.lines[i] \notin Requeued
               PROVE  Hits(x.PendingList, i) + Hits(x.PendingMulti, i) + Hits(x.done, i)
                        + One(x.refused, i) + One(x.cleared, i) = 1
    BY <1>2 DEF Counted
  <2>1. Hits(t.PendingList, i) + Hits(t.done, i) = Hits(x.PendingList, i) + Hits(x.done, i)
    BY <1>1, <1>2, Moved DEF r, y
  <2>2. /\ Hits(t.PendingList, i) \in Nat /\ Hits(t.PendingMulti, i) \in Nat
        /\ Hits(t.done, i) \in Nat /\ One(t.refused, i) \in Nat /\ One(t.cleared, i) \in Nat
        /\ Hits(x.PendingList, i) \in Nat /\ Hits(x.done, i) \in Nat
    BY Fields, HitsTyped DEF One
  <2>3. Hits(t.PendingList, i) + Hits(t.PendingMulti, i) + Hits(t.done, i)
          + One(t.refused, i) + One(t.cleared, i) = 1
    BY <1>3 DEF Counted
  <2>4. /\ Hits(x.PendingMulti, i) = Hits(t.PendingMulti, i)
        /\ One(x.refused, i) = One(t.refused, i) /\ One(x.cleared, i) = One(t.cleared, i)
    BY <1>2
  <2>5. Hits(x.PendingList, i) + Hits(t.PendingMulti, i) + Hits(x.done, i)
          + One(t.refused, i) + One(t.cleared, i) = 1
    <3> DEFINE p == Hits(t.PendingList, i)
               m == Hits(t.PendingMulti, i)
               d == Hits(t.done, i)
               o == One(t.refused, i)
               c == One(t.cleared, i)
               p1 == Hits(x.PendingList, i)
               d1 == Hits(x.done, i)
    <3>1. /\ p \in Nat /\ m \in Nat /\ d \in Nat /\ o \in Nat /\ c \in Nat
          /\ p1 \in Nat /\ d1 \in Nat
      BY <2>2
    <3>2. p + d = p1 + d1
      BY <2>1
    <3>3. p + m + d + o + c = 1
      BY <2>3
    <3> HIDE DEF p, m, d, o, c, p1, d1
    <3>4. p1 + m + d1 + o + c = 1
      BY <3>1, <3>2, <3>3
    <3> QED
      BY <3>4 DEF p1, m, d1, o, c
  <2> QED
    BY <2>4, <2>5
<1>7. Separate(x)
  BY <1>1, <1>2, <1>4 DEF Good, Separate
<1>8. Lined(x)
  <2> SUFFICES ASSUME Simple(t.lines) PROVE Lined(x)
    BY <1>2 DEF Lined
  <2>1. Rising(y) /\ \A f \in Range(y) : Counts(r) /\ Counts(f) => r.id < f.id
    BY <1>1, <1>2, RisingTail DEF Good, Lined, r, y
  <2>2. Counts(e) <=> Counts(r)
    BY <1>2 DEF Counts
  <2>3. Rising(x.done)
    <3>1. Counts(e) => \A f \in Range(t.done) : Counts(f) => f.id < e.id
      BY <1>1, <1>2, <2>2 DEF Good, Lined, Before
    <3> QED
      BY <1>1, <1>2, <3>1, RisingAppend DEF Good, Lined
  <2>4. Before(x.done, y)
    BY <1>1, <1>2, <2>1, <2>2 DEF Good, Lined, Before
  <2>5. Before(x.done, t.PendingMulti)
    <3>1. CASE ~Counts(r)
      BY <1>1, <1>2, <2>2, <3>1 DEF Good, Lined, Before
    <3>2. CASE t.Multi
      BY <1>1, <1>2, <2>2, <3>2 DEF Good, Lined, Before
    <3>3. CASE Counts(r) /\ ~t.Multi
      <4>1. ~t.MultiRunning
        BY <1>2, <3>3 DEF Counts
      <4>2. Range(t.PendingMulti) = {}
        BY <3>3, <4>1, Empty DEF Good, Lined
      <4> QED
        BY <4>2 DEF Before
    <3> QED
      BY <3>1, <3>2, <3>3
  <2>6. /\ t.Multi => Before(y, t.PendingMulti)
        /\ t.MultiRunning => Before(t.PendingMulti, y)
    BY <1>1 DEF Good, Lined, Before
  <2>7. ASSUME NEW j \in DOMAIN y, NEW k \in DOMAIN y, j < k
        PROVE  /\ t.Multi /\ y[j].command = "MRUN" => ~Counts(y[k])
               /\ y[j].command = "MULTI" /\ y[k].command = "MRUN" => t.Multi
    <3> DEFINE n == Len(t.PendingList)
    <3>1. /\ n \in Nat \ {0} /\ DOMAIN t.PendingList = 1 .. n /\ DOMAIN y = 1 .. n - 1
          /\ \A i \in 1 .. n - 1 : y[i] = t.PendingList[i + 1]
      BY <1>1, <1>2, Popped DEF y
    <3> HIDE DEF n
    <3>2. /\ j + 1 \in 1 .. n /\ k + 1 \in 1 .. n /\ j + 1 < k + 1
          /\ y[j] = t.PendingList[j + 1] /\ y[k] = t.PendingList[k + 1]
      BY <2>7, <3>1
    <3> QED
      BY <3>1, <3>2 DEF Good, Lined
  <2> QED
    BY <1>2, <2>1, <2>3, <2>4, <2>5, <2>6, <2>7 DEF Good, Lined
<1> QED
  BY <1>4, <1>5, <1>6, <1>7, <1>8 DEF Good

(* The head of the transaction runs.                                       *)
LEMMA TakesMultiGood ==
  ASSUME NEW t \in Records, NEW x \in Records, NEW e \in Entries, Good(t), TakesMulti(t, x, e)
  PROVE  Good(x)
<1> DEFINE r == Head(t.PendingMulti)
           y == Tail(t.PendingMulti)
<1>1. /\ r \in Requests /\ y \in Seq(Requests) /\ Range(t.PendingMulti) = Range(y) \cup {r}
      /\ t.PendingMulti \in Seq(Requests) /\ t.done \in Seq(Entries)
      /\ Range(Append(t.done, e)) = Range(t.done) \cup {e}
  BY Fields, Popped, Appended DEF TakesMulti
<1>2. /\ Enters(t, x, r, e) /\ t.PendingMulti # <<>> /\ e.opened = t.opened
      /\ x.PendingMulti = y /\ x.PendingList = t.PendingList
      /\ t.MultiRunning
      /\ x.lines = t.lines /\ x.refused = t.refused /\ x.cleared = t.cleared
      /\ x.done = Append(t.done, e) /\ e.id = r.id /\ e.command = r.command
      /\ x.Multi = t.Multi /\ x.MultiRunning = t.MultiRunning /\ x.opened = t.opened
  BY DEF TakesMulti, Enters, KeepsRun
<1>3. /\ Known(t) /\ Counted(t) /\ Stems(r, t.lines) /\ ~t.Multi
      /\ r.id < t.opened => Exempt(r, t.lines)
  BY <1>1, <1>2 DEF Good, Known, Together, Separate
<1> HIDE DEF r, y
<1>4. /\ Together(x) /\ Entitled(x)
      /\ \A f \in Range(x.done) : f.opened > 0 /\ f.id < f.opened => Exempt(f, x.lines)
      /\ \A f \in Range(x.done) : Stems(f, x.lines)
  BY <1>1, <1>2, <1>3, EntersPast
<1>5. Known(x)
  BY <1>1, <1>2, <1>3, <1>4 DEF Known
<1>6. Counted(x)
  <2> SUFFICES ASSUME NEW i \in 1 .. Len(t.lines), t.lines[i] \notin Requeued
               PROVE  Hits(x.PendingList, i) + Hits(x.PendingMulti, i) + Hits(x.done, i)
                        + One(x.refused, i) + One(x.cleared, i) = 1
    BY <1>2 DEF Counted
  <2>1. Hits(t.PendingMulti, i) + Hits(t.done, i) = Hits(x.PendingMulti, i) + Hits(x.done, i)
    BY <1>1, <1>2, Moved DEF r, y
  <2>2. /\ Hits(t.PendingList, i) \in Nat /\ Hits(t.PendingMulti, i) \in Nat
        /\ Hits(t.done, i) \in Nat /\ One(t.refused, i) \in Nat /\ One(t.cleared, i) \in Nat
        /\ Hits(x.PendingMulti, i) \in Nat /\ Hits(x.done, i) \in Nat
    BY Fields, HitsTyped DEF One
  <2>3. Hits(t.PendingList, i) + Hits(t.PendingMulti, i) + Hits(t.done, i)
          + One(t.refused, i) + One(t.cleared, i) = 1
    BY <1>3 DEF Counted
  <2>4. /\ Hits(x.PendingList, i) = Hits(t.PendingList, i)
        /\ One(x.refused, i) = One(t.refused, i) /\ One(x.cleared, i) = One(t.cleared, i)
    BY <1>2
  <2>5. Hits(t.PendingList, i) + Hits(x.PendingMulti, i) + Hits(x.done, i)
          + One(t.refused, i) + One(t.cleared, i) = 1
    <3> DEFINE p == Hits(t.PendingMulti, i)
               m == Hits(t.PendingList, i)
               d == Hits(t.done, i)
               o == One(t.refused, i)
               c == One(t.cleared, i)
               p1 == Hits(x.PendingMulti, i)
               d1 == Hits(x.done, i)
    <3>1. /\ p \in Nat /\ m \in Nat /\ d \in Nat /\ o \in Nat /\ c \in Nat
          /\ p1 \in Nat /\ d1 \in Nat
      BY <2>2
    <3>2. p + d = p1 + d1
      BY <2>1
    <3>3. m + p + d + o + c = 1
      BY <2>3
    <3> HIDE DEF p, m, d, o, c, p1, d1
    <3>4. m + p1 + d1 + o + c = 1
      BY <3>1, <3>2, <3>3
    <3> QED
      BY <3>4 DEF p1, m, d1, o, c
  <2> QED
    BY <2>4, <2>5
<1>7. Separate(x)
  BY <1>1, <1>2, <1>4 DEF Good, Separate
<1>8. Lined(x)
  <2> SUFFICES ASSUME Simple(t.lines) PROVE Lined(x)
    BY <1>2 DEF Lined
  <2>1. Rising(y) /\ \A f \in Range(y) : Counts(r) /\ Counts(f) => r.id < f.id
    BY <1>1, <1>2, RisingTail DEF Good, Lined, r, y
  <2>2. Counts(e) <=> Counts(r)
    BY <1>2 DEF Counts
  <2>3. Rising(x.done)
    <3>1. Counts(e) => \A f \in Range(t.done) : Counts(f) => f.id < e.id
      BY <1>1, <1>2, <2>2 DEF Good, Lined, Before
    <3> QED
      BY <1>1, <1>2, <3>1, RisingAppend DEF Good, Lined
  <2>4. Before(x.done, y)
    BY <1>1, <1>2, <2>1, <2>2 DEF Good, Lined, Before
  <2>5. Before(x.done, t.PendingList) /\ Before(y, t.PendingList)
    BY <1>1, <1>2, <2>2 DEF Good, Lined, Before
  <2> QED
    BY <1>2, <1>3, <2>1, <2>3, <2>4, <2>5 DEF Good, Lined
<1> QED
  BY <1>4, <1>5, <1>6, <1>7, <1>8 DEF Good

-----------------------------------------------------------------------------
(* What CommandQueue::Add does to the record of its client.                *)
AddTo(t, x, r) ==
  /\ x.lines = t.lines /\ x.done = t.done /\ KeepsLogin(t, x)
  /\ x.opened = t.opened /\ x.Multi = t.Multi
  /\ \/ /\ t.Quitting
        /\ KeepsLists(t, x) /\ KeepsRun(t, x) /\ x.refused = t.refused /\ x.cleared = t.cleared
     \/ /\ r.command # "MULTIRESET" /\ (r.command = "PONG" \/ (t.Multi <=> r.command = "MRUN"))
        /\ x.PendingList = Append(t.PendingList, r) /\ x.PendingMulti = t.PendingMulti
        /\ KeepsRun(t, x) /\ x.refused = t.refused /\ x.cleared = t.cleared
     \/ /\ t.Multi /\ r.command \notin {"PONG", "MULTIRESET", "MULTI", "MRUN"}
        /\ x.PendingList = t.PendingList /\ x.PendingMulti = Append(t.PendingMulti, r)
        /\ KeepsRun(t, x) /\ x.refused = t.refused /\ x.cleared = t.cleared
     \/ /\ r.command \in {"MULTI", "MRUN"} /\ KeepsLists(t, x) /\ KeepsRun(t, x)
        /\ x.refused = t.refused \cup {r.id} /\ x.cleared = t.cleared
     \/ /\ r.command = "MULTIRESET" /\ ~x.MultiRunning /\ x.refused = t.refused
        /\ x.PendingList = Append(t.PendingList, r) /\ x.PendingMulti = <<>>
        /\ x.cleared = t.cleared \cup Ids(t.PendingMulti)

(* CommandQueue::Add does to the record of its user what AddTo says.       *)
LEMMA AddShape ==
  ASSUME NEW s \in [Users -> Records], NEW u \in Users, NEW r \in Requests
  PROVE  /\ Add(s, u, r) \in [Users -> Records]
         /\ AddTo(s[u], Add(s, u, r)[u], r)
         /\ \A v \in Users : v # u => Add(s, u, r)[v] = s[v]
<1> DEFINE t == s[u]
           later == [t EXCEPT !.PendingList = Append(@, r)]
           reset == [later EXCEPT !.PendingMulti = <<>>, !.MultiRunning = FALSE,
                                  !.cleared = @ \cup Ids(t.PendingMulti)]
           denied == [t EXCEPT !.refused = @ \cup {r.id}]
           joined == [t EXCEPT !.PendingMulti = Append(@, r)]
           x == IF t.Quitting THEN t
                ELSE IF r.command = "PONG" THEN later
                ELSE IF r.command = "MULTIRESET" THEN reset
                ELSE IF t.Multi /\ r.command = "MULTI" THEN denied
                ELSE IF t.Multi /\ r.command # "MRUN" THEN joined
                ELSE IF ~t.Multi /\ r.command = "MRUN" THEN denied
                ELSE later
<1>1. Add(s, u, r) = [s EXCEPT ![u] = x]
  BY DEF Add
<1>2. t \in Records /\ r.id \in Nat
  BY DEF Requests
<1>3. /\ Append(t.PendingList, r) \in Seq(Requests) /\ Append(t.PendingMulti, r) \in Seq(Requests)
      /\ <<>> \in Seq(Requests)
      /\ t.cleared \cup Ids(t.PendingMulti) \in SUBSET Nat /\ t.refused \cup {r.id} \in SUBSET Nat
  <2>1. t.PendingList \in Seq(Requests) /\ t.PendingMulti \in Seq(Requests)
        /\ t.cleared \in SUBSET Nat /\ t.refused \in SUBSET Nat
    BY <1>2, Fields
  <2>2. Ids(t.PendingMulti) = {e.id : e \in Range(t.PendingMulti)}
    BY <2>1, RangeTyped
  <2>3. Ids(t.PendingMulti) \subseteq Nat
    BY <2>1, <2>2, RangeTyped DEF Requests
  <2> QED
    BY <1>2, <2>1, <2>3, Appended
<1> HIDE DEF t
<1>4. /\ later \in Records /\ later.PendingList = Append(t.PendingList, r)
      /\ later.PendingMulti = t.PendingMulti /\ later.lines = t.lines /\ later.done = t.done
      /\ KeepsRun(t, later) /\ KeepsLogin(t, later)
      /\ later.refused = t.refused /\ later.cleared = t.cleared
  BY <1>2, <1>3 DEF Records, KeepsRun, KeepsLogin
<1>5. /\ joined \in Records /\ joined.PendingMulti = Append(t.PendingMulti, r)
      /\ joined.PendingList = t.PendingList /\ joined.lines = t.lines /\ joined.done = t.done
      /\ KeepsRun(t, joined) /\ KeepsLogin(t, joined)
      /\ joined.refused = t.refused /\ joined.cleared = t.cleared
  BY <1>2, <1>3 DEF Records, KeepsRun, KeepsLogin
<1>6. /\ denied \in Records /\ denied.refused = t.refused \cup {r.id}
      /\ KeepsLists(t, denied) /\ denied.lines = t.lines /\ denied.done = t.done
      /\ KeepsRun(t, denied) /\ KeepsLogin(t, denied) /\ denied.cleared = t.cleared
  BY <1>2, <1>3 DEF Records, KeepsRun, KeepsLogin, KeepsLists
<1>7. /\ reset \in Records /\ reset.PendingList = Append(t.PendingList, r)
      /\ reset.PendingMulti = <<>> /\ reset.cleared = t.cleared \cup Ids(t.PendingMulti)
      /\ reset.lines = t.lines /\ reset.done = t.done /\ KeepsLogin(t, reset)
      /\ reset.refused = t.refused /\ reset.opened = t.opened
      /\ reset.Multi = t.Multi /\ ~reset.MultiRunning
  <2> DEFINE l == later
  <2>1. reset = [l EXCEPT !.PendingMulti = <<>>, !.MultiRunning = FALSE,
                          !.cleared = @ \cup Ids(t.PendingMulti)]
    OBVIOUS
  <2> HIDE DEF l
  <2>2. l \in Records /\ l.cleared = t.cleared
    BY <1>4 DEF l
  <2>3. /\ reset \in Records /\ reset.PendingList = l.PendingList
        /\ reset.PendingMulti = <<>> /\ reset.cleared = t.cleared \cup Ids(t.PendingMulti)
        /\ reset.lines = l.lines /\ reset.done = l.done /\ KeepsLogin(l, reset)
        /\ reset.refused = l.refused /\ reset.opened = l.opened
        /\ reset.Multi = l.Multi /\ ~reset.MultiRunning
    BY <1>3, <2>1, <2>2 DEF Records, KeepsLogin
  <2> QED
    BY <1>4, <2>3 DEF l, KeepsLogin, KeepsRun
<1> HIDE DEF later, joined, denied, reset
<1>8. x \in Records /\ AddTo(t, x, r)
  <2>1. KeepsLists(t, t) /\ KeepsRun(t, t) /\ KeepsLogin(t, t)
    BY DEF KeepsLists, KeepsRun, KeepsLogin
  <2>2. t.Multi \in BOOLEAN /\ t.Quitting \in BOOLEAN
    BY <1>2, Fields
  <2>3. CASE t.Quitting
    BY <1>2, <2>1, <2>3 DEF AddTo
  <2>4. CASE ~t.Quitting /\ x = later /\ r.command # "MULTIRESET"
             /\ (r.command = "PONG" \/ (t.Multi <=> r.command = "MRUN"))
    <3> HIDE DEF x
    <3> QED
      BY <1>4, <2>4 DEF AddTo, KeepsRun
  <2>5. CASE ~t.Quitting /\ r.command = "MULTIRESET"
    <3>1. x = reset
      BY <2>5
    <3> HIDE DEF x
    <3> QED
      BY <1>7, <2>5, <3>1 DEF AddTo
  <2>6. CASE ~t.Quitting /\ x = denied /\ r.command \in {"MULTI", "MRUN"}
    <3> HIDE DEF x
    <3> QED
      BY <1>6, <2>6 DEF AddTo, KeepsRun
  <2>7. CASE ~t.Quitting /\ x = joined /\ t.Multi
             /\ r.command \notin {"PONG", "MULTIRESET", "MULTI", "MRUN"}
    <3> HIDE DEF x
    <3> QED
      BY <1>5, <2>7 DEF AddTo, KeepsRun
  <2> QED
    BY <2>2, <2>3, <2>4, <2>5, <2>6, <2>7
<1> HIDE DEF x
<1> QED
  BY <1>1, <1>8 DEF t

(* A request that Execute queues again.                                    *)
LEMMA AgainGood ==
  ASSUME NEW t \in Records, NEW x \in Records, NEW r \in Requests, Good(t),
         AddTo(t, x, r), Returns(t, t, r)
  PROVE  Good(x)
<1>1. Returns(t, x, r) /\ Arrives(t, x, r)
  BY DEF AddTo, Returns, Arrives
<1>2. r.command \notin {"MULTIRESET", "MULTI", "MRUN", "PONG"}
  BY DEF Returns, LoginSteps
<1>3. Quiet(t, x) \/ Enlists(t, x, r) \/ Joins(t, x, r)
  BY <1>1, <1>2 DEF AddTo, Quiet, Enlists, Joins, KeepsBook, KeepsPast, KeepsLogin
<1> QED
  BY <1>3, QuietGood, EnlistsGood, JoinsGood

(* A line arrives: StreamData numbers it and Add queues it.                *)
WithLine(s, u, c) ==
  LET q == [s EXCEPT ![u].lines = Append(@, c[1])]
  IN Add(q, u, [id |-> Len(q[u].lines), command |-> c[1], arg |-> c[2]])

(* What a line that arrives does to the books of its client.                *)
LEMMA ReceiveGood ==
  ASSUME NEW s \in [Users -> Records], NEW u \in Users, NEW c \in Menu[u],
         Good(s[u]), ~s[u].Quitting
  PROVE  LET y == WithLine(s, u, c)
         IN /\ y \in [Users -> Records] /\ Good(y[u])
            /\ \A v \in Users : v # u => y[v] = s[v]
<1> DEFINE q == [s EXCEPT ![u].lines = Append(@, c[1])]
           r == [id |-> Len(q[u].lines), command |-> c[1], arg |-> c[2]]
           y == Add(q, u, r)
           t == s[u]
           p == [t EXCEPT !.lines = Append(@, c[1])]
           x == y[u]
<1>1. /\ t \in Records /\ c[1] \in Names /\ c[2] \in Words
      /\ c[1] \in {"PAUSE", "RESUME"} => c[2] \in Targets
  BY MenuAssumption DEF Words, Names, Targets
<1>2. /\ Append(t.lines, c[1]) \in Seq(Names) /\ Len(t.lines) \in Nat
      /\ Len(Append(t.lines, c[1])) = Len(t.lines) + 1
  BY <1>1, Fields, Appended
<1> HIDE DEF t
<1>3. /\ p \in Records /\ p.lines = Append(t.lines, c[1]) /\ p.done = t.done
      /\ KeepsLists(t, p) /\ KeepsRun(t, p) /\ KeepsLogin(t, p)
      /\ p.refused = t.refused /\ p.cleared = t.cleared /\ p.Quitting = t.Quitting
  BY <1>1, <1>2 DEF Records, KeepsLists, KeepsRun, KeepsLogin
<1>4. q = [s EXCEPT ![u] = p] /\ q[u] = p
  BY DEF t
<1> HIDE DEF p
<1>5. q \in [Users -> Records] /\ \A v \in Users : v # u => q[v] = s[v]
  BY <1>3, <1>4
<1>6. r \in Requests /\ r.id = Len(t.lines) + 1 /\ r.command = c[1]
  <2>1. r.id = Len(t.lines) + 1 /\ r.command = c[1] /\ r.arg = c[2]
    BY <1>2, <1>3, <1>4
  <2>2. r \in [id : Nat \ {0}, command : Names, arg : Words]
    BY <1>1, <1>2, <1>3, <1>4
  <2> HIDE DEF r
  <2> QED
    BY <1>1, <2>1, <2>2 DEF Requests
<1>0. WithLine(s, u, c) = y
  BY DEF WithLine
<1> HIDE DEF q, r
<1>7. y \in [Users -> Records] /\ AddTo(p, x, r) /\ \A v \in Users : v # u => y[v] = q[v]
  BY <1>4, <1>5, <1>6, AddShape
<1> HIDE DEF y
<1>8. x \in Records
  BY <1>7
<1> HIDE DEF x
<1>9. Comes(t, x, r) /\ Arrives(t, x, r)
  BY <1>3, <1>6, <1>7 DEF AddTo, Comes, Arrives, KeepsLogin
<1>10. ~p.Quitting
  BY <1>3 DEF t
<1>11. Enlists(t, x, r) \/ Joins(t, x, r) \/ Refuses(t, x, r) \/ Resets(t, x, r)
  BY <1>3, <1>7, <1>9, <1>10 DEF AddTo, Enlists, Joins, Refuses, Resets, KeepsLists, KeepsRun
<1>12. Good(x)
  BY <1>1, <1>6, <1>8, <1>11, EnlistsGood, JoinsGood, RefusesGood, ResetsGood DEF t
<1> QED
  BY <1>0, <1>5, <1>7, <1>12 DEF x

-----------------------------------------------------------------------------
(* The gates of Execute let a command through to its handler only if it is *)
(* one of those CommandList has, and before the login only the login.      *)
Handled == {"MULTI", "MULTIRESET", "MRUN", "AGENT", "AUTH", "LOGIN", "ILOGIN", "EXIT",
            "PING", "PONG", "PAUSE", "RESUME", "SET"}

(* The commands of CommandList, and what their constructors set.           *)
LEMMA Listed ==
  /\ DOMAIN CommandList = Handled \cup {"Q", "QUIT"}
  /\ \A c \in Handled : CommandList[c].alias = None
                        /\ (CommandList[c].pre_reg_ok => c \in Free)
  /\ \A c \in {"Q", "QUIT"} : CommandList[c].alias = "EXIT"
BY DEF CommandList, Command, Handled, Free

(* What a verdict of CommandHandler::Execute says of the command.          *)
LEMMA Gates ==
  ASSUME NEW t, NEW u, NEW r \in Requests
  PROVE  /\ Verdict(t, u, r) \in Verdicts
         /\ Verdict(t, u, r) = "handled" => /\ r.command \in Handled
                                            /\ (t.registered = REG_OK \/ r.command \in Free)
                                            /\ r.arg \notin {"missing", "bad"}
         /\ Verdict(t, u, r) = "alias" => /\ r.command \in {"Q", "QUIT"}
                                          /\ CommandList[r.command].alias = "EXIT"
<1>1. Verdict(t, u, r) \in Verdicts
  BY DEF Verdict, Verdicts
<1>2. ASSUME Verdict(t, u, r) = "handled"
      PROVE  /\ r.command \in DOMAIN CommandList /\ CommandList[r.command].alias = None
             /\ (t.registered = REG_OK \/ CommandList[r.command].pre_reg_ok)
             /\ r.arg # "missing" /\ r.arg # "bad"
  BY <1>2 DEF Verdict
<1>3. ASSUME Verdict(t, u, r) = "alias"
      PROVE  r.command \in DOMAIN CommandList /\ CommandList[r.command].alias # None
  BY <1>3 DEF Verdict
<1>4. None # "EXIT"
  BY NoneAssumption
<1>5. ASSUME Verdict(t, u, r) = "handled"
      PROVE  /\ r.command \in Handled /\ (t.registered = REG_OK \/ r.command \in Free)
             /\ r.arg \notin {"missing", "bad"}
  BY <1>2, <1>4, <1>5, Listed
<1>6. ASSUME Verdict(t, u, r) = "alias"
      PROVE  r.command \in {"Q", "QUIT"} /\ CommandList[r.command].alias = "EXIT"
  BY <1>3, <1>6, Listed
<1> QED
  BY <1>1, <1>5, <1>6

(* What a handler may do to the record of the client whose command it is;  *)
(* to other records it does nothing that matters to their queues.          *)
Opening(t, x, r) ==
  /\ r.command = "MULTI" /\ KeepsLists(t, x) /\ KeepsBook(t, x) /\ KeepsLogin(t, x)
  /\ ~t.MultiRunning /\ ~x.MultiRunning /\ x.Multi /\ x.opened = r.id
  /\ t.registered = REG_OK

Closing(t, x, r) ==
  /\ r.command = "MULTIRESET" /\ KeepsLists(t, x) /\ KeepsBook(t, x) /\ KeepsLogin(t, x)
  /\ t.Multi /\ ~x.Multi /\ ~x.MultiRunning /\ x.opened = t.opened

LoggingIn(t, x, r) ==
  /\ r.command = "ILOGIN" /\ ~t.logged
  /\ \E y, z \in Records : \E a, b, c \in Requests :
       /\ a.id = r.id /\ b.id = r.id /\ c.id = r.id
       /\ a.command = "AGENT" /\ b.command = "AUTH" /\ c.command = "LOGIN"
       /\ AddTo(t, y, a) /\ AddTo(y, z, b) /\ AddTo(z, x, c)

Aliased(t, x, r) ==
  /\ r.command \in {"Q", "QUIT"}
  /\ \E a \in Requests : a.id = r.id /\ a.command = "EXIT" /\ AddTo(t, x, a)

Outcome(t, x, r) ==
  Quiet(t, x) \/ Opening(t, x, r) \/ Closing(t, x, r) \/ LoggingIn(t, x, r) \/ Aliased(t, x, r)

(* No step is a quiet one.                                                 *)
LEMMA QuietSelf ==
  ASSUME NEW t PROVE Quiet(t, t)
BY DEF Quiet, KeepsLists, KeepsRun, KeepsBook, KeepsPast

(* Fields no queue depends on.                                             *)
LEMMA Aside ==
  ASSUME NEW t \in Records, NEW b \in BOOLEAN, NEW n \in Nat, NEW w \in Words
  PROVE  /\ [t EXCEPT !.Locked = b] \in Records /\ Quiet(t, [t EXCEPT !.Locked = b])
         /\ [t EXCEPT !.Quitting = b] \in Records /\ Quiet(t, [t EXCEPT !.Quitting = b])
         /\ [t EXCEPT !.Paused = b] \in Records /\ Quiet(t, [t EXCEPT !.Paused = b])
         /\ [t EXCEPT !.resume = n] \in Records /\ Quiet(t, [t EXCEPT !.resume = n])
         /\ [t EXCEPT !.auth = w] \in Records /\ Quiet(t, [t EXCEPT !.auth = w])
         /\ [t EXCEPT !.logged = TRUE] \in Records /\ Quiet(t, [t EXCEPT !.logged = TRUE])
         /\ [t EXCEPT !.registered = @ \cup {"USER"}] \in Records
         /\ Quiet(t, [t EXCEPT !.registered = @ \cup {"USER"}])
<1> USE DEF Quiet, KeepsLists, KeepsRun, KeepsBook, KeepsPast
<1>1. [t EXCEPT !.Locked = b] \in Records /\ Quiet(t, [t EXCEPT !.Locked = b])
  BY DEF Records
<1>2. [t EXCEPT !.Quitting = b] \in Records /\ Quiet(t, [t EXCEPT !.Quitting = b])
  BY DEF Records
<1>3. [t EXCEPT !.Paused = b] \in Records /\ Quiet(t, [t EXCEPT !.Paused = b])
  BY DEF Records
<1>4. [t EXCEPT !.resume = n] \in Records /\ Quiet(t, [t EXCEPT !.resume = n])
  BY DEF Records
<1>5. [t EXCEPT !.auth = w] \in Records /\ Quiet(t, [t EXCEPT !.auth = w])
  BY DEF Records
<1>6. [t EXCEPT !.logged = TRUE] \in Records /\ Quiet(t, [t EXCEPT !.logged = TRUE])
  BY DEF Records
<1>7. ASSUME NEW x, x = [t EXCEPT !.registered = @ \cup {"USER"}]
      PROVE  x \in Records /\ Quiet(t, x)
  <2>1. t.registered \cup {"USER"} \in SUBSET REG_OK
    BY Fields DEF REG_OK, REG_LOGINUSER
  <2>2. x \in Records /\ x.registered = t.registered \cup {"USER"}
    BY <1>7, <2>1 DEF Records
  <2>3. /\ KeepsLists(t, x) /\ KeepsRun(t, x) /\ KeepsBook(t, x) /\ x.logged = t.logged
    BY <1>7 DEF Records
  <2>4. t.registered = REG_OK => x.registered = REG_OK
    BY <2>2 DEF REG_OK, REG_LOGINUSER
  <2>5. "LOGIN" \in x.registered => "LOGIN" \in t.registered
    BY <2>2
  <2> QED
    BY <2>2, <2>3, <2>4, <2>5
<1>8. /\ [t EXCEPT !.registered = @ \cup {"USER"}] \in Records
      /\ Quiet(t, [t EXCEPT !.registered = @ \cup {"USER"}])
  BY <1>7, Zenon
<1> QED
  BY <1>1, <1>2, <1>3, <1>4, <1>5, <1>6, <1>8, Zenon

(* Two quiet steps are a quiet one.                                        *)
LEMMA QuietTwice ==
  ASSUME NEW t, NEW y, NEW x, Quiet(t, y), Quiet(y, x)
  PROVE  Quiet(t, x)
BY DEF Quiet, KeepsLists, KeepsRun, KeepsBook, KeepsPast

(* A login lets the client in with the next tick, or ends the connection.  *)
LEMMA LoginShape ==
  ASSUME NEW s \in [Users -> Records], NEW u \in Users
  PROVE  /\ Login(s, u) \in [Users -> Records]
         /\ Quiet(s[u], Login(s, u)[u])
         /\ \A v \in Users : v # u => Login(s, u)[v] = s[v]
<1> DEFINE t == s[u]
           l == [t EXCEPT !.logged = TRUE]
           q == [l EXCEPT !.Quitting = TRUE]
           x == [t EXCEPT !.logged = TRUE, !.registered = @ \cup {"LOGIN"}]
<1>1. t \in Records /\ l \in Records /\ Quiet(t, l)
  BY Aside DEF Words
<1>2. q \in Records /\ Quiet(t, q)
  <2> HIDE DEF l
  <2>1. q \in Records /\ Quiet(l, q)
    BY <1>1, Aside DEF Words
  <2> HIDE DEF q
  <2> QED
    BY <1>1, <2>1, QuietTwice
<1>3. x \in Records /\ Quiet(t, x)
  <2> HIDE DEF t
  <2>1. t.registered \cup {"LOGIN"} \in SUBSET REG_OK
    BY <1>1, Fields DEF REG_OK, REG_LOGINUSER
  <2>2. x \in Records /\ x.registered = t.registered \cup {"LOGIN"} /\ x.logged
    BY <1>1, <2>1 DEF Records
  <2>3. KeepsLists(t, x) /\ KeepsRun(t, x) /\ KeepsBook(t, x)
    BY <1>1 DEF KeepsLists, KeepsRun, KeepsBook, KeepsPast, Records
  <2> HIDE DEF x
  <2>4. t.registered = REG_OK => x.registered = REG_OK
    BY <2>2 DEF REG_OK, REG_LOGINUSER
  <2> QED
    BY <2>2, <2>3, <2>4 DEF Quiet
<1>4. \/ Login(s, u) = s
      \/ Login(s, u) = [s EXCEPT ![u] = q]
      \/ Login(s, u) = [s EXCEPT ![u] = x]
  <2>1. Disconnect([s EXCEPT ![u].logged = TRUE], u) = [s EXCEPT ![u] = q]
    BY DEF Disconnect
  <2>2. [s EXCEPT ![u].logged = TRUE, ![u].registered = @ \cup {"LOGIN"}] = [s EXCEPT ![u] = x]
    OBVIOUS
  <2> HIDE DEF q, x
  <2> QED
    BY <2>1, <2>2 DEF Login
<1> HIDE DEF q, x
<1> QED
  BY <1>1, <1>2, <1>3, <1>4, QuietSelf

(* PAUSE and RESUME reach into the record of somebody else.                *)
LEMMA PauseShape ==
  ASSUME NEW s \in [Users -> Records], NEW u \in Users, NEW r \in Requests,
         r.command \in {"PAUSE", "RESUME"}, r.arg \notin {"missing", "bad"}
  PROVE  /\ Handle(s, u, r) \in [Users -> Records]
         /\ \A v \in Users : Quiet(s[v], Handle(s, u, r)[v])
<1> DEFINE w == r.arg[1]
           t == s[w]
           n == t.resume + (IF r.arg[2] THEN 1 ELSE 0)
           p == [t EXCEPT !.Paused = TRUE, !.resume = @ + (IF r.arg[2] THEN 1 ELSE 0)]
           g == [t EXCEPT !.Paused = FALSE]
<1>1. w \in Users /\ r.arg[2] \in BOOLEAN
  BY DEF Requests, Targets
<1>2. t \in Records /\ t.resume \in Nat /\ n \in Nat
  <2>1. t \in Records
    BY <1>1
  <2> QED
    BY <2>1, Fields
<1> HIDE DEF t
<1>3. g \in Records /\ Quiet(t, g)
  BY <1>2, Aside DEF Words
<1>4. p \in Records /\ Quiet(t, p)
  <2> DEFINE h == [t EXCEPT !.Paused = TRUE]
  <2>1. h \in Records /\ Quiet(t, h)
    BY <1>2, Aside DEF Words
  <2>2. [h EXCEPT !.resume = n] \in Records /\ Quiet(h, [h EXCEPT !.resume = n])
    <3> HIDE DEF h, n
    <3> QED
      BY <1>2, <2>1, Aside DEF Words
  <2>3. p = [h EXCEPT !.resume = n]
    BY <1>2 DEF Records
  <2> HIDE DEF h, n, p
  <2> QED
    BY <2>1, <2>2, <2>3, QuietTwice
<1>5. CASE r.command = "PAUSE"
  <2>1. Handle(s, u, r) = IF t.Quitting THEN s
          ELSE [s EXCEPT ![w].Paused = TRUE, ![w].resume = @ + (IF r.arg[2] THEN 1 ELSE 0)]
    BY <1>5 DEF Handle, t
  <2>2. [s EXCEPT ![w].Paused = TRUE, ![w].resume = @ + (IF r.arg[2] THEN 1 ELSE 0)]
          = [s EXCEPT ![w] = p]
    BY <1>1 DEF t
  <2>3. Handle(s, u, r) = s \/ Handle(s, u, r) = [s EXCEPT ![w] = p]
    <3> HIDE DEF p
    <3> QED
      BY <2>1, <2>2
  <2> HIDE DEF p
  <2> QED
    BY <1>1, <1>4, <2>3, QuietSelf DEF t
<1>6. CASE r.command = "RESUME"
  <2>1. Handle(s, u, r) = s \/ Handle(s, u, r) = [s EXCEPT ![w] = g]
    BY <1>1, <1>6 DEF Handle, t
  <2> HIDE DEF g
  <2> QED
    BY <1>1, <1>3, <2>1, QuietSelf DEF t
<1> QED
  BY <1>5, <1>6

(* ILOGIN queues its three commands unless its client has given a login.   *)
LEMMA ILoginShape ==
  ASSUME NEW s \in [Users -> Records], NEW u \in Users, NEW r \in Requests, r.command = "ILOGIN"
  PROVE  /\ ILogin(s, u, r) \in [Users -> Records]
         /\ Quiet(s[u], ILogin(s, u, r)[u]) \/ LoggingIn(s[u], ILogin(s, u, r)[u], r)
         /\ \A v \in Users : v # u => ILogin(s, u, r)[v] = s[v]
<1>1. CASE s[u].logged
  BY <1>1, QuietSelf DEF ILogin
<1>2. CASE ~s[u].logged
  <2> DEFINE a == [id |-> r.id, command |-> "AGENT", arg |-> "good"]
             b == [id |-> r.id, command |-> "AUTH", arg |-> r.arg]
             c == [id |-> r.id, command |-> "LOGIN", arg |-> "good"]
             y == Add(s, u, a)
             z == Add(y, u, b)
             x == Add(z, u, c)
  <2>1. a \in Requests /\ b \in Requests /\ c \in Requests
    BY DEF Requests, Words, Names
  <2>2. /\ a.id = r.id /\ b.id = r.id /\ c.id = r.id
        /\ a.command = "AGENT" /\ b.command = "AUTH" /\ c.command = "LOGIN"
    OBVIOUS
  <2>3. ILogin(s, u, r) = x
    BY <1>2 DEF ILogin
  <2> HIDE DEF a, b, c
  <2>4. /\ y \in [Users -> Records] /\ AddTo(s[u], y[u], a)
        /\ \A v \in Users : v # u => y[v] = s[v]
    BY <2>1, AddShape
  <2> HIDE DEF y
  <2>5. /\ z \in [Users -> Records] /\ AddTo(y[u], z[u], b)
        /\ \A v \in Users : v # u => z[v] = y[v]
    BY <2>1, <2>4, AddShape
  <2> HIDE DEF z
  <2>6. /\ x \in [Users -> Records] /\ AddTo(z[u], x[u], c)
        /\ \A v \in Users : v # u => x[v] = z[v]
    BY <2>1, <2>5, AddShape
  <2> HIDE DEF x
  <2>7. LoggingIn(s[u], x[u], r)
    <3>1. y[u] \in Records /\ z[u] \in Records
      BY <2>4, <2>5
    <3> QED
      BY <1>2, <2>1, <2>2, <2>4, <2>5, <2>6, <3>1 DEF LoggingIn
  <2> QED
    BY <2>3, <2>4, <2>5, <2>6, <2>7
<1> QED
  BY <1>1, <1>2

(* A handler.                                                              *)
LEMMA HandleShape ==
  ASSUME NEW s \in [Users -> Records], NEW u \in Users, NEW r \in Requests,
         r.command \in Handled, s[u].registered = REG_OK \/ r.command \in Free,
         r.arg \notin {"missing", "bad"}
  PROVE  /\ Handle(s, u, r) \in [Users -> Records]
         /\ Outcome(s[u], Handle(s, u, r)[u], r)
         /\ \A v \in Users : v # u => Quiet(s[v], Handle(s, u, r)[v])
<1> DEFINE t == s[u]
           y == Handle(s, u, r)
<1> SUFFICES /\ y \in [Users -> Records] /\ Outcome(t, y[u], r)
             /\ \A v \in Users : v # u => Quiet(s[v], y[v])
  OBVIOUS
<1>1. t \in Records
  OBVIOUS
<1>2. ASSUME NEW x \in Records, y = [s EXCEPT ![u] = x], Outcome(t, x, r)
      PROVE  /\ y \in [Users -> Records] /\ Outcome(t, y[u], r)
             /\ \A v \in Users : v # u => Quiet(s[v], y[v])
  <2>1. y \in [Users -> Records] /\ y[u] = x /\ \A v \in Users : v # u => y[v] = s[v]
    BY <1>2
  <2> HIDE DEF y, t
  <2> QED
    BY <1>2, <2>1, QuietSelf
<1>3. ASSUME y = s
      PROVE  /\ y \in [Users -> Records] /\ Outcome(t, y[u], r)
             /\ \A v \in Users : v # u => Quiet(s[v], y[v])
  <2> HIDE DEF y
  <2> QED
    BY <1>3, QuietSelf DEF Outcome
<1>4. CASE r.command = "MULTI"
  <2> DEFINE x == [t EXCEPT !.Multi = TRUE, !.opened = r.id]
  <2>1. CASE t.MultiRunning
    BY <1>3, <1>4, <2>1 DEF Handle
  <2>2. CASE ~t.MultiRunning
    <3>1. y = [s EXCEPT ![u] = x]
      BY <1>4, <2>2 DEF Handle
    <3> HIDE DEF y, t
    <3>2. /\ x \in Records /\ x.Multi /\ x.opened = r.id /\ ~x.MultiRunning
          /\ KeepsLists(t, x) /\ KeepsBook(t, x) /\ KeepsLogin(t, x)
      BY <1>1, <2>2 DEF Records, Requests, KeepsLists, KeepsBook, KeepsPast, KeepsLogin
    <3>3. t.registered = REG_OK
      BY <1>4 DEF Free, t
    <3> HIDE DEF x
    <3>4. Outcome(t, x, r)
      BY <1>4, <2>2, <3>2, <3>3 DEF Outcome, Opening
    <3> QED
      BY <1>2, <3>1, <3>2, <3>4
  <2> QED
    BY <2>1, <2>2
<1>5. CASE r.command = "MULTIRESET"
  <2> DEFINE x == [t EXCEPT !.Multi = FALSE, !.MultiRunning = FALSE]
  <2>1. CASE ~t.Multi
    BY <1>3, <1>5, <2>1 DEF Handle
  <2>2. CASE t.Multi
    <3>1. y = [s EXCEPT ![u] = x]
      BY <1>5, <2>2 DEF Handle
    <3> HIDE DEF y, t
    <3>2. /\ x \in Records /\ ~x.Multi /\ ~x.MultiRunning /\ x.opened = t.opened
          /\ KeepsLists(t, x) /\ KeepsBook(t, x) /\ KeepsLogin(t, x)
      BY <1>1, <2>2 DEF Records, KeepsLists, KeepsBook, KeepsPast, KeepsLogin
    <3> HIDE DEF x
    <3>3. Outcome(t, x, r)
      BY <1>5, <2>2, <3>2 DEF Outcome, Closing
    <3> QED
      BY <1>2, <3>1, <3>2, <3>3
  <2> QED
    BY <2>1, <2>2
<1>6. CASE r.command = "SET"
  <2> DEFINE x == [t EXCEPT !.Locked = TRUE]
  <2>1. y = [s EXCEPT ![u] = x]
    BY <1>6 DEF Handle
  <2>2. x \in Records /\ Quiet(t, x)
    BY <1>1, Aside DEF Words
  <2> HIDE DEF x, y
  <2> QED
    BY <1>2, <2>1, <2>2 DEF Outcome
<1>7. CASE r.command = "AGENT"
  <2> DEFINE x == [t EXCEPT !.registered = @ \cup {"USER"}]
  <2>1. y = [s EXCEPT ![u] = x]
    BY <1>7 DEF Handle
  <2>2. x \in Records /\ Quiet(t, x)
    BY <1>1, Aside DEF Words
  <2> HIDE DEF x, y
  <2> QED
    BY <1>2, <2>1, <2>2 DEF Outcome
<1>8. CASE r.command = "AUTH"
  <2> DEFINE x == [t EXCEPT !.auth = r.arg]
  <2>1. y = [s EXCEPT ![u] = x]
    BY <1>8 DEF Handle
  <2>2. x \in Records /\ Quiet(t, x)
    <3>1. r.arg \in Words
      BY DEF Requests
    <3> QED
      BY <1>1, <3>1, Aside
  <2> HIDE DEF x, y
  <2> QED
    BY <1>2, <2>1, <2>2 DEF Outcome
<1>9. CASE r.command = "EXIT"
  <2> DEFINE x == [t EXCEPT !.Quitting = TRUE]
  <2>1. y = [s EXCEPT ![u] = x]
    BY <1>9 DEF Handle, Disconnect
  <2>2. x \in Records /\ Quiet(t, x)
    BY <1>1, Aside DEF Words
  <2> HIDE DEF x, y
  <2> QED
    BY <1>2, <2>1, <2>2 DEF Outcome
<1>10. CASE r.command = "LOGIN"
  <2>1. y = Login(s, u)
    BY <1>10 DEF Handle
  <2> HIDE DEF y
  <2> QED
    BY <2>1, LoginShape, QuietSelf DEF Outcome, t
<1>11. CASE r.command = "ILOGIN"
  <2>1. y = ILogin(s, u, r)
    BY <1>11 DEF Handle
  <2> HIDE DEF y
  <2> QED
    BY <1>11, <2>1, ILoginShape, QuietSelf DEF Outcome, t
<1>12. CASE r.command \in {"PAUSE", "RESUME"}
  BY <1>12, PauseShape DEF Outcome
<1>13. CASE r.command \in {"MRUN", "PING", "PONG"}
  BY <1>3, <1>13 DEF Handle
<1> QED
  BY <1>4, <1>5, <1>6, <1>7, <1>8, <1>9, <1>10, <1>11, <1>12, <1>13 DEF Handled

(* Execute: an entry, and what comes of the command.                       *)
LEMMA ExecuteShape ==
  ASSUME NEW s \in [Users -> Records], NEW u \in Users, NEW r \in Requests, NEW opened \in Nat
  PROVE  \E e \in Entries, n \in Records :
           /\ e.id = r.id /\ e.command = r.command /\ e.opened = opened
           /\ e.verdict = "handled" /\ e.command \notin Free => s[u].registered = REG_OK
           /\ n = [s[u] EXCEPT !.done = Append(@, e)]
           /\ Execute(s, u, r, opened) \in [Users -> Records]
           /\ Outcome(n, Execute(s, u, r, opened)[u], r)
           /\ \A v \in Users : v # u => Quiet(s[v], Execute(s, u, r, opened)[v])
<1> DEFINE verdict == Verdict(s[u], u, r)
           e == [id |-> r.id, command |-> r.command, verdict |-> verdict, opened |-> opened]
           n == [s[u] EXCEPT !.done = Append(@, e)]
           noted == [s EXCEPT ![u].done = Append(@, e)]
           a == [r EXCEPT !.command = CommandList[r.command].alias]
           y == Execute(s, u, r, opened)
<1>1. y = CASE verdict = "handled" -> Handle(noted, u, r)
            [] verdict = "alias" -> Add(noted, u, a)
            [] OTHER -> noted
  BY DEF Execute
<1>2. e \in Entries /\ e.id = r.id /\ e.command = r.command /\ e.opened = opened /\ e.verdict = verdict
  BY Gates DEF Entries, Requests
<1>3. e.verdict = "handled" => /\ r.command \in Handled
                               /\ s[u].registered = REG_OK \/ r.command \in Free
                               /\ r.arg \notin {"missing", "bad"}
  BY Gates
<1>4. verdict = "alias" => r.command \in {"Q", "QUIT"} /\ a \in Requests /\ a.id = r.id /\ a.command = "EXIT"
  BY Gates DEF Requests, Names
<1> HIDE DEF e, a, verdict, y
<1>5. s[u] \in Records /\ Append(s[u].done, e) \in Seq(Entries)
  <2>1. s[u] \in Records
    OBVIOUS
  <2> QED
    BY <1>2, <2>1, Fields, Appended
<1>6. n \in Records /\ n.registered = s[u].registered
  <2> DEFINE t == s[u]
  <2> HIDE DEF t
  <2>1. [t EXCEPT !.done = Append(@, e)] \in Records
        /\ [t EXCEPT !.done = Append(@, e)].registered = t.registered
    BY <1>5 DEF Records, t
  <2> QED
    BY <2>1 DEF t
<1>7. noted = [s EXCEPT ![u] = n]
  OBVIOUS
<1> HIDE DEF n, noted
<1>8. noted \in [Users -> Records] /\ noted[u] = n /\ \A v \in Users : v # u => noted[v] = s[v]
  BY <1>6, <1>7
<1>9. /\ y \in [Users -> Records] /\ Outcome(n, y[u], r)
      /\ \A v \in Users : v # u => Quiet(s[v], y[v])
  <2>1. CASE verdict = "handled"
    <3>1. y = Handle(noted, u, r)
      BY <1>1, <2>1
    <3> QED
      BY <1>2, <1>3, <1>6, <1>8, <2>1, <3>1, HandleShape
  <2>2. CASE verdict = "alias"
    <3>1. y = Add(noted, u, a)
      BY <1>1, <2>2
    <3>2. /\ y \in [Users -> Records] /\ AddTo(n, y[u], a)
          /\ \A v \in Users : v # u => y[v] = s[v]
      BY <1>4, <1>8, <2>2, <3>1, AddShape
    <3> QED
      BY <1>4, <2>2, <3>2, QuietSelf DEF Outcome, Aliased
  <2>3. CASE verdict # "handled" /\ verdict # "alias"
    <3>1. y = noted
      BY <1>1, <2>3
    <3> QED
      BY <1>8, <3>1, QuietSelf DEF Outcome
  <2> QED
    BY <2>1, <2>2, <2>3
<1>10. e.verdict = "handled" /\ e.command \notin Free => s[u].registered = REG_OK
  BY <1>2, <1>3
<1> QED
  BY <1>2, <1>6, <1>9, <1>10 DEF y, n

-----------------------------------------------------------------------------
(* The invariant of the whole: every record is good.  The states of a pass *)
(* are such functions, too.                                                *)
GoodUsers == {s \in [Users -> Records] : \A u \in Users : Good(s[u])}

(* A step that is quiet for all users but one, whose record is good.       *)
LEMMA QuietUser ==
  ASSUME NEW s \in GoodUsers, NEW y \in [Users -> Records], NEW u \in Users, Good(y[u]),
         \A v \in Users : v # u => Quiet(s[v], y[v])
  PROVE  y \in GoodUsers
<1> SUFFICES ASSUME NEW v \in Users, v # u PROVE Good(y[v])
  BY DEF GoodUsers
<1>1. s[v] \in Records /\ y[v] \in Records /\ Good(s[v])
  BY DEF GoodUsers
<1> QED
  BY <1>1, QuietGood

(* A command that can stand at the head of the list, once it has been      *)
(* entered: what the handler does keeps the record good.  A MULTI is new,  *)
(* because no line is executed twice, and older requests that wait in the  *)
(* transaction were left there by a MULTIRESET.                            *)
LEMMA HeadGood ==
  ASSUME NEW t \in Records, NEW n \in Records, NEW x \in Records, NEW e \in Entries,
         Good(t), TakesList(t, n, e), Outcome(n, x, Head(t.PendingList))
  PROVE  Good(x)
<1> DEFINE r == Head(t.PendingList)
           y == Tail(t.PendingList)
<1>1. /\ r \in Requests /\ Range(t.PendingList) = Range(y) \cup {r}
      /\ Range(n.done) = Range(t.done) \cup {e} /\ t.PendingList # <<>>
      /\ t.PendingList \in Seq(Requests) /\ t.done \in Seq(Entries)
  <2>1. n.done = Append(t.done, e) /\ t.PendingList # <<>>
    BY DEF TakesList, Enters
  <2>2. t.PendingList \in Seq(Requests) /\ t.done \in Seq(Entries)
    BY Fields
  <2> QED
    BY <2>1, <2>2, Popped, Appended
<1>2. /\ n.PendingList = y /\ n.PendingMulti = t.PendingMulti /\ n.lines = t.lines
      /\ n.Multi = t.Multi /\ n.MultiRunning = t.MultiRunning /\ n.opened = t.opened
      /\ e.id = r.id /\ e.command = r.command /\ e.opened = 0
  BY DEF TakesList, Enters, KeepsRun
<1>3. Good(n)
  BY TakesListGood
<1>4. Stems(r, t.lines) /\ r.id \in 1 .. Len(t.lines) /\ DOMAIN t.lines = 1 .. Len(t.lines)
  BY <1>1, Numbers, Fields DEF Good
<1> HIDE DEF r, y
<1>5. CASE Quiet(n, x)
  BY <1>3, <1>5, QuietGood
<1>6. CASE Opening(n, x, r)
  <2>1. ~t.MultiRunning /\ r.command = "MULTI" /\ t.lines[r.id] = "MULTI"
    BY <1>2, <1>4, <1>6 DEF Opening, Stems, LoginSteps
  <2>2. r.id \in Ids(n.done)
    <3>1. Ids(n.done) = {f.id : f \in Range(n.done)}
      BY Fields, RangeTyped
    <3> QED
      BY <1>1, <1>2, <3>1
  <2>3. r.id \notin Ids(t.done)
    <3>1. r.id \in Ids(t.PendingList)
      <4>1. Ids(t.PendingList) = {f.id : f \in Range(t.PendingList)}
        BY Fields, RangeTyped
      <4> QED
        BY <1>1, <4>1
    <3>2. /\ Hits(t.PendingList, r.id) \in Nat /\ Hits(t.PendingMulti, r.id) \in Nat
          /\ Hits(t.done, r.id) \in Nat
          /\ One(t.refused, r.id) \in Nat /\ One(t.cleared, r.id) \in Nat
          /\ Hits(t.PendingList, r.id) # 0
          /\ Hits(t.done, r.id) = 0 <=> r.id \notin Ids(t.done)
      BY <3>1, Fields, HitsTyped DEF One
    <3>3. Hits(t.PendingList, r.id) + Hits(t.PendingMulti, r.id) + Hits(t.done, r.id)
            + One(t.refused, r.id) + One(t.cleared, r.id) = 1
      BY <1>4, <2>1 DEF Good, Counted, Requeued
    <3> QED
      BY <3>2, <3>3
  <2>4. \A f \in Range(n.done) : f.opened # r.id
    <3>1. r.id > 0
      BY <1>4, Fields
    <3>2. \A f \in Range(t.done) : f.opened > 0 => f.opened \in Ids(t.done)
      BY DEF Good, Together
    <3> QED
      BY <1>1, <1>2, <2>3, <3>1, <3>2
  <2>5. \A p \in Range(n.PendingMulti) : p.id < r.id => Exempt(p, n.lines)
    BY <1>1, <1>2, <2>1 DEF Good, Separate
  <2>6. Simple(n.lines) => n.Multi \/ \A p \in Range(n.PendingList) : p.command # "MRUN"
    <3> SUFFICES ASSUME Simple(t.lines), NEW k \in DOMAIN y, y[k].command = "MRUN"
                 PROVE  t.Multi
      BY <1>2 DEF Range
    <3> DEFINE m == Len(t.PendingList)
    <3>1. /\ m \in Nat \ {0} /\ DOMAIN t.PendingList = 1 .. m /\ DOMAIN y = 1 .. m - 1
          /\ r = t.PendingList[1] /\ \A i \in 1 .. m - 1 : y[i] = t.PendingList[i + 1]
      BY <1>1, Popped DEF y, r
    <3> HIDE DEF m
    <3>2. 1 \in 1 .. m /\ k + 1 \in 1 .. m /\ 1 < k + 1 /\ y[k] = t.PendingList[k + 1]
      BY <3>1
    <3> QED
      BY <2>1, <3>1, <3>2 DEF Good, Lined
  <2>7. Opens(n, x)
    BY <1>2, <1>4, <1>6, <2>1, <2>2, <2>4, <2>5, <2>6 DEF Opens, Opening
  <2> QED
    BY <1>3, <2>7, OpensGood
<1>7. CASE Closing(n, x, r)
  <2>1. r.command = "MULTIRESET" /\ t.lines[r.id] = "MULTIRESET"
    BY <1>4, <1>7 DEF Closing, Stems, LoginSteps
  <2>2. \A p \in Range(n.PendingMulti) : Exempt(p, n.lines)
    BY <1>1, <1>2, <2>1 DEF Good, Separate
  <2>3. "MULTIRESET" \in Range(n.lines)
    BY <1>2, <1>4, <2>1 DEF Range
  <2>4. Closes(n, x)
    BY <1>7, <2>2, <2>3 DEF Closes, Closing
  <2> QED
    BY <1>3, <2>4, ClosesGood
<1>8. CASE LoggingIn(n, x, r)
  <2>1. t.lines[r.id] = "ILOGIN" /\ ~n.logged
    BY <1>4, <1>8 DEF LoggingIn, Stems, LoginSteps
  <2>2. ~n.Multi
    BY <1>3, <2>1 DEF Good, Entitled, REG_OK, REG_LOGINUSER
  <2>3. PICK z \in Records, w \in Records, a \in Requests, b \in Requests, c \in Requests :
          /\ a.id = r.id /\ b.id = r.id /\ c.id = r.id
          /\ a.command = "AGENT" /\ b.command = "AUTH" /\ c.command = "LOGIN"
          /\ AddTo(n, z, a) /\ AddTo(z, w, b) /\ AddTo(w, x, c)
    BY <1>8 DEF LoggingIn
  <2>4. /\ z.lines = t.lines /\ w.lines = t.lines /\ n.lines = t.lines
        /\ ~z.Multi /\ ~w.Multi
    BY <1>2, <2>2, <2>3 DEF AddTo
  <2>5. Returns(n, n, a) /\ Returns(z, z, b) /\ Returns(w, w, c)
    BY <1>4, <2>1, <2>2, <2>3, <2>4 DEF Returns, LoginSteps
  <2>6. Good(z)
    BY <1>3, <2>3, <2>5, AgainGood
  <2>7. Good(w)
    BY <2>3, <2>5, <2>6, AgainGood
  <2> QED
    BY <2>3, <2>5, <2>7, AgainGood
<1>9. CASE Aliased(n, x, r)
  <2>1. PICK a \in Requests : a.id = r.id /\ a.command = "EXIT" /\ AddTo(n, x, a)
    BY <1>9 DEF Aliased
  <2>2. t.lines[r.id] \in {"Q", "QUIT"}
    BY <1>4, <1>9 DEF Aliased, Stems, LoginSteps
  <2>3. Returns(n, n, a)
    BY <1>2, <1>4, <2>1, <2>2 DEF Returns
  <2> QED
    BY <1>3, <2>1, <2>3, AgainGood
<1> QED
  BY <1>5, <1>6, <1>7, <1>8, <1>9 DEF Outcome, r

(* RunHead.                                                                *)
LEMMA RunHeadGood ==
  ASSUME NEW s \in GoodUsers, NEW u \in Users, s[u].PendingList # <<>>,
         s[u].MultiRunning => Head(s[u].PendingList).command = "PONG"
  PROVE  RunHead(s, u) \in GoodUsers
<1> DEFINE t == s[u]
           r == Head(t.PendingList)
           p == [t EXCEPT !.PendingList = Tail(@)]
           q == [s EXCEPT ![u] = p]
           y == Execute(q, u, r, 0)
<1>1. RunHead(s, u) = y
  BY DEF RunHead
<1>2. t \in Records /\ Good(t) /\ s \in [Users -> Records]
  BY DEF GoodUsers
<1>3. r \in Requests /\ Tail(t.PendingList) \in Seq(Requests)
  BY <1>2, Fields, Popped
<1> HIDE DEF t
<1>4. /\ p \in Records /\ p.PendingList = Tail(t.PendingList) /\ p.PendingMulti = t.PendingMulti
      /\ KeepsRun(t, p) /\ KeepsLogin(t, p) /\ KeepsBook(t, p)
  BY <1>2, <1>3 DEF Records, KeepsRun, KeepsLogin, KeepsBook, KeepsPast
<1> HIDE DEF p
<1>5. q \in [Users -> Records] /\ q[u] = p /\ \A v \in Users : v # u => q[v] = s[v]
  BY <1>2, <1>4 DEF t
<1> HIDE DEF q, r
<1>6. PICK e \in Entries, n \in Records :
           /\ e.id = r.id /\ e.command = r.command /\ e.opened = 0
           /\ e.verdict = "handled" /\ e.command \notin Free => q[u].registered = REG_OK
           /\ n = [q[u] EXCEPT !.done = Append(@, e)]
           /\ y \in [Users -> Records]
           /\ Outcome(n, y[u], r)
           /\ \A v \in Users : v # u => Quiet(q[v], y[v])
  BY <1>3, <1>5, ExecuteShape
<1> HIDE DEF y
<1>7. TakesList(t, n, e)
  <2>1. n = [p EXCEPT !.done = Append(@, e)]
    BY <1>5, <1>6
  <2>2. /\ n.done = Append(p.done, e) /\ KeepsLists(p, n) /\ KeepsRun(p, n) /\ KeepsLogin(p, n)
        /\ n.lines = p.lines /\ n.refused = p.refused /\ n.cleared = p.cleared
    BY <1>4, <2>1 DEF Records, KeepsLists, KeepsRun, KeepsLogin
  <2>3. e.verdict = "handled" /\ e.command \notin Free => t.registered = REG_OK
    BY <1>4, <1>5, <1>6 DEF KeepsLogin
  <2>4. t.MultiRunning => e.command = "PONG"
    BY <1>6 DEF t, r
  <2>5. t.PendingList # <<>>
    BY DEF t
  <2> QED
    BY <1>4, <1>6, <2>2, <2>3, <2>4, <2>5
    DEF TakesList, Enters, KeepsLists, KeepsRun, KeepsLogin, KeepsBook, KeepsPast, r
<1>8. Good(y[u])
  BY <1>2, <1>6, <1>7, HeadGood DEF r
<1> QED
  BY <1>1, <1>5, <1>6, <1>8, QuietUser

(* RunMulti: what waits in a transaction is no command of transactions, so *)
(* that executing it does not touch the queue it is taken from.            *)
LEMMA RunMultiGood ==
  ASSUME NEW s \in GoodUsers, NEW u \in Users, s[u].MultiRunning
  PROVE  RunMulti(s, u) \in GoodUsers
<1> DEFINE t == s[u]
           r == Head(t.PendingMulti)
           y == Execute(s, u, r, t.opened)
<1>1. t \in Records /\ Good(t) /\ s \in [Users -> Records] /\ t.opened \in Nat
  BY Fields DEF GoodUsers
<1>2. CASE t.PendingMulti = <<>>
  <2> DEFINE x == [t EXCEPT !.MultiRunning = FALSE]
  <2>1. RunMulti(s, u) = [s EXCEPT ![u] = x]
    BY <1>2 DEF RunMulti
  <2>2. t.MultiRunning
    OBVIOUS
  <2> HIDE DEF t
  <2>3. x \in Records /\ Ends(t, x)
    BY <1>1, <1>2, <2>2 DEF Records, Ends, KeepsLists, KeepsBook, KeepsPast, KeepsLogin
  <2> HIDE DEF x
  <2>4. Good(x)
    BY <1>1, <2>3, EndsGood
  <2>5. /\ [s EXCEPT ![u] = x] \in [Users -> Records] /\ [s EXCEPT ![u] = x][u] = x
        /\ \A v \in Users : v # u => Quiet(s[v], [s EXCEPT ![u] = x][v])
    BY <1>1, <2>3, QuietSelf
  <2> QED
    BY <2>1, <2>4, <2>5, QuietUser
<1>3. CASE t.PendingMulti # <<>>
  <2>1. RunMulti(s, u) = [y EXCEPT ![u].PendingMulti = Tail(@)]
    BY <1>3 DEF RunMulti
  <2>2. /\ r \in Requests /\ Tail(t.PendingMulti) \in Seq(Requests)
        /\ r \in Range(t.PendingMulti)
    BY <1>1, <1>3, Fields, Popped
  <2>3. /\ r.command \notin {"MULTI", "MRUN", "PONG", "MULTIRESET"} /\ Stems(r, t.lines)
        /\ ~t.Multi /\ t.registered = REG_OK /\ t.logged
    BY <2>2 DEF Good, GoodUsers, Known, Together, Entitled, REG_OK, REG_LOGINUSER
  <2>4. t.MultiRunning
    OBVIOUS
  <2>5. PICK e \in Entries, n \in Records :
           /\ e.id = r.id /\ e.command = r.command /\ e.opened = t.opened
           /\ e.verdict = "handled" /\ e.command \notin Free => t.registered = REG_OK
           /\ n = [t EXCEPT !.done = Append(@, e)]
           /\ y \in [Users -> Records]
           /\ Outcome(n, y[u], r)
           /\ \A v \in Users : v # u => Quiet(s[v], y[v])
    BY <1>1, <2>2, ExecuteShape
  <2> DEFINE z == y[u]
             x == [z EXCEPT !.PendingMulti = Tail(@)]
             m == [n EXCEPT !.PendingMulti = Tail(@)]
  <2> HIDE DEF t, r, y
  <2>6. /\ n.done = Append(t.done, e) /\ KeepsLists(t, n) /\ KeepsRun(t, n) /\ KeepsLogin(t, n)
        /\ n.lines = t.lines /\ n.refused = t.refused /\ n.cleared = t.cleared
        /\ n.Quitting = t.Quitting
    BY <1>1, <2>5 DEF Records, KeepsLists, KeepsRun, KeepsLogin
  <2>7. /\ m \in Records /\ m.PendingMulti = Tail(t.PendingMulti) /\ m.PendingList = n.PendingList
        /\ KeepsRun(n, m) /\ KeepsLogin(n, m) /\ KeepsBook(n, m) /\ m.Quitting = n.Quitting
    <3>1. n.PendingMulti = t.PendingMulti /\ n \in Records
      BY <2>5, <2>6 DEF KeepsLists
    <3> QED
      BY <2>2, <3>1 DEF Records, KeepsRun, KeepsLogin, KeepsBook, KeepsPast
  <2>8. TakesMulti(t, m, e)
    <3>1. KeepsRun(t, m) /\ KeepsLogin(t, m)
      BY <2>6, <2>7 DEF KeepsRun, KeepsLogin
    <3>2. /\ m.lines = t.lines /\ m.refused = t.refused /\ m.cleared = t.cleared
          /\ m.done = Append(t.done, e)
      BY <2>6, <2>7 DEF KeepsBook, KeepsPast
    <3>3. m.PendingList = t.PendingList
      BY <2>6, <2>7 DEF KeepsLists
    <3>4. Enters(t, m, r, e)
      BY <2>5, <3>1, <3>2 DEF Enters
    <3> QED
      BY <1>3, <2>4, <2>5, <2>7, <3>3, <3>4 DEF TakesMulti, r
  <2>9. Good(m)
    BY <1>1, <2>7, <2>8, TakesMultiGood
  <2>10. z \in Records
    BY <2>5
  <2> HIDE DEF m, z
  <2>11. Quiet(n, z) \/ Aliased(n, z, r)
    BY <2>3, <2>5, <2>6 DEF Outcome, Opening, Closing, LoggingIn, KeepsLogin, z
  <2>12. z.PendingMulti = t.PendingMulti
    <3>1. CASE Quiet(n, z)
      BY <2>6, <3>1 DEF Quiet, KeepsLists
    <3>2. CASE Aliased(n, z, r)
      BY <2>3, <2>6, <3>2 DEF Aliased, AddTo, KeepsLists, KeepsRun
    <3> QED
      BY <2>11, <3>1, <3>2
  <2>13. /\ x \in Records /\ x.PendingMulti = Tail(t.PendingMulti) /\ x.PendingList = z.PendingList
         /\ KeepsRun(z, x) /\ KeepsLogin(z, x) /\ KeepsBook(z, x)
    BY <2>2, <2>10, <2>12 DEF Records, KeepsRun, KeepsLogin, KeepsBook, KeepsPast
  <2> HIDE DEF x
  <2>14. Good(x)
    <3>1. CASE Quiet(n, z)
      <4>1. Quiet(m, x)
        BY <2>7, <2>13, <3>1 DEF Quiet, KeepsLists, KeepsRun, KeepsLogin, KeepsBook, KeepsPast
      <4> QED
        BY <2>7, <2>9, <2>13, <4>1, QuietGood
    <3>2. CASE Aliased(n, z, r)
      <4>1. PICK a \in Requests : a.id = r.id /\ a.command = "EXIT" /\ AddTo(n, z, a)
        BY <3>2 DEF Aliased
      <4>2. ~n.Multi
        BY <2>3, <2>6 DEF KeepsRun
      <4>3. AddTo(m, x, a)
        BY <2>7, <2>13, <4>1, <4>2
        DEF AddTo, KeepsLists, KeepsRun, KeepsLogin, KeepsBook, KeepsPast
      <4>4. Returns(m, m, a)
        <5>1. m.lines = t.lines
          BY <2>6, <2>7 DEF KeepsBook
        <5>2. t.lines[r.id] \in {"Q", "QUIT"} /\ r.id \in 1 .. Len(t.lines)
          BY <2>3, <3>2 DEF Aliased, Stems, LoginSteps
        <5> QED
          BY <4>1, <5>1, <5>2 DEF Returns
      <4> QED
        BY <2>7, <2>9, <2>13, <4>3, <4>4, AgainGood
    <3> QED
      BY <2>11, <3>1, <3>2
  <2>15. RunMulti(s, u) = [y EXCEPT ![u] = x]
    BY <2>1 DEF x, z
  <2>16. /\ [y EXCEPT ![u] = x] \in [Users -> Records] /\ [y EXCEPT ![u] = x][u] = x
         /\ \A v \in Users : v # u => Quiet(s[v], [y EXCEPT ![u] = x][v])
    BY <2>5, <2>13
  <2> QED
    BY <2>14, <2>15, <2>16, QuietUser
<1> QED
  BY <1>2, <1>3

(* The turn of one client: CommandQueue::Flush takes the head of its list, *)
(* starts the transaction when that is MRUN, or goes on with the one that  *)
(* runs.                                                                   *)
LEMMA TurnGood ==
  ASSUME NEW st, st.user \in GoodUsers, NEW u \in Users
  PROVE  Turn(st, u).user \in GoodUsers
<1> DEFINE s == st.user
           t == s[u]
           head == Head(t.PendingList)
           x == [t EXCEPT !.MultiRunning = TRUE, !.Multi = FALSE]
           q == IF t.Multi /\ head.command = "MRUN"
                THEN [s EXCEPT ![u].MultiRunning = TRUE, ![u].Multi = FALSE] ELSE s
           next == IF head.command # "PONG" /\ q[u].MultiRunning THEN RunMulti(q, u)
                   ELSE RunHead(s, u)
<1>1. Turn(st, u) = IF st.stop \/ ~Due(t) THEN st
                    ELSE [user |-> next, stop |-> head.command = "PONG" \/ next[u].Quitting]
  BY Zenon DEF Turn
<1>2. s \in GoodUsers /\ s \in [Users -> Records] /\ t \in Records /\ Good(t)
  BY DEF GoodUsers
<1> HIDE DEF next, s
<1>3. CASE st.stop \/ ~Due(t)
  BY <1>1, <1>2, <1>3 DEF s
<1>4. CASE ~(st.stop \/ ~Due(t))
  <2>1. t.PendingList # <<>>
    BY <1>4 DEF Due
  <2>2. q \in GoodUsers /\ q[u].PendingList = t.PendingList
    <3>1. CASE t.Multi /\ head.command = "MRUN"
      <4>1. q = [s EXCEPT ![u] = x]
        BY <1>2, <3>1
      <4> HIDE DEF q, t
      <4>2. x \in Records /\ Starts(t, x) /\ x.PendingList = t.PendingList
        BY <1>2, <2>1, <3>1 DEF Records, Starts, KeepsLists, KeepsBook, KeepsPast, KeepsLogin
      <4> HIDE DEF x
      <4>3. Good(x)
        BY <1>2, <4>2, StartsGood
      <4>4. /\ q \in [Users -> Records] /\ q[u] = x
            /\ \A v \in Users : v # u => q[v] = s[v]
        BY <1>2, <4>1, <4>2
      <4> QED
        BY <1>2, <4>2, <4>3, <4>4, QuietSelf, QuietUser
    <3>2. CASE ~(t.Multi /\ head.command = "MRUN")
      BY <1>2, <3>2
    <3> QED
      BY <3>1, <3>2
  <2>3. t.MultiRunning => q[u].MultiRunning
    <3>1. ~(t.Multi /\ t.MultiRunning)
      BY <1>2 DEF Good, Together
    <3> QED
      BY <3>1
  <2> HIDE DEF q
  <2>4. next \in GoodUsers
    <3>1. CASE head.command # "PONG" /\ q[u].MultiRunning
      <4>1. next = RunMulti(q, u)
        BY <3>1 DEF next
      <4> QED
        BY <2>2, <3>1, <4>1, RunMultiGood
    <3>2. CASE ~(head.command # "PONG" /\ q[u].MultiRunning)
      <4>1. next = RunHead(s, u)
        BY <3>2 DEF next
      <4>2. t.MultiRunning => head.command = "PONG"
        BY <2>3, <3>2
      <4> QED
        BY <1>2, <2>1, <4>1, <4>2, RunHeadGood
    <3> QED
      BY <3>1, <3>2
  <2>5. Turn(st, u).user = next
    BY <1>1, <1>4
  <2> QED
    BY <2>4, <2>5
<1> QED
  BY <1>3, <1>4

(* The pass of CommandQueue::Flush over local_users, client by client.     *)
LEMMA PassGood ==
  ASSUME user \in GoodUsers
  PROVE  Flushed \in GoodUsers
<1> DEFINE N == Len(Order)
           T == {n \in Nat : n <= N => Pass[n].user \in GoodUsers}
<1>1. N \in Nat /\ \A n \in 1 .. N : Order[n] \in Users
  BY OrderAssumption, ElementOfSeq, LenProperties
<1>2. Pass[0] = [user |-> user, stop |-> FALSE]
  BY <1>1, PassIs
<1>3. \A n \in 1 .. N : Pass[n] = Turn(Pass[n - 1], Order[n])
  <2> SUFFICES ASSUME NEW n \in 1 .. N PROVE Pass[n] = Turn(Pass[n - 1], Order[n])
    OBVIOUS
  <2> HIDE DEF N
  <2>1. n \in 0 .. N /\ n # 0
    BY <1>1
  <2>2. Pass[n] = IF n = 0 THEN [user |-> user, stop |-> FALSE] ELSE Turn(Pass[n - 1], Order[n])
    BY <2>1, PassIs, Zenon DEF N
  <2> QED
    BY <2>1, <2>2
<1> HIDE DEF N
<1>4. 0 \in T
  BY <1>2
<1>5. ASSUME NEW n \in T PROVE n + 1 \in T
  <2> SUFFICES ASSUME n + 1 <= N PROVE Pass[n + 1].user \in GoodUsers
    OBVIOUS
  <2>1. n \in Nat /\ n + 1 \in 1 .. N /\ (n + 1) - 1 = n /\ n <= N
    BY <1>1
  <2>2. Pass[n].user \in GoodUsers
    BY <2>1
  <2>3. Pass[n + 1] = Turn(Pass[n], Order[n + 1])
    BY <1>3, <2>1
  <2> QED
    BY <1>1, <2>1, <2>2, <2>3, TurnGood
<1>6. T = Nat
  <2>1. T \subseteq Nat
    OBVIOUS
  <2> HIDE DEF T
  <2> QED
    BY <1>4, <1>5, <2>1, Climb
<1> QED
  BY <1>1, <1>6 DEF Flushed, N

-----------------------------------------------------------------------------
(* The inductive invariant, and the steps of Next.                         *)
QInv == Ready \in BOOLEAN /\ user \in GoodUsers

(* A step that changes one record at most, and that one quietly.           *)
LEMMA OneUser ==
  ASSUME NEW s \in GoodUsers, NEW u \in Users, NEW x \in Records, Good(x)
  PROVE  [s EXCEPT ![u] = x] \in GoodUsers
<1> DEFINE y == [s EXCEPT ![u] = x]
<1>1. s \in [Users -> Records]
  BY DEF GoodUsers
<1>2. y \in [Users -> Records] /\ y[u] = x /\ \A v \in Users : v # u => y[v] = s[v]
  BY <1>1
<1> HIDE DEF y
<1> QED
  BY <1>2, QuietSelf, QuietUser DEF y

(* A step that looks at every record: each of the new ones is good.        *)
LEMMA EachUser ==
  ASSUME NEW y, y = [u \in Users |-> y[u]], \A u \in Users : y[u] \in Records /\ Good(y[u])
  PROVE  y \in GoodUsers
BY DEF GoodUsers

(* Receive: the line is numbered, parsed and added.                        *)
LEMMA ReceiveKeeps ==
  ASSUME QInv, NEW u \in Users, NEW c \in Menu[u], Receive(u, c)
  PROVE  QInv'
<1>1. user \in GoodUsers /\ user \in [Users -> Records] /\ Good(user[u]) /\ ~user[u].Quitting
  BY DEF QInv, GoodUsers, Receive
<1> DEFINE y == WithLine(user, u, c)
<1>2. user' = y
  BY DEF Receive, WithLine
<1>3. /\ y \in [Users -> Records] /\ Good(y[u])
      /\ \A v \in Users : v # u => y[v] = user[v]
  BY <1>1, ReceiveGood
<1> HIDE DEF y
<1>4. user' \in GoodUsers
  BY <1>1, <1>2, <1>3, QuietSelf, QuietUser
<1> QED
  BY <1>4 DEF QInv, GoodUsers, Receive

(* Answer: the client is unlocked.                                         *)
LEMMA AnswerKeeps ==
  ASSUME QInv, NEW u \in Users, Answer(u)
  PROVE  QInv'
<1> DEFINE t == user[u]
           x == [t EXCEPT !.Locked = FALSE]
<1>1. user \in GoodUsers /\ t \in Records /\ Good(t)
  BY DEF QInv, GoodUsers
<1>2. x \in Records /\ Quiet(t, x)
  BY <1>1, Aside DEF Words
<1>3. user' = [user EXCEPT ![u] = x]
  BY DEF Answer
<1> HIDE DEF x, t
<1>4. Good(x)
  BY <1>1, <1>2, QuietGood
<1>5. user' \in GoodUsers
  BY <1>1, <1>2, <1>3, <1>4, OneUser
<1> QED
  BY <1>5 DEF QInv, GoodUsers, Answer

(* Leave: the connection breaks.                                           *)
LEMMA LeaveKeeps ==
  ASSUME QInv, NEW u \in Users, Leave(u)
  PROVE  QInv'
<1> DEFINE t == user[u]
           x == [t EXCEPT !.Quitting = TRUE]
<1>1. user \in GoodUsers /\ t \in Records /\ Good(t)
  BY DEF QInv, GoodUsers
<1>2. x \in Records /\ Quiet(t, x)
  BY <1>1, Aside DEF Words
<1>3. user' = [user EXCEPT ![u] = x]
  BY DEF Leave, Disconnect
<1> HIDE DEF x, t
<1>4. Good(x)
  BY <1>1, <1>2, QuietGood
<1>5. user' \in GoodUsers
  BY <1>1, <1>2, <1>3, <1>4, OneUser
<1> QED
  BY <1>5 DEF QInv, GoodUsers, Leave

(* AutoResume: the timer of a PAUSE.                                       *)
LEMMA AutoResumeKeeps ==
  ASSUME QInv, NEW u \in Users, AutoResume(u)
  PROVE  QInv'
<1> DEFINE t == user[u]
           x == [t EXCEPT !.resume = @ - 1, !.Paused = @ /\ t.Quitting]
<1>1. user \in GoodUsers /\ t \in Records /\ Good(t)
  BY DEF QInv, GoodUsers
<1>2. t.resume \in Nat /\ t.resume > 0 /\ t.Paused \in BOOLEAN /\ t.Quitting \in BOOLEAN
  BY <1>1, Fields DEF AutoResume
<1>3. user' = [user EXCEPT ![u] = x]
  BY DEF AutoResume
<1> HIDE DEF t
<1>4. t.resume - 1 \in Nat /\ (t.Paused /\ t.Quitting) \in BOOLEAN
  BY <1>2
<1>5. x \in Records /\ Quiet(t, x)
  BY <1>1, <1>4 DEF Records, Quiet, KeepsLists, KeepsRun, KeepsBook, KeepsPast
<1> HIDE DEF x
<1>6. Good(x)
  BY <1>1, <1>5, QuietGood
<1>7. user' \in GoodUsers
  BY <1>1, <1>3, <1>5, <1>6, OneUser
<1> QED
  BY <1>7 DEF QInv, GoodUsers, AutoResume

(* Flush: the pass over the clients.                                       *)
LEMMA FlushKeeps ==
  ASSUME QInv, Flush
  PROVE  QInv'
<1>1. Flushed \in GoodUsers
  BY PassGood DEF QInv
<1>2. user' = Flushed /\ UNCHANGED Ready
  BY DEF Flush
<1> QED
  BY <1>1, <1>2 DEF QInv, GoodUsers

(* Register: clients with a name and a login are let in; they have been    *)
(* logged in before.                                                       *)
LEMMA RegisterKeeps ==
  ASSUME QInv, Register
  PROVE  QInv'
<1>1. ASSUME NEW u \in Users PROVE user'[u] \in Records /\ Good(user'[u])
  <2> DEFINE t == user[u]
             x == [t EXCEPT !.registered = REG_OK]
  <2>1. t \in Records /\ Good(t)
    BY DEF QInv, GoodUsers
  <2>2. user'[u] = IF t.registered = REG_LOGINUSER /\ ~t.Quitting THEN x ELSE t
    BY DEF Register
  <2> HIDE DEF t
  <2>3. x \in Records /\ x.registered = REG_OK /\ KeepsLists(t, x) /\ KeepsRun(t, x)
        /\ KeepsBook(t, x) /\ x.logged = t.logged
    BY <2>1 DEF Records, KeepsLists, KeepsRun, KeepsBook, KeepsPast
  <2> HIDE DEF x
  <2>4. CASE t.registered = REG_LOGINUSER /\ ~t.Quitting
    <3>1. "LOGIN" \in t.registered
      BY <2>4 DEF REG_LOGINUSER
    <3>2. Quiet(t, x)
      BY <2>3, <3>1 DEF Quiet
    <3> QED
      BY <2>1, <2>2, <2>3, <2>4, <3>2, QuietGood
  <2>5. CASE ~(t.registered = REG_LOGINUSER /\ ~t.Quitting)
    BY <2>1, <2>2, <2>5
  <2> QED
    BY <2>4, <2>5
<1>2. user' = [u \in Users |-> user'[u]]
  BY DEF Register
<1>3. user' \in GoodUsers
  BY <1>1, <1>2, EachUser
<1> QED
  BY <1>3 DEF QInv, GoodUsers, Register

(* PrepareExit: the lists are emptied.                                     *)
LEMMA PrepareExitKeeps ==
  ASSUME QInv, PrepareExit
  PROVE  QInv'
<1>1. ASSUME NEW u \in Users PROVE user'[u] \in Records /\ Good(user'[u])
  <2> DEFINE t == user[u]
             none == <<>>
             gone == t.cleared \cup Ids(t.PendingList)
             x == [t EXCEPT !.PendingList = none, !.cleared = gone]
  <2>1. t \in Records /\ Good(t)
    BY DEF QInv, GoodUsers
  <2>2. user'[u] = IF t.Quitting THEN t ELSE x
    BY DEF PrepareExit
  <2> HIDE DEF t
  <2>3. gone \in SUBSET Nat
    <3>1. Ids(t.PendingList) = {e.id : e \in Range(t.PendingList)}
          /\ \A e \in Range(t.PendingList) : e \in Requests
      BY <2>1, Fields, RangeTyped
    <3> QED
      BY <2>1, <3>1, Fields DEF Requests
  <2>4. x \in Records /\ Drops(t, x)
    <3> HIDE DEF gone
    <3>1. none \in Seq(Requests)
      OBVIOUS
    <3> HIDE DEF none
    <3>2. /\ x \in Records /\ x.PendingList = none /\ x.PendingMulti = t.PendingMulti
          /\ x.cleared = gone /\ x.lines = t.lines
          /\ KeepsRun(t, x) /\ KeepsPast(t, x) /\ KeepsLogin(t, x)
      BY <2>1, <2>3, <3>1 DEF Records, KeepsRun, KeepsPast, KeepsLogin
    <3> HIDE DEF x
    <3> QED
      BY <3>2 DEF Drops, gone, none
  <2> HIDE DEF x
  <2>5. Good(x)
    BY <2>1, <2>4, DropsGood
  <2> QED
    BY <2>1, <2>2, <2>4, <2>5
<1>2. user' = [u \in Users |-> user'[u]] /\ Ready' = FALSE
  BY DEF PrepareExit
<1>3. user' \in GoodUsers
  BY <1>1, <1>2, EachUser
<1> QED
  BY <1>2, <1>3 DEF QInv, GoodUsers

(* At the start nobody has sent a line; who is in Registered is logged in. *)
LEMMA InitKeeps ==
  ASSUME Init
  PROVE  QInv
<1>1. ASSUME NEW u \in Users PROVE user[u] \in Records /\ Good(user[u])
  <2> DEFINE t == user[u]
  <2>1. /\ t.PendingList = <<>> /\ t.PendingMulti = <<>> /\ t.lines = <<>> /\ t.done = <<>>
        /\ t.Multi = FALSE /\ t.MultiRunning = FALSE
        /\ t.registered = (IF u \in Registered THEN REG_OK ELSE {})
        /\ t.logged = (u \in Registered)
        /\ t.refused = {} /\ t.cleared = {} /\ t.opened = 0
    BY DEF Init
  <2>2. t \in Records
    <3>1. (IF u \in Registered THEN REG_OK ELSE {}) \in SUBSET REG_OK
          /\ (u \in Registered) \in BOOLEAN
      OBVIOUS
    <3> DEFINE reg == IF u \in Registered THEN REG_OK ELSE {}
               in == u \in Registered
    <3>2. t = [PendingList |-> <<>>, PendingMulti |-> <<>>, Multi |-> FALSE,
               MultiRunning |-> FALSE, Locked |-> FALSE, Quitting |-> FALSE, Paused |-> FALSE,
               resume |-> 0, registered |-> reg, logged |-> in, auth |-> "none",
               lines |-> <<>>, done |-> <<>>, refused |-> {}, cleared |-> {}, opened |-> 0]
      BY DEF Init
    <3> HIDE DEF t, reg, in
    <3>3. reg \in SUBSET REG_OK /\ in \in BOOLEAN
      BY <3>1 DEF reg, in
    <3> QED
      BY <3>2, <3>3 DEF Records
  <2> HIDE DEF t
  <2>3. /\ Range(<<>>) = {} /\ DOMAIN <<>> = {} /\ Len(<<>>) = 0 /\ 1 .. 0 = {}
    BY Empty
  <2>4. Known(t) /\ Counted(t)
    BY <2>1, <2>3 DEF Known, Counted
  <2>5. Entitled(t)
    BY <2>1, <2>3 DEF Entitled
  <2>6. Together(t) /\ Separate(t)
    BY <2>1, <2>3 DEF Together, Separate
  <2>7. Lined(t)
    BY <2>1, <2>3 DEF Lined, Rising, Before
  <2> QED
    BY <2>2, <2>4, <2>5, <2>6, <2>7 DEF Good, t
<1>2. user = [u \in Users |-> user[u]] /\ Ready = TRUE
  BY DEF Init
<1>3. user \in GoodUsers
  BY <1>1, <1>2, EachUser
<1> QED
  BY <1>2, <1>3 DEF QInv

(* Every step of the queue keeps the records good.                         *)
LEMMA NextKeeps ==
  ASSUME QInv, [Next]_vars
  PROVE  QInv'
<1>1. CASE UNCHANGED vars
  BY <1>1 DEF QInv, GoodUsers, vars
<1>2. ASSUME NEW u \in Users, NEW c \in Menu[u], Receive(u, c) PROVE QInv'
  BY <1>2, ReceiveKeeps
<1>3. ASSUME NEW u \in Users, Answer(u) PROVE QInv'
  BY <1>3, AnswerKeeps
<1>4. ASSUME NEW u \in Users, Leave(u) PROVE QInv'
  BY <1>4, LeaveKeeps
<1>5. ASSUME NEW u \in Users, AutoResume(u) PROVE QInv'
  BY <1>5, AutoResumeKeeps
<1>6. CASE Flush
  BY <1>6, FlushKeeps
<1>7. CASE Register
  BY <1>7, RegisterKeeps
<1>8. CASE PrepareExit
  BY <1>8, PrepareExitKeeps
<1> QED
  BY <1>1, <1>2, <1>3, <1>4, <1>5, <1>6, <1>7, <1>8 DEF Next

(* The records stay good in every behaviour of the command queue.          *)
THEOREM QueueInvariant == Spec => []QInv
<1>1. Init => QInv
  BY InitKeeps
<1>2. QInv /\ [Next]_vars => QInv'
  BY NextKeeps
<1> QED
  BY <1>1, <1>2, PTL DEF Spec

(* CommandQueue::Add, Flush, MULTI, MULTIRESET and MRUN lose no line of a  *)
(* client and execute none twice, and the queues keep their types.         *)
THEOREM LinesAccounted == Spec => []Accounted
<1>1. ASSUME QInv PROVE Accounted
  <2> SUFFICES ASSUME NEW u \in Users
               PROVE  /\ LET t == user[u] IN
                           /\ {t.Multi, t.MultiRunning, t.Locked, t.Quitting, t.Paused, t.logged}
                                \subseteq BOOLEAN
                           /\ t.registered \in SUBSET REG_OK
                           /\ Ids(t.PendingList) \cup Ids(t.PendingMulti) \cup Ids(t.done)
                                \cup t.refused \cup t.cleared \subseteq 1 .. Len(t.lines)
                      /\ \A i \in Plain(u) :
                           Hits(user[u].PendingList, i) + Hits(user[u].PendingMulti, i)
                             + Hits(user[u].done, i) + One(user[u].refused, i)
                             + One(user[u].cleared, i) = 1
    BY <1>1 DEF QInv, Accounted, TypeOK, Hits, One
  <2> DEFINE t == user[u]
  <2>1. t \in Records /\ Good(t)
    BY <1>1 DEF QInv, GoodUsers
  <2> HIDE DEF t
  <2>2. {t.Multi, t.MultiRunning, t.Locked, t.Quitting, t.Paused, t.logged} \subseteq BOOLEAN
        /\ t.registered \in SUBSET REG_OK
    BY <2>1, Fields
  <2>3. Ids(t.PendingList) \cup Ids(t.PendingMulti) \cup Ids(t.done)
          \cup t.refused \cup t.cleared \subseteq 1 .. Len(t.lines)
    <3>1. /\ Ids(t.PendingList) = {e.id : e \in Range(t.PendingList)}
          /\ Ids(t.PendingMulti) = {e.id : e \in Range(t.PendingMulti)}
          /\ Ids(t.done) = {e.id : e \in Range(t.done)}
      BY <2>1, Fields, RangeTyped
    <3> QED
      BY <2>1, <3>1 DEF Good, Known, Stems
  <2>4. ASSUME NEW i \in 1 .. Len(t.lines), t.lines[i] \notin Requeued
        PROVE  Hits(t.PendingList, i) + Hits(t.PendingMulti, i) + Hits(t.done, i)
                 + One(t.refused, i) + One(t.cleared, i) = 1
    BY <2>1, <2>4 DEF Good, Counted
  <2>5. \A i \in Plain(u) : i \in 1 .. Len(t.lines) /\ t.lines[i] \notin Requeued
    BY <2>1, Fields DEF Plain, t
  <2> QED
    BY <2>2, <2>3, <2>4, <2>5 DEF t
<1> QED
  BY <1>1, QueueInvariant, PTL

(* The commands of a client take effect in the order of its lines: what    *)
(* CommandQueue::Add puts aside for a transaction, Flush runs where it     *)
(* belongs.                                                                *)
THEOREM LinesInOrder == Spec => []InOrder
<1>1. ASSUME QInv PROVE InOrder
  <2> SUFFICES ASSUME NEW u \in Users, \A c \in Requeued \cup {"MULTIRESET"} : Sent(u, c) = {},
                      NEW j \in DOMAIN user[u].done, NEW k \in DOMAIN user[u].done, j < k,
                      {user[u].done[j].command, user[u].done[k].command} \cap {"PONG", "MRUN"} = {}
               PROVE  user[u].done[j].id < user[u].done[k].id
    BY DEF InOrder
  <2>1. Good(user[u])
    BY <1>1 DEF QInv, GoodUsers
  <2>2. Simple(user[u].lines)
    BY DEF Simple, Sent, Range
  <2>3. Counts(user[u].done[j]) /\ Counts(user[u].done[k])
    BY DEF Counts
  <2> QED
    BY <2>1, <2>2, <2>3 DEF Good, Lined, Rising
<1> QED
  BY <1>1, QueueInvariant, PTL

(* What a transaction runs was queued after its MULTI, but for what stays  *)
(* behind a MULTIRESET and the EXIT that Execute queues for Q and QUIT.    *)
THEOREM TransactionsSeparate == Spec => []NoStrangers
<1>1. ASSUME QInv PROVE NoStrangers
  <2> SUFFICES ASSUME NEW u \in Users, NEW e \in Range(user[u].done), e.opened > 0, e.id < e.opened
               PROVE  \/ \E k \in Sent(u, "MULTIRESET") : k < e.id
                      \/ e.command = "EXIT" /\ user[u].lines[e.id] \in {"Q", "QUIT"}
    BY DEF NoStrangers
  <2> DEFINE t == user[u]
  <2>1. t \in Records /\ Good(t)
    BY <1>1 DEF QInv, GoodUsers
  <2>2. Exempt(e, t.lines)
    BY <2>1 DEF Good, Separate
  <2>3. DOMAIN t.lines = 1 .. Len(t.lines)
    BY <2>1, Fields
  <2> QED
    BY <2>2, <2>3 DEF Exempt, Sent
<1> QED
  BY <1>1, QueueInvariant, PTL

(* While a transaction runs, Flush gives its client's turns to it alone,   *)
(* and PONG.                                                               *)
THEOREM TransactionsContiguous == Spec => []Contiguous
<1>1. ASSUME QInv PROVE Contiguous
  <2> SUFFICES ASSUME NEW u \in Users,
                      NEW i \in DOMAIN user[u].done, NEW k \in DOMAIN user[u].done, i < k,
                      user[u].done[i].opened > 0, user[u].done[i].opened = user[u].done[k].opened,
                      NEW j \in i .. k
               PROVE  user[u].done[j].command = "PONG"
                      \/ user[u].done[j].opened = user[u].done[i].opened
    BY DEF Contiguous
  <2> DEFINE t == user[u]
  <2>1. t \in Records /\ Good(t)
    BY <1>1 DEF QInv, GoodUsers
  <2> HIDE DEF t
  <2>2. DOMAIN t.done = 1 .. Len(t.done) /\ Len(t.done) \in Nat
    BY <2>1, Fields, LenProperties
  <2>3. i \in 1 .. Len(t.done) /\ k \in 1 .. Len(t.done)
    BY <2>2 DEF t
  <2>4. CASE j = i \/ j = k
    BY <2>4
  <2>5. CASE i < j /\ j < k
    <3>1. j \in DOMAIN t.done
      BY <2>2, <2>3, <2>5
    <3> QED
      BY <2>1, <2>5, <3>1 DEF Good, Together, t
  <2> QED
    BY <2>2, <2>3, <2>4, <2>5
<1> QED
  BY <1>1, QueueInvariant, PTL

(* The gates of CommandHandler::Execute: nothing but the login is handled  *)
(* for a client before its login is complete.                              *)
THEOREM LoginFirst == Spec => []OnlyLoginBefore
<1>1. ASSUME QInv PROVE OnlyLoginBefore
  BY <1>1 DEF QInv, GoodUsers, Good, Entitled, OnlyLoginBefore, Free
<1> QED
  BY <1>1, QueueInvariant, PTL
=============================================================================
