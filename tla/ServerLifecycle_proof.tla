------------------------ MODULE ServerLifecycle_proof ------------------------
(* For any number of connections and any size of the table: types, the table  *)
(* and the counter name exactly the connections with a thread, the limit      *)
(* holds, and the server is freed last. The inductive invariant adds what the *)
(* listening thread is allowed to assume about the connection it sets up and  *)
(* how flags and positions of application and listening thread go together.   *)
EXTENDS ServerLifecycle, FiniteSetTheorems, WellFoundedInduction, TLAPS

-----------------------------------------------------------------------------
(* Induction, in a form without operator parameters: a set that holds 0 and   *)
(* with a number the next one holds all.                                      *)
LEMMA BelowIsWellFounded ==
  IsWellFoundedOn({ss \in Nat \X Nat : ss[1] < ss[2]}, Nat)
BY NatLessThanWellFounded DEF OpToRel

LEMMA SetInduction ==
  ASSUME NEW S, 0 \in S, \A n \in Nat : n \in S => n + 1 \in S
  PROVE  \A n \in Nat : n \in S
<1> SUFFICES ASSUME Nat \ S # {} PROVE FALSE
    OBVIOUS
<1> DEFINE R == {ss \in Nat \X Nat : ss[1] < ss[2]}
<1>1. Nat \ S \subseteq Nat
      OBVIOUS
<1>2. PICK x \in Nat \ S : \A y \in Nat \ S : ~(<<y, x>> \in R)
      BY <1>1, BelowIsWellFounded, WFMin, Zenon
<1>3. x # 0 /\ x - 1 \in Nat /\ x - 1 < x
      OBVIOUS
<1>4. x - 1 \in S
      BY <1>2, <1>3
<1> QED BY <1>3, <1>4

-----------------------------------------------------------------------------
(* getMatchingRedundancyGroup, for any list of groups: its loop computes what *)
(* it finds from what it had found before, and so it finds the first match.   *)
Answer == [matching : Nat, catchAll : Nat]

LoopBody(groups, address, rest, found, i) ==
  IF i = 0 THEN [matching |-> 0, catchAll |-> 0]
  ELSE IF found[i-1].matching # 0 THEN found[i-1]
  ELSE IF Matches(groups[i], address, i \in rest)
       THEN [found[i-1] EXCEPT !.matching = i]
  ELSE IF groups[i] = CatchAll THEN [found[i-1] EXCEPT !.catchAll = i]
  ELSE found[i-1]

Loop(groups, address, rest) ==
  CHOOSE found : found = [i \in 0..Len(groups) |-> LoopBody(groups, address, rest, found, i)]

LEMMA FoundIsLoop ==
  ASSUME NEW groups, NEW address, NEW rest
  PROVE  Found(groups, address, rest) = Loop(groups, address, rest)[Len(groups)]
BY DEF Found, Loop, LoopBody

(* There is a function that satisfies the recursive equation of Found.        *)
LEMMA LoopExists ==
  ASSUME NEW groups, NEW address, NEW rest, NEW n \in Nat
  PROVE  \E found \in [0..n -> Answer] :
           \A i \in 0..n : found[i] = LoopBody(groups, address, rest, found, i)
<1> DEFINE Body(f, i) == LoopBody(groups, address, rest, f, i)
           Good(m) == \E f \in [0..m -> Answer] : \A i \in 0..m : f[i] = Body(f, i)
           S == {m \in Nat : Good(m)}
<1>1. 0 \in S
  <2> DEFINE f == [i \in 0..0 |-> [matching |-> 0, catchAll |-> 0]]
  <2>1. f \in [0..0 -> Answer]
        BY DEF Answer
  <2>2. \A i \in 0..0 : f[i] = Body(f, i)
        BY DEF LoopBody
  <2> QED BY <2>1, <2>2
<1>2. ASSUME NEW m \in Nat, m \in S PROVE m + 1 \in S
  <2>1. PICK f \in [0..m -> Answer] : \A i \in 0..m : f[i] = Body(f, i)
        BY <1>2
  <2> DEFINE next == Body(f, m + 1)
             g == [i \in 0..(m + 1) |-> IF i = m + 1 THEN next ELSE f[i]]
  <2>2. f[m] \in Answer /\ m + 1 \in Nat /\ m + 1 # 0 /\ m + 1 - 1 = m
        OBVIOUS
  <2>3. next \in Answer
    <3>1. \A v \in Answer, k \in Nat : /\ [v EXCEPT !.matching = k] \in Answer
                                       /\ [v EXCEPT !.catchAll = k] \in Answer
          BY DEF Answer
    <3> QED BY <2>2, <3>1 DEF LoopBody
  <2>4. g \in [0..(m + 1) -> Answer]
    <3> HIDE DEF next
    <3>1. \A i \in 0..(m + 1) : i = m + 1 \/ i \in 0..m
          OBVIOUS
    <3> QED BY <2>1, <2>3, <3>1
  <2>5. \A i \in 0..m : g[i] = f[i]
        OBVIOUS
  <2>6. ASSUME NEW i \in 0..(m + 1) PROVE g[i] = Body(g, i)
    <3> HIDE DEF g
    <3>1. CASE i = m + 1
      <4>1. g[m] = f[m]
            BY <2>5
      <4>2. Body(g, m + 1) = Body(f, m + 1)
            BY <2>2, <4>1 DEF LoopBody
      <4>3. g[m + 1] = next
            BY DEF g
      <4> QED BY <3>1, <4>2, <4>3
    <3>2. CASE i \in 0..m
      <4>1. i # 0 => i - 1 \in 0..m /\ g[i - 1] = f[i - 1]
            BY <2>5, <3>2
      <4>2. Body(g, i) = Body(f, i)
            BY <4>1 DEF LoopBody
      <4> QED BY <2>1, <2>5, <3>2, <4>2
    <3> QED BY <3>1, <3>2
  <2> HIDE DEF g, Body
  <2> QED BY <2>4, <2>6
<1> HIDE DEF S
<1>3. n \in S
      BY <1>1, <1>2, SetInduction
<1> QED BY <1>3 DEF S

LEMMA LoopStep ==
  ASSUME NEW groups, NEW address, NEW rest, Len(groups) \in Nat
  PROVE  LET found == Loop(groups, address, rest)
         IN  /\ found \in [0..Len(groups) -> Answer]
             /\ \A i \in 0..Len(groups) :
                  found[i] = LoopBody(groups, address, rest, found, i)
<1> DEFINE Body(f, i) == LoopBody(groups, address, rest, f, i)
           n == Len(groups)
           found == Loop(groups, address, rest)
<1>1. PICK f \in [0..n -> Answer] : \A i \in 0..n : f[i] = Body(f, i)
      BY LoopExists
<1>2. f = [i \in 0..n |-> Body(f, i)]
      BY <1>1
<1>3. found = [i \in 0..n |-> Body(found, i)]
      BY <1>2, Zenon DEF Loop
<1>4. \A i \in 0..n : found[i] = Body(found, i)
  <2> HIDE DEF found, Body
  <2> QED BY <1>3, Zenon
<1>5. DOMAIN found = 0..n
  <2> HIDE DEF found, Body
  <2> QED BY <1>3, Zenon
<1>6. \A i \in 0..n : found[i] \in Answer
  <2> DEFINE S == {m \in Nat : m <= n => found[m] \in Answer}
  <2> HIDE DEF found
  <2>1. 0 \in S
    <3>1. 0 \in 0..n
          OBVIOUS
    <3>2. Body(found, 0) \in Answer
          BY DEF LoopBody, Answer
    <3> QED BY <1>4, <3>1, <3>2
  <2>2. ASSUME NEW m \in Nat, m \in S PROVE m + 1 \in S
    <3> SUFFICES ASSUME m + 1 <= n PROVE found[m + 1] \in Answer
        OBVIOUS
    <3>1. found[m] \in Answer /\ m + 1 \in 0..n /\ m + 1 # 0 /\ m + 1 - 1 = m
          BY <2>2
    <3>2. \A v \in Answer, k \in Nat : /\ [v EXCEPT !.matching = k] \in Answer
                                       /\ [v EXCEPT !.catchAll = k] \in Answer
          BY DEF Answer
    <3>3. Body(found, m + 1) \in Answer
          BY <3>1, <3>2 DEF LoopBody
    <3> QED BY <1>4, <3>1, <3>3
  <2> HIDE DEF S
  <2>3. \A m \in Nat : m \in S
        BY <2>1, <2>2, SetInduction
  <2> QED BY <2>3 DEF S
<1>7. found \in [0..n -> Answer]
  <2> HIDE DEF found, Body
  <2>1. found = [i \in 0..n |-> found[i]]
        BY <1>3, <1>4
  <2> QED BY <1>6, <2>1
<1> QED BY <1>4, <1>7

(* What the loop has found after group i. *)
FoundIn(groups, address, rest, i, answer) ==
  /\ answer.matching \in 0..i /\ answer.catchAll \in 0..i
  /\ answer.matching # 0 => Matches(groups[answer.matching], address, answer.matching \in rest)
  /\ \A j \in 1..i : (answer.matching = 0 \/ j < answer.matching)
                       => ~Matches(groups[j], address, j \in rest)
  /\ answer.catchAll # 0 => groups[answer.catchAll] = CatchAll

LEMMA LoopFinds ==
  ASSUME NEW groups, NEW address, NEW rest, Len(groups) \in Nat
  PROVE  FoundIn(groups, address, rest, Len(groups), Found(groups, address, rest))
<1> DEFINE n == Len(groups)
           found == Loop(groups, address, rest)
           S == {m \in Nat : m <= n => FoundIn(groups, address, rest, m, found[m])}
<1>1. /\ found \in [0..n -> Answer]
      /\ \A i \in 0..n : found[i] = LoopBody(groups, address, rest, found, i)
      BY LoopStep
<1> HIDE DEF found
<1>2. 0 \in S
  <2>1. found[0] = [matching |-> 0, catchAll |-> 0]
        BY <1>1 DEF LoopBody
  <2> QED BY <2>1 DEF FoundIn
<1>3. ASSUME NEW m \in Nat, m \in S PROVE m + 1 \in S
  <2> SUFFICES ASSUME m + 1 <= n PROVE FoundIn(groups, address, rest, m + 1, found[m + 1])
      OBVIOUS
  <2> DEFINE v == found[m]
             w == found[m + 1]
             Hit == Matches(groups[m + 1], address, m + 1 \in rest)
  <2>1. v \in Answer /\ m + 1 \in 0..n /\ m + 1 # 0 /\ m + 1 - 1 = m
        BY <1>1
  <2>2. w = IF v.matching # 0 THEN v
            ELSE IF Hit THEN [v EXCEPT !.matching = m + 1]
            ELSE IF groups[m + 1] = CatchAll THEN [v EXCEPT !.catchAll = m + 1]
            ELSE v
    <3>1. PICK k \in 0..n : k = m + 1
          BY <2>1
    <3>2. k # 0 /\ k - 1 = m
          BY <3>1
    <3>3. found[k] = LoopBody(groups, address, rest, found, k)
          BY <1>1
    <3>4. found[k] = IF v.matching # 0 THEN v
                     ELSE IF Matches(groups[k], address, k \in rest)
                          THEN [v EXCEPT !.matching = k]
                     ELSE IF groups[k] = CatchAll THEN [v EXCEPT !.catchAll = k]
                     ELSE v
          BY <3>2, <3>3 DEF LoopBody
    <3> QED BY <3>1, <3>4
  <2>3. FoundIn(groups, address, rest, m, v)
        BY <1>3
  <2>4. v.matching \in 0..m /\ v.catchAll \in 0..m
        BY <2>3 DEF FoundIn
  <2>5. \A j \in 1..(m + 1) : j \in 1..m \/ j = m + 1
        OBVIOUS
  <2> HIDE DEF v, w, Hit
  <2>6. CASE v.matching # 0
    <3>1. w = v
          BY <2>2, <2>6
    <3>2. \A j \in 1..(m + 1) : j < v.matching => j \in 1..m
          BY <2>4
    <3> QED BY <2>3, <2>4, <2>6, <3>1, <3>2 DEF FoundIn, w
  <2>7. CASE v.matching = 0 /\ Hit
    <3>1. w.matching = m + 1 /\ w.catchAll = v.catchAll
          BY <2>1, <2>2, <2>7 DEF Answer
    <3>2. \A j \in 1..(m + 1) : j < m + 1 => j \in 1..m
          OBVIOUS
    <3> QED BY <2>1, <2>3, <2>4, <2>7, <3>1, <3>2 DEF FoundIn, w, Hit
  <2>8. CASE v.matching = 0 /\ ~Hit
    <3>1. w = v \/ (w = [v EXCEPT !.catchAll = m + 1] /\ groups[m + 1] = CatchAll)
          BY <2>2, <2>8
    <3>2. [v EXCEPT !.catchAll = m + 1].matching = v.matching
          /\ [v EXCEPT !.catchAll = m + 1].catchAll = m + 1
          BY <2>1 DEF Answer
    <3>3. /\ w.matching = 0
          /\ \/ w.catchAll = v.catchAll
             \/ w.catchAll = m + 1 /\ groups[m + 1] = CatchAll
          BY <2>8, <3>1, <3>2
    <3> QED BY <2>3, <2>4, <2>5, <2>8, <3>3 DEF FoundIn, w, Hit
  <2> QED BY <2>6, <2>7, <2>8
<1> HIDE DEF S
<1>4. n \in S
      BY <1>2, <1>3, SetInduction
<1> QED BY <1>4, FoundIsLoop DEF S, found

(* The group of a client is the first that lists its address, if one does;   *)
(* an abbreviated address may miss those.                                    *)
Belongs(groups, address, g) ==
  LET listed == {i \in DOMAIN groups : address \in groups[i]}
  IN  IF listed # {} /\ address \notin Abbreviated
      THEN g \in listed /\ \A i \in listed : g <= i
      ELSE g \in listed \/ groups[g] = CatchAll

LEMMA MatchingBelongs ==
  ASSUME NEW groups \in Seq(SUBSET Addresses), NEW address, NEW rest,
         NEW g \in DOMAIN groups, g = MatchingGroup(groups, address, rest)
  PROVE  Belongs(groups, address, g)
<1> DEFINE answer == Found(groups, address, rest)
           listed == {i \in DOMAIN groups : address \in groups[i]}
<1>1. Len(groups) \in Nat /\ DOMAIN groups = 1..Len(groups)
      OBVIOUS
<1>2. FoundIn(groups, address, rest, Len(groups), answer)
      BY <1>1, LoopFinds
<1>3. g = IF answer.matching # 0 THEN answer.matching ELSE answer.catchAll
      BY DEF MatchingGroup
<1> HIDE DEF answer
<1>4. /\ answer.matching \in 0..Len(groups) /\ answer.catchAll \in 0..Len(groups)
      /\ answer.matching # 0 => address \in groups[answer.matching]
      /\ answer.catchAll # 0 => groups[answer.catchAll] = CatchAll
      BY <1>2 DEF FoundIn, Matches
<1>5. CASE answer.matching # 0
  <2>1. g = answer.matching /\ g \in listed
        BY <1>1, <1>3, <1>4, <1>5
  <2>2. ASSUME address \notin Abbreviated, NEW i \in listed PROVE g <= i
    <3>1. i \in 1..Len(groups) /\ Matches(groups[i], address, i \in rest)
          BY <1>1, <2>2 DEF Matches
    <3>2. ~(i < answer.matching)
          BY <1>2, <3>1 DEF FoundIn
    <3> QED BY <1>4, <2>1, <3>1, <3>2
  <2> QED BY <2>1, <2>2 DEF Belongs
<1>6. CASE answer.matching = 0
  <2>1. groups[g] = CatchAll
        BY <1>1, <1>3, <1>4, <1>6
  <2>2. ASSUME address \notin Abbreviated PROVE listed = {}
    <3> SUFFICES ASSUME NEW i \in listed PROVE FALSE
        OBVIOUS
    <3>1. i \in 1..Len(groups) /\ Matches(groups[i], address, i \in rest)
          BY <1>1, <2>2 DEF Matches
    <3> QED BY <1>2, <1>6, <3>1 DEF FoundIn
  <2> QED BY <2>1, <2>2 DEF Belongs
<1> QED BY <1>5, <1>6

-----------------------------------------------------------------------------
(* The connection that is being set up has no thread yet. *)
Setup ==
  listener \in {"create", "add", "run"} => incoming \in Conns /\ thread[incoming] = "none"

(* The application and the listening thread: isRunning is set while it        *)
(* accepts, stopRunning only while somebody waits for its end, and it does    *)
(* not run while the application is idle after a stop or further in destroy.  *)
Phases ==
  /\ ~isThreadlessMode => (isRunning <=> listener \in {"accept", "create", "add", "run"})
  /\ listener = "open" => app = "start" /\ isStarting
  /\ stopRunning => app \in {"stop", "destroyStop"}
  /\ listener = "none" => ~stopRunning
  /\ listener = "leave" => app \in {"stop", "destroyStop"}
  /\ app \in {"destroyClose", "destroyWait", "freed"} => listener = "none"

(* A server without threads has neither a listening thread nor threads of     *)
(* connections, and only a handler that hangs holds its semaphore; before the *)
(* first start nothing has happened.                                          *)
Ticking ==
  /\ isThreadlessMode =>
       /\ listener = "none" /\ app \notin {"start", "stop", "destroyStop"}
       /\ lock = Nobody \/ app = "ask"
       /\ \A c \in Conns : thread[c] \in {"none", "polled", "ended"}
  /\ ~isThreadlessMode => app \notin {"tick", "serve", "ask"}
  /\ starts = 0 =>
       /\ listener = "none" /\ lock = Nobody /\ ~isRunning /\ ~isThreadlessMode
       /\ app \notin {"start", "stop", "destroyStop"}
       /\ \A c \in Conns : thread[c] = "none"

(* The connections that have their queue: created, and with no thread yet or  *)
(* not yet at its end.                                                        *)
Joined(c) == \/ thread[c] \notin {"none", "ended"}
             \/ listener \in {"add", "run"} /\ incoming = c

(* SharedQueue, from the creation of a connection on; the server has a queue  *)
(* since its first start.                                                     *)
Sharing ==
  serverMode # "perConnection" =>
    /\ starts # 0 => asduQueue # 0
    /\ \/ serverMode = "single" /\ "startedOver" \in history
       \/ \A c \in Conns : Joined(c) => queueOf[c] = asduQueue

(* GroupOfAddress, from the creation of a connection on; the groups do not    *)
(* change while there is one.                                                 *)
Grouped ==
  serverMode = "multiple" =>
    \A c \in Conns : Joined(c) =>
      /\ group[c] \in DOMAIN redundancyGroups
      /\ Belongs(redundancyGroups, AddressOf[c], group[c])

(* TableIsLive and WithinLimit, with the room that the listening thread has   *)
(* found for the connection it sets up, and the counter of a freed server.    *)
Counted ==
  Limited =>
    /\ IsFiniteSet(masterConnections)
    /\ masterConnections = Live
    /\ app # "freed" => openConnections = Cardinality(masterConnections)
    /\ openConnections \in 0..maxOpenConnections
    /\ listener \in {"create", "add"} => openConnections < maxOpenConnections
    /\ app = "freed" => masterConnections = {}

IInv == TypeOK /\ Setup /\ Phases /\ Ticking /\ Sharing /\ Grouped /\ Counted

-----------------------------------------------------------------------------
LEMMA InitIInv == Init => IInv
<1> SUFFICES ASSUME Init PROVE IInv
    OBVIOUS
<1>1. PICK conf \in Configurations :
        /\ serverMode = conf.mode /\ maxOpenConnections = conf.limit
        /\ redundancyGroups = conf.groups
      BY DEF Init
<1>a. TypeOK
  <2>1. thread \in [Conns -> Thread] /\ running \in [Conns -> BOOLEAN]
        BY DEF Init, Thread
  <2>2. queueOf \in [Conns -> 0..MaxStarts] /\ group \in [Conns -> Nat] /\ asduQueue \in 0..MaxStarts
        /\ starts \in 0..MaxStarts
        BY LifecycleAssumption DEF Init
  <2>3. isStarting \in BOOLEAN /\ isRunning \in BOOLEAN /\ stopRunning \in BOOLEAN
        BY DEF Init
  <2>0. /\ serverMode \in Mode /\ maxOpenConnections \in 0..TableSize
        /\ redundancyGroups \in Seq(SUBSET Addresses) /\ isThreadlessMode \in BOOLEAN
        BY <1>1, LifecycleAssumption DEF Init
  <2>4. /\ masterConnections \subseteq Conns /\ openConnections \in Int
        /\ lock \in Conns \union {Nobody} /\ incoming \in Conns \union {Nobody}
        BY DEF Init
  <2>5. history \subseteq History /\ app \in App /\ listener \in Listener
        BY DEF Init, History, App, Listener
  <2> QED BY <2>0, <2>1, <2>2, <2>3, <2>4, <2>5 DEF TypeOK
<1>2. Setup /\ Phases /\ Ticking /\ Sharing /\ Grouped
      BY DEF Init, Setup, Phases, Ticking, Sharing, Grouped, Joined
<1>3. IsFiniteSet({}) /\ Cardinality({}) = 0
      BY FS_EmptySet
<1>4. Live = {}
      BY DEF Init, Live
<1>5. Counted
      BY <1>3, <1>4, <1>a DEF Init, Counted, Limited, TypeOK
<1> QED BY <1>a, <1>2, <1>5 DEF IInv


(* The groups stay a sequence of sets of addresses when the one for everybody *)
(* is added.                                                                  *)
LEMMA GroupsStay ==
  ASSUME redundancyGroups \in Seq(SUBSET Addresses)
  PROVE  InitializedGroups(redundancyGroups) \in Seq(SUBSET Addresses)
<1>1. << CatchAll >> \in Seq(SUBSET Addresses)
  <2>1. CatchAll \in SUBSET Addresses
        BY DEF CatchAll
  <2> QED BY <2>1
<1> QED BY <1>1 DEF InitializedGroups

(* Types. *)
LEMMA TypeStep ==
  ASSUME TypeOK, Setup, [Next]_vars
  PROVE  TypeOK'
<1> USE LifecycleAssumption DEF TypeOK, Setup, Mode, App, Listener, Thread, History, config, flags, server, table, queues, connection
<1>1. CASE Start
  <2>1. starts + 1 \in 0..MaxStarts
        BY <1>1 DEF Start, InitializeQueues
  <2>2. QueueAfterStart \in 0..MaxStarts
        BY <2>1 DEF QueueAfterStart
  <2>3. history' \subseteq History
        BY <1>1 DEF Start, InitializeQueues, Happened
  <2>4. redundancyGroups' \in Seq(SUBSET Addresses)
        BY <1>1, GroupsStay DEF Start, InitializeQueues
  <2> QED BY <1>1, <2>1, <2>2, <2>3, <2>4 DEF Start, InitializeQueues
<1>2. CASE StartReturns
      BY <1>2 DEF StartReturns
<1>3. CASE Stop
      BY <1>3 DEF Stop, RequestStop
<1>4. CASE StopReturns
      BY <1>4 DEF StopReturns
<1>5. CASE DestroyRunning
      BY <1>5 DEF DestroyRunning, RequestStop
<1>6. CASE DestroyStopped
      BY <1>6 DEF DestroyStopped
<1>7. CASE DestroyStopReturns
      BY <1>7 DEF DestroyStopReturns
<1>8. CASE CloseAll
      BY <1>8 DEF CloseAll, Happened
<1>9. CASE Free
      BY <1>9 DEF Free
<1>10. CASE OpenSocket
      BY <1>10 DEF OpenSocket
<1>11. CASE OpenSocketFails
      BY <1>11 DEF OpenSocketFails
<1>12. CASE Refuse
      BY <1>12 DEF Refuse
<1>13. CASE Create
      BY <1>13, SMTT(20) DEF Create, CreateConnection
<1>14. CASE AddOpenConnection
      BY <1>14 DEF AddOpenConnection, AddToTable
<1>15. CASE StartThread
      BY <1>15 DEF StartThread, Goto
<1>16. CASE LeaveLoop
      BY <1>16 DEF LeaveLoop
<1>17. CASE ListenerEnds
      BY <1>17 DEF ListenerEnds
<1>18. ASSUME NEW c \in Conns, Accept(c) PROVE TypeOK'
      BY <1>18 DEF Accept
<1>19. ASSUME NEW c \in Conns, Close(c) PROVE TypeOK'
      BY <1>19 DEF Close
<1>20. ASSUME NEW c \in Conns, Activate(c) PROVE TypeOK'
      BY <1>20 DEF Activate, Goto
<1>21. ASSUME NEW c \in Conns, HandlerAsks(c) PROVE TypeOK'
      BY <1>21 DEF HandlerAsks, Happened, Goto
<1>22. ASSUME NEW c \in Conns, EnterLoop(c) PROVE TypeOK'
      BY <1>22 DEF EnterLoop, Goto
<1>23. ASSUME NEW c \in Conns, EnterTurn(c) PROVE TypeOK'
      BY <1>23 DEF EnterTurn, Goto
<1>24. ASSUME NEW c \in Conns, Activated(c) PROVE TypeOK'
      BY <1>24 DEF Activated, Goto
<1>25. ASSUME NEW c \in Conns, EndTurn(c) PROVE TypeOK'
      BY <1>25 DEF EndTurn, Goto
<1>26. ASSUME NEW c \in Conns, LeaveThreadLoop(c) PROVE TypeOK'
      BY <1>26 DEF LeaveThreadLoop, Goto
<1>27. ASSUME NEW c \in Conns, RemoveConnection(c) PROVE TypeOK'
      BY <1>27 DEF RemoveConnection, Goto
<1>28. CASE UNCHANGED vars
      BY <1>28 DEF vars
<1>29. CASE StartThreadless
  <2>1. starts + 1 \in 0..MaxStarts
        BY <1>29 DEF StartThreadless, InitializeQueues
  <2>2. QueueAfterStart \in 0..MaxStarts
        BY <2>1 DEF QueueAfterStart
  <2>3. history' \subseteq History
        BY <1>29 DEF StartThreadless, InitializeQueues, Happened
  <2>4. redundancyGroups' \in Seq(SUBSET Addresses)
        BY <1>29, GroupsStay DEF StartThreadless, InitializeQueues
  <2> QED BY <1>29, <2>1, <2>2, <2>3, <2>4 DEF StartThreadless, InitializeQueues
<1>30. CASE StopThreadless
      BY <1>30 DEF StopThreadless, CloseSocket
<1>31. CASE DestroyThreadless
      BY <1>31 DEF DestroyThreadless, CloseSocket
<1>32. CASE Tick
      BY <1>32 DEF Tick
<1>33. CASE FreePolled
      BY <1>33 DEF FreePolled
<1>34. CASE Sweep
      BY <1>34 DEF Sweep
<1>35. CASE Served
      BY <1>35 DEF Served
<1>36. ASSUME NEW c \in Conns, AcceptPolled(c) PROVE TypeOK'
      BY <1>36 DEF AcceptPolled, CreateConnection, AddToTable, Goto
<1>37. ASSUME NEW c \in Conns, TickAsks(c) PROVE TypeOK'
      BY <1>37 DEF TickAsks, Happened
<1> QED BY <1>1, <1>2, <1>3, <1>4, <1>5, <1>6, <1>7, <1>8, <1>9, <1>10, <1>11,
            <1>12, <1>13, <1>14, <1>15, <1>16, <1>17, <1>18, <1>19,
            <1>20, <1>21, <1>22, <1>23, <1>24, <1>25, <1>26, <1>27,
            <1>28, <1>29, <1>30, <1>31, <1>32, <1>33, <1>34, <1>35, <1>36, <1>37
       DEF Next, AppWaits, ListenerThread, ConnectionThread

(* The connection that is set up. *)
LEMMA SetupStep ==
  ASSUME TypeOK, Setup, Ticking, [Next]_vars
  PROVE  Setup'
<1> USE LifecycleAssumption DEF TypeOK, Setup, Ticking, Listener, Thread, config, flags, server, table, queues, connection
<1>1. CASE Start
      BY <1>1 DEF Start, InitializeQueues, Happened
<1>2. CASE StartReturns
      BY <1>2 DEF StartReturns
<1>3. CASE Stop
      BY <1>3 DEF Stop, RequestStop
<1>4. CASE StopReturns
      BY <1>4 DEF StopReturns
<1>5. CASE DestroyRunning
      BY <1>5 DEF DestroyRunning, RequestStop
<1>6. CASE DestroyStopped
      BY <1>6 DEF DestroyStopped
<1>7. CASE DestroyStopReturns
      BY <1>7 DEF DestroyStopReturns
<1>8. CASE CloseAll
      BY <1>8 DEF CloseAll, Happened
<1>9. CASE Free
      BY <1>9 DEF Free
<1>10. CASE OpenSocket
      BY <1>10 DEF OpenSocket
<1>11. CASE OpenSocketFails
      BY <1>11 DEF OpenSocketFails
<1>12. CASE Refuse
      BY <1>12 DEF Refuse
<1>13. CASE Create
      BY <1>13 DEF Create, CreateConnection
<1>14. CASE AddOpenConnection
      BY <1>14 DEF AddOpenConnection, AddToTable
<1>15. CASE StartThread
      BY <1>15 DEF StartThread, Goto
<1>16. CASE LeaveLoop
      BY <1>16 DEF LeaveLoop
<1>17. CASE ListenerEnds
      BY <1>17 DEF ListenerEnds
<1>18. ASSUME NEW c \in Conns, Accept(c) PROVE Setup'
      BY <1>18 DEF Accept
<1>19. ASSUME NEW c \in Conns, Close(c) PROVE Setup'
      BY <1>19 DEF Close
<1>20. ASSUME NEW c \in Conns, Activate(c) PROVE Setup'
      BY <1>20 DEF Activate, Goto
<1>21. ASSUME NEW c \in Conns, HandlerAsks(c) PROVE Setup'
      BY <1>21 DEF HandlerAsks, Happened, Goto
<1>22. ASSUME NEW c \in Conns, EnterLoop(c) PROVE Setup'
      BY <1>22 DEF EnterLoop, Goto
<1>23. ASSUME NEW c \in Conns, EnterTurn(c) PROVE Setup'
      BY <1>23 DEF EnterTurn, Goto
<1>24. ASSUME NEW c \in Conns, Activated(c) PROVE Setup'
      BY <1>24 DEF Activated, Goto
<1>25. ASSUME NEW c \in Conns, EndTurn(c) PROVE Setup'
      BY <1>25 DEF EndTurn, Goto
<1>26. ASSUME NEW c \in Conns, LeaveThreadLoop(c) PROVE Setup'
      BY <1>26 DEF LeaveThreadLoop, Goto
<1>27. ASSUME NEW c \in Conns, RemoveConnection(c) PROVE Setup'
      BY <1>27 DEF RemoveConnection, Goto
<1>28. CASE UNCHANGED vars
      BY <1>28 DEF vars
<1>29. CASE StartThreadless
      BY <1>29 DEF StartThreadless, InitializeQueues, Happened
<1>30. CASE StopThreadless
      BY <1>30 DEF StopThreadless, CloseSocket
<1>31. CASE DestroyThreadless
      BY <1>31 DEF DestroyThreadless, CloseSocket
<1>32. CASE Tick
      BY <1>32 DEF Tick
<1>33. CASE FreePolled
      BY <1>33 DEF FreePolled
<1>34. CASE Sweep
      BY <1>34 DEF Sweep
<1>35. CASE Served
      BY <1>35 DEF Served
<1>36. ASSUME NEW c \in Conns, AcceptPolled(c) PROVE Setup'
      BY <1>36 DEF AcceptPolled, CreateConnection, AddToTable, Goto
<1>37. ASSUME NEW c \in Conns, TickAsks(c) PROVE Setup'
      BY <1>37 DEF TickAsks, Happened
<1> QED BY <1>1, <1>2, <1>3, <1>4, <1>5, <1>6, <1>7, <1>8, <1>9, <1>10, <1>11,
            <1>12, <1>13, <1>14, <1>15, <1>16, <1>17, <1>18, <1>19,
            <1>20, <1>21, <1>22, <1>23, <1>24, <1>25, <1>26, <1>27,
            <1>28, <1>29, <1>30, <1>31, <1>32, <1>33, <1>34, <1>35, <1>36, <1>37
       DEF Next, AppWaits, ListenerThread, ConnectionThread

(* Application and listening thread. *)
LEMMA PhasesStep ==
  ASSUME TypeOK, Phases, Ticking, [Next]_vars
  PROVE  Phases'
<1> USE DEF TypeOK, Phases, Ticking, App, Listener, config, flags, server, table, queues, connection
<1>1. CASE Start
      BY <1>1 DEF Start, InitializeQueues, Happened
<1>2. CASE StartReturns
      BY <1>2 DEF StartReturns
<1>3. CASE Stop
      BY <1>3 DEF Stop, RequestStop
<1>4. CASE StopReturns
      BY <1>4 DEF StopReturns
<1>5. CASE DestroyRunning
      BY <1>5 DEF DestroyRunning, RequestStop
<1>6. CASE DestroyStopped
      BY <1>6 DEF DestroyStopped
<1>7. CASE DestroyStopReturns
      BY <1>7 DEF DestroyStopReturns
<1>8. CASE CloseAll
      BY <1>8 DEF CloseAll, Happened
<1>9. CASE Free
      BY <1>9 DEF Free
<1>10. CASE OpenSocket
      BY <1>10 DEF OpenSocket
<1>11. CASE OpenSocketFails
      BY <1>11 DEF OpenSocketFails
<1>12. CASE Refuse
      BY <1>12 DEF Refuse
<1>13. CASE Create
      BY <1>13 DEF Create, CreateConnection
<1>14. CASE AddOpenConnection
      BY <1>14 DEF AddOpenConnection, AddToTable
<1>15. CASE StartThread
      BY <1>15 DEF StartThread, Goto
<1>16. CASE LeaveLoop
      BY <1>16 DEF LeaveLoop
<1>17. CASE ListenerEnds
      BY <1>17 DEF ListenerEnds
<1>18. ASSUME NEW c \in Conns, Accept(c) PROVE Phases'
      BY <1>18 DEF Accept
<1>19. ASSUME NEW c \in Conns, Close(c) PROVE Phases'
      BY <1>19 DEF Close
<1>20. ASSUME NEW c \in Conns, Activate(c) PROVE Phases'
      BY <1>20 DEF Activate, Goto
<1>21. ASSUME NEW c \in Conns, HandlerAsks(c) PROVE Phases'
      BY <1>21 DEF HandlerAsks, Happened, Goto
<1>22. ASSUME NEW c \in Conns, EnterLoop(c) PROVE Phases'
      BY <1>22 DEF EnterLoop, Goto
<1>23. ASSUME NEW c \in Conns, EnterTurn(c) PROVE Phases'
      BY <1>23 DEF EnterTurn, Goto
<1>24. ASSUME NEW c \in Conns, Activated(c) PROVE Phases'
      BY <1>24 DEF Activated, Goto
<1>25. ASSUME NEW c \in Conns, EndTurn(c) PROVE Phases'
      BY <1>25 DEF EndTurn, Goto
<1>26. ASSUME NEW c \in Conns, LeaveThreadLoop(c) PROVE Phases'
      BY <1>26 DEF LeaveThreadLoop, Goto
<1>27. ASSUME NEW c \in Conns, RemoveConnection(c) PROVE Phases'
      BY <1>27 DEF RemoveConnection, Goto
<1>28. CASE UNCHANGED vars
      BY <1>28 DEF vars
<1>29. CASE StartThreadless
      BY <1>29 DEF StartThreadless, InitializeQueues, Happened
<1>30. CASE StopThreadless
      BY <1>30 DEF StopThreadless, CloseSocket
<1>31. CASE DestroyThreadless
      BY <1>31 DEF DestroyThreadless, CloseSocket
<1>32. CASE Tick
      BY <1>32 DEF Tick
<1>33. CASE FreePolled
      BY <1>33 DEF FreePolled
<1>34. CASE Sweep
      BY <1>34 DEF Sweep
<1>35. CASE Served
      BY <1>35 DEF Served
<1>36. ASSUME NEW c \in Conns, AcceptPolled(c) PROVE Phases'
      BY <1>36 DEF AcceptPolled, CreateConnection, AddToTable, Goto
<1>37. ASSUME NEW c \in Conns, TickAsks(c) PROVE Phases'
      BY <1>37 DEF TickAsks, Happened
<1> QED BY <1>1, <1>2, <1>3, <1>4, <1>5, <1>6, <1>7, <1>8, <1>9, <1>10, <1>11,
            <1>12, <1>13, <1>14, <1>15, <1>16, <1>17, <1>18, <1>19,
            <1>20, <1>21, <1>22, <1>23, <1>24, <1>25, <1>26, <1>27,
            <1>28, <1>29, <1>30, <1>31, <1>32, <1>33, <1>34, <1>35, <1>36, <1>37
       DEF Next, AppWaits, ListenerThread, ConnectionThread

(* Without threads. *)
LEMMA TickingStep ==
  ASSUME TypeOK, Setup, Phases, Ticking, [Next]_vars
  PROVE  Ticking'
<1> USE LifecycleAssumption DEF TypeOK, Setup, Phases, Ticking, Thread, App, Listener, config, flags, server, table, queues, connection
<1>1. CASE Start
      BY <1>1 DEF Start, InitializeQueues, Happened
<1>2. CASE StartReturns
      BY <1>2 DEF StartReturns
<1>3. CASE Stop
      BY <1>3 DEF Stop, RequestStop
<1>4. CASE StopReturns
      BY <1>4 DEF StopReturns
<1>5. CASE DestroyRunning
      BY <1>5 DEF DestroyRunning, RequestStop
<1>6. CASE DestroyStopped
      BY <1>6 DEF DestroyStopped
<1>7. CASE DestroyStopReturns
      BY <1>7 DEF DestroyStopReturns
<1>8. CASE CloseAll
      BY <1>8 DEF CloseAll, Happened
<1>9. CASE Free
      BY <1>9 DEF Free
<1>10. CASE OpenSocket
      BY <1>10 DEF OpenSocket
<1>11. CASE OpenSocketFails
      BY <1>11 DEF OpenSocketFails
<1>12. CASE Refuse
      BY <1>12 DEF Refuse
<1>13. CASE Create
      BY <1>13 DEF Create, CreateConnection
<1>14. CASE AddOpenConnection
      BY <1>14 DEF AddOpenConnection, AddToTable
<1>15. CASE StartThread
      BY <1>15 DEF StartThread, Goto
<1>16. CASE LeaveLoop
      BY <1>16 DEF LeaveLoop
<1>17. CASE ListenerEnds
      BY <1>17 DEF ListenerEnds
<1>18. ASSUME NEW c \in Conns, Accept(c) PROVE Ticking'
      BY <1>18 DEF Accept
<1>19. ASSUME NEW c \in Conns, Close(c) PROVE Ticking'
      BY <1>19 DEF Close
<1>20. ASSUME NEW c \in Conns, Activate(c) PROVE Ticking'
      BY <1>20 DEF Activate, Goto
<1>21. ASSUME NEW c \in Conns, HandlerAsks(c) PROVE Ticking'
      BY <1>21 DEF HandlerAsks, Happened, Goto
<1>22. ASSUME NEW c \in Conns, EnterLoop(c) PROVE Ticking'
      BY <1>22 DEF EnterLoop, Goto
<1>23. ASSUME NEW c \in Conns, EnterTurn(c) PROVE Ticking'
      BY <1>23 DEF EnterTurn, Goto
<1>24. ASSUME NEW c \in Conns, Activated(c) PROVE Ticking'
      BY <1>24 DEF Activated, Goto
<1>25. ASSUME NEW c \in Conns, EndTurn(c) PROVE Ticking'
      BY <1>25 DEF EndTurn, Goto
<1>26. ASSUME NEW c \in Conns, LeaveThreadLoop(c) PROVE Ticking'
      BY <1>26 DEF LeaveThreadLoop, Goto
<1>27. ASSUME NEW c \in Conns, RemoveConnection(c) PROVE Ticking'
      BY <1>27 DEF RemoveConnection, Goto
<1>28. CASE UNCHANGED vars
      BY <1>28 DEF vars
<1>29. CASE StartThreadless
      BY <1>29 DEF StartThreadless, InitializeQueues, Happened
<1>30. CASE StopThreadless
      BY <1>30 DEF StopThreadless, CloseSocket
<1>31. CASE DestroyThreadless
      BY <1>31 DEF DestroyThreadless, CloseSocket
<1>32. CASE Tick
      BY <1>32 DEF Tick
<1>33. CASE FreePolled
      BY <1>33 DEF FreePolled
<1>34. CASE Sweep
      BY <1>34 DEF Sweep
<1>35. CASE Served
      BY <1>35 DEF Served
<1>36. ASSUME NEW c \in Conns, AcceptPolled(c) PROVE Ticking'
      BY <1>36 DEF AcceptPolled, CreateConnection, AddToTable, Goto
<1>37. ASSUME NEW c \in Conns, TickAsks(c) PROVE Ticking'
      BY <1>37 DEF TickAsks, Happened
<1> QED BY <1>1, <1>2, <1>3, <1>4, <1>5, <1>6, <1>7, <1>8, <1>9, <1>10, <1>11,
            <1>12, <1>13, <1>14, <1>15, <1>16, <1>17, <1>18, <1>19,
            <1>20, <1>21, <1>22, <1>23, <1>24, <1>25, <1>26, <1>27,
            <1>28, <1>29, <1>30, <1>31, <1>32, <1>33, <1>34, <1>35, <1>36, <1>37
       DEF Next, AppWaits, ListenerThread, ConnectionThread

(* The table. *)
LEMMA CountedStep ==
  ASSUME IInv, [Next]_vars
  PROVE  Counted'
<1> USE LifecycleAssumption DEF IInv, TypeOK, Setup, Phases, Counted, Limited, Live, config, flags, server, table, queues, connection
<1>1. CASE Start
  <2>1. listener \notin {"create", "add", "run"} /\ app # "freed"
        /\ UNCHANGED <<maxOpenConnections, table, thread>>
        /\ listener' = "open" /\ app' = "start"
        BY <1>1 DEF Start, InitializeQueues
  <2>2. Live' = Live
        BY <2>1
  <2> QED BY <2>1, <2>2
<1>2. CASE StartReturns
  <2>1. UNCHANGED <<config, table, thread, listener, incoming>> 
        /\ app = "start" /\ app' = "idle"
        BY <1>2 DEF StartReturns
  <2>2. Live' = Live
        BY <2>1
  <2> QED BY <2>1, <2>2
<1>3. CASE Stop
      BY <1>3 DEF Stop, RequestStop
<1>4. CASE StopReturns
      BY <1>4 DEF StopReturns
<1>5. CASE DestroyRunning
      BY <1>5 DEF DestroyRunning, RequestStop
<1>6. CASE DestroyStopped
      BY <1>6 DEF DestroyStopped
<1>7. CASE DestroyStopReturns
      BY <1>7 DEF DestroyStopReturns
<1>8. CASE CloseAll
      BY <1>8 DEF CloseAll, Happened
<1>9. CASE Free
  <2>1. Limited => Cardinality(masterConnections) \in Nat
        BY FS_CardinalityType
  <2>2. UNCHANGED <<config, table, thread, listener, incoming>> /\ openConnections <= 0
        /\ app = "destroyWait" /\ app' = "freed"
        BY <1>9 DEF Free
  <2>3. Live' = Live
        BY <2>2
  <2>4. Limited => masterConnections = {}
        BY <2>1, <2>2, FS_EmptySet
  <2> QED BY <2>1, <2>2, <2>3, <2>4
<1>10. CASE OpenSocket
      BY <1>10 DEF OpenSocket
<1>11. CASE OpenSocketFails
      BY <1>11 DEF OpenSocketFails
<1>12. CASE Refuse
      BY <1>12 DEF Refuse
<1>13. CASE Create
      BY <1>13 DEF Create, CreateConnection
<1>14. CASE AddOpenConnection
  <2> SUFFICES ASSUME Limited PROVE Counted'
      BY <1>14 DEF AddOpenConnection, AddToTable
  <2>1. /\ listener = "add" /\ listener' = "run" /\ incoming' = incoming
        /\ UNCHANGED <<config, thread>> /\ app' = app
        BY <1>14 DEF AddOpenConnection, AddToTable
  <2>2. openConnections < maxOpenConnections /\ openConnections < TableSize
        BY <2>1
  <2>3. /\ masterConnections' = masterConnections \union {incoming}
        /\ openConnections' = openConnections + 1
        BY <1>14, <2>2 DEF AddOpenConnection, AddToTable
  <2>4. incoming \in Conns /\ incoming \notin masterConnections
        BY <2>1
  <2>5. IsFiniteSet(masterConnections')
        /\ Cardinality(masterConnections') = Cardinality(masterConnections) + 1
        BY <2>3, <2>4, FS_AddElement
  <2>6. Live' = Live \union {incoming}
        BY <2>1, <2>4
  <2>7. app # "freed"
        BY <2>1
  <2> QED BY <2>1, <2>2, <2>3, <2>5, <2>6, <2>7
<1>15. CASE StartThread
      BY <1>15 DEF StartThread, Goto
<1>16. CASE LeaveLoop
      BY <1>16 DEF LeaveLoop
<1>17. CASE ListenerEnds
      BY <1>17 DEF ListenerEnds
<1>18. ASSUME NEW c \in Conns, Accept(c) PROVE Counted'
  <2>1. /\ listener = "accept" /\ listener' = "create" /\ incoming' = c
        /\ UNCHANGED <<config, table, thread, app>>
        /\ Limited => openConnections < maxOpenConnections
        BY <1>18 DEF Accept, BelowLimit
  <2>2. Live' = Live
        BY <2>1
  <2> QED BY <2>1, <2>2
<1>19. ASSUME NEW c \in Conns, Close(c) PROVE Counted'
      BY <1>19 DEF Close
<1>20. ASSUME NEW c \in Conns, Activate(c) PROVE Counted'
      BY <1>20 DEF Activate, Goto
<1>21. ASSUME NEW c \in Conns, HandlerAsks(c) PROVE Counted'
      BY <1>21 DEF HandlerAsks, Happened, Goto
<1>22. ASSUME NEW c \in Conns, EnterLoop(c) PROVE Counted'
      BY <1>22 DEF EnterLoop, Goto
<1>23. ASSUME NEW c \in Conns, EnterTurn(c) PROVE Counted'
      BY <1>23 DEF EnterTurn, Goto
<1>24. ASSUME NEW c \in Conns, Activated(c) PROVE Counted'
      BY <1>24 DEF Activated, Goto
<1>25. ASSUME NEW c \in Conns, EndTurn(c) PROVE Counted'
      BY <1>25 DEF EndTurn, Goto
<1>26. ASSUME NEW c \in Conns, LeaveThreadLoop(c) PROVE Counted'
      BY <1>26 DEF LeaveThreadLoop, Goto
<1>27. ASSUME NEW c \in Conns, RemoveConnection(c) PROVE Counted'
  <2> SUFFICES ASSUME Limited PROVE Counted'
      BY <1>27 DEF RemoveConnection
  <2>1. /\ thread[c] = "remove" /\ thread' = [thread EXCEPT ![c] = "ended"]
        /\ openConnections' = openConnections - 1
        /\ masterConnections' = masterConnections \ {c}
        /\ UNCHANGED <<config, listener, incoming, app>>
        BY <1>27 DEF RemoveConnection, Goto
  <2>2. c \in masterConnections
        BY <2>1
  <2>3. IsFiniteSet(masterConnections')
        /\ Cardinality(masterConnections') = Cardinality(masterConnections) - 1
        BY <2>1, <2>2, FS_RemoveElement
  <2>4. listener = "run" => incoming # c
        BY <2>1
  <2>5. Live' = Live \ {c}
        BY <2>1, <2>4
  <2>6. app # "freed" /\ Cardinality(masterConnections') \in Nat
        BY <2>2, <2>3, FS_CardinalityType
  <2> QED BY <2>1, <2>3, <2>5, <2>6
<1>28. CASE UNCHANGED vars
      BY <1>28 DEF vars
<1>29. CASE StartThreadless
      BY <1>29 DEF StartThreadless, InitializeQueues, Happened
<1>30. CASE StopThreadless
      BY <1>30 DEF StopThreadless, CloseSocket
<1>31. CASE DestroyThreadless
      BY <1>31 DEF DestroyThreadless, CloseSocket
<1>32. CASE Tick
      BY <1>32 DEF Tick
<1>33. CASE FreePolled
  <2> SUFFICES ASSUME Limited PROVE Counted'
      BY <1>33 DEF FreePolled
  <2>1. /\ app' = "freed" /\ masterConnections' = {}
        /\ thread' = [c \in Conns |-> IF c \in masterConnections THEN "ended" ELSE thread[c]]
        /\ UNCHANGED <<config, openConnections, listener, incoming>> /\ isThreadlessMode
        BY <1>33 DEF FreePolled
  <2>2. Live' = {} /\ IsFiniteSet({})
        BY <2>1, FS_EmptySet DEF Ticking
  <2> QED BY <2>1, <2>2 DEF Ticking
<1>34. CASE Sweep
  <2> SUFFICES ASSUME Limited PROVE Counted'
      BY <1>34 DEF Sweep
  <2> DEFINE closed == {c \in masterConnections : ~running[c]}
  <2>1. /\ app = "tick" /\ app' = "serve"
        /\ thread' = [c \in Conns |-> IF c \in closed THEN "ended" ELSE thread[c]]
        /\ masterConnections' = masterConnections \ closed
        /\ openConnections' = openConnections - Cardinality(closed)
        /\ UNCHANGED <<config, listener, incoming>>
        BY <1>34 DEF Sweep
  <2>2. /\ IsFiniteSet(masterConnections) /\ closed \subseteq masterConnections
        /\ Cardinality(masterConnections) \in Nat
        BY FS_CardinalityType
  <2>3. IsFiniteSet(closed) /\ Cardinality(closed) \in Nat
        /\ Cardinality(closed) <= Cardinality(masterConnections)
        BY <2>2, FS_Subset, FS_CardinalityType
  <2>4. /\ IsFiniteSet(masterConnections')
        /\ Cardinality(masterConnections') = Cardinality(masterConnections) - Cardinality(closed)
    <3>1. masterConnections \cap closed = closed
          BY <2>2
    <3> QED BY <2>1, <2>2, <3>1, FS_Difference
  <2>5. listener = "none"
        BY <2>1 DEF Ticking
  <2>6. Live' = Live \ closed
        BY <2>1, <2>5
  <2> HIDE DEF closed
  <2> QED BY <2>1, <2>2, <2>3, <2>4, <2>5, <2>6
<1>35. CASE Served
      BY <1>35 DEF Served
<1>36. ASSUME NEW c \in Conns, AcceptPolled(c) PROVE Counted'
  <2> SUFFICES ASSUME Limited PROVE Counted'
      BY <1>36 DEF AcceptPolled
  <2>1. /\ app = "idle" /\ app' = "tick" /\ isThreadlessMode
        /\ thread[c] = "none" /\ thread' = [thread EXCEPT ![c] = "polled"]
        /\ UNCHANGED <<config, listener, incoming>>
        /\ openConnections < maxOpenConnections
        BY <1>36 DEF AcceptPolled, BelowLimit, Goto
  <2>2. openConnections < TableSize /\ listener = "none"
        BY <2>1 DEF Ticking
  <2>3. /\ masterConnections' = masterConnections \union {c}
        /\ openConnections' = openConnections + 1
        BY <1>36, <2>1, <2>2 DEF AcceptPolled, AddToTable
  <2>4. c \notin masterConnections
        BY <2>1, <2>2
  <2>5. IsFiniteSet(masterConnections')
        /\ Cardinality(masterConnections') = Cardinality(masterConnections) + 1
        BY <2>3, <2>4, FS_AddElement
  <2>6. Live' = Live \union {c}
        BY <2>1, <2>2
  <2> QED BY <2>1, <2>2, <2>3, <2>5, <2>6
<1>37. ASSUME NEW c \in Conns, TickAsks(c) PROVE Counted'
      BY <1>37 DEF TickAsks, Happened
<1> QED BY <1>1, <1>2, <1>3, <1>4, <1>5, <1>6, <1>7, <1>8, <1>9, <1>10, <1>11,
            <1>12, <1>13, <1>14, <1>15, <1>16, <1>17, <1>18, <1>19,
            <1>20, <1>21, <1>22, <1>23, <1>24, <1>25, <1>26, <1>27,
            <1>28, <1>29, <1>30, <1>31, <1>32, <1>33, <1>34, <1>35, <1>36, <1>37
       DEF Next, AppWaits, ListenerThread, ConnectionThread

(* What both start functions do to the queues. *)
LEMMA QueuesFit ==
  ASSUME TypeOK, Setup, Phases, Ticking, Sharing, InitializeQueues,
         listener' = listener \/ listener' = "open"
  PROVE  Sharing'
<1>1. /\ serverMode' = serverMode /\ starts' = starts + 1 /\ starts \in Nat
      /\ asduQueue' = QueueAfterStart /\ asduQueue \in Nat
      /\ UNCHANGED <<thread, queueOf, incoming>>
      BY DEF InitializeQueues, TypeOK, connection, queues
<1>2. listener \notin {"add", "run"}
      BY DEF InitializeQueues, Phases, Ticking
<1>3. \A c \in Conns : Joined(c)' <=> Joined(c)
      BY <1>1, <1>2 DEF Joined
<1>4. \A c \in Conns : Joined(c) => c \in Live /\ starts # 0
      BY <1>2 DEF Joined, Live, Ticking
<1>5. history \subseteq history' /\ (Live # {} => "startedOver" \in history')
      BY DEF InitializeQueues, Happened
<1>6. CASE serverMode = "single"
  <2>1. asduQueue' # 0
        BY <1>1, <1>6 DEF QueueAfterStart
  <2>2. "startedOver" \in history' \/ \A c \in Conns : ~Joined(c)'
        BY <1>3, <1>4, <1>5
  <2> QED BY <2>1, <2>2, <1>1, <1>6 DEF Sharing
<1>7. CASE serverMode = "multiple"
  <2>1. asduQueue' # 0 /\ (starts # 0 => asduQueue' = asduQueue)
        BY <1>1, <1>7 DEF QueueAfterStart, Sharing
  <2>2. \A c \in Conns : Joined(c)' => queueOf[c]' = asduQueue'
        BY <2>1, <1>1, <1>3, <1>4, <1>7 DEF Sharing
  <2> QED BY <2>1, <2>2, <1>1, <1>7 DEF Sharing
<1>8. CASE serverMode = "perConnection"
      BY <1>1, <1>8 DEF Sharing
<1> QED BY <1>6, <1>7, <1>8 DEF TypeOK, Mode

(* A start leaves connections from before with queues that are not the      *)
(* server's only in single mode, and then says so; all others keep theirs.    *)
LEMMA SharingStep ==
  ASSUME TypeOK, Setup, Phases, Ticking, Sharing, [Next]_vars
  PROVE  Sharing'
<1> USE DEF TypeOK, Setup, Sharing, Joined, History, config, flags, server, table, queues, connection
<1>1. CASE Start
      BY <1>1, QueuesFit DEF Start
<1>2. CASE StartReturns
      BY <1>2 DEF StartReturns
<1>3. CASE Stop
      BY <1>3 DEF Stop, RequestStop
<1>4. CASE StopReturns
      BY <1>4 DEF StopReturns
<1>5. CASE DestroyRunning
      BY <1>5 DEF DestroyRunning, RequestStop
<1>6. CASE DestroyStopped
      BY <1>6 DEF DestroyStopped
<1>7. CASE DestroyStopReturns
      BY <1>7 DEF DestroyStopReturns
<1>8. CASE CloseAll
      BY <1>8 DEF CloseAll, Happened
<1>9. CASE Free
      BY <1>9 DEF Free
<1>10. CASE OpenSocket
      BY <1>10 DEF OpenSocket
<1>11. CASE OpenSocketFails
      BY <1>11 DEF OpenSocketFails
<1>12. CASE Refuse
      BY <1>12 DEF Refuse
<1>13. CASE Create
      BY <1>13 DEF Create, CreateConnection
<1>14. CASE AddOpenConnection
      BY <1>14 DEF AddOpenConnection, AddToTable
<1>15. CASE StartThread
      BY <1>15 DEF StartThread, Goto
<1>16. CASE LeaveLoop
      BY <1>16 DEF LeaveLoop
<1>17. CASE ListenerEnds
      BY <1>17 DEF ListenerEnds
<1>18. ASSUME NEW c \in Conns, Accept(c) PROVE Sharing'
      BY <1>18 DEF Accept
<1>19. ASSUME NEW c \in Conns, Close(c) PROVE Sharing'
      BY <1>19 DEF Close
<1>20. ASSUME NEW c \in Conns, Activate(c) PROVE Sharing'
      BY <1>20 DEF Activate, Goto
<1>21. ASSUME NEW c \in Conns, HandlerAsks(c) PROVE Sharing'
      BY <1>21 DEF HandlerAsks, Happened, Goto
<1>22. ASSUME NEW c \in Conns, EnterLoop(c) PROVE Sharing'
      BY <1>22 DEF EnterLoop, Goto
<1>23. ASSUME NEW c \in Conns, EnterTurn(c) PROVE Sharing'
      BY <1>23 DEF EnterTurn, Goto
<1>24. ASSUME NEW c \in Conns, Activated(c) PROVE Sharing'
      BY <1>24 DEF Activated, Goto
<1>25. ASSUME NEW c \in Conns, EndTurn(c) PROVE Sharing'
      BY <1>25 DEF EndTurn, Goto
<1>26. ASSUME NEW c \in Conns, LeaveThreadLoop(c) PROVE Sharing'
      BY <1>26 DEF LeaveThreadLoop, Goto
<1>27. ASSUME NEW c \in Conns, RemoveConnection(c) PROVE Sharing'
      BY <1>27 DEF RemoveConnection, Goto
<1>28. CASE UNCHANGED vars
      BY <1>28 DEF vars
<1>29. CASE StartThreadless
      BY <1>29, QueuesFit DEF StartThreadless
<1>30. CASE StopThreadless
      BY <1>30 DEF StopThreadless, CloseSocket
<1>31. CASE DestroyThreadless
      BY <1>31 DEF DestroyThreadless, CloseSocket
<1>32. CASE Tick
      BY <1>32 DEF Tick
<1>33. CASE FreePolled
      BY <1>33 DEF FreePolled
<1>34. CASE Sweep
      BY <1>34 DEF Sweep
<1>35. CASE Served
      BY <1>35 DEF Served
<1>36. ASSUME NEW c \in Conns, AcceptPolled(c) PROVE Sharing'
      BY <1>36 DEF AcceptPolled, CreateConnection, AddToTable, Goto
<1>37. ASSUME NEW c \in Conns, TickAsks(c) PROVE Sharing'
      BY <1>37 DEF TickAsks, Happened
<1> QED BY <1>1, <1>2, <1>3, <1>4, <1>5, <1>6, <1>7, <1>8, <1>9, <1>10, <1>11,
            <1>12, <1>13, <1>14, <1>15, <1>16, <1>17, <1>18, <1>19,
            <1>20, <1>21, <1>22, <1>23, <1>24, <1>25, <1>26, <1>27,
            <1>28, <1>29, <1>30, <1>31, <1>32, <1>33, <1>34, <1>35, <1>36, <1>37
       DEF Next, AppWaits, ListenerThread, ConnectionThread

(* What both start functions do to the groups. *)
LEMMA GroupsFit ==
  ASSUME TypeOK, Setup, Phases, Ticking, Grouped, InitializeQueues,
         listener' = listener \/ listener' = "open"
  PROVE  Grouped'
<1>1. /\ serverMode' = serverMode /\ UNCHANGED <<thread, group, incoming>>
      /\ serverMode = "multiple" => redundancyGroups' = InitializedGroups(redundancyGroups)
      BY DEF InitializeQueues, connection, queues
<1>2. listener \notin {"add", "run"}
      BY DEF InitializeQueues, Phases, Ticking
<1>3. \A c \in Conns : Joined(c)' <=> Joined(c)
      BY <1>1, <1>2 DEF Joined
<1> SUFFICES ASSUME serverMode = "multiple", NEW c \in Conns, Joined(c)
             PROVE  /\ group[c] \in DOMAIN redundancyGroups'
                    /\ Belongs(redundancyGroups', AddressOf[c], group[c])
    BY <1>1, <1>3 DEF Grouped
<1>4. group[c] \in DOMAIN redundancyGroups /\ Belongs(redundancyGroups, AddressOf[c], group[c])
      BY DEF Grouped
<1>5. redundancyGroups # << >>
      BY <1>4
<1>6. redundancyGroups' = redundancyGroups
      BY <1>1, <1>5 DEF InitializedGroups
<1> QED BY <1>4, <1>6

(* The group that createEx is given. *)
LEMMA CreatedBelongs ==
  ASSUME TypeOK, Grouped, NEW c \in Conns, CreateConnection(c), UNCHANGED config,
         \A d \in Conns : Joined(d)' => d = c \/ Joined(d)
  PROVE  Grouped'
<1>1. serverMode' = serverMode /\ redundancyGroups' = redundancyGroups
      BY DEF config
<1> SUFFICES ASSUME serverMode = "multiple", NEW d \in Conns, Joined(d)'
             PROVE  /\ group'[d] \in DOMAIN redundancyGroups
                    /\ Belongs(redundancyGroups, AddressOf[d], group'[d])
    BY <1>1 DEF Grouped
<1>2. PICK sameRest \in SUBSET DOMAIN redundancyGroups, g \in DOMAIN redundancyGroups :
        /\ g = MatchingGroup(redundancyGroups, AddressOf[c], sameRest)
        /\ group' = [group EXCEPT ![c] = g]
      BY DEF CreateConnection
<1>3. redundancyGroups \in Seq(SUBSET Addresses) /\ group \in [Conns -> Nat]
      BY DEF TypeOK
<1>4. g \in DOMAIN redundancyGroups /\ Belongs(redundancyGroups, AddressOf[c], g)
      BY <1>2, <1>3, MatchingBelongs
<1>5. CASE d = c
      BY <1>2, <1>3, <1>4, <1>5
<1>6. CASE d # c
  <2>1. group'[d] = group[d] /\ Joined(d)
        BY <1>2, <1>3, <1>6
  <2> QED BY <2>1 DEF Grouped
<1> QED BY <1>5, <1>6

(* A connection belongs to its group from its creation on. *)
LEMMA GroupedStep ==
  ASSUME TypeOK, Setup, Phases, Ticking, Grouped, [Next]_vars
  PROVE  Grouped'
<1> USE DEF TypeOK, Setup, Grouped, Joined, History, config, flags, server, table, queues, connection
<1>1. CASE Start
      BY <1>1, GroupsFit DEF Start
<1>2. CASE StartReturns
      BY <1>2 DEF StartReturns
<1>3. CASE Stop
      BY <1>3 DEF Stop, RequestStop
<1>4. CASE StopReturns
      BY <1>4 DEF StopReturns
<1>5. CASE DestroyRunning
      BY <1>5 DEF DestroyRunning, RequestStop
<1>6. CASE DestroyStopped
      BY <1>6 DEF DestroyStopped
<1>7. CASE DestroyStopReturns
      BY <1>7 DEF DestroyStopReturns
<1>8. CASE CloseAll
      BY <1>8 DEF CloseAll, Happened
<1>9. CASE Free
      BY <1>9 DEF Free
<1>10. CASE OpenSocket
      BY <1>10 DEF OpenSocket
<1>11. CASE OpenSocketFails
      BY <1>11 DEF OpenSocketFails
<1>12. CASE Refuse
      BY <1>12 DEF Refuse
<1>13. CASE Create
  <2>1. /\ listener = "create" /\ listener' = "add" /\ CreateConnection(incoming)
        /\ UNCHANGED <<config, incoming, thread>> /\ incoming \in Conns
        BY <1>13 DEF Create, Listener
  <2>2. \A c \in Conns : Joined(c)' => c = incoming \/ Joined(c)
        BY <2>1
  <2> QED BY <2>1, <2>2, CreatedBelongs
<1>14. CASE AddOpenConnection
      BY <1>14 DEF AddOpenConnection, AddToTable
<1>15. CASE StartThread
      BY <1>15 DEF StartThread, Goto
<1>16. CASE LeaveLoop
      BY <1>16 DEF LeaveLoop
<1>17. CASE ListenerEnds
      BY <1>17 DEF ListenerEnds
<1>18. ASSUME NEW c \in Conns, Accept(c) PROVE Grouped'
      BY <1>18 DEF Accept
<1>19. ASSUME NEW c \in Conns, Close(c) PROVE Grouped'
      BY <1>19 DEF Close
<1>20. ASSUME NEW c \in Conns, Activate(c) PROVE Grouped'
      BY <1>20 DEF Activate, Goto
<1>21. ASSUME NEW c \in Conns, HandlerAsks(c) PROVE Grouped'
      BY <1>21 DEF HandlerAsks, Happened, Goto
<1>22. ASSUME NEW c \in Conns, EnterLoop(c) PROVE Grouped'
      BY <1>22 DEF EnterLoop, Goto
<1>23. ASSUME NEW c \in Conns, EnterTurn(c) PROVE Grouped'
      BY <1>23 DEF EnterTurn, Goto
<1>24. ASSUME NEW c \in Conns, Activated(c) PROVE Grouped'
      BY <1>24 DEF Activated, Goto
<1>25. ASSUME NEW c \in Conns, EndTurn(c) PROVE Grouped'
      BY <1>25 DEF EndTurn, Goto
<1>26. ASSUME NEW c \in Conns, LeaveThreadLoop(c) PROVE Grouped'
      BY <1>26 DEF LeaveThreadLoop, Goto
<1>27. ASSUME NEW c \in Conns, RemoveConnection(c) PROVE Grouped'
      BY <1>27 DEF RemoveConnection, Goto
<1>28. CASE UNCHANGED vars
      BY <1>28 DEF vars
<1>29. CASE StartThreadless
      BY <1>29, GroupsFit DEF StartThreadless
<1>30. CASE StopThreadless
      BY <1>30 DEF StopThreadless, CloseSocket
<1>31. CASE DestroyThreadless
      BY <1>31 DEF DestroyThreadless, CloseSocket
<1>32. CASE Tick
      BY <1>32 DEF Tick
<1>33. CASE FreePolled
      BY <1>33 DEF FreePolled
<1>34. CASE Sweep
      BY <1>34 DEF Sweep
<1>35. CASE Served
      BY <1>35 DEF Served
<1>36. ASSUME NEW c \in Conns, AcceptPolled(c) PROVE Grouped'
  <2>1. /\ CreateConnection(c) /\ UNCHANGED <<config, listener, incoming>>
        /\ thread' = [thread EXCEPT ![c] = "polled"]
        BY <1>36 DEF AcceptPolled, Goto
  <2>2. \A d \in Conns : Joined(d)' => d = c \/ Joined(d)
        BY <2>1
  <2> QED BY <2>1, <2>2, CreatedBelongs
<1>37. ASSUME NEW c \in Conns, TickAsks(c) PROVE Grouped'
      BY <1>37 DEF TickAsks, Happened
<1> QED BY <1>1, <1>2, <1>3, <1>4, <1>5, <1>6, <1>7, <1>8, <1>9, <1>10, <1>11,
            <1>12, <1>13, <1>14, <1>15, <1>16, <1>17, <1>18, <1>19,
            <1>20, <1>21, <1>22, <1>23, <1>24, <1>25, <1>26, <1>27,
            <1>28, <1>29, <1>30, <1>31, <1>32, <1>33, <1>34, <1>35, <1>36, <1>37
       DEF Next, AppWaits, ListenerThread, ConnectionThread

LEMMA NextIInv == IInv /\ [Next]_vars => IInv'
BY TypeStep, SetupStep, PhasesStep, TickingStep, SharingStep, GroupedStep, CountedStep DEF IInv

LEMMA Invariance == Spec => []IInv
BY InitIInv, NextIInv, PTL DEF Spec

(* Every variable keeps its type. *)
THEOREM TypeCorrect == Spec => []TypeOK
<1>1. IInv => TypeOK
      BY DEF IInv
<1> QED BY <1>1, Invariance, PTL

(* Table and counter are exact: destroy closes and counts every connection    *)
(* that has a thread.                                                         *)
THEOREM TableCorrect == Spec => []TableIsLive
<1>1. IInv => TableIsLive
      BY DEF IInv, Counted, TableIsLive
<1> QED BY <1>1, Invariance, PTL

(* There are never more connections than the limit. *)
THEOREM LimitCorrect == Spec => []WithinLimit
<1>1. IInv => WithinLimit
      BY DEF IInv, Counted, WithinLimit
<1> QED BY <1>1, Invariance, PTL

(* Nobody is left when the server is freed. *)
THEOREM FreedCorrect == Spec => []FreedAlone
<1>1. ASSUME IInv PROVE FreedAlone
  <2>1. CASE Limited /\ app = "freed"
    <3>1. masterConnections = {} /\ masterConnections = Live /\ listener = "none"
          BY <1>1, <2>1 DEF IInv, Counted, Phases
    <3> QED BY <3>1 DEF FreedAlone
  <2> QED BY <2>1 DEF FreedAlone
<1> QED BY <1>1, Invariance, PTL

(* All open connections send from the server's event queue, unless it was     *)
(* started anew over them.                                                    *)
THEOREM QueueShared == Spec => []SharedQueue
<1>1. ASSUME IInv PROVE SharedQueue
  <2>1. \A c \in Live : c \in Conns /\ Joined(c) /\ starts # 0
        BY <1>1 DEF IInv, Ticking, Live, Joined
  <2> QED BY <2>1, <1>1 DEF IInv, Sharing, SharedQueue, TypeOK
<1> QED BY <1>1, Invariance, PTL

(* A client is in the first of the groups that list it, or in one for         *)
(* everybody, for any list of groups (getMatchingRedundancyGroup).            *)
THEOREM GroupCorrect == Spec => []GroupOfAddress
<1>1. ASSUME IInv PROVE GroupOfAddress
  <2>1. \A c \in Live : c \in Conns /\ Joined(c)
        BY DEF Live, Joined
  <2>2. ASSUME NEW c \in Live, serverMode = "multiple"
        PROVE  Belongs(redundancyGroups, AddressOf[c], group[c])
        BY <1>1, <2>1, <2>2 DEF IInv, Grouped
  <2> QED BY <2>2 DEF GroupOfAddress, Belongs
<1> QED BY <1>1, Invariance, PTL

(* The table is not changed while the semaphore is held. *)
THEOREM LockProtects == Spec => LockProtectsTable
<1>1. IInv /\ [Next]_vars => [lock # Nobody => UNCHANGED table]_vars
  <2> SUFFICES ASSUME IInv, Next, lock # Nobody
               PROVE  UNCHANGED table
      OBVIOUS
  <2>1. ~CloseAll /\ ~Free /\ ~AddOpenConnection
        BY DEF CloseAll, Free, AddOpenConnection, AddToTable
  <2>2. \A c \in Conns : ~RemoveConnection(c) /\ ~AcceptPolled(c)
        BY DEF RemoveConnection, AcceptPolled, AddToTable
  <2>3. ~Sweep /\ ~FreePolled
        BY DEF IInv, Ticking, Sweep, FreePolled
  <2> QED BY <2>1, <2>2, <2>3
          DEF Next, AppWaits, ListenerThread, ConnectionThread, Start, StartReturns, Stop,
              RequestStop, StopReturns, DestroyRunning, DestroyStopped, DestroyStopReturns,
              OpenSocket, OpenSocketFails, Refuse, Create, StartThread, LeaveLoop, ListenerEnds,
              Accept, Close, Activate, HandlerAsks, EnterLoop, EnterTurn, Activated, EndTurn,
              LeaveThreadLoop, StartThreadless, InitializeQueues, StopThreadless,
              DestroyThreadless, CloseSocket, Tick, Served, TickAsks
<1> QED BY <1>1, Invariance, PTL DEF Spec, LockProtectsTable
=============================================================================
