-------------------------- MODULE HostedWorkersProofs --------------------------
(***************************************************************************)
(* Machine-checked theorems on HostedWorkers, for every number of workers, *)
(* channels, interventions, epochs, viewers and calls: routing ends before *)
(* the Human period does, registry and worker agree, and nothing of a      *)
(* Human period that is over is carried out.  The inductive invariant is   *)
(* one of the behaviours in which the consumer has bound no route while it *)
(* awaited its revocation; that routes have a connected worker holds       *)
(* in all of them.  Sequences come first, then the lifecycle and the       *)
(* connections, then one lemma per operation of the control channel.       *)
(***************************************************************************)
EXTENDS HostedWorkers, SequenceTheorems, TLAPS

--------------------------------------------------------------------------------
\* The inductive invariant, in its parts.

HumanLease == [iv: Interventions, epoch: Nat \ {0}, conn: Connections]

OpenCall == [kind: {"open"}, pc: {"send"}, chan: Nat]
BindCall == [kind: {"bind"}, pc: {"send"}, chan: Nat, lease: HumanLease]
RevokeCall == [kind: {"revoke"}, pc: {"notify", "send"}, chan: Nat, lease: HumanLease,
               then: {"return", "complete", "cancel"}, id: Nat, failed: BOOLEAN]
Channel == [worker: Workers, gen: Generations, state: {"opening", "open", "fenced"}]

LifecycleTypeOK ==
    /\ epoch \in Nat /\ issued \in 0..MaxIssued
    /\ active \in Intervention \union {NoIntervention}
    /\ Suspended => active.id \in Interventions /\ active.epoch # 0

HostedTypeOK ==
    /\ LifecycleTypeOK
    /\ registered \in [Workers -> Nat] /\ generation \in [Workers -> Nat]
    /\ routes \in [Interventions -> [worker: Workers \union {"none"}, gen: Nat, epoch: Nat,
                                     active: BOOLEAN]]
    /\ \A i \in Interventions :
          routes[i].active \/ routes[i].epoch # 0 => LeaseOf(i) \in HumanLease
    /\ channels \in Seq(Channel) /\ Len(channels) <= MaxChannels
    /\ wire \in [Connections -> Seq(Tasks)]
    /\ gate \in [Connections -> [Interventions -> Nat]]
    /\ task \in [Tasks -> {Idle} \union OpenCall \union BindCall \union RevokeCall]

DataTypeOK ==
    /\ viewer \in Nat
    /\ binding = NoBinding
         \/ binding \in [viewer: Nat, lease: HumanLease, closed: BOOLEAN]
    /\ input = NoInput
         \/ input \in [state: {"awaited", "stray", "frame"}, lease: HumanLease]
    /\ input.state = "awaited" => binding # NoBinding

\* Generations are handed out one after another, and a fenced channel's is over.
ChannelInv ==
    /\ \A w \in Workers : registered[w] \in {0, generation[w]} /\ generation[w] <= Len(channels)
    /\ \A k \in DOMAIN channels :
          /\ channels[k].gen <= generation[channels[k].worker]
          /\ channels[k].state = "fenced" =>
                registered[channels[k].worker] # channels[k].gen

\* A call is about a route that was bound to the worker of its own channel; a
\* revocation found it active and released it.
CallInv == \A t \in Tasks :
    /\ task[t].kind # "idle" => task[t].chan \in DOMAIN channels
    /\ task[t].kind \in {"bind", "revoke"} =>
          /\ task[t].lease.conn = Conn(task[t].chan)
          /\ routes[task[t].lease.iv].worker = task[t].lease.conn[1]
          /\ routes[task[t].lease.iv].epoch # 0
    /\ task[t].kind = "revoke" =>
          /\ ~routes[task[t].lease.iv].active
          /\ task[t].then # "return" => task[t].id = task[t].lease.iv

Binds(t, i) == task[t].kind = "bind" /\ task[t].lease.iv = i
Revokes(t, i) == task[t].kind = "revoke" /\ task[t].lease.iv = i

\* t's message is on the wire of c, and u's is behind it.
UnderWay(t, c) == \E j \in DOMAIN wire[c] : wire[c][j] = t
Before(t, u, c) == \E j, k \in DOMAIN wire[c] : j < k /\ wire[c][j] = t /\ wire[c][k] = u

\* Each message is of one call on its connection, a bind is of a Human period that goes
\* on, and nothing is bound behind a revocation.
WireInv == \A c \in Connections, t \in Tasks :
    /\ UnderWay(t, c) =>
          /\ task[t].kind # "idle" /\ task[t].pc = "send" /\ Conn(task[t].chan) = c
          /\ task[t].kind = "bind" => Abandoned(c) \/ HumanPeriod(task[t].lease)
    /\ ~Before(t, t, c)
    /\ \A u \in Tasks, i \in Interventions :
          Before(t, u, c) => ~(Revokes(t, i) /\ Binds(u, i))

\* A worker that was not left behind takes input of the Human period of the moment only.
GateInv == \A c \in Connections, i \in Interventions :
    gate[c][i] # 0 =>
        /\ c[2] <= generation[c[1]] /\ routes[i].worker = c[1] /\ routes[i].epoch # 0
        /\ Abandoned(c) \/ HumanPeriod([iv |-> i, epoch |-> gate[c][i], conn |-> c])

RoutedTo(i, c) == routes[i].active /\ LeaseOf(i).conn = c
Released(i, c) == \E t \in Tasks : Revokes(t, i) /\ Conn(task[t].chan) = c
Bound(i, c) == \E t \in Tasks : UnderWay(t, c) /\ Binds(t, i)

\* What the messages under way will make of the gate is what the registry has.
AgreeInv == \A c \in Connections, i \in Interventions :
    registered[c[1]] = c[2] =>
        /\ RoutedTo(i, c) => gate[c][i] = routes[i].epoch \/ Bound(i, c)
        /\ ~RoutedTo(i, c) => gate[c][i] = 0 \/ Released(i, c)
        /\ Bound(i, c) => RoutedTo(i, c) \/ Released(i, c)

\* A route that is active is of the Human period of the moment and of a connected worker.
HumanRoutes ==
    \A i \in Interventions : routes[i].active =>
        /\ HumanPeriod(LeaseOf(i))
        /\ registered[routes[i].worker] = routes[i].gen

RouteInv ==
    /\ HostedTypeOK /\ ChannelInv /\ CallInv /\ HumanRoutes
    /\ WireInv /\ GateInv /\ AgreeInv

HostedInv == RouteInv /\ DataTypeOK /\ ~late
--------------------------------------------------------------------------------
\* Sequences: a message sent goes to the end of its wire, and one that leaves a wire
\* leaves the order of the others.
LEMMA Sent ==
    ASSUME wire \in [Connections -> Seq(Tasks)], NEW c \in Connections, NEW t \in Tasks,
           Send(c, t)
    PROVE  /\ wire' \in [Connections -> Seq(Tasks)]
           /\ \A u \in Tasks, d \in Connections :
                 UnderWay(u, d)' <=> UnderWay(u, d) \/ (d = c /\ u = t)
           /\ \A u, v \in Tasks, d \in Connections :
                 Before(u, v, d)' => Before(u, v, d) \/ (d = c /\ v = t /\ UnderWay(u, d))
<1> DEFINE s == wire[c]
           q == Append(wire[c], t)
<1>1. wire' = [wire EXCEPT ![c] = q] /\ s \in Seq(Tasks)
      BY DEF Send
<1>2. /\ q \in Seq(Tasks) /\ DOMAIN q = 1..Len(s) + 1 /\ DOMAIN s = 1..Len(s)
      /\ Len(s) \in Nat /\ q[Len(s) + 1] = t /\ \A j \in DOMAIN s : q[j] = s[j]
      BY <1>1
<1>3. wire'[c] = q /\ \A d \in Connections : d # c => wire'[d] = wire[d]
      BY <1>1
<1>4. wire' \in [Connections -> Seq(Tasks)]
      BY <1>1, <1>2
<1> HIDE DEF q
<1>5. /\ \A j \in DOMAIN s : j \in DOMAIN q /\ q[j] = s[j]
      /\ \A j \in DOMAIN q : j \in DOMAIN s \/ (q[j] = t /\ \A k \in DOMAIN q : ~(j < k))
      /\ Len(s) + 1 \in DOMAIN q
      BY <1>2
<1>6. ASSUME NEW u \in Tasks, NEW d \in Connections
      PROVE  UnderWay(u, d)' <=> UnderWay(u, d) \/ (d = c /\ u = t)
      BY <1>2, <1>3, <1>5 DEF UnderWay
<1>7. ASSUME NEW u \in Tasks, NEW v \in Tasks, NEW d \in Connections, Before(u, v, d)'
      PROVE  Before(u, v, d) \/ (d = c /\ v = t /\ UnderWay(u, d))
  <2>1. CASE d # c
        BY <1>3, <1>7, <2>1 DEF Before
  <2>2. CASE d = c
    <3>1. PICK j \in DOMAIN q, k \in DOMAIN q : j < k /\ q[j] = u /\ q[k] = v
          BY <1>3, <1>7, <2>2 DEF Before
    <3>2. j \in DOMAIN s /\ s[j] = u
          BY <1>5, <3>1
    <3> QED BY <1>5, <2>2, <3>1, <3>2 DEF Before, UnderWay
  <2> QED BY <2>1, <2>2
<1> QED BY <1>4, <1>6, <1>7

\* Where an entry of the wire was before the j-th entry of c's wire was removed.
Was(c, j, d, m) == IF d = c /\ m >= j THEN m + 1 ELSE m

LeavesWire(c, j) ==
    /\ wire' \in [Connections -> Seq(Tasks)]
    /\ \A d \in Connections : \A m \in DOMAIN wire'[d] :
          /\ Was(c, j, d, m) \in DOMAIN wire[d]
          /\ wire'[d][m] = wire[d][Was(c, j, d, m)]
          /\ d = c => Was(c, j, d, m) # j
          /\ \A n \in DOMAIN wire'[d] : m < n => Was(c, j, d, m) < Was(c, j, d, n)
    /\ \A d \in Connections : \A n \in DOMAIN wire[d] :
          d # c \/ n # j => \E m \in DOMAIN wire'[d] : wire'[d][m] = wire[d][n]

\* What is left of a chain when some of it is gone.
LEMMA Left ==
    ASSUME wire \in [Connections -> Seq(Tasks)], NEW c \in Connections,
           NEW j \in DOMAIN wire[c],
           wire' = [wire EXCEPT ![c] = SubSeq(@, 1, j - 1) \o SubSeq(@, j + 1, Len(@))]
    PROVE  LeavesWire(c, j)
<1> DEFINE s == wire[c]
           a == SubSeq(s, 1, j - 1)
           b == SubSeq(s, j + 1, Len(s))
           r == a \o b
<1>1. s \in Seq(Tasks) /\ j \in 1..Len(s) /\ Len(s) \in Nat /\ j \in Nat
      /\ \A m \in 1..Len(s) : s[m] \in Tasks
      OBVIOUS
<1>2. /\ a \in Seq(Tasks) /\ Len(a) = j - 1 /\ \A m \in 1..j - 1 : a[m] = s[m]
  <2>1. 1 \in Int /\ j - 1 \in Int /\ \A m \in 1..j - 1 : s[m] \in Tasks
        BY <1>1
  <2>2. /\ a \in Seq(Tasks) /\ Len(a) = (IF 1 <= j - 1 THEN j - 1 - 1 + 1 ELSE 0)
        /\ \A m \in 1..j - 1 - 1 + 1 : a[m] = s[1 + m - 1]
        BY <2>1, SubSeqProperties
  <2> QED BY <1>1, <2>2
<1>3. /\ b \in Seq(Tasks) /\ Len(b) = Len(s) - j /\ \A m \in 1..Len(s) - j : b[m] = s[j + m]
  <2>1. j + 1 \in Int /\ Len(s) \in Int /\ \A m \in j + 1..Len(s) : s[m] \in Tasks
        BY <1>1
  <2>2. /\ b \in Seq(Tasks) /\ Len(b) = (IF j + 1 <= Len(s) THEN Len(s) - (j + 1) + 1 ELSE 0)
        /\ \A m \in 1..Len(s) - (j + 1) + 1 : b[m] = s[j + 1 + m - 1]
        BY <2>1, SubSeqProperties
  <2> QED BY <1>1, <2>2
<1> HIDE DEF a, b
<1>4. /\ r \in Seq(Tasks) /\ Len(r) = Len(s) - 1
      /\ \A m \in 1..Len(s) - 1 : r[m] = IF m <= j - 1 THEN a[m] ELSE b[m - (j - 1)]
  <2>1. /\ r \in Seq(Tasks) /\ Len(r) = Len(a) + Len(b)
        /\ \A m \in 1..Len(a) + Len(b) : r[m] = IF m <= Len(a) THEN a[m] ELSE b[m - Len(a)]
        BY <1>2, <1>3, ConcatProperties
  <2>2. Len(a) + Len(b) = Len(s) - 1
        BY <1>1, <1>2, <1>3
  <2> QED BY <1>2, <2>1, <2>2
<1> HIDE DEF r
<1>5. \A m \in 1..Len(s) - 1 : r[m] = IF m >= j THEN s[m + 1] ELSE s[m]
  <2> SUFFICES ASSUME NEW m \in 1..Len(s) - 1
               PROVE  r[m] = IF m >= j THEN s[m + 1] ELSE s[m]
      OBVIOUS
  <2>1. CASE m >= j
    <3>1. m - (j - 1) \in 1..Len(s) - j /\ j + (m - (j - 1)) = m + 1 /\ ~(m <= j - 1)
          BY <1>1, <2>1
    <3> QED BY <1>3, <1>4, <2>1, <3>1
  <2>2. CASE m < j
    <3>1. m \in 1..j - 1 /\ m <= j - 1 /\ ~(m >= j)
          BY <1>1, <2>2
    <3> QED BY <1>2, <1>4, <3>1
  <2> QED BY <1>1, <2>1, <2>2
<1>6. wire'[c] = r /\ (\A d \in Connections : d # c => wire'[d] = wire[d])
      /\ wire' \in [Connections -> Seq(Tasks)]
      BY <1>4 DEF r, a, b
<1>7. DOMAIN r = 1..Len(s) - 1 /\ DOMAIN s = 1..Len(s)
      BY <1>1, <1>4
<1>8. \A d \in Connections : \A m \in DOMAIN wire'[d] :
          /\ Was(c, j, d, m) \in DOMAIN wire[d]
          /\ wire'[d][m] = wire[d][Was(c, j, d, m)]
          /\ d = c => Was(c, j, d, m) # j
  <2> SUFFICES ASSUME NEW d \in Connections, NEW m \in DOMAIN wire'[d]
               PROVE  /\ Was(c, j, d, m) \in DOMAIN wire[d]
                      /\ wire'[d][m] = wire[d][Was(c, j, d, m)]
                      /\ d = c => Was(c, j, d, m) # j
      OBVIOUS
  <2>1. CASE d = c
    <3>1. m \in 1..Len(s) - 1 /\ wire'[d][m] = r[m] /\ m \in Nat
      <4>1. wire'[d] = r
            BY <1>6, <2>1
      <4>2. m \in DOMAIN r
            BY <4>1
      <4>3. m \in 1..Len(s) - 1
            BY <1>7, <4>2
      <4>4. wire'[d][m] = r[m]
            BY <4>1, Zenon
      <4>5. \A n \in Nat : \A i \in 1..n - 1 : i \in Nat
            OBVIOUS
      <4>6. Len(s) \in Nat
            BY <1>1
      <4>7. m \in Nat
            BY <4>3, <4>5, <4>6, Zenon
      <4> QED BY <4>3, <4>4, <4>7, Zenon
    <3>2. CASE m >= j
      <4>1. Was(c, j, d, m) = m + 1 /\ m + 1 \in 1..Len(s) /\ m + 1 # j
            BY <1>1, <2>1, <3>1, <3>2 DEF Was
      <4> QED BY <1>5, <1>7, <2>1, <3>1, <3>2, <4>1
    <3>3. CASE ~(m >= j)
      <4>1. Was(c, j, d, m) = m /\ m \in 1..Len(s) /\ m # j
            BY <1>1, <2>1, <3>1, <3>3 DEF Was
      <4> QED BY <1>5, <1>7, <2>1, <3>1, <3>3, <4>1
    <3> QED BY <3>2, <3>3
  <2>2. CASE d # c
        BY <1>6, <2>2 DEF Was
  <2> QED BY <2>1, <2>2
<1>9. \A d \in Connections : \A m, n \in DOMAIN wire'[d] :
          m < n => Was(c, j, d, m) < Was(c, j, d, n)
  <2> SUFFICES ASSUME NEW d \in Connections, NEW m \in DOMAIN wire'[d],
                      NEW n \in DOMAIN wire'[d], m < n
               PROVE  Was(c, j, d, m) < Was(c, j, d, n)
      OBVIOUS
  <2>1. wire'[d] \in Seq(Tasks)
        BY <1>6
  <2>2. m \in Nat /\ n \in Nat
        BY <2>1
  <2> QED BY <1>1, <2>2 DEF Was
<1>10. \A d \in Connections : \A n \in DOMAIN wire[d] :
          d # c \/ n # j => \E m \in DOMAIN wire'[d] : wire'[d][m] = wire[d][n]
  <2> SUFFICES ASSUME NEW d \in Connections, NEW n \in DOMAIN wire[d], d # c \/ n # j
               PROVE  \E m \in DOMAIN wire'[d] : wire'[d][m] = wire[d][n]
      OBVIOUS
  <2>1. CASE d # c
        BY <1>6, <2>1
  <2>2. CASE d = c /\ n < j
    <3>1. n \in 1..Len(s) - 1 /\ ~(n >= j)
          BY <1>1, <1>7, <2>2
    <3>2. r[n] = s[n]
          BY <1>5, <3>1
    <3> QED BY <3>2, <1>6, <1>7, <2>2, <3>1
  <2>3. CASE d = c /\ n > j
    <3>1. n - 1 \in 1..Len(s) - 1 /\ n - 1 >= j /\ n - 1 + 1 = n
          BY <1>1, <1>7, <2>3
    <3>2. r[n - 1] = s[n]
          BY <1>5, <3>1
    <3> QED BY <1>6, <1>7, <2>3, <3>1, <3>2
  <2>4. d = c => n < j \/ n > j
        BY <1>1, <1>7
  <2> QED BY <2>1, <2>2, <2>3, <2>4
<1> QED BY <1>6, <1>8, <1>9, <1>10 DEF LeavesWire

\* The head of a chain of which something is left.
LEMMA HeadLeft ==
    ASSUME wire \in [Connections -> Seq(Tasks)], NEW c \in Connections, wire[c] # <<>>,
           wire' = [wire EXCEPT ![c] = Tail(@)]
    PROVE  1 \in DOMAIN wire[c] /\ wire[c][1] = Head(wire[c]) /\ LeavesWire(c, 1)
<1> DEFINE s == wire[c]
<1>1. s \in Seq(Tasks) /\ s # <<>>
      OBVIOUS
<1>2. Len(s) \in Nat \ {0} /\ 1 \in DOMAIN s /\ s[1] = Head(s)
      BY <1>1
<1>3. SubSeq(s, 1, 0) = <<>> /\ Tail(s) = SubSeq(s, 2, Len(s))
  <2>1. SubSeq(s, 1, 0) = <<>>
        BY SubSeqEmpty
  <2> QED BY <1>1, <2>1, TailIsSubSeq
<1>4. Tail(s) = <<>> \o Tail(s)
  <2>1. Tail(s) \in Seq(Tasks)
        BY <1>1
  <2> QED BY <2>1, ConcatEmptySeq
<1>5. 1 - 1 = 0 /\ 1 + 1 = 2
      OBVIOUS
<1>6. Tail(s) = SubSeq(s, 1, 1 - 1) \o SubSeq(s, 1 + 1, Len(s))
      BY <1>3, <1>4, <1>5
<1>7. wire' = [wire EXCEPT ![c] = SubSeq(@, 1, 1 - 1) \o SubSeq(@, 1 + 1, Len(@))]
      BY <1>6, Zenon
<1> QED BY <1>2, <1>7, Left

\* What that means for a message that is on its wire once: it is gone, and nothing else.
LEMMA MessageLeft ==
    ASSUME wire \in [Connections -> Seq(Tasks)], NEW c \in Connections,
           NEW t \in Tasks, NEW j \in DOMAIN wire[c], wire[c][j] = t, ~Before(t, t, c),
           LeavesWire(c, j)
    PROVE  /\ \A u \in Tasks, d \in Connections :
                 UnderWay(u, d)' <=> UnderWay(u, d) /\ ~(d = c /\ u = t)
           /\ \A u, v \in Tasks, d \in Connections : Before(u, v, d)' => Before(u, v, d)
           /\ j = 1 => \A u \in Tasks : UnderWay(u, c)' => Before(t, u, c)
<1>1. \A d \in Connections : wire[d] \in Seq(Tasks) /\ DOMAIN wire[d] \subseteq Nat
      OBVIOUS
<1>2. \A k \in DOMAIN wire[c] : k # j => wire[c][k] # t
  <2> SUFFICES ASSUME NEW k \in DOMAIN wire[c], k # j, wire[c][k] = t PROVE FALSE
      OBVIOUS
  <2>1. k < j \/ j < k
        BY <1>1
  <2> QED BY <2>1 DEF Before
<1>3. ASSUME NEW u \in Tasks, NEW d \in Connections, UnderWay(u, d)'
      PROVE  UnderWay(u, d) /\ ~(d = c /\ u = t)
  <2>1. PICK m \in DOMAIN wire'[d] : wire'[d][m] = u
        BY <1>3 DEF UnderWay
  <2>2. /\ Was(c, j, d, m) \in DOMAIN wire[d] /\ wire[d][Was(c, j, d, m)] = u
        /\ d = c => Was(c, j, d, m) # j
        BY <2>1 DEF LeavesWire
  <2> QED BY <1>2, <2>2 DEF UnderWay
<1>4. ASSUME NEW u \in Tasks, NEW d \in Connections, UnderWay(u, d), ~(d = c /\ u = t)
      PROVE  UnderWay(u, d)'
  <2>1. PICK n \in DOMAIN wire[d] : wire[d][n] = u
        BY <1>4 DEF UnderWay
  <2>2. d # c \/ n # j
        BY <1>4, <2>1
  <2>3. PICK m \in DOMAIN wire'[d] : wire'[d][m] = wire[d][n]
        BY <2>2 DEF LeavesWire
  <2> QED BY <2>1, <2>3 DEF UnderWay
<1>5. ASSUME NEW u \in Tasks, NEW v \in Tasks, NEW d \in Connections, Before(u, v, d)'
      PROVE  Before(u, v, d)
  <2>1. PICK m \in DOMAIN wire'[d], n \in DOMAIN wire'[d] :
            m < n /\ wire'[d][m] = u /\ wire'[d][n] = v
        BY <1>5 DEF Before
  <2>2. /\ Was(c, j, d, m) \in DOMAIN wire[d] /\ wire[d][Was(c, j, d, m)] = u
        /\ Was(c, j, d, n) \in DOMAIN wire[d] /\ wire[d][Was(c, j, d, n)] = v
        /\ Was(c, j, d, m) < Was(c, j, d, n)
        BY <2>1 DEF LeavesWire
  <2> QED BY <2>2 DEF Before
<1>6. ASSUME j = 1, NEW u \in Tasks, UnderWay(u, c)'
      PROVE  Before(t, u, c)
  <2>1. PICK m \in DOMAIN wire'[c] : wire'[c][m] = u
        BY <1>6 DEF UnderWay
  <2>2. /\ Was(c, j, c, m) \in DOMAIN wire[c] /\ wire[c][Was(c, j, c, m)] = u
        /\ Was(c, j, c, m) # j
        BY <2>1 DEF LeavesWire
  <2>3. \A n \in DOMAIN wire[c] : n # 1 => 1 < n
        BY <1>1
  <2> QED BY <1>6, <2>2, <2>3 DEF Before
<1> QED BY <1>3, <1>4, <1>5, <1>6
--------------------------------------------------------------------------------
\* The lifecycle: the consumer ends no Human period, and a call ends the one its lease
\* is of.
LEMMA ConsumerKeepsHuman ==
    ASSUME LifecycleTypeOK, ConsumerMoves
    PROVE  LifecycleTypeOK' /\ \A lease : HumanPeriod(lease) => HumanPeriod(lease)'
<1>1. CASE Begin
  <2>1. /\ ~Suspended /\ epoch' = epoch + 1 /\ issued' = issued + 1 /\ issued < MaxIssued
        /\ active' = [id |-> issued + 1, status |-> "awaiting_human", authority |-> "none",
                      epoch |-> epoch + 1]
        BY <1>1 DEF Begin
  <2>2. issued + 1 \in 1..MaxIssued /\ epoch + 1 \in Nat /\ epoch + 1 # 0
        BY <2>1, BoundsAssumption DEF LifecycleTypeOK
  <2>3. active' \in Intervention
        BY <2>1, <2>2 DEF Intervention, InterventionStatus
  <2> QED BY <2>1, <2>2, <2>3, BoundsAssumption
          DEF LifecycleTypeOK, Interventions, HumanPeriod, IsActive
<1>2. CASE ClaimHuman(active.id) \/ ReturnToHuman(active.id)
  <2>1. /\ Suspended /\ active.status # "human_active" /\ active \in Intervention
        /\ active' = [active EXCEPT !.status = "human_active", !.authority = "human"]
        /\ UNCHANGED <<epoch, issued>>
        BY <1>2 DEF ClaimHuman, ReturnToHuman, IsActive, Suspended, LifecycleTypeOK
  <2>2. active' \in Intervention /\ active'.id = active.id /\ active'.epoch = active.epoch
        BY <2>1 DEF Intervention, InterventionStatus
  <2> QED BY <2>1, <2>2 DEF LifecycleTypeOK, Suspended, HumanPeriod, Interventions
<1>3. CASE MarkVerified(active.id) \/ ResumeAgent(active.id)
  <2>1. /\ Suspended /\ active.status # "human_active" /\ active \in Intervention
        /\ \/ active' = [active EXCEPT !.status = "ready_to_resume"]
           \/ active' = NoIntervention
        /\ UNCHANGED <<epoch, issued>>
        BY <1>3 DEF MarkVerified, ResumeAgent, IsActive, Suspended, LifecycleTypeOK
  <2>2. \/ active' \in Intervention /\ active'.id = active.id /\ active'.epoch = active.epoch
        \/ active' = NoIntervention
        BY <2>1 DEF Intervention, InterventionStatus
  <2> QED BY <2>1, <2>2 DEF LifecycleTypeOK, Suspended, HumanPeriod, Interventions
<1> QED BY <1>1, <1>2, <1>3 DEF ConsumerMoves

\* A call leaves the lifecycle alone unless it is a revocation that goes on to complete or
\* end the handoff it is about, and then that handoff is the active one.
LEMMA CallEndsItsPeriod ==
    ASSUME LifecycleTypeOK, NEW t, EndHumanPeriod(t)
    PROVE  /\ LifecycleTypeOK'
           /\ \/ UNCHANGED lifecycleVars
              \/ task[t].kind = "revoke" /\ task[t].then # "return" /\ IsActive(task[t].id)
<1>1. CASE MarkHumanComplete(task[t].id) /\ task[t].then = "complete"
                /\ task[t].kind = "revoke" /\ IsActive(task[t].id)
  <2>1. /\ Suspended /\ active \in Intervention /\ epoch' = epoch + 1 /\ issued' = issued
        /\ active' = [active EXCEPT !.status = "verifying", !.authority = "none",
                                    !.epoch = epoch + 1]
        BY <1>1 DEF MarkHumanComplete, IsActive, Suspended, LifecycleTypeOK
  <2>2. active' = [id |-> active.id, status |-> "verifying", authority |-> "none",
                   epoch |-> epoch + 1]
        BY <2>1 DEF Intervention
  <2>3. epoch + 1 \in Nat /\ epoch + 1 # 0
        BY DEF LifecycleTypeOK
  <2>4. active' \in Intervention
        BY <2>1, <2>2, <2>3 DEF Intervention, InterventionStatus
  <2> QED BY <1>1, <2>1, <2>2, <2>3, <2>4 DEF LifecycleTypeOK, Interventions
<1>2. CASE Cancel(task[t].id) /\ task[t].then = "cancel"
                /\ task[t].kind = "revoke" /\ IsActive(task[t].id)
  <2>1. epoch + 1 \in Nat
        BY DEF LifecycleTypeOK
  <2> QED BY <1>2, <2>1 DEF Cancel, LifecycleTypeOK, Suspended
<1>3. CASE UNCHANGED lifecycleVars
      BY <1>3 DEF lifecycleVars, LifecycleTypeOK, Suspended, Interventions
<1> QED BY <1>1, <1>2, <1>3 DEF EndHumanPeriod

\* A Human period that the lifecycle is left in goes on.
LEMMA PeriodGoesOn ==
    ASSUME UNCHANGED lifecycleVars
    PROVE  /\ LifecycleTypeOK => LifecycleTypeOK'
           /\ \A lease : HumanPeriod(lease)' = HumanPeriod(lease)
  BY DEF lifecycleVars, LifecycleTypeOK, Suspended, Interventions, HumanPeriod, IsActive

--------------------------------------------------------------------------------
\* Connections: where channels, leases and generations stand.
LEMMA ChannelConnection ==
    ASSUME HostedTypeOK, ChannelInv, NEW k \in DOMAIN channels
    PROVE  /\ channels[k] \in Channel /\ Conn(k) \in Connections
           /\ Conn(k)[1] = channels[k].worker /\ Conn(k)[2] = channels[k].gen
           /\ Conn(k)[2] <= generation[Conn(k)[1]] /\ Conn(k)[2] # 0
<1>1. channels[k] \in Channel
      BY DEF HostedTypeOK
<1>2. /\ channels[k].worker \in Workers /\ channels[k].gen \in Generations
      BY <1>1 DEF Channel
<1> QED BY <1>1, <1>2 DEF Conn, Connections, ChannelInv, Generations

\* What a call carries, by its kind.
LEMMA CallTypes ==
    ASSUME HostedTypeOK, NEW u \in Tasks
    PROVE  /\ task[u].kind = "bind" => task[u] \in BindCall
           /\ task[u].kind = "revoke" => task[u] \in RevokeCall
           /\ task[u].kind \in {"bind", "revoke"} =>
                 /\ task[u].lease \in HumanLease /\ task[u].lease.iv \in Interventions
                 /\ task[u].lease.conn \in Connections /\ task[u].lease.epoch # 0
                 /\ task[u].lease.epoch \in Nat
<1>1. task[u] \in {Idle} \union OpenCall \union BindCall \union RevokeCall
      BY DEF HostedTypeOK
<1>2. CASE task[u] = Idle
      BY <1>2 DEF Idle
<1>3. CASE task[u] \in OpenCall
      BY <1>3 DEF OpenCall
<1>4. CASE task[u] \in BindCall
      BY <1>4 DEF BindCall, HumanLease
<1>5. CASE task[u] \in RevokeCall
      BY <1>5 DEF RevokeCall, HumanLease
<1> QED BY <1>1, <1>2, <1>3, <1>4, <1>5

\* A connection in use is the newest of its worker.
LEMMA NewestInUse ==
    ASSUME HostedTypeOK, ChannelInv, NEW c \in Connections, registered[c[1]] = c[2]
    PROVE  c[2] = generation[c[1]] /\ ~Abandoned(c)
<1>1. c[1] \in Workers /\ c[2] \in Generations
      BY DEF Connections
<1>2. c[2] # 0 /\ registered[c[1]] \in {0, generation[c[1]]} /\ generation[c[1]] \in Nat
      BY <1>1 DEF Generations, ChannelInv, HostedTypeOK
<1> QED BY <1>2 DEF Abandoned

\* Two connections of one worker that it has left neither of are one.
LEMMA OneInUse ==
    ASSUME HostedTypeOK, NEW c \in Connections, NEW d \in Connections, c[1] = d[1],
           ~Abandoned(c), ~Abandoned(d), c[2] <= generation[c[1]], d[2] <= generation[d[1]]
    PROVE  c = d
<1>1. /\ c[1] \in Workers /\ c[2] \in Nat /\ d[2] \in Nat /\ generation[c[1]] \in Nat
      /\ c = <<c[1], c[2]>> /\ d = <<d[1], d[2]>>
      BY DEF Connections, Generations, HostedTypeOK
<1>2. c[2] = d[2]
      BY <1>1 DEF Abandoned
<1> QED BY <1>1, <1>2

\* #fenceLocal(): the connection is over and no route is left on it.
LEMMA FenceFacts ==
    ASSUME HostedTypeOK, ChannelInv, HumanRoutes, NEW k \in DOMAIN channels, FenceLocal(k)
    PROVE  /\ channels' \in Seq(Channel) /\ Len(channels') = Len(channels)
           /\ DOMAIN channels' = DOMAIN channels
           /\ \A m \in DOMAIN channels :
                 /\ channels'[m].worker = channels[m].worker /\ channels'[m].gen = channels[m].gen
                 /\ m # k => channels'[m] = channels[m]
           /\ registered' \in [Workers -> Nat]
           /\ \A w \in Workers : registered'[w] \in {0, registered[w]}
           /\ registered'[channels[k].worker] # channels[k].gen
           /\ routes' \in [Interventions -> [worker: Workers \union {"none"}, gen: Nat,
                                             epoch: Nat, active: BOOLEAN]]
           /\ \A i \in Interventions :
                 /\ LeaseOf(i)' = LeaseOf(i) /\ routes'[i].worker = routes[i].worker
                 /\ routes'[i].gen = routes[i].gen /\ routes'[i].epoch = routes[i].epoch
                 /\ routes'[i].active =>
                       routes[i].active /\ registered'[routes[i].worker] = routes[i].gen
           /\ \A i \in Interventions, c \in Connections :
                 registered'[c[1]] = c[2] =>
                    registered[c[1]] = c[2] /\ (RoutedTo(i, c)' <=> RoutedTo(i, c))
<1> DEFINE c0 == Conn(k)
           connected == channels[k].state # "fenced" /\ registered[c0[1]] = c0[2]
           gone == {i \in Interventions : connected /\ routes[i].active /\ LeaseOf(i).conn = c0}
<1>1. /\ channels' = [channels EXCEPT ![k].state = "fenced"]
      /\ registered' = IF connected THEN [registered EXCEPT ![c0[1]] = 0] ELSE registered
      /\ routes' = [i \in Interventions |-> [routes[i] EXCEPT !.active = @ /\ i \notin gone]]
      BY DEF FenceLocal
<1>2. /\ channels[k] \in Channel /\ c0 \in Connections /\ c0[1] \in Workers
      /\ c0 = <<channels[k].worker, channels[k].gen>> /\ c0[2] # 0 /\ channels[k].gen \in Nat
      BY ChannelConnection DEF Connections, Conn, Channel, Generations
<1>3. /\ channels' \in Seq(Channel) /\ Len(channels') = Len(channels)
      /\ DOMAIN channels' = DOMAIN channels
      /\ \A m \in DOMAIN channels :
            /\ channels'[m].worker = channels[m].worker /\ channels'[m].gen = channels[m].gen
            /\ m # k => channels'[m] = channels[m]
  <2> DEFINE f == [channels[k] EXCEPT !.state = "fenced"]
  <2>1. f \in Channel /\ f.worker = channels[k].worker /\ f.gen = channels[k].gen
        BY <1>2 DEF Channel
  <2>2. channels' = [channels EXCEPT ![k] = f] /\ channels \in Seq(Channel)
        BY <1>1 DEF HostedTypeOK
  <2> HIDE DEF f
  <2> QED BY <2>1, <2>2
<1>4. /\ registered' \in [Workers -> Nat] /\ \A w \in Workers : registered'[w] \in {0, registered[w]}
      /\ connected => registered'[c0[1]] = 0
      BY <1>1, <1>2 DEF HostedTypeOK
<1>5. registered'[channels[k].worker] # channels[k].gen
      BY <1>1, <1>2, <1>4 DEF ChannelInv
<1>6. /\ routes' \in [Interventions -> [worker: Workers \union {"none"}, gen: Nat,
                                        epoch: Nat, active: BOOLEAN]]
      /\ \A i \in Interventions :
            /\ routes'[i].worker = routes[i].worker /\ routes'[i].gen = routes[i].gen
            /\ routes'[i].epoch = routes[i].epoch
            /\ routes'[i].active <=> routes[i].active /\ i \notin gone
  <2>1. ASSUME NEW i \in Interventions
        PROVE  /\ routes'[i] = [routes[i] EXCEPT !.active = @ /\ i \notin gone]
               /\ routes[i] \in [worker: Workers \union {"none"}, gen: Nat, epoch: Nat,
                                 active: BOOLEAN]
        BY <1>1 DEF HostedTypeOK
  <2> HIDE DEF gone
  <2>2. ASSUME NEW i \in Interventions
        PROVE  /\ routes'[i] \in [worker: Workers \union {"none"}, gen: Nat, epoch: Nat,
                                  active: BOOLEAN]
               /\ routes'[i].worker = routes[i].worker /\ routes'[i].gen = routes[i].gen
               /\ routes'[i].epoch = routes[i].epoch
               /\ routes'[i].active <=> routes[i].active /\ i \notin gone
        BY <2>1
  <2>3. DOMAIN routes' = Interventions /\ routes' = [i \in Interventions |-> routes'[i]]
        BY <1>1
  <2> QED BY <2>2, <2>3
<1>7. \A i \in Interventions : LeaseOf(i)' = LeaseOf(i)
      BY <1>6 DEF LeaseOf
<1>8. ASSUME NEW i \in Interventions, routes'[i].active
      PROVE  routes[i].active /\ registered'[routes[i].worker] = routes[i].gen
  <2>1. routes[i].active /\ i \notin gone /\ registered[routes[i].worker] = routes[i].gen
        BY <1>6, <1>8 DEF HumanRoutes
  <2>2. CASE ~connected
        BY <1>1, <2>1, <2>2
  <2>3. CASE connected
    <3>1. LeaseOf(i).conn # c0
          BY <2>1, <2>3
    <3>2. <<routes[i].worker, routes[i].gen>> # c0 /\ registered[c0[1]] = c0[2]
          BY <2>3, <3>1 DEF LeaseOf
    <3>3. routes[i].worker # c0[1]
          BY <1>2, <2>1, <3>2
    <3>4. registered' = [registered EXCEPT ![c0[1]] = 0]
          BY <1>1, <2>3
    <3>5. registered'[routes[i].worker] = registered[routes[i].worker]
          BY <3>3, <3>4 DEF HostedTypeOK
    <3> QED BY <2>1, <3>5
  <2> QED BY <2>2, <2>3
<1>9. ASSUME NEW i \in Interventions, NEW c \in Connections, registered'[c[1]] = c[2]
      PROVE  registered[c[1]] = c[2] /\ (RoutedTo(i, c)' <=> RoutedTo(i, c))
  <2>1. c[1] \in Workers /\ c[2] # 0
        BY DEF Connections, Generations
  <2>2. registered[c[1]] = c[2]
        BY <1>4, <1>9, <2>1
  <2>3. connected => c # c0
        BY <1>4, <1>9, <2>1
  <2>4. LeaseOf(i).conn = c => i \notin gone
        BY <2>3
  <2> HIDE DEF gone, connected
  <2> QED BY <1>6, <1>7, <2>2, <2>4 DEF RoutedTo
<1> QED BY <1>3, <1>4, <1>5, <1>6, <1>7, <1>8, <1>9
--------------------------------------------------------------------------------
\* Calls that send: the message goes behind those under way.
LEMMA SendKeepsWire ==
    ASSUME wire \in [Connections -> Seq(Tasks)], WireInv,
           NEW c \in Connections, NEW t \in Tasks, Send(c, t),
           \A d \in Connections : ~UnderWay(t, d) /\ (Abandoned(d) => Abandoned(d)'),
           \A u \in Tasks : u # t /\ task[u].kind # "idle" =>
               task'[u] = task[u] /\ Conn(task[u].chan)' = Conn(task[u].chan),
           \A lease : HumanPeriod(lease) => HumanPeriod(lease)',
           task'[t].kind # "idle", task'[t].pc = "send", Conn(task[t].chan)' = c,
           task'[t].kind = "bind" => HumanPeriod(task[t].lease)',
           \A u \in Tasks, i \in Interventions :
               UnderWay(u, c) => ~(Revokes(u, i) /\ Binds(t, i)')
    PROVE  WireInv'
<1>1. /\ \A u \in Tasks, d \in Connections :
            UnderWay(u, d)' <=> UnderWay(u, d) \/ (d = c /\ u = t)
      /\ \A u, v \in Tasks, d \in Connections :
            Before(u, v, d)' => Before(u, v, d) \/ (d = c /\ v = t /\ UnderWay(u, d))
      BY Sent
<1>2. \A u, v \in Tasks, d \in Connections : Before(u, v, d) => UnderWay(u, d) /\ UnderWay(v, d)
      BY DEF Before, UnderWay
<1>3. \A u \in Tasks, d \in Connections :
          UnderWay(u, d) => u # t /\ task[u].kind # "idle" /\ task'[u] = task[u]
      BY DEF WireInv
<1>4. ASSUME NEW d \in Connections, NEW u \in Tasks, UnderWay(u, d)'
      PROVE  /\ task'[u].kind # "idle" /\ task'[u].pc = "send" /\ Conn(task[u].chan)' = d
             /\ task'[u].kind = "bind" => Abandoned(d)' \/ HumanPeriod(task[u].lease)'
  <2>1. CASE d = c /\ u = t
        BY <2>1
  <2>2. CASE UnderWay(u, d)
    <3>1. /\ task[u].kind # "idle" /\ task[u].pc = "send" /\ Conn(task[u].chan) = d
          /\ task[u].kind = "bind" => Abandoned(d) \/ HumanPeriod(task[u].lease)
          BY <2>2 DEF WireInv
    <3>2. u # t /\ task'[u] = task[u] /\ Conn(task[u].chan)' = d
          BY <1>3, <2>2, <3>1
    <3>3. HumanPeriod(task[u].lease) => HumanPeriod(task[u].lease)'
      <4>1. \A lease : HumanPeriod(lease) => HumanPeriod(lease)'
            OBVIOUS
      <4> QED BY <3>2, <4>1 DEF HumanPeriod
    <3> QED BY <3>1, <3>2, <3>3
  <2> QED BY <1>1, <1>4, <2>1, <2>2
<1>5. ASSUME NEW d \in Connections, NEW u \in Tasks, NEW v \in Tasks, Before(u, v, d)'
      PROVE  u # v /\ \A i \in Interventions : ~(Revokes(u, i)' /\ Binds(v, i)')
  <2>1. CASE Before(u, v, d)
        BY <1>2, <1>3, <2>1 DEF WireInv, Revokes, Binds
  <2>2. CASE d = c /\ v = t /\ UnderWay(u, d)
        BY <1>3, <2>2 DEF Revokes
  <2> QED BY <1>1, <1>5, <2>1, <2>2
<1>6. Connections' = Connections /\ Interventions' = Interventions
      BY DEF Connections, Interventions, Generations
<1> QED BY <1>4, <1>5, <1>6 DEF WireInv

\* open(): the registry gives the worker's connection its generation.
LEMMA OpenInv ==
    ASSUME RouteInv, NEW t \in Tasks, NEW w \in Workers, OpenChannel(t, w)
    PROVE  RouteInv'
<1> DEFINE gen == IF registered[w] = 0 THEN generation[w] + 1 ELSE registered[w]
           c == <<w, gen>>
<1>1. /\ task[t] = Idle /\ Len(channels) < MaxChannels
      /\ channels' = Append(channels, [worker |-> w, gen |-> gen, state |-> "opening"])
      /\ registered' = [registered EXCEPT ![w] = gen]
      /\ generation' = [generation EXCEPT ![w] = gen]
      /\ task' = [task EXCEPT ![t] = [kind |-> "open", pc |-> "send",
                                      chan |-> Len(channels) + 1]]
      /\ Send(c, t)
      /\ UNCHANGED <<lifecycleVars, routes, gate>>
      BY DEF OpenChannel
<1>2. /\ HostedTypeOK /\ ChannelInv /\ CallInv /\ HumanRoutes /\ WireInv /\ GateInv
      /\ AgreeInv
      BY DEF RouteInv
<1>3. /\ registered[w] \in Nat /\ generation[w] \in Nat /\ Len(channels) \in Nat
      /\ registered[w] \in {0, generation[w]} /\ generation[w] <= Len(channels)
      /\ MaxChannels \in Nat
      BY <1>2, HostedAssumption DEF HostedTypeOK, ChannelInv
<1>4. /\ gen \in Generations /\ gen \in Nat /\ gen # 0 /\ generation[w] <= gen
      /\ gen <= Len(channels) + 1
      /\ (registered[w] = gen /\ generation[w] = gen) \/ (registered[w] = 0 /\ generation[w] < gen)
      BY <1>1, <1>3 DEF Generations
<1> HIDE DEF gen
<1>5. c \in Connections /\ c[1] = w /\ c[2] = gen
      BY <1>4 DEF Connections
<1>6. /\ registered' \in [Workers -> Nat] /\ generation' \in [Workers -> Nat]
      /\ registered'[w] = gen /\ generation'[w] = gen
      /\ \A x \in Workers : x # w => registered'[x] = registered[x] /\ generation'[x] = generation[x]
      BY <1>1, <1>2, <1>4 DEF HostedTypeOK
<1>7. /\ channels' \in Seq(Channel) /\ Len(channels') = Len(channels) + 1
      /\ DOMAIN channels = 1..Len(channels) /\ DOMAIN channels' = 1..Len(channels) + 1
      /\ \A k \in DOMAIN channels : channels'[k] = channels[k]
      /\ channels'[Len(channels) + 1] = [worker |-> w, gen |-> gen, state |-> "opening"]
  <2> DEFINE e == [worker |-> w, gen |-> gen, state |-> "opening"]
  <2>1. e \in Channel /\ channels \in Seq(Channel)
        BY <1>2, <1>4 DEF Channel, HostedTypeOK
  <2> HIDE DEF e
  <2>2. channels' = Append(channels, e)
        BY <1>1 DEF e
  <2>3. /\ channels' \in Seq(Channel) /\ Len(channels') = Len(channels) + 1
        /\ DOMAIN channels = 1..Len(channels) /\ DOMAIN channels' = 1..Len(channels) + 1
        /\ \A k \in DOMAIN channels : channels'[k] = channels[k]
        /\ channels'[Len(channels) + 1] = e
        BY <2>1, <2>2
  <2> QED BY <2>3 DEF e
<1>8. /\ \A k \in DOMAIN channels : k \in DOMAIN channels' /\ Conn(k)' = Conn(k)
      /\ \A k \in DOMAIN channels' : k = Len(channels) + 1 => Conn(k)' = c
      /\ Len(channels) + 1 \in DOMAIN channels'
      BY <1>3, <1>7 DEF Conn
<1>9. /\ \A u \in Tasks : u # t => task'[u] = task[u]
      /\ task'[t] = [kind |-> "open", pc |-> "send", chan |-> Len(channels) + 1]
      /\ task' \in [Tasks -> {Idle} \union OpenCall \union BindCall \union RevokeCall]
  <2>1. [kind |-> "open", pc |-> "send", chan |-> Len(channels) + 1] \in OpenCall
        BY <1>3 DEF OpenCall
  <2> QED BY <1>1, <1>2, <2>1 DEF HostedTypeOK
<1>10. task[t].kind = "idle" /\ \A d \in Connections : ~UnderWay(t, d)
      BY <1>1, <1>2 DEF Idle, WireInv
<1>11. /\ LifecycleTypeOK' /\ \A lease : HumanPeriod(lease)' = HumanPeriod(lease)
      BY <1>1, <1>2, PeriodGoesOn DEF HostedTypeOK
<1>12. \A d \in Connections : Abandoned(d) => Abandoned(d)'
  <2> SUFFICES ASSUME NEW d \in Connections, d[2] < generation[d[1]]
               PROVE  d[2] < generation'[d[1]]
      BY DEF Abandoned
  <2>1. d[2] \in Nat /\ d[1] \in Workers
        BY DEF Connections, Generations
  <2>2. generation[d[1]] \in Nat /\ (d[1] # w => generation'[d[1]] = generation[d[1]])
        BY <1>2, <1>6, <2>1 DEF HostedTypeOK
  <2> QED BY <1>3, <1>4, <1>6, <2>1, <2>2
<1>13. wire' \in [Connections -> Seq(Tasks)]
      BY <1>1, <1>2, <1>5, Sent DEF HostedTypeOK
<1>14. HostedTypeOK'
  <2>1. \A i \in Interventions : LeaseOf(i)' = LeaseOf(i)
        BY <1>1 DEF LeaseOf
  <2>2. Interventions' = Interventions /\ HumanLease' = HumanLease
        BY DEF Interventions, HumanLease
  <2>3. Len(channels') <= MaxChannels
        BY <1>1, <1>3, <1>7
  <2> QED BY <1>1, <1>2, <1>6, <1>7, <1>9, <1>11, <1>13, <2>1, <2>2, <2>3 DEF HostedTypeOK
<1>15. ChannelInv'
  <2>1. ASSUME NEW x \in Workers
        PROVE  registered'[x] \in {0, generation'[x]} /\ generation'[x] <= Len(channels')
    <3>1. /\ registered[x] \in {0, generation[x]} /\ generation[x] <= Len(channels)
          /\ generation[x] \in Nat
          BY <1>2 DEF ChannelInv, HostedTypeOK
    <3> QED BY <1>3, <1>4, <1>6, <1>7, <3>1
  <2>2. ASSUME NEW k \in DOMAIN channels'
        PROVE  /\ channels'[k].gen <= generation'[channels'[k].worker]
               /\ channels'[k].state = "fenced" =>
                     registered'[channels'[k].worker] # channels'[k].gen
    <3>1. CASE k = Len(channels) + 1
          BY <1>4, <1>6, <1>7, <3>1
    <3>2. CASE k \in DOMAIN channels
      <4>1. channels'[k] = channels[k] /\ channels[k].worker \in Workers /\ channels[k].gen \in Nat
            BY <1>2, <1>7, <3>2, ChannelConnection DEF Channel, Generations
      <4>2. /\ channels[k].gen <= generation[channels[k].worker]
            /\ channels[k].state = "fenced" => registered[channels[k].worker] # channels[k].gen
            BY <1>2, <3>2 DEF ChannelInv
      <4>3. CASE channels[k].worker # w
            BY <1>6, <4>1, <4>2, <4>3
      <4>4. CASE channels[k].worker = w
            BY <1>3, <1>4, <1>6, <4>1, <4>2, <4>4
      <4> QED BY <4>3, <4>4
    <3> QED BY <1>3, <1>7, <3>1, <3>2
  <2> QED BY <2>1, <2>2 DEF ChannelInv
<1>16. CallInv'
  <2> SUFFICES ASSUME NEW u \in Tasks
               PROVE  /\ task'[u].kind # "idle" => task'[u].chan \in DOMAIN channels'
                      /\ task'[u].kind \in {"bind", "revoke"} =>
                            /\ task'[u].lease.conn = Conn(task[u].chan)'
                            /\ routes'[task'[u].lease.iv].worker = task'[u].lease.conn[1]
                            /\ routes'[task'[u].lease.iv].epoch # 0
                      /\ task'[u].kind = "revoke" =>
                            /\ ~routes'[task'[u].lease.iv].active
                            /\ task'[u].then # "return" => task'[u].id = task'[u].lease.iv
      BY DEF CallInv
  <2>1. CASE u = t
        BY <1>8, <1>9, <2>1
  <2>2. CASE u # t
    <3>1. task'[u] = task[u] /\ routes' = routes
          BY <1>1, <1>9, <2>2
    <3>2. task[u].kind # "idle" => Conn(task[u].chan)' = Conn(task[u].chan)
          BY <1>2, <1>8, <3>1 DEF CallInv, Conn
    <3> QED BY <1>2, <1>8, <3>1, <3>2 DEF CallInv
  <2> QED BY <2>1, <2>2
<1>17. HumanRoutes'
  <2> SUFFICES ASSUME NEW i \in Interventions, routes[i].active
               PROVE  HumanPeriod(LeaseOf(i))' /\ registered'[routes[i].worker] = routes[i].gen
      BY <1>1 DEF HumanRoutes
  <2>1. /\ HumanPeriod(LeaseOf(i)) /\ registered[routes[i].worker] = routes[i].gen
        /\ LeaseOf(i) \in HumanLease
        BY <1>2 DEF HumanRoutes, HostedTypeOK
  <2>2. routes[i].worker \in Workers /\ routes[i].gen # 0
        BY <2>1 DEF LeaseOf, HumanLease, Connections, Generations
  <2>3. registered'[routes[i].worker] = registered[routes[i].worker]
        BY <1>4, <1>6, <2>1, <2>2
  <2>4. HumanPeriod(LeaseOf(i))'
        BY <1>1, <2>1 DEF HumanPeriod, LeaseOf, IsActive, Suspended, lifecycleVars
  <2> QED BY <2>1, <2>3, <2>4
<1>18. WireInv'
  <2>1. ASSUME NEW u \in Tasks, u # t, task[u].kind # "idle"
        PROVE  task'[u] = task[u] /\ Conn(task[u].chan)' = Conn(task[u].chan)
    <3>1. task'[u] = task[u] /\ task[u].chan \in DOMAIN channels
          BY <1>2, <1>9, <2>1 DEF CallInv
    <3> QED BY <1>7, <3>1 DEF Conn
  <2>2. /\ task'[t].kind = "open" /\ task'[t].pc = "send" /\ Conn(task[t].chan)' = c
    <3>1. task'[t].kind = "open" /\ task'[t].pc = "send" /\ task'[t].chan = Len(channels) + 1
          BY <1>9
    <3> QED BY <1>7, <3>1 DEF Conn
  <2>3. wire \in [Connections -> Seq(Tasks)]
        BY <1>2 DEF HostedTypeOK
  <2>4. \A i : ~Binds(t, i)'
        BY <2>2 DEF Binds
  <2> QED BY <1>1, <1>2, <1>5, <1>10, <1>11, <1>12, <2>1, <2>2, <2>3, <2>4, SendKeepsWire
<1>19. GateInv'
  <2> SUFFICES ASSUME NEW d \in Connections, NEW i \in Interventions, gate[d][i] # 0
               PROVE  /\ d[2] <= generation'[d[1]] /\ routes[i].worker = d[1]
                      /\ routes[i].epoch # 0
                      /\ \/ Abandoned(d)'
                         \/ HumanPeriod([iv |-> i, epoch |-> gate[d][i], conn |-> d])'
      BY <1>1 DEF GateInv, HumanPeriod, IsActive, Suspended
  <2>1. /\ d[2] <= generation[d[1]] /\ routes[i].worker = d[1] /\ routes[i].epoch # 0
        /\ Abandoned(d) \/ HumanPeriod([iv |-> i, epoch |-> gate[d][i], conn |-> d])
        BY <1>2 DEF GateInv
  <2>2. d[2] \in Nat /\ d[1] \in Workers /\ generation[d[1]] \in Nat
        BY <1>2 DEF Connections, Generations, HostedTypeOK
  <2>3. d[2] <= generation'[d[1]]
        BY <1>3, <1>4, <1>6, <2>1, <2>2
  <2>4. HumanPeriod([iv |-> i, epoch |-> gate[d][i], conn |-> d])
            => HumanPeriod([iv |-> i, epoch |-> gate[d][i], conn |-> d])'
        BY <1>1 DEF HumanPeriod, IsActive, Suspended, lifecycleVars
  <2> QED BY <1>12, <2>1, <2>3, <2>4
<1>20. AgreeInv'
  <2> SUFFICES ASSUME NEW d \in Connections, NEW i \in Interventions, registered'[d[1]] = d[2]
               PROVE  /\ RoutedTo(i, d)' => gate[d][i] = routes[i].epoch \/ Bound(i, d)'
                      /\ ~RoutedTo(i, d)' => gate[d][i] = 0 \/ Released(i, d)'
                      /\ Bound(i, d)' => RoutedTo(i, d)' \/ Released(i, d)'
      BY <1>1 DEF AgreeInv
  <2>1. RoutedTo(i, d)' = RoutedTo(i, d)
        BY <1>1 DEF RoutedTo, LeaseOf
  <2>2. \A u \in Tasks : UnderWay(u, d)' <=> UnderWay(u, d) \/ (d = c /\ u = t)
        BY <1>1, <1>2, <1>5, Sent DEF HostedTypeOK
  <2>3. Bound(i, d)' <=> Bound(i, d)
        BY <1>9, <1>10, <2>2 DEF Bound, Binds
  <2>4. Released(i, d) => Released(i, d)'
    <3> SUFFICES ASSUME NEW u \in Tasks, Revokes(u, i), Conn(task[u].chan) = d
                 PROVE  Released(i, d)'
        BY DEF Released
    <3>1. task[u].kind = "revoke" /\ u # t /\ task'[u] = task[u]
          BY <1>9, <1>10 DEF Revokes
    <3>2. Conn(task[u].chan)' = d
          BY <1>2, <1>8, <3>1 DEF CallInv, Conn
    <3> QED BY <3>1, <3>2 DEF Released, Revokes
  <2>5. CASE registered[d[1]] = d[2]
        BY <1>2, <2>1, <2>3, <2>4, <2>5 DEF AgreeInv
  <2>6. CASE registered[d[1]] # d[2]
    <3>1. d[1] \in Workers /\ d[2] \in Nat
          BY DEF Connections, Generations
    <3>2. d[1] = w /\ d[2] = gen /\ registered[w] = 0 /\ generation[w] < gen
          BY <1>4, <1>6, <2>6, <3>1
    <3>3. gate[d][i] = 0
      <4>1. ~(d[2] <= generation[d[1]])
            BY <1>3, <1>4, <3>2
      <4> QED BY <1>2, <4>1 DEF GateInv
    <3>4. ~RoutedTo(i, d)
      <4> SUFFICES ASSUME RoutedTo(i, d) PROVE FALSE
          OBVIOUS
      <4>1. routes[i].active /\ <<routes[i].worker, routes[i].gen>> = d
            BY DEF RoutedTo, LeaseOf
      <4>2. registered[d[1]] = d[2]
            BY <1>2, <4>1 DEF HumanRoutes
      <4> QED BY <2>6, <4>2
    <3>5. ~Bound(i, d)
      <4> SUFFICES ASSUME NEW u \in Tasks, UnderWay(u, d) PROVE FALSE
          BY DEF Bound
      <4>1. Conn(task[u].chan) = d /\ task[u].chan \in DOMAIN channels
            BY <1>2 DEF WireInv, CallInv
      <4>2. d[2] <= generation[d[1]]
            BY <1>2, <4>1, ChannelConnection
      <4> QED BY <1>3, <1>4, <3>2, <4>2
    <3> QED BY <2>1, <2>3, <3>3, <3>4, <3>5
  <2> QED BY <2>5, <2>6
<1> QED BY <1>14, <1>15, <1>16, <1>17, <1>18, <1>19, <1>20 DEF RouteInv

\* bindIntervention(): the route is of the Human period of the moment, and no message
\* behind a revocation of it.
LEMMA BindInv ==
    ASSUME RouteInv, ~rebound', NEW t \in Tasks, NEW k \in DOMAIN channels,
           BindIntervention(t, k)
    PROVE  RouteInv'
<1> DEFINE i0 == active.id
           c == Conn(k)
           l == [iv |-> i0, epoch |-> active.epoch, conn |-> c]
<1>1. /\ HostedTypeOK /\ ChannelInv /\ CallInv /\ HumanRoutes /\ WireInv /\ GateInv
      /\ AgreeInv
      BY DEF RouteInv
<1>2. /\ task[t] = Idle /\ Suspended /\ active.status = "human_active"
      /\ ~Revoking(i0) /\ BindRoute(i0, active.epoch, c)
      /\ task' = [task EXCEPT ![t] = [kind |-> "bind", pc |-> "send", chan |-> k, lease |-> l]]
      /\ Send(c, t)
      /\ UNCHANGED <<lifecycleVars, registered, generation, channels, gate>>
      BY DEF BindIntervention
<1>3. /\ i0 \in Interventions /\ active.epoch \in Nat \ {0} /\ c \in Connections
      /\ l \in HumanLease /\ HumanPeriod(l)
  <2>1. i0 \in Interventions /\ active \in Intervention /\ active.epoch # 0
        BY <1>1, <1>2 DEF HostedTypeOK, LifecycleTypeOK, Suspended
  <2>2. c \in Connections
        BY <1>1, ChannelConnection
  <2> QED BY <1>2, <2>1, <2>2 DEF HumanLease, HumanPeriod, IsActive, Intervention
<1>4. /\ registered[c[1]] = c[2] /\ (routes[i0].epoch = 0 \/ routes[i0].worker = c[1])
      /\ routes' = [routes EXCEPT ![i0] = [worker |-> c[1], gen |-> c[2],
                                           epoch |-> active.epoch, active |-> TRUE]]
      BY <1>2 DEF BindRoute
<1>5. /\ c[1] \in Workers /\ c[2] \in Nat /\ c = <<c[1], c[2]>>
      BY <1>3 DEF Connections, Generations
<1>6. /\ routes'[i0].worker = c[1] /\ routes'[i0].gen = c[2] /\ routes'[i0].active
      /\ routes'[i0].epoch = active.epoch
      /\ \A i \in Interventions : i # i0 => routes'[i] = routes[i]
      /\ routes' \in [Interventions -> [worker: Workers \union {"none"}, gen: Nat, epoch: Nat,
                                        active: BOOLEAN]]
      BY <1>1, <1>3, <1>4, <1>5 DEF HostedTypeOK
<1> HIDE DEF l, i0, c
<1>7. /\ \A u \in Tasks : u # t => task'[u] = task[u]
      /\ task'[t] = [kind |-> "bind", pc |-> "send", chan |-> k, lease |-> l]
      /\ task' \in [Tasks -> {Idle} \union OpenCall \union BindCall \union RevokeCall]
  <2>1. k \in Nat
        BY <1>1 DEF HostedTypeOK
  <2>2. [kind |-> "bind", pc |-> "send", chan |-> k, lease |-> l] \in BindCall
        BY <1>3, <2>1 DEF BindCall
  <2> QED BY <1>1, <1>2, <2>2 DEF HostedTypeOK
<1>8. task[t].kind = "idle" /\ \A d \in Connections : ~UnderWay(t, d)
      BY <1>1, <1>2 DEF Idle, WireInv
<1>9. /\ LifecycleTypeOK' /\ (\A lease : HumanPeriod(lease)' = HumanPeriod(lease))
      /\ \A d \in Connections : Abandoned(d)' = Abandoned(d)
      /\ \A m : Conn(m)' = Conn(m)
      BY <1>1, <1>2, PeriodGoesOn DEF HostedTypeOK, Abandoned, Conn
<1>10. l.iv = i0 /\ l.conn = c /\ l.epoch = active.epoch
      BY DEF l, i0
<1>11. \A u \in Tasks : ~Revokes(u, i0)
      BY <1>2 DEF Revoking, Revokes, i0
<1>12. \A i \in Interventions : LeaseOf(i)' = IF i = i0 THEN l ELSE LeaseOf(i)
  <2>1. LeaseOf(i0)' = [iv |-> i0, epoch |-> active.epoch, conn |-> <<c[1], c[2]>>]
        BY <1>2, <1>6 DEF LeaseOf, i0, lifecycleVars
  <2> QED BY <1>5, <1>6, <2>1 DEF LeaseOf, l, i0
<1>13. HostedTypeOK'
  <2>1. \A i \in Interventions :
            routes'[i].active \/ routes'[i].epoch # 0 => LeaseOf(i)' \in HumanLease
        BY <1>1, <1>3, <1>6, <1>12 DEF HostedTypeOK
  <2>2. wire' \in [Connections -> Seq(Tasks)]
        BY <1>1, <1>2, <1>3, Sent DEF HostedTypeOK
  <2>3. HumanLease' = HumanLease /\ Interventions' = Interventions
        BY DEF HumanLease, Interventions
  <2> QED BY <1>1, <1>2, <1>6, <1>7, <1>9, <2>1, <2>2, <2>3 DEF HostedTypeOK
<1>14. ChannelInv'
      BY <1>1, <1>2 DEF ChannelInv
<1>15. CallInv'
  <2> SUFFICES ASSUME NEW u \in Tasks
               PROVE  /\ task'[u].kind # "idle" => task'[u].chan \in DOMAIN channels
                      /\ task'[u].kind \in {"bind", "revoke"} =>
                            /\ task'[u].lease.conn = Conn(task'[u].chan)
                            /\ routes'[task'[u].lease.iv].worker = task'[u].lease.conn[1]
                            /\ routes'[task'[u].lease.iv].epoch # 0
                      /\ task'[u].kind = "revoke" =>
                            /\ ~routes'[task'[u].lease.iv].active
                            /\ task'[u].then # "return" => task'[u].id = task'[u].lease.iv
      BY <1>2 DEF CallInv, Conn
  <2>1. CASE u = t
        BY <1>3, <1>6, <1>7, <1>10, <2>1 DEF c
  <2>2. CASE u # t
    <3>1. task'[u] = task[u]
          BY <1>7, <2>2
    <3>2. /\ task[u].kind # "idle" => task[u].chan \in DOMAIN channels
          /\ task[u].kind \in {"bind", "revoke"} =>
                /\ task[u].lease.conn = Conn(task[u].chan)
                /\ routes[task[u].lease.iv].worker = task[u].lease.conn[1]
                /\ routes[task[u].lease.iv].epoch # 0
          /\ task[u].kind = "revoke" =>
                /\ ~routes[task[u].lease.iv].active
                /\ task[u].then # "return" => task[u].id = task[u].lease.iv
          BY <1>1 DEF CallInv
    <3>3. task[u].kind \in {"bind", "revoke"} => task[u].lease.iv \in Interventions
          BY <1>1, CallTypes
    <3>4. task[u].kind = "revoke" => task[u].lease.iv # i0
          BY <1>11 DEF Revokes
    <3>5. task[u].kind \in {"bind", "revoke"} =>
              /\ routes'[task[u].lease.iv].worker = task[u].lease.conn[1]
              /\ routes'[task[u].lease.iv].epoch # 0
          BY <1>3, <1>4, <1>6, <3>2, <3>3
    <3> QED BY <1>6, <3>1, <3>2, <3>3, <3>4, <3>5
  <2> QED BY <2>1, <2>2
<1>16. HumanRoutes'
  <2> SUFFICES ASSUME NEW i \in Interventions, routes'[i].active
               PROVE  HumanPeriod(LeaseOf(i))' /\ registered[routes'[i].worker] = routes'[i].gen
      BY <1>2 DEF HumanRoutes, Interventions
  <2>1. CASE i = i0
    <3>1. HumanPeriod(LeaseOf(i))'
          BY <1>2, <1>3, <1>12, <2>1 DEF HumanPeriod, lifecycleVars, IsActive, Suspended
    <3> QED BY <1>4, <1>6, <2>1, <3>1
  <2>2. CASE i # i0
    <3>1. HumanPeriod(LeaseOf(i)) /\ registered[routes[i].worker] = routes[i].gen
          BY <1>1, <1>6, <2>2 DEF HumanRoutes
    <3>2. HumanPeriod(LeaseOf(i))'
          BY <1>2, <1>12, <2>2, <3>1 DEF HumanPeriod, lifecycleVars, IsActive, Suspended
    <3> QED BY <1>6, <2>2, <3>1, <3>2
  <2> QED BY <2>1, <2>2
<1>17. WireInv'
  <2>1. \A u \in Tasks : u # t /\ task[u].kind # "idle" =>
            task'[u] = task[u] /\ Conn(task[u].chan)' = Conn(task[u].chan)
        BY <1>2, <1>7 DEF Conn
  <2>2. /\ task'[t].kind = "bind" /\ task'[t].pc = "send" /\ Conn(task[t].chan)' = c
        /\ HumanPeriod(task[t].lease)'
        BY <1>2, <1>3, <1>7 DEF Conn, c, HumanPeriod, lifecycleVars, IsActive, Suspended
  <2>3. \A i : Binds(t, i)' => i = i0
        BY <1>7, <1>10 DEF Binds
  <2>4. wire \in [Connections -> Seq(Tasks)]
        BY <1>1 DEF HostedTypeOK
  <2>5. \A u \in Tasks, i \in Interventions : ~(Revokes(u, i) /\ Binds(t, i)')
        BY <1>11, <2>3
  <2> QED BY <1>1, <1>2, <1>3, <1>8, <1>9, <2>1, <2>2, <2>4, <2>5, SendKeepsWire
<1>18. GateInv'
  <2> SUFFICES ASSUME NEW d \in Connections, NEW i \in Interventions, gate[d][i] # 0
               PROVE  /\ d[2] <= generation[d[1]] /\ routes'[i].worker = d[1]
                      /\ routes'[i].epoch # 0
                      /\ \/ Abandoned(d)
                         \/ HumanPeriod([iv |-> i, epoch |-> gate[d][i], conn |-> d])
      BY <1>2 DEF GateInv, HumanPeriod, IsActive, Suspended, lifecycleVars, Abandoned,
                  Interventions, Connections, Generations
  <2>1. /\ d[2] <= generation[d[1]] /\ routes[i].worker = d[1] /\ routes[i].epoch # 0
        /\ Abandoned(d) \/ HumanPeriod([iv |-> i, epoch |-> gate[d][i], conn |-> d])
        BY <1>1 DEF GateInv
  <2> QED BY <1>3, <1>4, <1>6, <2>1
<1>19. AgreeInv'
  <2> SUFFICES ASSUME NEW d \in Connections, NEW i \in Interventions, registered[d[1]] = d[2]
               PROVE  /\ RoutedTo(i, d)' => gate[d][i] = routes'[i].epoch \/ Bound(i, d)'
                      /\ ~RoutedTo(i, d)' => gate[d][i] = 0 \/ Released(i, d)'
                      /\ Bound(i, d)' => RoutedTo(i, d)' \/ Released(i, d)'
      BY <1>2 DEF AgreeInv, Interventions, Connections, Generations
  <2>1. /\ RoutedTo(i, d) => gate[d][i] = routes[i].epoch \/ Bound(i, d)
        /\ ~RoutedTo(i, d) => gate[d][i] = 0 \/ Released(i, d)
        /\ Bound(i, d) => RoutedTo(i, d) \/ Released(i, d)
        BY <1>1 DEF AgreeInv
  <2>2. RoutedTo(i, d)' <=> IF i = i0 THEN d = c ELSE RoutedTo(i, d)
        BY <1>6, <1>10, <1>12 DEF RoutedTo
  <2>3. \A u \in Tasks : UnderWay(u, d)' <=> UnderWay(u, d) \/ (d = c /\ u = t)
        BY <1>1, <1>2, <1>3, Sent DEF HostedTypeOK
  <2>4. Bound(i, d)' <=> Bound(i, d) \/ (i = i0 /\ d = c)
        BY <1>7, <1>8, <1>10, <2>3 DEF Bound, Binds
  <2>5. Released(i, d) => Released(i, d)'
    <3> SUFFICES ASSUME NEW u \in Tasks, Revokes(u, i), Conn(task[u].chan) = d
                 PROVE  Released(i, d)'
        BY DEF Released
    <3>1. u # t /\ task'[u] = task[u]
          BY <1>7, <1>8 DEF Revokes
    <3>2. Conn(task[u].chan)' = d
          BY <1>2, <3>1 DEF Conn
    <3> QED BY <3>1, <3>2 DEF Released, Revokes
  <2>6. CASE i # i0
        BY <1>6, <2>1, <2>2, <2>4, <2>5, <2>6
  <2>7. CASE i = i0 /\ d = c
        BY <2>2, <2>4, <2>7
  <2>8. CASE i = i0 /\ d # c
    <3>1. ~RoutedTo(i, d)
      <4> SUFFICES ASSUME RoutedTo(i, d) PROVE FALSE
          OBVIOUS
      <4>1. routes[i].active /\ <<routes[i].worker, routes[i].gen>> = d /\ routes[i].epoch # 0
            BY <1>1 DEF RoutedTo, LeaseOf, HostedTypeOK, HumanLease
      <4>2. d[1] = c[1] /\ d[2] = registered[d[1]]
            BY <1>4, <2>8, <4>1
      <4>3. d = <<d[1], d[2]>>
            BY <4>1
      <4> QED BY <1>4, <1>5, <2>8, <4>2, <4>3
    <3> QED BY <2>1, <2>2, <2>4, <2>5, <2>8, <3>1
  <2> QED BY <2>6, <2>7, <2>8
<1> QED BY <1>13, <1>14, <1>15, <1>16, <1>17, <1>18, <1>19 DEF RouteInv

\* revokeIntervention() up to its first await: the route is released.
LEMMA RevokeInv ==
    ASSUME RouteInv, NEW t \in Tasks, NEW k \in DOMAIN channels, NEW l, NEW then,
           l.iv \in Interventions, then \in {"return", "complete", "cancel"},
           then # "return" => active.id = l.iv,
           RevokeIntervention(t, k, l, then)
    PROVE  RouteInv'
<1> DEFINE call == [kind |-> "revoke", pc |-> "notify", chan |-> k, lease |-> l,
                    then |-> then, id |-> active.id, failed |-> FALSE]
           i0 == l.iv
<1>1. /\ HostedTypeOK /\ ChannelInv /\ CallInv /\ HumanRoutes /\ WireInv /\ GateInv
      /\ AgreeInv
      BY DEF RouteInv
<1>2. /\ task[t] = Idle /\ routes[i0].active /\ LeaseOf(i0) = l /\ l.conn = Conn(k)
      /\ routes' = [routes EXCEPT ![i0].active = FALSE]
      /\ task' = [task EXCEPT ![t] = call]
      /\ UNCHANGED <<lifecycleVars, registered, generation, channels, wire, gate>>
      BY DEF RevokeIntervention, Current
<1>3. l \in HumanLease /\ HumanPeriod(l) /\ l.conn \in Connections /\ active.id \in Nat
  <2>1. l \in HumanLease /\ HumanPeriod(l)
        BY <1>1, <1>2 DEF HostedTypeOK, HumanRoutes
  <2> QED BY <1>1, <2>1 DEF HostedTypeOK, LifecycleTypeOK, HumanPeriod, IsActive, Suspended,
                            HumanLease, Intervention
<1>4. call \in RevokeCall
  <2>1. k \in Nat
        BY <1>1 DEF HostedTypeOK
  <2> QED BY <1>3, <2>1 DEF RevokeCall
<1>5. /\ call.kind = "revoke" /\ call.chan = k /\ call.lease = l /\ call.id = active.id
      /\ call.then = then
      OBVIOUS
<1> HIDE DEF call
<1>6. /\ \A u \in Tasks : u # t => task'[u] = task[u]
      /\ task'[t] = call
      /\ task' \in [Tasks -> {Idle} \union OpenCall \union BindCall \union RevokeCall]
      BY <1>1, <1>2, <1>4 DEF HostedTypeOK
<1>7. /\ \A i \in Interventions :
            /\ routes'[i].worker = routes[i].worker /\ routes'[i].gen = routes[i].gen
            /\ routes'[i].epoch = routes[i].epoch
            /\ routes'[i].active <=> routes[i].active /\ i # i0
      /\ routes' \in [Interventions -> [worker: Workers \union {"none"}, gen: Nat, epoch: Nat,
                                        active: BOOLEAN]]
      BY <1>1, <1>2 DEF HostedTypeOK
<1>8. \A i \in Interventions : LeaseOf(i)' = LeaseOf(i)
      BY <1>7 DEF LeaseOf
<1>9. task[t].kind = "idle" /\ \A d \in Connections : ~UnderWay(t, d)
      BY <1>1, <1>2 DEF Idle, WireInv
<1>10. /\ LifecycleTypeOK' /\ (\A lease : HumanPeriod(lease)' = HumanPeriod(lease))
       BY <1>1, <1>2, PeriodGoesOn DEF HostedTypeOK
<1>11. HostedTypeOK'
  <2>1. HumanLease' = HumanLease /\ Interventions' = Interventions
        BY DEF HumanLease, Interventions
  <2> QED BY <1>1, <1>2, <1>6, <1>7, <1>8, <1>10, <2>1 DEF HostedTypeOK
<1>12. ChannelInv'
      BY <1>1, <1>2 DEF ChannelInv
<1>13. CallInv'
  <2> SUFFICES ASSUME NEW u \in Tasks
               PROVE  /\ task'[u].kind # "idle" => task'[u].chan \in DOMAIN channels
                      /\ task'[u].kind \in {"bind", "revoke"} =>
                            /\ task'[u].lease.conn = Conn(task'[u].chan)
                            /\ routes'[task'[u].lease.iv].worker = task'[u].lease.conn[1]
                            /\ routes'[task'[u].lease.iv].epoch # 0
                      /\ task'[u].kind = "revoke" =>
                            /\ ~routes'[task'[u].lease.iv].active
                            /\ task'[u].then # "return" => task'[u].id = task'[u].lease.iv
      BY <1>2 DEF CallInv, Conn
  <2>1. CASE u = t
    <3>1. /\ l.epoch # 0 /\ l.conn = <<routes[i0].worker, routes[i0].gen>>
          /\ l.epoch = routes[i0].epoch
          BY <1>2, <1>3 DEF HumanLease, LeaseOf
    <3>2. l.conn[1] = routes[i0].worker /\ i0 \in Interventions
          BY <3>1
    <3>3. /\ routes'[i0].worker = l.conn[1] /\ routes'[i0].epoch # 0
          /\ ~routes'[i0].active
          BY <1>7, <3>1, <3>2
    <3>4. /\ task'[u].kind = "revoke" /\ task'[u].chan = k /\ task'[u].lease = l
          /\ task'[u].id = active.id /\ task'[u].then = then
          BY <1>5, <1>6, <2>1
    <3>5. then # "return" => active.id = i0
          OBVIOUS
    <3> QED BY <1>2, <3>3, <3>4, <3>5
  <2>2. CASE u # t
    <3>1. task'[u] = task[u]
          BY <1>6, <2>2
    <3> QED BY <1>1, <1>7, <3>1, CallTypes DEF CallInv
  <2> QED BY <2>1, <2>2
<1>14. HumanRoutes'
      BY <1>1, <1>2, <1>7, <1>8
      DEF HumanRoutes, HumanPeriod, IsActive, Suspended, lifecycleVars, Interventions
<1>15. \A u \in Tasks, d \in Connections :
          /\ UnderWay(u, d)' = UnderWay(u, d)
          /\ UnderWay(u, d) => u # t /\ task'[u] = task[u]
      BY <1>2, <1>6, <1>9 DEF UnderWay
<1>16. \A u, v \in Tasks, d \in Connections :
          /\ Before(u, v, d)' = Before(u, v, d)
          /\ Before(u, v, d) => UnderWay(u, d) /\ UnderWay(v, d)
      BY <1>2 DEF Before, UnderWay
<1>17. WireInv'
  <2> SUFFICES ASSUME NEW d \in Connections, NEW u \in Tasks
               PROVE  /\ UnderWay(u, d) =>
                            /\ task'[u].kind # "idle" /\ task'[u].pc = "send"
                            /\ Conn(task'[u].chan) = d
                            /\ task'[u].kind = "bind" =>
                                  Abandoned(d) \/ HumanPeriod(task'[u].lease)
                      /\ ~Before(u, u, d)
                      /\ \A v \in Tasks, i \in Interventions :
                            Before(u, v, d) => ~(Revokes(u, i)' /\ Binds(v, i)')
      BY <1>2, <1>15, <1>16
      DEF WireInv, Conn, Abandoned, HumanPeriod, IsActive, Suspended, lifecycleVars,
          Interventions, Connections, Generations
  <2>1. /\ UnderWay(u, d) =>
              /\ task[u].kind # "idle" /\ task[u].pc = "send" /\ Conn(task[u].chan) = d
              /\ task[u].kind = "bind" => Abandoned(d) \/ HumanPeriod(task[u].lease)
        /\ ~Before(u, u, d)
        /\ \A v \in Tasks, i \in Interventions :
              Before(u, v, d) => ~(Revokes(u, i) /\ Binds(v, i))
        BY <1>1 DEF WireInv
  <2> QED BY <1>15, <1>16, <2>1 DEF Revokes, Binds
<1>18. GateInv'
  <2> SUFFICES ASSUME NEW d \in Connections, NEW i \in Interventions, gate[d][i] # 0
               PROVE  /\ d[2] <= generation[d[1]] /\ routes'[i].worker = d[1]
                      /\ routes'[i].epoch # 0
                      /\ \/ Abandoned(d)
                         \/ HumanPeriod([iv |-> i, epoch |-> gate[d][i], conn |-> d])
      BY <1>2 DEF GateInv, HumanPeriod, IsActive, Suspended, lifecycleVars, Abandoned,
                  Interventions, Connections, Generations
  <2> QED BY <1>1, <1>7 DEF GateInv
<1>19. AgreeInv'
  <2> SUFFICES ASSUME NEW d \in Connections, NEW i \in Interventions, registered[d[1]] = d[2]
               PROVE  /\ RoutedTo(i, d)' => gate[d][i] = routes'[i].epoch \/ Bound(i, d)'
                      /\ ~RoutedTo(i, d)' => gate[d][i] = 0 \/ Released(i, d)'
                      /\ Bound(i, d)' => RoutedTo(i, d)' \/ Released(i, d)'
      BY <1>2 DEF AgreeInv, Interventions, Connections, Generations
  <2>1. /\ RoutedTo(i, d) => gate[d][i] = routes[i].epoch \/ Bound(i, d)
        /\ ~RoutedTo(i, d) => gate[d][i] = 0 \/ Released(i, d)
        /\ Bound(i, d) => RoutedTo(i, d) \/ Released(i, d)
        BY <1>1 DEF AgreeInv
  <2>2. RoutedTo(i, d)' <=> RoutedTo(i, d) /\ i # i0
        BY <1>7, <1>8 DEF RoutedTo
  <2>3. Bound(i, d)' <=> Bound(i, d)
        BY <1>15 DEF Bound, Binds
  <2>4. Released(i, d) => Released(i, d)'
    <3> SUFFICES ASSUME NEW u \in Tasks, Revokes(u, i), Conn(task[u].chan) = d
                 PROVE  Released(i, d)'
        BY DEF Released
    <3>1. u # t /\ task'[u] = task[u]
          BY <1>6, <1>9 DEF Revokes
    <3>2. Conn(task[u].chan)' = d
          BY <1>2, <3>1 DEF Conn
    <3> QED BY <3>1, <3>2 DEF Released, Revokes
  <2>5. i = i0 /\ RoutedTo(i, d) => Released(i, d)'
    <3> SUFFICES ASSUME i = i0, RoutedTo(i, d) PROVE Released(i, d)'
        OBVIOUS
    <3>1. d = Conn(k)
          BY <1>2 DEF RoutedTo
    <3>2. Conn(task[t].chan)' = d /\ Revokes(t, i)'
          BY <1>2, <1>5, <1>6, <3>1 DEF Conn, Revokes
    <3> QED BY <3>2 DEF Released
  <2> QED BY <1>7, <2>1, <2>2, <2>3, <2>4, <2>5
<1> QED BY <1>11, <1>12, <1>13, <1>14, <1>17, <1>18, <1>19 DEF RouteInv

\* The callback returned or threw: the worker is told.
LEMMA SettleInv ==
    ASSUME RouteInv, NEW t \in Tasks, CallbackSettles(t)
    PROVE  RouteInv'
<1>1. /\ HostedTypeOK /\ ChannelInv /\ CallInv /\ HumanRoutes /\ WireInv /\ GateInv
      /\ AgreeInv
      BY DEF RouteInv
<1> DEFINE c == Conn(task[t].chan)
<1>2. PICK failed \in BOOLEAN : task' = [task EXCEPT ![t].pc = "send", ![t].failed = failed]
      BY DEF CallbackSettles
<1>3. /\ task[t].kind = "revoke" /\ task[t].pc = "notify" /\ Send(c, t)
      /\ UNCHANGED <<lifecycleVars, registered, generation, routes, channels, gate>>
      BY DEF CallbackSettles, registryVars
<1>4. task[t] \in RevokeCall /\ task[t].chan \in DOMAIN channels /\ c \in Connections
      BY <1>1, <1>3, CallTypes, ChannelConnection DEF CallInv
<1>5. task'[t] = [kind |-> "revoke", pc |-> "send", chan |-> task[t].chan,
                  lease |-> task[t].lease, then |-> task[t].then, id |-> task[t].id,
                  failed |-> failed]
  <2>1. task'[t] = [task[t] EXCEPT !.pc = "send", !.failed = failed]
        BY <1>1, <1>2 DEF HostedTypeOK
  <2> QED BY <1>4, <2>1 DEF RevokeCall
<1>6. /\ task'[t] \in RevokeCall /\ task'[t].kind = "revoke" /\ task'[t].chan = task[t].chan
      /\ task'[t].lease = task[t].lease /\ task'[t].then = task[t].then
      /\ task'[t].id = task[t].id /\ task'[t].pc = "send"
      BY <1>4, <1>5 DEF RevokeCall
<1>7. /\ \A u \in Tasks : u # t => task'[u] = task[u]
      /\ task' \in [Tasks -> {Idle} \union OpenCall \union BindCall \union RevokeCall]
      BY <1>1, <1>2, <1>6 DEF HostedTypeOK
<1>8. /\ LifecycleTypeOK' /\ (\A lease : HumanPeriod(lease)' = HumanPeriod(lease))
      /\ \A d \in Connections : Abandoned(d)' = Abandoned(d)
      BY <1>1, <1>3, PeriodGoesOn DEF HostedTypeOK, Abandoned
<1> HIDE DEF c
<1>9. \A d \in Connections : ~UnderWay(t, d)
      BY <1>1, <1>3 DEF WireInv
<1>10. HostedTypeOK'
  <2>1. HumanLease' = HumanLease /\ Interventions' = Interventions
        BY DEF HumanLease, Interventions
  <2>2. wire' \in [Connections -> Seq(Tasks)]
        BY <1>1, <1>3, <1>4, Sent DEF HostedTypeOK
  <2>3. \A i \in Interventions : LeaseOf(i)' = LeaseOf(i)
        BY <1>3 DEF LeaseOf
  <2> QED BY <1>1, <1>3, <1>7, <1>8, <2>1, <2>2, <2>3 DEF HostedTypeOK
<1>11. ChannelInv'
      BY <1>1, <1>3 DEF ChannelInv
<1>12. CallInv'
  <2>1. ASSUME NEW u \in Tasks
        PROVE  /\ task'[u].kind = task[u].kind
               /\ task[u].kind # "idle" => task'[u].chan = task[u].chan
               /\ task[u].kind \in {"bind", "revoke"} => task'[u].lease = task[u].lease
               /\ task[u].kind = "revoke" =>
                     task'[u].then = task[u].then /\ task'[u].id = task[u].id
    <3>1. CASE u = t
          BY <1>3, <1>6, <3>1
    <3>2. CASE u # t
      <4>1. task'[u] = task[u]
            BY <1>7, <3>2
      <4> QED BY <4>1
    <3> QED BY <3>1, <3>2
  <2> SUFFICES ASSUME NEW u \in Tasks
               PROVE  /\ task'[u].kind # "idle" => task'[u].chan \in DOMAIN channels
                      /\ task'[u].kind \in {"bind", "revoke"} =>
                            /\ task'[u].lease.conn = Conn(task'[u].chan)
                            /\ routes[task'[u].lease.iv].worker = task'[u].lease.conn[1]
                            /\ routes[task'[u].lease.iv].epoch # 0
                      /\ task'[u].kind = "revoke" =>
                            /\ ~routes[task'[u].lease.iv].active
                            /\ task'[u].then # "return" => task'[u].id = task'[u].lease.iv
      BY <1>3 DEF CallInv, Conn
  <2>2. /\ task[u].kind # "idle" => task[u].chan \in DOMAIN channels
        /\ task[u].kind \in {"bind", "revoke"} =>
              /\ task[u].lease.conn = Conn(task[u].chan)
              /\ routes[task[u].lease.iv].worker = task[u].lease.conn[1]
              /\ routes[task[u].lease.iv].epoch # 0
        /\ task[u].kind = "revoke" =>
              /\ ~routes[task[u].lease.iv].active
              /\ task[u].then # "return" => task[u].id = task[u].lease.iv
        BY <1>1 DEF CallInv
  <2> QED BY <2>1, <2>2
<1>13. HumanRoutes'
      BY <1>1, <1>3
      DEF HumanRoutes, HumanPeriod, IsActive, Suspended, lifecycleVars, Interventions,
          LeaseOf
<1>14. WireInv'
  <2>1. \A u \in Tasks : u # t /\ task[u].kind # "idle" =>
            task'[u] = task[u] /\ Conn(task[u].chan)' = Conn(task[u].chan)
        BY <1>3, <1>7 DEF Conn
  <2>2. Conn(task[t].chan)' = c
        BY <1>3, <1>6 DEF Conn, c
  <2>3. \A i : ~Binds(t, i)'
        BY <1>6 DEF Binds
  <2>4. wire \in [Connections -> Seq(Tasks)]
        BY <1>1 DEF HostedTypeOK
  <2> QED BY <1>1, <1>3, <1>4, <1>6, <1>8, <1>9, <2>1, <2>2, <2>3, <2>4, SendKeepsWire
<1>15. GateInv'
      BY <1>1, <1>3
      DEF GateInv, HumanPeriod, IsActive, Suspended, lifecycleVars, Abandoned, Interventions,
          Connections, Generations
<1>16. AgreeInv'
  <2> SUFFICES ASSUME NEW d \in Connections, NEW i \in Interventions, registered[d[1]] = d[2]
               PROVE  /\ RoutedTo(i, d)' => gate[d][i] = routes[i].epoch \/ Bound(i, d)'
                      /\ ~RoutedTo(i, d)' => gate[d][i] = 0 \/ Released(i, d)'
                      /\ Bound(i, d)' => RoutedTo(i, d)' \/ Released(i, d)'
      BY <1>3 DEF AgreeInv, Interventions, Connections, Generations
  <2>1. RoutedTo(i, d)' = RoutedTo(i, d)
        BY <1>3 DEF RoutedTo, LeaseOf
  <2>2. \A u \in Tasks : UnderWay(u, d)' <=> UnderWay(u, d) \/ (d = c /\ u = t)
        BY <1>1, <1>3, <1>4, Sent DEF HostedTypeOK
  <2>3. Bound(i, d)' <=> Bound(i, d)
        BY <1>3, <1>6, <1>7, <2>2 DEF Bound, Binds
  <2>4. Released(i, d)' <=> Released(i, d)
    <3>1. ASSUME NEW u \in Tasks
          PROVE  (Revokes(u, i) /\ Conn(task[u].chan) = d)'
                     <=> Revokes(u, i) /\ Conn(task[u].chan) = d
          BY <1>3, <1>6, <1>7 DEF Revokes, Conn
    <3> QED BY <3>1 DEF Released
  <2> QED BY <1>1, <2>1, <2>3, <2>4 DEF AgreeInv
<1> QED BY <1>10, <1>11, <1>12, <1>13, <1>14, <1>15, <1>16 DEF RouteInv
--------------------------------------------------------------------------------
\* Messages that leave: what is left on the wires is as it was.
LEMMA WireShrinks ==
    ASSUME WireInv, UNCHANGED generation,
           \A u \in Tasks, d \in Connections : UnderWay(u, d)' =>
               /\ UnderWay(u, d) /\ task'[u] = task[u]
               /\ Conn(task[u].chan)' = Conn(task[u].chan)
               /\ task[u].kind = "bind" => Abandoned(d) \/ HumanPeriod(task[u].lease)',
           \A u, v \in Tasks, d \in Connections : Before(u, v, d)' => Before(u, v, d)
    PROVE  WireInv'
<1>1. \A u, v \in Tasks, d \in Connections : Before(u, v, d)' => UnderWay(u, d)' /\ UnderWay(v, d)'
      BY DEF Before, UnderWay
<1>2. ASSUME NEW d \in Connections, NEW u \in Tasks, UnderWay(u, d)'
      PROVE  /\ task'[u].kind # "idle" /\ task'[u].pc = "send" /\ Conn(task[u].chan)' = d
             /\ task'[u].kind = "bind" => Abandoned(d)' \/ HumanPeriod(task[u].lease)'
  <2>1. /\ UnderWay(u, d) /\ task'[u] = task[u] /\ Conn(task[u].chan)' = Conn(task[u].chan)
        /\ task[u].kind = "bind" => Abandoned(d) \/ HumanPeriod(task[u].lease)'
        BY <1>2
  <2>2. Abandoned(d)' = Abandoned(d)
        BY DEF Abandoned
  <2>3. task[u].kind # "idle" /\ task[u].pc = "send" /\ Conn(task[u].chan) = d
        BY <2>1 DEF WireInv
  <2> QED BY <2>1, <2>2, <2>3
<1>3. ASSUME NEW d \in Connections, NEW u \in Tasks, NEW v \in Tasks, Before(u, v, d)'
      PROVE  u # v /\ \A i \in Interventions : ~(Revokes(u, i)' /\ Binds(v, i)')
  <2>1. Before(u, v, d) /\ task'[u] = task[u] /\ task'[v] = task[v]
        BY <1>1, <1>3
  <2> QED BY <2>1 DEF WireInv, Revokes, Binds
<1>4. Connections' = Connections /\ Interventions' = Interventions
      BY DEF Connections, Interventions, Generations
<1> QED BY <1>2, <1>3, <1>4 DEF WireInv

\* The worker's gate when it was given the control message of t, or was not.
LEMMA GateAfter ==
    ASSUME HostedTypeOK, NEW c \in Connections, NEW t \in Tasks,
           ApplyControl(t, c) \/ UNCHANGED gate
    PROVE  /\ gate' \in [Connections -> [Interventions -> Nat]]
           /\ \A d \in Connections, i \in Interventions :
                 \/ gate'[d][i] = gate[d][i]
                 \/ d = c /\ Revokes(t, i) /\ gate'[d][i] = 0
                 \/ d = c /\ Binds(t, i) /\ gate'[d][i] = task[t].lease.epoch
           /\ ApplyControl(t, c) => \A i \in Interventions :
                 /\ Revokes(t, i) => gate'[c][i] = 0
                 /\ Binds(t, i) => gate'[c][i] = task[t].lease.epoch
<1>1. gate \in [Connections -> [Interventions -> Nat]]
      BY DEF HostedTypeOK
<1>2. CASE UNCHANGED gate /\ ~ApplyControl(t, c)
      BY <1>1, <1>2
<1>3. CASE ApplyControl(t, c) /\ task[t].kind = "bind"
  <2>1. gate' = [gate EXCEPT ![c][task[t].lease.iv] = task[t].lease.epoch]
        BY <1>3 DEF ApplyControl
  <2>2. task[t].lease.iv \in Interventions /\ task[t].lease.epoch \in Nat
        BY <1>3, CallTypes
  <2> QED BY <1>1, <1>3, <2>1, <2>2 DEF Revokes, Binds
<1>4. CASE ApplyControl(t, c) /\ task[t].kind = "revoke"
  <2>1. gate' = [gate EXCEPT ![c][task[t].lease.iv] = 0]
        BY <1>4 DEF ApplyControl
  <2>2. task[t].lease.iv \in Interventions
        BY <1>4, CallTypes
  <2> QED BY <1>1, <1>4, <2>1, <2>2 DEF Revokes, Binds
<1>5. CASE ApplyControl(t, c) /\ task[t].kind # "bind" /\ task[t].kind # "revoke"
  <2>1. gate' = gate
        BY <1>5 DEF ApplyControl
  <2> QED BY <1>1, <1>5, <2>1 DEF Revokes, Binds
<1> QED BY <1>2, <1>3, <1>4, <1>5

\* It admits the Human period of the moment only, whether or not the message got there.
LEMMA ControlKeepsGate ==
    ASSUME RouteInv, NEW c \in Connections, NEW t \in Tasks, UnderWay(t, c),
           ApplyControl(t, c) \/ UNCHANGED gate,
           NEW d \in Connections, NEW i \in Interventions, gate'[d][i] # 0
    PROVE  /\ d[2] <= generation[d[1]] /\ routes[i].worker = d[1] /\ routes[i].epoch # 0
           /\ Abandoned(d) \/ HumanPeriod([iv |-> i, epoch |-> gate'[d][i], conn |-> d])
<1>1. HostedTypeOK /\ ChannelInv /\ CallInv /\ WireInv /\ GateInv
      BY DEF RouteInv
<1>2. CASE gate'[d][i] = gate[d][i]
      BY <1>1, <1>2 DEF GateInv
<1>3. CASE d = c /\ Binds(t, i) /\ gate'[d][i] = task[t].lease.epoch
  <2>1. /\ task[t].kind = "bind" /\ task[t].lease.iv = i /\ Conn(task[t].chan) = c
        /\ Abandoned(c) \/ HumanPeriod(task[t].lease)
        BY <1>1, <1>3 DEF Binds, WireInv
  <2>2. /\ task[t].chan \in DOMAIN channels /\ routes[i].worker = task[t].lease.conn[1]
        /\ task[t].lease.conn = c /\ routes[i].epoch # 0
        BY <1>1, <2>1 DEF CallInv
  <2>3. c[2] <= generation[c[1]]
        BY <1>1, <2>1, <2>2, ChannelConnection
  <2>4. HumanPeriod(task[t].lease) => HumanPeriod([iv |-> i, epoch |-> gate'[d][i], conn |-> d])
        BY <1>3, <2>1 DEF HumanPeriod
  <2> QED BY <1>3, <2>1, <2>2, <2>3, <2>4
<1>4. gate'[d][i] = gate[d][i] \/ (d = c /\ Binds(t, i) /\ gate'[d][i] = task[t].lease.epoch)
      BY <1>1, GateAfter
<1> QED BY <1>2, <1>3, <1>4

\* #fenceLocal(), with or without a message that failed on the same connection.
LEMMA FenceInv ==
    ASSUME RouteInv, NEW k \in DOMAIN channels, FenceLocal(k),
           UNCHANGED <<lifecycleVars, generation>>,
           wire' \in [Connections -> Seq(Tasks)],
           gate' \in [Connections -> [Interventions -> Nat]],
           task' \in [Tasks -> {Idle} \union OpenCall \union BindCall \union RevokeCall],
           \A u \in Tasks :
               task'[u] = task[u] \/ (task'[u] = Idle /\ Conn(task[u].chan) = Conn(k)),
           \A u \in Tasks, d \in Connections :
               /\ UnderWay(u, d)' => UnderWay(u, d) /\ task'[u] = task[u]
               /\ d # Conn(k) /\ UnderWay(u, d) => UnderWay(u, d)',
           \A u, v \in Tasks, d \in Connections : Before(u, v, d)' => Before(u, v, d),
           \A d \in Connections, i \in Interventions :
               /\ d # Conn(k) => gate'[d][i] = gate[d][i]
               /\ gate'[d][i] # 0 =>
                     /\ d[2] <= generation[d[1]] /\ routes[i].worker = d[1] /\ routes[i].epoch # 0
                     /\ Abandoned(d) \/ HumanPeriod([iv |-> i, epoch |-> gate'[d][i], conn |-> d])
    PROVE  RouteInv'
<1> DEFINE c == Conn(k)
<1>1. /\ HostedTypeOK /\ ChannelInv /\ CallInv /\ HumanRoutes /\ WireInv /\ GateInv
      /\ AgreeInv
      BY DEF RouteInv
<1>2. /\ channels' \in Seq(Channel) /\ Len(channels') = Len(channels)
      /\ DOMAIN channels' = DOMAIN channels
      /\ \A m \in DOMAIN channels :
            /\ channels'[m].worker = channels[m].worker /\ channels'[m].gen = channels[m].gen
            /\ m # k => channels'[m] = channels[m]
      /\ registered' \in [Workers -> Nat]
      /\ \A w \in Workers : registered'[w] \in {0, registered[w]}
      /\ registered'[channels[k].worker] # channels[k].gen
      /\ routes' \in [Interventions -> [worker: Workers \union {"none"}, gen: Nat,
                                        epoch: Nat, active: BOOLEAN]]
      /\ \A i \in Interventions :
            /\ LeaseOf(i)' = LeaseOf(i) /\ routes'[i].worker = routes[i].worker
            /\ routes'[i].gen = routes[i].gen /\ routes'[i].epoch = routes[i].epoch
            /\ routes'[i].active =>
                  routes[i].active /\ registered'[routes[i].worker] = routes[i].gen
      /\ \A i \in Interventions, d \in Connections :
            registered'[d[1]] = d[2] =>
               registered[d[1]] = d[2] /\ (RoutedTo(i, d)' <=> RoutedTo(i, d))
      BY <1>1, FenceFacts
<1>3. \A m \in DOMAIN channels : Conn(m)' = Conn(m)
      BY <1>2 DEF Conn
<1>4. /\ LifecycleTypeOK' /\ (\A lease : HumanPeriod(lease)' = HumanPeriod(lease))
      /\ \A d \in Connections : Abandoned(d)' = Abandoned(d)
      BY <1>1, PeriodGoesOn DEF HostedTypeOK, Abandoned
<1>5. c \in Connections /\ c = <<channels[k].worker, channels[k].gen>>
      BY <1>1, ChannelConnection DEF Conn
<1> HIDE DEF c
<1>6. HostedTypeOK'
  <2>1. \A i \in Interventions :
            routes'[i].active \/ routes'[i].epoch # 0 => LeaseOf(i)' \in HumanLease
        BY <1>1, <1>2 DEF HostedTypeOK
  <2>2. HumanLease' = HumanLease /\ Interventions' = Interventions
        BY DEF HumanLease, Interventions
  <2> QED BY <1>1, <1>2, <1>4, <2>1, <2>2 DEF HostedTypeOK
<1>7. ChannelInv'
  <2>1. \A w \in Workers : registered'[w] \in {0, generation'[w]} /\ generation'[w] <= Len(channels')
        BY <1>1, <1>2 DEF ChannelInv
  <2>2. ASSUME NEW m \in DOMAIN channels'
        PROVE  /\ channels'[m].gen <= generation'[channels'[m].worker]
               /\ channels'[m].state = "fenced" =>
                     registered'[channels'[m].worker] # channels'[m].gen
    <3>1. /\ m \in DOMAIN channels /\ channels'[m].worker = channels[m].worker
          /\ channels'[m].gen = channels[m].gen
          BY <1>2
    <3>2. /\ channels[m].gen <= generation[channels[m].worker]
          /\ channels[m].state = "fenced" => registered[channels[m].worker] # channels[m].gen
          BY <1>1, <3>1 DEF ChannelInv
    <3>3. channels[m].worker \in Workers /\ channels[m].gen # 0
          BY <1>1, <3>1, ChannelConnection DEF Channel
    <3>4. CASE m = k
          BY <1>2, <3>1, <3>2, <3>4
    <3>5. CASE m # k
      <4>1. channels'[m] = channels[m] /\ registered'[channels[m].worker] \in {0, registered[channels[m].worker]}
            BY <1>2, <3>1, <3>3, <3>5
      <4> QED BY <3>1, <3>2, <3>3, <4>1
    <3> QED BY <3>4, <3>5
  <2> QED BY <2>1, <2>2 DEF ChannelInv
<1>8. CallInv'
  <2> SUFFICES ASSUME NEW u \in Tasks
               PROVE  /\ task'[u].kind # "idle" => task'[u].chan \in DOMAIN channels'
                      /\ task'[u].kind \in {"bind", "revoke"} =>
                            /\ task'[u].lease.conn = Conn(task[u].chan)'
                            /\ routes'[task'[u].lease.iv].worker = task'[u].lease.conn[1]
                            /\ routes'[task'[u].lease.iv].epoch # 0
                      /\ task'[u].kind = "revoke" =>
                            /\ ~routes'[task'[u].lease.iv].active
                            /\ task'[u].then # "return" => task'[u].id = task'[u].lease.iv
      BY DEF CallInv
  <2>1. CASE task'[u] = Idle
        BY <2>1 DEF Idle
  <2>2. CASE task'[u] = task[u]
    <3>1. /\ task[u].kind # "idle" => task[u].chan \in DOMAIN channels
          /\ task[u].kind \in {"bind", "revoke"} =>
                /\ task[u].lease.conn = Conn(task[u].chan)
                /\ routes[task[u].lease.iv].worker = task[u].lease.conn[1]
                /\ routes[task[u].lease.iv].epoch # 0
          /\ task[u].kind = "revoke" =>
                /\ ~routes[task[u].lease.iv].active
                /\ task[u].then # "return" => task[u].id = task[u].lease.iv
          BY <1>1 DEF CallInv
    <3>2. task[u].kind \in {"bind", "revoke"} => task[u].lease.iv \in Interventions
          BY <1>1, CallTypes
    <3>3. task[u].kind # "idle" => Conn(task[u].chan)' = Conn(task[u].chan)
      <4> SUFFICES ASSUME task[u].kind # "idle" PROVE Conn(task[u].chan)' = Conn(task[u].chan)
          OBVIOUS
      <4>1. task[u].chan \in DOMAIN channels
            BY <3>1
      <4> QED BY <1>2, <2>2, <4>1 DEF Conn
    <3> QED BY <1>2, <2>2, <3>1, <3>2, <3>3
  <2> QED BY <2>1, <2>2
<1>9. HumanRoutes'
  <2> SUFFICES ASSUME NEW i \in Interventions, routes'[i].active
               PROVE  HumanPeriod(LeaseOf(i))' /\ registered'[routes'[i].worker] = routes'[i].gen
      BY DEF HumanRoutes, Interventions
  <2>1. routes[i].active /\ LeaseOf(i)' = LeaseOf(i)
        BY <1>2
  <2>2. HumanPeriod(LeaseOf(i))
        BY <1>1, <2>1 DEF HumanRoutes
  <2>3. HumanPeriod(LeaseOf(i))'
        BY <2>1, <2>2 DEF HumanPeriod, IsActive, Suspended, lifecycleVars
  <2> QED BY <1>2, <2>3
<1>10. \A u \in Tasks, d \in Connections : UnderWay(u, d) =>
          /\ task[u].kind # "idle" /\ Conn(task[u].chan) = d /\ task[u].chan \in DOMAIN channels
          /\ task[u].kind = "bind" => Abandoned(d) \/ HumanPeriod(task[u].lease)
      BY <1>1 DEF WireInv, CallInv
<1>11. WireInv'
  <2>1. ASSUME NEW u \in Tasks, NEW d \in Connections, UnderWay(u, d)'
        PROVE  /\ UnderWay(u, d) /\ task'[u] = task[u]
               /\ Conn(task[u].chan)' = Conn(task[u].chan)
               /\ task[u].kind = "bind" => Abandoned(d) \/ HumanPeriod(task[u].lease)'
    <3>1. UnderWay(u, d) /\ task'[u] = task[u]
          BY <2>1
    <3>2. /\ task[u].chan \in DOMAIN channels
          /\ task[u].kind = "bind" => Abandoned(d) \/ HumanPeriod(task[u].lease)
          BY <1>10, <3>1
    <3>3. Conn(task[u].chan)' = Conn(task[u].chan)
          BY <1>2, <3>1, <3>2 DEF Conn
    <3>4. HumanPeriod(task[u].lease) => HumanPeriod(task[u].lease)'
          BY <3>1 DEF HumanPeriod, IsActive, Suspended, lifecycleVars
    <3> QED BY <3>1, <3>2, <3>3, <3>4
  <2> QED BY <1>1, <2>1, WireShrinks
<1>12. GateInv'
  <2> SUFFICES ASSUME NEW d \in Connections, NEW i \in Interventions, gate'[d][i] # 0
               PROVE  /\ d[2] <= generation[d[1]] /\ routes'[i].worker = d[1]
                      /\ routes'[i].epoch # 0
                      /\ \/ Abandoned(d)
                         \/ HumanPeriod([iv |-> i, epoch |-> gate'[d][i], conn |-> d])
      BY DEF GateInv, HumanPeriod, IsActive, Suspended, lifecycleVars, Abandoned,
             Interventions, Connections, Generations
  <2>1. /\ d[2] <= generation[d[1]] /\ routes[i].worker = d[1] /\ routes[i].epoch # 0
        /\ Abandoned(d) \/ HumanPeriod([iv |-> i, epoch |-> gate'[d][i], conn |-> d])
        OBVIOUS
  <2>2. routes'[i].worker = routes[i].worker /\ routes'[i].epoch = routes[i].epoch
        BY <1>2
  <2> QED BY <2>1, <2>2
<1>13. AgreeInv'
  <2> SUFFICES ASSUME NEW d \in Connections, NEW i \in Interventions, registered'[d[1]] = d[2]
               PROVE  /\ RoutedTo(i, d)' => gate'[d][i] = routes'[i].epoch \/ Bound(i, d)'
                      /\ ~RoutedTo(i, d)' => gate'[d][i] = 0 \/ Released(i, d)'
                      /\ Bound(i, d)' => RoutedTo(i, d)' \/ Released(i, d)'
      BY DEF AgreeInv, Interventions, Connections, Generations
  <2>1. /\ RoutedTo(i, d) => gate[d][i] = routes[i].epoch \/ Bound(i, d)
        /\ ~RoutedTo(i, d) => gate[d][i] = 0 \/ Released(i, d)
        /\ Bound(i, d) => RoutedTo(i, d) \/ Released(i, d)
        BY <1>1, <1>2 DEF AgreeInv
  <2>2. d # c
        BY <1>2, <1>5
  <2>3. (RoutedTo(i, d)' <=> RoutedTo(i, d)) /\ routes'[i].epoch = routes[i].epoch
        BY <1>2
  <2>4. gate'[d][i] = gate[d][i]
        BY <2>2 DEF c
  <2>5. \A u \in Tasks : UnderWay(u, d)' <=> UnderWay(u, d)
        BY <2>2 DEF c
  <2>6. Bound(i, d)' <=> Bound(i, d)
    <3>1. \A u \in Tasks : UnderWay(u, d)' => task'[u] = task[u]
          OBVIOUS
    <3> QED BY <2>5, <3>1 DEF Bound, Binds
  <2>7. Released(i, d) => Released(i, d)'
    <3> SUFFICES ASSUME NEW u \in Tasks, Revokes(u, i), Conn(task[u].chan) = d
                 PROVE  Released(i, d)'
        BY DEF Released
    <3>1. task'[u] = task[u]
          BY <2>2 DEF c
    <3>2. task[u].chan \in DOMAIN channels
          BY <1>1 DEF CallInv, Revokes
    <3>3. Conn(task[u].chan)' = d
          BY <1>2, <3>1, <3>2 DEF Conn
    <3> QED BY <3>1, <3>3 DEF Released, Revokes
  <2> QED BY <2>1, <2>3, <2>4, <2>6, <2>7
<1> QED BY <1>6, <1>7, <1>8, <1>9, <1>11, <1>12, <1>13 DEF RouteInv

\* The invariant survives a worker that disconnects.
LEMMA DisconnectInv ==
    ASSUME RouteInv, NEW k \in DOMAIN channels, Disconnect(k)
    PROVE  RouteInv'
<1>1. FenceLocal(k) /\ UNCHANGED <<lifecycleVars, generation, wire, gate, task>>
      BY DEF Disconnect
<1>2. HostedTypeOK /\ GateInv
      BY DEF RouteInv
<1>3. \A u, v \in Tasks, d \in Connections :
          UnderWay(u, d)' = UnderWay(u, d) /\ Before(u, v, d)' = Before(u, v, d)
      BY <1>1 DEF UnderWay, Before
<1> QED BY <1>1, <1>2, <1>3, FenceInv DEF HostedTypeOK, GateInv

\* The transport reports a send as failed: the connection is over with it.
LEMMA SendFailsInv ==
    ASSUME RouteInv, NEW c \in Connections, SendFails(c)
    PROVE  RouteInv'
<1>1. HostedTypeOK /\ CallInv /\ WireInv /\ ChannelInv
      BY DEF RouteInv
<1>2. PICK j \in DOMAIN wire[c] :
          /\ ApplyControl(wire[c][j], c) \/ UNCHANGED gate
          /\ FenceLocal(task[wire[c][j]].chan)
          /\ wire' = [wire EXCEPT ![c] = SubSeq(@, 1, j - 1) \o SubSeq(@, j + 1, Len(@))]
          /\ task' = [task EXCEPT ![wire[c][j]] = Idle]
          /\ UNCHANGED <<lifecycleVars, generation>>
      BY DEF SendFails
<1>3. wire \in [Connections -> Seq(Tasks)] /\ wire[c][j] \in Tasks
      BY <1>1 DEF HostedTypeOK
<1> DEFINE t == wire[c][j]
           k == task[t].chan
<1>4. /\ t \in Tasks /\ UnderWay(t, c) /\ ~Before(t, t, c) /\ task[t].kind # "idle"
      /\ Conn(k) = c /\ k \in DOMAIN channels
      BY <1>1, <1>3 DEF UnderWay, WireInv, CallInv
<1>5. LeavesWire(c, j)
      BY <1>2, <1>3, Left
<1>6. /\ \A u \in Tasks, d \in Connections : UnderWay(u, d)' <=> UnderWay(u, d) /\ ~(d = c /\ u = t)
      /\ \A u, v \in Tasks, d \in Connections : Before(u, v, d)' => Before(u, v, d)
      BY <1>3, <1>4, <1>5, MessageLeft
<1>7. /\ \A u \in Tasks : IF u = t THEN task'[u] = Idle ELSE task'[u] = task[u]
      /\ task' \in [Tasks -> {Idle} \union OpenCall \union BindCall \union RevokeCall]
      BY <1>1, <1>2, <1>4 DEF HostedTypeOK
<1>8. wire' \in [Connections -> Seq(Tasks)]
      BY <1>5 DEF LeavesWire
<1>9. FenceLocal(k) /\ (ApplyControl(t, c) \/ UNCHANGED gate)
      BY <1>2
<1> HIDE DEF t, k
<1>10. gate' \in [Connections -> [Interventions -> Nat]]
      BY <1>1, <1>4, <1>9, GateAfter
<1>11. ASSUME NEW d \in Connections, NEW i \in Interventions
       PROVE  /\ d # Conn(k) => gate'[d][i] = gate[d][i]
              /\ gate'[d][i] # 0 =>
                   /\ d[2] <= generation[d[1]] /\ routes[i].worker = d[1] /\ routes[i].epoch # 0
                   /\ Abandoned(d) \/ HumanPeriod([iv |-> i, epoch |-> gate'[d][i], conn |-> d])
  <2>1. d # c => gate'[d][i] = gate[d][i]
        BY <1>1, <1>4, <1>9, GateAfter
  <2> QED BY <1>4, <1>9, <2>1, ControlKeepsGate
<1>12. \A u \in Tasks, d \in Connections : UnderWay(u, d) /\ u = t => d = c
       BY <1>1, <1>4 DEF WireInv, k
<1>13. \A u \in Tasks :
          task'[u] = task[u] \/ (task'[u] = Idle /\ Conn(task[u].chan) = Conn(k))
       BY <1>7 DEF k
<1>14. \A u \in Tasks, d \in Connections :
          /\ UnderWay(u, d)' => UnderWay(u, d) /\ task'[u] = task[u]
          /\ d # Conn(k) /\ UnderWay(u, d) => UnderWay(u, d)'
       BY <1>4, <1>6, <1>7, <1>12
<1> QED BY <1>2, <1>4, <1>6, <1>7, <1>8, <1>9, <1>10, <1>11, <1>13, <1>14, FenceInv
--------------------------------------------------------------------------------
\* A control message gets there: its call returns, and may end the Human period, of
\* which by then no route, no bind under way and no gate in use is left.
LEMMA DeliveredInv ==
    ASSUME RouteInv, NEW c \in Connections, Delivered(c)
    PROVE  RouteInv'
<1> DEFINE t == Head(wire[c])
<1>1. /\ HostedTypeOK /\ ChannelInv /\ CallInv /\ HumanRoutes /\ WireInv /\ GateInv
      /\ AgreeInv
      BY DEF RouteInv
<1>2. /\ wire[c] # <<>> /\ ApplyControl(t, c) /\ Opened(t) /\ EndHumanPeriod(t)
      /\ task' = [task EXCEPT ![t] = Idle] /\ wire' = [wire EXCEPT ![c] = Tail(@)]
      /\ UNCHANGED <<registered, generation, routes>>
      BY DEF Delivered, registryVars
<1>3. /\ wire \in [Connections -> Seq(Tasks)] /\ 1 \in DOMAIN wire[c] /\ wire[c][1] = t
      /\ LeavesWire(c, 1)
      BY <1>1, <1>2, HeadLeft DEF HostedTypeOK
<1>4. t \in Tasks
  <2>1. wire[c][1] \in Tasks
        BY <1>3
  <2> QED BY <1>3, <2>1
<1> HIDE DEF t
<1>5. /\ UnderWay(t, c) /\ ~Before(t, t, c) /\ task[t].kind # "idle"
      /\ Conn(task[t].chan) = c /\ task[t].chan \in DOMAIN channels
      /\ task[t].kind = "bind" => Abandoned(c) \/ HumanPeriod(task[t].lease)
      BY <1>1, <1>3, <1>4 DEF UnderWay, WireInv, CallInv
<1>6. ~Abandoned(c)
      BY <1>2 DEF ApplyControl, GateAdmits
<1>7. /\ \A u \in Tasks, d \in Connections : UnderWay(u, d)' <=> UnderWay(u, d) /\ ~(d = c /\ u = t)
      /\ \A u, v \in Tasks, d \in Connections : Before(u, v, d)' => Before(u, v, d)
      /\ \A u \in Tasks : UnderWay(u, c)' => Before(t, u, c)
      BY <1>3, <1>4, <1>5, MessageLeft
<1>8. /\ \A u \in Tasks : IF u = t THEN task'[u] = Idle ELSE task'[u] = task[u]
      /\ task' \in [Tasks -> {Idle} \union OpenCall \union BindCall \union RevokeCall]
      BY <1>1, <1>2, <1>4 DEF HostedTypeOK
<1>9. \A u \in Tasks, d \in Connections : UnderWay(u, d) /\ u = t => d = c
      BY <1>1, <1>5 DEF WireInv
<1>10. /\ channels' \in Seq(Channel) /\ Len(channels') = Len(channels)
       /\ DOMAIN channels' = DOMAIN channels
       /\ \A m \in DOMAIN channels :
             /\ channels'[m].worker = channels[m].worker /\ channels'[m].gen = channels[m].gen
             /\ channels'[m].state = "fenced" => channels[m].state = "fenced"
  <2> DEFINE k == task[t].chan
             f == [channels[k] EXCEPT !.state = IF @ = "opening" THEN "open" ELSE @]
  <2>1. channels \in Seq(Channel) /\ k \in DOMAIN channels /\ channels[k] \in Channel
        BY <1>1, <1>5, ChannelConnection DEF HostedTypeOK
  <2>2. /\ f \in Channel /\ f.worker = channels[k].worker /\ f.gen = channels[k].gen
        /\ f.state = "fenced" => channels[k].state = "fenced"
        BY <2>1 DEF Channel
  <2>3. channels' = channels \/ channels' = [channels EXCEPT ![k] = f]
        BY <1>2 DEF Opened
  <2> HIDE DEF f, k
  <2> QED BY <2>1, <2>2, <2>3
<1>11. \A m \in DOMAIN channels : Conn(m)' = Conn(m)
       BY <1>10 DEF Conn
<1>12. /\ LifecycleTypeOK'
       /\ \/ UNCHANGED lifecycleVars
          \/ task[t].kind = "revoke" /\ task[t].then # "return" /\ IsActive(task[t].id)
       BY <1>1, <1>2, CallEndsItsPeriod DEF HostedTypeOK
<1> DEFINE i0 == task[t].lease.iv
<1>13. ASSUME ~UNCHANGED lifecycleVars
       PROVE  /\ Revokes(t, i0) /\ active.id = i0 /\ i0 \in Interventions
              /\ ~routes[i0].active /\ routes[i0].worker = c[1]
  <2>1. task[t].kind = "revoke" /\ task[t].then # "return" /\ active.id = task[t].id
        BY <1>12, <1>13 DEF IsActive
  <2>2. i0 \in Interventions
        BY <1>1, <1>4, <2>1, CallTypes
  <2> QED BY <1>1, <1>4, <1>5, <2>1, <2>2 DEF CallInv, Revokes
<1>14. \A d \in Connections : d[1] = c[1] /\ ~Abandoned(d) /\ d[2] <= generation[d[1]] => d = c
  <2>1. c[2] <= generation[c[1]]
        BY <1>1, <1>5, ChannelConnection
  <2> QED BY <1>1, <1>6, <2>1, OneInUse
<1>15. \A lease : UNCHANGED lifecycleVars /\ HumanPeriod(lease) => HumanPeriod(lease)'
       BY PeriodGoesOn
<1>16. HostedTypeOK'
  <2>1. HumanLease' = HumanLease /\ Interventions' = Interventions
        BY DEF HumanLease, Interventions
  <2>2. \A i \in Interventions : LeaseOf(i)' = LeaseOf(i)
        BY <1>2 DEF LeaseOf
  <2>3. wire' \in [Connections -> Seq(Tasks)]
        BY <1>3 DEF LeavesWire
  <2>4. gate' \in [Connections -> [Interventions -> Nat]]
        BY <1>1, <1>2, <1>4, GateAfter
  <2> QED BY <1>1, <1>2, <1>8, <1>10, <1>12, <2>1, <2>2, <2>3, <2>4 DEF HostedTypeOK
<1>17. ChannelInv'
  <2>1. \A w \in Workers : registered'[w] \in {0, generation'[w]} /\ generation'[w] <= Len(channels')
        BY <1>1, <1>2, <1>10 DEF ChannelInv
  <2>2. \A m \in DOMAIN channels' :
            /\ channels'[m].gen <= generation'[channels'[m].worker]
            /\ channels'[m].state = "fenced" =>
                  registered'[channels'[m].worker] # channels'[m].gen
        BY <1>1, <1>2, <1>10 DEF ChannelInv
  <2> QED BY <2>1, <2>2 DEF ChannelInv
<1>18. CallInv'
  <2> SUFFICES ASSUME NEW u \in Tasks
               PROVE  /\ task'[u].kind # "idle" => task'[u].chan \in DOMAIN channels'
                      /\ task'[u].kind \in {"bind", "revoke"} =>
                            /\ task'[u].lease.conn = Conn(task[u].chan)'
                            /\ routes'[task'[u].lease.iv].worker = task'[u].lease.conn[1]
                            /\ routes'[task'[u].lease.iv].epoch # 0
                      /\ task'[u].kind = "revoke" =>
                            /\ ~routes'[task'[u].lease.iv].active
                            /\ task'[u].then # "return" => task'[u].id = task'[u].lease.iv
      BY DEF CallInv
  <2>1. CASE u = t
        BY <1>8, <2>1 DEF Idle
  <2>2. CASE u # t
    <3>1. task'[u] = task[u] /\ routes' = routes
          BY <1>2, <1>8, <2>2
    <3>2. task[u].kind # "idle" => Conn(task[u].chan)' = Conn(task[u].chan)
      <4> SUFFICES ASSUME task[u].kind # "idle" PROVE Conn(task[u].chan)' = Conn(task[u].chan)
          OBVIOUS
      <4>1. task[u].chan \in DOMAIN channels
            BY <1>1 DEF CallInv
      <4> QED BY <1>10, <3>1, <4>1 DEF Conn
    <3> QED BY <1>1, <1>10, <3>1, <3>2 DEF CallInv
  <2> QED BY <2>1, <2>2
<1>19. HumanRoutes'
  <2> SUFFICES ASSUME NEW i \in Interventions, routes[i].active
               PROVE  HumanPeriod(LeaseOf(i))' /\ registered[routes[i].worker] = routes[i].gen
      BY <1>2 DEF HumanRoutes, Interventions
  <2>1. HumanPeriod(LeaseOf(i)) /\ registered[routes[i].worker] = routes[i].gen
        BY <1>1 DEF HumanRoutes
  <2>2. LeaseOf(i)' = LeaseOf(i) /\ active.id = i
        BY <1>2, <2>1 DEF LeaseOf, HumanPeriod, IsActive
  <2>3. UNCHANGED lifecycleVars
        BY <1>13, <2>2
  <2>4. HumanPeriod(LeaseOf(i))'
        BY <2>1, <2>2, <2>3 DEF HumanPeriod, IsActive, Suspended, lifecycleVars
  <2> QED BY <2>1, <2>4
<1>20. ASSUME NEW u \in Tasks, NEW d \in Connections, UnderWay(u, d)', task[u].kind = "bind"
       PROVE  Abandoned(d) \/ HumanPeriod(task[u].lease)'
  <2> SUFFICES ASSUME ~Abandoned(d) PROVE HumanPeriod(task[u].lease)'
      OBVIOUS
  <2>1. UnderWay(u, d) /\ u # t /\ task'[u] = task[u]
        BY <1>7, <1>8, <1>9, <1>20
  <2>2. /\ HumanPeriod(task[u].lease) /\ Conn(task[u].chan) = d
        /\ task[u].chan \in DOMAIN channels /\ task[u].lease.conn = d
        /\ routes[task[u].lease.iv].worker = d[1]
        BY <1>1, <1>20, <2>1 DEF WireInv, CallInv
  <2>3. task[u].lease.iv \in Interventions
        BY <1>1, <1>20, CallTypes
  <2>4. CASE UNCHANGED lifecycleVars
        BY <2>1, <2>2, <2>4 DEF HumanPeriod, IsActive, Suspended, lifecycleVars
  <2>5. CASE ~UNCHANGED lifecycleVars
    <3>1. task[u].lease.iv = i0
          BY <1>13, <2>2, <2>5 DEF HumanPeriod, IsActive
    <3>2. d[1] = c[1] /\ d[2] <= generation[d[1]]
          BY <1>1, <1>13, <2>2, <2>5, <3>1, ChannelConnection
    <3>3. d = c
          BY <1>14, <3>2
    <3>4. Before(t, u, c)
          BY <1>7, <1>20, <3>3
    <3>5. Revokes(t, i0) /\ Binds(u, i0)
          BY <1>13, <1>20, <2>5, <3>1 DEF Binds
    <3> QED BY <1>1, <1>4, <2>3, <3>1, <3>4, <3>5 DEF WireInv
  <2> QED BY <2>4, <2>5
<1>21. WireInv'
  <2>1. ASSUME NEW u \in Tasks, NEW d \in Connections, UnderWay(u, d)'
        PROVE  /\ UnderWay(u, d) /\ task'[u] = task[u]
               /\ Conn(task[u].chan)' = Conn(task[u].chan)
               /\ task[u].kind = "bind" => Abandoned(d) \/ HumanPeriod(task[u].lease)'
    <3>1. UnderWay(u, d) /\ u # t /\ task'[u] = task[u]
          BY <1>7, <1>8, <1>9, <2>1
    <3>2. task[u].chan \in DOMAIN channels
          BY <1>1, <3>1 DEF WireInv, CallInv
    <3>3. Conn(task[u].chan)' = Conn(task[u].chan)
          BY <1>10, <3>1, <3>2 DEF Conn
    <3> QED BY <1>20, <2>1, <3>1, <3>3
  <2> QED BY <1>1, <1>2, <1>7, <2>1, WireShrinks
<1>22. GateInv'
  <2> SUFFICES ASSUME NEW d \in Connections, NEW i \in Interventions, gate'[d][i] # 0
               PROVE  /\ d[2] <= generation[d[1]] /\ routes[i].worker = d[1]
                      /\ routes[i].epoch # 0
                      /\ \/ Abandoned(d)
                         \/ HumanPeriod([iv |-> i, epoch |-> gate[d][i], conn |-> d])'
      BY <1>2 DEF GateInv, HumanPeriod, Abandoned, Interventions, Connections, Generations
  <2>1. /\ d[2] <= generation[d[1]] /\ routes[i].worker = d[1] /\ routes[i].epoch # 0
        /\ Abandoned(d) \/ HumanPeriod([iv |-> i, epoch |-> gate'[d][i], conn |-> d])
        BY <1>2, <1>4, <1>5, ControlKeepsGate
  <2>2. CASE Abandoned(d)
        BY <2>1, <2>2
  <2>3. CASE ~Abandoned(d) /\ UNCHANGED lifecycleVars
        BY <2>1, <2>3 DEF HumanPeriod, IsActive, Suspended, lifecycleVars
  <2>4. CASE ~Abandoned(d) /\ ~UNCHANGED lifecycleVars
    <3>1. i = i0
          BY <1>13, <2>1, <2>4 DEF HumanPeriod, IsActive
    <3>2. d = c
          BY <1>13, <1>14, <2>1, <2>4, <3>1
    <3>3. gate'[c][i] = 0
          BY <1>1, <1>2, <1>4, <1>13, <2>4, <3>1, GateAfter
    <3> QED BY <3>2, <3>3
  <2> QED BY <2>2, <2>3, <2>4
<1>23. AgreeInv'
  <2> SUFFICES ASSUME NEW d \in Connections, NEW i \in Interventions, registered[d[1]] = d[2]
               PROVE  /\ RoutedTo(i, d)' => gate'[d][i] = routes[i].epoch \/ Bound(i, d)'
                      /\ ~RoutedTo(i, d)' => gate'[d][i] = 0 \/ Released(i, d)'
                      /\ Bound(i, d)' => RoutedTo(i, d)' \/ Released(i, d)'
      BY <1>2 DEF AgreeInv, Interventions, Connections, Generations
  <2>1. /\ RoutedTo(i, d) => gate[d][i] = routes[i].epoch \/ Bound(i, d)
        /\ ~RoutedTo(i, d) => gate[d][i] = 0 \/ Released(i, d)
        /\ Bound(i, d) => RoutedTo(i, d) \/ Released(i, d)
        BY <1>1 DEF AgreeInv
  <2>2. RoutedTo(i, d)' <=> RoutedTo(i, d)
        BY <1>2 DEF RoutedTo, LeaseOf
  <2>3. \A u \in Tasks : UnderWay(u, d)' <=> UnderWay(u, d) /\ u # t
        BY <1>7, <1>9
  <2>4. Bound(i, d)' <=> \E u \in Tasks : u # t /\ UnderWay(u, d) /\ Binds(u, i)
        BY <1>8, <2>3 DEF Bound, Binds
  <2>5. ASSUME NEW u \in Tasks, u # t, Revokes(u, i), Conn(task[u].chan) = d
        PROVE  Released(i, d)'
    <3>1. task'[u] = task[u] /\ task[u].chan \in DOMAIN channels
          BY <1>1, <1>8, <2>5 DEF CallInv, Revokes
    <3>2. Conn(task[u].chan)' = d
          BY <1>10, <2>5, <3>1 DEF Conn
    <3> QED BY <2>5, <3>1, <3>2 DEF Released, Revokes
  <2>6. CASE d = c /\ Binds(t, i)
    <3>1. Bound(i, d) /\ (Released(i, d) => Released(i, d)')
          BY <1>4, <1>5, <2>5, <2>6 DEF Bound, Released, Revokes, Binds
    <3>2. gate'[d][i] = task[t].lease.epoch
          BY <1>1, <1>2, <1>4, <2>6, GateAfter
    <3>3. RoutedTo(i, d) => routes[i].epoch = task[t].lease.epoch
      <4>1. HumanPeriod(task[t].lease)
            BY <1>5, <1>6, <2>6 DEF Binds
      <4>2. RoutedTo(i, d) => HumanPeriod(LeaseOf(i))
            BY <1>1 DEF RoutedTo, HumanRoutes
      <4> QED BY <4>1, <4>2 DEF HumanPeriod, LeaseOf
    <3> QED BY <2>1, <2>2, <3>1, <3>2, <3>3
  <2>7. CASE d = c /\ Revokes(t, i)
    <3>1. ~RoutedTo(i, d)
          BY <1>1, <1>4, <2>7 DEF CallInv, Revokes, RoutedTo
    <3>2. gate'[d][i] = 0
          BY <1>1, <1>2, <1>4, <2>7, GateAfter
    <3>3. ~Bound(i, d)'
      <4> SUFFICES ASSUME NEW u \in Tasks, u # t, UnderWay(u, d), Binds(u, i) PROVE FALSE
          BY <2>4
      <4>1. Before(t, u, c)
            BY <1>7, <2>3, <2>7
      <4> QED BY <1>1, <1>4, <2>7, <4>1 DEF WireInv
    <3> QED BY <2>2, <3>1, <3>2, <3>3
  <2>8. CASE ~(d = c /\ Binds(t, i)) /\ ~(d = c /\ Revokes(t, i))
    <3>1. gate'[d][i] = gate[d][i]
          BY <1>1, <1>2, <1>4, <2>8, GateAfter
    <3>2. Bound(i, d)' <=> Bound(i, d)
          BY <1>9, <2>4, <2>8 DEF Bound
    <3>3. Released(i, d) => Released(i, d)'
          BY <1>5, <2>5, <2>8 DEF Released
    <3> QED BY <2>1, <2>2, <3>1, <3>2, <3>3
  <2> QED BY <2>6, <2>7, <2>8
<1> QED BY <1>16, <1>17, <1>18, <1>19, <1>21, <1>22, <1>23 DEF RouteInv

\* A step of the consumer, of the operator or of the data plane moves nothing of routing.
LEMMA RoutingStands ==
    ASSUME RouteInv, UNCHANGED <<registryVars, channels, wire, gate, task>>,
           LifecycleTypeOK', \A lease : HumanPeriod(lease) => HumanPeriod(lease)'
    PROVE  RouteInv'
<1>1. /\ HostedTypeOK /\ ChannelInv /\ CallInv /\ HumanRoutes /\ WireInv /\ GateInv
      /\ AgreeInv
      BY DEF RouteInv
<1>2. UNCHANGED <<registered, generation, routes, channels, wire, gate, task>>
      BY DEF registryVars
<1>3. \A lease : HumanPeriod(lease) => HumanPeriod(lease)'
      OBVIOUS
<1>4. HostedTypeOK' /\ ChannelInv' /\ CallInv'
  <2>1. HumanLease' = HumanLease /\ Interventions' = Interventions
        BY DEF HumanLease, Interventions
  <2>2. \A i \in Interventions : LeaseOf(i)' = LeaseOf(i)
        BY <1>2 DEF LeaseOf
  <2>3. HostedTypeOK'
        BY <1>1, <1>2, <2>1, <2>2 DEF HostedTypeOK
  <2> QED BY <1>1, <1>2, <2>3 DEF ChannelInv, CallInv, Conn
<1>5. HumanRoutes'
  <2> SUFFICES ASSUME NEW i \in Interventions, routes[i].active
               PROVE  HumanPeriod(LeaseOf(i))' /\ registered[routes[i].worker] = routes[i].gen
      BY <1>2 DEF HumanRoutes, Interventions
  <2>1. HumanPeriod(LeaseOf(i)) /\ registered[routes[i].worker] = routes[i].gen
        BY <1>1 DEF HumanRoutes
  <2>2. LeaseOf(i)' = LeaseOf(i)
        BY <1>2 DEF LeaseOf
  <2> QED BY <1>3, <2>1, <2>2 DEF HumanPeriod
<1>6. WireInv'
  <2>1. ASSUME NEW u \in Tasks, NEW d \in Connections, UnderWay(u, d)'
        PROVE  /\ UnderWay(u, d) /\ task'[u] = task[u]
               /\ Conn(task[u].chan)' = Conn(task[u].chan)
               /\ task[u].kind = "bind" => Abandoned(d) \/ HumanPeriod(task[u].lease)'
    <3>1. UnderWay(u, d) /\ task' = task /\ Conn(task[u].chan)' = Conn(task[u].chan)
          BY <1>2, <2>1 DEF UnderWay, Conn
    <3>2. task[u].kind = "bind" => Abandoned(d) \/ HumanPeriod(task[u].lease)
          BY <1>1, <3>1 DEF WireInv
    <3>3. HumanPeriod(task[u].lease) => HumanPeriod(task[u].lease)'
          BY <1>3, <3>1 DEF HumanPeriod
    <3> QED BY <3>1, <3>2, <3>3
  <2>2. \A u, v \in Tasks, d \in Connections : Before(u, v, d)' => Before(u, v, d)
        BY <1>2 DEF Before
  <2> QED BY <1>1, <1>2, <2>1, <2>2, WireShrinks
<1>7. GateInv'
  <2> SUFFICES ASSUME NEW d \in Connections, NEW i \in Interventions, gate[d][i] # 0
               PROVE  /\ d[2] <= generation[d[1]] /\ routes[i].worker = d[1]
                      /\ routes[i].epoch # 0
                      /\ \/ Abandoned(d)
                         \/ HumanPeriod([iv |-> i, epoch |-> gate[d][i], conn |-> d])'
      BY <1>2 DEF GateInv, HumanPeriod, Abandoned, Interventions, Connections, Generations
  <2>1. /\ d[2] <= generation[d[1]] /\ routes[i].worker = d[1] /\ routes[i].epoch # 0
        /\ Abandoned(d) \/ HumanPeriod([iv |-> i, epoch |-> gate[d][i], conn |-> d])
        BY <1>1 DEF GateInv
  <2>2. HumanPeriod([iv |-> i, epoch |-> gate[d][i], conn |-> d])
            => HumanPeriod([iv |-> i, epoch |-> gate[d][i], conn |-> d])'
        BY <1>2, <1>3 DEF HumanPeriod
  <2> QED BY <2>1, <2>2
<1>8. AgreeInv'
      BY <1>1, <1>2
      DEF AgreeInv, RoutedTo, LeaseOf, Bound, Released, UnderWay, Binds, Revokes, Conn,
          Interventions, Connections, Generations
<1> QED BY <1>4, <1>5, <1>6, <1>7, <1>8 DEF RouteInv
--------------------------------------------------------------------------------
\* Every step keeps routing.
LEMMA RouteStep ==
    ASSUME HostedInv, ~rebound', [Next]_vars
    PROVE  RouteInv'
<1>1. RouteInv /\ HostedTypeOK /\ LifecycleTypeOK /\ DataTypeOK
      BY DEF HostedInv, RouteInv, HostedTypeOK
<1>2. CASE \E t \in Tasks, w \in Workers : OpenChannel(t, w)
      BY <1>1, <1>2, OpenInv
<1>3. CASE \E t \in Tasks, k \in DOMAIN channels : BindIntervention(t, k)
      BY <1>1, <1>3, BindInv
<1>4. CASE \E t \in Tasks, k \in DOMAIN channels : EndCalled(t, k)
  <2>1. PICK t \in Tasks, k \in DOMAIN channels, then \in {"complete", "cancel"} :
            /\ binding # NoBinding /\ active.id = binding.lease.iv
            /\ RevokeIntervention(t, k, binding.lease, then)
        BY <1>4 DEF EndCalled
  <2>2. binding.lease.iv \in Interventions
        BY <1>1, <2>1 DEF DataTypeOK, HumanLease
  <2> QED BY <1>1, <2>1, <2>2, RevokeInv
<1>5. CASE \E k \in DOMAIN channels : Disconnect(k)
      BY <1>1, <1>5, DisconnectInv
<1>6. CASE \E t \in Tasks, k \in DOMAIN channels, i \in Interventions :
               RevokeIntervention(t, k, LeaseOf(i), "return")
  <2>1. PICK t \in Tasks, k \in DOMAIN channels, i \in Interventions :
            RevokeIntervention(t, k, LeaseOf(i), "return")
        BY <1>6
  <2>2. LeaseOf(i).iv \in Interventions
        BY DEF LeaseOf
  <2> QED BY <1>1, <2>1, <2>2, RevokeInv
<1>7. CASE ChannelMoves
      BY <1>1, <1>7, DeliveredInv, SendFailsInv, SettleInv DEF ChannelMoves
<1>8. CASE \/ DataMoves \/ BindOperator \/ Dispatch \/ ViewerReconnects \/ SessionExpires
           \/ UNCHANGED vars
  <2>1. UNCHANGED <<lifecycleVars, registryVars, channels, wire, gate, task>>
        BY <1>8
        DEF DataMoves, ApplyHumanInput, InputFails, AcceptFrame, SendFrame, BindOperator,
            Dispatch, ViewerReconnects, SessionExpires, vars
  <2>2. LifecycleTypeOK' /\ \A lease : HumanPeriod(lease)' = HumanPeriod(lease)
        BY <1>1, <2>1, PeriodGoesOn
  <2> QED BY <1>1, <2>1, <2>2, RoutingStands
<1>9. CASE ConsumerMoves
  <2>1. UNCHANGED <<registryVars, channels, wire, gate, task>>
        BY <1>9 DEF ConsumerMoves
  <2>2. LifecycleTypeOK' /\ \A lease : HumanPeriod(lease) => HumanPeriod(lease)'
        BY <1>1, <1>9, ConsumerKeepsHuman
  <2> QED BY <1>1, <2>1, <2>2, RoutingStands
<1> QED BY <1>2, <1>3, <1>4, <1>5, <1>6, <1>7, <1>8, <1>9 DEF Next

\* A lease that a gate or the registry knows is of the Human period of the moment.
LEMMA LeaseInUse ==
    ASSUME RouteInv, NEW lease \in HumanLease
    PROVE  /\ Current(lease) => HumanPeriod(lease)
           /\ ~Abandoned(lease.conn) /\ gate[lease.conn][lease.iv] = lease.epoch
                 => HumanPeriod(lease)
<1>1. HumanRoutes /\ GateInv
      BY DEF RouteInv
<1>2. lease.iv \in Interventions /\ lease.conn \in Connections /\ lease.epoch # 0
      BY DEF HumanLease
<1>3. Current(lease) => HumanPeriod(lease)
      BY <1>1, <1>2 DEF Current, HumanRoutes
<1>4. ASSUME ~Abandoned(lease.conn), gate[lease.conn][lease.iv] = lease.epoch
      PROVE  HumanPeriod(lease)
  <2>1. HumanPeriod([iv |-> lease.iv, epoch |-> gate[lease.conn][lease.iv],
                     conn |-> lease.conn])
        BY <1>1, <1>2, <1>4 DEF GateInv
  <2> QED BY <1>4, <2>1 DEF HumanPeriod
<1> QED BY <1>3, <1>4

\* Every step keeps the data plane's types, and what it carries out is in time.
LEMMA DataStep ==
    ASSUME HostedInv, [Next]_vars
    PROVE  DataTypeOK' /\ ~late'
<1> USE DEF HumanLease
<1>1. /\ RouteInv /\ HostedTypeOK /\ LifecycleTypeOK /\ DataTypeOK /\ ~late
      BY DEF HostedInv, RouteInv, HostedTypeOK
<1>2. /\ viewer \in Nat
      /\ binding # NoBinding => binding \in [viewer: Nat, lease: HumanLease, closed: BOOLEAN]
      /\ input # NoInput =>
            input \in [state: {"awaited", "stray", "frame"}, lease: HumanLease]
      /\ input.state = "awaited" => binding # NoBinding
      BY <1>1 DEF DataTypeOK
<1> HIDE DEF HumanLease
<1>3. HumanLease' = HumanLease
      BY DEF HumanLease, Interventions
<1>4. NoInput.state = "none" /\ \A b \in [viewer: Nat, lease: HumanLease, closed: BOOLEAN] :
          b # NoBinding
      BY DEF NoInput, NoBinding
<1>5. ASSUME UNCHANGED viewVars, UNCHANGED late
      PROVE  DataTypeOK' /\ ~late'
      BY <1>1, <1>3, <1>5 DEF DataTypeOK, viewVars
<1>6. CASE \/ \E t \in Tasks, w \in Workers : OpenChannel(t, w)
           \/ \E t \in Tasks, k \in DOMAIN channels : BindIntervention(t, k) \/ EndCalled(t, k)
           \/ \E k \in DOMAIN channels : Disconnect(k)
           \/ \E t \in Tasks, k \in DOMAIN channels, i \in Interventions :
                  RevokeIntervention(t, k, LeaseOf(i), "return")
           \/ ChannelMoves \/ UNCHANGED vars
  <2>1. UNCHANGED viewVars /\ UNCHANGED late
        BY <1>6
        DEF OpenChannel, BindIntervention, EndCalled, RevokeIntervention, Disconnect,
            ChannelMoves, Delivered, SendFails, CallbackSettles, vars, viewVars
  <2> QED BY <1>5, <2>1
<1>7. CASE ConsumerMoves \/ ViewerReconnects \/ SessionExpires
  <2>1. viewer' \in Nat /\ UNCHANGED <<binding, input, late>>
        BY <1>2, <1>7 DEF ConsumerMoves, ViewerReconnects, SessionExpires
  <2> QED BY <1>1, <1>3, <2>1 DEF DataTypeOK
<1>8. CASE BindOperator
  <2> DEFINE l == LeaseOf(active.id)
  <2>1. /\ Suspended /\ Current(l) /\ UNCHANGED <<viewer, input, late>>
        /\ binding' = [viewer |-> viewer, lease |-> l, closed |-> FALSE]
        BY <1>8 DEF BindOperator, Bridge
  <2>2. active.id \in Interventions /\ l.iv = active.id
        BY <1>1, <2>1 DEF LifecycleTypeOK, LeaseOf
  <2>3. routes[active.id].active
        BY <2>1, <2>2 DEF Current
  <2>4. l \in HumanLease
        BY <1>1, <2>2, <2>3 DEF HostedTypeOK
  <2> HIDE DEF l
  <2>5. binding' \in [viewer: Nat, lease: HumanLease, closed: BOOLEAN]
        BY <1>2, <2>1, <2>4
  <2>6. binding' # NoBinding
        BY <1>4, <2>5
  <2> QED BY <1>1, <1>2, <1>3, <2>1, <2>5, <2>6
          DEF DataTypeOK, NoBinding, NoInput
<1>9. CASE Dispatch
  <2>1. /\ binding # NoBinding /\ input' = [state |-> "awaited", lease |-> binding.lease]
        /\ UNCHANGED <<viewer, binding, late>>
        BY <1>9 DEF Dispatch, BindingCurrent
  <2>2. binding.lease \in HumanLease
        BY <1>2, <2>1
  <2>3. input' \in [state: {"awaited", "stray", "frame"}, lease: HumanLease]
        BY <2>1, <2>2
  <2> QED BY <1>1, <1>2, <1>3, <2>1, <2>3
          DEF DataTypeOK, NoBinding
<1>10. CASE ApplyHumanInput \/ AcceptFrame
  <2>1. /\ input' = NoInput /\ UNCHANGED <<viewer, binding>> /\ input.state # "none"
        BY <1>10 DEF ApplyHumanInput, AcceptFrame
  <2>2. input.lease \in HumanLease
        BY <1>2, <1>4, <2>1
  <2>3. ~late'
    <3>1. CASE ApplyHumanInput
          BY <1>1, <2>2, <3>1, LeaseInUse DEF ApplyHumanInput
    <3>2. CASE AcceptFrame
          BY <1>1, <2>2, <3>2, LeaseInUse DEF AcceptFrame, BindingCurrent
    <3> QED BY <1>10, <3>1, <3>2
  <2>4. DataTypeOK'
        BY <1>1, <1>3, <1>4, <2>1 DEF DataTypeOK, NoBinding
  <2> QED BY <2>3, <2>4
<1>11. CASE InputFails
  <2>1. /\ input.state = "awaited" /\ UNCHANGED <<viewer, late>>
        /\ binding' = binding \/ binding' = [binding EXCEPT !.closed = TRUE]
        /\ input' = NoInput \/ input' = [input EXCEPT !.state = "stray"]
        BY <1>11 DEF InputFails
  <2>2. /\ binding \in [viewer: Nat, lease: HumanLease, closed: BOOLEAN]
        /\ input \in [state: {"awaited", "stray", "frame"}, lease: HumanLease]
        BY <1>2, <1>4, <2>1
  <2>3. binding' \in [viewer: Nat, lease: HumanLease, closed: BOOLEAN]
        BY <2>1, <2>2
  <2>4. /\ input' = NoInput \/
              input' \in [state: {"awaited", "stray", "frame"}, lease: HumanLease]
        /\ input'.state # "awaited"
        BY <1>4, <2>1, <2>2
  <2> QED BY <1>1, <1>2, <1>3, <2>1, <2>3, <2>4
          DEF DataTypeOK, NoBinding, NoInput
<1>12. CASE \E i \in Interventions : routes[i].epoch # 0 /\ SendFrame(LeaseOf(i))
  <2>1. PICK i \in Interventions : routes[i].epoch # 0 /\ SendFrame(LeaseOf(i))
        BY <1>12
  <2> DEFINE l == LeaseOf(i)
  <2>2. l \in HumanLease
        BY <1>1, <2>1 DEF HostedTypeOK
  <2>3. input' = [state |-> "frame", lease |-> l] /\ UNCHANGED <<viewer, binding, late>>
        BY <2>1 DEF SendFrame
  <2> HIDE DEF l
  <2>4. /\ input' \in [state: {"awaited", "stray", "frame"}, lease: HumanLease]
        /\ input'.state = "frame"
        BY <2>2, <2>3
  <2> QED BY <1>1, <1>3, <2>3, <2>4 DEF DataTypeOK, NoBinding
<1> QED BY <1>6, <1>7, <1>8, <1>9, <1>10, <1>11, <1>12 DEF Next, DataMoves

\* The initial state has no worker, no lease and no channel.
LEMMA HostedInit ==
    ASSUME Init
    PROVE  HostedInv
<1>1. /\ LifecycleInit /\ registered = [w \in Workers |-> 0]
      /\ generation = [w \in Workers |-> 0] /\ routes = [i \in Interventions |-> NeverBound]
      /\ channels = <<>> /\ wire = [c \in Connections |-> <<>>]
      /\ gate = [c \in Connections |-> [i \in Interventions |-> 0]]
      /\ task = [t \in Tasks |-> Idle] /\ binding = NoBinding /\ viewer = 1
      /\ input = NoInput /\ ~late
      BY DEF Init
<1>2. /\ \A i \in Interventions : routes[i] = NeverBound
      /\ \A t \in Tasks : task[t].kind = "idle"
      /\ \A t \in Tasks, c \in Connections : ~UnderWay(t, c)
      /\ \A t, u \in Tasks, c \in Connections : ~Before(t, u, c)
      BY <1>1 DEF Idle, UnderWay, Before
<1>3. NeverBound.epoch = 0 /\ ~NeverBound.active
      BY DEF NeverBound
<1>4. LifecycleTypeOK
  <2>1. epoch = 0 /\ issued = 0 /\ active = NoIntervention
        BY <1>1 DEF LifecycleInit
  <2>2. 0 \in 0..MaxIssued
        BY BoundsAssumption
  <2> QED BY <2>1, <2>2 DEF LifecycleTypeOK, Suspended
<1>5. HostedTypeOK
  <2>1. channels \in Seq(Channel) /\ Len(channels) <= MaxChannels
        BY <1>1, HostedAssumption
  <2>2. wire \in [Connections -> Seq(Tasks)]
        BY <1>1
  <2>3. gate \in [Connections -> [Interventions -> Nat]]
        BY <1>1
  <2>4. routes \in [Interventions -> [worker: Workers \union {"none"}, gen: Nat, epoch: Nat,
                                      active: BOOLEAN]]
        BY <1>1 DEF NeverBound
  <2>5. /\ registered \in [Workers -> Nat] /\ generation \in [Workers -> Nat]
        /\ task \in [Tasks -> {Idle} \union OpenCall \union BindCall \union RevokeCall]
        BY <1>1
  <2> QED BY <1>2, <1>3, <1>4, <2>1, <2>2, <2>3, <2>4, <2>5 DEF HostedTypeOK
<1>6. ChannelInv /\ CallInv /\ HumanRoutes
  <2>1. ChannelInv
        BY <1>1 DEF ChannelInv
  <2> QED BY <1>2, <1>3, <2>1 DEF CallInv, HumanRoutes
<1>7. WireInv /\ GateInv /\ AgreeInv
  <2>1. WireInv
        BY <1>2 DEF WireInv
  <2>2. GateInv
        BY <1>1 DEF GateInv
  <2>3. AgreeInv
        BY <1>1, <1>2, <1>3 DEF AgreeInv, RoutedTo, Bound
  <2> QED BY <2>1, <2>2, <2>3
<1>8. DataTypeOK
      BY <1>1 DEF DataTypeOK, NoBinding, NoInput
<1> QED BY <1>1, <1>5, <1>6, <1>7, <1>8 DEF HostedInv, RouteInv

(***************************************************************************)
(* Whatever the consumer binds, and when, a route that is active has a     *)
(* worker that is connected: registration, disconnection and binding agree *)
(* by themselves.                                                          *)
(***************************************************************************)
ConnectedInv ==
    /\ LifecycleTypeOK
    /\ registered \in [Workers -> Nat] /\ generation \in [Workers -> Nat]
    /\ routes \in [Interventions -> [worker: Workers \union {"none"}, gen: Nat, epoch: Nat,
                                     active: BOOLEAN]]
    /\ channels \in Seq([worker: Workers, gen: Nat \ {0}, state: {"opening", "open", "fenced"}])
    /\ \A i \in Interventions : routes[i].active =>
          /\ routes[i].worker \in Workers /\ routes[i].gen # 0
          /\ registered[routes[i].worker] = routes[i].gen

\* A connection that changes its state stays a connection.
LEMMA MarkedChannel ==
    ASSUME NEW cs \in Seq([worker: Workers, gen: Nat \ {0}, state: {"opening", "open", "fenced"}]),
           NEW k, NEW s, k \in DOMAIN cs => s \in {"opening", "open", "fenced"}
    PROVE  [cs EXCEPT ![k].state = s] \in
               Seq([worker: Workers, gen: Nat \ {0}, state: {"opening", "open", "fenced"}])
<1> DEFINE Record == [worker: Workers, gen: Nat \ {0}, state: {"opening", "open", "fenced"}]
           y == [cs[k] EXCEPT !.state = s]
<1>1. [cs EXCEPT ![k].state = s] = [cs EXCEPT ![k] = y]
      OBVIOUS
<1>2. CASE k \in DOMAIN cs
  <2>1. cs[k] \in Record
    <3> HIDE DEF Record
    <3>1. cs \in Seq(Record)
          BY DEF Record
    <3>. QED
      BY <1>2, <3>1
  <2>2. y \in Record
        BY <1>2, <2>1
  <2>3. cs \in Seq(Record)
        OBVIOUS
  <2> HIDE DEF Record, y
  <2>4. [cs EXCEPT ![k] = y] \in Seq(Record)
        BY <1>2, <2>2, <2>3
  <2>. QED
    BY <1>1, <2>4 DEF Record
<1>3. CASE k \notin DOMAIN cs
  <2>1. cs \in Seq(Record)
        OBVIOUS
  <2> HIDE DEF Record, y
  <2>2. [cs EXCEPT ![k] = y] = cs
        BY <1>3, <2>1
  <2>. QED
    BY <1>1, <2>1, <2>2 DEF Record
<1>. QED
  BY <1>2, <1>3

\* #fenceLocal() takes the routes of the connection away with its registration.
LEMMA FenceConnected ==
    ASSUME ConnectedInv, NEW k, FenceLocal(k), UNCHANGED generation, LifecycleTypeOK'
    PROVE  ConnectedInv'
<1> DEFINE c == Conn(k)
           connected == channels[k].state # "fenced" /\ registered[c[1]] = c[2]
           gone == {i \in Interventions : connected /\ routes[i].active /\ LeaseOf(i).conn = c}
<1>1. /\ channels' = [channels EXCEPT ![k].state = "fenced"]
      /\ registered' = IF connected THEN [registered EXCEPT ![c[1]] = 0] ELSE registered
      /\ routes' = [i \in Interventions |-> [routes[i] EXCEPT !.active = @ /\ i \notin gone]]
      BY DEF FenceLocal
<1>2. channels' \in Seq([worker: Workers, gen: Nat \ {0}, state: {"opening", "open", "fenced"}])
      BY <1>1, MarkedChannel DEF ConnectedInv
<1>3. registered' \in [Workers -> Nat] /\ generation' \in [Workers -> Nat]
      BY <1>1 DEF ConnectedInv
<1>4. \A i \in Interventions :
          /\ routes'[i].worker = routes[i].worker /\ routes'[i].gen = routes[i].gen
          /\ routes'[i].epoch = routes[i].epoch
          /\ routes'[i].active = (routes[i].active /\ i \notin gone)
          /\ routes'[i] \in [worker: Workers \union {"none"}, gen: Nat, epoch: Nat, active: BOOLEAN]
      BY <1>1 DEF ConnectedInv
<1>5. routes' \in [Interventions -> [worker: Workers \union {"none"}, gen: Nat, epoch: Nat,
                                     active: BOOLEAN]]
      BY <1>1, <1>4
<1>6. ASSUME NEW i \in Interventions, routes'[i].active
      PROVE  /\ routes'[i].worker \in Workers /\ routes'[i].gen # 0
             /\ registered'[routes'[i].worker] = routes'[i].gen
  <2>1. /\ routes[i].active /\ i \notin gone /\ routes[i].worker \in Workers /\ routes[i].gen # 0
        /\ registered[routes[i].worker] = routes[i].gen
        BY <1>4, <1>6 DEF ConnectedInv
  <2>2. ~(connected /\ routes[i].worker = c[1])
    <3>1. SUFFICES ASSUME connected, routes[i].worker = c[1] PROVE FALSE
          OBVIOUS
    <3>2. routes[i].gen = c[2]
          BY <2>1, <3>1
    <3>3. LeaseOf(i).conn = <<routes[i].worker, routes[i].gen>>
          BY DEF LeaseOf
    <3>4. c = <<c[1], c[2]>>
          BY DEF Conn
    <3>5. LeaseOf(i).conn = c
          BY <3>1, <3>2, <3>3, <3>4
    <3>. QED
      BY <2>1, <3>1, <3>5
  <2>3. registered'[routes[i].worker] = registered[routes[i].worker]
        BY <1>1, <2>1, <2>2 DEF ConnectedInv
  <2>. QED
    BY <1>4, <2>1, <2>3
<1>7. Interventions' = Interventions
      BY DEF Interventions
<1>. QED
  BY <1>2, <1>3, <1>5, <1>6, <1>7 DEF ConnectedInv

\* Every step keeps routes and connections together.
LEMMA ConnectedStep == ConnectedInv /\ [Next]_vars => ConnectedInv'
<1>. SUFFICES ASSUME ConnectedInv, [Next]_vars PROVE ConnectedInv'
     OBVIOUS
<1> DEFINE RouteRecord == [worker: Workers \union {"none"}, gen: Nat, epoch: Nat, active: BOOLEAN]
           Opened0 == [worker: Workers, gen: Nat \ {0}, state: {"opening", "open", "fenced"}]
<1>1. /\ registered \in [Workers -> Nat] /\ generation \in [Workers -> Nat]
      /\ routes \in [Interventions -> RouteRecord] /\ channels \in Seq(Opened0)
      /\ \A i \in Interventions : routes[i].active =>
            /\ routes[i].worker \in Workers /\ routes[i].gen # 0
            /\ registered[routes[i].worker] = routes[i].gen
      /\ LifecycleTypeOK /\ Interventions' = Interventions
      BY DEF ConnectedInv, Interventions
<1>2. UNCHANGED lifecycleVars => LifecycleTypeOK'
      BY <1>1, PeriodGoesOn
<1>3. ASSUME UNCHANGED <<registered, generation, routes, channels>>, LifecycleTypeOK'
      PROVE  ConnectedInv'
      BY <1>1, <1>3 DEF ConnectedInv
<1>4. ASSUME NEW t \in Tasks, NEW w \in Workers, OpenChannel(t, w) PROVE ConnectedInv'
  <2> DEFINE gen == IF registered[w] = 0 THEN generation[w] + 1 ELSE registered[w]
             ch == [worker |-> w, gen |-> gen, state |-> "opening"]
  <2>1. /\ channels' = Append(channels, ch) /\ routes' = routes
        /\ registered' = [registered EXCEPT ![w] = gen]
        /\ generation' = [generation EXCEPT ![w] = gen] /\ UNCHANGED lifecycleVars
        BY <1>4 DEF OpenChannel
  <2>2. gen \in Nat \ {0}
        BY <1>1
  <2>3. ch \in Opened0
        BY <2>2
  <2>4. ASSUME NEW i \in Interventions, routes[i].active
        PROVE  registered'[routes[i].worker] = routes[i].gen
        BY <1>1, <2>1, <2>4
  <2>5. channels' \in Seq(Opened0)
    <3> HIDE DEF Opened0, ch
    <3>. QED
      BY <1>1, <2>1, <2>3
  <2> HIDE DEF gen, ch
  <2>. QED
    BY <1>1, <1>2, <2>1, <2>2, <2>4, <2>5 DEF ConnectedInv
<1>5. ASSUME NEW t \in Tasks, NEW k \in DOMAIN channels, BindIntervention(t, k)
      PROVE  ConnectedInv'
  <2> DEFINE r == [worker |-> channels[k].worker, gen |-> channels[k].gen,
                   epoch |-> active.epoch, active |-> TRUE]
  <2>1. /\ routes' = [routes EXCEPT ![active.id] = r]
        /\ registered[channels[k].worker] = channels[k].gen
        /\ UNCHANGED <<lifecycleVars, registered, generation, channels>> /\ Suspended
        BY <1>5 DEF BindIntervention, BindRoute, Conn
  <2>2. active.id \in Interventions /\ active.epoch \in Nat
        BY <1>1, <2>1 DEF LifecycleTypeOK, Suspended, Intervention
  <2>3. channels[k] \in Opened0
    <3> HIDE DEF Opened0
    <3>. QED
      BY <1>1, <1>5
  <2>4. /\ r \in RouteRecord /\ r.worker \in Workers /\ r.gen # 0
        /\ registered[r.worker] = r.gen
        BY <2>1, <2>2, <2>3
  <2> HIDE DEF r
  <2>5. \A i \in Interventions : routes'[i] = IF i = active.id THEN r ELSE routes[i]
        BY <1>1, <2>1
  <2>6. routes' \in [Interventions -> RouteRecord]
    <3> HIDE DEF RouteRecord
    <3>. QED
      BY <1>1, <2>1, <2>4
  <2>. QED
    BY <1>1, <1>2, <2>1, <2>4, <2>5, <2>6 DEF ConnectedInv
<1>6. ASSUME NEW t \in Tasks, NEW k \in DOMAIN channels, NEW lease, NEW then,
             RevokeIntervention(t, k, lease, then)
      PROVE  ConnectedInv'
  <2>1. /\ routes' = [routes EXCEPT ![lease.iv].active = FALSE]
        /\ UNCHANGED <<lifecycleVars, registered, generation, channels>>
        BY <1>6 DEF RevokeIntervention
  <2> DEFINE ended == [routes[lease.iv] EXCEPT !.active = FALSE]
  <2>2. routes' = [i \in Interventions |-> IF i = lease.iv THEN ended ELSE routes[i]]
        BY <1>1, <2>1
  <2>3. ASSUME NEW i \in Interventions
        PROVE  /\ routes'[i].worker = routes[i].worker /\ routes'[i].gen = routes[i].gen
               /\ routes'[i].active => routes[i].active
               /\ routes'[i] \in RouteRecord
    <3>1. routes[i] \in RouteRecord
          BY <1>1
    <3>2. CASE i # lease.iv
          BY <2>2, <3>1, <3>2
    <3>3. CASE i = lease.iv
      <4>1. routes'[i] = [routes[i] EXCEPT !.active = FALSE]
            BY <2>2, <3>3
      <4>. QED
        BY <3>1, <4>1
    <3>. QED
      BY <3>2, <3>3
  <2>4. routes' \in [Interventions -> RouteRecord]
        BY <2>2, <2>3
  <2>. QED
    BY <1>1, <1>2, <2>1, <2>3, <2>4 DEF ConnectedInv
<1>7. ASSUME NEW k, FenceLocal(k), UNCHANGED <<lifecycleVars, generation>> PROVE ConnectedInv'
      BY <1>2, <1>7, FenceConnected
<1>8. ASSUME NEW c \in Connections, Delivered(c) PROVE ConnectedInv'
  <2> DEFINE t == Head(wire[c])
  <2>1. /\ Opened(t) /\ EndHumanPeriod(t) /\ UNCHANGED <<registered, generation, routes>>
        BY <1>8 DEF Delivered, registryVars
  <2>2. LifecycleTypeOK'
        BY <1>1, <2>1, CallEndsItsPeriod
  <2>3. channels' \in Seq(Opened0)
    <3> HIDE DEF t
    <3>1. CASE channels' = channels
          BY <1>1, <3>1
    <3> DEFINE k == task[t].chan
               s == IF channels[k].state = "opening" THEN "open" ELSE channels[k].state
    <3>2. CASE channels' = [channels EXCEPT ![k].state = s]
      <4>1. k \in DOMAIN channels => channels[k] \in Opened0
        <5> HIDE DEF Opened0
        <5>. QED
          BY <1>1
      <4>2. k \in DOMAIN channels => s \in {"opening", "open", "fenced"}
            BY <4>1
      <4> HIDE DEF k, s
      <4>. QED
        BY <1>1, <3>2, <4>2, MarkedChannel
    <3>. QED
      BY <2>1, <3>1, <3>2 DEF Opened
  <2>. QED
    BY <1>1, <2>1, <2>2, <2>3 DEF ConnectedInv
<1>9. CASE \/ \E c \in Connections : SendFails(c)
           \/ \E k \in DOMAIN channels : Disconnect(k)
  <2>1. \E k : FenceLocal(k) /\ UNCHANGED <<lifecycleVars, generation>>
        BY <1>9 DEF SendFails, Disconnect
  <2>. QED
    BY <1>7, <2>1
<1>10. CASE \E t \in Tasks, k \in DOMAIN channels : EndCalled(t, k)
      BY <1>6, <1>10 DEF EndCalled
<1>11. CASE ConsumerMoves
  <2>1. UNCHANGED <<registered, generation, routes, channels>>
        BY <1>11 DEF ConsumerMoves, registryVars
  <2>. QED
    BY <1>1, <1>3, <1>11, <2>1, ConsumerKeepsHuman
<1>12. CASE \/ \E t \in Tasks : CallbackSettles(t)
            \/ DataMoves \/ BindOperator \/ Dispatch \/ ViewerReconnects \/ SessionExpires
            \/ UNCHANGED vars
  <2>1. UNCHANGED <<lifecycleVars, registered, generation, routes, channels>>
        BY <1>12
        DEF CallbackSettles, DataMoves, ApplyHumanInput, InputFails, AcceptFrame, SendFrame,
            BindOperator, Dispatch, ViewerReconnects, SessionExpires, registryVars, vars
  <2>. QED
    BY <1>2, <1>3, <2>1
<1>. QED
  BY <1>4, <1>5, <1>6, <1>8, <1>9, <1>10, <1>11, <1>12 DEF Next, ChannelMoves

\* No route is active at first.
LEMMA ConnectedInit == Init => ConnectedInv
<1>. SUFFICES ASSUME Init PROVE ConnectedInv
     OBVIOUS
<1>1. HostedTypeOK
      BY HostedInit DEF HostedInv, RouteInv
<1>2. channels = <<>> /\ \A i \in Interventions : ~routes[i].active
      BY DEF Init, NeverBound
<1>. QED
  BY <1>1, <1>2 DEF ConnectedInv, HostedTypeOK

(***************************************************************************)
(* The inductive invariant, of every behaviour in which the consumer has   *)
(* bound no route while it still awaited the revocation of one of the same *)
(* intervention: `rebound` tells when it did.                              *)
(***************************************************************************)
THEOREM HostedInvariance == Spec => [](~rebound => HostedInv)
<1>1. Init => (~rebound => HostedInv)
      BY HostedInit
<1>2. (~rebound => HostedInv) /\ [Next]_vars => (~rebound => HostedInv)'
  <2>1. SUFFICES ASSUME ~rebound => HostedInv, [Next]_vars, ~rebound' PROVE HostedInv'
        OBVIOUS
  <2>2. ~rebound
    <3>1. rebound' = rebound \/ \E t \in Tasks, k \in DOMAIN channels : BindIntervention(t, k)
          BY <2>1 DEF Next, vars, OpenChannel, EndCalled, RevokeIntervention, Disconnect,
                      ChannelMoves, Delivered, SendFails, CallbackSettles, DataMoves,
                      ApplyHumanInput, InputFails, AcceptFrame, SendFrame, BindOperator,
                      Dispatch, ViewerReconnects, SessionExpires, ConsumerMoves
    <3>2. ASSUME NEW t \in Tasks, NEW k \in DOMAIN channels, BindIntervention(t, k)
          PROVE  ~rebound
          BY <2>1, <3>2, Zenon DEF BindIntervention
    <3>. QED
      BY <2>1, <3>1, <3>2
  <2>. QED
    BY <2>1, <2>2, RouteStep, DataStep DEF HostedInv
<1>. QED
  BY <1>1, <1>2, PTL DEF Spec

(***************************************************************************)
(* Routing is revoked before Done, Cancel or expiry advance the lifecycle: *)
(* HostedInterventionRouteLifecycle moves it only once the worker has the  *)
(* revocation.  A consumer that binds the route again meanwhile has one    *)
(* that outlives its Human period, but never one of a worker that is gone. *)
(***************************************************************************)
THEOREM RoutingEndsFirst == Spec => []RoutedMeansHuman
<1>1. ConnectedInv /\ (~rebound => HostedInv) => RoutedMeansHuman
  <2>1. ConnectedInv => \A i \in Interventions : routes[i].active =>
                            registered[routes[i].worker] = routes[i].gen
        BY DEF ConnectedInv
  <2>2. HostedInv => \A i \in Interventions : routes[i].active => HumanPeriod(LeaseOf(i))
        BY DEF HostedInv, RouteInv, HumanRoutes
  <2>. QED
    BY <2>1, <2>2 DEF RoutedMeansHuman
<1>2. Spec => []ConnectedInv
  <2>1. ConnectedInv /\ [Next]_vars => ConnectedInv'
        BY ConnectedStep
  <2>. QED
    BY ConnectedInit, <2>1, PTL DEF Spec
<1>. QED
  BY <1>1, <1>2, HostedInvariance, PTL

(***************************************************************************)
(* The gate of a worker in good order and the registry agree whenever no   *)
(* control message is under way, whatever sends failed before, as long as  *)
(* no bind overtook a revocation of its route.                             *)
(***************************************************************************)
THEOREM GateAgreement == Spec => []GateAgreesWithRegistry
<1>1. (~rebound => HostedInv) => GateAgreesWithRegistry
  <2> SUFFICES ASSUME HostedInv, NEW c \in Connections, NEW i \in Interventions,
                      registered[c[1]] = c[2], ~Settling(c)
               PROVE  gate[c][i] = IF routes[i].active /\ LeaseOf(i).conn = c
                                   THEN routes[i].epoch ELSE 0
      BY DEF GateAgreesWithRegistry
  <2>1. AgreeInv
        BY DEF HostedInv, RouteInv
  <2>2. wire[c] = <<>> /\ ~\E t \in Tasks : task[t].kind = "revoke" /\ Conn(task[t].chan) = c
        BY DEF Settling
  <2>3. ~Bound(i, c) /\ ~Released(i, c)
        BY <2>2 DEF Bound, UnderWay, Released, Revokes
  <2> QED BY <2>1, <2>3 DEF AgreeInv, RoutedTo
<1> QED BY <1>1, HostedInvariance, PTL

(***************************************************************************)
(* No worker carries out an input, and no frame is published, of a Human   *)
(* period that is over: the gate refuses the one, the bridge the other,    *)
(* however late they arrive, as long as no bind overtook a revocation.     *)
(***************************************************************************)
THEOREM NothingTooLate == Spec => []NothingAfterHumanPeriod
<1>1. (~rebound => HostedInv) => NothingAfterHumanPeriod
      BY DEF HostedInv, NothingAfterHumanPeriod
<1> QED BY <1>1, HostedInvariance, PTL
================================================================================
