----------------------- MODULE LeaderElection_proofs -----------------------
(***************************************************************************)
(* Proofs about LeaderElection for any number of nodes and any lease: as   *)
(* long as Redis and the timers are timely, there is one leader, no node   *)
(* touches another's lease, and recovery runs once among the nodes whose   *)
(* commands do not fail.                                                   *)
(*                                                                         *)
(* Then about those who watch the system: heartbeats tell who is alive     *)
(* (Presence), alerts tell what HealthDaemon believes (HealthWatch), and   *)
(* readings of a queue that moves are near enough to act on (QueueWatch).  *)
(***************************************************************************)
EXTENDS LeaderElection, HealthWatch, Presence, QueueWatch, SequenceTheorems, TLAPS

ResignCommands == {"resign GET", "DEL"}

\* The commands in a sequence, and: at most one of them is part of a resign.
Sent(s) == {s[i] : i \in 1..Len(s)}
OneResign(s) ==
    \A i, j \in 1..Len(s) :
        (s[i] \in ResignCommands /\ s[j] \in ResignCommands) => i = j

InService(n) == status[n] \in {"registering", "registered", "up"}

\* A process that has not started has done nothing.
Fresh(n) ==
    status[n] = "new" => (~flag[n] /\ ~timer[n] /\ wire[n] = <<>>)

\* A node resigns once, and is out of service from then on.
ResignsOnce(n) ==
    /\ OneResign(wire[n])
    /\ Sent(wire[n]) \cap ResignCommands # {} => ~InService(n)

\* What the GET before a DEL or a PEXPIRE said is still true.
GetStillTrue(n) ==
    /\ "DEL" \in Sent(wire[n]) => holder = n
    /\ (InService(n) /\ "PEXPIRE" \in Sent(wire[n])) => holder = n

\* A leader in service holds the lease and will refresh it within the tick,
\* or has done so.
Backed(n) ==
    (InService(n) /\ flag[n]) =>
        /\ holder = n
        /\ timer[n]
        /\ due[n] \/ wire[n] # <<>> \/ ttl = LeaseTicks

\* Recovery runs on leaders only, if no command failed.
RecoveryLeads(n) ==
    (n \notin Flaky /\ recovery[n]) => (status[n] = "up" /\ flag[n])

NodeInv(n) ==
    Fresh(n) /\ ResignsOnce(n) /\ GetStillTrue(n) /\ Backed(n) /\ RecoveryLeads(n)

IInv == TypeOK /\ \A n \in Nodes : NodeInv(n)

-----------------------------------------------------------------------------
(* Facts about the commands under way *)

\* The commands that remain when the oldest one has run.
LEMMA TailFacts ==
    ASSUME NEW s \in Seq(Commands), s # <<>>, OneResign(s)
    PROVE  /\ Tail(s) \in Seq(Commands)
           /\ Head(s) \in Commands
           /\ Head(s) \in Sent(s)
           /\ Sent(Tail(s)) \subseteq Sent(s)
           /\ OneResign(Tail(s))
           /\ Head(s) \in ResignCommands => Sent(Tail(s)) \cap ResignCommands = {}
<1>1. /\ Tail(s) \in Seq(Commands)
      /\ Len(s) \in Nat /\ Len(s) > 0
      /\ Len(Tail(s)) = Len(s) - 1
      /\ \A i \in 1..Len(Tail(s)) : Tail(s)[i] = s[i + 1]
      /\ Head(s) = s[1]
  BY HeadTailProperties, LenProperties, EmptySeq
<1>2. \A i \in 1..Len(Tail(s)) : i + 1 \in 1..Len(s) /\ i + 1 # 1
  BY <1>1
<1>3. 1 \in 1..Len(s)
  BY <1>1
<1>4. Head(s) \in Commands /\ Head(s) \in Sent(s)
  BY <1>1, <1>3, ElementOfSeq DEF Sent
<1>5. Sent(Tail(s)) \subseteq Sent(s)
  BY <1>1, <1>2 DEF Sent
<1>6. OneResign(Tail(s))
  <2> SUFFICES ASSUME NEW i \in 1..Len(Tail(s)), NEW j \in 1..Len(Tail(s)),
                      Tail(s)[i] \in ResignCommands, Tail(s)[j] \in ResignCommands
               PROVE  i = j
    BY DEF OneResign
  <2>1. i + 1 = j + 1
    BY <1>1, <1>2 DEF OneResign
  <2>2. QED
    BY <2>1
<1>7. ASSUME Head(s) \in ResignCommands, NEW c \in Sent(Tail(s)), c \in ResignCommands
      PROVE  FALSE
  <2>1. PICK i \in 1..Len(Tail(s)) : c = Tail(s)[i]
    BY <1>7 DEF Sent
  <2>2. s[i + 1] \in ResignCommands /\ s[1] \in ResignCommands
    BY <1>1, <1>7, <2>1
  <2>3. QED
    BY <1>2, <1>3, <2>2 DEF OneResign
<1>8. QED
  BY <1>1, <1>4, <1>5, <1>6, <1>7

\* The commands when another one is sent.
LEMMA AppendFacts ==
    ASSUME NEW s \in Seq(Commands), NEW c \in Commands, OneResign(s)
    PROVE  /\ Append(s, c) \in Seq(Commands)
           /\ Append(s, c) # <<>>
           /\ Sent(Append(s, c)) = Sent(s) \cup {c}
           /\ (c \notin ResignCommands \/ Sent(s) \cap ResignCommands = {})
                 => OneResign(Append(s, c))
<1>1. /\ Append(s, c) \in Seq(Commands)
      /\ Append(s, c) # <<>>
      /\ Len(s) \in Nat
      /\ Len(Append(s, c)) = Len(s) + 1
      /\ \A i \in 1..Len(s) : Append(s, c)[i] = s[i]
      /\ Append(s, c)[Len(s) + 1] = c
  BY AppendProperties, LenProperties
<1>2. \A i \in 1..Len(Append(s, c)) : i \in 1..Len(s) \/ i = Len(s) + 1
  BY <1>1
<1>3. 1..Len(s) \subseteq 1..Len(Append(s, c)) /\ Len(s) + 1 \in 1..Len(Append(s, c))
  BY <1>1
<1>4. Sent(Append(s, c)) = Sent(s) \cup {c}
  <2>1. Sent(Append(s, c)) \subseteq Sent(s) \cup {c}
    BY <1>1, <1>2 DEF Sent
  <2>2. Sent(s) \cup {c} \subseteq Sent(Append(s, c))
    BY <1>1, <1>3 DEF Sent
  <2>3. QED
    BY <2>1, <2>2
<1>5. ASSUME c \notin ResignCommands \/ Sent(s) \cap ResignCommands = {}
      PROVE  OneResign(Append(s, c))
  <2> SUFFICES ASSUME NEW i \in 1..Len(Append(s, c)), NEW j \in 1..Len(Append(s, c)),
                      Append(s, c)[i] \in ResignCommands,
                      Append(s, c)[j] \in ResignCommands
               PROVE  i = j
    BY DEF OneResign
  <2>1. CASE c \notin ResignCommands
    BY <1>1, <1>2, <2>1 DEF OneResign
  <2>2. CASE Sent(s) \cap ResignCommands = {}
    <3>1. \A k \in 1..Len(s) : s[k] \notin ResignCommands
      BY <2>2 DEF Sent
    <3>2. i = Len(s) + 1 /\ j = Len(s) + 1
      BY <1>1, <1>2, <3>1
    <3>3. QED
      BY <3>2
  <2>3. QED
    BY <1>5, <2>1, <2>2
<1>6. QED
  BY <1>1, <1>4, <1>5

\* No command under way.
LEMMA EmptyFacts ==
    /\ <<>> \in Seq(Commands)
    /\ Sent(<<>>) = {}
    /\ OneResign(<<>>)
<1>1. <<>> \in Seq(Commands) /\ Len(<<>>) = 0
  BY EmptySeq
<1>2. 1..Len(<<>>) = {}
  BY <1>1
<1>3. QED
  BY <1>1, <1>2 DEF Sent, OneResign

-----------------------------------------------------------------------------
(* The inductive invariant *)

LEMMA IInvInit == Init => IInv
<1> SUFFICES ASSUME Init PROVE IInv
  OBVIOUS
<1>1. TypeOK
  BY ElectionAssumption, EmptyFacts DEF Init, TypeOK, Life
<1>2. ASSUME NEW n \in Nodes PROVE NodeInv(n)
  BY EmptyFacts DEF Init, NodeInv, Fresh, ResignsOnce, GetStillTrue, Backed,
     RecoveryLeads, InService
<1>3. QED
  BY <1>1, <1>2 DEF IInv

\* What an action of another node may do without harm to node m: it takes a
\* lease that m does not hold, or extends the lease.
LEMMA OthersKept ==
    ASSUME IInv, NEW m \in Nodes,
           status'[m] = status[m], flag'[m] = flag[m], timer'[m] = timer[m],
           due'[m] = due[m], wire'[m] = wire[m], recovery'[m] = recovery[m],
           holder # m \/ (holder' = holder /\ ttl' \in {ttl, LeaseTicks})
    PROVE  NodeInv(m)'
<1>1. NodeInv(m)
  BY DEF IInv
<1>2. Fresh(m)' /\ RecoveryLeads(m)' /\ ResignsOnce(m)'
  BY <1>1 DEF NodeInv, Fresh, RecoveryLeads, ResignsOnce, InService
<1>3. GetStillTrue(m)'
  BY <1>1 DEF NodeInv, GetStillTrue, InService
<1>4. Backed(m)'
  BY <1>1 DEF NodeInv, Backed, InService
<1>5. QED
  BY <1>2, <1>3, <1>4 DEF NodeInv

\* The oldest command of a node, and what is left when it has run.
LEMMA RunFacts ==
    ASSUME IInv, NEW n \in Nodes, NEW c, Runs(n, c)
    PROVE  /\ wire[n] \in Seq(Commands) /\ wire[n] # <<>>
           /\ Tail(wire[n]) \in Seq(Commands)
           /\ c \in Sent(wire[n])
           /\ status[n] # "new"
           /\ Sent(Tail(wire[n])) \subseteq Sent(wire[n])
           /\ OneResign(Tail(wire[n]))
           /\ c \in ResignCommands => Sent(Tail(wire[n])) \cap ResignCommands = {}
<1>1. wire[n] \in Seq(Commands) /\ wire[n] # <<>> /\ Head(wire[n]) = c
  BY DEF IInv, TypeOK, Runs
<1>2. OneResign(wire[n]) /\ status[n] # "new"
  BY <1>1 DEF IInv, NodeInv, ResignsOnce, Fresh
<1>3. QED
  BY <1>1, <1>2, TailFacts

\* participate returns: the flag is right if the lease is.
LEMMA SettleKeeps ==
    ASSUME IInv, NEW n \in Nodes, NEW acquired \in BOOLEAN,
           NEW c \in ParticipateCommands, Runs(n, c), Settle(n, acquired),
           UNCHANGED recovery,
           holder' = holder \/ (holder = None /\ holder' = n),
           ttl' \in 0..LeaseTicks, ttl' = ttl \/ ttl' = LeaseTicks,
           (InService(n) /\ acquired) => (holder' = n /\ ttl' = LeaseTicks),
           acquired \/ n \in Flaky \/ holder # n
    PROVE  IInv'
<1>0. None \notin Nodes
  BY ElectionAssumption
<1>1. TypeOK'
  <2>1. Tail(wire[n]) \in Seq(Commands)
    BY RunFacts
  <2>2. wire' \in [Nodes -> Seq(Commands)]
    BY <2>1 DEF IInv, TypeOK, Settle, Answered
  <2>3. /\ flag' \in [Nodes -> BOOLEAN] /\ timer' \in [Nodes -> BOOLEAN]
        /\ due' \in [Nodes -> BOOLEAN]
    BY DEF IInv, TypeOK, Settle
  <2>4. status' \in [Nodes -> Life]
    BY DEF IInv, TypeOK, Settle, Life
  <2>5. QED
    BY <2>2, <2>3, <2>4 DEF IInv, TypeOK
<1>2. ASSUME NEW m \in Nodes, m # n PROVE NodeInv(m)'
  BY <1>0, <1>2, OthersKept DEF IInv, TypeOK, Settle, Answered
<1>3. NodeInv(n)'
  <2>1. /\ wire'[n] = Tail(wire[n]) /\ flag'[n] = acquired /\ timer'[n] = acquired
        /\ recovery'[n] = recovery[n]
        /\ status'[n] = IF status[n] = "registering" THEN "registered" ELSE status[n]
    BY DEF IInv, TypeOK, Settle, Answered
  <2>2. /\ NodeInv(n)
        /\ status[n] # "new"
        /\ Sent(Tail(wire[n])) \subseteq Sent(wire[n])
        /\ OneResign(Tail(wire[n]))
    BY RunFacts DEF IInv
  <2>3. InService(n)' <=> InService(n)
    BY <2>1 DEF InService
  <2>4. Fresh(n)'
    BY <2>1, <2>2 DEF Fresh
  <2>5. ResignsOnce(n)'
    BY <2>1, <2>2, <2>3 DEF ResignsOnce, NodeInv
  <2>6. GetStillTrue(n)'
    BY <1>0, <2>1, <2>2, <2>3 DEF GetStillTrue, NodeInv
  <2>7. Backed(n)'
    BY <2>1, <2>3 DEF Backed
  <2>8. RecoveryLeads(n)'
    <3>1. CASE acquired
      BY <2>1, <2>2, <3>1 DEF RecoveryLeads, NodeInv
    <3>2. CASE ~acquired /\ n \notin Flaky
      <4>1. recovery[n] => (InService(n) /\ flag[n])
        BY <2>2, <3>2 DEF RecoveryLeads, NodeInv, InService
      <4>2. ~recovery[n]
        BY <4>1, <2>2, <3>2 DEF Backed, NodeInv
      <4>3. QED
        BY <4>2, <2>1 DEF RecoveryLeads
    <3>3. CASE n \in Flaky
      BY <3>3 DEF RecoveryLeads
    <3>4. QED
      BY <3>1, <3>2, <3>3
  <2>9. QED
    BY <2>4, <2>5, <2>6, <2>7, <2>8 DEF NodeInv
<1>4. QED
  BY <1>1, <1>2, <1>3 DEF IInv

\* A command is answered and another is sent.
LEMMA ThenSendKeeps ==
    ASSUME IInv, NEW n \in Nodes, NEW c, NEW d \in Commands,
           Runs(n, c), ThenSend(n, d),
           UNCHANGED <<holder, ttl, status, flag, timer, due, recovery>>,
           d \in ResignCommands => c \in ResignCommands,
           d \in {"DEL", "PEXPIRE"} => holder = n
    PROVE  IInv'
<1>1. /\ wire[n] \in Seq(Commands) /\ wire[n] # <<>>
      /\ Tail(wire[n]) \in Seq(Commands)
      /\ c \in Sent(wire[n])
      /\ status[n] # "new"
      /\ Sent(Tail(wire[n])) \subseteq Sent(wire[n])
      /\ OneResign(Tail(wire[n]))
      /\ c \in ResignCommands => Sent(Tail(wire[n])) \cap ResignCommands = {}
  BY RunFacts
<1> DEFINE w == Append(Tail(wire[n]), d)
<1>2. /\ w \in Seq(Commands) /\ w # <<>>
      /\ Sent(w) = Sent(Tail(wire[n])) \cup {d}
      /\ OneResign(w)
  BY <1>1, AppendFacts
<1>3. wire' = [wire EXCEPT ![n] = w] /\ wire'[n] = w
  BY DEF ThenSend, IInv, TypeOK
<1> HIDE DEF w
<1>4. TypeOK'
  BY <1>2, <1>3 DEF IInv, TypeOK
<1>5. ASSUME NEW m \in Nodes, m # n PROVE NodeInv(m)'
  BY <1>3, <1>5, OthersKept DEF IInv, TypeOK
<1>6. NodeInv(n)'
  <2>1. NodeInv(n)
    BY DEF IInv
  <2>2. Fresh(n)' /\ RecoveryLeads(n)'
    BY <2>1, <1>1 DEF NodeInv, Fresh, RecoveryLeads
  <2>3. ResignsOnce(n)'
    BY <2>1, <1>1, <1>2, <1>3 DEF NodeInv, ResignsOnce, InService
  <2>4. GetStillTrue(n)'
    BY <2>1, <1>1, <1>2, <1>3 DEF NodeInv, GetStillTrue, InService
  <2>5. Backed(n)'
    BY <2>1, <1>2, <1>3 DEF NodeInv, Backed, InService
  <2>6. QED
    BY <2>2, <2>3, <2>4, <2>5 DEF NodeInv
<1>7. QED
  BY <1>4, <1>5, <1>6 DEF IInv

-----------------------------------------------------------------------------
(* One lemma per action *)

\* The commands of participate.
LEMMA ParticipateKeeps ==
    ASSUME IInv, NEW n \in Nodes,
           SetNX(n) \/ Get(n) \/ PExpire(n) \/ CommandFails(n)
    PROVE  IInv'
<1>0. /\ None \notin Nodes /\ LeaseTicks \in 0..LeaseTicks /\ ttl \in 0..LeaseTicks
      /\ {"SET", "GET", "PEXPIRE"} = ParticipateCommands
      /\ ParticipateCommands \subseteq Commands
  <2>1. None \notin Nodes /\ LeaseTicks \in 0..LeaseTicks
    BY ElectionAssumption
  <2>2. ttl \in 0..LeaseTicks
    BY DEF IInv, TypeOK
  <2>3. /\ {"SET", "GET", "PEXPIRE"} = ParticipateCommands
        /\ ParticipateCommands \subseteq Commands
    BY DEF Commands, ParticipateCommands
  <2>4. QED
    BY <2>1, <2>2, <2>3
<1>1. CASE SetNX(n)
  <2>1. Runs(n, "SET") /\ UNCHANGED recovery
    BY <1>1 DEF SetNX
  <2>2. CASE holder = None
    <3>1. holder' = n /\ ttl' = LeaseTicks /\ Settle(n, TRUE)
      BY <1>1, <2>2 DEF SetNX
    <3>2. QED
      BY <1>0, <2>1, <2>2, <3>1, SettleKeeps
  <2>3. CASE holder # None
    <3>1. ThenSend(n, "GET") /\ UNCHANGED <<holder, ttl, status, flag, timer, due>>
      BY <1>1, <2>3 DEF SetNX
    <3>2. "GET" \in Commands /\ "GET" \notin ResignCommands
      BY <1>0 DEF ResignCommands
    <3>3. QED
      BY <2>1, <3>1, <3>2, ThenSendKeeps
  <2>4. QED
    BY <2>2, <2>3
<1>2. CASE Get(n)
  <2>1. Runs(n, "GET") /\ UNCHANGED <<holder, ttl, recovery>>
    BY <1>2 DEF Get
  <2>2. CASE holder = n
    <3>1. ThenSend(n, "PEXPIRE") /\ UNCHANGED <<status, flag, timer, due>>
      BY <1>2, <2>2 DEF Get
    <3>2. "PEXPIRE" \in Commands /\ "PEXPIRE" \notin ResignCommands
      BY <1>0 DEF ResignCommands
    <3>3. QED
      BY <2>1, <2>2, <3>1, <3>2, ThenSendKeeps
  <2>3. CASE holder # n
    <3>1. Settle(n, FALSE)
      BY <1>2, <2>3 DEF Get
    <3>2. QED
      BY <1>0, <2>1, <2>3, <3>1, SettleKeeps
  <2>4. QED
    BY <2>2, <2>3
<1>3. CASE PExpire(n)
  <2>1. /\ Runs(n, "PEXPIRE") /\ Settle(n, TRUE) /\ UNCHANGED <<holder, recovery>>
        /\ ttl' = IF holder = None THEN ttl ELSE LeaseTicks
    BY <1>3 DEF PExpire
  <2>2. InService(n) => holder = n
    BY <2>1, RunFacts DEF IInv, NodeInv, GetStillTrue
  <2>3. InService(n) => (holder' = n /\ ttl' = LeaseTicks)
    BY <1>0, <2>1, <2>2
  <2>4. ttl' \in 0..LeaseTicks /\ (ttl' = ttl \/ ttl' = LeaseTicks)
    BY <1>0, <2>1
  <2>5. QED
    BY <1>0, <2>1, <2>3, <2>4, SettleKeeps
<1>4. CASE CommandFails(n)
  <2>1. PICK c \in ParticipateCommands : Runs(n, c)
    BY <1>4 DEF CommandFails
  <2>2. n \in Flaky /\ Settle(n, FALSE) /\ UNCHANGED <<holder, ttl, recovery>>
    BY <1>4 DEF CommandFails
  <2>3. QED
    BY <1>0, <2>1, <2>2, SettleKeeps
<1>5. QED
  BY <1>1, <1>2, <1>3, <1>4

\* A call of participate begins: at registration or from the timer.
LEMMA CallKeeps ==
    ASSUME IInv, NEW n \in Nodes, Refresh(n) \/ Register(n)
    PROVE  IInv'
<1> DEFINE w == Append(wire[n], "SET")
<1>0. wire[n] \in Seq(Commands) /\ OneResign(wire[n]) /\ NodeInv(n)
  BY DEF IInv, TypeOK, NodeInv, ResignsOnce
<1>1. "SET" \in Commands /\ "SET" \notin ResignCommands
  BY DEF Commands, ParticipateCommands, ResignCommands
<1>2. /\ w \in Seq(Commands) /\ w # <<>>
      /\ Sent(w) = Sent(wire[n]) \cup {"SET"}
      /\ OneResign(w)
  BY <1>0, <1>1, AppendFacts
<1>3. /\ wire' = [wire EXCEPT ![n] = w] /\ wire'[n] = w
      /\ UNCHANGED <<holder, ttl, flag, timer, recovery>>
  BY DEF Send, Refresh, Register, IInv, TypeOK
<1> HIDE DEF w
<1>4. CASE Refresh(n)
  <2>1. timer[n] /\ due' = [due EXCEPT ![n] = FALSE] /\ UNCHANGED status
    BY <1>4 DEF Refresh
  <2>2. TypeOK'
    BY <1>2, <1>3, <2>1 DEF IInv, TypeOK
  <2>3. ASSUME NEW m \in Nodes, m # n PROVE NodeInv(m)'
    BY <1>3, <2>1, <2>3, OthersKept DEF IInv, TypeOK
  <2>4. Fresh(n)' /\ RecoveryLeads(n)'
    BY <1>0, <1>3, <2>1 DEF NodeInv, Fresh, RecoveryLeads
  <2>5. ResignsOnce(n)'
    BY <1>0, <1>1, <1>2, <1>3, <2>1 DEF NodeInv, ResignsOnce, InService
  <2>6. GetStillTrue(n)'
    BY <1>0, <1>2, <1>3, <2>1 DEF NodeInv, GetStillTrue, InService
  <2>7. Backed(n)'
    BY <1>0, <1>2, <1>3, <2>1 DEF NodeInv, Backed, InService
  <2>8. QED
    BY <2>2, <2>3, <2>4, <2>5, <2>6, <2>7 DEF IInv, NodeInv
<1>5. CASE Register(n)
  <2>1. /\ status[n] = "new" /\ status' = [status EXCEPT ![n] = "registering"]
        /\ UNCHANGED due
    BY <1>5 DEF Register
  <2>2. TypeOK'
    BY <1>2, <1>3, <2>1 DEF IInv, TypeOK, Life
  <2>3. ASSUME NEW m \in Nodes, m # n PROVE NodeInv(m)'
    BY <1>3, <2>1, <2>3, OthersKept DEF IInv, TypeOK
  <2>4. status'[n] = "registering" /\ ~flag'[n] /\ Sent(w) = {"SET"}
    BY <1>0, <1>2, <1>3, <2>1, EmptyFacts DEF NodeInv, Fresh, IInv, TypeOK
  <2>5. Fresh(n)' /\ Backed(n)'
    BY <2>4 DEF Fresh, Backed
  <2>6. RecoveryLeads(n)'
    BY <1>0, <1>3, <2>1 DEF NodeInv, RecoveryLeads
  <2>7. ResignsOnce(n)' /\ GetStillTrue(n)'
    <3>1. Sent(w) \cap ResignCommands = {} /\ "DEL" \notin Sent(w) /\ "PEXPIRE" \notin Sent(w)
      BY <2>4 DEF ResignCommands
    <3>2. QED
      BY <1>2, <1>3, <3>1 DEF ResignsOnce, GetStillTrue
  <2>8. QED
    BY <2>2, <2>3, <2>5, <2>6, <2>7 DEF IInv, NodeInv
<1>6. QED
  BY <1>4, <1>5

LEMMA StartKeeps ==
    ASSUME IInv, NEW n \in Nodes, StartDaemons(n)
    PROVE  IInv'
<1>1. /\ status[n] = "registered" /\ status' = [status EXCEPT ![n] = "up"]
      /\ recovery' = [recovery EXCEPT ![n] = flag[n]]
      /\ UNCHANGED <<holder, ttl, flag, timer, due, wire>>
  BY DEF StartDaemons
<1>2. TypeOK'
  BY <1>1 DEF IInv, TypeOK, Life
<1>3. ASSUME NEW m \in Nodes, m # n PROVE NodeInv(m)'
  BY <1>1, <1>3, OthersKept DEF IInv, TypeOK
<1>4. NodeInv(n) /\ status'[n] = "up" /\ recovery'[n] = flag[n]
  BY <1>1 DEF IInv, TypeOK
<1>5. Fresh(n)' /\ RecoveryLeads(n)'
  BY <1>1, <1>4 DEF Fresh, RecoveryLeads
<1>6. ResignsOnce(n)' /\ GetStillTrue(n)' /\ Backed(n)'
  BY <1>1, <1>4 DEF NodeInv, ResignsOnce, GetStillTrue, Backed, InService
<1>7. QED
  BY <1>2, <1>3, <1>5, <1>6 DEF IInv, NodeInv

LEMMA ResignKeeps ==
    ASSUME IInv, NEW n \in Nodes, Resign(n)
    PROVE  IInv'
<1>0. /\ wire[n] \in Seq(Commands) /\ OneResign(wire[n]) /\ NodeInv(n)
      /\ Sent(wire[n]) \cap ResignCommands = {} /\ status[n] = "up"
  BY DEF IInv, TypeOK, NodeInv, ResignsOnce, Resign, InService
<1>1. "resign GET" \in Commands
  BY DEF Commands
<1>2. PICK w \in Seq(Commands) :
        /\ wire' = [wire EXCEPT ![n] = w]
        /\ OneResign(w)
        /\ Sent(w) \subseteq Sent(wire[n]) \cup {"resign GET"}
  <2>1. CASE flag[n]
    BY <1>0, <1>1, <2>1, AppendFacts DEF Resign, Send
  <2>2. CASE ~flag[n]
    <3>1. wire' = [wire EXCEPT ![n] = wire[n]]
      BY <2>2 DEF Resign, IInv, TypeOK
    <3>2. QED
      BY <3>1, <1>0
  <2>3. QED
    BY <2>1, <2>2
<1>3. PICK l \in {"resigning", "resigned"} : status' = [status EXCEPT ![n] = l]
  BY DEF Resign
<1>4. /\ recovery' = [recovery EXCEPT ![n] = FALSE]
      /\ timer' = [timer EXCEPT ![n] = FALSE]
      /\ due' = [due EXCEPT ![n] = FALSE]
      /\ UNCHANGED <<holder, ttl, flag>>
  BY DEF Resign
<1>5. TypeOK'
  BY <1>2, <1>3, <1>4 DEF IInv, TypeOK, Life
<1>6. ASSUME NEW m \in Nodes, m # n PROVE NodeInv(m)'
  BY <1>2, <1>3, <1>4, <1>6, OthersKept DEF IInv, TypeOK
<1>7. /\ status'[n] \in {"resigning", "resigned"} /\ ~recovery'[n]
      /\ wire'[n] = w
  BY <1>2, <1>3, <1>4 DEF IInv, TypeOK
<1>8. ~InService(n)'
  BY <1>7 DEF InService
<1>9. Fresh(n)' /\ RecoveryLeads(n)' /\ Backed(n)' /\ ResignsOnce(n)'
  BY <1>2, <1>7, <1>8 DEF Fresh, RecoveryLeads, Backed, ResignsOnce
<1>10. GetStillTrue(n)'
  <2>1. "DEL" \notin Sent(w)
    BY <1>0, <1>2 DEF ResignCommands
  <2>2. QED
    BY <2>1, <1>7, <1>8 DEF GetStillTrue
<1>11. QED
  BY <1>5, <1>6, <1>9, <1>10 DEF IInv, NodeInv

\* resign returns, with or without its lease deleted.
LEMMA LeaveOfficeKeeps ==
    ASSUME IInv, NEW n \in Nodes, NEW c \in ResignCommands, Runs(n, c),
           LeaveOffice(n), UNCHANGED <<timer, due, recovery>>,
           \/ UNCHANGED <<holder, ttl>>
           \/ holder = n /\ holder' = None /\ ttl' = 0
    PROVE  IInv'
<1>0. /\ Tail(wire[n]) \in Seq(Commands) /\ c \in Sent(wire[n])
      /\ OneResign(Tail(wire[n]))
      /\ Sent(Tail(wire[n])) \cap ResignCommands = {}
      /\ None \notin Nodes /\ 0 \in 0..LeaseTicks /\ NodeInv(n)
  BY RunFacts, ElectionAssumption DEF IInv
<1>1. /\ flag' = [flag EXCEPT ![n] = FALSE]
      /\ status' = [status EXCEPT ![n] = "resigned"]
      /\ wire' = [wire EXCEPT ![n] = Tail(@)]
  BY DEF LeaveOffice, Answered
<1>2. TypeOK'
  BY <1>0, <1>1 DEF IInv, TypeOK, Life
<1>3. ASSUME NEW m \in Nodes, m # n PROVE NodeInv(m)'
  BY <1>1, <1>3, OthersKept DEF IInv, TypeOK
<1>4. status'[n] = "resigned" /\ ~flag'[n] /\ wire'[n] = Tail(wire[n]) /\ ~InService(n)'
  BY <1>1 DEF IInv, TypeOK, InService
<1>5. Fresh(n)' /\ Backed(n)' /\ ResignsOnce(n)'
  BY <1>0, <1>4 DEF Fresh, Backed, ResignsOnce
<1>6. GetStillTrue(n)'
  <2>1. "DEL" \notin Sent(Tail(wire[n]))
    BY <1>0 DEF ResignCommands
  <2>2. QED
    BY <1>4, <2>1 DEF GetStillTrue
<1>7. RecoveryLeads(n)'
  <2>1. ~InService(n)
    BY <1>0 DEF NodeInv, ResignsOnce
  <2>2. n \in Flaky \/ ~recovery[n]
    BY <1>0, <2>1 DEF NodeInv, RecoveryLeads, InService
  <2>3. QED
    BY <2>2 DEF RecoveryLeads
<1>8. QED
  BY <1>2, <1>3, <1>5, <1>6, <1>7 DEF IInv, NodeInv

\* The commands of resign: a DEL removes the node's own lease.
LEMMA ResignCommandsKeep ==
    ASSUME IInv, NEW n \in Nodes, ResignGet(n) \/ ResignDel(n) \/ ResignFails(n)
    PROVE  IInv'
<1>0. "resign GET" \in ResignCommands /\ "DEL" \in ResignCommands /\ "DEL" \in Commands
  BY DEF ResignCommands, Commands
<1>1. CASE ResignGet(n)
  <2>1. Runs(n, "resign GET") /\ UNCHANGED <<holder, ttl, timer, due, recovery>>
    BY <1>1 DEF ResignGet
  <2>2. CASE holder = n
    <3>1. ThenSend(n, "DEL") /\ UNCHANGED <<status, flag>>
      BY <1>1, <2>2 DEF ResignGet
    <3>2. QED
      BY <1>0, <2>1, <2>2, <3>1, ThenSendKeeps
  <2>3. CASE holder # n
    <3>1. LeaveOffice(n)
      BY <1>1, <2>3 DEF ResignGet
    <3>2. QED
      BY <1>0, <2>1, <3>1, LeaveOfficeKeeps
  <2>4. QED
    BY <2>2, <2>3
<1>2. CASE ResignDel(n)
  <2>1. /\ Runs(n, "DEL") /\ holder' = None /\ ttl' = 0 /\ LeaveOffice(n)
        /\ UNCHANGED <<timer, due, recovery>>
    BY <1>2 DEF ResignDel
  <2>2. holder = n
    BY <2>1, RunFacts DEF IInv, NodeInv, GetStillTrue
  <2>3. QED
    BY <1>0, <2>1, <2>2, LeaveOfficeKeeps
<1>3. CASE ResignFails(n)
  <2>1. PICK c \in ResignCommands : Runs(n, c)
    BY <1>0, <1>3 DEF ResignFails
  <2>2. LeaveOffice(n) /\ UNCHANGED <<holder, ttl, timer, due, recovery>>
    BY <1>3 DEF ResignFails
  <2>3. QED
    BY <2>1, <2>2, LeaveOfficeKeeps
<1>4. QED
  BY <1>1, <1>2, <1>3

LEMMA CrashKeeps ==
    ASSUME IInv, NEW n \in Nodes, Crash(n)
    PROVE  IInv'
<1>1. TypeOK'
  BY EmptyFacts DEF IInv, TypeOK, Crash, Life
<1>2. ASSUME NEW m \in Nodes, m # n PROVE NodeInv(m)'
  BY <1>2, OthersKept DEF IInv, TypeOK, Crash
<1>3. /\ status'[n] = "dead" /\ ~flag'[n] /\ ~recovery'[n] /\ wire'[n] = <<>>
  BY DEF Crash, IInv, TypeOK
<1>4. Fresh(n)' /\ Backed(n)' /\ RecoveryLeads(n)'
  BY <1>3 DEF Fresh, Backed, RecoveryLeads
<1>5. ResignsOnce(n)' /\ GetStillTrue(n)'
  BY <1>3, EmptyFacts DEF ResignsOnce, GetStillTrue
<1>6. QED
  BY <1>1, <1>2, <1>4, <1>5 DEF IInv, NodeInv

\* Time passes only when every refresh that was due has been answered, so the
\* lease of a leader in service is fresh and survives the tick.
LEMMA TickKeeps ==
    ASSUME IInv, Timely, Tick
    PROVE  IInv'
<1>0. LeaseTicks \in Nat /\ LeaseTicks > 1 /\ ttl \in 0..LeaseTicks
  BY ElectionAssumption DEF IInv, TypeOK
<1>1. /\ \A n \in Nodes : ~due[n] /\ wire[n] = <<>>
      /\ ttl' = IF ttl > 0 THEN ttl - 1 ELSE 0
      /\ holder' = IF ttl <= 1 THEN None ELSE holder
      /\ due' = timer
      /\ UNCHANGED <<status, flag, timer, wire, recovery>>
  BY DEF Tick
<1>2. ttl' \in 0..LeaseTicks
  BY <1>0, <1>1
<1>3. TypeOK'
  BY <1>1, <1>2 DEF IInv, TypeOK
<1>4. ASSUME NEW n \in Nodes PROVE NodeInv(n)'
  <2>1. NodeInv(n) /\ ~due[n] /\ wire[n] = <<>> /\ wire'[n] = <<>>
    BY <1>1 DEF IInv
  <2>2. Fresh(n)' /\ RecoveryLeads(n)' /\ ResignsOnce(n)'
    BY <1>1, <2>1 DEF NodeInv, Fresh, RecoveryLeads, ResignsOnce, InService
  <2>3. GetStillTrue(n)'
    BY <2>1, EmptyFacts DEF GetStillTrue
  <2>4. Backed(n)'
    <3> SUFFICES ASSUME InService(n), flag[n]
                 PROVE  holder' = n /\ timer[n] /\ due'[n]
      BY <1>1 DEF Backed, InService
    <3>1. holder = n /\ timer[n] /\ ttl = LeaseTicks
      BY <2>1 DEF NodeInv, Backed
    <3>2. holder' = holder
      BY <1>0, <1>1, <3>1
    <3>3. QED
      BY <1>1, <3>1, <3>2
  <2>5. QED
    BY <2>2, <2>3, <2>4 DEF NodeInv
<1>5. QED
  BY <1>3, <1>4 DEF IInv

LEMMA IInvInductive ==
    ASSUME Timely
    PROVE  IInv /\ [Next]_vars => IInv'
<1> SUFFICES ASSUME IInv, [Next]_vars PROVE IInv'
  OBVIOUS
<1>1. CASE UNCHANGED vars
  BY <1>1 DEF vars, IInv, TypeOK, NodeInv, Fresh, ResignsOnce, GetStillTrue, Backed,
     RecoveryLeads, InService
<1>2. CASE Next
  BY <1>2, ParticipateKeeps, CallKeeps, StartKeeps, ResignKeeps, ResignCommandsKeep,
     CrashKeeps, TickKeeps DEF Next
<1>3. QED
  BY <1>1, <1>2

-----------------------------------------------------------------------------
(* The theorems *)

(***************************************************************************)
(* With a timely Redis, participate and resign never leave two nodes in    *)
(* service that believe to be PRIMARY, whatever registers, resigns, fails  *)
(* or crashes, and a leader's belief is backed by the key in Redis.        *)
(***************************************************************************)
THEOREM AtMostOneLeader ==
    ASSUME Timely
    PROVE  Spec => []OneLeader
<1>1. IInv => OneLeader
  <2> SUFFICES ASSUME IInv, NEW m \in Serving, NEW n \in Serving, flag[m], flag[n]
               PROVE  m = n /\ holder = n
    BY DEF OneLeader
  <2>1. m \in Nodes /\ n \in Nodes /\ InService(m) /\ InService(n)
    BY DEF Serving, InService
  <2>2. QED
    BY <2>1 DEF IInv, NodeInv, Backed
<1>2. QED
  BY IInvInit, IInvInductive, <1>1, PTL DEF Spec

(***************************************************************************)
(* With a timely Redis, the DEL of resign removes the node's own lease and *)
(* the PEXPIRE of a node in service extends its own, although both are     *)
(* sent on the strength of an earlier GET.                                 *)
(***************************************************************************)
THEOREM LeasesAreOwn ==
    ASSUME Timely
    PROVE  Spec => OnlyOwnLease
<1>1. IInv => [\A n \in Nodes :
                  (ResignDel(n) \/ (n \in Serving /\ PExpire(n))) => holder = n]_vars
  <2> SUFFICES ASSUME IInv, NEW n \in Nodes,
                      ResignDel(n) \/ (n \in Serving /\ PExpire(n))
               PROVE  holder = n
    OBVIOUS
  <2>1. NodeInv(n)
    BY DEF IInv
  <2>2. CASE ResignDel(n)
    BY <2>1, <2>2, RunFacts DEF ResignDel, NodeInv, GetStillTrue
  <2>3. CASE n \in Serving /\ PExpire(n)
    BY <2>1, <2>3, RunFacts DEF PExpire, Serving, InService, NodeInv, GetStillTrue
  <2>4. QED
    BY <2>2, <2>3
<1>2. QED
  BY IInvInit, IInvInductive, <1>1, PTL DEF Spec, OnlyOwnLease

(***************************************************************************)
(* With a timely Redis, recovery runs on one node at most of those whose   *)
(* commands do not fail: the role, read once at start, stays true.         *)
(***************************************************************************)
THEOREM RecoveryRunsOnce ==
    ASSUME Timely
    PROVE  Spec => []RecoverySingleton
<1>1. IInv => RecoverySingleton
  <2> SUFFICES ASSUME IInv, NEW m \in Nodes \ Flaky, NEW n \in Nodes \ Flaky,
                      recovery[m], recovery[n]
               PROVE  m = n
    BY DEF RecoverySingleton
  <2>1. /\ InService(m) /\ flag[m] /\ NodeInv(m)
        /\ InService(n) /\ flag[n] /\ NodeInv(n)
    BY DEF IInv, NodeInv, RecoveryLeads, InService
  <2>2. QED
    BY <2>1 DEF NodeInv, Backed
<1>2. QED
  BY IInvInit, IInvInductive, <1>1, PTL DEF Spec

(***************************************************************************)
(* Both together: with a timely Redis one node leads and one recovers.     *)
(***************************************************************************)
THEOREM UniqueLeaders ==
    ASSUME Timely
    PROVE  Spec => []LeadersAreUnique
<1>1. OneLeader /\ RecoverySingleton => LeadersAreUnique
  BY DEF LeadersAreUnique
<1>2. QED
  BY AtMostOneLeader, RecoveryRunsOnce, <1>1, PTL

-----------------------------------------------------------------------------
(* Presence *)

PresenceSpec == PresenceInit /\ [][PresenceNext]_presenceVars

\* Ticks that have passed and pings that were lost are all a key has spent.
PresenceInv ==
    /\ keyLeft \in [Beaters -> Nat] /\ beatIn \in [Beaters -> 0..BeatEvery]
    /\ missed \in [Beaters -> 0..KeyTtl]
    /\ state \in [Beaters -> {"off", "starting", "on", "stopped", "crashed"}]
    /\ \A w \in Beaters : state[w] \in {"off", "starting"} => missed[w] = KeyTtl
    /\ \A w \in Beaters : state[w] = "on" =>
         KeyTtl <= keyLeft[w] + missed[w] * BeatEvery + (BeatEvery - beatIn[w])
    /\ \A w \in Beaters : state[w] = "stopped" /\ w \notin left => keyLeft[w] = 0
    /\ \A w \in Beaters : redisOps = "none" \/ state[w] = "off" => keyLeft[w] = 0

LEMMA PresenceNumbers ==
    /\ KeyTtl \in Nat \ {0} /\ BeatEvery \in Nat \ {0} /\ BeatEvery \in 0..BeatEvery
    /\ 0 \in 0..KeyTtl /\ KeyTtl \in 0..KeyTtl
    /\ KeyTtl * BeatEvery >= KeyTtl /\ 0 * BeatEvery = 0
    /\ \A m \in 0..KeyTtl : m * BeatEvery \in Nat /\ (m + 1) * BeatEvery = m * BeatEvery + BeatEvery
  BY PresenceAssumption

\* The first ping, or a ping that is due.
LEMMA BeatKeeps ==
    ASSUME PresenceInv, NEW w \in Beaters, Beat(w),
           state[w] = "starting" \/ (state[w] = "on" /\ beatIn[w] = 0),
           beatIn' = [beatIn EXCEPT ![w] = BeatEvery],
           state' = [state EXCEPT ![w] = "on"], UNCHANGED <<redisOps, left>>,
           state[w] = "starting" => missed[w] = KeyTtl
    PROVE  PresenceInv'
<1>1. /\ keyLeft[w] \in Nat /\ missed[w] \in 0..KeyTtl /\ beatIn[w] \in 0..BeatEvery
      /\ state'[w] = "on" /\ beatIn'[w] = BeatEvery /\ beatIn' \in [Beaters -> 0..BeatEvery]
      /\ state' \in [Beaters -> {"off", "starting", "on", "stopped", "crashed"}]
  BY PresenceNumbers DEF PresenceInv
<1>2. \A v \in Beaters : v # w => /\ state'[v] = state[v] /\ beatIn'[v] = beatIn[v]
                                  /\ keyLeft'[v] = keyLeft[v] /\ missed'[v] = missed[v]
  BY DEF PresenceInv, Beat
<1>3. CASE /\ redisOps # "none"
           /\ keyLeft' = [keyLeft EXCEPT ![w] = KeyTtl] /\ missed' = [missed EXCEPT ![w] = 0]
  <2>1. keyLeft'[w] = KeyTtl /\ missed'[w] = 0
    BY <1>3 DEF PresenceInv
  <2>2. KeyTtl <= keyLeft'[w] + missed'[w] * BeatEvery + (BeatEvery - beatIn'[w])
    BY <1>1, <2>1, PresenceNumbers
  <2>3. keyLeft' \in [Beaters -> Nat] /\ missed' \in [Beaters -> 0..KeyTtl]
    BY <1>3, PresenceNumbers DEF PresenceInv
  <2>4. QED
    BY <1>1, <1>2, <1>3, <2>2, <2>3 DEF PresenceInv
<1>4. CASE /\ missed' = [missed EXCEPT ![w] = IF @ < KeyTtl THEN @ + 1 ELSE @]
           /\ UNCHANGED keyLeft
  <2>1. /\ missed'[w] = IF missed[w] < KeyTtl THEN missed[w] + 1 ELSE missed[w]
        /\ keyLeft'[w] = keyLeft[w]
    BY <1>4 DEF PresenceInv
  <2>2. missed'[w] \in 0..KeyTtl
    BY <1>1, <2>1, PresenceNumbers
  <2>3. KeyTtl <= keyLeft'[w] + missed'[w] * BeatEvery + (BeatEvery - beatIn'[w])
    <3>1. CASE missed[w] < KeyTtl
      <4>0. missed[w] # KeyTtl
        BY <1>1, <3>1, PresenceAssumption
      <4>1. state[w] = "on" /\ beatIn[w] = 0
        BY <4>0
      <4>2. KeyTtl <= keyLeft[w] + missed[w] * BeatEvery + (BeatEvery - beatIn[w])
        BY <4>1 DEF PresenceInv
      <4>3. missed'[w] * BeatEvery = missed[w] * BeatEvery + BeatEvery /\ missed[w] * BeatEvery \in Nat
        BY <1>1, <2>1, <3>1, PresenceNumbers
      <4>4. QED
        BY <1>1, <2>1, <4>1, <4>2, <4>3, PresenceNumbers
    <3>2. CASE ~(missed[w] < KeyTtl)
      <4>1. missed'[w] = KeyTtl
        BY <1>1, <2>1, <3>2, PresenceNumbers
      <4>2. QED
        BY <1>1, <2>1, <4>1, PresenceNumbers
    <3>3. QED
      BY <3>1, <3>2
  <2>4. missed' \in [Beaters -> 0..KeyTtl]
    BY <1>4, <2>1, <2>2 DEF PresenceInv
  <2>5. QED
    BY <1>1, <1>2, <1>4, <2>3, <2>4 DEF PresenceInv
<1>5. QED
  BY <1>3, <1>4 DEF Beat

\* A tick takes from the key what it adds to the time since the last beat.
LEMMA TickTakesOne ==
    ASSUME NEW before \in Nat, NEW after \in Nat, after + 1 >= before,
           NEW rest \in Nat, rest > 0, NEW n \in Nat,
           KeyTtl <= before + n + (BeatEvery - rest)
    PROVE  KeyTtl <= after + n + (BeatEvery - (rest - 1))
  BY PresenceAssumption

LEMMA PresenceNextKeeps ==
    ASSUME PresenceInv, [PresenceNext]_presenceVars
    PROVE  PresenceInv'
<1>1. CASE UNCHANGED presenceVars
  BY <1>1 DEF presenceVars, PresenceInv
<1>2. CASE BeatTick
  <2>1. /\ UNCHANGED <<redisOps, state, missed, left>>
        /\ keyLeft' = [w \in Beaters |-> Kept(keyLeft[w])]
        /\ beatIn' = [w \in Beaters |-> IF state[w] = "on" THEN beatIn[w] - 1 ELSE beatIn[w]]
    BY <1>2 DEF BeatTick
  <2>2. ASSUME NEW w \in Beaters
        PROVE  /\ keyLeft'[w] \in Nat /\ beatIn'[w] \in 0..BeatEvery
               /\ state[w] = "on" =>
                    KeyTtl <= keyLeft'[w] + missed[w] * BeatEvery + (BeatEvery - beatIn'[w])
               /\ keyLeft[w] = 0 => keyLeft'[w] = 0
    <3>1. /\ keyLeft[w] \in Nat /\ beatIn[w] \in 0..BeatEvery /\ missed[w] \in 0..KeyTtl
          /\ missed[w] * BeatEvery \in Nat
      BY PresenceNumbers DEF PresenceInv
    <3>2. keyLeft'[w] = IF keyLeft[w] = 0 \/ redisOps = "operations" THEN keyLeft[w] ELSE keyLeft[w] - 1
      BY <2>1 DEF Kept
    <3>3. CASE state[w] = "on"
      <4>1. beatIn[w] > 0 /\ beatIn'[w] = beatIn[w] - 1
        BY <1>2, <2>1, <3>3 DEF BeatTick
      <4>2. KeyTtl <= keyLeft[w] + missed[w] * BeatEvery + (BeatEvery - beatIn[w])
        BY <3>3 DEF PresenceInv
      <4>3. beatIn'[w] \in 0..BeatEvery /\ keyLeft'[w] \in Nat /\ keyLeft'[w] + 1 >= keyLeft[w]
        <5>1. beatIn'[w] \in 0..BeatEvery
          BY <3>1, <4>1, PresenceAssumption
        <5>2. keyLeft'[w] \in Nat /\ keyLeft'[w] + 1 >= keyLeft[w]
          BY <3>1, <3>2
        <5>3. QED
          BY <5>1, <5>2
      <4>4. PICK n \in Nat : n = missed[w] * BeatEvery
        BY <3>1
      <4>5. KeyTtl <= keyLeft'[w] + n + (BeatEvery - beatIn'[w])
        <5>1. /\ keyLeft[w] \in Nat /\ keyLeft'[w] \in Nat /\ keyLeft'[w] + 1 >= keyLeft[w]
              /\ beatIn[w] \in Nat /\ beatIn[w] > 0
          BY <3>1, <4>1, <4>3, PresenceAssumption
        <5>2. KeyTtl <= keyLeft[w] + n + (BeatEvery - beatIn[w])
          BY <4>2, <4>4
        <5>3. KeyTtl <= keyLeft'[w] + n + (BeatEvery - (beatIn[w] - 1))
          BY <5>1, <5>2, TickTakesOne
        <5>4. QED
          BY <4>1, <5>3
      <4>6. QED
        BY <3>2, <4>3, <4>4, <4>5
    <3>4. CASE state[w] # "on"
      <4>1. beatIn'[w] = beatIn[w]
        BY <2>1, <3>4
      <4>2. keyLeft'[w] \in Nat
        BY <3>1, <3>2
      <4>3. QED
        BY <3>1, <3>2, <3>4, <4>1, <4>2
    <3>5. QED
      BY <3>3, <3>4
  <2>3. keyLeft' \in [Beaters -> Nat] /\ beatIn' \in [Beaters -> 0..BeatEvery]
    BY <2>1, <2>2
  <2>4. QED
    BY <2>1, <2>2, <2>3 DEF PresenceInv
<1>3. ASSUME NEW w \in Beaters, StartBeat(w) PROVE PresenceInv'
  BY <1>3 DEF StartBeat, PresenceInv
<1>4. ASSUME NEW w \in Beaters, FirstPing(w) PROVE PresenceInv'
  <2>1. missed[w] = KeyTtl
    BY <1>4 DEF FirstPing, PresenceInv
  <2>2. QED
    BY <1>4, <2>1, BeatKeeps DEF FirstPing
<1>5. ASSUME NEW w \in Beaters, Ping(w) PROVE PresenceInv'
  <2>1. state' = [state EXCEPT ![w] = "on"]
    BY <1>5 DEF Ping, PresenceInv
  <2>2. QED
    BY <1>5, <2>1, BeatKeeps DEF Ping
<1>6. ASSUME NEW w \in Beaters, StopBeat(w) PROVE PresenceInv'
  <2>1. keyLeft' \in [Beaters -> Nat]
    BY <1>6 DEF StopBeat, PresenceInv
  <2>2. QED
    BY <1>6, <2>1 DEF StopBeat, PresenceInv
<1>7. ASSUME NEW w \in Beaters, CrashBeat(w) PROVE PresenceInv'
  BY <1>7 DEF CrashBeat, PresenceInv
<1>8. QED
  BY <1>1, <1>2, <1>3, <1>4, <1>5, <1>6, <1>7 DEF PresenceNext

\* What the key of a worker tells whoever looks for it.
LEMMA KeysTell ==
    ASSUME NEW w \in Beaters, NEW registered \in SUBSET Beaters, NEW fails \in BOOLEAN,
           Beats(w) => keyLeft[w] > 0 /\ redisOps # "none",
           keyLeft[w] > 0 => /\ redisOps # "none" /\ state[w] # "off"
                             /\ state[w] = "stopped" => w \in left
    PROVE  /\ Beats(w) => IsAlive(w, FALSE)
           /\ Beats(w) /\ w \in registered => w \in ActiveWorkers(registered, FALSE)
           /\ IsAlive(w, fails) \/ w \in ActiveWorkers(registered, fails)
                => /\ redisOps # "none" /\ state[w] # "off"
                   /\ state[w] = "stopped" => w \in left
<1>1. HasKey(w) <=> keyLeft[w] > 0
  BY DEF HasKey
<1>2. w \in ActiveWorkers(registered, fails) => HasKey(w)
  BY DEF ActiveWorkers
<1>3. IsAlive(w, fails) => HasKey(w)
  BY DEF IsAlive
<1>4. IsAlive(w, FALSE) <=> redisOps # "none" /\ HasKey(w)
  BY DEF IsAlive
<1>5. HasKey(w) /\ w \in registered => w \in ActiveWorkers(registered, FALSE)
  BY DEF ActiveWorkers
<1>6. QED
  BY <1>1, <1>2, <1>3, <1>4, <1>5

(***************************************************************************)
(* For any number of workers and any expiry and interval: a worker with a  *)
(* Redis looks alive to a read that works while it beats, unless it lost   *)
(* so many pings in a row that its key expired, and a monitor counts it if *)
(* its id is in the set; one that stopped does not, unless its key could   *)
(* not be deleted, and one without redisOps never does (Heartbeat,         *)
(* WorkerMonitor).                                                         *)
(***************************************************************************)
THEOREM PresenceStaysTrue == PresenceSpec => []PresenceIsTrue
<1>1. PresenceInit => PresenceInv
  <2> SUFFICES ASSUME PresenceInit PROVE PresenceInv
    OBVIOUS
  <2>1. /\ keyLeft \in [Beaters -> Nat] /\ \A w \in Beaters : state[w] = "off" /\ keyLeft[w] = 0
        /\ state \in [Beaters -> {"off", "starting", "on", "stopped", "crashed"}]
    BY DEF PresenceInit
  <2>2. beatIn \in [Beaters -> 0..BeatEvery] /\ missed \in [Beaters -> 0..KeyTtl]
    BY PresenceNumbers DEF PresenceInit
  <2>3. \A w \in Beaters : missed[w] = KeyTtl
    BY DEF PresenceInit
  <2>4. QED
    BY <2>1, <2>2, <2>3 DEF PresenceInv
<1>2. PresenceInv => PresenceIsTrue
  <2> SUFFICES ASSUME PresenceInv, NEW w \in Beaters, NEW registered \in SUBSET Beaters,
                      NEW fails \in BOOLEAN
               PROVE  /\ Beats(w) => IsAlive(w, FALSE)
                      /\ Beats(w) /\ w \in registered => w \in ActiveWorkers(registered, FALSE)
                      /\ IsAlive(w, fails) \/ w \in ActiveWorkers(registered, fails)
                           => /\ redisOps # "none" /\ state[w] # "off"
                              /\ state[w] = "stopped" => w \in left
    BY DEF PresenceIsTrue
  <2>1. /\ keyLeft[w] \in Nat /\ beatIn[w] \in 0..BeatEvery /\ missed[w] * BeatEvery \in Nat
        /\ (missed[w] + 1) * BeatEvery = missed[w] * BeatEvery + BeatEvery
    BY PresenceNumbers DEF PresenceInv
  <2>2. ASSUME Beats(w) PROVE keyLeft[w] > 0 /\ redisOps # "none"
    <3>1. /\ KeyTtl <= keyLeft[w] + missed[w] * BeatEvery + (BeatEvery - beatIn[w])
          /\ (missed[w] + 1) * BeatEvery < KeyTtl
      BY <2>2 DEF PresenceInv, Beats
    <3>2. keyLeft[w] > 0
      BY <2>1, <3>1, PresenceNumbers
    <3>3. redisOps # "none"
      BY <2>2 DEF Beats
    <3>4. QED
      BY <3>2, <3>3
  <2>3. ASSUME keyLeft[w] > 0
        PROVE  redisOps # "none" /\ state[w] # "off" /\ (state[w] = "stopped" => w \in left)
    <3>1. keyLeft[w] # 0
      BY <2>1, <2>3
    <3>2. QED
      BY <3>1 DEF PresenceInv
  <2>4. QED
    BY <2>2, <2>3, KeysTell
<1>3. PresenceInv /\ [PresenceNext]_presenceVars => PresenceInv'
  BY PresenceNextKeeps
<1>4. QED
  BY <1>1, <1>2, <1>3, PTL DEF PresenceSpec

-----------------------------------------------------------------------------
(* HealthWatch *)

HealthSpec == HealthInit /\ [][HealthNext]_healthVars

Rounds ==
    {NoCycle} \cup [at : {"checking"}, asked : SUBSET Dependencies, healthy : SUBSET Dependencies]
              \cup [at : {"publishing"}, severity : {"healthy", "degraded", "unhealthy"}]

\* The event publisher has what is believed, or rejected it.
Heard(believed) == wiring = "module" => heard \in {believed, "nothing"}

\* With one cycle at a time, what was alerted last is believed, or is about to be.
HealthInv ==
    /\ cycle \in [Cycles -> Rounds]
    /\ ~overlapped =>
         /\ ~repeated
         /\ \A c, d \in Cycles : InFlight(c) /\ InFlight(d) => c = d
         /\ \A c \in Cycles : cycle[c].at = "publishing" => lastAlert = cycle[c].severity
         /\ (\A c \in Cycles : cycle[c].at # "publishing") => lastAlert = previous /\ Heard(previous)

LEMMA RoundFacts ==
    ASSUME HealthInv, NEW c \in Cycles
    PROVE  /\ cycle[c] \in Rounds
           /\ InFlight(c) <=> cycle[c].at \in {"checking", "publishing"}
           /\ cycle[c].at = "checking" => cycle[c].asked \in SUBSET Dependencies
                                          /\ cycle[c].healthy \in SUBSET Dependencies
  BY DEF HealthInv, Rounds, InFlight, NoCycle

LEMMA SeverityFacts ==
    ASSUME NEW healthy
    PROVE  Severity(healthy) \in {"healthy", "degraded", "unhealthy"}
  BY DEF Severity

LEMMA HealthKeeps ==
    ASSUME HealthInv, [HealthNext]_healthVars
    PROVE  HealthInv'
<1>0. /\ NoCycle \in Rounds /\ NoCycle.at = "idle"
      /\ [at |-> "checking", asked |-> {}, healthy |-> {}] \in Rounds
  BY DEF Rounds, NoCycle
<1>1. CASE UNCHANGED healthVars
  BY <1>1 DEF healthVars, HealthInv, InFlight, Heard
<1>2. ASSUME NEW c \in Cycles, Begin(c), UNCHANGED <<wiring, previous, lastAlert, heard, repeated>>
      PROVE  HealthInv'
  <2>1. /\ cycle' = [cycle EXCEPT ![c] = [at |-> "checking", asked |-> {}, healthy |-> {}]]
        /\ ~InFlight(c) /\ overlapped' = (overlapped \/ \E d \in Cycles : InFlight(d))
    BY <1>2 DEF Begin, Goes
  <2>2. cycle' \in [Cycles -> Rounds]
    BY <1>0, <2>1 DEF HealthInv
  <2>3. ASSUME ~overlapped'
        PROVE  /\ ~overlapped /\ \A d \in Cycles : ~InFlight(d)
               /\ \A d \in Cycles : cycle[d].at # "publishing" /\ cycle'[d].at # "publishing"
               /\ \A d \in Cycles : InFlight(d)' => d = c
    <3>1. ~overlapped /\ \A d \in Cycles : ~InFlight(d)
      BY <2>1, <2>3
    <3>2. \A d \in Cycles : d # c => cycle'[d] = cycle[d]
      BY <2>1 DEF HealthInv
    <3>3. cycle'[c].at = "checking"
      BY <2>1 DEF HealthInv
    <3>4. QED
      BY <3>1, <3>2, <3>3, RoundFacts DEF InFlight
  <2>4. QED
    BY <1>2, <2>2, <2>3 DEF HealthInv, Heard
<1>3. ASSUME NEW c \in Cycles, NEW d \in Dependencies, Check(c, d) PROVE HealthInv'
  <2> DEFINE asked == cycle[c].asked \cup {d}
             healthy == cycle[c].healthy \cup ({d} \cap Seen)
             severity == Severity(healthy)
  <2>1. /\ cycle[c].at = "checking" /\ UNCHANGED <<wiring, heard, overlapped>>
        /\ asked = Dependencies => Analyze(c, severity)
        /\ asked # Dependencies
             => /\ cycle' = [cycle EXCEPT ![c] = [cycle[c] EXCEPT !.asked = asked, !.healthy = healthy]]
                /\ UNCHANGED <<lastAlert, previous, repeated>>
    <3>1. /\ cycle[c].at = "checking" /\ UNCHANGED <<wiring, heard, overlapped>>
      BY <1>3 DEF Check
    <3>2. asked = Dependencies => Analyze(c, severity)
      BY <1>3 DEF Check
    <3>3. asked # Dependencies
            => /\ cycle' = [cycle EXCEPT ![c] = [cycle[c] EXCEPT !.asked = asked, !.healthy = healthy]]
               /\ UNCHANGED <<lastAlert, previous, repeated>>
      BY <1>3 DEF Check, Goes
    <3>4. QED
      BY <3>1, <3>2, <3>3
  <2>2. /\ InFlight(c)
        /\ ~overlapped => \A e \in Cycles : e # c => ~InFlight(e) /\ cycle[e].at # "publishing"
        /\ ~overlapped => lastAlert = previous /\ Heard(previous) /\ ~repeated
    BY <2>1, RoundFacts DEF HealthInv
  <2> HIDE DEF asked, healthy, severity
  <2>3. CASE asked # Dependencies
    <3>1. [cycle[c] EXCEPT !.asked = asked, !.healthy = healthy]
            \in [at : {"checking"}, asked : SUBSET Dependencies, healthy : SUBSET Dependencies]
      <4>1. cycle[c] \in [at : {"checking"}, asked : SUBSET Dependencies, healthy : SUBSET Dependencies]
        BY <2>1, RoundFacts DEF Rounds, NoCycle
      <4>2. asked \in SUBSET Dependencies /\ healthy \in SUBSET Dependencies
        BY <4>1 DEF asked, healthy
      <4>3. QED
        BY <4>1, <4>2
    <3>2. PICK k \in Rounds : k.at = "checking" /\ cycle' = [cycle EXCEPT ![c] = k]
      BY <2>1, <2>3, <3>1 DEF Rounds
    <3>3. UNCHANGED <<wiring, heard, overlapped, lastAlert, previous, repeated>>
      BY <2>1, <2>3
    <3>4. /\ cycle' \in [Cycles -> Rounds] /\ cycle'[c] = k
          /\ \A e \in Cycles : e # c => cycle'[e] = cycle[e]
      BY <3>2 DEF HealthInv
    <3>5. QED
      BY <2>2, <3>2, <3>3, <3>4 DEF HealthInv, InFlight, Heard
  <2>4. CASE asked = Dependencies /\ severity = previous
    <3>1. /\ cycle' = [cycle EXCEPT ![c] = NoCycle]
          /\ UNCHANGED <<wiring, heard, overlapped, lastAlert, previous, repeated>>
      BY <2>1, <2>4 DEF Analyze, Goes
    <3>2. /\ cycle' \in [Cycles -> Rounds] /\ cycle'[c] = NoCycle
          /\ \A e \in Cycles : e # c => cycle'[e] = cycle[e]
      BY <1>0, <3>1 DEF HealthInv
    <3>3. QED
      BY <1>0, <2>2, <3>1, <3>2 DEF HealthInv, InFlight, Heard
  <2>5. CASE asked = Dependencies /\ severity # previous
    <3>1. /\ lastAlert' = severity /\ UNCHANGED <<wiring, heard, overlapped>>
          /\ repeated' = (repeated \/ (~overlapped /\ severity = lastAlert))
          /\ IF wiring = "setup"
             THEN cycle' = [cycle EXCEPT ![c] = NoCycle] /\ previous' = severity
             ELSE /\ cycle' = [cycle EXCEPT ![c] = [at |-> "publishing", severity |-> severity]]
                  /\ UNCHANGED previous
      BY <2>1, <2>5 DEF Analyze, Alert, Goes
    <3>2. ~overlapped => ~repeated'
      BY <2>2, <2>5, <3>1
    <3>3. CASE wiring = "setup"
      <4>1. /\ cycle' \in [Cycles -> Rounds] /\ cycle'[c] = NoCycle
            /\ \A e \in Cycles : e # c => cycle'[e] = cycle[e]
        BY <1>0, <3>1, <3>3 DEF HealthInv
      <4>2. lastAlert' = previous' /\ Heard(previous)'
        BY <3>1, <3>3 DEF Heard
      <4>3. QED
        BY <1>0, <2>2, <3>1, <3>2, <4>1, <4>2 DEF HealthInv, InFlight
    <3>4. CASE wiring # "setup"
      <4>1. [at |-> "publishing", severity |-> severity] \in Rounds
        BY SeverityFacts DEF Rounds, severity
      <4>2. /\ cycle' \in [Cycles -> Rounds] /\ cycle'[c] = [at |-> "publishing", severity |-> severity]
            /\ \A e \in Cycles : e # c => cycle'[e] = cycle[e]
        BY <3>1, <3>4, <4>1 DEF HealthInv
      <4>3. cycle'[c].at = "publishing" /\ cycle'[c].severity = lastAlert'
        BY <3>1, <4>2
      <4>4. QED
        BY <2>2, <3>1, <3>2, <4>2, <4>3 DEF HealthInv, InFlight
    <3>5. QED
      BY <3>3, <3>4
  <2>6. QED
    BY <2>3, <2>4, <2>5
<1>4. ASSUME NEW c \in Cycles, Remember(c) PROVE HealthInv'
  <2>1. /\ cycle[c].at = "publishing" /\ previous' = cycle[c].severity
        /\ cycle' = [cycle EXCEPT ![c] = NoCycle]
        /\ UNCHANGED <<wiring, lastAlert, repeated, overlapped>>
        /\ wiring = "module" => heard' \in {cycle[c].severity, "nothing"}
    BY <1>4 DEF Remember, Goes
  <2>2. /\ cycle' \in [Cycles -> Rounds] /\ cycle'[c] = NoCycle
        /\ \A e \in Cycles : e # c => cycle'[e] = cycle[e]
    BY <1>0, <2>1 DEF HealthInv
  <2>3. /\ InFlight(c) /\ ~overlapped => lastAlert = cycle[c].severity
        /\ ~overlapped => \A e \in Cycles : e # c => ~InFlight(e) /\ cycle[e].at # "publishing"
    BY <2>1, RoundFacts DEF HealthInv
  <2>4. Heard(previous)'
    BY <2>1 DEF Heard
  <2>5. QED
    BY <1>0, <2>1, <2>2, <2>3, <2>4 DEF HealthInv, InFlight
<1>5. CASE Stop \/ \E d \in Dependencies : DependencyChanges(d)
  BY <1>5 DEF Stop, DependencyChanges, HealthInv, InFlight, Heard
<1>6. QED
  BY <1>1, <1>2, <1>3, <1>4, <1>5 DEF HealthNext, Start, Interval, CycleStep

(***************************************************************************)
(* For any number of cycles: as long as none outlasts the interval, what   *)
(* was alerted last is what HealthDaemon believes, no alert repeats the    *)
(* one before it, and the event publisher has the last one unless it       *)
(* rejected it.                                                            *)
(***************************************************************************)
THEOREM AlertsStayTrue == HealthSpec => []AlertsKeepUp
<1>1. HealthInit => HealthInv
  BY DEF HealthInit, HealthInv, Heard, Rounds, NoCycle, InFlight
<1>2. HealthInv => AlertsKeepUp
  <2> SUFFICES ASSUME HealthInv, ~overlapped
               PROVE  ~repeated /\ (Alone => lastAlert = previous /\ Heard(previous))
    BY DEF AlertsKeepUp, Heard
  <2>1. ~repeated
    BY DEF HealthInv
  <2>2. ASSUME Alone PROVE lastAlert = previous /\ Heard(previous)
    <3>1. \A c \in Cycles : cycle[c].at # "publishing"
      BY <2>2, RoundFacts DEF Alone
    <3>2. QED
      BY <3>1 DEF HealthInv
  <2>3. QED
    BY <2>1, <2>2
<1>3. HealthInv /\ [HealthNext]_healthVars => HealthInv'
  BY HealthKeeps
<1>4. QED
  BY <1>1, <1>2, <1>3, PTL DEF HealthSpec

-----------------------------------------------------------------------------
(* QueueWatch *)

WatchSpec == WatchInit /\ [][WatchNext]_watchVars

Samples == [at : {"begun", "half", "out"}, part : Nat, low : Nat, high : Nat,
            missed : Nat, taken : Nat, ended : Nat]
Checks == [at : 0..3, kind : {"none", "shed", "alarm"}, under : BOOLEAN, verdict : Nat]

WatchTyped ==
    /\ waiting \in Nat /\ active \in Nat /\ lastDepth \in Nat /\ peak \in Nat
    /\ sample = NoSample \/ (sample \in Samples /\ look = "sample")
    /\ check \in Checks
    /\ DOMAIN adjust = Adjusters
    /\ \A a \in Adjusters : adjust[a] # 0 => look = "adjust"

\* The count of waiting jobs that was read is off by those taken, added and
\* returned since.
SampleInv ==
    /\ sample # NoSample => sample.low <= waiting + active /\ waiting + active <= sample.high
    /\ sample # NoSample /\ sample.at = "half" =>
         /\ sample.part <= waiting + sample.taken
         /\ waiting <= sample.part + sample.missed
    /\ SampleIsNearlyTrue

\* Whatever a reading can return is below the peak, and what was decided on an
\* earlier reading is justified by the peak.
PressureInv ==
    /\ look = "check" => waiting + active <= peak /\ lastDepth <= peak
    /\ look # "check" => check.at = 0 /\ check.verdict = 0
    /\ check.at # 0 /\ check.under => peak * 100 >= 75 * Threshold
    /\ PressureIsReal

LEMMA MaxTwo ==
    ASSUME NEW a \in Nat, NEW b \in Nat
    PROVE  Max({a, b}) \in Nat /\ Max({a, b}) >= a /\ Max({a, b}) >= b
<1> DEFINE m == IF a >= b THEN a ELSE b
<1>1. m \in {a, b} /\ \A y \in {a, b} : m >= y
  OBVIOUS
<1>2. Max({a, b}) \in {a, b} /\ \A y \in {a, b} : Max({a, b}) >= y
  BY <1>1 DEF Max
<1>3. QED
  BY <1>2

LEMMA MinTwo ==
    ASSUME NEW a \in Nat, NEW b \in Nat
    PROVE  Min({a, b}) \in Nat /\ Min({a, b}) <= a /\ Min({a, b}) <= b
<1> DEFINE m == IF a <= b THEN a ELSE b
<1>1. m \in {a, b} /\ \A y \in {a, b} : m =< y
  OBVIOUS
<1>2. Min({a, b}) \in {a, b} /\ \A y \in {a, b} : Min({a, b}) =< y
  BY <1>1 DEF Min
<1>3. QED
  BY <1>2

\* What a move does to a sample under way.
LEMMA ChurnFacts ==
    ASSUME WatchTyped, NEW w \in Nat, NEW a \in Nat, NEW kind \in {"missed", "taken", "ended"},
           QueueMoves(w, a, kind), sample # NoSample
    PROVE  /\ sample' \in Samples
           /\ sample'.at = sample.at /\ sample'.part = sample.part
           /\ sample'.low <= w + a /\ w + a <= sample'.high
           /\ sample'.missed = sample.missed + (IF kind = "missed" THEN 1 ELSE 0)
           /\ sample'.taken = sample.taken + (IF kind = "taken" THEN 1 ELSE 0)
<1>1. sample \in Samples
  BY DEF WatchTyped
<1>2. sample' = [sample EXCEPT ![kind] = @ + 1, !.low = Min({@, w + a}), !.high = Max({@, w + a})]
  BY DEF QueueMoves, Churn
<1>3. PICK n \in Nat, lo \in Nat, hi \in Nat :
         n = sample[kind] + 1 /\ lo = Min({sample.low, w + a}) /\ hi = Max({sample.high, w + a})
  <2>1. sample[kind] \in Nat /\ sample.low \in Nat /\ sample.high \in Nat /\ w + a \in Nat
    BY <1>1 DEF Samples
  <2>2. QED
    BY <2>1, MinTwo, MaxTwo
<1>4. lo <= w + a /\ w + a <= hi
  <2>1. sample.low \in Nat /\ sample.high \in Nat /\ w + a \in Nat
    BY <1>1 DEF Samples
  <2>2. QED
    BY <1>3, <2>1, MinTwo, MaxTwo
<1>5. CASE kind = "missed"
  <2>1. sample' = [sample EXCEPT !.missed = n, !.low = lo, !.high = hi]
    BY <1>2, <1>3, <1>5
  <2>2. /\ sample' \in Samples /\ sample'.at = sample.at /\ sample'.part = sample.part
        /\ sample'.low = lo /\ sample'.high = hi
        /\ sample'.missed = n /\ sample'.taken = sample.taken
    BY <1>1, <2>1 DEF Samples
  <2>3. sample.missed \in Nat /\ sample.taken \in Nat
    BY <1>1 DEF Samples
  <2>4. QED
    BY <1>3, <1>4, <1>5, <2>2, <2>3
<1>6. CASE kind = "taken"
  <2>1. sample' = [sample EXCEPT !.taken = n, !.low = lo, !.high = hi]
    BY <1>2, <1>3, <1>6
  <2>2. /\ sample' \in Samples /\ sample'.at = sample.at /\ sample'.part = sample.part
        /\ sample'.low = lo /\ sample'.high = hi
        /\ sample'.missed = sample.missed /\ sample'.taken = n
    BY <1>1, <2>1 DEF Samples
  <2>3. sample.missed \in Nat /\ sample.taken \in Nat
    BY <1>1 DEF Samples
  <2>4. QED
    BY <1>3, <1>4, <1>6, <2>2, <2>3
<1>7. CASE kind = "ended"
  <2>1. sample' = [sample EXCEPT !.ended = n, !.low = lo, !.high = hi]
    BY <1>2, <1>3, <1>7
  <2>2. /\ sample' \in Samples /\ sample'.at = sample.at /\ sample'.part = sample.part
        /\ sample'.low = lo /\ sample'.high = hi
        /\ sample'.missed = sample.missed /\ sample'.taken = sample.taken
    BY <1>1, <2>1 DEF Samples
  <2>3. sample.missed \in Nat /\ sample.taken \in Nat
    BY <1>1 DEF Samples
  <2>4. QED
    BY <1>3, <1>4, <1>7, <2>2, <2>3
<1>8. QED
  BY <1>5, <1>6, <1>7

LEMMA AtLeastFifty ==
    ASSUME NEW n \in Nat, NEW d \in Nat \ {0}, n \div d >= 50
    PROVE  n >= 50 * d
  OBVIOUS

LEMMA LevelFacts ==
    ASSUME NEW depth \in Nat
    PROVE  Level(depth) \in {"high", "critical"} => depth * 100 >= 50 * Threshold
<1> DEFINE pct == (depth * 100) \div Threshold
<1>1. Threshold \in Nat \ {0} /\ depth * 100 \in Nat
  BY WatchAssumption
<1>2. pct >= 50 => depth * 100 >= 50 * Threshold
  BY <1>1, AtLeastFifty
<1>3. pct \in Nat
  BY <1>1
<1>4. ASSUME ~(pct >= 50) PROVE Level(depth) \in {"low", "medium"}
  <2>1. CASE pct < 25
    <3>1. ~(pct \in 25..49) /\ ~(pct \in 50..74)
      BY <2>1, <1>3
    <3>2. QED
      BY <2>1, <3>1, Zenon DEF Level
  <2>2. CASE ~(pct < 25)
    <3>1. pct \in 25..49 /\ ~(pct \in 50..74)
      BY <1>3, <1>4, <2>2
    <3>2. QED
      BY <2>2, <3>1, Zenon DEF Level
  <2>3. QED
    BY <2>1, <2>2
<1>5. QED
  BY <1>2, <1>4

WatchInv == WatchTyped /\ SampleInv /\ PressureInv

LEMMA PeakGrows ==
    ASSUME NEW p \in Nat, NEW q \in Nat, q >= p, NEW n \in Nat, p * 100 >= n
    PROVE  q * 100 >= n
  OBVIOUS

LEMMA MovesKeep ==
    ASSUME WatchInv, NEW w \in Nat, NEW a \in Nat, NEW kind \in {"missed", "taken", "ended"},
           QueueMoves(w, a, kind),
           sample # NoSample => \/ kind = "missed" /\ w = waiting + 1
                                \/ kind = "taken" /\ waiting = w + 1
                                \/ kind = "ended" /\ w = waiting
    PROVE  WatchInv'
<1>1. /\ waiting' = w /\ active' = a
      /\ sample' = Churn(kind) /\ peak' = IF look = "check" THEN Max({peak, w + a}) ELSE peak
      /\ UNCHANGED <<look, gauge, lastDepth, check, concurrency, adjust>>
  BY DEF QueueMoves
<1>2. WatchTyped /\ peak \in Nat /\ lastDepth \in Nat /\ Threshold \in Nat \ {0} /\ check \in Checks
  BY WatchAssumption DEF WatchInv, WatchTyped
<1>3. sample = NoSample => sample' = NoSample
  BY <1>1 DEF Churn
<1>4. ASSUME sample # NoSample
      PROVE  /\ sample' \in Samples
             /\ sample'.low <= w + a /\ w + a <= sample'.high
             /\ sample'.at = "half" => /\ sample'.part <= w + sample'.taken
                                       /\ w <= sample'.part + sample'.missed
  <2>1. /\ sample' \in Samples
        /\ sample'.at = sample.at /\ sample'.part = sample.part
        /\ sample'.low <= w + a /\ w + a <= sample'.high
        /\ sample'.missed = sample.missed + (IF kind = "missed" THEN 1 ELSE 0)
        /\ sample'.taken = sample.taken + (IF kind = "taken" THEN 1 ELSE 0)
    BY <1>2, <1>4, ChurnFacts
  <2>2. sample.part \in Nat /\ sample.missed \in Nat /\ sample.taken \in Nat /\ waiting \in Nat
    BY <1>4 DEF WatchInv, WatchTyped, Samples
  <2>3. ASSUME sample.at = "half"
        PROVE  sample.part <= w + sample'.taken /\ w <= sample.part + sample'.missed
    <3>1. sample.part <= waiting + sample.taken /\ waiting <= sample.part + sample.missed
      BY <1>4, <2>3 DEF WatchInv, SampleInv
    <3>2. CASE kind = "missed" /\ w = waiting + 1
      BY <2>1, <2>2, <3>1, <3>2
    <3>3. CASE kind = "taken" /\ waiting = w + 1
      BY <2>1, <2>2, <3>1, <3>3
    <3>4. CASE kind = "ended" /\ w = waiting
      BY <2>1, <2>2, <3>1, <3>4
    <3>5. QED
      BY <1>4, <3>2, <3>3, <3>4
  <2>4. QED
    BY <2>1, <2>3
<1>5. peak' \in Nat /\ peak' >= peak /\ (look = "check" => w + a <= peak')
  <2>1. w + a \in Nat
    OBVIOUS
  <2>2. QED
    BY <1>1, <1>2, <2>1, MaxTwo
<1>6. sample' # NoSample => sample # NoSample
  BY <1>3
<1>7. WatchTyped'
  <2>1. sample' = NoSample \/ (sample' \in Samples /\ look' = "sample")
    BY <1>1, <1>2, <1>3, <1>4 DEF WatchTyped
  <2>2. QED
    BY <1>1, <1>2, <1>5, <2>1 DEF WatchTyped
<1>8. SampleInv'
  <2>1. SampleIsNearlyTrue'
    <3>1. gauge' = gauge
      BY <1>1
    <3>2. SampleIsNearlyTrue
      BY DEF WatchInv, SampleInv
    <3>3. QED
      BY <3>1, <3>2 DEF SampleIsNearlyTrue, NoSample
  <2>2. NoSample' = NoSample
    BY DEF NoSample
  <2>3. ASSUME sample' # NoSample
        PROVE  /\ sample'.low <= waiting' + active' /\ waiting' + active' <= sample'.high
               /\ sample'.at = "half" => /\ sample'.part <= waiting' + sample'.taken
                                         /\ waiting' <= sample'.part + sample'.missed
    BY <1>1, <1>4, <1>6, <2>3
  <2>4. QED
    BY <2>1, <2>2, <2>3 DEF SampleInv
<1>9. PressureInv'
  <2>1. /\ 50 * Threshold \in Nat /\ 75 * Threshold \in Nat
        /\ \A n \in Nat : peak * 100 >= n => peak' * 100 >= n
    <3>1. peak \in Nat /\ peak' \in Nat /\ peak' >= peak
      BY <1>2, <1>5
    <3>2. \A n \in Nat : peak * 100 >= n => peak' * 100 >= n
      BY <3>1, PeakGrows
    <3>3. QED
      BY <1>2, <3>2
  <2>2. look' = "check" => waiting' + active' <= peak' /\ lastDepth' <= peak'
    <3>1. look = "check" => lastDepth <= peak
      BY DEF WatchInv, PressureInv
    <3>2. QED
      BY <1>1, <1>2, <1>5, <3>1
  <2>3. ASSUME check.at # 0, check.under PROVE peak' * 100 >= 75 * Threshold
    <3>1. peak * 100 >= 75 * Threshold
      BY <2>3 DEF WatchInv, PressureInv
    <3>2. QED
      BY <2>1, <3>1, Zenon
  <2>4. ASSUME check.at = 0, check.verdict > 0
        PROVE  peak' * 100 >= (IF check.kind = "shed" THEN 50 ELSE 75) * Threshold
    <3>1. peak * 100 >= (IF check.kind = "shed" THEN 50 ELSE 75) * Threshold
      BY <2>4 DEF WatchInv, PressureInv, PressureIsReal
    <3>2. CASE check.kind = "shed"
      <4>1. peak * 100 >= 50 * Threshold
        BY <3>1, <3>2
      <4>2. peak' * 100 >= 50 * Threshold
        BY <2>1, <4>1, Zenon
      <4>3. QED
        BY <3>2, <4>2
    <3>3. CASE check.kind # "shed"
      <4>1. peak * 100 >= 75 * Threshold
        BY <3>1, <3>3
      <4>2. peak' * 100 >= 75 * Threshold
        BY <2>1, <4>1, Zenon
      <4>3. QED
        BY <3>3, <4>2
    <3>4. QED
      BY <3>2, <3>3
  <2>5. look # "check" => check.at = 0 /\ check.verdict = 0
    BY DEF WatchInv, PressureInv
  <2>6. PressureIsReal'
    BY <1>1, <2>4 DEF PressureIsReal
  <2>7. QED
    BY <1>1, <2>2, <2>3, <2>5, <2>6 DEF PressureInv
<1>10. QED
  BY <1>7, <1>8, <1>9 DEF WatchInv

LEMMA QueueKeeps ==
    ASSUME WatchInv, AddJob \/ TakeJob \/ RetryJob \/ EndJob
    PROVE  WatchInv'
<1>1. waiting \in Nat /\ active \in Nat /\ (sample # NoSample => look = "sample")
  BY DEF WatchInv, WatchTyped
<1>2. CASE AddJob
  <2>1. waiting + 1 \in Nat /\ QueueMoves(waiting + 1, active, "missed")
    BY <1>1, <1>2 DEF AddJob
  <2>2. QED
    BY <1>1, <2>1, MovesKeep
<1>3. CASE TakeJob
  <2>1. /\ waiting - 1 \in Nat /\ active + 1 \in Nat /\ waiting = (waiting - 1) + 1
        /\ QueueMoves(waiting - 1, active + 1, "taken")
    BY <1>1, <1>3 DEF TakeJob
  <2>2. QED
    BY <1>1, <2>1, MovesKeep
<1>4. CASE RetryJob
  <2>1. waiting + 1 \in Nat /\ active - 1 \in Nat /\ QueueMoves(waiting + 1, active - 1, "missed")
    BY <1>1, <1>4 DEF RetryJob
  <2>2. QED
    BY <1>1, <2>1, MovesKeep
<1>5. CASE EndJob
  <2>1. CASE active > 0 /\ QueueMoves(waiting, active - 1, "ended")
    <3>1. active - 1 \in Nat
      BY <1>1, <2>1
    <3>2. QED
      BY <1>1, <2>1, <3>1, MovesKeep
  <2>2. CASE look # "sample" /\ waiting > 0 /\ QueueMoves(waiting - 1, active, "ended")
    <3>1. waiting - 1 \in Nat /\ sample = NoSample
      BY <1>1, <2>2
    <3>2. QED
      BY <1>1, <2>2, <3>1, MovesKeep
  <2>3. QED
    BY <1>5, <2>1, <2>2 DEF EndJob
<1>6. QED
  BY <1>2, <1>3, <1>4, <1>5

LEMMA SamplesKeep ==
    ASSUME WatchInv, BeginSample \/ Sample
    PROVE  WatchInv'
<1>1. WatchTyped /\ SampleInv /\ PressureInv
  BY DEF WatchInv
<1>2. UNCHANGED <<look, waiting, active, lastDepth, peak, check, adjust>>
  BY DEF BeginSample, Sample
<1>3. PressureInv'
  BY <1>1, <1>2 DEF PressureInv, PressureIsReal
<1>4. NoSample' = NoSample
  BY DEF NoSample
<1>5. waiting \in Nat /\ active \in Nat /\ Depth = waiting + active
  BY <1>1 DEF WatchTyped, Depth
<1>6. CASE BeginSample
  <2>1. /\ look = "sample" /\ gauge' = NoSample
        /\ sample' = [at |-> "begun", part |-> 0, low |-> Depth, high |-> Depth,
                      missed |-> 0, taken |-> 0, ended |-> 0]
    BY <1>6 DEF BeginSample
  <2>2. sample' \in Samples
    BY <1>5, <2>1 DEF Samples
  <2>3. WatchTyped'
    BY <1>1, <1>2, <2>1, <2>2 DEF WatchTyped
  <2>4. SampleIsNearlyTrue'
    BY <1>4, <2>1 DEF SampleIsNearlyTrue
  <2>5. SampleInv'
    BY <1>2, <1>5, <2>1, <2>4 DEF SampleInv
  <2>6. QED
    BY <1>3, <2>3, <2>5 DEF WatchInv
<1>7. CASE Sample
  <2>1. /\ sample # NoSample /\ WaitingFirst
        /\ sample \in Samples /\ look = "sample"
        /\ sample.low <= waiting + active /\ waiting + active <= sample.high
    BY <1>1, <1>7 DEF Sample, WatchTyped, SampleInv
  <2>2. /\ sample.part \in Nat /\ sample.low \in Nat /\ sample.high \in Nat
        /\ sample.missed \in Nat /\ sample.taken \in Nat
    BY <2>1 DEF Samples
  <2>3. CASE sample.at = "begun" /\ sample' = Reads(waiting) /\ UNCHANGED gauge
    <3>1. sample' = [sample EXCEPT !.at = "half", !.part = waiting]
      BY <2>3 DEF Reads
    <3>2. /\ sample' \in Samples /\ sample'.part = waiting
          /\ sample'.low = sample.low /\ sample'.high = sample.high
          /\ sample'.missed = sample.missed /\ sample'.taken = sample.taken
      BY <1>5, <2>1, <3>1 DEF Samples
    <3>3. WatchTyped'
      BY <1>1, <1>2, <2>1, <3>2 DEF WatchTyped
    <3>4. SampleIsNearlyTrue'
      BY <1>1, <1>4, <2>3 DEF SampleInv, SampleIsNearlyTrue
    <3>5. waiting <= waiting + sample.taken /\ waiting <= waiting + sample.missed
      BY <1>5, <2>2
    <3>6. SampleInv'
      BY <1>2, <2>1, <3>2, <3>4, <3>5 DEF SampleInv
    <3>7. QED
      BY <1>3, <3>3, <3>6 DEF WatchInv
  <2>4. CASE sample.at = "half" /\ sample' = NoSample /\ gauge' = Published(active)
    <3>1. gauge' = [sample EXCEPT !.at = "out", !.part = sample.part + active, !.ended = 0]
      BY <2>4 DEF Published
    <3>2. /\ gauge'.part = sample.part + active
          /\ gauge'.low = sample.low /\ gauge'.high = sample.high
          /\ gauge'.missed = sample.missed /\ gauge'.taken = sample.taken
      BY <2>1, <3>1 DEF Samples
    <3>3. sample.part <= waiting + sample.taken /\ waiting <= sample.part + sample.missed
      BY <1>1, <2>1, <2>4 DEF SampleInv
    <3>4. /\ sample.part + active <= sample.high + sample.taken
          /\ sample.low <= (sample.part + active) + sample.missed
      BY <1>5, <2>1, <2>2, <3>3
    <3>5. SampleIsNearlyTrue'
      BY <3>2, <3>4 DEF SampleIsNearlyTrue
    <3>6. WatchTyped'
      BY <1>1, <1>2, <1>4, <2>4 DEF WatchTyped
    <3>7. SampleInv'
      BY <1>4, <2>4, <3>5 DEF SampleInv
    <3>8. QED
      BY <1>3, <3>6, <3>7 DEF WatchInv
  <2>5. QED
    BY <2>1, <2>3, <2>4 DEF WaitingFirst
<1>8. QED
  BY <1>6, <1>7

LEMMA AdjustersKeep ==
    ASSUME WatchInv, NEW a \in Adjusters, BeginAdjust(a) \/ Adjust(a)
    PROVE  WatchInv'
<1>1. WatchTyped /\ SampleInv /\ PressureInv
  BY DEF WatchInv
<1>2. look = "adjust" /\ UNCHANGED <<look, waiting, active, sample, gauge, peak, check>>
  BY <1>1 DEF BeginAdjust, Adjust, WatchTyped
<1>3. lastDepth' \in Nat
  BY <1>1 DEF BeginAdjust, Adjust, WatchTyped, Readings, Depth
<1>4. DOMAIN adjust' = Adjusters
  BY <1>1 DEF BeginAdjust, Adjust, WatchTyped
<1>5. WatchTyped'
  BY <1>1, <1>2, <1>3, <1>4 DEF WatchTyped, NoSample
<1>6. SampleInv'
  BY <1>1, <1>2 DEF SampleInv, SampleIsNearlyTrue, NoSample
<1>7. PressureInv'
  BY <1>1, <1>2 DEF PressureInv, PressureIsReal
<1>8. QED
  BY <1>5, <1>6, <1>7 DEF WatchInv

LEMMA CheckBegins ==
    ASSUME WatchInv, NEW kind \in {"shed", "alarm"}, BeginCheck(kind)
    PROVE  WatchInv'
<1>1. WatchTyped /\ SampleInv /\ PressureInv
  BY DEF WatchInv
<1>2. /\ look = "check"
      /\ check' = [at |-> 1, kind |-> kind, under |-> FALSE, verdict |-> 0]
      /\ UNCHANGED <<look, waiting, active, sample, gauge, lastDepth, peak, concurrency, adjust>>
  BY DEF BeginCheck
<1>3. WatchTyped'
  BY <1>1, <1>2 DEF WatchTyped, NoSample, Checks
<1>4. SampleInv'
  BY <1>1, <1>2 DEF SampleInv, SampleIsNearlyTrue, NoSample
<1>5. PressureInv'
  BY <1>1, <1>2 DEF PressureInv, PressureIsReal
<1>6. QED
  BY <1>3, <1>4, <1>5 DEF WatchInv

\* A load is shed only under pressure or at a high level.
LEMMA SheddingNeedsPressure ==
    ASSUME NEW under \in BOOLEAN, NEW level
    PROVE  /\ ShedPercentage(under, level) \in Nat
           /\ ShedPercentage(under, level) > 0 => under \/ level \in {"high", "critical"}
<1>1. CASE ~under /\ level \notin {"high", "critical"}
  <2>1. level # "critical" /\ level # "high"
    BY <1>1
  <2>2. ShedPercentage(under, level) = 0
    BY <1>1, <2>1, Zenon DEF ShedPercentage
  <2>3. QED
    BY <2>2
<1>2. CASE under \/ level \in {"high", "critical"}
  <2>1. ShedPercentage(under, level) \in {25, 10, 5}
    BY <1>2 DEF ShedPercentage
  <2>2. QED
    BY <1>2, <2>1
<1>3. QED
  BY <1>1, <1>2

LEMMA CheckKeeps ==
    ASSUME WatchInv, CheckReads
    PROVE  WatchInv'
<1>1. WatchTyped /\ SampleInv /\ PressureInv
  BY DEF WatchInv
<1>2. /\ check \in Checks /\ check.at \in 1..3
      /\ waiting \in Nat /\ active \in Nat /\ lastDepth \in Nat /\ peak \in Nat
      /\ Threshold \in Nat \ {0}
      /\ UNCHANGED <<look, waiting, active, sample, gauge, concurrency, adjust>>
  BY <1>1, WatchAssumption DEF WatchTyped, CheckReads
<1>3. look = "check" /\ waiting + active <= peak /\ lastDepth <= peak
  <2>1. check.at # 0
    BY <1>2
  <2>2. QED
    BY <1>1, <2>1 DEF PressureInv
<1>4. PICK depth \in Readings :
        /\ lastDepth' = depth
        /\ check' = [check EXCEPT
               !.at = IF @ = 3 THEN 0 ELSE @ + 1,
               !.under = IF check.at = 2 THEN UnderPressure(depth) ELSE @,
               !.verdict = IF check.at < 3 THEN @
                           ELSE IF check.kind = "shed" THEN ShedPercentage(check.under, Level(depth))
                           ELSE IF UnderPressure(depth) THEN 100 ELSE 0]
        /\ peak' = IF check.at = 3 /\ check'.verdict = 0 THEN Max({depth, Depth}) ELSE peak
  BY DEF CheckReads
<1>5. depth \in Nat /\ depth <= peak /\ Depth \in Nat /\ Depth <= peak /\ Depth = waiting + active
  BY <1>2, <1>3, <1>4 DEF Readings, Depth
<1>6. \A n \in Nat : depth * 100 >= n => peak * 100 >= n
  BY <1>2, <1>5, PeakGrows
<1>7. UnderPressure(depth) \in BOOLEAN /\ (UnderPressure(depth) => peak * 100 >= 75 * Threshold)
  <2>1. UnderPressure(depth) <=> depth * 100 >= 75 * Threshold
    BY DEF UnderPressure
  <2>2. 75 * Threshold \in Nat
    BY <1>2
  <2>3. UnderPressure(depth) \in BOOLEAN
    BY DEF UnderPressure
  <2>4. QED
    BY <1>6, <2>1, <2>2, <2>3, Zenon
<1>8. SampleInv'
  BY <1>1, <1>2 DEF SampleInv, SampleIsNearlyTrue, NoSample
<1>9. peak' \in Nat /\ waiting + active <= peak' /\ depth <= peak'
  BY <1>2, <1>4, <1>5, MaxTwo
<1>10. CASE check.at \in 1..2
  <2>1. check.at < 3 /\ check.at # 3 /\ check.at # 0 /\ check.at + 1 \in 1..3
    BY <1>10
  <2>2. /\ check'.at = check.at + 1 /\ check'.kind = check.kind /\ check'.verdict = check.verdict
        /\ check'.under = (IF check.at = 2 THEN UnderPressure(depth) ELSE check.under)
        /\ peak' = peak
        /\ check' \in Checks
    <3> DEFINE u == IF check.at = 2 THEN UnderPressure(depth) ELSE check.under
    <3>1. check.under \in BOOLEAN
      BY <1>2 DEF Checks
    <3>2. u \in BOOLEAN
      BY <1>7, <3>1, Zenon
    <3>3. check' = [check EXCEPT !.at = check.at + 1, !.under = u]
      BY <1>2, <1>4, <2>1 DEF Checks
    <3>4. peak' = peak
      BY <1>4, <2>1
    <3> HIDE DEF u
    <3>5. /\ check'.at = check.at + 1 /\ check'.kind = check.kind
          /\ check'.verdict = check.verdict /\ check'.under = u
          /\ check' \in Checks
      <4>1. check.at + 1 \in 0..3
        BY <2>1
      <4>2. QED
        BY <1>2, <3>2, <3>3, <4>1 DEF Checks
    <3>6. QED
      BY <3>4, <3>5 DEF u
  <2>3. check.under => peak * 100 >= 75 * Threshold
    BY <1>1, <2>1 DEF PressureInv
  <2>4. check'.under => peak' * 100 >= 75 * Threshold
    BY <1>7, <2>2, <2>3, Zenon
  <2>5. check'.at # 0
    BY <2>1, <2>2
  <2>6. PressureInv'
    BY <1>2, <1>3, <1>4, <1>9, <2>4, <2>5 DEF PressureInv, PressureIsReal
  <2>7. WatchTyped'
    BY <1>1, <1>2, <1>4, <1>5, <1>9, <2>2 DEF WatchTyped, NoSample
  <2>8. QED
    BY <1>8, <2>6, <2>7 DEF WatchInv
<1>11. CASE check.at = 3
  <2>1. PICK v \in Nat :
          /\ v = IF check.kind = "shed" THEN ShedPercentage(check.under, Level(depth))
                 ELSE IF UnderPressure(depth) THEN 100 ELSE 0
          /\ v > 0 => peak * 100 >= (IF check.kind = "shed" THEN 50 ELSE 75) * Threshold
    <3>1. CASE check.kind = "shed"
      <4>1. check.under \in BOOLEAN
        BY <1>2 DEF Checks
      <4>2. /\ ShedPercentage(check.under, Level(depth)) \in Nat
            /\ ShedPercentage(check.under, Level(depth)) > 0 =>
                 check.under \/ Level(depth) \in {"high", "critical"}
        BY <4>1, SheddingNeedsPressure
      <4>3. ASSUME check.under PROVE peak * 100 >= 50 * Threshold
        <5>1. check.at # 0
          BY <1>11
        <5>2. peak * 100 >= 75 * Threshold
          BY <1>1, <4>3, <5>1 DEF PressureInv
        <5>3. QED
          BY <1>2, <5>2
      <4>4. ASSUME Level(depth) \in {"high", "critical"} PROVE peak * 100 >= 50 * Threshold
        <5>1. depth * 100 >= 50 * Threshold
          BY <1>5, <4>4, LevelFacts
        <5>2. 50 * Threshold \in Nat
          BY <1>2
        <5>3. QED
          BY <1>6, <5>1, <5>2, Zenon
      <4>5. ShedPercentage(check.under, Level(depth)) > 0 => peak * 100 >= 50 * Threshold
        BY <4>2, <4>3, <4>4
      <4>6. QED
        BY <3>1, <4>2, <4>5
    <3>2. CASE check.kind # "shed"
      <4>1. CASE UnderPressure(depth)
        <5>1. peak * 100 >= 75 * Threshold
          BY <1>7, <4>1, Zenon
        <5>2. QED
          BY <3>2, <4>1, <5>1
      <4>2. CASE ~UnderPressure(depth)
        BY <3>2, <4>2
      <4>3. QED
        BY <4>1, <4>2
    <3>3. QED
      BY <3>1, <3>2
  <2>2. check' = [check EXCEPT !.at = 0, !.verdict = v]
    <3>1. check.at = 3 /\ ~(check.at < 3) /\ check.at # 2
      BY <1>11
    <3>2. QED
      BY <1>2, <1>4, <2>1, <3>1 DEF Checks
  <2>3. /\ check' \in Checks
        /\ check'.at = 0 /\ check'.verdict = v /\ check'.kind = check.kind
    <3>1. v \in Nat /\ 0 \in 0..3
      OBVIOUS
    <3>2. QED
      BY <1>2, <2>2, <3>1 DEF Checks
  <2>4. check'.verdict > 0 => peak' = peak
    BY <1>4, <2>1, <2>3
  <2>5. PressureIsReal'
    BY <2>1, <2>3, <2>4 DEF PressureIsReal
  <2>6. PressureInv'
    BY <1>2, <1>3, <1>4, <1>9, <2>3, <2>5 DEF PressureInv
  <2>7. WatchTyped'
    BY <1>1, <1>2, <1>4, <1>5, <1>9, <2>3 DEF WatchTyped, NoSample
  <2>8. QED
    BY <1>8, <2>6, <2>7 DEF WatchInv
<1>12. QED
  BY <1>2, <1>10, <1>11

(***************************************************************************)
(* However many jobs move while the queue is looked at: the depth the      *)
(* collector publishes is off by no more than what moved while it counted, *)
(* and jobs are shed, or an alarm raised, only if the queue was that deep  *)
(* since the last reading that found no reason to.                         *)
(***************************************************************************)
THEOREM LoadIsJudgedTruly == WatchSpec => [](SampleIsNearlyTrue /\ PressureIsReal)
<1>1. WatchInit => WatchInv
  <2>1. ASSUME WatchInit PROVE WatchInv
    <3>1. WatchTyped
      BY <2>1 DEF WatchInit, WatchTyped, Checks
    <3>2. SampleInv
      BY <2>1 DEF WatchInit, SampleInv, SampleIsNearlyTrue
    <3>3. PressureInv
      BY <2>1 DEF WatchInit, PressureInv, PressureIsReal
    <3>4. QED
      BY <3>1, <3>2, <3>3 DEF WatchInv
  <2>2. QED
    BY <2>1
<1>2. WatchInv /\ [WatchNext]_watchVars => WatchInv'
  <2> SUFFICES ASSUME WatchInv, [WatchNext]_watchVars PROVE WatchInv'
    OBVIOUS
  <2>1. CASE AddJob \/ TakeJob \/ EndJob \/ RetryJob
    BY <2>1, QueueKeeps
  <2>2. CASE BeginSample \/ Sample
    BY <2>2, SamplesKeep
  <2>3. CASE CheckReads
    BY <2>3, CheckKeeps
  <2>4. CASE \E kind \in {"shed", "alarm"} : BeginCheck(kind)
    BY <2>4, CheckBegins
  <2>5. CASE \E a \in Adjusters : BeginAdjust(a) \/ Adjust(a)
    BY <2>5, AdjustersKeep
  <2>6. CASE UNCHANGED watchVars
    BY <2>6 DEF watchVars, WatchInv, WatchTyped, SampleInv, PressureInv, SampleIsNearlyTrue,
                PressureIsReal, NoSample
  <2>7. QED
    BY <2>1, <2>2, <2>3, <2>4, <2>5, <2>6 DEF WatchNext
<1>3. WatchInv => SampleIsNearlyTrue /\ PressureIsReal
  BY DEF WatchInv, SampleInv, PressureInv
<1>4. QED
  BY <1>1, <1>2, <1>3, PTL DEF WatchSpec
=============================================================================
