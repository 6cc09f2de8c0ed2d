----------------------- MODULE MomentumExecutorProofs -----------------------
(***************************************************************************)
(* Proofs about MomentumExecutor, for any number of components and any     *)
(* number of iterations: the inductive invariant IInv, the safety          *)
(* properties that follow from it, and the safety part of the refinement   *)
(* of MomentumPredictor.                                                   *)
(*                                                                         *)
(* ChannelOK and HasRoom stay unexpanded wherever functions or records     *)
(* appear: what send and recv do to the channel is AppendFacts and         *)
(* TailFacts.                                                              *)
(***************************************************************************)
EXTENDS MomentumExecutor, FiniteSetTheorems, SequenceTheorems, WellFoundedInduction,
        TLAPS

\* The loops of the main thread stay within their arrays, and None is sent only by a stop.
Control ==
  /\ pc \in {"spawning", "dispatching"} => turn \in Component
  /\ pc = "spawning" => ~finished
  /\ pc \notin {"stopping", "joining", "closed"} => ~trouble
  /\ pc = "spawning" => \A c \in Component : worker[c] = IF c < turn THEN "receiving"
                                                        ELSE "unspawned"
  /\ \A c \in Component : command[c].tag = "quit" =>
       \/ pc \in {"joining", "closed"}
       \/ pc = "stopping" /\ c < turn

\* A job is the present call's, wherever it is, and so is its result.
Fresh ==
  /\ \A c \in Component : InChannel(c) => command[c] = JobOf(c, round, request[c])
  /\ \A c \in Component : AtWorker(c) => job[c] = JobOf(c, round, request[c])
  /\ NoStaleResult
  /\ pc \in {"dispatching", "collecting"} =>
       \A c \in Component : outcomes[c] # "none" => outcomes[c] = request[c]

\* While no solve has failed, the workers still to be sent a command are receiving.
Ready ==
  /\ pc = "idle" /\ reply.status # "failed" => \A c \in Component : worker[c] = "receiving"
  /\ pc = "dispatching" => \A c \in Component : turn <= c => worker[c] = "receiving"
  /\ pc = "stopping" /\ finished /\ reply.status # "failed" =>
       \A c \in Component : turn <= c => worker[c] = "receiving"

\* During a solve only a worker whose component panics leaves its loop.
Healthy ==
  /\ \A c \in Component : InChannel(c) => worker[c] = "receiving"
  /\ \A c \in Component : InResults(c) /\ request[c] # "panic" => worker[c] = "receiving"
  /\ pc \in {"dispatching", "collecting"} =>
       \A c \in Component : outcomes[c] # "none" /\ request[c] # "panic" => worker[c] = "receiving"

\* The worker that unwinds is the one whose solve panicked.
Unwinds ==
  \A c \in Component : /\ worker[c] = "reporting" => VerdictOf(c) # "panic"
                       /\ worker[c] = "unwinding" => VerdictOf(c) = "panic"

\* The components whose outcome solve still waits for.
Unanswered == {c \in Component : outcomes[c] = "none"}

\* solve waits for exactly as many results as components are unanswered.
Counted ==
  /\ pc = "dispatching" => pending = turn /\ Unanswered = Component
  /\ pc = "collecting" => pending = Cardinality(Unanswered)

IInv == TypeOK /\ Control /\ OneJobEach /\ Fresh /\ Ready /\ Healthy /\ Unwinds /\ Counted
        /\ CleanStop
-----------------------------------------------------------------------------
\* A set of numbers that is not empty has a least element.
LEMMA LeastNumber ==
  ASSUME NEW S, S \subseteq Nat, S # {}
  PROVE  \E m \in S : \A k \in S : m <= k
<1> DEFINE Less == {p \in Nat \X Nat : p[1] < p[2]}
<1>1. OpToRel(<, Nat) = Less
  BY DEF OpToRel
<1>2. IsWellFoundedOn(Less, Nat)
  BY <1>1, NatLessThanWellFounded, Zenon
<1> HIDE DEF Less
<1>3. \E m \in S : \A k \in S : ~(<<k, m>> \in Less)
  BY <1>2, WFMin, Zenon
<1>4. \A k, m \in S : <<k, m>> \in Less <=> k < m
  BY DEF Less
<1> HIDE DEF Less
<1>5. \E m \in S : \A k \in S : ~(k < m)
  BY <1>3, <1>4
<1> QED
  BY <1>5

\* What send does to the result channel.
LEMMA AppendFacts ==
  ASSUME NEW S, NEW s \in Seq(S), NEW e \in S
  PROVE  /\ Append(s, e) \in Seq(S)
         /\ Len(Append(s, e)) = Len(s) + 1
         /\ \E last : /\ last \notin DOMAIN s
                     /\ DOMAIN Append(s, e) = DOMAIN s \cup {last}
                     /\ Append(s, e)[last] = e
                     /\ \A i \in DOMAIN s : Append(s, e)[i] = s[i]
<1>1. Append(s, e) \in Seq(S) /\ Len(Append(s, e)) = Len(s) + 1
  BY AppendProperties
<1>2. DOMAIN s = 1 .. Len(s) /\ Len(s) \in Nat
  OBVIOUS
<1>3. DOMAIN Append(s, e) = 1 .. Len(s) + 1
  BY <1>1
<1>4. DOMAIN Append(s, e) = DOMAIN s \cup {Len(s) + 1} /\ Len(s) + 1 \notin DOMAIN s
  BY <1>2, <1>3
<1>5. Append(s, e)[Len(s) + 1] = e /\ \A i \in 1 .. Len(s) : Append(s, e)[i] = s[i]
  BY AppendProperties
<1> QED
  BY <1>1, <1>2, <1>4, <1>5

\* What recv does to the result channel.
LEMMA TailFacts ==
  ASSUME NEW S, NEW s \in Seq(S), s # <<>>
  PROVE  /\ Tail(s) \in Seq(S)
         /\ Len(Tail(s)) <= Len(s)
         /\ 1 \in DOMAIN s /\ s[1] = Head(s) /\ Head(s) \in S
         /\ \A i \in DOMAIN Tail(s) : /\ i \in Nat /\ i # 0
                                     /\ i + 1 \in DOMAIN s
                                     /\ Tail(s)[i] = s[i + 1]
         /\ \A j \in DOMAIN s : j = 1 \/ (j \in Nat /\ j - 1 \in DOMAIN Tail(s))
<1>1. Tail(s) \in Seq(S) /\ Len(Tail(s)) = Len(s) - 1 /\ Len(s) \in Nat /\ Len(s) >= 1
  BY HeadTailProperties
<1>2. DOMAIN s = 1 .. Len(s) /\ DOMAIN Tail(s) = 1 .. Len(s) - 1
  BY <1>1
<1>3. s[1] = Head(s) /\ Head(s) \in S
  BY HeadTailProperties
<1>4. \A i \in 1 .. Len(s) - 1 : Tail(s)[i] = s[i + 1]
  BY <1>1
<1> QED
  BY <1>1, <1>2, <1>3, <1>4

\* A command of each kind is what its tag says.
LEMMA CommandKinds ==
  /\ Empty.tag = "empty" /\ Quit.tag = "quit"
  /\ Empty # Quit
  /\ \A j \in Job : j.tag = "job" /\ j # Empty /\ j # Quit
  /\ \A c \in Component, r \in 0 .. MaxIterations, v \in Serial!Verdict :
       /\ JobOf(c, r, v) \in Job
       /\ JobOf(c, r, v).tag = "job"
       /\ JobOf(c, r, v).component = c
       /\ JobOf(c, r, v).round = r
       /\ JobOf(c, r, v).verdict = v
<1>1. Empty.tag = "empty" /\ Quit.tag = "quit"
  BY DEF Empty, Quit
<1>2. Empty # Quit
  BY <1>1
<1>3. \A j \in Job : j.tag = "job"
  BY DEF Job
<1>4. \A j \in Job : j # Empty /\ j # Quit
  BY <1>1, <1>3
<1>5. \A c \in Component, r \in 0 .. MaxIterations, v \in Serial!Verdict :
       /\ JobOf(c, r, v) \in Job
       /\ JobOf(c, r, v).tag = "job"
       /\ JobOf(c, r, v).component = c
       /\ JobOf(c, r, v).round = r
       /\ JobOf(c, r, v).verdict = v
  BY DEF Job, JobOf
<1> QED
  BY <1>1, <1>2, <1>3, <1>4, <1>5

\* Initially no worker runs and nothing is in flight.
LEMMA InitIInv == Init => IInv
<1> SUFFICES ASSUME Init PROVE IInv
  OBVIOUS
<1> USE NAssumption, MaxIterationsAssumption
<1>a. ChannelOK
  <2>1. results = <<>>
    BY DEF Init
  <2> QED
    BY <2>1 DEF ChannelOK
<1>e. DOMAIN results = {}
  BY DEF Init
<1>b. /\ pc = "spawning" /\ turn = 0 /\ pending = 0 /\ round = 0 /\ reply = Serial!NoReply
      /\ worker = [c \in Component |-> "unspawned"]
      /\ command = [c \in Component |-> Empty]
      /\ job = [c \in Component |-> JobOf(c, 0, "report")]
      /\ outcomes = [c \in Component |-> "none"]
      /\ request = [c \in Component |-> "report"]
      /\ handles = {} /\ finished = FALSE /\ trouble = FALSE
  BY Zenon DEF Init
<1>c. 0 \in Component /\ 0 \in 0 .. MaxIterations /\ 0 \in 0 .. N /\ "report" \in Serial!Verdict
  BY DEF Serial!Verdict, Component
<1>d. \A c \in Component : ~InChannel(c) /\ ~AtWorker(c) /\ ~InResults(c) /\ ~Awaited(c)
  BY <1>b, <1>e, CommandKinds DEF InChannel, AtWorker, InResults, Awaited
<1>1. TypeOK
  <2>1. job \in [Component -> Job]
    BY <1>b, <1>c, CommandKinds
  <2>2. reply \in Serial!Reply
    BY <1>b, <1>c DEF Serial!Reply, Serial!NoReply, Serial!Component, Component
  <2> QED
    BY <2>1, <2>2, <1>a, <1>b, <1>c DEF TypeOK
<1>2. Control
  BY <1>b, <1>c, CommandKinds DEF Control, Component
<1>3. OneJobEach
  BY <1>d, <1>e DEF OneJobEach
<1>4. Fresh
  BY <1>b, <1>d, <1>e DEF Fresh, NoStaleResult
<1>5. Ready /\ Unwinds
  BY <1>b DEF Ready, Unwinds
<1>6. Healthy
  BY <1>b, <1>d DEF Healthy
<1>7. Counted /\ CleanStop
  BY <1>b DEF Counted, CleanStop
<1> QED
  BY <1>1, <1>2, <1>3, <1>4, <1>5, <1>6, <1>7 DEF IInv

\* Every result names a component.
LEMMA ResultComponents ==
  ASSUME TypeOK
  PROVE  \A i \in DOMAIN results : results[i].component \in Component
<1>1. \A i \in DOMAIN results : results[i] \in Outcome
  BY DEF TypeOK, ChannelOK
<1>2. \A o \in Outcome : o.component \in Component
  BY DEF Outcome
<1> QED
  BY <1>1, <1>2

\* Outside a solve no job exists anywhere.
LEMMA NothingInFlight ==
  ASSUME IInv, pc \notin {"dispatching", "collecting"}
  PROVE  \A c \in Component : ~InChannel(c) /\ ~AtWorker(c) /\ ~InResults(c)
BY DEF IInv, OneJobEach, Awaited

\* A step that does not touch the result channel keeps it within its capacity.
LEMMA ChannelKept ==
  ASSUME ChannelOK, results' = results
  PROVE  ChannelOK'
BY DEF ChannelOK

\* A step outside a solve that puts no job anywhere leaves nothing in flight.
LEMMA OutsideSolve ==
  ASSUME IInv,
         pc \notin {"dispatching", "collecting"}, pc' \notin {"dispatching", "collecting"},
         UNCHANGED <<job, results, request, round>>,
         \A c \in Component : (InChannel(c)' => InChannel(c)) /\ (AtWorker(c)' => AtWorker(c))
  PROVE  OneJobEach' /\ Fresh' /\ Healthy' /\ Unwinds' /\ Counted'
<1>1. \A c \in Component : ~InChannel(c)' /\ ~AtWorker(c)' /\ ~InResults(c)'
  <2>1. \A c \in Component : InResults(c)' <=> InResults(c)
    BY DEF InResults
  <2> QED
    BY <2>1, NothingInFlight
<1>2. \A c \in Component : ~Awaited(c)'
  BY DEF Awaited
<1>3. OneJobEach'
  BY <1>1, <1>2 DEF OneJobEach, IInv
<1>4. Fresh'
  BY <1>1 DEF Fresh, NoStaleResult, IInv
<1>5. Healthy'
  BY <1>1 DEF Healthy
<1>6. Unwinds'
  BY <1>1 DEF Unwinds, AtWorker
<1>7. Counted'
  BY DEF Counted
<1> QED
  BY <1>3, <1>4, <1>5, <1>6, <1>7

\* A step that moves no job and answers no component keeps every job in one place.
LEMMA JobsKept ==
  ASSUME OneJobEach, results' = results,
         \A c \in Component : /\ Awaited(c)' <=> Awaited(c)
                              /\ InChannel(c)' <=> InChannel(c)
                              /\ AtWorker(c)' <=> AtWorker(c)
  PROVE  OneJobEach'
<1>1. \A c \in Component : InResults(c)' <=> InResults(c)
  BY DEF InResults
<1> QED
  BY <1>1 DEF OneJobEach

\* The next worker starts.
LEMMA SpawnIInv ==
  ASSUME IInv, Spawn
  PROVE  IInv'
<1> USE NAssumption, MaxIterationsAssumption DEF IInv, TypeOK, Component, Spawn, solveVars, closeVars
<1>1. TypeOK'
  BY ChannelKept DEF Control
<1>2. Control'
  BY DEF Control
<1>3. OneJobEach' /\ Fresh' /\ Healthy' /\ Unwinds' /\ Counted'
  <2>1. \A c \in Component : (InChannel(c)' => InChannel(c)) /\ (AtWorker(c)' => AtWorker(c))
    BY DEF InChannel, AtWorker
  <2> QED
    BY <2>1, OutsideSolve
<1>4. Ready'
  BY DEF Ready, Control
<1>5. CleanStop'
  BY DEF CleanStop, Control
<1> QED
  BY <1>1, <1>2, <1>3, <1>4, <1>5 DEF IInv

\* A worker cannot be started.
LEMMA SpawnFailsIInv ==
  ASSUME IInv, SpawnFails
  PROVE  IInv'
<1> USE NAssumption, MaxIterationsAssumption DEF IInv, TypeOK, Component, SpawnFails, solveVars, closeVars
<1>1. TypeOK'
  BY ChannelKept
<1>2. Control'
  BY DEF Control
<1>3. OneJobEach' /\ Fresh' /\ Healthy' /\ Unwinds' /\ Counted'
  <2>1. \A c \in Component : (InChannel(c)' => InChannel(c)) /\ (AtWorker(c)' => AtWorker(c))
    BY DEF InChannel, AtWorker
  <2> QED
    BY <2>1, OutsideSolve
<1>4. Ready'
  BY DEF Ready, Control
<1>5. CleanStop'
  BY DEF CleanStop, Control
<1> QED
  BY <1>1, <1>2, <1>3, <1>4, <1>5 DEF IInv

\* A call starts with nothing in flight and every worker receiving.
LEMMA CallIInv ==
  ASSUME IInv, NEW v \in [Component -> Serial!Verdict], Call(v)
  PROVE  IInv'
<1> USE NAssumption, MaxIterationsAssumption DEF IInv, TypeOK, Component, Call, closeVars
<1>a. \A c \in Component : ~InChannel(c) /\ ~AtWorker(c) /\ ~InResults(c)
  BY NothingInFlight
<1>b. \A c \in Component : ~InChannel(c)' /\ ~AtWorker(c)' /\ ~InResults(c)' /\ ~Awaited(c)'
  BY <1>a DEF InChannel, AtWorker, InResults, Awaited
<1>c. DOMAIN results = {}
  <2>1. \A i \in DOMAIN results : results[i].component \in Component
    BY ResultComponents
  <2> QED
    BY <2>1, <1>a DEF InResults
<1>1. TypeOK'
  BY ChannelKept
<1>2. Control'
  BY DEF Control
<1>3. OneJobEach'
  BY <1>b, <1>c DEF OneJobEach
<1>4. Fresh'
  BY <1>b, <1>c DEF Fresh, NoStaleResult
<1>5. Ready'
  BY DEF Ready
<1>6. Healthy'
  BY <1>b DEF Healthy
<1>7. Unwinds'
  BY <1>b DEF Unwinds, AtWorker
<1>8. Counted' /\ CleanStop'
  BY DEF Counted, Unanswered, CleanStop
<1> QED
  BY <1>1, <1>2, <1>3, <1>4, <1>5, <1>6, <1>7, <1>8 DEF IInv

\* A job is sent to the next worker, which is receiving: no result of it is awaited yet.
LEMMA DispatchIInv ==
  ASSUME IInv, Dispatch
  PROVE  IInv'
<1> USE NAssumption, MaxIterationsAssumption, CommandKinds DEF IInv, TypeOK, Component
<1>a. /\ pc = "dispatching"
      /\ turn \in Component /\ worker[turn] = "receiving"
      /\ outcomes[turn] = "none" /\ ~Awaited(turn)
      /\ pending = turn
  <2>1. pc = "dispatching" /\ turn \in Component
    BY DEF Dispatch, Control
  <2>2. worker[turn] = "receiving"
    BY <2>1 DEF Ready
  <2>3. pending = turn /\ outcomes[turn] = "none"
    <3>1. turn \in Unanswered /\ pending = turn
      BY <2>1 DEF Counted
    <3> QED
      BY <3>1 DEF Unanswered
  <2>4. ~Awaited(turn)
    BY <2>1 DEF Awaited
  <2> QED
    BY <2>1, <2>2, <2>3, <2>4
<1>b. ~InChannel(turn) /\ ~AtWorker(turn) /\ ~InResults(turn)
  BY <1>a DEF OneJobEach
<1>c. /\ command' = [command EXCEPT ![turn] = JobOf(turn, round, request[turn])]
      /\ pending' = pending + 1
      /\ pc = "dispatching"
      /\ IF turn + 1 = N THEN pc' = "collecting" /\ turn' = 0
                        ELSE turn' = turn + 1 /\ pc' = pc
      /\ UNCHANGED <<outcomes, worker, job, results, request, round, reply, closeVars>>
  BY <1>a DEF Dispatch, Listening
<1>d. JobOf(turn, round, request[turn]) \in Job
  BY <1>a
<1>1. TypeOK'
  BY <1>a, <1>c, <1>d, ChannelKept DEF closeVars
<1>2. Control'
  BY <1>a, <1>c, <1>d DEF Control, closeVars
<1>3. OneJobEach'
  <2>1. \A c \in Component : /\ InChannel(c)' <=> InChannel(c) \/ c = turn
                             /\ AtWorker(c)' <=> AtWorker(c)
                             /\ InResults(c)' <=> InResults(c)
    BY <1>a, <1>c, <1>d DEF InChannel, AtWorker, InResults
  <2>2. \A c \in Component : Awaited(c)' <=> Awaited(c) \/ c = turn
    BY <1>a, <1>c DEF Awaited, Counted, Unanswered
  <2> QED
    BY <2>1, <2>2, <1>b, <1>c DEF OneJobEach
<1>4. Fresh'
  BY <1>a, <1>b, <1>c, <1>d DEF Fresh, NoStaleResult, InChannel, AtWorker, JobOf
<1>5. Ready'
  BY <1>a, <1>c DEF Ready
<1>6. Healthy'
  <2>1. \A c \in Component : /\ InChannel(c)' <=> InChannel(c) \/ c = turn
                             /\ InResults(c)' <=> InResults(c)
    BY <1>a, <1>c, <1>d DEF InChannel, InResults
  <2> QED
    BY <2>1, <1>a, <1>c DEF Healthy
<1>7. Unwinds'
  BY <1>c DEF Unwinds, VerdictOf
<1>8. Counted'
  <2>1. Cardinality(Component) = N
    BY FS_Interval
  <2>2. Unanswered' = Unanswered /\ Unanswered = Component
    BY <1>a, <1>c DEF Counted, Unanswered
  <2> QED
    BY <2>1, <2>2, <1>a, <1>c DEF Counted
<1>9. CleanStop'
  BY <1>c DEF CleanStop, closeVars
<1> QED
  BY <1>1, <1>2, <1>3, <1>4, <1>5, <1>6, <1>7, <1>8, <1>9 DEF IInv

\* The executor is shut down or dropped.
LEMMA CloseIInv ==
  ASSUME IInv, Close
  PROVE  IInv'
<1> USE NAssumption, MaxIterationsAssumption DEF IInv, TypeOK, Component, Close, solveVars, closeVars
<1>1. TypeOK'
  BY ChannelKept
<1>2. Control'
  BY DEF Control
<1>3. OneJobEach' /\ Fresh' /\ Healthy' /\ Unwinds' /\ Counted'
  <2>1. \A c \in Component : (InChannel(c)' => InChannel(c)) /\ (AtWorker(c)' => AtWorker(c))
    BY DEF InChannel, AtWorker
  <2> QED
    BY <2>1, OutsideSolve
<1>4. Ready'
  BY DEF Ready
<1>5. CleanStop'
  BY DEF CleanStop
<1> QED
  BY <1>1, <1>2, <1>3, <1>4, <1>5 DEF IInv

\* A worker that still receives is told to leave; none has left unless a solve failed.
LEMMA SendQuitIInv ==
  ASSUME IInv, SendQuit
  PROVE  IInv'
<1> USE NAssumption, MaxIterationsAssumption DEF IInv, TypeOK, Component, SendQuit, solveVars, closeVars
<1>1. TypeOK'
  BY ChannelKept DEF Control
<1>2. Control'
  BY CommandKinds DEF Control
<1>3. OneJobEach' /\ Fresh' /\ Healthy' /\ Unwinds' /\ Counted'
  <2>1. \A c \in Component : (InChannel(c)' => InChannel(c)) /\ (AtWorker(c)' => AtWorker(c))
    BY CommandKinds DEF InChannel, AtWorker
  <2> QED
    BY <2>1, OutsideSolve
<1>4. Ready'
  BY DEF Ready
<1>5. CleanStop'
  BY DEF CleanStop, Ready, Listening
<1> QED
  BY <1>1, <1>2, <1>3, <1>4, <1>5 DEF IInv

\* Every worker has been told.
LEMMA StartJoiningIInv ==
  ASSUME IInv, StartJoining
  PROVE  IInv'
<1> USE NAssumption, MaxIterationsAssumption DEF IInv, TypeOK, Component, StartJoining, solveVars, closeVars
<1>1. TypeOK'
  BY ChannelKept
<1>2. Control'
  BY DEF Control
<1>3. OneJobEach' /\ Fresh' /\ Healthy' /\ Unwinds' /\ Counted'
  <2>1. \A c \in Component : (InChannel(c)' => InChannel(c)) /\ (AtWorker(c)' => AtWorker(c))
    BY DEF InChannel, AtWorker
  <2> QED
    BY <2>1, OutsideSolve
<1>4. Ready'
  BY DEF Ready
<1>5. CleanStop'
  BY DEF CleanStop
<1> QED
  BY <1>1, <1>2, <1>3, <1>4, <1>5 DEF IInv

\* A worker that has left is joined.
LEMMA JoinIInv ==
  ASSUME IInv, Join
  PROVE  IInv'
<1> USE NAssumption, MaxIterationsAssumption DEF IInv, TypeOK, Component, Join, solveVars, closeVars
<1>1. TypeOK'
  BY ChannelKept
<1>2. Control'
  BY DEF Control
<1>3. OneJobEach' /\ Fresh' /\ Healthy' /\ Unwinds' /\ Counted'
  <2>1. \A c \in Component : (InChannel(c)' => InChannel(c)) /\ (AtWorker(c)' => AtWorker(c))
    BY DEF InChannel, AtWorker
  <2> QED
    BY <2>1, OutsideSolve
<1>4. Ready'
  BY DEF Ready
<1>5. CleanStop'
  BY DEF CleanStop
<1> QED
  BY <1>1, <1>2, <1>3, <1>4, <1>5 DEF IInv

\* Every worker is joined.
LEMMA ClosedIInv ==
  ASSUME IInv, Closed
  PROVE  IInv'
<1> USE NAssumption, MaxIterationsAssumption DEF IInv, TypeOK, Component, Closed, solveVars, closeVars
<1>1. TypeOK'
  BY ChannelKept
<1>2. Control'
  BY DEF Control
<1>3. OneJobEach' /\ Fresh' /\ Healthy' /\ Unwinds' /\ Counted'
  <2>1. \A c \in Component : (InChannel(c)' => InChannel(c)) /\ (AtWorker(c)' => AtWorker(c))
    BY DEF InChannel, AtWorker
  <2> QED
    BY <2>1, OutsideSolve
<1>4. Ready'
  BY DEF Ready
<1>5. CleanStop'
  BY DEF CleanStop
<1> QED
  BY <1>1, <1>2, <1>3, <1>4, <1>5 DEF IInv

\* A worker receives its job, or is told to leave.
LEMMA TakeIInv ==
  ASSUME IInv, NEW k \in Component, Take(k)
  PROVE  IInv'
<1> USE NAssumption, MaxIterationsAssumption, CommandKinds DEF IInv, TypeOK, Component
<1>a. /\ worker[k] = "receiving"
      /\ command' = [command EXCEPT ![k] = Empty]
      /\ UNCHANGED <<pc, turn, results, outcomes, pending, request, round, reply, handles,
                     finished, trouble>>
  BY DEF Take, solveVars, closeVars
<1>b. pc \notin {"spawning"} \/ k < turn
  BY <1>a DEF Control
<1>1. CASE command[k].tag = "job"
  <2>a. /\ InChannel(k) /\ command[k] \in Job /\ command[k] = JobOf(k, round, request[k])
        /\ Awaited(k) /\ ~InResults(k)
    BY <1>1, <1>a DEF InChannel, Fresh, OneJobEach
  <2>b. /\ worker' = [worker EXCEPT ![k] = "solving"]
        /\ job' = [job EXCEPT ![k] = command[k]]
    BY <1>1 DEF Take
  <2>c. pc \in {"dispatching", "collecting"} /\ (pc = "dispatching" => k < turn) /\ outcomes[k] = "none"
    BY <2>a DEF Awaited
  <2>1. TypeOK'
    BY <1>a, <2>a, <2>b, CommandKinds, ChannelKept
  <2>2. Control'
    BY <1>a, <2>b, <2>c DEF Control
  <2>3. OneJobEach'
    <3>1. \A c \in Component : /\ InChannel(c)' <=> InChannel(c) /\ c # k
                               /\ AtWorker(c)' <=> AtWorker(c) \/ c = k
                               /\ InResults(c)' <=> InResults(c)
                               /\ Awaited(c)' <=> Awaited(c)
      BY <1>a, <2>b DEF InChannel, AtWorker, InResults, Awaited
    <3> QED
      BY <3>1, <1>a, <2>a DEF OneJobEach
  <2>4. Fresh'
    BY <1>a, <2>a, <2>b DEF Fresh, NoStaleResult, InChannel, AtWorker
  <2>5. Ready'
    BY <1>a, <2>b, <2>c DEF Ready
  <2>6. Healthy'
    BY <1>a, <2>a, <2>b, <2>c DEF Healthy, InChannel, InResults
  <2>7. Unwinds'
    BY <1>a, <2>b DEF Unwinds, VerdictOf
  <2>8. Counted' /\ CleanStop'
    BY <1>a DEF Counted, Unanswered, CleanStop
  <2> QED
    BY <2>1, <2>2, <2>3, <2>4, <2>5, <2>6, <2>7, <2>8 DEF IInv
<1>2. CASE command[k].tag # "job"
  <2>a. command[k].tag = "quit" /\ command[k] = Quit
    BY <1>2 DEF Take
  <2>b. worker' = [worker EXCEPT ![k] = "exiting"] /\ job' = job
    BY <1>2 DEF Take
  <2>c. pc \in {"joining", "closed"} \/ (pc = "stopping" /\ k < turn)
    BY <2>a DEF Control
  <2>d. \A c \in Component : ~InChannel(c) /\ ~AtWorker(c) /\ ~InResults(c)
    BY <2>c, NothingInFlight
  <2>1. TypeOK'
    BY <1>a, <2>b, ChannelKept
  <2>2. Control'
    BY <1>a, <2>b, <2>c DEF Control
  <2>3. \A c \in Component : ~InChannel(c)' /\ ~AtWorker(c)' /\ ~InResults(c)' /\ ~Awaited(c)'
    BY <1>a, <2>b, <2>c, <2>d DEF InChannel, AtWorker, InResults, Awaited
  <2>4. OneJobEach'
    BY <2>3, <1>a DEF OneJobEach
  <2>5. Fresh'
    BY <1>a, <2>c, <2>3 DEF Fresh, NoStaleResult
  <2>6. Ready'
    BY <1>a, <2>b, <2>c DEF Ready
  <2>7. Healthy'
    BY <1>a, <2>c, <2>3 DEF Healthy
  <2>8. Unwinds'
    BY <1>a, <2>b DEF Unwinds, VerdictOf
  <2>9. Counted' /\ CleanStop'
    BY <1>a DEF Counted, Unanswered, CleanStop
  <2> QED
    BY <2>1, <2>2, <2>4, <2>5, <2>6, <2>7, <2>8, <2>9 DEF IInv
<1> QED
  BY <1>1, <1>2

\* A worker finishes its solve, or panics in it.
LEMMA ComputeIInv ==
  ASSUME IInv, NEW k \in Component, Compute(k)
  PROVE  IInv'
<1> USE DEF IInv, TypeOK, Component
<1>a. /\ AtWorker(k)
      /\ worker' = [worker EXCEPT ![k] = IF VerdictOf(k) = "panic" THEN "unwinding" ELSE "reporting"]
      /\ UNCHANGED <<pc, turn, command, job, results, outcomes, pending, request, round, reply,
                     handles, finished, trouble>>
  BY DEF Compute, AtWorker, solveVars, closeVars
<1>b. Awaited(k) /\ ~InChannel(k) /\ ~InResults(k)
  BY <1>a DEF OneJobEach
<1>c. pc \in {"dispatching", "collecting"} /\ (pc = "dispatching" => k < turn) /\ outcomes[k] = "none"
  BY <1>b DEF Awaited
<1>d. \A c \in Component : /\ Awaited(c)' <=> Awaited(c)
                           /\ InChannel(c)' <=> InChannel(c)
                           /\ AtWorker(c)' <=> AtWorker(c)
                           /\ InResults(c)' <=> InResults(c)
  BY <1>a DEF Awaited, InChannel, AtWorker, InResults
<1>1. TypeOK'
  BY <1>a, ChannelKept
<1>2. Control'
  BY <1>a, <1>c DEF Control
<1>3. OneJobEach'
  BY <1>a, <1>d, JobsKept
<1>4. Fresh'
  BY <1>a, <1>d DEF Fresh, NoStaleResult
<1>5. Ready'
  BY <1>a, <1>c DEF Ready
<1>6. Healthy'
  BY <1>a, <1>b, <1>c, <1>d DEF Healthy
<1>7. Unwinds'
  BY <1>a DEF Unwinds, VerdictOf
<1>8. Counted' /\ CleanStop'
  BY <1>a DEF Counted, Unanswered, CleanStop
<1> QED
  BY <1>1, <1>2, <1>3, <1>4, <1>5, <1>6, <1>7, <1>8 DEF IInv

\* A worker sends the one result its job is answered with.
LEMMA ReportIInv ==
  ASSUME IInv, NEW k \in Component, Report(k)
  PROVE  IInv'
<1> USE NAssumption, MaxIterationsAssumption DEF IInv, TypeOK, Component
<1>a. /\ AtWorker(k)
      /\ HasRoom
      /\ results' = Append(results, OutcomeOf(k))
      /\ worker' = [worker EXCEPT ![k] = IF @ = "unwinding" THEN "exiting" ELSE "receiving"]
      /\ UNCHANGED <<pc, turn, command, job, outcomes, pending, request, round, reply, handles,
                     finished, trouble>>
  BY DEF Report, AtWorker, solveVars, closeVars
<1>b. Awaited(k) /\ ~InChannel(k) /\ ~InResults(k) /\ job[k] = JobOf(k, round, request[k])
  BY <1>a DEF OneJobEach, Fresh
<1>c. OutcomeOf(k) = [component |-> k, round |-> round, verdict |-> request[k]]
  BY <1>b, CommandKinds DEF OutcomeOf, VerdictOf
<1>d. OutcomeOf(k) \in Outcome
  BY <1>c DEF Outcome
<1>e. /\ ChannelOK'
      /\ \E x : /\ x \notin DOMAIN results
               /\ DOMAIN results' = DOMAIN results \cup {x}
               /\ results'[x] = OutcomeOf(k)
               /\ \A i \in DOMAIN results : results'[i] = results[i]
  <2> HIDE DEF TypeOK, Component
  <2>1. results \in Seq(Outcome) /\ Len(results) \in Nat /\ Len(results) < N
    BY <1>a DEF TypeOK, ChannelOK, HasRoom, ResultCapacity
  <2>2. results' \in Seq(Outcome) /\ Len(results') = Len(results) + 1
    BY <1>a, <1>d, <2>1, AppendFacts
  <2>3. ChannelOK'
    BY <2>1, <2>2 DEF ChannelOK
  <2> QED
    BY <1>a, <1>d, <2>1, <2>3, AppendFacts
<1>x. PICK last : /\ last \notin DOMAIN results
                  /\ DOMAIN results' = DOMAIN results \cup {last}
                  /\ results'[last] = OutcomeOf(k)
                  /\ \A i \in DOMAIN results : results'[i] = results[i]
  BY <1>e
<1>f. /\ pc \in {"dispatching", "collecting"}
      /\ pc = "dispatching" => k < turn
      /\ outcomes[k] = "none"
  BY <1>b DEF Awaited
<1>g. \A c \in Component : InResults(c)' <=> InResults(c) \/ c = k
  BY <1>c, <1>x DEF InResults
<1>1. TypeOK'
  BY <1>a, <1>e
<1>2. Control'
  BY <1>a, <1>f DEF Control
<1>3. OneJobEach'
  <2>1. \A c \in Component : /\ InChannel(c)' <=> InChannel(c)
                             /\ AtWorker(c)' <=> AtWorker(c) /\ c # k
                             /\ Awaited(c)' <=> Awaited(c)
    BY <1>a DEF InChannel, AtWorker, Awaited
  <2>2. \A i, j \in DOMAIN results' :
          results'[i].component = results'[j].component => i = j
    <3>1. results'[last].component = k
      BY <1>c, <1>x
    <3>2. \A i \in DOMAIN results : results'[i].component # k
      BY <1>b, <1>x DEF InResults
    <3>3. \A i, j \in DOMAIN results : results'[i].component = results'[j].component => i = j
      BY <1>x DEF OneJobEach
    <3> QED
      BY <3>1, <3>2, <3>3, <1>x
  <2> QED
    BY <2>1, <1>g, <2>2, <1>a, <1>b DEF OneJobEach
<1>4. Fresh'
  <2>1. NoStaleResult'
    BY <1>a, <1>c, <1>x DEF NoStaleResult, Fresh
  <2> QED
    BY <2>1, <1>a DEF Fresh, InChannel, AtWorker
<1>5. Ready'
  BY <1>a, <1>f DEF Ready
<1>6. Healthy'
  <2>1. request[k] = VerdictOf(k)
    BY <1>b, CommandKinds DEF VerdictOf
  <2>2. request[k] # "panic" => worker'[k] = "receiving"
    BY <1>a, <2>1 DEF Unwinds, AtWorker
  <2> QED
    BY <1>g, <2>2, <1>a, <1>b, <1>f DEF Healthy, InChannel
<1>7. Unwinds'
  BY <1>a DEF Unwinds, VerdictOf
<1>8. Counted' /\ CleanStop'
  BY <1>a DEF Counted, Unanswered, CleanStop
<1> QED
  BY <1>1, <1>2, <1>3, <1>4, <1>5, <1>6, <1>7, <1>8 DEF IInv

\* A worker thread ends.
LEMMA ExitIInv ==
  ASSUME IInv, NEW k \in Component, Exit(k)
  PROVE  IInv'
<1> USE DEF IInv, TypeOK, Component
<1>a. /\ worker[k] = "exiting" /\ ~AtWorker(k)
      /\ worker' = [worker EXCEPT ![k] = "gone"]
      /\ UNCHANGED <<pc, turn, command, job, results, outcomes, pending, request, round, reply,
                     handles, finished, trouble>>
  BY DEF Exit, AtWorker, solveVars, closeVars
<1>b. \A c \in Component : /\ Awaited(c)' <=> Awaited(c)
                           /\ InChannel(c)' <=> InChannel(c)
                           /\ AtWorker(c)' <=> AtWorker(c)
                           /\ InResults(c)' <=> InResults(c)
  BY <1>a DEF Awaited, InChannel, AtWorker, InResults
<1>1. TypeOK'
  BY <1>a, ChannelKept
<1>2. Control'
  BY <1>a DEF Control
<1>3. OneJobEach'
  BY <1>a, <1>b, JobsKept
<1>4. Fresh'
  BY <1>a, <1>b DEF Fresh, NoStaleResult
<1>5. Ready'
  BY <1>a DEF Ready
<1>6. Healthy'
  BY <1>a, <1>b DEF Healthy
<1>7. Unwinds'
  BY <1>a DEF Unwinds, VerdictOf
<1>8. Counted' /\ CleanStop'
  BY <1>a DEF Counted, Unanswered, CleanStop
<1> QED
  BY <1>1, <1>2, <1>3, <1>4, <1>5, <1>6, <1>7, <1>8 DEF IInv

\* The answer of the serial solve is a reply, and it is good only if every component is.
LEMMA SerialReplyFacts ==
  ASSUME NEW v \in [Component -> Serial!Verdict]
  PROVE  /\ Serial!SerialReply(v) \in Serial!Reply
         /\ Serial!SerialReply(v).status # "none"
         /\ Serial!SerialReply(v).status # "failed" => \A c \in Component : v[c] = "report"
<1> USE NAssumption DEF Component, Serial!Component
<1>0. 0 \in Component
  OBVIOUS
<1>1. CASE \A c \in Component : v[c] = "report"
  <2>1. Serial!SerialReply(v) = Serial!Reports
    BY <1>1 DEF Serial!SerialReply
  <2> QED
    BY <2>1, <1>0, <1>1 DEF Serial!Reports, Serial!Reply
<1>2. CASE \E c \in Component : v[c] # "report"
  <2> DEFINE failing == {c \in Component : v[c] # "report"}
             d == CHOOSE x \in Component : Serial!FirstFailing(v, x)
  <2>0. failing \subseteq Nat /\ failing # {}
    BY <1>2
  <2>1. \E c \in failing : \A e \in failing : c <= e
    BY <2>0, LeastNumber
  <2>2. \E c \in Component : Serial!FirstFailing(v, c)
    BY <2>1 DEF Serial!FirstFailing
  <2>3. d \in Component /\ Serial!FirstFailing(v, d)
    BY <2>2
  <2>4. Serial!SerialReply(v) = Serial!Failure(d, v[d])
    BY <1>2 DEF Serial!SerialReply
  <2> HIDE DEF d
  <2>5. v[d] \in {"error", "panic"}
    BY <2>3 DEF Serial!FirstFailing, Serial!Verdict
  <2> QED
    BY <2>3, <2>4, <2>5 DEF Serial!Failure, Serial!Reply
<1> QED
  BY <1>1, <1>2

\* There are finitely many components.
LEMMA UnansweredFinite == IsFiniteSet(Unanswered)
<1>1. IsFiniteSet(Component)
  BY FS_Interval, NAssumption DEF Component
<1>2. Unanswered \subseteq Component
  BY DEF Unanswered
<1> QED
  BY <1>1, <1>2, FS_Subset

\* A component awaited by the receive loop still has a thread or a result.
LEMMA NeverDisconnected ==
  ASSUME IInv, pc = "collecting", pending > 0, results = <<>>
  PROVE  \E c \in Component : worker[c] # "gone"
<1>1. DOMAIN results = {}
  OBVIOUS
<1>2. pending = Cardinality(Unanswered)
  BY DEF IInv, Counted
<1>3. Unanswered # {}
  BY <1>2, UnansweredFinite, FS_EmptySet
<1>4. PICK c \in Component : outcomes[c] = "none"
  BY <1>3 DEF Unanswered
<1>5. Awaited(c) /\ ~InResults(c)
  BY <1>1, <1>4 DEF Awaited, InResults
<1>6. InChannel(c) \/ AtWorker(c)
  BY <1>5 DEF IInv, OneJobEach
<1>7. InChannel(c) => worker[c] = "receiving"
  BY DEF IInv, Healthy
<1> QED
  BY <1>6, <1>7 DEF AtWorker

\* The result at the head of the channel is one solve waits for.
LEMMA HeadIsAwaited ==
  ASSUME IInv, results # <<>>
  PROVE  LET o == Head(results)
         IN  /\ o.component \in Component
             /\ InResults(o.component)
             /\ Awaited(o.component)
             /\ ~InChannel(o.component) /\ ~AtWorker(o.component)
             /\ o.verdict = request[o.component]
<1> DEFINE o == Head(results)
<1>1. results \in Seq(Outcome)
  BY DEF IInv, TypeOK, ChannelOK
<1>2. 1 \in DOMAIN results /\ o = results[1] /\ o \in Outcome
  BY <1>1, TailFacts
<1> HIDE DEF o
<1>3. o.component \in Component
  BY <1>2 DEF Outcome
<1>4. InResults(o.component)
  BY <1>2 DEF InResults
<1>5. Awaited(o.component) /\ ~InChannel(o.component) /\ ~AtWorker(o.component)
  BY <1>3, <1>4 DEF IInv, OneJobEach
<1>6. o.verdict = request[o.component]
  BY <1>2 DEF IInv, Fresh, NoStaleResult
<1> QED
  BY <1>3, <1>4, <1>5, <1>6 DEF o

\* A received result is stored where its component had none.
LEMMA CollectIInv ==
  ASSUME IInv, Collect
  PROVE  IInv'
<1> USE NAssumption, MaxIterationsAssumption DEF IInv, TypeOK, Component
<1> DEFINE o == Head(results)
           k == o.component
<1>a. pc = "collecting" /\ pending > 0 /\ results # <<>>
  BY NeverDisconnected DEF Collect
<1>b. /\ k \in Component /\ Awaited(k) /\ outcomes[k] = "none"
      /\ ~InChannel(k) /\ ~AtWorker(k) /\ o.verdict = request[k] /\ InResults(k)
  BY <1>a, HeadIsAwaited DEF Awaited
<1>c. /\ results' = Tail(results)
      /\ outcomes' = [outcomes EXCEPT ![k] = o.verdict]
      /\ pending' = pending - 1
      /\ UNCHANGED <<pc, turn, worker, command, job, request, round, reply, handles, finished,
                     trouble>>
  BY <1>a, <1>b DEF Collect, closeVars
<1>d. /\ ChannelOK'
      /\ 1 \in DOMAIN results /\ results[1] = o
      /\ \A i \in DOMAIN results' : /\ i \in Nat /\ i # 0
                                   /\ i + 1 \in DOMAIN results
                                   /\ results'[i] = results[i + 1]
      /\ \A j \in DOMAIN results : j = 1 \/ (j \in Nat /\ j - 1 \in DOMAIN results')
  <2> HIDE DEF TypeOK, k
  <2>1. ChannelOK
    BY DEF TypeOK
  <2>2. results \in Seq(Outcome)
    BY <2>1 DEF ChannelOK
  <2>3. Len(results') <= Len(results) /\ results' \in Seq(Outcome) /\ Len(results) <= N
    BY <1>a, <1>c, <2>1, <2>2, TailFacts DEF ChannelOK
  <2>4. ChannelOK'
    BY <2>2, <2>3, NAssumption DEF ChannelOK
  <2> QED
    BY <1>a, <1>c, <2>2, <2>4, TailFacts
<1> HIDE DEF o, k
<1>e. o.verdict # "none" /\ o.verdict \in Serial!Verdict
  BY <1>b DEF Serial!Verdict
<1>f. \A c \in Component : InResults(c)' <=> InResults(c) /\ c # k
  <2> SUFFICES ASSUME NEW c \in Component PROVE InResults(c)' <=> InResults(c) /\ c # k
    OBVIOUS
  <2>1. results[1].component = k
    BY <1>d DEF k
  <2>2. ASSUME NEW i \in DOMAIN results', results'[i].component = c
        PROVE  InResults(c) /\ c # k
    <3>1. i + 1 \in DOMAIN results /\ i + 1 # 1 /\ results[i + 1].component = c
      BY <1>d, <2>2
    <3> QED
      BY <3>1, <1>d, <2>1 DEF InResults, OneJobEach
  <2>3. ASSUME NEW j \in DOMAIN results, results[j].component = c, c # k
        PROVE  InResults(c)'
    <3>1. j # 1 /\ j - 1 \in DOMAIN results' /\ j \in Nat
      BY <1>d, <2>1, <2>3
    <3>2. results'[j - 1] = results[(j - 1) + 1] /\ (j - 1) + 1 = j
      BY <1>d, <3>1
    <3> QED
      BY <3>1, <3>2, <2>3 DEF InResults
  <2> QED
    BY <2>2, <2>3 DEF InResults
<1>1. TypeOK'
  BY <1>a, <1>b, <1>c, <1>d, <1>e
<1>2. Control'
  BY <1>a, <1>c DEF Control
<1>3. OneJobEach'
  <2>1. \A c \in Component : /\ InChannel(c)' <=> InChannel(c)
                             /\ AtWorker(c)' <=> AtWorker(c)
                             /\ Awaited(c)' <=> Awaited(c) /\ c # k
    BY <1>a, <1>b, <1>c, <1>e DEF InChannel, AtWorker, Awaited
  <2>2. ASSUME NEW i \in DOMAIN results', NEW j \in DOMAIN results',
               results'[i].component = results'[j].component
        PROVE  i = j
    <3>1. i + 1 \in DOMAIN results /\ j + 1 \in DOMAIN results /\ i \in Nat /\ j \in Nat
      BY <1>d
    <3>2. results[i + 1].component = results[j + 1].component
      BY <1>d, <2>2
    <3>3. i + 1 = j + 1
      BY <3>1, <3>2 DEF OneJobEach
    <3> QED
      BY <3>1, <3>3
  <2> QED
    BY <2>1, <2>2, <1>b, <1>f DEF OneJobEach
<1>4. Fresh'
  <2>1. NoStaleResult'
    BY <1>c, <1>d DEF NoStaleResult, Fresh
  <2> QED
    BY <2>1, <1>a, <1>b, <1>c DEF Fresh, InChannel, AtWorker
<1>5. Ready'
  BY <1>a, <1>c DEF Ready
<1>6. Healthy'
  BY <1>a, <1>b, <1>c, <1>f DEF Healthy, InChannel
<1>7. Unwinds' /\ CleanStop'
  BY <1>c DEF Unwinds, VerdictOf, CleanStop
<1>8. Counted'
  <2>1. Unanswered' = Unanswered \ {k} /\ k \in Unanswered
    BY <1>b, <1>c, <1>e DEF Unanswered
  <2>2. IsFiniteSet(Unanswered)
    BY UnansweredFinite
  <2>3. Cardinality(Unanswered \ {k}) = Cardinality(Unanswered) - 1
    BY <2>1, <2>2, FS_RemoveElement
  <2> QED
    BY <2>1, <2>3, <1>a, <1>c DEF Counted
<1> QED
  BY <1>1, <1>2, <1>3, <1>4, <1>5, <1>6, <1>7, <1>8 DEF IInv

\* When the receive loop ends every component has answered and the answer is the serial one.
LEMMA SelectAnswers ==
  ASSUME IInv, Select
  PROVE  /\ Unanswered = {}
         /\ outcomes = request
         /\ reply' = Serial!SerialReply(request)
<1> USE NAssumption DEF IInv, TypeOK, Component
<1>1. IsFiniteSet(Unanswered)
  BY UnansweredFinite
<1>2. Unanswered = {}
  BY <1>1, FS_EmptySet DEF Select, Counted
<1>3. \A c \in Component : outcomes[c] # "none" /\ outcomes[c] = request[c]
  BY <1>2 DEF Unanswered, Fresh, Select
<1>4. outcomes = request
  BY <1>3 DEF Serial!Verdict
<1>5. reply' = Serial!SerialReply(outcomes)
  BY <1>3 DEF Select, Answer, Selected
<1> QED
  BY <1>2, <1>4, <1>5

\* Every component has answered: the call returns.
LEMMA SelectIInv ==
  ASSUME IInv, Select
  PROVE  IInv'
<1> USE NAssumption, MaxIterationsAssumption DEF IInv, TypeOK, Component
<1>a. /\ pc = "collecting" /\ pc' = "idle" /\ turn' = 0
      /\ UNCHANGED <<worker, command, job, results, outcomes, pending, request, round, handles,
                     finished, trouble>>
  BY DEF Select, Answer, closeVars
<1>b. /\ reply' \in Serial!Reply
      /\ reply'.status # "failed" => \A c \in Component : request[c] = "report"
  BY SelectAnswers, SerialReplyFacts
<1>c. \A c \in Component : outcomes[c] # "none" /\ ~Awaited(c)
  BY SelectAnswers DEF Unanswered, Awaited
<1>1. TypeOK'
  BY <1>a, <1>b, ChannelKept
<1>2. Control'
  BY <1>a DEF Control
<1>3. OneJobEach'
  BY <1>a, <1>c DEF OneJobEach, Awaited, InChannel, AtWorker, InResults
<1>4. Fresh'
  BY <1>a DEF Fresh, NoStaleResult, InChannel, AtWorker
<1>5. Ready'
  BY <1>a, <1>b, <1>c DEF Ready, Healthy
<1>6. Healthy'
  BY <1>a DEF Healthy, InChannel, InResults
<1>7. Unwinds' /\ Counted'
  BY <1>a DEF Unwinds, VerdictOf, Counted
<1>8. CleanStop'
  BY <1>a DEF CleanStop, Control
<1> QED
  BY <1>1, <1>2, <1>3, <1>4, <1>5, <1>6, <1>7, <1>8 DEF IInv

-----------------------------------------------------------------------------
\* Every step of every thread keeps the invariant.
LEMMA StepIInv == IInv /\ [Next]_vars => IInv'
<1> SUFFICES ASSUME IInv, [Next]_vars PROVE IInv'
  OBVIOUS
<1>1. ASSUME NEW v \in [Component -> Serial!Verdict], Call(v) PROVE IInv'
  BY <1>1, CallIInv
<1>2. CASE Dispatch \/ Collect \/ Select
  BY <1>2, DispatchIInv, CollectIInv, SelectIInv
<1>3. CASE Spawn \/ SpawnFails
  BY <1>3, SpawnIInv, SpawnFailsIInv
<1>4. CASE Close \/ SendQuit \/ StartJoining \/ Join \/ Closed
  BY <1>4, CloseIInv, SendQuitIInv, StartJoiningIInv, JoinIInv, ClosedIInv
<1>5. ASSUME NEW c \in Component, Worker(c) PROVE IInv'
  BY <1>5, TakeIInv, ComputeIInv, ReportIInv, ExitIInv DEF Worker
<1>6. CASE UNCHANGED vars
  <2>1. \A c \in Component : /\ Awaited(c)' <=> Awaited(c)
                             /\ InChannel(c)' <=> InChannel(c)
                             /\ AtWorker(c)' <=> AtWorker(c)
                             /\ InResults(c)' <=> InResults(c)
    BY <1>6 DEF vars, Awaited, InChannel, AtWorker, InResults
  <2>2. TypeOK' /\ OneJobEach'
    BY <1>6, <2>1, ChannelKept, JobsKept DEF IInv, TypeOK, vars
  <2>3. Control' /\ Ready' /\ Unwinds' /\ Counted' /\ CleanStop'
    BY <1>6 DEF IInv, vars, Control, Ready, Unwinds, VerdictOf, Counted, Unanswered, CleanStop
  <2>4. Fresh' /\ Healthy'
    BY <1>6, <2>1 DEF IInv, vars, Fresh, NoStaleResult, Healthy
  <2> QED
    BY <2>2, <2>3, <2>4 DEF IInv
<1> QED
  BY <1>1, <1>2, <1>3, <1>4, <1>5, <1>6 DEF Next, Main, Solve, Stop, Finished

\* IInv holds in every reachable state, whatever the number of workers and calls.
THEOREM Invariance == Safety => []IInv
<1>1. Init => IInv
  BY InitIInv
<1>2. IInv /\ [Next]_vars => IInv'
  BY StepIInv
<1> QED
  BY <1>1, <1>2, PTL DEF Safety

\* The executor's state keeps its type, and no more than N results are ever in the channel.
THEOREM TypeCorrect == Safety => []TypeOK
<1>1. IInv => TypeOK
  BY DEF IInv
<1> QED
  BY <1>1, Invariance, PTL

\* For any number of workers: every job is in one place until its result is stored
\* and a solve leaves nothing behind.
THEOREM JobsAccountedFor == Safety => []OneJobEach
<1>1. IInv => OneJobEach
  BY DEF IInv
<1> QED
  BY <1>1, Invariance, PTL

\* A result received by solve is of the present equation.
THEOREM ResultsFresh == Safety => []NoStaleResult
<1>1. IInv => NoStaleResult
  BY DEF IInv, Fresh
<1> QED
  BY <1>1, Invariance, PTL

\* shutdown after successful solves reports no error.
THEOREM StopsCleanly == Safety => []CleanStop
<1>1. IInv => CleanStop
  BY DEF IInv
<1> QED
  BY <1>1, Invariance, PTL

-----------------------------------------------------------------------------
\* The workers that were started are the first ones, and those not joined yet are held.
Started == {c \in Component : worker[c] # "unspawned"}
Held ==
  /\ \A c, d \in Component : c < d /\ d \in Started => c \in Started
  /\ pc \notin {"joining", "closed"} => handles = Started
  /\ pc \in {"joining", "closed"} =>
       /\ handles = {c \in Started : turn <= c}
       /\ \A c \in Started : c < turn => worker[c] = "gone"
  /\ pc = "closed" => handles = {}

\* A step that neither starts a worker nor joins one, and brings none back.
LEMMA HeldKept ==
  ASSUME IInv, Held, handles' = handles, turn' = turn \/ pc \notin {"joining", "closed"},
         pc' = pc \/ {pc, pc'} \cap {"joining", "closed"} = {},
         \A c \in Component : /\ worker'[c] = "unspawned" <=> worker[c] = "unspawned"
                              /\ worker[c] = "gone" => worker'[c] = "gone"
  PROVE  Held'
<1>1. Started' = Started
  BY DEF Started
<1> QED
  BY <1>1 DEF Held, Started

LEMMA StepHeld == IInv /\ Held /\ [Next]_vars => Held'
<1> SUFFICES ASSUME IInv, Held, [Next]_vars PROVE Held'
  OBVIOUS
<1>1. /\ N \in Nat \ {0} /\ Component = 0 .. N - 1 /\ turn \in 0 .. N
      /\ worker \in [Component -> {"unspawned", "receiving", "solving", "reporting", "unwinding",
                                   "exiting", "gone"}]
  BY NAssumption DEF IInv, TypeOK, Component
<1>2. CASE Spawn
  <2>1. /\ pc = "spawning" /\ turn \in Component /\ handles = Started /\ pc' # "joining" /\ pc' # "closed"
        /\ handles' = handles \cup {turn} /\ worker' = [worker EXCEPT ![turn] = "receiving"]
    BY <1>2 DEF Spawn, IInv, Control, Held
  <2>2. Started' = Started \cup {turn} /\ \A c \in Component : c \in Started <=> c < turn
    BY <1>1, <2>1 DEF Started, IInv, Control
  <2> QED
    BY <1>1, <2>1, <2>2 DEF Held
<1>3. CASE SpawnFails \/ Close \/ SendQuit \/ Dispatch \/ Collect \/ Select
  BY <1>3, HeldKept DEF SpawnFails, Close, SendQuit, Dispatch, Collect, Select, Answer, closeVars
<1>4. ASSUME NEW v \in [Component -> Serial!Verdict], Call(v) PROVE Held'
  BY <1>4, HeldKept DEF Call, closeVars
<1>5. CASE StartJoining
  <2>1. /\ worker' = worker /\ handles' = handles /\ turn' = 0 /\ pc' = "joining" /\ handles = Started
    BY <1>5 DEF StartJoining, closeVars, Held
  <2>2. \A c \in Component : 0 <= c /\ ~(c < 0)
    BY <1>1
  <2> QED
    BY <2>1, <2>2 DEF Held, Started
<1>6. CASE Join
  <2>1. /\ worker' = worker /\ handles' = handles \ {turn} /\ turn' = turn + 1 /\ pc' = pc
        /\ pc = "joining" /\ turn \in handles /\ worker[turn] = "gone"
    BY <1>6 DEF Join
  <2>2. \A c \in Component : (turn + 1 <= c <=> turn <= c /\ c # turn) /\ (c < turn + 1 <=> c < turn \/ c = turn)
    BY <1>1
  <2> QED
    BY <2>1, <2>2 DEF Held, Started
<1>7. CASE Closed
  <2>1. /\ worker' = worker /\ handles' = handles /\ turn' = turn /\ pc = "joining" /\ pc' = "closed"
        /\ turn \notin handles /\ handles = {c \in Started : turn <= c}
    BY <1>7 DEF Closed, closeVars, Held
  <2>2. ASSUME NEW c \in Started
        PROVE  ~(turn <= c)
    <3>1. CASE turn = c
      BY <1>1, <2>1, <3>1
    <3>2. CASE turn < c
      <4>1. c \in Component /\ turn \in Component
        BY <1>1, <3>2 DEF Started
      <4>2. turn \in Started
        BY <3>2, <4>1 DEF Held
      <4> QED
        BY <1>1, <2>1, <4>2
    <3> QED
      BY <1>1, <3>1, <3>2 DEF Started
  <2> QED
    BY <2>1, <2>2 DEF Held, Started
<1>8. ASSUME NEW c \in Component, Worker(c) PROVE Held'
  BY <1>1, <1>8, HeldKept DEF Worker, Take, Compute, Report, Exit, closeVars
<1>9. CASE UNCHANGED vars
  BY <1>9, HeldKept DEF vars, closeVars
<1> QED
  BY <1>2, <1>3, <1>4, <1>5, <1>6, <1>7, <1>8, <1>9 DEF Next, Main, Solve, Stop, Finished

(***************************************************************************)
(* For any number of workers, started or not: when the executor is gone    *)
(* every thread is joined and the result channel is empty, after a panic   *)
(* and after a start that failed too.  (new, shutdown and drop)            *)
(***************************************************************************)
THEOREM EveryThreadJoined == Safety => []AllJoined
<1>1. Init => Held
  BY DEF Init, Held, Started
<1>2. IInv /\ Held /\ [Next]_vars => Held'
  BY StepHeld
<1>3. IInv /\ Held => AllJoined
  <2> SUFFICES ASSUME IInv, Held, pc = "closed" PROVE
        /\ handles = {}
        /\ \A c \in Component : worker[c] \in {"unspawned", "gone"}
        /\ results = <<>>
    BY DEF AllJoined
  <2>1. handles = {} /\ \A c \in Component : worker[c] \in {"unspawned", "gone"}
    <3>1. \A c \in Component : turn <= c \/ c < turn
      BY NAssumption DEF IInv, TypeOK, Component
    <3> QED
      BY <3>1 DEF Held, Started
  <2>2. results = <<>>
    <3>1. \A i \in DOMAIN results : FALSE
      BY NothingInFlight, ResultComponents DEF IInv, InResults
    <3>2. results \in Seq(Outcome)
      BY DEF IInv, TypeOK, ChannelOK
    <3>3. Len(results) \in Nat /\ DOMAIN results = 1 .. Len(results)
      BY <3>2
    <3>4. Len(results) = 0
      BY <3>1, <3>3
    <3> QED
      BY <3>2, <3>4, EmptySeq
  <2> QED
    BY <2>1, <2>2
<1> QED
  BY <1>1, <1>2, <1>3, Invariance, PTL DEF Safety

\* The results in the channel come from different workers, none from one that still
\* has its own to send: a channel of capacity N has room for it.
LEMMA RoomForEach == IInv => ResultHasRoom
<1> SUFFICES ASSUME IInv, NEW c \in Component, worker[c] \in {"reporting", "unwinding"}
             PROVE  HasRoom
  BY DEF ResultHasRoom
<1> DEFINE Sender == [i \in DOMAIN results |-> results[i].component]
           Others == Component \ {c}
<1>1. \A i \in DOMAIN results : results[i].component \in Others
  <2>1. ~InResults(c)
    BY DEF IInv, OneJobEach, AtWorker
  <2>2. TypeOK
    BY DEF IInv
  <2> QED
    BY <2>1, <2>2, ResultComponents DEF InResults
<1>2. \A i, j \in DOMAIN results : results[i].component = results[j].component => i = j
  BY DEF IInv, OneJobEach
<1>3. Sender \in Injection(DOMAIN results, Others)
  BY <1>1, <1>2 DEF Injection, IsInjective
<1>4. IsFiniteSet(Others) /\ Cardinality(Others) = N - 1
  <2>1. IsFiniteSet(Component) /\ Cardinality(Component) = N
    BY FS_Interval, NAssumption DEF Component
  <2> QED
    BY <2>1, FS_RemoveElement
<1>5. Cardinality(DOMAIN results) <= N - 1
  <2> HIDE DEF Others, Sender
  <2> QED
    BY <1>3, <1>4, FS_Injection
<1>6. Cardinality(DOMAIN results) = Len(results) /\ Len(results) \in Nat
  <2>1. ChannelOK
    BY DEF IInv, TypeOK
  <2>2. DOMAIN results = 1 .. Len(results) /\ Len(results) \in Nat
    BY <2>1 DEF ChannelOK
  <2>3. \A n \in Nat : Cardinality(1 .. n) = n
    BY FS_Interval
  <2> QED
    BY <2>2, <2>3, Zenon
<1> QED
  BY <1>5, <1>6, NAssumption DEF HasRoom, ResultCapacity

\* For any number of workers, a send of a result never blocks.
THEOREM SendsNeverBlock == Safety => []ResultHasRoom
BY RoomForEach, Invariance, PTL
-----------------------------------------------------------------------------
\* A step of the executor is a step of the serial predictor, or one its caller cannot see.
LEMMA StepRefines == IInv /\ [Next]_vars => [Serial!Next]_(Serial!vars)
<1> SUFFICES ASSUME IInv, [Next]_vars PROVE [Serial!Next]_(Serial!vars)
  OBVIOUS
<1> USE DEF Serial!vars, Phase
<1>1. CASE Spawn \/ SpawnFails
  <2>1. pc = "spawning" /\ pc' \in {"spawning", "idle", "stopping"} /\ UNCHANGED <<request, reply>>
    BY <1>1 DEF Spawn, SpawnFails, solveVars
  <2> QED
    BY <2>1 DEF Serial!Next, Serial!Start
<1>2. ASSUME NEW v \in [Component -> Serial!Verdict], Call(v) PROVE Serial!Next
  <2>1. Serial!Call(v)
    BY <1>2 DEF Call, Serial!Call
  <2> QED
    BY <2>1 DEF Serial!Next, Component, Serial!Component
<1>3. CASE Dispatch \/ Collect
  <2>1. Collect => results # <<>> /\ outcomes[Head(results).component] = "none"
    BY NeverDisconnected, HeadIsAwaited DEF Collect, Awaited
  <2>2. /\ pc \in {"dispatching", "collecting"} /\ pc' \in {"dispatching", "collecting"}
        /\ UNCHANGED <<request, reply>>
    BY <1>3, <2>1 DEF Dispatch, Collect
  <2> QED
    BY <2>2
<1>4. CASE Select
  <2>1. pc = "collecting" /\ pc' = "idle" /\ UNCHANGED request
    BY <1>4 DEF Select, Answer
  <2>2. reply' = Serial!SerialReply(request)
    BY <1>4, SelectAnswers
  <2>3. Serial!Return
    BY <2>1, <2>2 DEF Serial!Return
  <2> QED
    BY <2>3 DEF Serial!Next
<1>5. CASE Close
  <2>1. Serial!Close
    BY <1>5 DEF Close, Serial!Close, solveVars
  <2> QED
    BY <2>1 DEF Serial!Next
<1>6. CASE SendQuit \/ StartJoining \/ Join \/ Closed
  <2>1. /\ pc \in {"stopping", "joining"} /\ pc' \in {"stopping", "joining", "closed"}
        /\ UNCHANGED <<request, reply>>
    BY <1>6 DEF SendQuit, StartJoining, Join, Closed, solveVars
  <2> QED
    BY <2>1
<1>7. ASSUME NEW c \in Component, Worker(c) PROVE UNCHANGED <<pc, request, reply>>
  BY <1>7 DEF Worker, Take, Compute, Report, Exit, solveVars
<1>8. CASE UNCHANGED vars
  BY <1>8 DEF vars
<1> QED
  BY <1>1, <1>2, <1>3, <1>4, <1>5, <1>6, <1>7, <1>8 DEF Next, Main, Solve, Stop, Finished

\* The workers are invisible: whatever the interleaving, the loop is answered what the
\* serial solve of the components in index order answers (the safety part of SerialSpec).
THEOREM ImplementsSerial == Safety => Serial!Safety
<1>1. Init => Serial!Init
  BY DEF Init, Serial!Init, Phase, Component, Serial!Component
<1>2. IInv /\ [Next]_vars => [Serial!Next]_(Serial!vars)
  BY StepRefines
<1> QED
  BY <1>1, <1>2, Invariance, PTL DEF Safety, Serial!Safety
=============================================================================
