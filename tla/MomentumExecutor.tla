-------------------------- MODULE MomentumExecutor --------------------------
(***************************************************************************)
(* The parallel momentum predictor of flow.rs: MomentumComponentExecutor   *)
(* and its worker threads.  The main thread spawns one worker for each     *)
(* component, each with a command channel of capacity 1; all of them share *)
(* one result channel of capacity N.  A solve sends one job to each worker *)
(* and receives as many results as it sent jobs; shutdown sends None to    *)
(* each worker and joins it.                                               *)
(*                                                                         *)
(* One action is what a thread does between two operations on a channel or *)
(* on a join handle.  What a linear solve computes is abstracted to how it *)
(* ends, chosen by the caller's input when the call starts.                *)
(***************************************************************************)
EXTENDS Naturals, Sequences, FiniteSets

CONSTANTS N,              \* components, and workers: 3 in the code
          MaxIterations   \* max_simple_iterations: calls the loop may make

ASSUME NAssumption == N \in Nat \ {0}
ASSUME MaxIterationsAssumption == MaxIterations \in Nat

VARIABLES
  pc,        \* where the main thread is
  turn,      \* the component the main thread's loop is at
  worker,    \* where each worker thread is
  command,   \* the command channel of each worker: a buffer of one command
  job,       \* the job each worker last took
  results,   \* the result channel: a FIFO of outcomes
  outcomes,  \* solve: the outcome stored for each component, or "none"
  pending,   \* solve: jobs sent whose result has not been received
  request,   \* how each component of the present equation will end
  round,     \* solve calls so far: the loop's iteration
  reply,     \* what the last solve returned
  handles,   \* the components whose join handle is still held
  finished,  \* the executor's finished flag
  trouble    \* shutdown: has a first error been recorded

solveVars == <<outcomes, pending, request, round, reply>>
closeVars == <<handles, finished, trouble>>
vars == <<pc, turn, worker, command, job, results, outcomes, pending, request,
          round, reply, handles, finished, trouble>>

\* What the caller can tell of the executor's phase.
Phase == CASE pc = "spawning" -> "starting"
           [] pc = "idle" -> "ready"
           [] pc \in {"dispatching", "collecting"} -> "busy"
           [] OTHER -> "closed"

Serial == INSTANCE MomentumPredictor WITH phase <- Phase

Component == 0 .. N - 1

Empty == [tag |-> "empty"]
Quit  == [tag |-> "quit"]
JobOf(c, r, v) == [tag |-> "job", component |-> c, round |-> r, verdict |-> v]

Job == [tag : {"job"}, component : Component, round : 0 .. MaxIterations,
        verdict : Serial!Verdict]
Outcome == [component : Component, round : 0 .. MaxIterations, verdict : Serial!Verdict]

\* The capacity of the shared result channel.
ResultCapacity == N

\* A send on the result channel would not block.
HasRoom == Len(results) < ResultCapacity

\* The worker still owns the receiving end of its command channel.
Listening(c) == worker[c] \in {"receiving", "solving", "reporting", "unwinding", "exiting"}

Init == /\ pc = "spawning"
        /\ turn = 0
        /\ worker = [c \in Component |-> "unspawned"]
        /\ command = [c \in Component |-> Empty]
        /\ job = [c \in Component |-> JobOf(c, 0, "report")]
        /\ results = <<>>
        /\ outcomes = [c \in Component |-> "none"]
        /\ pending = 0
        /\ request = [c \in Component |-> "report"]
        /\ round = 0
        /\ reply = Serial!NoReply
        /\ handles = {}
        /\ finished = FALSE
        /\ trouble = FALSE
-----------------------------------------------------------------------------
(***************************************************************************)
(* new: the workers are started in component order.  When a thread cannot  *)
(* be started, those already running are stopped and joined before new     *)
(* returns the error.                                                      *)
(***************************************************************************)
Spawn == /\ pc = "spawning"
         /\ worker' = [worker EXCEPT ![turn] = "receiving"]
         /\ handles' = handles \cup {turn}
         /\ IF turn + 1 = N
            THEN pc' = "idle" /\ turn' = 0
            ELSE turn' = turn + 1 /\ UNCHANGED pc
         /\ UNCHANGED <<command, job, results, solveVars, finished, trouble>>

SpawnFails == /\ pc = "spawning"
              /\ pc' = "stopping"
              /\ turn' = 0
              /\ UNCHANGED <<worker, command, job, results, solveVars, closeVars>>

(***************************************************************************)
(* solve: one job to each worker in component order, then one receive for  *)
(* each job that was sent, then the answer in component order.  A worker   *)
(* that no longer listens counts as a failed component at once.            *)
(***************************************************************************)
Call(v) == /\ pc = "idle"
           /\ ~finished
           /\ reply.status # "failed"
           /\ round < MaxIterations
           /\ pc' = "dispatching"
           /\ turn' = 0
           /\ request' = v
           /\ round' = round + 1
           /\ outcomes' = [c \in Component |-> "none"]
           /\ pending' = 0
           /\ UNCHANGED <<worker, command, job, results, reply, closeVars>>

Dispatch == /\ pc = "dispatching"
            /\ IF Listening(turn)
               THEN /\ command[turn] = Empty
                    /\ command' = [command EXCEPT ![turn] = JobOf(turn, round, request[turn])]
                    /\ pending' = pending + 1
                    /\ UNCHANGED outcomes
               ELSE /\ outcomes' = [outcomes EXCEPT ![turn] = "error"]
                    /\ UNCHANGED <<command, pending>>
            /\ IF turn + 1 = N
               THEN pc' = "collecting" /\ turn' = 0
               ELSE turn' = turn + 1 /\ UNCHANGED pc
            /\ UNCHANGED <<worker, job, results, request, round, reply, closeVars>>

\* The loop over components 0..N-1 that turns the stored outcomes into the answer.
Missing == CHOOSE c \in Component : /\ outcomes[c] = "none"
                                   /\ \A d \in 0 .. c - 1 : outcomes[d] # "none"

\* Reporting the failure of the highest component instead of the lowest.
SelectedLast ==
  IF \A c \in Component : outcomes[c] = "report"
  THEN Serial!Reports
  ELSE LET c == CHOOSE x \in Component : /\ outcomes[x] # "report"
                                         /\ \A d \in Component : d > x => outcomes[d] = "report"
       IN  Serial!Failure(c, outcomes[c])

Selected == IF \E c \in Component : outcomes[c] = "none"
            THEN Serial!Failure(Missing, "lost")
            ELSE Serial!SerialReply(outcomes)

Answer(r) == /\ pc' = "idle"
             /\ turn' = 0
             /\ reply' = r
             /\ UNCHANGED <<worker, command, job, outcomes, pending, request, round, closeVars>>

\* Returning at the first failure received, with other results still to come.
CollectStopsAtFailure ==
  /\ pc = "collecting"
  /\ results # <<>>
  /\ results' = Tail(results)
  /\ LET o == Head(results)
     IN  IF o.verdict # "report"
         THEN Answer(Serial!Failure(o.component, o.verdict))
         ELSE /\ outcomes' = [outcomes EXCEPT ![o.component] = o.verdict]
              /\ pending' = pending - 1
              /\ UNCHANGED <<pc, turn, worker, command, job, request, round, reply, closeVars>>

\* Counting a received result as one more to wait for.
CollectCountsUp ==
  /\ pc = "collecting"
  /\ results # <<>>
  /\ results' = Tail(results)
  /\ outcomes' = [outcomes EXCEPT ![Head(results).component] = Head(results).verdict]
  /\ pending' = pending + 1
  /\ UNCHANGED <<pc, turn, worker, command, job, request, round, reply, closeVars>>

\* recv fails only when the channel is empty and every worker's sender is gone; a
\* second result for one component is refused.  Both are early returns.
Collect ==
  /\ pc = "collecting"
  /\ pending > 0
  /\ results # <<>> \/ \A c \in Component : worker[c] = "gone"
  /\ IF results = <<>>
     THEN UNCHANGED results /\ Answer(Serial!Failure(Missing, "lost"))
     ELSE LET o == Head(results)
          IN  /\ results' = Tail(results)
              /\ IF outcomes[o.component] # "none"
                 THEN Answer(Serial!Failure(o.component, "lost"))
                 ELSE /\ outcomes' = [outcomes EXCEPT ![o.component] = o.verdict]
                      /\ pending' = pending - 1
                      /\ UNCHANGED <<pc, turn, worker, command, job, request, round, reply,
                                     closeVars>>

Select == /\ pc = "collecting"
          /\ pending = 0
          /\ Answer(Selected)
          /\ UNCHANGED results
-----------------------------------------------------------------------------
(***************************************************************************)
(* shutdown: the owner of the executor calls it when the SIMPLE loop ends  *)
(* well, and drop calls it when any step of the loop fails, so it may come *)
(* at any moment between two solves.  None goes to every worker, the       *)
(* senders are dropped, and every worker is joined.  A failed new follows  *)
(* the same two loops over the workers it had started.                     *)
(***************************************************************************)
Close == /\ pc = "idle"
         /\ ~finished
         /\ finished' = TRUE
         /\ pc' = "stopping"
         /\ turn' = 0
         /\ UNCHANGED <<worker, command, job, results, solveVars, handles, trouble>>

\* Sending None to the first worker only.
SendQuitOnce == /\ pc = "stopping"
                /\ turn \in handles
                /\ command[turn] = Empty
                /\ command' = [command EXCEPT ![0] = Quit]
                /\ turn' = turn + 1
                /\ UNCHANGED <<pc, worker, job, results, solveVars, closeVars>>

SendQuit == /\ pc = "stopping"
            /\ turn \in handles
            /\ IF Listening(turn)
               THEN /\ command[turn] = Empty
                    /\ command' = [command EXCEPT ![turn] = Quit]
                    /\ UNCHANGED trouble
               ELSE /\ trouble' = (trouble \/ finished)
                    /\ UNCHANGED command
            /\ turn' = turn + 1
            /\ UNCHANGED <<pc, worker, job, results, solveVars, handles, finished>>

StartJoining == /\ pc = "stopping"
                /\ turn \notin handles
                /\ pc' = "joining"
                /\ turn' = 0
                /\ UNCHANGED <<worker, command, job, results, solveVars, closeVars>>

\* Dropping the handle without waiting for the thread.
JoinDetaches == /\ pc = "joining"
                /\ turn \in handles
                /\ handles' = handles \ {turn}
                /\ turn' = turn + 1
                /\ UNCHANGED <<pc, worker, command, job, results, solveVars, finished, trouble>>

Join == /\ pc = "joining"
        /\ turn \in handles
        /\ worker[turn] = "gone"
        /\ handles' = handles \ {turn}
        /\ turn' = turn + 1
        /\ UNCHANGED <<pc, worker, command, job, results, solveVars, finished, trouble>>

Closed == /\ pc = "joining"
          /\ turn \notin handles
          /\ pc' = "closed"
          /\ UNCHANGED <<turn, worker, command, job, results, solveVars, closeVars>>
-----------------------------------------------------------------------------
(***************************************************************************)
(* run_momentum_component_worker: receive a command; on None leave; on a   *)
(* job solve it and send the outcome.  A solve that panics ends the loop:  *)
(* the worker sends Panicked and only then drops its command receiver.     *)
(***************************************************************************)
\* Keeping the first job for every later command.
TakeKeepsFirst(c) ==
  /\ worker[c] = "receiving"
  /\ command[c] # Empty
  /\ command' = [command EXCEPT ![c] = Empty]
  /\ worker' = [worker EXCEPT ![c] = IF command[c].tag = "job" THEN "solving" ELSE "exiting"]
  /\ job' = [job EXCEPT ![c] = IF @.round = 0 /\ command[c].tag = "job" THEN command[c] ELSE @]
  /\ UNCHANGED <<pc, turn, results, solveVars, closeVars>>

Take(c) == /\ worker[c] = "receiving"
           /\ command[c] # Empty
           /\ command' = [command EXCEPT ![c] = Empty]
           /\ IF command[c].tag = "job"
              THEN /\ worker' = [worker EXCEPT ![c] = "solving"]
                   /\ job' = [job EXCEPT ![c] = command[c]]
              ELSE /\ worker' = [worker EXCEPT ![c] = "exiting"]
                   /\ UNCHANGED job
           /\ UNCHANGED <<pc, turn, results, solveVars, closeVars>>

\* A job meant for another component is answered with an error.
VerdictOf(c) == IF job[c].component # c THEN "error" ELSE job[c].verdict

OutcomeOf(c) == [component |-> c, round |-> job[c].round, verdict |-> VerdictOf(c)]

Compute(c) == /\ worker[c] = "solving"
              /\ worker' = [worker EXCEPT ![c] = IF VerdictOf(c) = "panic"
                                                 THEN "unwinding" ELSE "reporting"]
              /\ UNCHANGED <<pc, turn, command, job, results, solveVars, closeVars>>

\* Leaving the receive loop after every job.
ReportAndLeave(c) == /\ worker[c] \in {"reporting", "unwinding"}
                     /\ HasRoom
                     /\ results' = Append(results, OutcomeOf(c))
                     /\ worker' = [worker EXCEPT ![c] = "exiting"]
                     /\ UNCHANGED <<pc, turn, command, job, solveVars, closeVars>>

Report(c) == /\ worker[c] \in {"reporting", "unwinding"}
             /\ HasRoom
             /\ results' = Append(results, OutcomeOf(c))
             /\ worker' = [worker EXCEPT ![c] = IF @ = "unwinding"
                                                THEN "exiting" ELSE "receiving"]
             /\ UNCHANGED <<pc, turn, command, job, solveVars, closeVars>>

Exit(c) == /\ worker[c] = "exiting"
           /\ worker' = [worker EXCEPT ![c] = "gone"]
           /\ UNCHANGED <<pc, turn, command, job, results, solveVars, closeVars>>
-----------------------------------------------------------------------------
Solve == (\E v \in [Component -> Serial!Verdict] : Call(v)) \/ Dispatch \/ Collect \/ Select

Stop == Close \/ SendQuit \/ StartJoining \/ Join \/ Closed

Main == Spawn \/ SpawnFails \/ Solve \/ Stop

Worker(c) == Take(c) \/ Compute(c) \/ Report(c) \/ Exit(c)

\* The owner has dropped the executor: nothing is left to do.
Finished == pc = "closed" /\ UNCHANGED vars

Next == Main \/ (\E c \in Component : Worker(c)) \/ Finished

Safety == Init /\ [][Next]_vars

\* The operating system runs every thread that is not blocked.
Spec == /\ Safety
        /\ WF_vars(Main)
        /\ \A c \in Component : WF_vars(Worker(c))
-----------------------------------------------------------------------------
(***************************************************************************)
(* Properties.                                                             *)
(***************************************************************************)

ChannelOK == results \in Seq(Outcome) /\ Len(results) <= N

\* The types of the executor's state; no result channel holds more than N
\* outcomes, the capacity given to sync_channel.
TypeOK ==
  /\ pc \in {"spawning", "idle", "dispatching", "collecting", "stopping", "joining", "closed"}
  /\ turn \in 0 .. N
  /\ worker \in [Component -> {"unspawned", "receiving", "solving", "reporting", "unwinding",
                               "exiting", "gone"}]
  /\ command \in [Component -> {Empty, Quit} \cup Job]
  /\ job \in [Component -> Job]
  /\ ChannelOK
  /\ outcomes \in [Component -> Serial!Verdict \cup {"none"}]
  /\ pending \in 0 .. N
  /\ request \in [Component -> Serial!Verdict]
  /\ round \in 0 .. MaxIterations
  /\ reply \in Serial!Reply
  /\ handles \in SUBSET Component
  /\ finished \in BOOLEAN
  /\ trouble \in BOOLEAN

\* Where the job of component c can be: in its channel, with its worker, in the result channel.
InChannel(c) == command[c].tag = "job"
AtWorker(c)  == worker[c] \in {"solving", "reporting", "unwinding"}
InResults(c) == \E i \in DOMAIN results : results[i].component = c

\* A job was sent to c in the present solve and its result is not stored yet.
Awaited(c) == /\ \/ pc = "collecting"
                 \/ pc = "dispatching" /\ c < turn
              /\ outcomes[c] = "none"

\* Every job is in exactly one place until its result is stored, and a job that is
\* not awaited is nowhere: no solve leaves work behind for the next one, whatever
\* the order in which the workers run (dispatch and receive loops of solve).
OneJobEach ==
  /\ \A c \in Component :
       /\ Awaited(c) <=> InChannel(c) \/ AtWorker(c) \/ InResults(c)
       /\ ~(InChannel(c) /\ AtWorker(c))
       /\ ~(InChannel(c) /\ InResults(c))
       /\ ~(AtWorker(c) /\ InResults(c))
  /\ \A i, j \in DOMAIN results : results[i].component = results[j].component => i = j

\* A worker that has a result finds room for it: its send on the shared channel
\* never waits for solve to receive.
ResultHasRoom == \A c \in Component : worker[c] \in {"reporting", "unwinding"} => HasRoom

\* A result read by solve answers the equation of this very call.
NoStaleResult == \A i \in DOMAIN results : /\ results[i].round = round
                                          /\ results[i].verdict = request[results[i].component]

\* shutdown, called when every solve succeeded, reports no error of its own: it
\* cannot turn a finished simulation into a failed one.
CleanStop == reply.status # "failed" => ~trouble

\* When the executor is gone so is every thread it started: new and drop join them.
AllJoined == pc = "closed" => /\ handles = {}
                              /\ \A c \in Component : worker[c] \in {"unspawned", "gone"}
                              /\ results = <<>>

\* The parallel solve answers what the serial one answers, and always answers.
SerialSpec == Serial!Spec

\* new returns, every solve returns and every executor is closed in the end.
Termination == <>(pc = "closed")
=============================================================================
