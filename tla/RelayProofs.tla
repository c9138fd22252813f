---------------------------- MODULE RelayProofs ----------------------------
(***************************************************************************)
(* Proofs about Relay: for any number of sendings and any timeouts in the  *)
(* order of RelayAssumption, the gateway gives up on no command, and what  *)
(* a client was told stays true.                                           *)
(*                                                                         *)
(* Every step of Relay is a step of Gateway or changes nothing of it, so   *)
(* the invariant of GatewayProofs carries over.  The rest is a race of two *)
(* timers: while a command runs, the timer of its post is ahead of its own *)
(* by at most the latency of the plugin (Timely).                          *)
(***************************************************************************)
EXTENDS Relay, GatewayProofs

\* The gateway gave up on a post.
TimedOut(t) == outcome[t] = "timeout"

RelayTypes ==
    /\ client \in [Tasks -> {"unsent", "waiting", "error"} \cup States \cup {"unknown"}]
    /\ command \in [Tasks -> {"none", "asked", "running", "refused", "rejected", "ended"}]
    /\ answer \in [Tasks -> {"none", "rpc_error", "completed", "failed"}]
    /\ held \in [Tasks -> Nat] /\ posted \in [Tasks -> Nat] /\ run \in [Tasks -> Nat]

\* The timers of a sending, by how far its post and its command are.
TimelyTask(t) ==
    /\ pc[t] \in {"idle", "routing"} => command[t] = "none"
    /\ pc[t] = "waiting" => command[t] \notin {"none", "rejected"}
    /\ pc[t] \in {"idle", "routing", "waiting"} => ~TimedOut(t)
    /\ command[t] = "none" => posted[t] = 0
    /\ command[t] \in {"none", "asked"} => answer[t] = "none" /\ run[t] = 0
    /\ command[t] = "running" =>
          /\ answer[t] = "none"
          /\ run[t] <= KillAge
          /\ pc[t] = "waiting" => posted[t] <= Latency + run[t]
    /\ command[t] \in {"refused", "ended"} =>
          /\ answer[t] # "none"
          /\ pc[t] = "waiting" => posted[t] <= Latency + KillAge
    /\ TimedOut(t) => command[t] = "asked" /\ posted[t] > Latency

Timely == \A t \in Tasks : TimelyTask(t)

\* Each sending has a task of its own.
OwnTask == \A t \in Tasks : task[t] = t

RelayInv == GInv /\ OutcomeInv /\ OwnTask /\ RelayTypes /\ Timely /\ ClientToldStore

-----------------------------------------------------------------------------
(* Relay and Gateway *)

\* Every step of Relay is one of Gateway, or does not touch it.
LEMMA RelayIsGateway ==
    ASSUME RelayTypes, [RelayNext]_<<vars, relay>>
    PROVE  [Next]_vars
<1>0. Messages = Tasks
  BY RelayAssumption
<1>1. ASSUME NEW t \in Tasks,
             Send(t) \/ Post(t) \/ PublishVerdict(t) \/ CancelTask(t) \/ Stop(t) \/ Save(t)
      PROVE  Next
  BY <1>0, <1>1 DEF Send, Post, PublishVerdict, CancelTask, Stop, Save, Next
<1>2. ASSUME NEW t \in Tasks, Collect(t) \/ PostRejected(t) \/ PostExpires(t)
      PROVE  Next
  <2>1. {"timeout", "unreachable"} \subseteq Replies /\ (answer[t] # "none" => answer[t] \in Replies)
    BY DEF Replies, RelayTypes
  <2>2. Reply(t)
    BY <1>2, <2>1 DEF Collect, PostRejected, PostExpires, Reply
  <2> QED
    BY <1>0, <2>2 DEF Next
<1>3. Restart => Next
  BY DEF Restart, Next
<1>4. ASSUME NEW t \in Tasks,
             Forward(t) \/ GiveUp(t) \/ StartCommand(t) \/ Refuse(t) \/ CommandEnds(t) \/ Kill(t)
      PROVE  UNCHANGED vars
  BY <1>4 DEF Forward, GiveUp, StartCommand, Refuse, CommandEnds, Kill, EndCommand
<1>5. Tick \/ UNCHANGED <<vars, relay>> => UNCHANGED vars
  BY DEF Tick
<1> QED
  BY <1>1, <1>2, <1>3, <1>4, <1>5 DEF RelayNext

\* The timeouts are numbers, and the post outlasts the command.
LEMMA Timeouts ==
    /\ KillAge \in Nat /\ Latency \in Nat /\ PostTimeout \in Nat
    /\ Latency + KillAge < PostTimeout
BY RelayAssumption DEF KillAge

\* The end of a dispatch sets its outcome.
LEMMA DispatchEnds ==
    ASSUME TypeOK, NEW t \in Tasks, NEW reply \in Replies \cup {Unrouted}, EndDispatch(t, reply),
           NEW u \in Tasks
    PROVE  /\ outcome'[u] = IF u = t THEN reply ELSE outcome[u]
           /\ pc'[u] = IF u = t THEN "publishing" ELSE pc[u]
BY RelayAssumption DEF TypeOK, EndDispatch

-----------------------------------------------------------------------------
(* The timers *)

\* A step that leaves command, answer and timers of a sending as they are keeps
\* them timely: its execution may begin or end, but not begin to wait.
LEMMA TimersKept ==
    ASSUME NEW u \in Tasks, TimelyTask(u),
           command'[u] = command[u], answer'[u] = answer[u],
           posted'[u] = posted[u], run'[u] = run[u],
           TimedOut(u)' <=> TimedOut(u),
           \/ pc'[u] = pc[u]
           \/ pc[u] = "idle" /\ pc'[u] = "routing"
           \/ pc'[u] \notin {"idle", "routing", "waiting"}
    PROVE  TimelyTask(u)'
BY DEF TimelyTask, KillAge

\* What a step does not touch at all.
LEMMA Untouched ==
    ASSUME NEW u \in Tasks, TimelyTask(u), pc'[u] = pc[u], outcome'[u] = outcome[u],
           command'[u] = command[u], answer'[u] = answer[u],
           posted'[u] = posted[u], run'[u] = run[u]
    PROVE  TimelyTask(u)'
<1>1. TimedOut(u)' <=> TimedOut(u)
  BY DEF TimedOut
<1> QED
  BY <1>1, TimersKept

\* Every step keeps the types of what Relay adds.
LEMMA RelayTypesStep ==
    ASSUME RelayInv, [RelayNext]_<<vars, relay>>
    PROVE  RelayTypes'
<1> USE DEF RelayInv, RelayTypes
<1>1. ASSUME NEW t \in Tasks, Send(t) \/ GiveUp(t) \/ Post(t) \/ PostRejected(t)
             \/ StartCommand(t) \/ Refuse(t)
      PROVE  RelayTypes'
  BY <1>1 DEF Send, GiveUp, Post, PostRejected, StartCommand, Refuse
<1>2. ASSUME NEW t \in Tasks, Forward(t)
      PROVE  RelayTypes'
  <2>1. store[t].state \in States \cup {"unknown"}
    BY DEF GInv, TypeOK, Event, NoRow
  <2> QED
    BY <1>2, <2>1 DEF Forward
<1>3. ASSUME NEW t \in Tasks, CommandEnds(t) \/ Kill(t)
      PROVE  RelayTypes'
  BY <1>3 DEF CommandEnds, Kill, EndCommand
<1>4. ASSUME NEW t \in Tasks,
             \/ Collect(t) \/ PostExpires(t) \/ PublishVerdict(t)
             \/ CancelTask(t) \/ Stop(t) \/ Save(t)
      PROVE  RelayTypes'
  BY <1>4 DEF Collect, PostExpires, PublishVerdict, CancelTask, Stop, Save, relay
<1>5. CASE Restart
  BY <1>5 DEF Restart
<1>6. CASE Tick
  BY <1>6 DEF Tick
<1>7. CASE UNCHANGED <<vars, relay>>
  BY <1>7 DEF relay
<1> QED
  BY <1>1, <1>2, <1>3, <1>4, <1>5, <1>6, <1>7 DEF RelayNext

\* Every step keeps the timers of every sending timely.
LEMMA TimelyStep ==
    ASSUME RelayInv, [RelayNext]_<<vars, relay>>
    PROVE  Timely'
<1> SUFFICES ASSUME NEW u \in Tasks
             PROVE  TimelyTask(u)'
  BY DEF Timely
<1>0. /\ TypeOK /\ RelayTypes /\ TimelyTask(u)
      /\ pc \in [Tasks -> {"idle", "routing", "waiting", "publishing", "over",
                           "escaped", "stopped", "lost"}]
      /\ outcome \in [Tasks -> Replies \cup {Unrouted, "none"}]
  BY RelayAssumption DEF RelayInv, Timely, GInv, TypeOK
<1> USE DEF RelayTypes, TimedOut
<1>1. ASSUME NEW t \in Tasks, Send(t)
      PROVE  TimelyTask(u)'
  BY <1>0, <1>1, TimersKept DEF Send, Start
<1>2. ASSUME NEW t \in Tasks, Forward(t) \/ GiveUp(t)
      PROVE  TimelyTask(u)'
  BY <1>0, <1>2, Untouched DEF Forward, GiveUp, vars
<1>3. ASSUME NEW t \in Tasks, Post(t)
      PROVE  TimelyTask(u)'
  <2>1. CASE u = t
    BY <1>0, <1>3, <2>1, Timeouts DEF Post, RouteToPeer, TimelyTask, TimedOut
  <2>2. CASE u # t
    BY <1>0, <1>3, <2>2, Untouched DEF Post, RouteToPeer
  <2> QED
    BY <2>1, <2>2
<1>4. ASSUME NEW t \in Tasks, StartCommand(t)
      PROVE  TimelyTask(u)'
  <2>1. CASE u = t
    BY <1>0, <1>4, <2>1, Timeouts DEF StartCommand, TimelyTask, TimedOut, vars, KillAge
  <2>2. CASE u # t
    BY <1>0, <1>4, <2>2, Untouched DEF StartCommand, vars
  <2> QED
    BY <2>1, <2>2
<1>5. ASSUME NEW t \in Tasks, Refuse(t)
      PROVE  TimelyTask(u)'
  <2>1. CASE u = t
    BY <1>0, <1>5, <2>1, Timeouts DEF Refuse, TimelyTask, TimedOut, vars, KillAge
  <2>2. CASE u # t
    BY <1>0, <1>5, <2>2, Untouched DEF Refuse, vars
  <2> QED
    BY <2>1, <2>2
<1>6. ASSUME NEW t \in Tasks, NEW result \in {"completed", "failed"},
             command[t] = "running", EndCommand(t, result)
      PROVE  TimelyTask(u)'
  <2>1. CASE u = t
    BY <1>0, <1>6, <2>1, Timeouts DEF EndCommand, TimelyTask, TimedOut, vars, KillAge
  <2>2. CASE u # t
    BY <1>0, <1>6, <2>2, Untouched DEF EndCommand, vars
  <2> QED
    BY <2>1, <2>2
<1>7. ASSUME NEW t \in Tasks, Collect(t)
      PROVE  TimelyTask(u)'
  <2>1. answer[t] \in Replies /\ answer[t] # "timeout" /\ EndDispatch(t, answer[t])
    BY <1>0, <1>7 DEF Collect, Replies
  <2>2. /\ TimedOut(u) => TimedOut(u)' \/ u = t
        /\ TimedOut(u)' => TimedOut(u)
        /\ pc'[u] = IF u = t THEN "publishing" ELSE pc[u]
    BY <1>0, <2>1, DispatchEnds
  <2>3. u = t => ~TimedOut(u)
    BY <1>0, <1>7 DEF Collect, TimelyTask
  <2> QED
    BY <1>0, <1>7, <2>2, <2>3, TimersKept DEF Collect, relay
<1>8. ASSUME NEW t \in Tasks, PostExpires(t)
      PROVE  TimelyTask(u)'
  <2>1. "timeout" \in Replies /\ EndDispatch(t, "timeout")
    BY <1>8 DEF PostExpires, Replies
  <2>2. /\ outcome'[u] = IF u = t THEN "timeout" ELSE outcome[u]
        /\ pc'[u] = IF u = t THEN "publishing" ELSE pc[u]
    BY <1>0, <2>1, DispatchEnds
  <2>3. CASE u = t
    <3>1. command[t] = "asked"
      BY <1>0, <1>8, <2>3, Timeouts DEF PostExpires, TimelyTask
    <3>2. posted[t] > Latency
      BY <1>8, Timeouts DEF PostExpires
    <3> QED
      BY <1>0, <1>8, <2>2, <2>3, <3>1, <3>2 DEF PostExpires, relay, TimelyTask
  <2>4. CASE u # t
    BY <1>0, <1>8, <2>2, <2>4, Untouched DEF PostExpires, relay
  <2> QED
    BY <2>3, <2>4
<1>9. ASSUME NEW t \in Tasks, CancelTask(t)
      PROVE  TimelyTask(u)'
  BY <1>0, <1>9, Untouched DEF CancelTask, Cancel, relay
<1>10. ASSUME NEW t \in Tasks, Stop(t) \/ PublishVerdict(t)
       PROVE  TimelyTask(u)'
  BY <1>0, <1>10, TimersKept DEF Stop, StopExecution, PublishVerdict, Publish, relay
<1>11. ASSUME NEW t \in Tasks, Save(t)
       PROVE  TimelyTask(u)'
  BY <1>0, <1>11, Untouched DEF Save, Apply, relay
<1>12. CASE Restart
  BY <1>0, <1>12, RelayAssumption, TimersKept DEF Restart, Crash
<1>13. CASE Tick
  <2>1. ~Due(u)
    BY <1>13 DEF Tick
  <2>2. /\ pc'[u] = pc[u] /\ command'[u] = command[u] /\ answer'[u] = answer[u]
        /\ TimedOut(u)' <=> TimedOut(u)
    BY <1>13 DEF Tick, vars, TimedOut
  <2>3. /\ posted'[u] = IF Pending(u) THEN posted[u] + 1 ELSE posted[u]
        /\ run'[u] = IF command[u] = "running" THEN run[u] + 1 ELSE 0
    BY <1>13 DEF Tick
  <2>4. posted[u] \in Nat /\ run[u] \in Nat
    BY <1>0
  <2>5. KillAge' = KillAge
    BY DEF KillAge
  <2> QED
    BY <1>0, <2>1, <2>2, <2>3, <2>4, <2>5, Timeouts DEF TimelyTask, Due, Pending
<1>14. ASSUME NEW t \in Tasks, PostRejected(t)
       PROVE  TimelyTask(u)'
  <2>1. "unreachable" \in Replies /\ EndDispatch(t, "unreachable")
    BY <1>14 DEF PostRejected, Replies
  <2>2. /\ outcome'[u] = IF u = t THEN "unreachable" ELSE outcome[u]
        /\ pc'[u] = IF u = t THEN "publishing" ELSE pc[u]
    BY <1>0, <2>1, DispatchEnds
  <2>3. CASE u = t
    BY <1>0, <1>14, <2>2, <2>3 DEF PostRejected, TimelyTask
  <2>4. CASE u # t
    BY <1>0, <1>14, <2>2, <2>4, Untouched DEF PostRejected
  <2> QED
    BY <2>3, <2>4
<1>15. CASE UNCHANGED <<vars, relay>>
  BY <1>0, <1>15, Untouched DEF vars, relay
<1> QED
  BY <1>1, <1>2, <1>3, <1>4, <1>5, <1>6, <1>7, <1>8, <1>9, <1>10, <1>11, <1>12, <1>13, <1>14, <1>15
     DEF RelayNext, CommandEnds, Kill

\* Every step keeps what the clients were told true.
LEMMA ToldStep ==
    ASSUME RelayInv, [RelayNext]_<<vars, relay>>
    PROVE  ClientToldStore'
<1> SUFFICES ASSUME NEW u \in Tasks, client'[u] \notin {"unsent", "waiting", "error"}
             PROVE  Final(u)' /\ store'[u].state = client'[u]
  BY DEF ClientToldStore
<1> DEFINE told == client[u] \notin {"unsent", "waiting", "error"}
<1>0. RelayTypes /\ TypeOK /\ (told => Final(u) /\ store[u].state = client[u])
  BY DEF RelayInv, GInv, ClientToldStore
<1>2. ASSUME NEW t \in Tasks, Forward(t)
      PROVE  Final(u)' /\ store'[u].state = client'[u]
  <2>1. store' = store
    BY <1>2 DEF Forward, vars
  <2>2. CASE u = t
    BY <1>0, <1>2, <2>1, <2>2 DEF Forward, Settled, Final, RelayTypes
  <2>3. CASE u # t
    BY <1>0, <1>2, <2>1, <2>3 DEF Forward, Final, RelayTypes
  <2> QED
    BY <2>2, <2>3
<1>3. ASSUME NEW t \in Tasks, Save(t)
      PROVE  Final(u)' /\ store'[u].state = client'[u]
  <2>1. told /\ client'[u] = client[u]
    BY <1>3 DEF Save, relay
  <2>2. store'[u] = store[u]
    BY <1>0, <1>3, <2>1 DEF Save, Apply, TypeOK
  <2> QED
    BY <1>0, <2>1, <2>2 DEF Final
<1>4. ASSUME store' = store, told, client'[u] = client[u]
      PROVE  Final(u)' /\ store'[u].state = client'[u]
  BY <1>0, <1>4 DEF Final
<1>5. ASSUME NEW t \in Tasks, Send(t) \/ GiveUp(t)
      PROVE  store' = store /\ told /\ client'[u] = client[u]
  BY <1>0, <1>5 DEF Send, Start, GiveUp, vars, RelayTypes
<1>6. ASSUME NEW t \in Tasks,
             Post(t) \/ StartCommand(t) \/ Refuse(t) \/ CommandEnds(t) \/ Kill(t)
      PROVE  store' = store /\ told /\ client'[u] = client[u]
  BY <1>6 DEF Post, RouteToPeer, StartCommand, Refuse, CommandEnds, Kill, EndCommand, vars
<1>7. ASSUME NEW t \in Tasks,
             \/ Collect(t) \/ PostRejected(t) \/ PostExpires(t)
             \/ PublishVerdict(t) \/ CancelTask(t) \/ Stop(t)
      PROVE  store' = store /\ told /\ client'[u] = client[u]
  BY <1>7 DEF Collect, PostRejected, PostExpires, EndDispatch, PublishVerdict, Publish,
              CancelTask, Cancel, Stop, StopExecution, relay
<1>8. Restart => store' = store /\ told /\ client'[u] = client[u]
  BY <1>0 DEF Restart, Crash, RelayTypes
<1>9. Tick \/ UNCHANGED <<vars, relay>> => store' = store /\ told /\ client'[u] = client[u]
  BY DEF Tick, vars, relay
<1> QED
  BY <1>2, <1>3, <1>4, <1>5, <1>6, <1>7, <1>8, <1>9 DEF RelayNext

-----------------------------------------------------------------------------
(* Theorems *)

\* The invariant of Relay.
LEMMA RelayInvariant == RelaySpec => []RelayInv
<1>1. RelayInit => RelayInv
  <2> SUFFICES ASSUME RelayInit
               PROVE  RelayInv
    OBVIOUS
  <2>1. GInv /\ OutcomeInv /\ OwnTask
    BY GatewayInit DEF RelayInit, OwnTask
  <2>2. RelayTypes
    BY DEF RelayInit, RelayTypes
  <2>3. Timely
    BY RelayAssumption DEF RelayInit, Init, Timely, TimelyTask, TimedOut
  <2>4. ClientToldStore
    BY DEF RelayInit, ClientToldStore
  <2> QED
    BY <2>1, <2>2, <2>3, <2>4 DEF RelayInv
<1>2. RelayInv /\ [RelayNext]_<<vars, relay>> => RelayInv'
  <2> SUFFICES ASSUME RelayInv, [RelayNext]_<<vars, relay>>
               PROVE  RelayInv'
    OBVIOUS
  <2>1. GInv' /\ OutcomeInv'
    BY RelayIsGateway, GatewayStep DEF RelayInv
  <2>2. OwnTask'
    BY RelayIsGateway, OverStays DEF RelayInv, OwnTask
  <2> QED
    BY <2>1, <2>2, RelayTypesStep, TimelyStep, ToldStep DEF RelayInv
<1> QED
  BY <1>1, <1>2, PTL DEF RelaySpec

\* A gateway between the proxy and the plugin does what Gateway lets it do, so
\* that every safety property of Gateway holds of Relay.
THEOREM RelayRunsGateway == RelaySpec => Init /\ [][Next]_vars
<1>1. RelayInit => Init
  BY DEF RelayInit
<1>2. RelayInv /\ [RelayNext]_<<vars, relay>> => [Next]_vars
  BY RelayIsGateway DEF RelayInv
<1> QED
  BY <1>1, <1>2, RelayInvariant, PTL DEF RelaySpec

\* The gateway gives up on no command that runs or has answered, for any
\* timeouts in the order of RelayAssumption.
THEOREM PostOutlastsCommand == RelaySpec => []NothingLostToTimeout
<1>1. RelayInv => NothingLostToTimeout
  BY DEF RelayInv, Timely, TimelyTask, TimedOut, NothingLostToTimeout
<1> QED
  BY <1>1, RelayInvariant, PTL

\* What a client was told by way of the proxy agrees with the store for ever,
\* through late events, cancellations and restarts.
THEOREM AnswersStand == RelaySpec => []ClientToldStore
<1>1. RelayInv => ClientToldStore
  BY DEF RelayInv
<1> QED
  BY <1>1, RelayInvariant, PTL
=============================================================================
