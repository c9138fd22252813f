------------------------------- MODULE Relay -------------------------------
(***************************************************************************)
(* A message on its way from a client through the reverse proxy            *)
(* (server/proxy.py), the gateway (module Gateway) and the OpenClaw plugin *)
(* (plugin/src) to the command that runs the agent, and the answer on its  *)
(* way back.  Each hop has a timeout of its own and none is told when      *)
(* another gives up: the proxy, the post of the gateway to the plugin, and *)
(* the plugin's watch on the command.  The client sends the message again  *)
(* when it got an error.                                                   *)
(*                                                                         *)
(* A message of Gateway is one sending, and has a task of its own: an      *)
(* error names no task.  The timers are counters that Tick moves; an       *)
(* answer on a connection, and a timer that has run out, come before the   *)
(* next tick.  What is behind the command, a client of OpenClaw, is        *)
(* external.                                                               *)
(***************************************************************************)
EXTENDS Gateway

CONSTANTS
    ProxyTimeout,    \* proxy.py, 30 s
    PostTimeout,     \* gateway_executor.py, 300 s
    CommandTimeout,  \* timeoutS of callAgent, 120 s
    Grace,           \* what callAgent gives the command on top of it, 15 s
    Latency          \* bound: ticks after which the plugin takes up no post any more

ASSUME RelayAssumption ==
    /\ Tasks \subseteq Nat /\ Messages = Tasks
    /\ ProxyTimeout \in Nat /\ PostTimeout \in Nat
    /\ CommandTimeout \in Nat /\ Grace \in Nat /\ Latency \in Nat
    /\ Latency + CommandTimeout + Grace < PostTimeout

VARIABLES
    client,   \* what the client has of a sending: nothing yet, or its end
    command,  \* the command of a sending
    answer,   \* the answer of the plugin to the post, or "none"
    held,     \* the timer of the proxy
    posted,   \* the timer of the post
    run       \* the timer of the command

relay == <<client, command, answer, held, posted, run>>

-----------------------------------------------------------------------------
(* The client and the proxy *)

RelayInit ==
    /\ Init
    /\ task = [t \in Tasks |-> t]
    /\ client = [t \in Tasks |-> "unsent"]
    /\ command = [t \in Tasks |-> "none"]
    /\ answer = [t \in Tasks |-> "none"]
    /\ held = [t \in Tasks |-> 0]
    /\ posted = [t \in Tasks |-> 0]
    /\ run = [t \in Tasks |-> 0]

\* The client sends the message, or sends it again after errors: the proxy
\* forwards it to the gateway, which executes it.
Send(t) ==
    /\ client[t] = "unsent"
    /\ \A u \in Tasks : u < t => client[u] = "error"
    /\ Start(t)
    /\ client' = [client EXCEPT ![t] = "waiting"]
    /\ UNCHANGED <<command, answer, held, posted, run>>

\* Mutant of Settled: the SDK answers as soon as the task is on record.
SettledEarly(t) == store[t].state # "unknown"

\* The SDK answers SendMessage when the task is final.
Settled(t) == Final(t)

\* The proxy passes the answer of the gateway on.
Forward(t) ==
    /\ client[t] = "waiting"
    /\ Settled(t)
    /\ client' = [client EXCEPT ![t] = store[t].state]
    /\ UNCHANGED <<vars, command, answer, held, posted, run>>

\* The proxy gives up: the client gets an HTTP error, and the gateway goes on.
GiveUp(t) ==
    /\ client[t] = "waiting"
    /\ held[t] = ProxyTimeout
    /\ client' = [client EXCEPT ![t] = "error"]
    /\ UNCHANGED <<vars, command, answer, held, posted, run>>

-----------------------------------------------------------------------------
(* The plugin *)

\* The gateway posts the message to the plugin.
Post(t) ==
    /\ RouteToPeer(t)
    /\ command' = [command EXCEPT ![t] = "asked"]
    /\ UNCHANGED <<client, answer, held, posted, run>>

\* The plugin takes up the post and starts the command.
StartCommand(t) ==
    /\ command[t] = "asked"
    /\ posted[t] <= Latency
    /\ command' = [command EXCEPT ![t] = "running"]
    /\ UNCHANGED <<vars, client, answer, held, posted, run>>

\* The plugin finds no text in the message and answers at once.
Refuse(t) ==
    /\ command[t] = "asked"
    /\ posted[t] <= Latency
    /\ command' = [command EXCEPT ![t] = "refused"]
    /\ answer' = [answer EXCEPT ![t] = "rpc_error"]
    /\ UNCHANGED <<vars, client, held, posted, run>>

EndCommand(t, result) ==
    /\ command' = [command EXCEPT ![t] = "ended"]
    /\ answer' = [answer EXCEPT ![t] = result]
    /\ UNCHANGED <<vars, client, held, posted, run>>

\* The command ends by itself, with a reply or without one.
CommandEnds(t) ==
    /\ command[t] = "running"
    /\ \E result \in {"completed", "failed"} : EndCommand(t, result)

\* Mutant of KillAge: the timeout, in milliseconds, is taken for seconds.
KillAgeLate == 1000 * (CommandTimeout + Grace)

\* The timeout that execFile is given.
KillAge == CommandTimeout + Grace

\* Mutant of Kill: the watch on the command ends with the post.
KillAwaited(t) ==
    /\ command[t] = "running" /\ pc[t] = "waiting"
    /\ run[t] = KillAge
    /\ EndCommand(t, "failed")

\* execFile kills a command that has not ended.
Kill(t) ==
    /\ command[t] = "running"
    /\ run[t] = KillAge
    /\ EndCommand(t, "failed")

-----------------------------------------------------------------------------
(* The gateway *)

\* Mutant of Collect: the answer is dropped when the client has gone.
CollectAttended(t) ==
    /\ pc[t] = "waiting" /\ client[t] = "waiting"
    /\ answer[t] # "none"
    /\ EndDispatch(t, answer[t])
    /\ UNCHANGED relay

\* The answer of the plugin ends the post.
Collect(t) ==
    /\ pc[t] = "waiting"
    /\ answer[t] # "none"
    /\ EndDispatch(t, answer[t])
    /\ UNCHANGED relay

\* The post does not get to the plugin: OpenClaw is not reached.  (That it
\* turns the post down has the same effect here.)
PostRejected(t) ==
    /\ pc[t] = "waiting"
    /\ command[t] = "asked"
    /\ EndDispatch(t, "unreachable")
    /\ command' = [command EXCEPT ![t] = "rejected"]
    /\ UNCHANGED <<client, answer, held, posted, run>>

\* The post runs out of time.
PostExpires(t) ==
    /\ pc[t] = "waiting"
    /\ posted[t] = PostTimeout
    /\ EndDispatch(t, "timeout")
    /\ UNCHANGED relay

\* The gateway publishes what became of the post.
PublishVerdict(t) == Publish(t) /\ UNCHANGED relay

\* A cancellation changes the task, not the command.
CancelTask(t) == Cancel(t) /\ UNCHANGED relay

Stop(t) == StopExecution(t) /\ UNCHANGED relay

Save(t) == Apply(t) /\ UNCHANGED relay

\* The gateway goes down: those who wait for it get an error.
Restart ==
    /\ Crash
    /\ client' = [t \in Tasks |-> IF client[t] = "waiting" THEN "error" ELSE client[t]]
    /\ UNCHANGED <<command, answer, held, posted, run>>

-----------------------------------------------------------------------------
(* Time *)

\* Something that happens before the next tick.
Due(t) ==
    \/ client[t] = "waiting" /\ held[t] = ProxyTimeout
    \/ pc[t] = "waiting" /\ (answer[t] # "none" \/ posted[t] = PostTimeout)
    \/ command[t] = "running" /\ run[t] = KillAge

\* Whether the time since a post was made still matters.
Pending(t) == pc[t] = "waiting" \/ (command[t] = "asked" /\ posted[t] <= Latency)

\* Every timer that is going moves on; the others are reset, but for that of
\* a post that has ended.
Tick ==
    /\ \E t \in Tasks : client[t] = "waiting" \/ Pending(t) \/ command[t] = "running"
    /\ \A t \in Tasks : ~Due(t)
    /\ held' = [t \in Tasks |-> IF client[t] = "waiting" THEN held[t] + 1 ELSE 0]
    /\ posted' = [t \in Tasks |-> IF Pending(t) THEN posted[t] + 1 ELSE posted[t]]
    /\ run' = [t \in Tasks |-> IF command[t] = "running" THEN run[t] + 1 ELSE 0]
    /\ UNCHANGED <<vars, client, command, answer>>

RelayNext ==
    \/ \E t \in Tasks :
          \/ Send(t) \/ Forward(t) \/ GiveUp(t)
          \/ Post(t) \/ StartCommand(t) \/ Refuse(t) \/ CommandEnds(t) \/ Kill(t)
          \/ Collect(t) \/ PostRejected(t) \/ PostExpires(t) \/ PublishVerdict(t)
          \/ CancelTask(t) \/ Stop(t) \/ Save(t)
    \/ Restart
    \/ Tick

\* Time goes on, the gateway makes its posts, takes their ends and saves its
\* events, and execFile kills when it is time.  Nobody has to send or cancel,
\* no command has to end, and the plugin may leave a post alone.
RelayFairness ==
    /\ WF_<<vars, relay>>(Tick)
    /\ \A t \in Tasks :
          /\ WF_<<vars, relay>>(Post(t))
          /\ WF_<<vars, relay>>(Collect(t) \/ PostExpires(t))
          /\ WF_<<vars, relay>>(PublishVerdict(t))
          /\ WF_<<vars, relay>>(Save(t))
          /\ WF_<<vars, relay>>(Kill(t))
          /\ WF_<<vars, relay>>(Forward(t) \/ GiveUp(t))

RelaySpec == RelayInit /\ [][RelayNext]_<<vars, relay>> /\ RelayFairness

-----------------------------------------------------------------------------
(* Properties *)

\* The gateway never gives up on a command that runs, nor on one that has
\* answered: when it lets a post time out, the plugin had not taken up the
\* post, and it will not.  This rests on the timeouts of dispatch.ts, line 80,
\* and gateway_executor.py, line 282, together.
NothingLostToTimeout ==
    \A t \in Tasks :
        outcome[t] = "timeout" => command[t] = "asked" /\ posted[t] > Latency

\* What the client was told stays what the store says, whatever comes after
\* it: a late cancellation, a restart.
ClientToldStore ==
    \A t \in Tasks :
        client[t] \notin {"unsent", "waiting", "error"} =>
            Final(t) /\ store[t].state = client[t]

\* The work of a command is not lost when the proxy gave up: a reply that
\* answers a post gets into the store, unless the task is canceled or a later
\* crash of the gateway loses it.
WorkIsRecorded ==
    \A t \in Tasks :
        (crashes = CrashBound /\ pc[t] = "waiting" /\ answer[t] = "completed")
            ~> \/ store[t].state = "completed" /\ store[t].reply = "completed"
               \/ store[t].state = "canceled"
               \/ pc[t] = "stopped"

\* No command runs for ever, though its client is gone, its task is canceled
\* or its gateway has restarted.
CommandsEnd == \A t \in Tasks : command[t] = "running" ~> command[t] = "ended"
=============================================================================
