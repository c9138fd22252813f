------------------------------ MODULE Gateway ------------------------------
(***************************************************************************)
(* GatewayExecutor (server_v2/gateway_executor.py) between the A2A SDK,    *)
(* the peers and SqliteTaskStore (server_v2/task_store.py).                *)
(*                                                                         *)
(* A message starts a task or names one that is on record.  execute runs   *)
(* as a coroutine per message and is interrupted at its awaits: after it   *)
(* has published that the task is working, while it waits for the peer,    *)
(* and between counting the dispatch and publishing its verdict.  cancel   *)
(* runs in a request of its own.  The SDK takes the published events of a  *)
(* task one by one and saves the task, until it is final.  A crash loses   *)
(* executions, events and metrics; the stored tasks remain.                *)
(*                                                                         *)
(* published keeps every event of a task and applied how many of them the  *)
(* SDK has taken: the rest is what is in the event queue.                  *)
(***************************************************************************)
EXTENDS Integers, Sequences, FiniteSets

CONSTANTS
    Tasks,        \* the task ids
    Messages,     \* bound: the messages that arrive
    CancelBound,  \* bound: CancelTask requests
    CrashBound    \* bound: crashes of the gateway

ASSUME GatewayAssumption ==
    /\ IsFiniteSet(Tasks) /\ IsFiniteSet(Messages)
    /\ CancelBound \in Nat /\ CrashBound \in Nat

VARIABLES
    task,       \* the task a message is given or names
    pc,         \* where the execution of a message is
    outcome,    \* how its dispatch ended
    published,  \* the events published for a task
    applied,    \* how many of them the SDK has taken from the queue
    store,      \* the row of a task in tasks.db
    dispatched, \* a2a_dispatch_total: dispatches counted as success and as error
    cancels,    \* CancelTask requests so far
    crashes     \* crashes so far

vars == <<task, pc, outcome, published, applied, store, dispatched, cancels, crashes>>

-----------------------------------------------------------------------------
(* Data *)

\* How a dispatch can end: the peer completes or fails the task, answers with
\* a JSON-RPC error or another HTTP status, is not reached, does not answer
\* within 300 seconds, answers with something that is not what an A2A peer
\* answers, or there is no such peer.
Replies == {"completed", "failed", "rpc_error", "http_error", "unreachable",
            "timeout", "malformed"}

Unrouted == "passthrough"

\* _dispatch_to_agent returns a text for all of them but the answers whose
\* shape it trips over.
Returned(reply) == reply # "malformed"

States == {"working", "completed", "failed", "canceled"}

Event == [state : States, reply : Replies \cup {Unrouted, "none"}]

Working  == [state |-> "working", reply |-> "none"]
Canceled == [state |-> "canceled", reply |-> "none"]
NoRow    == [state |-> "unknown", reply |-> "none"]

\* Mutant of Verdict: no return after the failure is published.
VerdictFallsThrough(reply) ==
    IF Returned(reply) THEN <<[state |-> "completed", reply |-> reply]>>
    ELSE <<[state |-> "failed", reply |-> reply], [state |-> "completed", reply |-> reply]>>

\* What execute publishes when the dispatch has ended.
Verdict(reply) ==
    IF Returned(reply) THEN <<[state |-> "completed", reply |-> reply]>>
    ELSE <<[state |-> "failed", reply |-> reply]>>

\* Mutant of Count: every dispatch counts as a success.
CountSuccess(reply) == [dispatched EXCEPT !.success = @ + 1]

\* The counter that the end of the dispatch moves.
Count(reply) ==
    IF Returned(reply) THEN [dispatched EXCEPT !.success = @ + 1]
    ELSE [dispatched EXCEPT !.error = @ + 1]

Queued(t) == SubSeq(published[t], applied[t] + 1, Len(published[t]))

Final(t) == store[t].state \in {"completed", "failed", "canceled"}

-----------------------------------------------------------------------------
(* The executor *)

Init ==
    /\ task \in [Messages -> Tasks]
    /\ pc = [m \in Messages |-> "idle"]
    /\ outcome = [m \in Messages |-> "none"]
    /\ published = [t \in Tasks |-> <<>>]
    /\ applied = [t \in Tasks |-> 0]
    /\ store = [t \in Tasks |-> NoRow]
    /\ dispatched = [success |-> 0, error |-> 0]
    /\ cancels = 0
    /\ crashes = 0

\* Mutants of Opening: no initial task is published; its state is not set.
OpeningSkipped == <<>>

OpeningBlank == <<NoRow>>

\* The initial task that execute publishes.
Opening == <<Working>>

\* The SDK takes a message for a new task, or for one that is on record.  It
\* turns a message to a final task away, but execute runs later and may find
\* that the task has become final.
Admitted(t) == published[t] = <<>> \/ store[t] # NoRow

\* A message arrives and execute publishes that its task is working, also if
\* another execution has done so, or is at work on the task.
Start(m) ==
    /\ pc[m] = "idle"
    /\ Admitted(task[m])
    /\ published' = [published EXCEPT ![task[m]] = @ \o Opening]
    /\ pc' = [pc EXCEPT ![m] = "routing"]
    /\ UNCHANGED <<task, outcome, applied, store, dispatched, cancels, crashes>>

\* The dispatch has ended and execute counts it.
EndDispatch(m, reply) ==
    /\ dispatched' = Count(reply)
    /\ outcome' = [outcome EXCEPT ![m] = reply]
    /\ pc' = [pc EXCEPT ![m] = "publishing"]
    /\ UNCHANGED <<task, published, applied, store, cancels, crashes>>

\* execute publishes the verdict and is over.
Publish(m) ==
    /\ pc[m] = "publishing"
    /\ published' = [published EXCEPT ![task[m]] = @ \o Verdict(outcome[m])]
    /\ pc' = [pc EXCEPT ![m] = "over"]
    /\ UNCHANGED <<task, outcome, applied, store, dispatched, cancels, crashes>>

\* route finds a peer with an address, to which the message is posted.
RouteToPeer(m) ==
    /\ pc[m] = "routing"
    /\ pc' = [pc EXCEPT ![m] = "waiting"]
    /\ UNCHANGED <<task, outcome, published, applied, store, dispatched, cancels, crashes>>

\* route finds a peer that is not configured: the dispatch ends at once.
RouteToNobody(m) ==
    /\ pc[m] = "routing"
    /\ EndDispatch(m, Unrouted)

\* route raises, on a workflow pointer that is not an object when no rule
\* matches.  It is called outside the try block: execute is over.
RouteRaises(m) ==
    /\ pc[m] = "routing"
    /\ pc' = [pc EXCEPT ![m] = "escaped"]
    /\ UNCHANGED <<task, outcome, published, applied, store, dispatched, cancels, crashes>>

\* The post to the peer ends, at the latest after 300 seconds.
Reply(m) ==
    /\ pc[m] = "waiting"
    /\ \E reply \in Replies : EndDispatch(m, reply)

\* cancel publishes that the task is canceled.  The SDK calls it for a task
\* that is on record and not final; execute is not told.
Cancel(t) ==
    /\ store[t].state = "working"
    /\ cancels < CancelBound
    /\ cancels' = cancels + 1
    /\ published' = [published EXCEPT ![t] = Append(@, Canceled)]
    /\ UNCHANGED <<task, pc, outcome, applied, store, dispatched, crashes>>

-----------------------------------------------------------------------------
(* The SDK and the store *)

\* cancel has been called, and not by a process that died before its event was
\* taken: then the event is in the queue or the task has become final.
CancelCalled(t) ==
    \E i \in DOMAIN published[t] :
        published[t][i] = Canceled /\ (applied[t] < i \/ Final(t))

\* After cancel the SDK may also stop execute where it awaits: the exception
\* is not one that execute handles.
StopExecution(m) ==
    /\ pc[m] \in {"routing", "waiting", "publishing"}
    /\ CancelCalled(task[m])
    /\ pc' = [pc EXCEPT ![m] = "stopped"]
    /\ UNCHANGED <<task, outcome, published, applied, store, dispatched, cancels, crashes>>

\* Mutant of Saved: a row that exists is left as it is.
SavedOnce(row, event) == IF row.state = "unknown" THEN event ELSE row

\* save replaces the row of the task.
Saved(row, event) == event

\* The SDK takes the next event of a task and saves it, unless it is final.
Apply(t) ==
    /\ Queued(t) # <<>>
    /\ store' = [store EXCEPT ![t] =
                    IF Final(t) THEN @ ELSE Saved(@, Head(Queued(t)))]
    /\ applied' = [applied EXCEPT ![t] = @ + 1]
    /\ UNCHANGED <<task, pc, outcome, published, dispatched, cancels, crashes>>

\* The gateway dies and starts again on the stored tasks, which nobody
\* executes any more.
Crash ==
    /\ crashes < CrashBound
    /\ crashes' = crashes + 1
    /\ pc' = [m \in Messages |->
                IF pc[m] \in {"routing", "waiting", "publishing"} THEN "lost" ELSE pc[m]]
    /\ applied' = [t \in Tasks |-> Len(published[t])]
    /\ dispatched' = [success |-> 0, error |-> 0]
    /\ UNCHANGED <<task, outcome, published, store, cancels>>

Next ==
    \/ \E m \in Messages :
          \/ Start(m)
          \/ RouteToPeer(m) \/ RouteToNobody(m) \/ RouteRaises(m)
          \/ Reply(m)
          \/ Publish(m)
          \/ StopExecution(m)
    \/ \E t \in Tasks : Cancel(t) \/ Apply(t)
    \/ Crash

\* The event loop runs every coroutine that can go on, the post to a peer has
\* a timeout, and the SDK drains every event queue.  Nobody has to send a
\* message or cancel a task, and nothing has to crash.
Fairness ==
    /\ \A m \in Messages :
          WF_vars(RouteToPeer(m) \/ RouteToNobody(m) \/ RouteRaises(m) \/ Reply(m) \/ Publish(m))
    /\ \A t \in Tasks : WF_vars(Apply(t))

Spec == Init /\ [][Next]_vars /\ Fairness

-----------------------------------------------------------------------------
(* Properties *)

\* Every variable holds a value of its kind; no more events are taken than
\* were published.
TypeOK ==
    /\ task \in [Messages -> Tasks]
    /\ pc \in [Messages -> {"idle", "routing", "waiting", "publishing", "over",
                            "escaped", "stopped", "lost"}]
    /\ outcome \in [Messages -> Replies \cup {Unrouted, "none"}]
    /\ published \in [Tasks -> Seq(Event)]
    /\ applied \in [Tasks -> Nat]
    /\ \A t \in Tasks : applied[t] <= Len(published[t])
    /\ store \in [Tasks -> Event \cup {NoRow}]
    /\ dispatched \in [success : Nat, error : Nat]
    /\ cancels \in 0 .. CancelBound
    /\ crashes \in 0 .. CrashBound

\* How many verdicts were published for a task.
Verdicts(t) ==
    Cardinality({i \in DOMAIN published[t] : published[t][i].state \in {"completed", "failed"}})

\* The executions of a task that have come to one of these stages.
At(t, stages) == {m \in Messages : task[m] = t /\ pc[m] \in stages}

\* Clients see the lifecycle of a task as they were promised it, whatever the
\* order of verdicts, cancellation, further messages and restart: the store
\* goes from working to one final state and keeps it.
L == INSTANCE TaskLifecycle WITH state <- [t \in Tasks |-> store[t].state]

RefinesLifecycle == L!Spec

\* Every execution that is over has published one verdict, and no other has
\* published any, however many messages the task has had; and nothing is said
\* of a task before it was said to be working.
OneVerdict ==
    \A t \in Tasks :
        /\ Verdicts(t) = Cardinality(At(t, {"over"}))
        /\ published[t] # <<>> => published[t][1] = Working

\* The tasks on record with this verdict.
Stored(verdict) == {t \in Tasks : store[t].state = verdict}

\* Nothing is between a dispatch that was counted and the row of its task: it
\* is not about to publish, its verdict is not in the queue, and no
\* cancellation and no second verdict came in its way.
Quiet ==
    /\ cancels = 0
    /\ \A t \in Tasks :
          /\ At(t, {"publishing"}) = {}
          /\ Queued(t) = <<>>
          /\ Cardinality(At(t, {"over"})) <= 1

\* Until a restart resets them, the metrics never lag behind the store: each
\* stored verdict was counted before, and counted as what it is.  They are
\* ahead of it only by dispatches on their way and by those whose verdict
\* another end of the task forestalled.
MetricsAgree ==
    crashes = 0 =>
        /\ Cardinality(Stored("completed")) <= dispatched.success
        /\ Cardinality(Stored("failed")) <= dispatched.error
        /\ Quiet =>
              /\ Cardinality(Stored("completed")) = dispatched.success
              /\ Cardinality(Stored("failed")) = dispatched.error

\* A task that execute has taken up becomes final, unless the routing raises
\* or a later crash of the gateway loses the execution.  (A crash may come
\* before anything else, so the last life of the gateway shows all it can do.)
EveryTaskSettles ==
    \A m \in Messages :
        (crashes = CrashBound /\ pc[m] = "routing")
            ~> (Final(task[m]) \/ pc[m] = "escaped")

\* A task left working by a restart, or by an exception in the routing, can
\* be ended: a cancellation that no later crash loses makes it final.
CancelSettles ==
    \A t \in Tasks :
        (crashes = CrashBound /\ Canceled \in {Queued(t)[i] : i \in DOMAIN Queued(t)})
            ~> Final(t)

-----------------------------------------------------------------------------
(* What the documents say, and the code does not do *)

\* designs/v2.3/DESIGN.md, line 274: an HTTP status other than 200 increments
\* a2a_dispatch_total{status="error"}.
HttpErrorsCounted ==
    crashes = 0 => Cardinality({m \in Messages : outcome[m] = "http_error"}) <= dispatched.error

\* gateway_executor.py, lines 69-70: every message flows through route,
\* dispatch, collect and publish.  Then no execution would be over without
\* having published a verdict.
EveryMessagePublished ==
    \A t \in Tasks : Verdicts(t) = Cardinality(At(t, {"over", "escaped"}))
=============================================================================
