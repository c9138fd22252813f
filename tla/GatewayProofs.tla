--------------------------- MODULE GatewayProofs ---------------------------
(***************************************************************************)
(* Proofs about Gateway, for any number of tasks, messages, cancellations  *)
(* and crashes: type correctness; that the store shows every task the      *)
(* lifecycle of TaskLifecycle; that an execution gives one verdict; and    *)
(* what the metrics and the store say of each other.                       *)
(*                                                                         *)
(* The refinement rests on the events of a task (QueueInv): the first says *)
(* that it is working, so a task not yet on record can only become         *)
(* working; what comes later, more messages included, finds it on record.  *)
(* Verdicts are counted with the executions that are over, dispatches with *)
(* those that have an outcome; the two are matched execution by execution. *)
(***************************************************************************)
EXTENDS Gateway, FiniteSetTheorems, SequenceTheorems, TLAPS

Executing == {"routing", "waiting", "publishing"}

\* A task that is executed has been published as working.  A task that is not
\* on record has had no event taken, unless a crash lost the first of them:
\* then nobody executes it, and nobody will.
QueueInv ==
    \A t \in Tasks :
        /\ published[t] # <<>> => published[t][1] = Working
        /\ store[t].state # "unknown" => applied[t] > 0
        /\ store[t].state = "unknown" => applied[t] \in {0, Len(published[t])}
        /\ \A m \in Messages :
              pc[m] \in Executing /\ task[m] = t =>
                  published[t] # <<>> /\ (store[t].state # "unknown" \/ applied[t] = 0)

GInv == TypeOK /\ QueueInv

-----------------------------------------------------------------------------
(* The events that execute publishes *)

VerdictStates == {"completed", "failed"}

\* What a dispatch that ended so is counted as and published as.
VerdictOf(reply) == IF Returned(reply) THEN "completed" ELSE "failed"

\* The end of a dispatch publishes one verdict.
LEMMA VerdictIsOne ==
    ASSUME NEW s \in Seq(Event), NEW reply \in Replies \cup {Unrouted}
    PROVE  \E e \in Event : /\ e.state = VerdictOf(reply)
                            /\ s \o Verdict(reply) = Append(s, e)
<1> DEFINE e == [state |-> VerdictOf(reply), reply |-> reply]
<1>1. e \in Event
  BY DEF Event, States, VerdictOf
<1>2. s \o <<e>> = Append(s, e)
  BY <1>1, AppendIsConcat
<1>3. Verdict(reply) = <<e>>
  BY DEF Verdict, VerdictOf
<1> HIDE DEF e
<1>4. e.state = VerdictOf(reply)
  BY DEF e
<1> QED
  BY <1>1, <1>2, <1>3, <1>4

\* The two events that do not depend on a reply.
LEMMA FixedEvents ==
    /\ Working \in Event /\ Canceled \in Event
    /\ Working.state = "working" /\ Canceled.state = "canceled"
BY DEF Working, Canceled, Event, States

\* The start of an execution publishes one event.
LEMMA OpeningIsOne ==
    ASSUME NEW s \in Seq(Event)
    PROVE  s \o Opening = Append(s, Working)
BY FixedEvents, AppendIsConcat DEF Opening

\* Each step that publishes does so at the end, and one event.
LEMMA AppendFacts ==
    ASSUME TypeOK, NEW t \in Tasks, NEW e \in Event,
           published' = [published EXCEPT ![t] = Append(published[t], e)]
    PROVE  /\ published' \in [Tasks -> Seq(Event)]
           /\ \A u \in Tasks \ {t} : published'[u] = published[u]
           /\ Len(published[t]) \in Nat
           /\ Len(published'[t]) = Len(published[t]) + 1
           /\ DOMAIN published[t] = 1 .. Len(published[t])
           /\ DOMAIN published'[t] = 1 .. Len(published[t]) + 1
           /\ published'[t] # <<>>
           /\ published'[t][Len(published[t]) + 1] = e
           /\ \A i \in 1 .. Len(published[t]) : published'[t][i] = published[t][i]
<1>1. published[t] \in Seq(Event) /\ published'[t] = Append(published[t], e)
  BY DEF TypeOK
<1>2. Append(published[t], e) \in Seq(Event)
  BY <1>1, AppendProperties
<1>3. published' \in [Tasks -> Seq(Event)] /\ \A u \in Tasks \ {t} : published'[u] = published[u]
  BY <1>2 DEF TypeOK
<1>4. /\ Len(published[t]) \in Nat
      /\ Len(published'[t]) = Len(published[t]) + 1
      /\ published'[t] # <<>>
      /\ published'[t][Len(published[t]) + 1] = e
      /\ \A i \in 1 .. Len(published[t]) : published'[t][i] = published[t][i]
  BY <1>1, AppendProperties, LenProperties
<1>5. DOMAIN published[t] = 1 .. Len(published[t]) /\ DOMAIN published'[t] = 1 .. Len(published'[t])
  BY <1>1, <1>2, LenProperties
<1> QED
  BY <1>3, <1>4, <1>5

\* The three kinds of step that publish, each as an append.
LEMMA StartFacts ==
    ASSUME TypeOK, NEW m \in Messages, Start(m)
    PROVE  /\ task[m] \in Tasks
           /\ published' = [published EXCEPT ![task[m]] = Append(published[task[m]], Working)]
<1>1. task[m] \in Tasks /\ published[task[m]] \in Seq(Event)
  BY DEF TypeOK
<1> QED
  BY <1>1, OpeningIsOne DEF Start

LEMMA PublishFacts ==
    ASSUME TypeOK, NEW m \in Messages, Publish(m), outcome[m] # "none"
    PROVE  /\ task[m] \in Tasks
           /\ outcome[m] \in Replies \cup {Unrouted}
           /\ \E e \in Event :
                 /\ e.state = VerdictOf(outcome[m])
                 /\ published' = [published EXCEPT ![task[m]] = Append(published[task[m]], e)]
<1>1. /\ task[m] \in Tasks /\ published[task[m]] \in Seq(Event)
      /\ outcome[m] \in Replies \cup {Unrouted}
  BY DEF TypeOK
<1>2. PICK e \in Event :
          /\ e.state = VerdictOf(outcome[m])
          /\ published[task[m]] \o Verdict(outcome[m]) = Append(published[task[m]], e)
  BY <1>1, VerdictIsOne
<1> QED
  BY <1>1, <1>2 DEF Publish

\* The step that takes an event takes the next one.
LEMMA ApplyFacts ==
    ASSUME TypeOK, NEW t \in Tasks, Apply(t)
    PROVE  LET k == applied[t] + 1
           IN  /\ k \in 1 .. Len(published[t]) /\ k \in DOMAIN published[t]
               /\ applied[t] \in Nat /\ Len(published[t]) \in Nat
               /\ published[t][k] \in Event
               /\ applied' = [applied EXCEPT ![t] = k]
               /\ store' = [store EXCEPT ![t] = IF Final(t) THEN store[t] ELSE published[t][k]]
               /\ UNCHANGED <<task, pc, outcome, published, dispatched, cancels, crashes>>
<1>1. /\ published[t] \in Seq(Event) /\ applied[t] \in Nat
      /\ applied[t] <= Len(published[t]) /\ Len(published[t]) \in Nat
  BY DEF TypeOK
<1>2. applied[t] # Len(published[t])
  BY <1>1 DEF Apply, Queued
<1> DEFINE k == applied[t] + 1
<1>3. k \in 1 .. Len(published[t]) /\ Len(published[t]) \in k .. Len(published[t])
  BY <1>1, <1>2
<1>4. Head(Queued(t)) = published[t][k]
  BY <1>1, <1>3, HeadTailOfSubSeq DEF Queued
<1>5. published[t][k] \in Event /\ k \in DOMAIN published[t]
  BY <1>1, <1>3
<1> QED
  BY <1>1, <1>3, <1>4, <1>5 DEF Apply, Saved

-----------------------------------------------------------------------------
(* Every step keeps types and queues *)

\* An execution that is about to publish has an outcome to publish.
OutcomeInv ==
    \A m \in Messages :
        /\ pc[m] \in {"idle", "routing", "waiting", "escaped"} => outcome[m] = "none"
        /\ pc[m] \in {"publishing", "over"} => outcome[m] # "none"

\* Publishing for a task that can be published for keeps the queues.
LEMMA AppendQueue ==
    ASSUME GInv, NEW t \in Tasks, NEW e \in Event,
           published[t] = <<>> => e = Working,
           store[t].state # "unknown" \/ applied[t] = 0,
           published' = [published EXCEPT ![t] = Append(published[t], e)],
           \A m \in Messages : pc'[m] \in Executing => pc[m] \in Executing \/ task[m] = t,
           UNCHANGED <<task, applied, store>>
    PROVE  /\ published' \in [Tasks -> Seq(Event)]
           /\ \A u \in Tasks : applied'[u] <= Len(published'[u])
           /\ QueueInv'
<1> USE DEF GInv
<1>1. /\ published' \in [Tasks -> Seq(Event)]
      /\ \A u \in Tasks \ {t} : published'[u] = published[u]
      /\ Len(published[t]) \in Nat /\ Len(published'[t]) = Len(published[t]) + 1
      /\ published'[t] # <<>>
      /\ published'[t][Len(published[t]) + 1] = e
      /\ \A i \in 1 .. Len(published[t]) : published'[t][i] = published[t][i]
  BY AppendFacts
<1>2. \A u \in Tasks : applied'[u] <= Len(published'[u])
  BY <1>1 DEF TypeOK
<1>3. published'[t][1] = Working
  <2>1. CASE published[t] = <<>>
    BY <1>1, <2>1
  <2>2. CASE published[t] # <<>>
    <3>1. Len(published[t]) \in Nat \ {0}
      BY <2>2, EmptySeq DEF TypeOK
    <3> QED
      BY <1>1, <2>2, <3>1 DEF QueueInv
  <2> QED
    BY <2>1, <2>2
<1>4. QueueInv'
  BY <1>1, <1>3 DEF QueueInv
<1> QED
  BY <1>1, <1>2, <1>4

\* So does a step that leaves tasks alone and starts no execution.
LEMMA QuietQueue ==
    ASSUME GInv, UNCHANGED <<task, published, applied, store>>,
           \A m \in Messages : pc'[m] \in Executing => pc[m] \in Executing
    PROVE  QueueInv'
BY DEF GInv, QueueInv

\* Every step keeps types, queues and outcomes.
LEMMA GatewayStep == GInv /\ OutcomeInv /\ [Next]_vars => GInv' /\ OutcomeInv'
<1> SUFFICES ASSUME GInv, OutcomeInv, [Next]_vars PROVE GInv' /\ OutcomeInv'
  OBVIOUS
<1> USE GatewayAssumption DEF GInv
<1>1. ASSUME NEW m \in Messages, Start(m) PROVE GInv' /\ OutcomeInv'
  <2> DEFINE t == task[m]
  <2>1. t \in Tasks /\ published' = [published EXCEPT ![t] = Append(published[t], Working)]
    BY <1>1, StartFacts
  <2>2. /\ pc' = [pc EXCEPT ![m] = "routing"]
        /\ UNCHANGED <<task, outcome, applied, store, dispatched, cancels, crashes>>
        /\ pc[m] = "idle"
    BY <1>1 DEF Start
  <2>3. store[t].state # "unknown" \/ applied[t] = 0
    <3>1. CASE published[t] = <<>>
      BY <2>1, <3>1 DEF TypeOK
    <3>2. CASE store[t] # NoRow
      BY <2>1, <3>2 DEF TypeOK, Event, States
    <3> QED
      BY <1>1, <3>1, <3>2 DEF Start, Admitted
  <2>4. /\ published' \in [Tasks -> Seq(Event)]
        /\ \A u \in Tasks : applied'[u] <= Len(published'[u])
        /\ QueueInv'
    <3>1. \A n \in Messages : pc'[n] \in Executing => pc[n] \in Executing \/ task[n] = t
      BY <2>2 DEF TypeOK
    <3> QED
      BY <2>1, <2>2, <2>3, <3>1, FixedEvents, AppendQueue
  <2> QED
    BY <2>2, <2>4 DEF TypeOK, OutcomeInv
<1>2. ASSUME NEW m \in Messages, RouteToPeer(m) \/ RouteRaises(m) \/ StopExecution(m)
      PROVE  GInv' /\ OutcomeInv'
  <2>1. /\ TypeOK' /\ OutcomeInv'
        /\ UNCHANGED <<task, published, applied, store>>
        /\ \A n \in Messages : pc'[n] \in Executing => pc[n] \in Executing
    BY <1>2 DEF RouteToPeer, RouteRaises, StopExecution, TypeOK, OutcomeInv, Executing
  <2> QED
    BY <2>1, QuietQueue
<1>3. ASSUME NEW m \in Messages, NEW reply \in Replies \cup {Unrouted},
             pc[m] \in {"routing", "waiting"}, EndDispatch(m, reply)
      PROVE  GInv' /\ OutcomeInv'
  <2>1. dispatched' \in [success : Nat, error : Nat]
    BY <1>3 DEF EndDispatch, Count, TypeOK
  <2>2. reply # "none"
    BY DEF Replies, Unrouted
  <2>3. /\ TypeOK' /\ OutcomeInv'
        /\ UNCHANGED <<task, published, applied, store>>
        /\ \A n \in Messages : pc'[n] \in Executing => pc[n] \in Executing
    BY <1>3, <2>1, <2>2 DEF EndDispatch, TypeOK, OutcomeInv, Executing
  <2> QED
    BY <2>3, QuietQueue
<1>4. ASSUME NEW m \in Messages, Publish(m) PROVE GInv' /\ OutcomeInv'
  <2> DEFINE t == task[m]
  <2>1. outcome[m] # "none"
    BY <1>4 DEF OutcomeInv, Publish
  <2>2. PICK e \in Event : published' = [published EXCEPT ![t] = Append(published[t], e)]
    BY <1>4, <2>1, PublishFacts
  <2>3. /\ pc' = [pc EXCEPT ![m] = "over"] /\ pc[m] = "publishing"
        /\ UNCHANGED <<task, outcome, applied, store, dispatched, cancels, crashes>>
    BY <1>4 DEF Publish
  <2>4. t \in Tasks /\ published[t] # <<>> /\ (store[t].state # "unknown" \/ applied[t] = 0)
    BY <2>3 DEF QueueInv, TypeOK, Executing
  <2>5. /\ published' \in [Tasks -> Seq(Event)]
        /\ \A u \in Tasks : applied'[u] <= Len(published'[u])
        /\ QueueInv'
    <3>1. \A n \in Messages : pc'[n] \in Executing => pc[n] \in Executing
      BY <2>3 DEF TypeOK, Executing
    <3> QED
      BY <2>2, <2>3, <2>4, <3>1, AppendQueue
  <2> QED
    BY <2>1, <2>3, <2>5 DEF TypeOK, OutcomeInv
<1>5. ASSUME NEW t \in Tasks, Cancel(t) PROVE GInv' /\ OutcomeInv'
  <2>1. /\ store[t].state = "working" /\ cancels < CancelBound /\ cancels' = cancels + 1
        /\ published' = [published EXCEPT ![t] = Append(published[t], Canceled)]
        /\ UNCHANGED <<task, pc, outcome, applied, store, dispatched, crashes>>
    BY <1>5 DEF Cancel
  <2>2. published[t] # <<>>
    <3>1. applied[t] > 0 /\ applied[t] \in Nat /\ applied[t] <= Len(published[t])
      BY <2>1 DEF QueueInv, TypeOK
    <3> QED
      BY <3>1
  <2>3. /\ published' \in [Tasks -> Seq(Event)]
        /\ \A u \in Tasks : applied'[u] <= Len(published'[u])
        /\ QueueInv'
    BY <2>1, <2>2, FixedEvents, AppendQueue
  <2> QED
    BY <2>1, <2>3 DEF TypeOK, OutcomeInv
<1>6. ASSUME NEW t \in Tasks, Apply(t) PROVE GInv' /\ OutcomeInv'
  <2> DEFINE k == applied[t] + 1
             next == published[t][k]
  <2>1. /\ k \in 1 .. Len(published[t])
        /\ applied[t] \in Nat /\ Len(published[t]) \in Nat
        /\ next \in Event
        /\ applied' = [applied EXCEPT ![t] = k]
        /\ store' = [store EXCEPT ![t] = IF Final(t) THEN store[t] ELSE next]
        /\ UNCHANGED <<task, pc, outcome, published, dispatched, cancels, crashes>>
    BY <1>6, ApplyFacts
  <2>2. next.state # "unknown"
    BY <2>1 DEF Event, States
  <2>3. store'[t].state # "unknown"
    BY <2>1, <2>2 DEF Final, TypeOK
  <2> HIDE DEF next
  <2>4. TypeOK' /\ OutcomeInv'
    BY <2>1 DEF TypeOK, OutcomeInv
  <2>5. QueueInv'
    <3>1. /\ applied'[t] = applied[t] + 1
          /\ \A u \in Tasks \ {t} : applied'[u] = applied[u] /\ store'[u] = store[u]
      BY <2>1 DEF TypeOK
    <3> QED
      BY <2>1, <2>3, <3>1 DEF QueueInv
  <2> QED
    BY <2>4, <2>5
<1>7. CASE Crash
  <2>1. \A t \in Tasks : Len(published[t]) \in Nat
    BY DEF TypeOK
  <2>2. /\ UNCHANGED <<task, outcome, published, store, cancels>>
        /\ pc' = [m \in Messages |-> IF pc[m] \in Executing THEN "lost" ELSE pc[m]]
        /\ applied' = [t \in Tasks |-> Len(published[t])]
    BY <1>7 DEF Crash, Executing
  <2>3. TypeOK' /\ OutcomeInv'
    BY <1>7, <2>1, <2>2 DEF Crash, TypeOK, OutcomeInv, Executing
  <2>4. \A m \in Messages : pc'[m] \notin Executing
    BY <2>2 DEF Executing
  <2>5. \A t \in Tasks : store[t].state # "unknown" => applied'[t] > 0
    BY <2>1, <2>2 DEF QueueInv, TypeOK
  <2>6. QueueInv'
    BY <2>2, <2>4, <2>5 DEF QueueInv
  <2> QED
    BY <2>3, <2>6
<1>8. CASE UNCHANGED vars
  BY <1>8 DEF vars, TypeOK, QueueInv, OutcomeInv
<1> QED
  BY <1>1, <1>2, <1>3, <1>4, <1>5, <1>6, <1>7, <1>8 DEF Next, RouteToNobody, Reply

\* The invariants hold at first.
LEMMA GatewayInit == Init => GInv /\ OutcomeInv
BY GatewayAssumption DEF Init, GInv, TypeOK, QueueInv, OutcomeInv, NoRow, Executing

\* In every reachable state the variables of the gateway hold values of their
\* kinds, for any number of tasks, messages, cancellations and crashes.
THEOREM GatewayTypeCorrect == Spec => []TypeOK
<1>1. GInv => TypeOK
  BY DEF GInv
<1> QED
  BY <1>1, GatewayInit, GatewayStep, PTL DEF Spec

\* The store shows clients the lifecycle they were promised: every task goes
\* from working to one final state and stays there, whatever the order in
\* which messages, verdicts, cancellations and crashes come.
THEOREM ImplementsLifecycle == Spec => RefinesLifecycle
<1>1. Init => L!Init
  BY DEF Init, L!Init, NoRow
<1>2. GInv /\ [Next]_vars => [L!Next]_([t \in Tasks |-> store[t].state])
  <2> SUFFICES ASSUME GInv, [Next]_vars,
                      [t \in Tasks |-> store[t].state]' # [t \in Tasks |-> store[t].state]
               PROVE  L!Next
    OBVIOUS
  <2>1. PICK t \in Tasks : Apply(t)
    BY DEF Next, vars, Start, RouteToPeer, RouteToNobody, RouteRaises, EndDispatch,
           Reply, Publish, Cancel, StopExecution, Crash
  <2> DEFINE k == applied[t] + 1
             next == published[t][k]
  <2>2. /\ k \in 1 .. Len(published[t]) /\ applied[t] \in Nat
        /\ next \in Event
        /\ store' = [store EXCEPT ![t] = IF Final(t) THEN store[t] ELSE next]
    BY <2>1, ApplyFacts DEF GInv
  <2>3. next.state \in States
    BY <2>2 DEF Event
  <2> HIDE DEF next, k
  <2>4. ~Final(t)
    BY <2>2 DEF GInv, TypeOK
  <2>5. [u \in Tasks |-> store[u].state]'
            = [[u \in Tasks |-> store[u].state] EXCEPT ![t] = next.state]
    BY <2>2, <2>4 DEF GInv, TypeOK
  <2>6. CASE store[t].state = "unknown"
    <3>1. next.state = "working"
      <4>1. CASE applied[t] = 0
        <5>1. k = 1 /\ published[t] # <<>>
          BY <2>2, <4>1 DEF k
        <5> QED
          BY <5>1, FixedEvents DEF GInv, QueueInv, next
      <4>2. applied[t] \in {0, Len(published[t])}
        BY <2>6 DEF GInv, QueueInv
      <4>3. applied[t] # Len(published[t])
        BY <2>2 DEF k
      <4> QED
        BY <4>1, <4>2, <4>3
    <3>2. L!Begin(t)
      BY <2>5, <2>6, <3>1 DEF L!Begin
    <3> QED
      BY <3>2 DEF L!Next
  <2>7. CASE store[t].state = "working"
    <3>1. next.state # "working"
      BY <2>5, <2>7
    <3>2. \E s \in L!Final : L!End(t, s)
      BY <2>3, <2>5, <2>7, <3>1 DEF L!End, L!Final, States
    <3> QED
      BY <3>2 DEF L!Next
  <2>8. store[t].state \in {"unknown", "working", "completed", "failed", "canceled"}
    BY DEF GInv, TypeOK, Event, States, NoRow
  <2> QED
    BY <2>4, <2>6, <2>7, <2>8 DEF Final
<1> QED
  BY <1>1, <1>2, GatewayInit, GatewayStep, PTL DEF Spec, RefinesLifecycle, L!Spec

-----------------------------------------------------------------------------
(* One verdict per execution *)

\* Where in the events of a task its verdicts are.
Places(t) == {i \in DOMAIN published[t] : published[t][i].state \in VerdictStates}

LEMMA PlacesFinite ==
    ASSUME TypeOK, NEW t \in Tasks
    PROVE  IsFiniteSet(Places(t)) /\ Verdicts(t) = Cardinality(Places(t)) /\ Verdicts(t) \in Nat
<1>1. DOMAIN published[t] = 1 .. Len(published[t]) /\ Len(published[t]) \in Nat
  BY LenProperties DEF TypeOK
<1>2. IsFiniteSet(1 .. Len(published[t])) /\ Places(t) \subseteq 1 .. Len(published[t])
  BY <1>1, FS_Interval DEF Places
<1>3. IsFiniteSet(Places(t)) /\ Cardinality(Places(t)) \in Nat
  BY <1>2, FS_Subset, FS_CardinalityType
<1> QED
  BY <1>3 DEF Verdicts, Places, VerdictStates

\* Publishing a verdict adds one, publishing something else adds none.
LEMMA VerdictsAppend ==
    ASSUME TypeOK, NEW t \in Tasks, NEW e \in Event,
           published' = [published EXCEPT ![t] = Append(published[t], e)]
    PROVE  /\ \A u \in Tasks \ {t} : Verdicts(u)' = Verdicts(u)
           /\ e.state \in VerdictStates => Verdicts(t)' = Verdicts(t) + 1
           /\ e.state \notin VerdictStates => Verdicts(t)' = Verdicts(t)
<1>0. /\ \A u \in Tasks \ {t} : published'[u] = published[u]
      /\ Len(published[t]) \in Nat
      /\ DOMAIN published[t] = 1 .. Len(published[t])
      /\ DOMAIN published'[t] = 1 .. Len(published[t]) + 1
      /\ published'[t][Len(published[t]) + 1] = e
      /\ \A i \in 1 .. Len(published[t]) : published'[t][i] = published[t][i]
  BY AppendFacts
<1>1. PICK n \in Nat \ {0} :
          /\ DOMAIN published[t] = 1 .. n - 1 /\ DOMAIN published'[t] = 1 .. n
          /\ published'[t][n] = e
          /\ \A i \in 1 .. n - 1 : published'[t][i] = published[t][i]
  <2> WITNESS Len(published[t]) + 1 \in Nat \ {0}
  <2> QED
    BY <1>0
<1>2. \A u \in Tasks \ {t} : Verdicts(u)' = Verdicts(u)
  BY <1>0 DEF Verdicts
<1>3. Verdicts(t)' = Cardinality(Places(t)') /\ Verdicts(t) = Cardinality(Places(t))
  BY DEF Verdicts, Places, VerdictStates
<1>4. ASSUME e.state \in VerdictStates PROVE Verdicts(t)' = Verdicts(t) + 1
  <2>1. Places(t)' = Places(t) \cup {n} /\ n \notin Places(t)
    BY <1>1, <1>4 DEF Places
  <2>2. IsFiniteSet(Places(t))
    BY PlacesFinite
  <2> QED
    BY <1>3, <2>1, <2>2, FS_AddElement
<1>5. ASSUME e.state \notin VerdictStates PROVE Verdicts(t)' = Verdicts(t)
  <2>1. Places(t)' = Places(t)
    BY <1>1, <1>5 DEF Places
  <2> QED
    BY <1>3, <2>1
<1> QED
  BY <1>2, <1>4, <1>5

\* A task has as many verdicts as executions that are over.
VerdictInv == \A t \in Tasks : Verdicts(t) = Cardinality(At(t, {"over"}))

\* Every step keeps verdicts and executions in balance.
LEMMA VerdictStep == GInv /\ OutcomeInv /\ VerdictInv /\ [Next]_vars => VerdictInv'
<1> SUFFICES ASSUME GInv, OutcomeInv, VerdictInv, [Next]_vars PROVE VerdictInv'
  OBVIOUS
<1>0. TypeOK
  BY DEF GInv
<1>1. ASSUME NEW m \in Messages, Publish(m) PROVE VerdictInv'
  <2>1. outcome[m] # "none"
    BY <1>1 DEF OutcomeInv, Publish
  <2>2. PICK t \in Tasks : t = task[m]
    BY <1>0 DEF TypeOK
  <2>3. PICK e \in Event :
            /\ e.state = VerdictOf(outcome[m])
            /\ published' = [published EXCEPT ![t] = Append(published[t], e)]
    BY <1>0, <1>1, <2>1, <2>2, PublishFacts
  <2>4. e.state \in VerdictStates
    BY <2>3 DEF VerdictOf, VerdictStates
  <2>5. /\ \A u \in Tasks \ {t} : Verdicts(u)' = Verdicts(u)
        /\ Verdicts(t)' = Verdicts(t) + 1
    BY <1>0, <2>2, <2>3, <2>4, VerdictsAppend
  <2>6. /\ \A u \in Tasks \ {t} : At(u, {"over"})' = At(u, {"over"})
        /\ At(t, {"over"})' = At(t, {"over"}) \cup {m} /\ m \notin At(t, {"over"})
    BY <1>0, <1>1, <2>2 DEF Publish, At, TypeOK
  <2>7. IsFiniteSet(At(t, {"over"}))
    <3>1. At(t, {"over"}) \subseteq Messages
      BY DEF At
    <3> QED
      BY <3>1, GatewayAssumption, FS_Subset
  <2>8. Cardinality(At(t, {"over"})') = Cardinality(At(t, {"over"})) + 1
    BY <2>6, <2>7, FS_AddElement
  <2> SUFFICES ASSUME NEW u \in Tasks PROVE Verdicts(u)' = Cardinality(At(u, {"over"})')
    BY DEF VerdictInv
  <2>9. CASE u = t
    BY <2>2, <2>5, <2>8, <2>9 DEF VerdictInv
  <2>10. CASE u # t
    BY <2>5, <2>6, <2>10 DEF VerdictInv
  <2> QED
    BY <2>9, <2>10
<1>2. ASSUME \A t \in Tasks : Verdicts(t)' = Verdicts(t) /\ At(t, {"over"})' = At(t, {"over"})
      PROVE  VerdictInv'
  BY <1>2 DEF VerdictInv
<1>3. ASSUME NEW t \in Tasks, NEW e \in {Working, Canceled},
             published' = [published EXCEPT ![t] = Append(published[t], e)]
      PROVE  \A u \in Tasks : Verdicts(u)' = Verdicts(u)
  BY <1>0, <1>3, FixedEvents, VerdictsAppend DEF VerdictStates
<1>4. ASSUME NEW m \in Messages, Start(m) PROVE VerdictInv'
  <2>1. \A u \in Tasks : At(u, {"over"})' = At(u, {"over"})
    BY <1>0, <1>4 DEF Start, At, TypeOK
  <2> QED
    BY <1>0, <1>2, <1>3, <1>4, <2>1, StartFacts
<1>5. ASSUME NEW t \in Tasks, Cancel(t) PROVE VerdictInv'
  <2>1. \A u \in Tasks : At(u, {"over"})' = At(u, {"over"})
    BY <1>5 DEF Cancel, At
  <2>2. \A u \in Tasks : Verdicts(u)' = Verdicts(u)
    BY <1>3, <1>5 DEF Cancel
  <2> QED
    BY <1>2, <2>1, <2>2
<1>6. ASSUME UNCHANGED <<task, published>>,
             \A m \in Messages : pc'[m] = "over" <=> pc[m] = "over"
      PROVE  VerdictInv'
  BY <1>2, <1>6 DEF Verdicts, At
<1>7. ASSUME NEW m \in Messages,
             \/ RouteToPeer(m) \/ RouteToNobody(m) \/ RouteRaises(m)
             \/ Reply(m) \/ StopExecution(m)
      PROVE  VerdictInv'
  BY <1>0, <1>6, <1>7
     DEF RouteToPeer, RouteToNobody, RouteRaises, Reply, EndDispatch, StopExecution, TypeOK
<1>8. ASSUME NEW t \in Tasks, Apply(t) PROVE VerdictInv'
  BY <1>6, <1>8 DEF Apply
<1>9. CASE Crash \/ UNCHANGED vars
  BY <1>6, <1>9 DEF Crash, vars
<1> QED
  BY <1>1, <1>4, <1>5, <1>7, <1>8, <1>9 DEF Next

LEMMA VerdictInit == Init => VerdictInv
<1> SUFFICES ASSUME Init, NEW t \in Tasks PROVE Verdicts(t) = Cardinality(At(t, {"over"}))
  BY DEF VerdictInv
<1>1. {i \in DOMAIN published[t] : published[t][i].state \in {"completed", "failed"}} = {}
  BY DEF Init
<1>2. At(t, {"over"}) = {}
  BY DEF Init, At
<1> QED
  BY <1>1, <1>2 DEF Verdicts

\* No execution publishes two verdicts and none ends without one but by an
\* exception, a cancellation or a crash, for any number of tasks, of messages
\* for each, of cancellations and of crashes.
THEOREM OneVerdictEach == Spec => []OneVerdict
<1>1. GInv /\ VerdictInv => OneVerdict
  BY DEF GInv, QueueInv, VerdictInv, OneVerdict
<1> QED
  BY <1>1, GatewayInit, GatewayStep, VerdictInit, VerdictStep, PTL DEF Spec

-----------------------------------------------------------------------------
(* The metrics and the store *)

\* An execution of t that is over and has published this verdict.
Ran(m, t, verdict) == pc[m] = "over" /\ task[m] = t /\ VerdictOf(outcome[m]) = verdict

\* A verdict in the events of a task, and one in the store, is that of an
\* execution that is over; an execution that is over has its verdict in the
\* events; a verdict that was taken, and not by a crash, ended its task.
VerdictsMatched ==
    /\ \A t \in Tasks :
          /\ \A i \in DOMAIN published[t] :
                published[t][i].state \in VerdictStates =>
                    \E m \in Messages : Ran(m, t, published[t][i].state)
          /\ store[t].state \in VerdictStates =>
                \E m \in Messages : Ran(m, t, store[t].state)
          /\ crashes = 0 => \A i \in DOMAIN published[t] :
                i <= applied[t] /\ published[t][i].state \in VerdictStates => Final(t)
    /\ \A m \in Messages : pc[m] = "over" =>
          \E i \in DOMAIN published[task[m]] :
              published[task[m]][i].state = VerdictOf(outcome[m])

\* Only a cancellation stops or cancels anything.
CancelInv ==
    cancels = 0 =>
        /\ \A t \in Tasks :
              /\ \A i \in DOMAIN published[t] : published[t][i].state # "canceled"
              /\ store[t].state # "canceled"
        /\ \A m \in Messages : pc[m] # "stopped"

\* The dispatches that were counted as this verdict.
CountedAs(verdict) ==
    {m \in Messages : outcome[m] # "none" /\ VerdictOf(outcome[m]) = verdict}

\* Until a crash the metrics count them, and no execution is lost.
CountInv ==
    crashes = 0 =>
        /\ dispatched.success = Cardinality(CountedAs("completed"))
        /\ dispatched.error = Cardinality(CountedAs("failed"))
        /\ \A m \in Messages : pc[m] # "lost"

\* What a step publishes: nothing, or at the end of one task an event that
\* says working, or comes of a cancellation, or is the verdict of an execution
\* that is now over.
LEMMA WhatIsPublished ==
    ASSUME GInv, OutcomeInv, [Next]_vars
    PROVE  \/ published' = published
           \/ \E t \in Tasks, e \in Event :
                 /\ published' = [published EXCEPT ![t] = Append(published[t], e)]
                 /\ \/ e = Working
                    \/ e = Canceled /\ cancels' > 0
                    \/ \E m \in Messages :
                          /\ pc'[m] = "over" /\ task'[m] = t
                          /\ VerdictOf(outcome'[m]) = e.state
<1>0. TypeOK
  BY DEF GInv
<1>1. ASSUME NEW m \in Messages, Start(m)
      PROVE  \E t \in Tasks :
                published' = [published EXCEPT ![t] = Append(published[t], Working)]
  BY <1>0, <1>1, StartFacts
<1>2. ASSUME NEW m \in Messages, Publish(m)
      PROVE  \E t \in Tasks, e \in Event :
                /\ published' = [published EXCEPT ![t] = Append(published[t], e)]
                /\ pc'[m] = "over" /\ task'[m] = t /\ VerdictOf(outcome'[m]) = e.state
  <2>1. outcome[m] # "none"
    BY <1>2 DEF OutcomeInv, Publish
  <2>2. pc'[m] = "over" /\ task' = task /\ outcome' = outcome
    BY <1>0, <1>2 DEF Publish, TypeOK
  <2> QED
    BY <1>0, <1>2, <2>1, <2>2, PublishFacts
<1>3. ASSUME NEW t \in Tasks, Cancel(t)
      PROVE  /\ published' = [published EXCEPT ![t] = Append(published[t], Canceled)]
             /\ cancels' > 0
  BY <1>0, <1>3 DEF Cancel, TypeOK
<1> QED
  BY <1>1, <1>2, <1>3, FixedEvents
     DEF Next, vars, RouteToPeer, RouteToNobody, RouteRaises, EndDispatch, Reply,
         StopExecution, Apply, Crash

\* So much for the events of a task: those of before stay, and one that is new
\* is of one of these kinds.
LEMMA EventsGrow ==
    ASSUME GInv, OutcomeInv, [Next]_vars, NEW t \in Tasks
    PROVE  /\ \A i \in DOMAIN published[t] :
                 i \in DOMAIN published'[t] /\ published'[t][i] = published[t][i]
           /\ \A i \in DOMAIN published'[t] \ DOMAIN published[t] :
                 \/ published'[t][i] = Working
                 \/ published'[t][i] = Canceled /\ cancels' > 0
                 \/ \E m \in Messages :
                       /\ pc'[m] = "over" /\ task'[m] = t
                       /\ VerdictOf(outcome'[m]) = published'[t][i].state
<1>1. CASE published' = published
  BY <1>1
<1>2. ASSUME NEW u \in Tasks, NEW e \in Event,
             published' = [published EXCEPT ![u] = Append(published[u], e)]
      PROVE  /\ \A i \in DOMAIN published[t] :
                   i \in DOMAIN published'[t] /\ published'[t][i] = published[t][i]
             /\ \A i \in DOMAIN published'[t] \ DOMAIN published[t] :
                   u = t /\ published'[t][i] = e
  <2>1. TypeOK
    BY DEF GInv
  <2>2. CASE t # u
    BY <1>2, <2>1, <2>2, AppendFacts
  <2>3. CASE t = u
    BY <1>2, <2>1, <2>3, AppendFacts
  <2> QED
    BY <2>2, <2>3
<1> QED
  BY <1>1, <1>2, WhatIsPublished

\* An execution that is over stays so.
LEMMA OverStays ==
    ASSUME GInv, [Next]_vars
    PROVE  /\ task' = task
           /\ \A m \in Messages :
                 pc[m] = "over" => pc'[m] = "over" /\ outcome'[m] = outcome[m]
<1>1. task' = task
  BY DEF Next, vars, Start, RouteToPeer, RouteToNobody, RouteRaises, EndDispatch, Reply,
         Publish, Cancel, StopExecution, Apply, Crash
<1>2. ASSUME NEW m \in Messages, pc[m] = "over"
      PROVE  pc'[m] = "over" /\ outcome'[m] = outcome[m]
  BY <1>2
     DEF GInv, TypeOK, Next, vars, Start, RouteToPeer, RouteToNobody, RouteRaises,
         EndDispatch, Reply, Publish, Cancel, StopExecution, Apply, Crash
<1> QED
  BY <1>1, <1>2

\* An execution that is over at the end of a step was so before, or has
\* published its verdict in the step.
LEMMA NewlyOver ==
    ASSUME GInv, OutcomeInv, [Next]_vars, NEW m \in Messages, pc'[m] = "over"
    PROVE  \/ pc[m] = "over"
           \/ \E i \in DOMAIN published'[task[m]] :
                 published'[task[m]][i].state = VerdictOf(outcome'[m])
<1>0. TypeOK
  BY DEF GInv
<1>1. CASE Publish(m)
  <2>1. outcome[m] # "none" /\ outcome' = outcome
    BY <1>1 DEF OutcomeInv, Publish
  <2>2. PICK t \in Tasks : t = task[m]
    BY <1>0 DEF TypeOK
  <2>3. PICK e \in Event :
            /\ e.state = VerdictOf(outcome[m])
            /\ published' = [published EXCEPT ![t] = Append(published[t], e)]
    BY <1>0, <1>1, <2>1, <2>2, PublishFacts
  <2>4. /\ Len(published[t]) + 1 \in DOMAIN published'[t]
        /\ published'[t][Len(published[t]) + 1] = e
    <3>1. /\ Len(published[t]) \in Nat
          /\ DOMAIN published'[t] = 1 .. Len(published[t]) + 1
          /\ published'[t][Len(published[t]) + 1] = e
      BY <1>0, <2>3, AppendFacts
    <3> QED
      BY <3>1
  <2> QED
    BY <2>1, <2>2, <2>3, <2>4
<1>2. CASE ~Publish(m)
  BY <1>0, <1>2
     DEF TypeOK, Next, vars, Start, RouteToPeer, RouteToNobody, RouteRaises, EndDispatch,
         Reply, Publish, Cancel, StopExecution, Apply, Crash
<1> QED
  BY <1>1, <1>2

\* What a step does to the row of a task: nothing, or it saves the next event.
LEMMA RowMoves ==
    ASSUME GInv, [Next]_vars, NEW t \in Tasks
    PROVE  \/ store'[t] = store[t] /\ (applied'[t] = applied[t] \/ crashes' # 0)
           \/ /\ applied[t] + 1 \in DOMAIN published[t]
              /\ applied'[t] = applied[t] + 1 /\ published' = published
              /\ store'[t] = IF Final(t) THEN store[t] ELSE published[t][applied[t] + 1]
<1>0. TypeOK
  BY DEF GInv
<1>1. ASSUME NEW u \in Tasks, Apply(u)
      PROVE  \/ store'[t] = store[t] /\ applied'[t] = applied[t]
             \/ /\ applied[t] + 1 \in DOMAIN published[t]
                /\ applied'[t] = applied[t] + 1 /\ published' = published
                /\ store'[t] = IF Final(t) THEN store[t] ELSE published[t][applied[t] + 1]
  <2>1. /\ applied[u] + 1 \in DOMAIN published[u]
        /\ applied' = [applied EXCEPT ![u] = applied[u] + 1] /\ published' = published
        /\ store' = [store EXCEPT ![u] = IF Final(u) THEN store[u]
                                         ELSE published[u][applied[u] + 1]]
    BY <1>0, <1>1, ApplyFacts
  <2> QED
    BY <1>0, <2>1 DEF TypeOK
<1>2. CASE Crash
  BY <1>0, <1>2 DEF Crash, TypeOK
<1> QED
  BY <1>0, <1>1, <1>2
     DEF TypeOK, Next, vars, Start, RouteToPeer, RouteToNobody, RouteRaises, EndDispatch,
         Reply, Publish, Cancel, StopExecution

\* The counters only grow.
LEMMA CountersGrow ==
    ASSUME TypeOK, [Next]_vars
    PROVE  (cancels' = 0 => cancels = 0) /\ (crashes' = 0 => crashes = 0)
<1>1. cancels' = cancels \/ cancels' = cancels + 1
  BY DEF Next, vars, Start, RouteToPeer, RouteToNobody, RouteRaises, EndDispatch, Reply,
         Publish, Cancel, StopExecution, Apply, Crash
<1>2. crashes' = crashes \/ crashes' = crashes + 1
  BY DEF Next, vars, Start, RouteToPeer, RouteToNobody, RouteRaises, EndDispatch, Reply,
         Publish, Cancel, StopExecution, Apply, Crash
<1>3. cancels \in Nat /\ crashes \in Nat
  BY GatewayAssumption DEF TypeOK
<1> QED
  BY <1>1, <1>2, <1>3

LEMMA MatchedStep == GInv /\ OutcomeInv /\ VerdictsMatched /\ [Next]_vars => VerdictsMatched'
<1> SUFFICES ASSUME GInv, OutcomeInv, VerdictsMatched, [Next]_vars PROVE VerdictsMatched'
  OBVIOUS
<1>0. TypeOK
  BY DEF GInv
<1>1. ASSUME NEW m \in Messages, NEW t \in Tasks, NEW v, Ran(m, t, v)
      PROVE  pc'[m] = "over" /\ task'[m] = t /\ VerdictOf(outcome'[m]) = v
  BY <1>1, OverStays DEF Ran
<1>2. ASSUME NEW t \in Tasks, NEW i \in DOMAIN published'[t],
             published'[t][i].state \in VerdictStates
      PROVE  \E m \in Messages : /\ pc'[m] = "over" /\ task'[m] = t
                                 /\ VerdictOf(outcome'[m]) = published'[t][i].state
  <2>1. CASE i \in DOMAIN published[t]
    BY <1>1, <1>2, <2>1, EventsGrow DEF VerdictsMatched
  <2>2. CASE i \notin DOMAIN published[t]
    BY <1>2, <2>2, EventsGrow, FixedEvents DEF VerdictStates
  <2> QED
    BY <2>1, <2>2
<1>3. ASSUME NEW t \in Tasks, store'[t].state \in VerdictStates
      PROVE  \E m \in Messages : /\ pc'[m] = "over" /\ task'[m] = t
                                 /\ VerdictOf(outcome'[m]) = store'[t].state
  <2>1. CASE store'[t] = store[t]
    BY <1>1, <1>3, <2>1 DEF VerdictsMatched
  <2>2. CASE applied[t] + 1 \in DOMAIN published[t] /\ store'[t] = published[t][applied[t] + 1]
    BY <1>1, <1>3, <2>2 DEF VerdictsMatched
  <2> QED
    BY <2>1, <2>2, RowMoves
<1>4. ASSUME NEW t \in Tasks, crashes' = 0, NEW i \in DOMAIN published'[t],
             i <= applied'[t], published'[t][i].state \in VerdictStates
      PROVE  Final(t)'
  <2>1. crashes = 0
    BY <1>0, <1>4, CountersGrow
  <2>2. CASE store'[t] = store[t] /\ applied'[t] = applied[t]
    <3>1. /\ applied[t] \in Nat /\ applied[t] <= Len(published[t])
          /\ DOMAIN published[t] = 1 .. Len(published[t]) /\ Len(published[t]) \in Nat
      BY <1>0 DEF TypeOK
    <3>2. i \in Nat \ {0}
      <4>1. published'[t] \in Seq(Event)
        BY GatewayStep DEF GInv, TypeOK
      <4> QED
        BY <1>4, <4>1
    <3>3. i \in DOMAIN published[t]
      BY <1>4, <2>2, <3>1, <3>2
    <3> QED
      BY <1>4, <2>1, <2>2, <3>3, EventsGrow DEF VerdictsMatched, Final
  <2>3. CASE /\ applied[t] + 1 \in DOMAIN published[t]
             /\ applied'[t] = applied[t] + 1 /\ published' = published
             /\ store'[t] = IF Final(t) THEN store[t] ELSE published[t][applied[t] + 1]
    <3>1. CASE Final(t)
      BY <2>3, <3>1 DEF Final
    <3>2. CASE ~Final(t)
      <4>1. i = applied[t] + 1
        <5>1. applied[t] \in Nat /\ i \in Nat
          BY <1>0, <1>4, <2>3 DEF TypeOK
        <5>2. ~(i <= applied[t])
          BY <1>4, <2>1, <2>3, <3>2 DEF VerdictsMatched
        <5> QED
          BY <1>4, <2>3, <5>1, <5>2
      <4> QED
        BY <1>4, <2>3, <3>2, <4>1 DEF Final, VerdictStates
    <3> QED
      BY <3>1, <3>2
  <2> QED
    BY <1>4, <2>2, <2>3, RowMoves
<1>5. ASSUME NEW m \in Messages, pc'[m] = "over"
      PROVE  \E i \in DOMAIN published'[task'[m]] :
                published'[task'[m]][i].state = VerdictOf(outcome'[m])
  <2>1. task' = task /\ task[m] \in Tasks
    BY <1>0, OverStays DEF TypeOK
  <2>2. CASE pc[m] = "over"
    <3>1. outcome'[m] = outcome[m]
      BY <2>2, OverStays
    <3> QED
      BY <2>1, <2>2, <3>1, EventsGrow DEF VerdictsMatched
  <2>3. CASE pc[m] # "over"
    BY <1>5, <2>1, <2>3, NewlyOver
  <2> QED
    BY <2>2, <2>3
<1> QED
  BY <1>2, <1>3, <1>4, <1>5 DEF VerdictsMatched, Ran

LEMMA CancelStep == GInv /\ OutcomeInv /\ CancelInv /\ [Next]_vars => CancelInv'
<1> SUFFICES ASSUME GInv, OutcomeInv, CancelInv, [Next]_vars, cancels' = 0 PROVE
        /\ \A t \in Tasks :
              /\ \A i \in DOMAIN published'[t] : published'[t][i].state # "canceled"
              /\ store'[t].state # "canceled"
        /\ \A m \in Messages : pc'[m] # "stopped"
  BY DEF CancelInv
<1>0. TypeOK
  BY DEF GInv
<1>1. cancels = 0
  BY <1>0, CountersGrow
<1>2. ASSUME NEW t \in Tasks, NEW i \in DOMAIN published'[t]
      PROVE  published'[t][i].state # "canceled"
  BY <1>1, <1>2, EventsGrow, FixedEvents DEF CancelInv, VerdictOf
<1>3. ASSUME NEW t \in Tasks PROVE store'[t].state # "canceled"
  BY <1>1, RowMoves DEF CancelInv
<1>4. ASSUME NEW m \in Messages PROVE pc'[m] # "stopped"
  <2>1. \A t \in Tasks : ~CancelCalled(t)
    BY <1>1, FixedEvents DEF CancelInv, CancelCalled
  <2>2. ~StopExecution(m)
    BY <1>0, <2>1 DEF StopExecution, TypeOK
  <2>3. pc[m] # "stopped"
    BY <1>1 DEF CancelInv
  <2> QED
  BY <1>0, <2>2, <2>3
     DEF TypeOK, Next, vars, Start, RouteToPeer, RouteToNobody,
         RouteRaises, EndDispatch, Reply, Publish, Cancel, StopExecution, Apply, Crash
<1> QED
  BY <1>2, <1>3, <1>4

\* Counting the end of a dispatch adds it to the dispatches counted so.
LEMMA CountStep == GInv /\ OutcomeInv /\ CountInv /\ [Next]_vars => CountInv'
<1> SUFFICES ASSUME GInv, OutcomeInv, CountInv, [Next]_vars, crashes' = 0 PROVE CountInv'
  BY DEF CountInv
<1>0. TypeOK
  BY DEF GInv
<1>1. crashes = 0
  BY <1>0, CountersGrow
<1>2. ASSUME NEW m \in Messages, NEW reply \in Replies \cup {Unrouted},
             outcome[m] = "none", EndDispatch(m, reply)
      PROVE  CountInv'
  <2>1. PICK v \in VerdictStates : v = VerdictOf(reply)
    BY DEF VerdictOf, VerdictStates
  <2>2. /\ CountedAs(v)' = CountedAs(v) \cup {m} /\ m \notin CountedAs(v)
        /\ \A w \in VerdictStates \ {v} : CountedAs(w)' = CountedAs(w)
    <3>1. outcome' = [outcome EXCEPT ![m] = reply] /\ reply # "none"
      BY <1>2 DEF EndDispatch, Replies, Unrouted
    <3>2. /\ outcome'[m] = reply
          /\ \A n \in Messages \ {m} : outcome'[n] = outcome[n]
      BY <1>0, <3>1 DEF TypeOK
    <3> QED
      BY <1>2, <2>1, <3>1, <3>2 DEF CountedAs, VerdictOf
  <2>3. \A w \in VerdictStates : IsFiniteSet(CountedAs(w))
    <3>1. \A w \in VerdictStates : CountedAs(w) \subseteq Messages
      BY DEF CountedAs
    <3> QED
      BY <3>1, GatewayAssumption, FS_Subset
  <2>4. Cardinality(CountedAs(v)') = Cardinality(CountedAs(v)) + 1
    BY <2>2, <2>3, FS_AddElement
  <2>5. \A n \in Messages : pc'[n] # "lost"
    BY <1>0, <1>1, <1>2 DEF EndDispatch, CountInv, TypeOK
  <2>6. /\ v = "completed" => /\ dispatched'.success = dispatched.success + 1
                              /\ dispatched'.error = dispatched.error
        /\ v = "failed" => /\ dispatched'.error = dispatched.error + 1
                           /\ dispatched'.success = dispatched.success
    BY <1>0, <1>2, <2>1 DEF EndDispatch, Count, VerdictOf, TypeOK
  <2> QED
    BY <1>1, <2>1, <2>2, <2>4, <2>5, <2>6 DEF CountInv, VerdictStates
<1>3. ASSUME UNCHANGED <<outcome, dispatched>>,
             \A m \in Messages : pc'[m] = "lost" => pc[m] = "lost"
      PROVE  CountInv'
  BY <1>1, <1>3 DEF CountInv, CountedAs
<1>4. ASSUME NEW m \in Messages,
             \/ Start(m) \/ RouteToPeer(m) \/ RouteRaises(m) \/ Publish(m) \/ StopExecution(m)
      PROVE  CountInv'
  BY <1>0, <1>3, <1>4
     DEF TypeOK, Start, RouteToPeer, RouteRaises, Publish, StopExecution
<1>5. ASSUME NEW m \in Messages, RouteToNobody(m) \/ Reply(m) PROVE CountInv'
  <2>1. outcome[m] = "none"
    BY <1>5 DEF OutcomeInv, RouteToNobody, Reply
  <2> QED
    BY <1>2, <1>5, <2>1 DEF RouteToNobody, Reply
<1>6. ASSUME NEW t \in Tasks, Cancel(t) \/ Apply(t) PROVE CountInv'
  BY <1>3, <1>6 DEF Cancel, Apply
<1>7. CASE UNCHANGED vars
  BY <1>3, <1>7 DEF vars
<1>8. ~Crash
  BY <1>0, <1>1 DEF Crash, TypeOK
<1> QED
  BY <1>4, <1>5, <1>6, <1>7, <1>8 DEF Next

\* The invariants hold at first.
LEMMA MetricsInit == Init => VerdictsMatched /\ CancelInv /\ CountInv
<1> SUFFICES ASSUME Init PROVE VerdictsMatched /\ CancelInv /\ CountInv
  OBVIOUS
<1>1. VerdictsMatched /\ CancelInv
  BY DEF Init, VerdictsMatched, CancelInv, NoRow, VerdictStates
<1>2. CountedAs("completed") = {} /\ CountedAs("failed") = {}
  BY DEF Init, CountedAs
<1>3. CountInv
  BY <1>2, FS_EmptySet DEF Init, CountInv
<1> QED
  BY <1>1, <1>3

\* A set that maps one to one into a finite one is no larger.
LEMMA NoLarger ==
    ASSUME NEW S, NEW T, IsFiniteSet(T), NEW f \in [S -> T],
           \A x, y \in S : f[x] = f[y] => x = y
    PROVE  Cardinality(S) <= Cardinality(T) /\ Cardinality(S) \in Nat /\ Cardinality(T) \in Nat
<1>1. f \in Injection(S, T)
  BY DEF Injection, IsInjective
<1> QED
  BY <1>1, FS_Injection, FS_CardinalityType

\* Each stored verdict is that of an execution of the task, whose dispatch was
\* counted.
LEMMA StoredWereCounted ==
    ASSUME VerdictsMatched, OutcomeInv, NEW v \in VerdictStates
    PROVE  /\ Cardinality(Stored(v)) <= Cardinality(CountedAs(v))
           /\ Cardinality(Stored(v)) \in Nat /\ Cardinality(CountedAs(v)) \in Nat
<1> DEFINE f == [t \in Stored(v) |-> CHOOSE m \in CountedAs(v) : task[m] = t]
<1>1. \A t \in Stored(v) : \E m \in CountedAs(v) : task[m] = t
  BY DEF VerdictsMatched, OutcomeInv, Stored, CountedAs, Ran
<1>2. \A t \in Stored(v) : f[t] \in CountedAs(v) /\ task[f[t]] = t
  BY <1>1
<1>3. f \in [Stored(v) -> CountedAs(v)]
  BY <1>2
<1>4. \A t, u \in Stored(v) : f[t] = f[u] => t = u
  BY <1>2
<1>5. IsFiniteSet(CountedAs(v))
  <2>1. CountedAs(v) \subseteq Messages
    BY DEF CountedAs
  <2> QED
    BY <2>1, GatewayAssumption, FS_Subset
<1> HIDE DEF f
<1> QED
  BY <1>3, <1>4, <1>5, NoLarger

\* When all is quiet, each dispatch that was counted has made the verdict of
\* its task, and no two that of one task.
LEMMA CountedAreStored ==
    ASSUME GInv, VerdictsMatched, OutcomeInv, CancelInv, CountInv, crashes = 0, Quiet,
           NEW v \in VerdictStates
    PROVE  Cardinality(CountedAs(v)) <= Cardinality(Stored(v))
<1>1. ASSUME NEW m \in CountedAs(v) PROVE m \in At(task[m], {"over"}) /\ task[m] \in Tasks
  <2>1. PICK t \in Tasks : t = task[m]
    BY DEF GInv, TypeOK, CountedAs
  <2>2. m \in Messages /\ outcome[m] # "none" /\ pc[m] # "lost" /\ pc[m] # "stopped"
    BY DEF CountedAs, CountInv, CancelInv, Quiet
  <2>3. pc[m] # "publishing"
    BY <2>1, <2>2 DEF Quiet, At
  <2>4. pc[m] = "over"
    BY <2>2, <2>3 DEF GInv, TypeOK, OutcomeInv
  <2> QED
    BY <2>1, <2>2, <2>4 DEF At
<1>2. ASSUME NEW t \in Tasks, NEW m \in At(t, {"over"}), NEW n \in At(t, {"over"})
      PROVE  m = n
  <2>1. IsFiniteSet(At(t, {"over"}))
    <3>1. At(t, {"over"}) \subseteq Messages
      BY DEF At
    <3> QED
      BY <3>1, GatewayAssumption, FS_Subset
  <2>2. SUFFICES ASSUME m # n PROVE FALSE
    OBVIOUS
  <2>3. IsFiniteSet({m}) /\ Cardinality({m}) = 1
    BY FS_Singleton
  <2>4. Cardinality({m} \cup {n}) = 2
    <3>1. n \notin {m}
      BY <2>2
    <3>2. Cardinality({m} \cup {n}) = Cardinality({m}) + 1
      BY <2>3, <3>1, FS_AddElement
    <3> QED
      BY <2>3, <3>2
  <2>5. Cardinality({m} \cup {n}) <= Cardinality(At(t, {"over"}))
    BY <2>1, FS_Subset
  <2>6. Cardinality(At(t, {"over"})) \in Nat /\ Cardinality(At(t, {"over"})) <= 1
    BY <2>1, FS_CardinalityType DEF Quiet
  <2> QED
    BY <2>4, <2>5, <2>6
<1>3. ASSUME NEW m \in CountedAs(v) PROVE task[m] \in Stored(v)
  <2>1. PICK t \in Tasks : t = task[m] /\ m \in At(t, {"over"})
    BY <1>1
  <2>2. PICK i \in DOMAIN published[t] : published[t][i].state = v
    BY <2>1 DEF VerdictsMatched, CountedAs, At
  <2>3. i <= applied[t]
    <3>1. Queued(t) = <<>> /\ published[t] \in Seq(Event) /\ applied[t] \in Nat
      BY DEF Quiet, GInv, TypeOK
    <3>2. applied[t] <= Len(published[t])
      BY DEF GInv, TypeOK
    <3>3. Len(published[t]) \in Nat /\ i \in 1 .. Len(published[t])
      BY <3>1
    <3>4. applied[t] = Len(published[t])
      <4>1. SUFFICES ASSUME applied[t] + 1 <= Len(published[t]) PROVE FALSE
        BY <3>1, <3>2, <3>3
      <4>2. Len(Queued(t)) = Len(published[t]) - applied[t]
        BY <3>1, <3>3, <4>1, SubSeqProperties DEF Queued
      <4> QED
        BY <3>1, <3>3, <4>1, <4>2
    <3> QED
      BY <3>3, <3>4
  <2>4. Final(t)
    BY <2>2, <2>3 DEF VerdictsMatched
  <2>5. store[t].state \in VerdictStates
    BY <2>4 DEF Final, CancelInv, Quiet, VerdictStates
  <2>6. PICK n \in Messages : Ran(n, t, store[t].state)
    BY <2>5 DEF VerdictsMatched
  <2>7. n = m
    BY <1>2, <2>1, <2>6 DEF Ran, At
  <2> QED
    BY <2>1, <2>6, <2>7 DEF Ran, CountedAs, Stored
<1> DEFINE f == [m \in CountedAs(v) |-> task[m]]
<1>4. f \in [CountedAs(v) -> Stored(v)]
  BY <1>3
<1>5. \A m, n \in CountedAs(v) : f[m] = f[n] => m = n
  BY <1>1, <1>2
<1>6. IsFiniteSet(Stored(v))
  <2>1. Stored(v) \subseteq Tasks
    BY DEF Stored
  <2> QED
    BY <2>1, GatewayAssumption, FS_Subset
<1> HIDE DEF f
<1> QED
  BY <1>4, <1>5, <1>6, NoLarger

\* The metrics account for the store until a restart, for any number of tasks,
\* of messages for each, and of cancellations: never behind it, and ahead of
\* it only by dispatches on their way or forestalled by another end.
THEOREM MetricsAccount == Spec => []MetricsAgree
<1>1. GInv /\ OutcomeInv /\ VerdictsMatched /\ CancelInv /\ CountInv => MetricsAgree
  <2> SUFFICES ASSUME GInv, OutcomeInv, VerdictsMatched, CancelInv, CountInv, crashes = 0
               PROVE  /\ Cardinality(Stored("completed")) <= dispatched.success
                      /\ Cardinality(Stored("failed")) <= dispatched.error
                      /\ Quiet =>
                            /\ Cardinality(Stored("completed")) = dispatched.success
                            /\ Cardinality(Stored("failed")) = dispatched.error
    BY DEF MetricsAgree
  <2>1. /\ dispatched.success = Cardinality(CountedAs("completed"))
        /\ dispatched.error = Cardinality(CountedAs("failed"))
    BY DEF CountInv
  <2>2. \A v \in VerdictStates :
           /\ Cardinality(Stored(v)) <= Cardinality(CountedAs(v))
           /\ Cardinality(Stored(v)) \in Nat /\ Cardinality(CountedAs(v)) \in Nat
    BY StoredWereCounted
  <2>3. Quiet => \A v \in VerdictStates : Cardinality(CountedAs(v)) <= Cardinality(Stored(v))
    BY CountedAreStored
  <2> QED
    BY <2>1, <2>2, <2>3 DEF VerdictStates
<1> QED
  BY <1>1, GatewayInit, GatewayStep, MetricsInit, MatchedStep, CancelStep, CountStep,
     PTL DEF Spec
=============================================================================
