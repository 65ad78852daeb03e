---------------------------- MODULE TaskDelivery ----------------------------
(***************************************************************************)
(* What the run-dispatch queue promises of a task, as RunQueuePort names   *)
(* it (enqueue, dequeue, ack): first in, first out, and at most once.  A   *)
(* task is sent, taken by one worker and finished by it, or it is lost.    *)
(* Nothing takes a task a second time and nothing brings a lost one back.  *)
(* A durable queue loses a task only out of a worker's hands.              *)
(***************************************************************************)
EXTENDS Naturals

CONSTANT Task             \* task numbers, in the order they are sent

VARIABLES state,          \* state[t]: where task t is
          durable         \* the pending tasks outlive every process

deliveryVars == <<state, durable>>

TaskState == {"unsent", "queued", "taken", "done", "lost"}

In(s) == {t \in Task : state[t] = s}

Init == /\ state = [t \in Task |-> "unsent"]
        /\ durable \in BOOLEAN

Move(t, s) == /\ state' = [state EXCEPT ![t] = s]
              /\ UNCHANGED durable

\* enqueue(): a task is sent after the ones numbered before it.
Send(t) == /\ state[t] = "unsent"
           /\ \A s \in In("unsent") : t <= s
           /\ Move(t, "queued")

\* dequeue(): the task that has waited longest.
Take(t) == /\ state[t] = "queued"
           /\ \A s \in In("queued") : t <= s
           /\ Move(t, "taken")

\* ack(), after the handler has returned.
Finish(t) == /\ state[t] = "taken"
             /\ Move(t, "done")

\* A process ends with tasks in its hands, or in its memory.
Losable == {"taken"} \cup (IF durable THEN {} ELSE {"queued"})

Lose == /\ state' \in [Task -> TaskState]
        /\ \A t \in Task : state'[t] # state[t] =>
               state[t] \in Losable /\ state'[t] = "lost"
        /\ UNCHANGED durable

Next == (\E t \in Task : Send(t) \/ Take(t) \/ Finish(t)) \/ Lose

Spec == Init /\ [][Next]_deliveryVars
=============================================================================
