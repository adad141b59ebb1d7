------------------------------- MODULE IdealRr ------------------------------
(***************************************************************************)
(* What round robin promises, unit by unit: a queue of the jobs that have  *)
(* arrived, the first of which is served for at most Quantum units before  *)
(* it goes to the back.  A job whose quantum ends at the very moment       *)
(* another arrives is queued before the newcomer.                          *)
(***************************************************************************)
EXTENDS Integers, Sequences

CONSTANTS Job, Quantum

VARIABLES arrive, need,  \* the input
          now,           \* units gone by
          got,           \* units each job has been served
          coming,        \* jobs that are not in the queue yet
          queue,
          used           \* units of the current quantum used by Head(queue)

vars == <<arrive, need, now, got, coming, queue, used>>

Init ==
  /\ arrive \in [Job -> Nat]
  /\ need \in [Job -> Nat \ {0}]
  /\ now = 0
  /\ got = [j \in Job |-> 0]
  /\ coming = Job
  /\ queue = << >>
  /\ used = 0

Done == got[Head(queue)] = need[Head(queue)]
Expired == used = Quantum /\ ~Done
Overdue == {j \in coming : arrive[j] <= now}

Admit(j) ==
  /\ j \in Overdue
  /\ queue # << >> => ~Expired
  /\ coming' = coming \ {j}
  /\ queue' = Append(queue, j)
  /\ UNCHANGED <<arrive, need, now, got, used>>

\* Nobody is served before everyone who has arrived is in the queue.
Serve ==
  /\ queue # << >>
  /\ Overdue = {}
  /\ ~Done /\ ~Expired
  /\ got' = [got EXCEPT ![Head(queue)] = @ + 1]
  /\ used' = used + 1
  /\ now' = now + 1
  /\ UNCHANGED <<arrive, need, coming, queue>>

Rotate ==
  /\ queue # << >>
  /\ Expired
  /\ queue' = Append(Tail(queue), Head(queue))
  /\ used' = 0
  /\ UNCHANGED <<arrive, need, now, got, coming>>

Leave ==
  /\ queue # << >>
  /\ Done
  /\ queue' = Tail(queue)
  /\ used' = 0
  /\ UNCHANGED <<arrive, need, now, got, coming>>

Idle ==
  /\ queue = << >>
  /\ Overdue = {}
  /\ coming # {}
  /\ now' = now + 1
  /\ UNCHANGED <<arrive, need, got, coming, queue, used>>

Next == Serve \/ Rotate \/ Leave \/ Idle \/ \E j \in Job : Admit(j)

Spec == Init /\ [][Next]_vars
=============================================================================
