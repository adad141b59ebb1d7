------------------------------ MODULE IdealCpu ------------------------------
(***************************************************************************)
(* What each scheduling policy promises, unit by unit, with no processes,  *)
(* pipes or priorities: at every unit of time the CPU either serves one    *)
(* job that has arrived and is not finished, chosen by the policy, or -     *)
(* only when there is none - idles until the next arrival.                 *)
(***************************************************************************)
EXTENDS Integers

CONSTANT Job

VARIABLES arrive, need,  \* the input
          now,           \* units gone by
          got            \* units each job has been served

vars == <<arrive, need, now, got>>

Init ==
  /\ arrive \in [Job -> Nat]
  /\ need \in [Job -> Nat]
  /\ now = 0
  /\ got = [j \in Job |-> 0]

Pending == {j \in Job : arrive[j] <= now /\ got[j] < need[j]}

\* The CPU is never left idle while a job is pending, nor after the last one.
Idle ==
  /\ Pending = {}
  /\ \E j \in Job : arrive[j] > now
  /\ now' = now + 1
  /\ UNCHANGED <<arrive, need, got>>

Serve(j) ==
  /\ j \in Pending
  /\ got' = [got EXCEPT ![j] = @ + 1]
  /\ now' = now + 1
  /\ UNCHANGED <<arrive, need>>

\* A job once started keeps the CPU.
NonPreemptive(j) == \A k \in Pending : got[k] > 0 => k = j

FifoNext ==
  \/ Idle
  \/ \E j \in Job : /\ Serve(j)
                    /\ NonPreemptive(j)
                    /\ \A k \in Pending : arrive[j] <= arrive[k]

SjfNext ==
  \/ Idle
  \/ \E j \in Job : /\ Serve(j)
                    /\ NonPreemptive(j)
                    /\ got[j] = 0 => \A k \in Pending : need[j] <= need[k]

PsjfNext ==
  \/ Idle
  \/ \E j \in Job : /\ Serve(j)
                    /\ \A k \in Pending : need[j] - got[j] <= need[k] - got[k]

FifoSpec == Init /\ [][FifoNext]_vars
SjfSpec == Init /\ [][SjfNext]_vars
PsjfSpec == Init /\ [][PsjfNext]_vars
=============================================================================
