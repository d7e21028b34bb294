-------------------------- MODULE HeartbeatMonitor --------------------------
(***************************************************************************)
(* What the server list promises about the servers it hears from: one that  *)
(* has sent a heartbeat is online, goes offline only after a silence of     *)
(* more than Timeout, and does so within a grace period.                    *)
(***************************************************************************)
EXTENDS Integers

CONSTANTS Source, Timeout, Grace

VARIABLES online, silence

vars == <<online, silence>>

Init ==
  /\ online = [s \in Source |-> FALSE]
  /\ silence \in [Source -> Nat]

Beat(s) ==
  /\ online' = [online EXCEPT ![s] = TRUE]
  /\ silence' = [silence EXCEPT ![s] = 0]

\* A server is declared offline for its silence alone.
Expire(s) ==
  /\ online[s]
  /\ silence[s] > Timeout
  /\ online' = [online EXCEPT ![s] = FALSE]
  /\ UNCHANGED silence

\* Time passes.  An online server's silence never outgrows the grace period;
\* how long an offline one has been silent no longer matters.
Pass ==
  /\ \A s \in Source : online[s] => silence[s] < Timeout + Grace
  /\ silence' \in [Source -> Nat]
  /\ \A s \in Source : online[s] => silence'[s] = silence[s] + 1
  /\ UNCHANGED online

Next == Pass \/ \E s \in Source : Beat(s) \/ Expire(s)

Spec == Init /\ [][Next]_vars

=============================================================================
