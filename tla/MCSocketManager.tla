-------------------------- MODULE MCSocketManager --------------------------
(***************************************************************************)
(* SocketManager for TLC: the symmetry of the session objects' names.       *)
(***************************************************************************)
EXTENDS SocketManager, TLC

\* Session objects are interchangeable: no constant or action names one.
SessionSymmetry == Permutations(Session)

\* So are the workers, and the addresses.
Symmetry == Permutations(Session) \cup Permutations(Worker) \cup Permutations(Addr)

=============================================================================
