----------------------------- MODULE IpManager -----------------------------
(***************************************************************************)
(* CIpManager: the number of open connections of each client address       *)
(* (src/src/IpManager.cpp).  The class holds a std::map and no mutex, so    *)
(* its two updates are given here as a pair: what `find' reads, and what    *)
(* the assignment that follows leaves in the map.  A caller that runs alone *)
(* does both at once; callers that run together may interleave them.        *)
(*                                                                         *)
(* A table is a function from addresses to -1 (no entry) or to the value of *)
(* the entry's uint16_t counter.                                           *)
(***************************************************************************)
EXTENDS Integers

CONSTANTS
  Addr,              \* the addresses clients connect from
  MaxIpConnection,   \* the configured limit; the INI value is any int
  CountMod           \* the counter's modulus: 2^16 in the code

ASSUME IpAssumption ==
  /\ MaxIpConnection \in Int
  /\ CountMod \in Nat
  /\ CountMod >= 2

NoEntry == -1

Count == NoEntry .. CountMod - 1

EmptyTable == [a \in Addr |-> NoEntry]

\* The number of connections an entry stands for.
Connections(n) == IF n = NoEntry THEN 0 ELSE n

Incremented(n) == IF n = CountMod - 1 THEN 0 ELSE n + 1

Decremented(n) == IF n = 0 THEN CountMod - 1 ELSE n - 1

\* Mutant: the comparison lets one connection too many in.
CheckIpAddressOffByOne(table, a) ==
  \/ MaxIpConnection = 0
  \/ table[a] = NoEntry
  \/ table[a] <= MaxIpConnection

\* SocketManager::check_ip_limit and CIpManager::CheckIpAddress: an address
\* without an entry is always allowed.
CheckIpAddress(table, a) ==
  \/ MaxIpConnection = 0
  \/ table[a] = NoEntry
  \/ table[a] < MaxIpConnection

\* InsertIpAddress, once `find' saw the entry `seen'.  map::insert keeps an
\* entry that another thread has inserted since, and an increment through the
\* iterator of an entry that another thread has erased reaches no entry.
AfterInsert(table, a, seen) ==
  CASE seen = NoEntry /\ table[a] = NoEntry -> 1
    [] seen = NoEntry /\ table[a] # NoEntry -> table[a]
    [] seen # NoEntry /\ table[a] = NoEntry -> NoEntry
    [] OTHER                                -> Incremented(seen)

\* Mutant: the iterator is not compared with end().
AfterRemoveUnchecked(table, a, seen) ==
  IF seen - 1 = 0 THEN NoEntry ELSE seen - 1

\* RemoveIpAddress, once `find' saw the entry `seen'.
AfterRemove(table, a, seen) ==
  IF seen = NoEntry THEN table[a]
  ELSE IF table[a] = NoEntry \/ Decremented(seen) = 0 THEN NoEntry
  ELSE Decremented(seen)

=============================================================================
