-------------------------- MODULE MCClosePosition --------------------------
(***************************************************************************)
(* ClosePosition for TLC: the environments its models run in.  Each names  *)
(* what may happen beyond the ordinary, and is no wider than the           *)
(* properties checked in it allow.                                         *)
(***************************************************************************)
EXTENDS ClosePosition

\* Everybody behaves; updates may still be lost, repeated and reordered.
Ordinary == {}

\* Whatever the broker may do, and events that outlive their retention.
BrokerAnomalies == {"early", "latefill", "noseq", "notfound", "expiry"}

\* Whatever may befall a worker between its claim and its commit.
WorkerAnomalies == {"ambiguous", "slow", "crash", "early"}

\* A worker dies, or merely takes longer than the zombie threshold.
LateOrDeadWorker == {"slow", "crash"}

\* Outbox events are old enough to be cleaned up.
Retention == {"expiry"}
=============================================================================
