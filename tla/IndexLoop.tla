----------------------------- MODULE IndexLoop -----------------------------
(***************************************************************************)
(* What internal/pool promises its callers: a call over [0, n) behaves as  *)
(* a loop that handles every index exactly once, in some order, and only   *)
(* then returns.  A call whose callback may fail may instead return a      *)
(* failure while some index is still unhandled.  Goroutines, chunks, the   *)
(* wait group and the mutex do not appear here: WorkerPool implements      *)
(* this module.                                                            *)
(***************************************************************************)
EXTENDS Integers

CONSTANT Sizes      \* the n a caller may pass

VARIABLES n,        \* the number of indices of this call
          mayFail,  \* whether the callback returns an error value
          handled,  \* how often each index has been handled
          outcome   \* "pending", "ok" or "failed"

loopVars == <<n, mayFail, handled, outcome>>

LoopInit ==
  /\ n \in Sizes
  /\ mayFail \in BOOLEAN
  /\ handled = [i \in 0..n-1 |-> 0]
  /\ outcome = "pending"

Handle(i) ==
  /\ outcome = "pending"
  /\ handled[i] = 0
  /\ handled' = [handled EXCEPT ![i] = 1]
  /\ UNCHANGED <<n, mayFail, outcome>>

ReturnOk ==
  /\ outcome = "pending"
  /\ \A i \in 0..n-1 : handled[i] = 1
  /\ outcome' = "ok"
  /\ UNCHANGED <<n, mayFail, handled>>

ReturnFailed ==
  /\ outcome = "pending"
  /\ mayFail
  /\ \E i \in 0..n-1 : handled[i] = 0
  /\ outcome' = "failed"
  /\ UNCHANGED <<n, mayFail, handled>>

LoopNext == (\E i \in 0..n-1 : Handle(i)) \/ ReturnOk \/ ReturnFailed

LoopSpec == LoopInit /\ [][LoopNext]_loopVars
=============================================================================
