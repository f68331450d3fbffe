----------------------------- MODULE WorkerPool -----------------------------
(***************************************************************************)
(* internal/pool/worker.go: one call of ParallelDo, ParallelDoWithError or *)
(* ParallelCollect, with the caller, the goroutines it spawns, the wait    *)
(* group, the mutex of the first error and the result slice.               *)
(*                                                                         *)
(* The callback fn(start, end) is the caller's: here it handles the        *)
(* indices of its range one step at a time (so that the goroutines really  *)
(* interleave), may fail at any of them when it returns an error, and      *)
(* returns the range it was given as its value.                            *)
(***************************************************************************)
EXTENDS Integers, FiniteSets

CONSTANTS
  Sizes,       \* the values of n (zero and negative ones included)
  Thresholds,  \* the values of threshold
  ProcCounts   \* what runtime.GOMAXPROCS(0) may return

ASSUME PoolAssumption ==
  /\ Sizes \subseteq Int
  /\ Thresholds \subseteq Int
  /\ ProcCounts \subseteq Int

VARIABLES
  call,      \* the arguments: [op, n, threshold, procs]; never changes
  pc,        \* the caller: "called", "serial", "spawn" or "returned"
  next,      \* the loop variable start
  idx,       \* the loop variable idx of ParallelCollect
  worker,    \* the frames of fn: start -> [pc, at, slot]
  wg,        \* the wait group's counter
  mu,        \* the start of the frame that holds the mutex, or Free
  firstErr,  \* the start of the frame whose error is kept, or NoErr
  results,   \* ParallelCollect's slice: slot -> the value stored there
  visits     \* how often fn has handled each index

vars == <<call, pc, next, idx, worker, wg, mu, firstErr, results, visits>>

NoErr == -1
Free == -1
Unset == <<0, 0>>   \* the zero value of T: no frame returns it

Ops == {"do", "doErr", "collect"}
Indices == UNION {0..m-1 : m \in Sizes}

n == call.n

-----------------------------------------------------------------------------
(* ChunkSize: the range split evenly over the processors, rounded up.      *)

ChunkSize(size, procs) ==
  LET p == IF procs <= 0 THEN 1 ELSE procs
      c == (size + p - 1) \div p
  IN  IF c < 1 THEN 1 ELSE c

chunk == ChunkSize(n, call.procs)

\* Mutant: the number of slots rounds down
NumChunksFloor == n \div chunk

\* The length of ParallelCollect's result slice
NumChunks == (n + chunk - 1) \div chunk

\* Mutant: the last chunk is not cut at n
ChunkEndOpen(s) == s + chunk

\* Mutant: a chunk's end is taken to be its last index
ChunkEndInclusive(s) == IF s + chunk + 1 > n THEN n ELSE s + chunk + 1

\* The end of the chunk that begins at s
ChunkEnd(s) == IF s + chunk > n THEN n ELSE s + chunk

Serial == 0 < n /\ n < call.threshold

\* Where the frame that begins at s stops
FrameEnd(s) == IF Serial THEN n ELSE ChunkEnd(s)

\* What fn returns for the frame that begins at s
ValueOf(s) == <<s, FrameEnd(s)>>

-----------------------------------------------------------------------------
Init ==
  /\ call \in [op : Ops, n : Sizes, threshold : Thresholds, procs : ProcCounts]
  /\ pc = "called"
  /\ next = 0
  /\ idx = 0
  /\ worker = [s \in {} |-> 0]
  /\ wg = 0
  /\ mu = Free
  /\ firstErr = NoErr
  /\ results = [i \in {} |-> Unset]
  /\ visits = [i \in 0..n-1 |-> 0]

Frame(slot, at) == [pc |-> "run", at |-> at, slot |-> slot]

(* n <= 0 returns at once                                                  *)
CallEmpty ==
  /\ pc = "called"
  /\ n <= 0
  /\ pc' = "returned"
  /\ UNCHANGED <<call, next, idx, worker, wg, mu, firstErr, results, visits>>

(* n < threshold runs fn(0, n) in the calling goroutine                    *)
CallSerial ==
  /\ pc = "called"
  /\ Serial
  /\ pc' = "serial"
  /\ worker' = [s \in {0} |-> Frame(0, 0)]
  /\ UNCHANGED <<call, next, idx, wg, mu, firstErr, results, visits>>

(* otherwise the chunk size is fixed and the results are allocated         *)
CallParallel ==
  /\ pc = "called"
  /\ n > 0
  /\ ~Serial
  /\ pc' = "spawn"
  /\ results' = IF call.op = "collect"
                  THEN [i \in 0..NumChunks-1 |-> Unset]
                  ELSE results
  /\ UNCHANGED <<call, next, idx, worker, wg, mu, firstErr, visits>>

\* Mutant: wg.Add(1) is left to the goroutine, whose Done then hits zero early
SpawnUncounted ==
  /\ pc = "spawn"
  /\ next < n
  /\ worker' = [s \in DOMAIN worker \cup {next} |->
                  IF s = next THEN Frame(idx, next) ELSE worker[s]]
  /\ next' = next + chunk
  /\ idx' = idx + 1
  /\ UNCHANGED <<call, pc, wg, mu, firstErr, results, visits>>

(* one iteration of the loop: wg.Add(1), then the goroutine of one chunk   *)
Spawn ==
  /\ pc = "spawn"
  /\ next < n
  /\ wg' = wg + 1
  /\ worker' = [s \in DOMAIN worker \cup {next} |->
                  IF s = next THEN Frame(idx, next) ELSE worker[s]]
  /\ next' = next + chunk
  /\ idx' = idx + 1
  /\ UNCHANGED <<call, pc, mu, firstErr, results, visits>>

(* wg.Wait() after the loop, then return                                   *)
Return ==
  /\ pc = "spawn"
  /\ next >= n
  /\ wg = 0
  /\ pc' = "returned"
  /\ UNCHANGED <<call, next, idx, worker, wg, mu, firstErr, results, visits>>

(* the serial call returns what fn returned                                *)
ReturnSerial ==
  /\ pc = "serial"
  /\ worker[0].pc \in {"ok", "err"}
  /\ pc' = "returned"
  /\ firstErr' = IF worker[0].pc = "err" THEN 0 ELSE firstErr
  /\ results' = IF call.op = "collect" THEN [i \in {0} |-> ValueOf(0)] ELSE results
  /\ worker' = [worker EXCEPT ![0].pc = "done"]
  /\ UNCHANGED <<call, next, idx, wg, mu, visits>>

-----------------------------------------------------------------------------
(* The frames of fn                                                        *)

At(s, where) == s \in DOMAIN worker /\ worker[s].pc = where
Goto(s, where) == worker' = [worker EXCEPT ![s].pc = where]

(* fn handles the next index of its range                                  *)
Visit(s) ==
  /\ At(s, "run")
  /\ worker[s].at < FrameEnd(s)
  /\ visits' = [visits EXCEPT ![worker[s].at] = @ + 1]
  /\ worker' = [worker EXCEPT ![s].at = @ + 1]
  /\ UNCHANGED <<call, pc, next, idx, wg, mu, firstErr, results>>

(* fn returns after its last index                                         *)
FnReturn(s) ==
  /\ At(s, "run")
  /\ worker[s].at = FrameEnd(s)
  /\ Goto(s, "ok")
  /\ UNCHANGED <<call, pc, next, idx, wg, mu, firstErr, results, visits>>

(* fn gives up at some index with an error                                 *)
FnFail(s) ==
  /\ At(s, "run")
  /\ call.op = "doErr"
  /\ worker[s].at < FrameEnd(s)
  /\ Goto(s, "err")
  /\ UNCHANGED <<call, pc, next, idx, wg, mu, firstErr, results, visits>>

(* a goroutine whose fn succeeded: results[i] = fn(s, e)                   *)
Store(s) ==
  /\ pc # "serial"
  /\ At(s, "ok")
  /\ results' = IF call.op = "collect"
                  THEN [results EXCEPT ![worker[s].slot] = ValueOf(s)]
                  ELSE results
  /\ Goto(s, "exit")
  /\ UNCHANGED <<call, pc, next, idx, wg, mu, firstErr, visits>>

\* Mutant: the mutex is not taken
LockErrRacy(s) ==
  /\ pc # "serial"
  /\ At(s, "err")
  /\ Goto(s, "held")
  /\ UNCHANGED <<call, pc, next, idx, wg, mu, firstErr, results, visits>>

(* mu.Lock() of a goroutine whose fn failed                                *)
LockErr(s) ==
  /\ pc # "serial"
  /\ At(s, "err")
  /\ mu = Free
  /\ mu' = s
  /\ Goto(s, "held")
  /\ UNCHANGED <<call, pc, next, idx, wg, firstErr, results, visits>>

(* firstErr == nil ? -- the read under the lock; unlocks if already set    *)
CheckErr(s) ==
  /\ At(s, "held")
  /\ IF firstErr = NoErr
       THEN Goto(s, "write") /\ mu' = mu
       ELSE Goto(s, "exit") /\ mu' = Free
  /\ UNCHANGED <<call, pc, next, idx, wg, firstErr, results, visits>>

(* firstErr = err; mu.Unlock()                                             *)
WriteErr(s) ==
  /\ At(s, "write")
  /\ firstErr' = s
  /\ mu' = Free
  /\ Goto(s, "exit")
  /\ UNCHANGED <<call, pc, next, idx, wg, results, visits>>

\* Mutant: a failed goroutine never calls Done
DoneSkippedOnError(s) ==
  /\ At(s, "exit")
  /\ worker[s].at = FrameEnd(s)
  /\ wg' = wg - 1
  /\ Goto(s, "done")
  /\ UNCHANGED <<call, pc, next, idx, mu, firstErr, results, visits>>

(* the deferred wg.Done()                                                  *)
Done(s) ==
  /\ At(s, "exit")
  /\ wg' = wg - 1
  /\ Goto(s, "done")
  /\ UNCHANGED <<call, pc, next, idx, mu, firstErr, results, visits>>

-----------------------------------------------------------------------------
Caller == CallEmpty \/ CallSerial \/ CallParallel \/ Spawn \/ Return \/ ReturnSerial

Worker(s) ==
  \/ Visit(s) \/ FnReturn(s) \/ FnFail(s)
  \/ Store(s) \/ LockErr(s) \/ CheckErr(s) \/ WriteErr(s) \/ Done(s)

(* the call is over and no goroutine of it is left                         *)
Finished ==
  /\ pc = "returned"
  /\ \A s \in DOMAIN worker : worker[s].pc = "done"
  /\ UNCHANGED vars

Next == Caller \/ (\E s \in Indices : Worker(s)) \/ Finished

Spec == Init /\ [][Next]_vars

(* Go's scheduler runs every goroutine that can run, and a mutex is handed *)
(* to a waiter once it is free: each frame and the caller are weakly fair. *)
FairSpec == Spec /\ WF_vars(Caller) /\ \A s \in Indices : WF_vars(Worker(s))

-----------------------------------------------------------------------------
(* Properties                                                              *)

WorkerPcs == {"run", "ok", "err", "held", "write", "exit", "done"}

(* The types of the variables.                                             *)
TypeOK ==
  /\ call \in [op : Ops, n : Sizes, threshold : Thresholds, procs : ProcCounts]
  /\ pc \in {"called", "serial", "spawn", "returned"}
  /\ next \in Nat
  /\ idx \in Nat
  /\ DOMAIN worker \subseteq 0..n-1
  /\ \A s \in DOMAIN worker : worker[s] \in [pc : WorkerPcs, at : 0..n, slot : Nat]
  /\ wg \in Nat
  /\ mu \in DOMAIN worker \cup {Free}
  /\ firstErr \in DOMAIN worker \cup {NoErr}
  /\ DOMAIN results \subseteq Nat
  /\ \A i \in DOMAIN results : results[i] \in (0..n) \X (0..n)
  /\ visits \in [0..n-1 -> Nat]

(* Chunks never overlap and never leave a gap: no index is ever handled    *)
(* twice, and a call that returns without an error has handled them all.   *)
EachIndexOnce ==
  /\ \A i \in 0..n-1 : visits[i] <= 1
  /\ pc = "returned" /\ firstErr = NoErr => \A i \in 0..n-1 : visits[i] = 1

(* When the call has returned no goroutine of it writes any more: the      *)
(* caller may read the slices fn filled without further synchronisation.   *)
NothingAfterReturn ==
  [][pc = "returned" => UNCHANGED <<visits, results, firstErr>>]_vars

(* ParallelCollect returns the values of the chunks in chunk order with no *)
(* slot left at its zero value: consecutive, from 0 to n.                  *)
CollectInChunkOrder ==
  pc = "returned" /\ call.op = "collect" /\ n > 0 =>
    LET last == Cardinality(DOMAIN results) - 1
    IN  /\ DOMAIN results = 0..last
        /\ results[0][1] = 0
        /\ results[last][2] = n
        /\ \A i \in 0..last-1 : results[i][2] = results[i+1][1]
        /\ \A i \in 0..last : results[i][1] < results[i][2]

Failed(s) == worker[s].pc = "done" /\ worker[s].at < FrameEnd(s)

(* ParallelDoWithError returns nil exactly when no chunk failed, and an    *)
(* error that one of the failed chunks returned.                           *)
ErrorReported ==
  pc = "returned" =>
    /\ (firstErr = NoErr) <=> (\A s \in DOMAIN worker : ~Failed(s))
    /\ firstErr # NoErr => Failed(firstErr)

(* The first error is kept: a later failure never replaces it.             *)
FirstErrorKept == [][firstErr # NoErr => firstErr' = firstErr]_vars

(* The caller is always released, whatever fails.                          *)
Terminates == <>(pc = "returned")

(* The pool implements the plain loop its callers rely on.                 *)
Loop == INSTANCE IndexLoop WITH
  mayFail <- call.op = "doErr",
  handled <- visits,
  outcome <- IF pc # "returned" THEN "pending"
             ELSE IF firstErr = NoErr THEN "ok" ELSE "failed"

ImplementsLoop == Loop!LoopSpec
=============================================================================
